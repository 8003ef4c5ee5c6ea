------------------------------ MODULE Operations ------------------------------
(***************************************************************************)
(* What an operator runs beside the server: the jobs of BackupRestore, and *)
(* the one-off commands by which a deployment comes to its identifiers,    *)
(* parts that share nothing: the publication of redirects (Redirects), the *)
(* import of another FAIR Data Point (ReferenceImport), the rebase of      *)
(* graphs (IdentifierRebase) and of metrics (MetricsRebase).               *)
(* A behaviour is of jobs or of one command: `part` and `adopting`.        *)
(***************************************************************************)
EXTENDS BackupRestore

CONSTANTS
  Invocations, Targets,                    \* of the redirects, see Redirects
  SourceRecords, SourceRoot, Elsewhere, Trees, MaxRecords,   \* see ReferenceImport
  Records,                                 \* that a rebase of graphs moves
  MaxInvocations, MaxTries,                \* bounds: redirects, runs of another command
  MaxStops,                                \* bound: of a command, calls that fail
  MaxEdits, MaxRewrites, MaxArrivals       \* bounds: writes of clients and requests meanwhile

VARIABLES
  part,             \* "jobs" or "command"
  adopting,
  upstream, fork, branch, pull, run, begun, errors, told,                    \* redirects
  contains, copies, metas, found, crawl, record, queue, visited, imported,   \* import
  skipped, truncated, unstamped, body, breaks, revised, crawls, torn, overtaken,
  placed, names, move, unmoved, moving, mem, written, stops, moves, latest,   \* rebase
  since, lost,
  raw, agg, statement, table, locked, selected, match, wrote, rolled, requests,  \* counts
  rekeys, aborts, recorded, late, raced

redirects == <<upstream, fork, branch, pull, run, begun, errors, told>>
import    == <<contains, copies, metas, found, crawl, record, queue, visited, imported, skipped,
               truncated, unstamped, body, breaks, revised, crawls, torn, overtaken>>
rebase    == <<placed, names, move, unmoved, moving, mem, written, stops, moves, latest, since,
               lost>>
counts    == <<raw, agg, statement, table, locked, selected, match, wrote, rolled, requests, rekeys,
               aborts, recorded, late, raced>>
adoption  == <<adopting, redirects, import, rebase, counts>>

Redirects_ == INSTANCE Redirects WITH
  Runs <- Invocations, MaxRuns <- MaxInvocations, MaxFaults <- MaxStops, faults <- errors

Import == INSTANCE ReferenceImport WITH
  Records <- SourceRecords, Root <- SourceRoot, MaxFaults <- MaxStops, MaxRuns <- MaxTries,
  graph <- copies, meta <- metas, indexed <- found, pc <- crawl, item <- record,
  todo <- unstamped, mem <- body, faults <- breaks, edits <- revised, runs <- crawls

Rebase == INSTANCE IdentifierRebase WITH
  MaxWrites <- MaxRewrites, MaxFaults <- MaxStops, MaxRuns <- MaxTries,
  graph <- placed, pc <- move, todo <- unmoved, item <- moving, writes <- written, faults <- stops,
  runs <- moves, late <- since, raced <- lost

Counts == INSTANCE MetricsRebase WITH
  MaxRequests <- MaxArrivals, MaxRuns <- MaxTries, MaxFaults <- MaxStops,
  pc <- statement, rows <- selected, moved <- locked, written <- wrote, runs <- rekeys, faults <- aborts

ASSUME OperationsAssumption ==
  /\ Redirects_!RedirectsAssumption /\ Import!ImportAssumption
  /\ Rebase!RebaseAssumption /\ Counts!MetricsRebaseAssumption

Commands == {"redirects", "import", "rebase", "counts"}

NoRows ==
  /\ raw = [p \in {"old", "new"} |-> 0]
  /\ agg = [t \in {"hourly", "daily"} |-> [p \in {"old", "new"} |-> Nil]]

AdoptionInit ==
  /\ adopting \in Commands
  /\ Redirects_!Init /\ Import!Init /\ Rebase!Init /\ Counts!Init
  /\ (adopting # "redirects" => fork)
  /\ (adopting # "counts" => NoRows)

\* One of the initial states, for behaviours of another part.
Resting == adopting = "redirects" /\ fork

Points(A)  == adopting = "redirects" /\ A /\ UNCHANGED <<adopting, import, rebase, counts>>
Imports(A) == adopting = "import"    /\ A /\ UNCHANGED <<adopting, redirects, rebase, counts>>
Rebases(A) == adopting = "rebase"    /\ A /\ UNCHANGED <<adopting, redirects, import, counts>>
Rekeys(A)  == adopting = "counts"    /\ A /\ UNCHANGED <<adopting, redirects, import, rebase>>

AdoptionNext ==
  \/ \E p \in Invocations :
       \/ Points(Redirects_!Begin(p))      \/ Points(Redirects_!Fails(p))
       \/ Points(Redirects_!EnsureFork(p)) \/ Points(Redirects_!ReadBase(p))
       \/ Points(Redirects_!SyncBranch(p)) \/ Points(Redirects_!ReadBlob(p))
       \/ Points(Redirects_!FindPull(p))   \/ Points(Redirects_!CreatePull(p))
       \/ \E f \in Redirects_!Files : Points(Redirects_!PutFile(p, f))
  \/ Points(Redirects_!Merge)
  \/ Imports(Import!Start)      \/ Imports(Import!Pop)       \/ Imports(Import!Fetch)
  \/ Imports(Import!FetchFails) \/ Imports(Import!WriteGraph) \/ Imports(Import!WriteMeta)
  \/ Imports(Import!List)       \/ Imports(Import!ReadGraph) \/ Imports(Import!BindGraph)
  \/ Imports(Import!BindMeta)   \/ Imports(Import!Reindex)   \/ Imports(Import!Ends)
  \/ \E r \in SourceRecords : Imports(Import!Edit(r))
  \/ Rebases(Rebase!Begin) \/ Rebases(Rebase!Copy) \/ Rebases(Rebase!Replace) \/ Rebases(Rebase!Drop)
  \/ Rebases(Rebase!Done)  \/ Rebases(Rebase!Ends) \/ Rebases(Rebase!Adopt)
  \/ \E r \in Records : Rebases(Rebase!Write(r))
  \/ Rekeys(Counts!Begin)  \/ Rekeys(Counts!Raw)    \/ Rekeys(Counts!Select)
  \/ Rekeys(Counts!Match)  \/ Rekeys(Counts!Rename) \/ Rekeys(Counts!Merge)
  \/ Rekeys(Counts!Commit) \/ Rekeys(Counts!Collides) \/ Rekeys(Counts!Fails)
  \/ Rekeys(Counts!Request) \/ Rekeys(Counts!RollReads) \/ Rekeys(Counts!RollCommits)

\* The part a behaviour does not take is at rest.
OperationsInit ==
  /\ Init /\ AdoptionInit /\ part \in {"jobs", "command"}
  /\ IF part = "jobs" THEN Resting ELSE graph = [g \in GraphSet |-> 0]

OperationsNext ==
  \/ part = "jobs" /\ Next /\ UNCHANGED <<part, adoption>>
  \/ part = "command" /\ AdoptionNext /\ UNCHANGED <<part, vars>>

OperationsVars == <<part, vars, adoption>>
OperationsSpec == OperationsInit /\ [][OperationsNext]_OperationsVars

-----------------------------------------------------------------------------
\* A redirect that was reported is there (Redirects); an imported record is there whole
\* (ReferenceImport); a rebase loses no record (IdentifierRebase) and no count (MetricsRebase)
\* but to what overlapped it, and leaves nothing behind.
IdentifiersKept ==
  /\ Redirects_!RedirectPublished
  /\ Import!RecordsAdopted
  /\ Rebase!IdentifiersMoved
  /\ Counts!CountsRekeyed
=============================================================================

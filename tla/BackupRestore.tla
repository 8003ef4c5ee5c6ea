---------------------------- MODULE BackupRestore ----------------------------
(***************************************************************************)
(* Backup and restore (metadata/backup/, storage/postgres/state_backup.py, *)
(* shared/write_freeze.py): jobs of the admin API and commands of the CLI  *)
(* copy the named graphs and the state tables to an archive, or an archive *)
(* back, call by call, while ordinary writes go on.                        *)
(*                                                                         *)
(* A graph's content is the number of the write it is from, 0 when the     *)
(* graph is empty.  The state tables are one set of rows, a row for each   *)
(* write; the derived tables are the search row and the cached decision    *)
(* of the record, each the content it was computed from.  A process is a   *)
(* job of the server or a command; its pc is the call it is about to make. *)
(***************************************************************************)
EXTENDS Naturals, Sequences, FiniteSets

CONSTANTS
  Graphs,     \* the named graphs, in the order of their IRIs
  Record,     \* the one of them that is a record and not a sibling graph
  MaxWrite,   \* bound: ordinary writes, numbered
  Jobs,       \* bound: backup jobs and commands, numbered as they are asked for
  MaxJobs,    \* the capacity of the job registry
  Requests,   \* what is asked of them
  Newest,     \* the newest schema revision this server ships; older ones are smaller
  MaxEvents,  \* bound: jobs, ordinary writes, decisions, calls that raise and restarts, together
  Nil

GraphSet == {Graphs[i] : i \in DOMAIN Graphs}
Writes   == 1 .. MaxWrite
Contents == 0 .. MaxWrite
Stores   == [GraphSet -> Contents]

Archives ==
  [ scope : {"store", "full"}, graphs : Stores, bound : BOOLEAN, rows : SUBSET Writes,
    rev : Nat, base : {"own", "other"}, sealed : BOOLEAN,
    bad : SUBSET {"zip", "records", "audit", "rows", "tables"} ]

JobRequests ==
  [ kind : {"dump"}, via : {"http", "cli"}, scope : {"store", "full"}, audit : BOOLEAN, seal : BOOLEAN ]
    \union
  [ kind : {"restore"}, via : {"http", "cli"}, archive : Archives \union {Nil}, pass : {"none", "right", "wrong"},
    merge : BOOLEAN, overwrite : BOOLEAN, audit : BOOLEAN, dry : BOOLEAN, rebase : BOOLEAN ]

ASSUME BackupAssumption ==
  /\ Graphs \in Seq(GraphSet) /\ Len(Graphs) > 0 /\ Record \in GraphSet
  /\ MaxWrite \in Nat /\ MaxJobs \in Nat \ {0} /\ Newest \in Nat \ {0}
  /\ Jobs \subseteq Nat /\ IsFiniteSet(Jobs) /\ MaxEvents \in Nat
  /\ Requests \subseteq JobRequests
  /\ Nil \notin Stores /\ Nil \notin Requests /\ Nil \notin Archives

VARIABLES
  graph, bound,     \* the triple store; whether the record is bound to a profile
  rows, schema,     \* the state tables and the revision of their schema
  search, decided,  \* the derived tables
  writer,           \* of each ordinary write: its operation and its next call
  holders,          \* the count of the write freeze
  order,            \* the job registry, oldest first
  job, pc,          \* of each job: what it was asked and its state; its next call
  dir,              \* its working directory: "none", "whole", "holed" (made again after a removal)
  todo, got, saved, \* graphs it has still to copy; graphs and rows it has copied
  archive,          \* the archive it has made
  calm,             \* history: the stores when it began, Nil once somebody interfered
  excused,          \* history: a call raised, or its directory was taken away
  early,            \* history: jobs evicted before they had ended
  peeked,           \* history: jobs during which a decision was cached
  events

store  == <<graph, bound, rows, schema, search, decided>>
work   == <<todo, got, saved, archive>>
hist   == <<calm, excused, early, peeked>>
vars   == <<store, writer, holders, order, job, pc, dir, work, hist, events>>

-----------------------------------------------------------------------------
(* What a step knows of its job. *)

Req(j)     == job[j].req
IsHttp(j)  == Req(j).via = "http"
Archive(j) == Req(j).archive
Scope(j)   == IF Req(j).kind = "dump" THEN Req(j).scope ELSE Archive(j).scope
Full(j)    == Scope(j) = "full"
Here(j)    == dir[j] # "none"

Ended(j)   == job[j].state \in {"SUCCEEDED", "FAILED", "none", "gone"}
Running(j) == job[j].state = "RUNNING"
Present    == {g \in GraphSet : graph[g] # 0}

\* The first graph of G in the order of their IRIs.
First(G) == Graphs[CHOOSE i \in DOMAIN Graphs : Graphs[i] \in G /\ \A k \in 1 .. i - 1 : Graphs[k] \notin G]

\* A job holds the freeze from its start (a dump) or from the moment it knows the archive
\* is a full one (a restore) to its end; a command of the CLI holds nothing.
Unfrozen == {"queued", "open", "done"}
Holds(j) == /\ Running(j) /\ IsHttp(j) /\ Full(j)
            /\ IF Req(j).kind = "dump" THEN pc[j] # "queued" ELSE pc[j] \notin Unfrozen

\* One of the events that the bound counts.
Event == events < MaxEvents /\ events' = events + 1

\* calm of j is the stores when j began, unless a write is under way, and until somebody else
\* changes them; a step of j that changes them disturbs the other jobs.
Quiet == \A w \in Writes : writer[w].at = 0 \/ writer[w].op = "done"
Now   == [graph |-> graph, bound |-> bound, rows |-> rows, schema |-> schema,
          search |-> search, decided |-> decided]
Captured(j) == [calm EXCEPT ![j] = IF Quiet THEN Now ELSE Nil]
Disturb(j)  == [i \in Jobs |-> IF i = j \/ Ended(i) THEN calm[i] ELSE Nil]

-----------------------------------------------------------------------------
Init ==
  /\ graph \in {[g \in GraphSet |-> 0], [g \in GraphSet |-> MaxWrite]}
  /\ bound = (graph[Record] # 0)
  /\ rows = {graph[g] : g \in Present} /\ schema = Newest
  /\ search = graph[Record] /\ decided = 0
  /\ writer = [w \in Writes |-> [op |-> "none", at |-> 0]]
  /\ holders = 0 /\ order = <<>>
  /\ job = [j \in Jobs |-> [req |-> Nil, state |-> "none"]]
  /\ pc = [j \in Jobs |-> "done"] /\ dir = [j \in Jobs |-> "none"]
  /\ todo = [j \in Jobs |-> {}]
  /\ got = [j \in Jobs |-> [g \in GraphSet |-> 0]] /\ saved = [j \in Jobs |-> [rows |-> {}, bound |-> FALSE, rev |-> Newest]]
  /\ archive = [j \in Jobs |-> Nil]
  /\ calm = [j \in Jobs |-> Nil] /\ excused = [j \in Jobs |-> FALSE]
  /\ early = {} /\ peeked = {}
  /\ events = 0

-----------------------------------------------------------------------------
(* Ordinary writes.  The middleware looks at the freeze once, on the way in;
   then the record and its sibling graphs are replaced, the audit row is
   inserted and the search row is computed again. *)

NeverFrozen == FALSE
FreezeActive == holders > 0

NewWrite(w) == w < MaxWrite /\ writer[w].at = 0 /\ \A v \in 1 .. w - 1 : writer[v].at # 0

Admit(w) ==
  /\ NewWrite(w) /\ ~FreezeActive
  /\ Event
  /\ \E op \in {"put", "delete"} : writer' = [writer EXCEPT ![w] = [op |-> op, at |-> 1]]
  /\ calm' = [j \in Jobs |-> IF Holds(j) \/ Ended(j) THEN calm[j] ELSE Nil]
  /\ UNCHANGED <<store, holders, order, job, pc, dir, work, excused, early, peeked>>

WriteGraph(w) ==
  /\ writer[w].op \in {"put", "delete"} /\ writer[w].at \in DOMAIN Graphs
  /\ LET g == Graphs[writer[w].at]
         c == IF writer[w].op = "put" THEN w ELSE 0
     IN /\ graph' = [graph EXCEPT ![g] = c]
        /\ bound' = IF g = Record THEN writer[w].op = "put" ELSE bound
  /\ writer' = [writer EXCEPT ![w].at = @ + 1]
  /\ UNCHANGED <<rows, schema, search, decided, holders, order, job, pc, dir, work, hist, events>>

WriteRow(w) ==
  /\ writer[w].op \in {"put", "delete"} /\ writer[w].at = Len(Graphs) + 1
  /\ rows' = rows \union {w}
  /\ writer' = [writer EXCEPT ![w].at = @ + 1]
  /\ UNCHANGED <<graph, bound, schema, search, decided, holders, order, job, pc, dir, work, hist, events>>

\* The indexer reads the record and asks whether everybody may read it, which caches a decision.
Indexed == /\ search' = graph[Record]
           /\ decided' = IF decided = 0 THEN graph[Record] ELSE decided

WriteSearch(w) ==
  /\ writer[w].op \in {"put", "delete"} /\ writer[w].at = Len(Graphs) + 2
  /\ Indexed
  /\ writer' = [writer EXCEPT ![w].op = "done"]
  /\ UNCHANGED <<graph, bound, rows, schema, holders, order, job, pc, dir, work, hist, events>>

\* A reader's decision on the record is computed and cached.
Decide ==
  /\ decided = 0 /\ graph[Record] # 0
  /\ Event
  /\ decided' = graph[Record]
  /\ peeked' = peeked \union {j \in Jobs : ~Ended(j)}
  /\ UNCHANGED <<graph, bound, rows, schema, search, writer, holders, order, job, pc, dir, work,
                 calm, excused, early>>

-----------------------------------------------------------------------------
(* The registry.  create puts the job at the end and evicts from the front
   while there are too many, whatever the evicted job is doing; its working
   directory goes with it. *)

Fresh(j)    == job[j].state = "none"
NextJob(j)  == Fresh(j) /\ \A i \in Jobs : i < j => ~Fresh(i)
Registered  == {order[i] : i \in DOMAIN order}

EvictsNobody == {}
ToEvict == IF Len(order) >= MaxJobs THEN {order[1]} ELSE {}
RemovedNothing(J) == dir

Removed(J) == [j \in Jobs |-> IF j \in J THEN "none" ELSE dir[j]]

\* The rules of the two endpoints, and of the two commands.
Accepted(r) ==
  CASE r.kind = "dump" -> /\ r.seal => r.scope = "full"
                          /\ r.via = "http" => (r.scope = "full" => r.seal)
    [] OTHER -> /\ ~(r.merge /\ r.overwrite)
                /\ r.archive.sealed => r.pass # "none"
                /\ r.via = "http" => ~r.rebase

\* What a client can ask: one of Requests, where no archive means one that it has downloaded.
Downloadable  == {j \in Registered : job[j].state = "SUCCEEDED" /\ Req(j).kind = "dump"}
OfDownload(r) == r.kind = "restore" /\ r.archive = Nil
Asked ==
  {r \in Requests : ~OfDownload(r)} \union
  {[r EXCEPT !.archive = archive[j]] : r \in {q \in Requests : OfDownload(q)}, j \in Downloadable}

\* A job is QUEUED before its task runs; a restore already owns the directory of its upload.
Launch(j, r) ==
  /\ NextJob(j) /\ r.via = "http" /\ Accepted(r)
  /\ Event
  /\ order' = Append(IF ToEvict = {} THEN order ELSE Tail(order), j)
  /\ early' = early \union {i \in ToEvict : ~Ended(i)}
  /\ excused' = [i \in Jobs |-> excused[i] \/ (i \in ToEvict /\ ~Ended(i))]
  /\ job' = [job EXCEPT ![j] = [req |-> r, state |-> "QUEUED"]]
  /\ pc' = [pc EXCEPT ![j] = "queued"]
  /\ dir' = [Removed(ToEvict) EXCEPT ![j] = IF r.kind = "restore" THEN "whole" ELSE "none"]
  /\ UNCHANGED <<store, writer, holders, work, calm, peeked>>

\* A command runs in a process and a directory of its own.
Command(j, r) ==
  /\ NextJob(j) /\ r.via = "cli" /\ Accepted(r)
  /\ Event
  /\ job' = [job EXCEPT ![j] = [req |-> r, state |-> "QUEUED"]]
  /\ pc' = [pc EXCEPT ![j] = "queued"]
  /\ dir' = [dir EXCEPT ![j] = "whole"]
  /\ UNCHANGED <<store, writer, holders, order, work, hist>>

\* _run records how the runner ended; the way out of the runner releases the freeze, and
\* a command removes its directory.
ReleasedOnSuccess(j, outcome) == IF Holds(j) /\ outcome = "SUCCEEDED" THEN holders - 1 ELSE holders

Released(j, outcome) == IF Holds(j) THEN holders - 1 ELSE holders

Finish(j, outcome) ==
  /\ job' = [job EXCEPT ![j].state = outcome]
  /\ pc' = [pc EXCEPT ![j] = "done"]
  /\ holders' = Released(j, outcome)
  /\ dir' = IF IsHttp(j) THEN dir ELSE Removed({j})

Fail(j) == Finish(j, "FAILED")
Goto(j, call) == pc' = [pc EXCEPT ![j] = call] /\ UNCHANGED <<job, holders, dir>>

\* A store call, or the work of a thread, raises.
Raise(j) ==
  /\ Running(j)
  /\ Event
  /\ excused' = [excused EXCEPT ![j] = TRUE]
  /\ Fail(j)
  /\ UNCHANGED <<store, writer, order, work, calm, early, peeked>>

\* The server goes down: shutdown() cancels the tasks and evicts the registered jobs, a crash
\* does not; a request that is served dies between two calls, and so does the freeze.
Restart ==
  /\ Event
  /\ order' = <<>> /\ holders' = 0
  /\ job' = [j \in Jobs |-> IF Fresh(j) \/ ~IsHttp(j) THEN job[j] ELSE [job[j] EXCEPT !.state = "gone"]]
  /\ pc' = [j \in Jobs |-> IF Fresh(j) \/ IsHttp(j) THEN "done" ELSE pc[j]]
  /\ \E clean \in BOOLEAN : dir' = IF clean THEN Removed(Registered) ELSE dir
  /\ early' = early \union {j \in Jobs : dir'[j] # "none"}
  /\ writer' = [w \in Writes |-> IF writer[w].at = 0 THEN writer[w] ELSE [writer[w] EXCEPT !.op = "done"]]
  /\ UNCHANGED <<store, work, calm, excused, peeked>>

-----------------------------------------------------------------------------
(* A dump. *)

IsDump(j)    == ~Fresh(j) /\ Req(j).kind = "dump"
IsRestore(j) == ~Fresh(j) /\ Req(j).kind = "restore"

\* The runner makes its directory, then takes the freeze if the dump is a full one; without a
\* roll-up to wait for, dump_store makes the directory of the dump in the same breath.
StartDump(j) ==
  /\ IsDump(j) /\ job[j].state = "QUEUED"
  /\ job' = [job EXCEPT ![j].state = "RUNNING"]
  /\ dir' = [dir EXCEPT ![j] = "whole"]
  /\ holders' = IF IsHttp(j) /\ Full(j) THEN holders + 1 ELSE holders
  /\ pc' = [pc EXCEPT ![j] = IF Full(j) THEN "rollup" ELSE "list"]
  /\ calm' = Captured(j)
  /\ UNCHANGED <<store, writer, order, work, excused, early, peeked, events>>

\* The metrics are rolled up first; then dump_store makes its directory, with the parents.
RollUp(j) ==
  /\ Running(j) /\ pc[j] = "rollup"
  /\ pc' = [pc EXCEPT ![j] = "list"]
  /\ dir' = [dir EXCEPT ![j] = "whole"]
  /\ UNCHANGED <<store, writer, holders, order, job, work, hist, events>>

AfterGraphs(j) == IF Full(j) THEN "tables" ELSE IF Req(j).audit THEN "audit" ELSE "pack"

\* The names of the graphs that hold a triple; records.nq is opened next.
ListGraphs(j) ==
  /\ Running(j) /\ IsDump(j) /\ pc[j] = "list"
  /\ todo' = [todo EXCEPT ![j] = Present]
  /\ IF Here(j) THEN Goto(j, IF Present = {} THEN AfterGraphs(j) ELSE "fetch") ELSE Fail(j)
  /\ UNCHANGED <<store, writer, order, got, saved, archive, hist, events>>

\* One graph is constructed and appended; one that has become empty is left out.
FetchGraph(j) ==
  /\ Running(j) /\ pc[j] = "fetch"
  /\ LET g == First(todo[j])
     IN /\ got' = [got EXCEPT ![j][g] = graph[g]]
        /\ saved' = [saved EXCEPT ![j].bound = IF g = Record THEN bound ELSE @]
        /\ todo' = [todo EXCEPT ![j] = @ \ {g}]
        /\ Goto(j, IF todo[j] = {g} THEN AfterGraphs(j) ELSE "fetch")
  /\ UNCHANGED <<store, writer, order, archive, hist, events>>

\* All state tables, in one REPEATABLE READ transaction, into a directory made with its parents.
DumpTables(j) ==
  /\ Running(j) /\ pc[j] = "tables"
  /\ saved' = [saved EXCEPT ![j] = [rows |-> rows, bound |-> @.bound, rev |-> schema]]
  /\ pc' = [pc EXCEPT ![j] = "pack"]
  /\ dir' = [dir EXCEPT ![j] = IF Here(j) THEN @ ELSE "holed"]
  /\ UNCHANGED <<store, writer, holders, order, job, todo, got, archive, hist, events>>

\* The audit rows, read in one statement; the file is opened before.
DumpAudit(j) ==
  /\ Running(j) /\ IsDump(j) /\ pc[j] = "audit"
  /\ saved' = [saved EXCEPT ![j].rows = rows]
  /\ IF Here(j) THEN Goto(j, "pack") ELSE Fail(j)
  /\ UNCHANGED <<store, writer, order, todo, got, archive, hist, events>>

\* The manifest, the zip and the seal; a directory that was removed and made again has no records.nq.
Pack(j) ==
  /\ Running(j) /\ pc[j] = "pack"
  /\ archive' = [archive EXCEPT ![j] = IF Here(j)
       THEN [ scope |-> Scope(j), graphs |-> got[j], bound |-> saved[j].bound, rows |-> saved[j].rows,
              rev |-> saved[j].rev, base |-> "own", sealed |-> Full(j) /\ Req(j).seal,
              bad |-> IF dir[j] = "holed" THEN {"records"} ELSE {} ]
       ELSE @]
  /\ Finish(j, IF Here(j) THEN "SUCCEEDED" ELSE "FAILED")
  /\ UNCHANGED <<store, writer, order, todo, got, saved, hist, events>>

-----------------------------------------------------------------------------
(* A restore. *)

\* verify_archive: the seal opens, the zip is whole, and every file the manifest names has its
\* checksum and its number of rows.
Verified(a, pass) == (a.sealed => pass = "right") /\ a.bad = {}

Unseals(j)     == Archive(j).sealed => Req(j).pass = "right"
ReadsZip(j)    == Here(j) /\ Unseals(j) /\ "zip" \notin Archive(j).bad
\* restore_store: the checksum of records.nq, and the identifier base.
ReadsGraphs(j) == /\ Here(j) /\ "records" \notin Archive(j).bad
                  /\ Archive(j).base = "own" \/ Req(j).rebase
Replaces(j)    == Req(j).overwrite

StartRestore(j) ==
  /\ IsRestore(j) /\ job[j].state = "QUEUED"
  /\ job' = [job EXCEPT ![j].state = "RUNNING"]
  /\ pc' = [pc EXCEPT ![j] = "open"]
  /\ UNCHANGED <<store, writer, holders, order, dir, work, hist, events>>

\* What is refused before the first look at a store.
Admissible(j) ==
  IF Full(j) THEN ~Req(j).merge /\ Archive(j).rev \in 1 .. Newest ELSE ReadsGraphs(j)

\* open_archive makes the directory it extracts to, with the parents; the manifest is read, and a
\* full restore takes the freeze.
Open(j) ==
  /\ Running(j) /\ pc[j] = "open"
  /\ calm' = Captured(j)
  /\ IF ReadsZip(j) /\ Admissible(j)
     THEN /\ pc' = [pc EXCEPT ![j] = IF Full(j) THEN "revision" ELSE "existing"]
          /\ holders' = IF IsHttp(j) /\ Full(j) THEN holders + 1 ELSE holders
          /\ UNCHANGED <<job, dir>>
     ELSE /\ job' = [job EXCEPT ![j].state = "FAILED"]
          /\ pc' = [pc EXCEPT ![j] = "done"]
          /\ dir' = IF ~IsHttp(j) THEN Removed({j}) ELSE [dir EXCEPT ![j] = IF Here(j) THEN @ ELSE "holed"]
          /\ UNCHANGED holders
  /\ UNCHANGED <<store, writer, order, work, excused, early, peeked, events>>

\* The schema must not move under a running server.
CheckRevision(j) ==
  /\ Running(j) /\ pc[j] = "revision"
  /\ IF IsHttp(j) /\ schema # Archive(j).rev THEN Fail(j) ELSE Goto(j, "occupied")
  /\ UNCHANGED <<store, writer, order, work, hist, events>>

\* A table of the state holds a row.
Occupied == rows # {}

CheckOccupiedAndTruncate(j) ==
  /\ Running(j) /\ pc[j] = "occupied"
  /\ IF Occupied /\ ~Replaces(j) THEN Fail(j) /\ UNCHANGED rows ELSE Goto(j, "preview") /\ rows' = {}
  /\ saved' = [saved EXCEPT ![j].rows = rows]
  /\ UNCHANGED <<graph, bound, schema, search, decided, writer, order, todo, got, archive, hist, events>>

CheckOccupied(j) ==
  /\ Running(j) /\ pc[j] = "occupied"
  /\ IF Occupied /\ ~Replaces(j) THEN Fail(j) ELSE Goto(j, "preview")
  /\ saved' = [saved EXCEPT ![j].rows = rows]
  /\ UNCHANGED <<store, writer, order, todo, got, archive, hist, events>>

\* The store must be empty too, and the archive must read, before PostgreSQL is touched.
Preview(j) ==
  /\ Running(j) /\ pc[j] = "preview"
  /\ IF \/ Present # {} /\ ~Replaces(j) /\ ~Req(j).dry
        \/ ~ReadsGraphs(j)
     THEN Fail(j)
     ELSE IF Req(j).dry THEN Finish(j, "SUCCEEDED")
     ELSE Goto(j, IF saved[j].rows # {} THEN "truncate" ELSE "migrate")
  /\ UNCHANGED <<store, writer, order, work, hist, events>>

Truncate(j) ==
  /\ Running(j) /\ pc[j] = "truncate"
  /\ rows' = {}
  /\ Goto(j, "migrate")
  /\ calm' = Disturb(j)
  /\ UNCHANGED <<graph, bound, schema, search, decided, writer, order, work, excused, early, peeked, events>>

\* The schema moves to the archive's revision.
MigrateToArchive(j) ==
  /\ Running(j) /\ pc[j] = "migrate"
  /\ schema' = Archive(j).rev
  /\ Goto(j, "load")
  /\ calm' = Disturb(j)
  /\ UNCHANGED <<graph, bound, rows, search, decided, writer, order, work, excused, early, peeked, events>>

\* Every file is verified, then all rows are inserted in one transaction; a row that somebody
\* inserted meanwhile may have the key of one of them.
LoadTables(j) ==
  /\ Running(j) /\ pc[j] = "load"
  /\ \/ /\ Here(j) /\ Archive(j).bad \intersect {"tables", "rows"} = {}
        /\ rows' = rows \union Archive(j).rows
        /\ Goto(j, "upgrade")
     \/ /\ ~Here(j) \/ Archive(j).bad \intersect {"tables", "rows"} # {} \/ rows # {}
        /\ Fail(j)
        /\ UNCHANGED rows
  /\ calm' = Disturb(j)
  /\ UNCHANGED <<graph, bound, schema, search, decided, writer, order, work, excused, early, peeked, events>>

MigrateToHead(j) ==
  /\ Running(j) /\ pc[j] = "upgrade"
  /\ schema' = Newest
  /\ Goto(j, "derived")
  /\ calm' = Disturb(j)
  /\ UNCHANGED <<graph, bound, rows, search, decided, writer, order, work, excused, early, peeked, events>>

TruncateDerived(j) ==
  /\ Running(j) /\ pc[j] = "derived"
  /\ search' = 0 /\ decided' = 0
  /\ Goto(j, "existing")
  /\ calm' = Disturb(j)
  /\ UNCHANGED <<graph, bound, rows, schema, writer, order, work, excused, early, peeked, events>>

AfterReplace(j) == IF ~Full(j) /\ Req(j).audit THEN "audit" ELSE "backfill"

\* restore_store looks at the store once: what it skips, or refuses, is decided here.
Existing(j) ==
  /\ Running(j) /\ pc[j] = "existing"
  /\ LET kept == IF Req(j).merge THEN Present ELSE {}
         load == {g \in GraphSet : Archive(j).graphs[g] # 0} \ kept
     IN /\ todo' = [todo EXCEPT ![j] = load]
        /\ IF \/ ~ReadsGraphs(j)
              \/ Present # {} /\ ~Req(j).merge /\ ~Replaces(j) /\ ~Req(j).dry
           THEN Fail(j)
           ELSE IF Req(j).dry THEN Finish(j, "SUCCEEDED")
           ELSE Goto(j, IF load = {} THEN AfterReplace(j) ELSE "replace")
  /\ UNCHANGED <<store, writer, order, got, saved, archive, hist, events>>

ReplaceGraph(j) ==
  /\ Running(j) /\ pc[j] = "replace"
  /\ LET g == First(todo[j])
     IN /\ graph' = [graph EXCEPT ![g] = Archive(j).graphs[g]]
        /\ bound' = IF g = Record THEN Archive(j).bound ELSE bound
        /\ todo' = [todo EXCEPT ![j] = @ \ {g}]
        /\ Goto(j, IF todo[j] = {g} THEN AfterReplace(j) ELSE "replace")
  /\ calm' = Disturb(j)
  /\ UNCHANGED <<rows, schema, search, decided, writer, order, got, saved, archive,
                 excused, early, peeked, events>>

\* audit.jsonl is appended to the audit rows; nobody compares its checksum, and a missing file is none.
RestoreAudit(j) ==
  /\ Running(j) /\ IsRestore(j) /\ pc[j] = "audit"
  /\ \/ /\ rows' = rows \union (IF Here(j) THEN Archive(j).rows ELSE {})
        /\ "audit" \notin Archive(j).bad
        /\ Goto(j, "backfill")
     \/ /\ "audit" \in Archive(j).bad
        /\ \E R \in SUBSET Archive(j).rows : rows' = rows \union R
        /\ Goto(j, "backfill")
     \/ "audit" \in Archive(j).bad /\ Fail(j) /\ UNCHANGED rows
  /\ calm' = Disturb(j)
  /\ UNCHANGED <<graph, bound, schema, search, decided, writer, order, work, excused, early, peeked, events>>

\* An archive from before the profiles is migrated forward: the record is bound to one.
Backfill(j) ==
  /\ Running(j) /\ pc[j] = "backfill"
  /\ bound' = (bound \/ (~Archive(j).bound /\ graph[Record] # 0))
  /\ Goto(j, "clear")
  /\ calm' = Disturb(j)
  /\ UNCHANGED <<graph, rows, schema, search, decided, writer, order, work, excused, early, peeked, events>>

\* reindex_all: the index is cleared, then each record is read and indexed.
ClearSearch(j) ==
  /\ Running(j) /\ pc[j] = "clear"
  /\ search' = 0
  /\ Goto(j, "index")
  /\ calm' = Disturb(j)
  /\ UNCHANGED <<graph, bound, rows, schema, decided, writer, order, work, excused, early, peeked, events>>

Index(j) ==
  /\ Running(j) /\ pc[j] = "index"
  /\ Indexed
  /\ Finish(j, "SUCCEEDED")
  /\ calm' = Disturb(j)
  /\ UNCHANGED <<graph, bound, rows, schema, writer, order, work, excused, early, peeked, events>>

-----------------------------------------------------------------------------
Dumping(j) ==
  \/ StartDump(j) \/ RollUp(j) \/ ListGraphs(j) \/ FetchGraph(j) \/ DumpTables(j)
  \/ DumpAudit(j) \/ Pack(j)

Restoring(j) ==
  \/ StartRestore(j) \/ Open(j) \/ CheckRevision(j) \/ CheckOccupied(j) \/ Preview(j)
  \/ Truncate(j) \/ MigrateToArchive(j) \/ LoadTables(j) \/ MigrateToHead(j)
  \/ TruncateDerived(j) \/ Existing(j) \/ ReplaceGraph(j) \/ RestoreAudit(j)
  \/ Backfill(j) \/ ClearSearch(j) \/ Index(j)

JobStep(j) == Dumping(j) \/ Restoring(j)

Next ==
  \/ \E w \in Writes : Admit(w) \/ WriteGraph(w) \/ WriteRow(w) \/ WriteSearch(w)
  \/ Decide
  \/ \E j \in Jobs, r \in Asked : Launch(j, r) \/ Command(j, r)
  \/ \E j \in Jobs : JobStep(j) \/ Raise(j)
  \/ Restart

Spec == Init /\ [][Next]_vars

-----------------------------------------------------------------------------
(* Properties. *)

\* The freeze counts the jobs that hold it, no more and no fewer, whatever ended them, so no
\* write is refused after the last of them.
FreezeMatches == holders = Cardinality({j \in Jobs : Holds(j)})

TypeOK ==
  /\ graph \in Stores /\ bound \in BOOLEAN /\ rows \subseteq Writes /\ schema \in 1 .. Newest
  /\ search \in Contents /\ decided \in Contents
  /\ holders \in 0 .. Cardinality(Jobs)
  /\ \A j \in Jobs : archive[j] \in Archives \union {Nil}
  /\ early \subseteq Jobs /\ peeked \subseteq Jobs

\* A dump job that the registry still shows as succeeded has its archive to download, and that
\* archive verifies.  A directory nobody can reach any more is one of a job evicted or killed
\* before its end (the registry evicts jobs that run, jobs.py: create), and the registry never
\* holds more jobs than it may.
DirectoriesOwned ==
  /\ Len(order) <= MaxJobs
  /\ \A j \in Jobs :
       /\ j \in Registered /\ job[j].state = "SUCCEEDED" /\ Req(j).kind = "dump" =>
            dir[j] = "whole" /\ Verified(archive[j], "right")
       /\ dir[j] # "none" => j \in Registered \/ j \in early \/ ~IsHttp(j)

Ends(j, outcome) == Running(j) /\ job'[j].state = outcome

\* A full dump that nobody interfered with is one state of both stores, the one at which the freeze
\* took hold, even when writes were refused meanwhile (write_freeze.py: "captured at one consistent
\* point").  What does interfere: a write admitted before the freeze, a command, another restore.
DumpsConsistent ==
  [][\A j \in Jobs :
       Ends(j, "SUCCEEDED") /\ IsDump(j) /\ Full(j) /\ calm[j] # Nil /\ ~excused[j] =>
         /\ archive'[j].graphs = calm[j].graph
         /\ archive'[j].rows = calm[j].rows
         /\ graph[Record] # 0 => archive'[j].bound = calm[j].bound]_vars

\* The graphs after a restore: those of the archive over those that were there, or under them.
Merged(j) ==
  [g \in GraphSet |->
    IF Archive(j).graphs[g] = 0 \/ (Req(j).merge /\ calm[j].graph[g] # 0)
    THEN calm[j].graph[g] ELSE Archive(j).graphs[g]]

Restored(j) ==
  /\ graph' = Merged(j)
  /\ calm[j].bound = (calm[j].graph[Record] # 0) => bound' = (graph'[Record] # 0)
  /\ rows' = IF Full(j) THEN Archive(j).rows
             ELSE calm[j].rows \union (IF Req(j).audit THEN Archive(j).rows ELSE {})
  /\ schema' = IF Full(j) THEN Newest ELSE calm[j].schema
  /\ search' = graph'[Record]
  /\ Full(j) /\ j \notin peeked => decided' \in {0, graph'[Record]}

Untouched(j) ==
  <<graph', bound', rows', schema'>> = <<calm[j].graph, calm[j].bound, calm[j].rows, calm[j].schema>>

\* A restore that nobody interferes with, of an archive that verifies, does all or nothing: it succeeds
\* with both stores, the schema and the derived tables as the archive and its options say, or it is
\* refused before the first write.  A dry run writes nothing, nor does a refusal of an archive whose graphs are damaged.
RestoreAllOrNothing ==
  [][\A j \in Jobs : IsRestore(j) /\ calm'[j] # Nil /\ ~excused'[j] =>
       /\ Ends(j, "SUCCEEDED") /\ Verified(Archive(j), Req(j).pass) =>
            IF Req(j).dry THEN Untouched(j) ELSE Restored(j)
       /\ Ends(j, "FAILED") /\ Archive(j).bad \subseteq {"zip", "records"} => pc[j] = "open" \/ Untouched(j)]_vars
=============================================================================

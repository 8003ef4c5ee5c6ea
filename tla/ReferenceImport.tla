--------------------------- MODULE ReferenceImport ---------------------------
(***************************************************************************)
(* `fdp backup import --from`: the crawl of another FAIR Data Point        *)
(* (backup/import_fdp.py), whose records are written under this            *)
(* deployment's base with their provenance, and then stamped with their    *)
(* conformance (prof_backfill.py) and indexed.  Meanwhile the server takes *)
(* writes of its clients, and the crawl may end at any call.               *)
(*                                                                         *)
(* A record is named once: at the source and, re-rooted, here.             *)
(***************************************************************************)
EXTENDS Naturals, Sequences, FiniteSets

CONSTANTS
  Records,      \* of the source
  Root,
  Elsewhere,    \* IRIs off the source's origin
  Trees,        \* what each record of the source contains, one of these
  MaxRecords,   \* max_records
  MaxFaults,    \* bound: fetches that fail, and runs that end early
  MaxEdits,     \* bound: writes of clients
  MaxRuns,      \* bound: runs
  Nil

\* What a graph here is: who wrote it last, and is it stamped.
Copies == [by : {"source", "client", "server"}, bound : BOOLEAN]

\* What the constants must satisfy; the module that makes the instance assumes it.
ImportAssumption ==
  /\ Root \in Records /\ Records \cap Elsewhere = {} /\ IsFiniteSet(Records)
  /\ Nil \notin Copies
  /\ Trees \subseteq [Records -> SUBSET (Records \cup Elsewhere)]
  /\ MaxRecords \in Nat \ {0}
  /\ MaxFaults \in Nat /\ MaxEdits \in Nat /\ MaxRuns \in Nat

VARIABLES
  contains,   \* the ldp:contains of the source
  graph,      \* each record here, or Nil
  meta,       \* its meta graph: whose times it has; or Nil
  indexed,    \* records in the search index
  pc, item,   \* the next call of the run, and the record it is about
  queue, visited, imported, skipped, truncated,
  todo, mem,  \* of the backfill: records to stamp, and the graph it has read
  faults, edits, runs,
  torn,       \* history: records whose graph a run wrote and whose meta graph it did not
  overtaken   \* history: records a client wrote since the run read what it wrote over

source == contains
store  == <<graph, meta, indexed>>
crawl  == <<queue, visited, imported, skipped, truncated>>
stamps == <<todo, mem>>
bounds == <<faults, edits, runs>>
vars == <<source, store, pc, item, crawl, stamps, bounds, torn, overtaken>>

Body(who) == [by |-> who, bound |-> FALSE]
Here == {r \in Records : graph[r] # Nil}
Reading == pc \notin {"idle", "ended"}

\* A run starts at the root of the source.
Start ==
  /\ pc \in {"idle", "ended"} /\ runs < MaxRuns /\ runs' = runs + 1
  /\ pc' = "next" /\ queue' = <<Root>> /\ visited' = {} /\ imported' = {} /\ skipped' = {}
  /\ truncated' = FALSE /\ todo' = {} /\ mem' = Nil
  /\ UNCHANGED <<source, store, item, faults, edits, torn, overtaken>>

\* What follows the crawl, if it imported anything.
AfterCrawl == IF imported = {} THEN "ended" ELSE "bind"

\* The loop: it ends with the queue, or at its limit, also if what is left was visited.
Pop ==
  /\ pc = "next"
  /\ IF queue = <<>> THEN pc' = AfterCrawl /\ UNCHANGED <<item, queue, visited, truncated>>
     ELSE IF Cardinality(imported) >= MaxRecords
     THEN pc' = AfterCrawl /\ truncated' = TRUE /\ UNCHANGED <<item, queue, visited>>
     ELSE /\ item' = Head(queue) /\ queue' = Tail(queue)
          /\ pc' = IF Head(queue) \in visited THEN "next" ELSE "fetch"
          /\ visited' = visited \cup {Head(queue)} /\ UNCHANGED truncated
  /\ UNCHANGED <<source, store, imported, skipped, stamps, bounds, torn, overtaken>>

\* A record's members on the origin that were not visited, in any order.
Members == (contains[item] \cap Records) \ visited
Orders(S) == {s \in [1..Cardinality(S) -> S] : \A i, j \in DOMAIN s : s[i] = s[j] => i = j}

\* _fetch: the record comes ...
Fetch ==
  /\ pc = "fetch" /\ pc' = "write"
  /\ \E s \in Orders(Members) : queue' = queue \o s
  /\ UNCHANGED <<source, store, item, visited, imported, skipped, truncated, stamps, bounds,
                 torn, overtaken>>

\* ... or does not, or does not parse: it is skipped, and what only it contains is never seen.
FetchFails ==
  /\ pc = "fetch" /\ faults < MaxFaults /\ faults' = faults + 1
  /\ skipped' = skipped \cup {item} /\ pc' = "next"
  /\ UNCHANGED <<source, store, item, queue, visited, imported, truncated, stamps, edits, runs,
                 torn, overtaken>>

\* write_imported: the record graph is replaced, whatever is there ...
WriteGraph ==
  /\ pc = "write" /\ pc' = "meta"
  /\ graph' = [graph EXCEPT ![item] = Body("source")]
  /\ torn' = torn \cup {item} /\ overtaken' = overtaken \ {item}
  /\ UNCHANGED <<source, meta, indexed, item, crawl, stamps, bounds>>

\* ... and its meta graph, with the source's times.
WriteMeta ==
  /\ pc = "meta" /\ pc' = "next"
  /\ meta' = [meta EXCEPT ![item] = Body("source")]
  /\ imported' = imported \cup {item} /\ torn' = torn \ {item}
  /\ UNCHANGED <<source, graph, indexed, item, queue, visited, skipped, truncated, stamps, bounds,
                 overtaken>>

\* backfill_conformance: the records there are, each read and stamped if it is not.
List ==
  /\ pc = "bind" /\ pc' = "stamp" /\ todo' = Here
  /\ UNCHANGED <<source, store, item, crawl, mem, bounds, torn, overtaken>>

ReadGraph ==
  /\ pc = "stamp"
  /\ IF todo = {} THEN pc' = "reindex" /\ UNCHANGED <<item, todo, mem, overtaken>>
     ELSE \E r \in todo :
            /\ item' = r /\ todo' = todo \ {r} /\ mem' = graph[r] /\ overtaken' = overtaken \ {r}
            /\ pc' = IF graph[r] = Nil \/ graph[r].bound THEN "stampmeta" ELSE "bindgraph"
  /\ UNCHANGED <<source, store, crawl, bounds, torn>>

\* _stamp_record writes back what it has read.
BindGraph ==
  /\ pc = "bindgraph" /\ pc' = "stampmeta"
  /\ graph' = [graph EXCEPT ![item] = [mem EXCEPT !.bound = TRUE]]
  /\ UNCHANGED <<source, meta, indexed, item, crawl, stamps, bounds, torn, overtaken>>

BindMeta ==
  /\ pc = "stampmeta" /\ pc' = "stamp"
  /\ meta' = IF meta[item] = Nil THEN meta ELSE [meta EXCEPT ![item].bound = TRUE]
  /\ UNCHANGED <<source, graph, indexed, item, crawl, stamps, bounds, torn, overtaken>>

\* reindex_all.
Reindex ==
  /\ pc = "reindex" /\ pc' = "ended" /\ indexed' = Here
  /\ UNCHANGED <<source, graph, meta, item, crawl, stamps, bounds, torn, overtaken>>

\* A call raises, or the command is interrupted: the next run starts from the root.
Ends ==
  /\ Reading /\ faults < MaxFaults /\ faults' = faults + 1 /\ pc' = "idle"
  /\ UNCHANGED <<source, store, item, crawl, stamps, edits, runs, torn, overtaken>>

\* The server: a client creates or replaces a record, which is stamped and indexed.
Edit(r) ==
  /\ edits < MaxEdits /\ edits' = edits + 1
  /\ graph' = [graph EXCEPT ![r] = [by |-> "client", bound |-> TRUE]]
  /\ meta' = [meta EXCEPT ![r] = [by |-> "server", bound |-> TRUE]]
  /\ indexed' = indexed \cup {r} /\ overtaken' = overtaken \cup {r} /\ torn' = torn \ {r}
  /\ UNCHANGED <<source, pc, item, crawl, stamps, faults, runs>>

Init ==
  /\ contains \in Trees
  /\ graph = [r \in Records |-> Nil] /\ meta = [r \in Records |-> Nil] /\ indexed = {}
  /\ pc = "idle" /\ item = Root /\ queue = <<>> /\ visited = {} /\ imported = {} /\ skipped = {}
  /\ truncated = FALSE /\ todo = {} /\ mem = Nil
  /\ faults = 0 /\ edits = 0 /\ runs = 0 /\ torn = {} /\ overtaken = {}

Next ==
  \/ Start \/ Pop \/ Fetch \/ FetchFails \/ WriteGraph \/ WriteMeta
  \/ List \/ ReadGraph \/ BindGraph \/ BindMeta \/ Reindex \/ Ends
  \/ \E r \in Records : Edit(r)

Spec == Init /\ [][Next]_vars

-----------------------------------------------------------------------------
\* What the run has seen: the root, and what the records it imported contain.
Seen == {Root} \cup UNION {contains[r] \cap Records : r \in imported}

\* A run that ends by itself has imported, or tells that it skipped, every record that the
\* ones it imported contain, once, or tells that it stopped at its limit; and whatever ended
\* an earlier run, each record it imported is there whole, stamped and indexed.
ImportWhole ==
  pc = "ended" =>
    /\ truncated \/ Seen = imported \cup skipped
    /\ imported \cap skipped = {} /\ Cardinality(imported) <= MaxRecords
    /\ \A r \in imported :
         /\ graph[r] # Nil /\ graph[r].bound
         /\ meta[r] # Nil /\ meta[r].bound /\ r \in indexed

\* A record without its meta graph is one that a run has left so.
MetaFollows == \A r \in Records : graph[r] # Nil /\ meta[r] = Nil => r \in torn

RecordsAdopted == ImportWhole /\ MetaFollows
=============================================================================

-------------------------- MODULE IdentifierRebase --------------------------
(***************************************************************************)
(* `fdp pid rebase --from OLD --to NEW`: the graphs under the old base are *)
(* moved to the persistent base, one after the other (pid/rebase.py),      *)
(* while clients write to the server, which names records under the old    *)
(* base until it is restarted with IDENTIFIER_BASE.                        *)
(*                                                                         *)
(* The content of a graph is the write it comes from and the base of the   *)
(* terms in it.                                                            *)
(***************************************************************************)
EXTENDS Naturals

CONSTANTS
  Records,
  MaxWrites,    \* bound: writes of clients
  MaxFaults,    \* bound: runs that end early
  MaxRuns,      \* bound: runs
  Nil

Bases  == {"old", "new"}
Copies == [write : Nat, terms : Bases]

\* What the constants must satisfy; the module that makes the instance assumes it.
RebaseAssumption ==
  /\ MaxWrites \in Nat /\ MaxFaults \in Nat /\ MaxRuns \in Nat
  /\ Nil \notin Records /\ Nil \notin Copies

VARIABLES
  graph,        \* of each base and record: [write, terms], or Nil
  names,        \* the base the server names records under
  pc, todo, item, mem,   \* the run: the next call, the graphs listed, the one at hand, its copy
  writes, faults, runs,
  latest,       \* history: the last write of each record
  late,         \* history: a client wrote since the run began
  raced         \* history: records a run lost a write of

run  == <<pc, todo, item, mem>>
vars == <<graph, names, run, writes, faults, runs, latest, late, raced>>

\* rebase_identifiers: _list_graphs, of which those under the old base are moved.
Begin ==
  /\ pc \in {"idle", "done"} /\ runs < MaxRuns /\ runs' = runs + 1
  /\ todo' = {r \in Records : graph["old"][r] # Nil}
  /\ pc' = "next" /\ late' = FALSE
  /\ UNCHANGED <<graph, names, item, mem, writes, faults, latest, raced>>

\* rewrite_graph: every term under the old base is re-rooted.
Rewritten(body) == IF body = Nil THEN Nil ELSE [body EXCEPT !.terms = "new"]

\* construct_named_graph, in the order the query lists them.
Copy ==
  /\ pc = "next" /\ todo # {}
  /\ \E r \in todo : item' = r /\ todo' = todo \ {r} /\ mem' = Rewritten(graph["old"][r])
  /\ pc' = "replace"
  /\ UNCHANGED <<graph, names, writes, faults, runs, latest, late, raced>>

\* A copy that misses a write of a client loses it.
Stale(body) == body # Nil /\ (mem = Nil \/ body.write # mem.write)

\* replace_graph, whatever the new base holds under this name ...
Replace ==
  /\ pc = "replace" /\ pc' = "drop"
  /\ graph' = [graph EXCEPT !["new"][item] = mem]
  /\ raced' = IF Stale(graph["new"][item]) THEN raced \cup {item} ELSE raced
  /\ UNCHANGED <<names, todo, item, mem, writes, faults, runs, latest, late>>

\* ... then drop_graph, whatever the old one holds by now.
Drop ==
  /\ pc = "drop" /\ pc' = "next"
  /\ graph' = [graph EXCEPT !["old"][item] = Nil]
  /\ raced' = IF Stale(graph["old"][item]) THEN raced \cup {item} ELSE raced
  /\ UNCHANGED <<names, todo, item, mem, writes, faults, runs, latest, late>>

Done ==
  /\ pc = "next" /\ todo = {} /\ pc' = "done"
  /\ UNCHANGED <<graph, names, todo, item, mem, writes, faults, runs, latest, late, raced>>

\* A call raises: the command reports it and is run again.
Ends ==
  /\ pc \in {"next", "replace", "drop"} /\ faults < MaxFaults /\ faults' = faults + 1
  /\ pc' = "idle"
  /\ UNCHANGED <<graph, names, todo, item, mem, writes, runs, latest, late, raced>>

\* The server: a client writes a record under the base it names records under ...
Write(r) ==
  /\ writes < MaxWrites /\ writes' = writes + 1
  /\ graph' = [graph EXCEPT ![names][r] = [write |-> writes + 1, terms |-> names]]
  /\ latest' = [latest EXCEPT ![r] = writes + 1] /\ late' = TRUE
  /\ UNCHANGED <<names, run, faults, runs, raced>>

\* ... which changes once, with the restart that reads the new setting.
Adopt ==
  /\ names = "old" /\ names' = "new"
  /\ UNCHANGED <<graph, run, writes, faults, runs, latest, late, raced>>

Init ==
  /\ graph = [b \in Bases |-> [r \in Records |->
       IF b = "old" THEN [write |-> 0, terms |-> "old"] ELSE Nil]]
  /\ names = "old"
  /\ pc = "idle" /\ todo = {} /\ item = Nil /\ mem = Nil
  /\ writes = 0 /\ faults = 0 /\ runs = 0
  /\ latest = [r \in Records |-> 0] /\ late = FALSE /\ raced = {}

Next ==
  \/ Begin \/ Copy \/ Replace \/ Drop \/ Done \/ Ends \/ Adopt
  \/ \E r \in Records : Write(r)

Spec == Init /\ [][Next]_vars

-----------------------------------------------------------------------------
\* Wherever a run ends, the last write of a record is there, under the one base or the
\* other, unless it came between the copy and the drop, or was overwritten at the new base.
NothingLost ==
  \A r \in Records \ raced : \E b \in Bases :
    graph[b][r] # Nil /\ graph[b][r].write = latest[r]

\* Once a run that no write overlapped is done, whatever ended the runs before it, no record
\* is left under the old base and none speaks of it: the second pass is a no-op.
Adopted ==
  pc = "done" /\ ~late =>
    \A r \in Records : graph["old"][r] = Nil /\ graph["new"][r].terms = "new"

IdentifiersMoved == NothingLost /\ Adopted
=============================================================================

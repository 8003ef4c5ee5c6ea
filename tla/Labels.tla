------------------------------- MODULE Labels -------------------------------
(***************************************************************************)
(* What GET /labels knows of one IRI in one language (metadata/labels.py,  *)
(* external_labels.py): the label in the knowledge graph, else that of the *)
(* curated inline sources, else that of the IRI's own host, fetched in the *)
(* background and kept in Postgres; all of it behind a cache in memory     *)
(* that also remembers misses.  Entries of different IRIs and languages    *)
(* have nothing to do with each other, so one is modelled.                 *)
(*                                                                         *)
(* A label is named for where it comes from.                               *)
(***************************************************************************)
EXTENDS Naturals

CONSTANTS
  Lookups,      \* calls that run together
  MaxEdits,     \* bound: labels that appear or disappear at a source
  MaxFaults,    \* bound: raising calls of the database and restarts
  Nil

Sources == {"graph", "inline", "remote"}

\* What the constants must satisfy; the module that makes the instance assumes it.
LabelsAssumption == MaxEdits \in Nat /\ MaxFaults \in Nat /\ Nil \notin Sources \cup {"miss"}

VARIABLES
  has,        \* the sources that have a label
  scope,      \* the host of the IRI is "listed", or "other"; or no label is fetched: "off"
  hot,        \* _cache: the label, "miss", or Nil
  inline,     \* _inline_cache: whether it has a label, or Nil
  durable,    \* metadata_external_labels: the label, "miss", or Nil: no row that is fresh
  inflight,   \* _inflight
  fetch,      \* the background task: "none", "get", or what it got
  look,       \* of each call: how far it is, and whether the inline sources have a label
  edits, faults

cached == <<hot, inline, durable>>
vars   == <<has, scope, cached, inflight, fetch, look, edits, faults>>

Idle      == [pc |-> "idle", inline |-> FALSE]
At(l, pc) == look[l].pc = pc
Fault     == faults < MaxFaults /\ faults' = faults + 1

-----------------------------------------------------------------------------
(* The sources and the clocks.                                             *)

Edit(s) ==
  /\ edits < MaxEdits /\ edits' = edits + 1
  /\ has' = IF s \in has THEN has \ {s} ELSE has \cup {s}
  /\ UNCHANGED <<scope, cached, inflight, fetch, look, faults>>

HotExpires ==
  /\ hot # Nil /\ hot' = Nil
  /\ UNCHANGED <<has, scope, inline, durable, inflight, fetch, look, edits, faults>>

InlineExpires ==
  /\ inline # Nil /\ inline' = Nil
  /\ UNCHANGED <<has, scope, hot, durable, inflight, fetch, look, edits, faults>>

\* positive_ttl_seconds or negative_ttl_seconds after it was resolved.
DurableExpires ==
  /\ durable # Nil /\ durable' = Nil
  /\ UNCHANGED <<has, scope, hot, inline, inflight, fetch, look, edits, faults>>

-----------------------------------------------------------------------------
(* LabelResolver.lookup.                                                   *)

\* A call that the cache in memory does not answer.
Ask(l) ==
  /\ At(l, "idle") /\ hot = Nil
  /\ look' = [look EXCEPT ![l].pc = "inline"]
  /\ UNCHANGED <<has, scope, cached, inflight, fetch, edits, faults>>

ReadInline(l) ==
  /\ At(l, "inline")
  /\ inline' = IF inline = Nil THEN "inline" \in has ELSE inline
  /\ look' = [look EXCEPT ![l] = [pc |-> "query", inline |-> inline']]
  /\ UNCHANGED <<has, scope, hot, durable, inflight, fetch, edits, faults>>

\* A settings read that raises leaves an empty map in the cache.
ReadInlineRaises(l) ==
  /\ At(l, "inline") /\ inline = Nil /\ Fault
  /\ inline' = FALSE
  /\ look' = [look EXCEPT ![l] = [pc |-> "query", inline |-> FALSE]]
  /\ UNCHANGED <<has, scope, hot, durable, inflight, fetch, edits>>

\* The graph, then the inline sources; without remote labels a miss is one.
Query(l) ==
  /\ At(l, "query")
  /\ LET label == IF "graph" \in has THEN "graph" ELSE IF look[l].inline THEN "inline"
                  ELSE IF scope = "off" THEN "miss" ELSE Nil
     IN /\ hot' = IF label = Nil THEN hot ELSE label
        /\ look' = [look EXCEPT ![l] = IF label = Nil THEN [@ EXCEPT !.pc = "durable"] ELSE Idle]
  /\ UNCHANGED <<has, scope, inline, durable, inflight, fetch, edits, faults>>

\* _resolve_external: the row; else, from a listed host and once at a time, a fetch.
ReadDurable(l) ==
  /\ At(l, "durable")
  /\ look' = [look EXCEPT ![l] = Idle]
  /\ \/ /\ durable # Nil /\ hot' = durable
        /\ UNCHANGED <<inflight, fetch>>
     \/ /\ durable = Nil /\ UNCHANGED hot
        /\ IF scope = "listed" /\ ~inflight THEN inflight' = TRUE /\ fetch' = "get"
           ELSE UNCHANGED <<inflight, fetch>>
  /\ UNCHANGED <<has, scope, inline, durable, edits, faults>>

-----------------------------------------------------------------------------
(* _fetch_and_persist.                                                     *)

\* The host answers, with a label or without.
Answered ==
  /\ fetch = "get"
  /\ fetch' = IF "remote" \in has THEN "remote" ELSE "miss"
  /\ UNCHANGED <<has, scope, cached, inflight, look, edits, faults>>

\* Any failure is a miss.
FetchFails ==
  /\ fetch = "get" /\ fetch' = "miss"
  /\ UNCHANGED <<has, scope, cached, inflight, look, edits, faults>>

\* A variant of Persist that keeps the guard after a miss.
PersistAndGuard ==
  /\ fetch \in {"remote", "miss"}
  /\ \/ durable' = fetch /\ UNCHANGED faults
     \/ Fault /\ UNCHANGED durable
  /\ hot' = fetch /\ inflight' = (fetch = "miss") /\ fetch' = "none"
  /\ UNCHANGED <<has, scope, inline, look, edits>>

\* The row, if it can be written, and the cache in memory.
Persist ==
  /\ fetch \in {"remote", "miss"}
  /\ \/ durable' = fetch /\ UNCHANGED faults
     \/ Fault /\ UNCHANGED durable
  /\ hot' = fetch /\ inflight' = FALSE /\ fetch' = "none"
  /\ UNCHANGED <<has, scope, inline, look, edits>>

\* shutdown, and a new process.
Restart ==
  /\ Fault
  /\ hot' = Nil /\ inline' = Nil /\ inflight' = FALSE /\ fetch' = "none"
  /\ look' = [l \in Lookups |-> Idle]
  /\ UNCHANGED <<has, scope, durable, edits>>

-----------------------------------------------------------------------------
Init ==
  /\ has = {} /\ scope \in {"listed", "other", "off"}
  /\ hot = Nil /\ inline = Nil /\ durable = Nil
  /\ inflight = FALSE /\ fetch = "none" /\ look = [l \in Lookups |-> Idle]
  /\ edits = 0 /\ faults = 0

Step(l) == ReadInline(l) \/ Query(l) \/ ReadDurable(l)

Next ==
  \/ \E s \in Sources : Edit(s)
  \/ HotExpires \/ InlineExpires \/ DurableExpires
  \/ \E l \in Lookups : Ask(l) \/ Step(l) \/ ReadInlineRaises(l)
  \/ Answered \/ FetchFails \/ Persist \/ Restart

Spec == Init /\ [][Next]_vars

\* People go on asking, calls and fetches go on, entries expire, and again and again the host
\* answers.
Fairness ==
  /\ WF_vars(HotExpires) /\ WF_vars(InlineExpires) /\ WF_vars(DurableExpires)
  /\ \A l \in Lookups : WF_vars(Ask(l)) /\ WF_vars(Step(l))
  /\ WF_vars(Answered \/ FetchFails) /\ SF_vars(Answered) /\ WF_vars(Persist)

-----------------------------------------------------------------------------
(* Properties.                                                             *)

Labelled == hot \in Sources

\* Once the graph has a label for good, no miss and no other label is served for ever, not
\* even by a fetch that was under way.
GraphWins == <>[]("graph" \in has) => <>[](hot \in {Nil, "graph"})

\* An IRI of a listed host whose host has a label for good is served one again and again,
\* after outages, restarts and misses that were remembered.
MissesHeal == scope = "listed" /\ <>[]("remote" \in has) => []<>Labelled

LabelsConverge == GraphWins /\ MissesHeal
=============================================================================

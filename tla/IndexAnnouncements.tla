------------------------- MODULE IndexAnnouncements -------------------------
(***************************************************************************)
(* How a server tells the indexes that its records changed                 *)
(* (metadata/index_ping.py, index_targets.py): the loop, the record        *)
(* changes and an administrator ping every target, one batch at a time,    *)
(* while administrators add and remove targets.                            *)
(*                                                                         *)
(* The post to an index is one step; what an index then harvests is not    *)
(* modelled.                                                               *)
(***************************************************************************)
EXTENDS Naturals, FiniteSets

CONSTANTS
  Urls,
  EnvTargets,   \* FDP_INDEX_PING_TARGETS
  Writers,      \* requests that change records together
  Admins,       \* administrators who ping
  MaxChanges,   \* bound: changes of records and of targets
  MaxFaults,    \* bound: raising providers and restarts
  Nil

Pings == {"loop"} \cup Admins \cup Writers

\* What the constants must satisfy; the module that makes the instance assumes it.
AnnouncementsAssumption ==
  /\ EnvTargets \subseteq Urls /\ {"loop"} \cap (Admins \cup Writers) = {} /\ Admins \cap Writers = {}
  /\ MaxChanges \in Nat /\ MaxFaults \in Nat /\ Nil \notin {"ok", "failed"}

VARIABLES
  rows,      \* the registered targets
  status,    \* what is recorded of the last ping of each url, or Nil
  quiet,     \* the last ping with targets began less than ping_min_interval_seconds ago
  ping,      \* of each caller: how far it is, the targets it has still to post to, the results
  due,       \* history: targets that were told of no change since a record changed
  changes, faults

vars == <<rows, status, quiet, ping, due, changes, faults>>

Idle == [pc |-> "idle", todo |-> {}, got |-> {}]

\* effective_urls: the environment's targets and the rows, each once.
Targets == EnvTargets \cup rows

At(x, pc)  == ping[x].pc = pc
Go(x, pc)  == ping' = [ping EXCEPT ![x].pc = pc]
Locked     == \E x \in Pings : ping[x].pc \in {"targets", "post"}
Changed    == changes < MaxChanges /\ changes' = changes + 1

-----------------------------------------------------------------------------
(* IndexTargetService: the administrators.                                 *)

\* The url passes the guard and is no target yet; the column is unique.
Add(u) ==
  /\ u \notin Targets /\ Changed
  /\ rows' = rows \cup {u}
  /\ UNCHANGED <<status, quiet, ping, due, faults>>

Remove(u) ==
  /\ u \in rows /\ Changed
  /\ rows' = rows \ {u} /\ status' = [status EXCEPT ![u] = Nil] /\ due' = due \ {u}
  /\ UNCHANGED <<quiet, ping, faults>>

-----------------------------------------------------------------------------
(* IndexPinger.                                                            *)

\* _on_change: a change in the quiet interval is dropped.
RecordChanges(w) ==
  /\ At(w, "idle") /\ Changed
  /\ due' = Targets
  /\ IF quiet THEN UNCHANGED ping ELSE Go(w, "lock")
  /\ UNCHANGED <<rows, status, quiet, faults>>

\* The interval of the loop; POST /index/ping.
Scheduled(x) ==
  /\ x \notin Writers /\ At(x, "idle")
  /\ Go(x, "lock")
  /\ UNCHANGED <<rows, status, quiet, due, changes, faults>>

Lock(x) ==
  /\ At(x, "lock") /\ ~Locked
  /\ Go(x, "targets")
  /\ UNCHANGED <<rows, status, quiet, due, changes, faults>>

\* The provider's answer; without targets nothing is armed.
ReadTargets(x) ==
  /\ At(x, "targets")
  /\ IF Targets = {}
     THEN ping' = [ping EXCEPT ![x] = Idle] /\ UNCHANGED quiet
     ELSE /\ ping' = [ping EXCEPT ![x] = [@ EXCEPT !.pc = "post", !.todo = Targets]]
          /\ quiet' = TRUE
  /\ UNCHANGED <<rows, status, due, changes, faults>>

\* It raises: the loop ends with it.
ReadRaises(x) ==
  /\ At(x, "targets") /\ faults < MaxFaults /\ faults' = faults + 1
  /\ Go(x, IF x = "loop" THEN "dead" ELSE "idle")
  /\ UNCHANGED <<rows, status, quiet, due, changes>>

\* A variant of Post that one unreachable index stops.
PostOrStop(x) ==
  /\ At(x, "post")
  /\ \E u \in ping[x].todo, answer \in {"ok", "failed"} :
       LET rest == IF answer = "ok" THEN ping[x].todo \ {u} ELSE {} IN
       /\ ping' = [ping EXCEPT ![x] = [pc |-> IF rest = {} THEN "record" ELSE "post",
                                       todo |-> rest, got |-> @.got \cup {<<u, answer>>}]]
       /\ due' = due \ {u}
  /\ UNCHANGED <<rows, status, quiet, changes, faults>>

\* One target of the batch; its errors are results.  The lock goes with the last.
Post(x) ==
  /\ At(x, "post")
  /\ \E u \in ping[x].todo, answer \in {"ok", "failed"} :
       LET rest == ping[x].todo \ {u} IN
       /\ ping' = [ping EXCEPT ![x] = [pc |-> IF rest = {} THEN "record" ELSE "post",
                                       todo |-> rest, got |-> @.got \cup {<<u, answer>>}]]
       /\ due' = due \ {u}
  /\ UNCHANGED <<rows, status, quiet, changes, faults>>

\* record_results: one status after the other, of the targets that are still there.
Record(x) ==
  /\ At(x, "record")
  /\ \E g \in ping[x].got :
       /\ ping' = [ping EXCEPT ![x] = IF @.got = {g} THEN Idle ELSE [@ EXCEPT !.got = @ \ {g}]]
       /\ status' = IF g[1] \in Targets THEN [status EXCEPT ![g[1]] = g[2]] ELSE status
  /\ UNCHANGED <<rows, quiet, due, changes, faults>>

\* A status that cannot be recorded is logged.
RecordFails(x) ==
  /\ At(x, "record") /\ faults < MaxFaults /\ faults' = faults + 1
  /\ \E g \in ping[x].got :
       ping' = [ping EXCEPT ![x] = IF @.got = {g} THEN Idle ELSE [@ EXCEPT !.got = @ \ {g}]]
  /\ UNCHANGED <<rows, status, quiet, due, changes>>

\* ping_min_interval_seconds after the last batch began.
QuietEnds ==
  /\ quiet
  /\ quiet' = FALSE
  /\ UNCHANGED <<rows, status, ping, due, changes, faults>>

\* The server starts again, with the ping of the loop.
Restart ==
  /\ faults < MaxFaults /\ faults' = faults + 1
  /\ ping' = [x \in Pings |-> Idle] /\ quiet' = FALSE
  /\ UNCHANGED <<rows, status, due, changes>>

-----------------------------------------------------------------------------
Init ==
  /\ rows = {} /\ status = [u \in Urls |-> Nil] /\ quiet = FALSE
  /\ ping = [x \in Pings |-> Idle] /\ due = {}
  /\ changes = 0 /\ faults = 0

Step(x) == Lock(x) \/ ReadTargets(x) \/ Post(x) \/ Record(x)

Next ==
  \/ \E u \in Urls : Add(u) \/ Remove(u)
  \/ \E w \in Writers : RecordChanges(w)
  \/ \E x \in Pings : Scheduled(x) \/ Step(x) \/ ReadRaises(x) \/ RecordFails(x)
  \/ QuietEnds \/ Restart

Spec == Init /\ [][Next]_vars

\* The loop wakes after its interval, every caller goes on, and asyncio wakes those that wait
\* for the lock in their order.
Fairness ==
  /\ WF_vars(Scheduled("loop"))
  /\ \A x \in Pings : WF_vars(Step(x)) /\ SF_vars(Lock(x))

-----------------------------------------------------------------------------
(* Properties.                                                             *)

\* Every target that stays is told after every change, dropped on-change pings, unreachable
\* indexes and targets that come and go notwithstanding, unless the loop has ended.
ChangesAnnounced == \A u \in Urls : u \in due ~> u \notin due \/ At("loop", "dead")
=============================================================================

---------------------------- MODULE MetricsRollup ----------------------------
(***************************************************************************)
(* The usage metrics: requests observed by the middleware become rows of   *)
(* metrics_raw, rows of metrics_hourly and rows of metrics_daily           *)
(* (metrics/middleware.py, pipeline.py, aggregation.py, repository.py,     *)
(* scheduler.py), which the dashboard adds up (reader.py).                 *)
(*                                                                         *)
(* A row is keyed by its bucket and the dimensions; the dimensions are one *)
(* value here, so a bucket is a row.  A pass is one transaction from raw   *)
(* to hourly and another from hourly to daily, in READ COMMITTED: a        *)
(* statement sees what is committed, and waits for the rows another        *)
(* transaction has written.  Time is counted in hours.                     *)
(***************************************************************************)
EXTENDS Naturals, FiniteSets, FiniteSetsExt

CONSTANTS
  Requests,     \* the requests of a behaviour
  Passes,       \* who runs roll-ups: the background loop, cron, a full backup
  HoursPerDay,
  MaxHour,      \* bound: the clock
  KeepDays,     \* discard_hourly_after_days
  MaxDelay,     \* hours between a request and the insert of its row, at most
  MaxFaults,    \* bound: transactions that are rolled back
  Nil

Hours == 0 .. MaxHour
Day(h) == h \div HoursPerDay
Days == {Day(h) : h \in Hours}
HoursOf(d) == {h \in Hours : Day(h) = d}

ASSUME MetricsAssumption ==
  /\ HoursPerDay \in Nat \ {0} /\ MaxHour \in Nat /\ KeepDays \in Nat /\ MaxDelay \in Nat
  /\ MaxFaults \in Nat /\ IsFiniteSet(Requests)
  /\ Nil \notin Nat

VARIABLES
  now,
  bucket,       \* the hour the request of each row came in, or Nil
  row,          \* of each request: "none", "raw" or "gone"
  hourly,       \* request_count of each hour's row, or Nil: no row
  daily,        \* request_count of each day's row, or Nil
  pc, began,    \* of each pass: where it is, and the hour it began
  cutoff,       \* the watermark of its transaction
  left,         \* the buckets it has still to aggregate
  sum,          \* what the aggregate of the bucket at hand gave
  adds, sets,   \* its uncommitted increments of hours and replacements of days
  deletes,      \* the rows it has deleted and not committed: requests, then hours
  raced,        \* history: days a row came to during a pass, or after they were folded;
                \* all, and Nil, once two passes overlapped
  faults

metrics == <<now, bucket, row, hourly, daily>>
pass    == <<pc, began, cutoff, left, sum, adds, sets, deletes>>
vars    == <<metrics, pass, raced, faults>>

NoAdds == [h \in Hours |-> 0]
NoSets == [d \in Days |-> Nil]

Count(h) == IF hourly[h] = Nil THEN 0 ELSE hourly[h]
Raw(h)   == {r \in Requests : row[r] = "raw" /\ bucket[r] = h}
Least(S) == CHOOSE x \in S : \A y \in S : x <= y

Open(p) == pc[p] # "idle" /\ pc[p] # "daily"      \* its transaction is open
Goto(p, to) == pc' = [pc EXCEPT ![p] = to]

End(p) ==
  /\ Goto(p, "idle")
  /\ began' = [began EXCEPT ![p] = 0] /\ cutoff' = [cutoff EXCEPT ![p] = 0]

-----------------------------------------------------------------------------
(* Requests.                                                               *)

\* A pass takes less than an hour.
Tick ==
  /\ now < MaxHour /\ \A p \in Passes : pc[p] # "idle" => began[p] = now
  /\ now' = now + 1
  /\ UNCHANGED <<bucket, row, hourly, daily, pass, raced, faults>>

\* The hours of the requests whose events may be published now: the event carries the
\* time the request came in, and is published when its response has been sent, which
\* for a long download is later.
Observed == {h \in Hours : h <= now /\ now <= h + MaxDelay}

\* MetricsPipeline._handle: insert and commit; when that raises the event is logged and
\* forgotten, and the request stays without a row.
Handle(r) ==
  /\ row[r] = "none"
  /\ \E h \in Observed :
       /\ row' = [row EXCEPT ![r] = "raw"] /\ bucket' = [bucket EXCEPT ![r] = h]
       /\ raced' = IF daily[Day(h)] # Nil \/ \E p \in Passes : pc[p] # "idle"
                   THEN raced \cup {Day(h)} ELSE raced
  /\ UNCHANGED <<now, hourly, daily, pass, faults>>

-----------------------------------------------------------------------------
(* roll_up_raw_to_hourly.                                                  *)

\* A variant of ListRaw that takes only the bucket at the watermark.
ListRawLatest(p) ==
  /\ pc[p] = "idle"
  /\ raced' = IF \A q \in Passes : pc[q] = "idle" THEN raced ELSE Days \cup {Nil}
  /\ began' = [began EXCEPT ![p] = now]
  /\ \E c \in {now, now - 1} \cap Hours :
       /\ cutoff' = [cutoff EXCEPT ![p] = c]
       /\ left' = [left EXCEPT ![p] = {h \in {c} : Raw(h) # {}}]
       /\ Goto(p, IF Raw(c) # {} THEN "aggregate" ELSE "daily")
  /\ UNCHANGED <<metrics, sum, adds, sets, deletes, faults>>

\* The watermark, now - aggregate_after_seconds down to the hour, is this hour or
\* the one before; and the list of the buckets at or before it.
ListRaw(p) ==
  /\ pc[p] = "idle"
  /\ raced' = IF \A q \in Passes : pc[q] = "idle" THEN raced ELSE Days \cup {Nil}
  /\ began' = [began EXCEPT ![p] = now]
  /\ \E c \in {now, now - 1} \cap Hours :
       /\ cutoff' = [cutoff EXCEPT ![p] = c]
       /\ left' = [left EXCEPT ![p] = {h \in 0 .. c : Raw(h) # {}}]
       /\ Goto(p, IF \E h \in 0 .. c : Raw(h) # {} THEN "aggregate" ELSE "daily")
  /\ UNCHANGED <<metrics, sum, adds, sets, deletes, faults>>

AggregateRaw(p) ==
  LET h == Least(left[p]) IN
  /\ pc[p] = "aggregate" /\ left[p] # {}
  /\ sum' = [sum EXCEPT ![p] = Cardinality(Raw(h))]
  /\ Goto(p, "increment")
  /\ UNCHANGED <<metrics, began, cutoff, left, adds, sets, deletes, raced, faults>>

\* Another transaction has written, or deleted, the row of hour h.
Locked(p, h) == \E q \in Passes \ {p} : adds[q][h] # 0 \/ h \in deletes[q]

\* A variant of UpsertHourly that replaces what is there.
UpsertHourlyReplaces(p) ==
  LET h == Least(left[p]) IN
  /\ pc[p] = "increment" /\ ~Locked(p, h)
  /\ adds' = [adds EXCEPT ![p][h] = IF sum[p] > Count(h) THEN sum[p] - Count(h) ELSE 0]
  /\ left' = [left EXCEPT ![p] = @ \ {h}]
  /\ sum' = [sum EXCEPT ![p] = 0]
  /\ Goto(p, "aggregate")
  /\ UNCHANGED <<metrics, began, cutoff, sets, deletes, raced, faults>>

UpsertHourly(p) ==
  LET h == Least(left[p]) IN
  /\ pc[p] = "increment" /\ ~Locked(p, h)
  /\ adds' = [adds EXCEPT ![p][h] = sum[p]]
  /\ left' = [left EXCEPT ![p] = @ \ {h}]
  /\ sum' = [sum EXCEPT ![p] = 0]
  /\ Goto(p, "aggregate")
  /\ UNCHANGED <<metrics, began, cutoff, sets, deletes, raced, faults>>

RawThrough(c) == UNION {Raw(h) : h \in 0 .. c}

\* Every raw row through the watermark that is there now, aggregated or not.
DeleteRaw(p) ==
  /\ pc[p] = "aggregate" /\ left[p] = {}
  /\ \A q \in Passes \ {p} : deletes[q] \cap RawThrough(cutoff[p]) = {}
  /\ deletes' = [deletes EXCEPT ![p] = RawThrough(cutoff[p])]
  /\ Goto(p, "commitRaw")
  /\ UNCHANGED <<metrics, began, cutoff, left, sum, adds, sets, raced, faults>>

\* A variant of CommitRaw that leaves the raw rows.
CommitRawKeeps(p) ==
  /\ pc[p] = "commitRaw"
  /\ hourly' = [h \in Hours |-> IF adds[p][h] = 0 THEN hourly[h] ELSE Count(h) + adds[p][h]]
  /\ adds' = [adds EXCEPT ![p] = NoAdds] /\ deletes' = [deletes EXCEPT ![p] = {}]
  /\ Goto(p, "daily")
  /\ UNCHANGED <<now, bucket, row, daily, began, cutoff, left, sum, sets, raced, faults>>

CommitRaw(p) ==
  /\ pc[p] = "commitRaw"
  /\ hourly' = [h \in Hours |-> IF adds[p][h] = 0 THEN hourly[h] ELSE Count(h) + adds[p][h]]
  /\ row' = [r \in Requests |-> IF r \in deletes[p] THEN "gone" ELSE row[r]]
  /\ adds' = [adds EXCEPT ![p] = NoAdds] /\ deletes' = [deletes EXCEPT ![p] = {}]
  /\ Goto(p, "daily")
  /\ UNCHANGED <<now, bucket, daily, began, cutoff, left, sum, sets, raced, faults>>

-----------------------------------------------------------------------------
(* roll_up_hourly_to_daily.                                                *)

HoursBefore(d) == {h \in Hours : hourly[h] # Nil /\ Day(h) < d}

\* The days before the watermark.
ListHourly(p) ==
  LET c == IF Day(now) < KeepDays THEN 0 ELSE Day(now) - KeepDays
      days == {Day(h) : h \in HoursBefore(c)} IN
  /\ pc[p] = "daily" /\ days # {}
  /\ cutoff' = [cutoff EXCEPT ![p] = c]
  /\ left' = [left EXCEPT ![p] = days]
  /\ Goto(p, "sumDay")
  /\ UNCHANGED <<metrics, began, sum, adds, sets, deletes, raced, faults>>

\* No such day, or a pass of a backup, which rolls up raw rows only.
EndPass(p) ==
  /\ pc[p] = "daily"
  /\ End(p)
  /\ UNCHANGED <<metrics, left, sum, adds, sets, deletes, raced, faults>>

AggregateHourly(p) ==
  LET d == Least(left[p]) IN
  /\ pc[p] = "sumDay" /\ left[p] # {}
  /\ sum' = [sum EXCEPT ![p] = MapThenSumSet(Count, HoursOf(d))]
  /\ Goto(p, "replace")
  /\ UNCHANGED <<metrics, began, cutoff, left, adds, sets, deletes, raced, faults>>

UpsertDaily(p) ==
  LET d == Least(left[p]) IN
  /\ pc[p] = "replace" /\ \A q \in Passes \ {p} : sets[q][d] = Nil
  /\ sets' = [sets EXCEPT ![p][d] = sum[p]]
  /\ left' = [left EXCEPT ![p] = @ \ {d}]
  /\ sum' = [sum EXCEPT ![p] = 0]
  /\ Goto(p, "sumDay")
  /\ UNCHANGED <<metrics, began, cutoff, adds, deletes, raced, faults>>

DeleteHourly(p) ==
  /\ pc[p] = "sumDay" /\ left[p] = {}
  /\ \A h \in HoursBefore(cutoff[p]) : ~Locked(p, h)
  /\ deletes' = [deletes EXCEPT ![p] = HoursBefore(cutoff[p])]
  /\ Goto(p, "commitDaily")
  /\ UNCHANGED <<metrics, began, cutoff, left, sum, adds, sets, raced, faults>>

CommitDaily(p) ==
  /\ pc[p] = "commitDaily"
  /\ daily' = [d \in Days |-> IF sets[p][d] = Nil THEN daily[d] ELSE sets[p][d]]
  /\ hourly' = [h \in Hours |-> IF h \in deletes[p] THEN Nil ELSE hourly[h]]
  /\ sets' = [sets EXCEPT ![p] = NoSets] /\ deletes' = [deletes EXCEPT ![p] = {}]
  /\ End(p)
  /\ UNCHANGED <<now, bucket, row, left, sum, adds, raced, faults>>

-----------------------------------------------------------------------------
\* A variant of RollBack after which the increments count.
RollBackKeeps(p) ==
  /\ Open(p) /\ faults < MaxFaults
  /\ faults' = faults + 1
  /\ left' = [left EXCEPT ![p] = {}] /\ sum' = [sum EXCEPT ![p] = 0]
  /\ End(p)
  /\ UNCHANGED <<metrics, adds, sets, deletes, raced>>

\* A statement raises, the process dies, or Postgres ends a deadlock: the
\* transaction is rolled back and the pass is over.
RollBack(p) ==
  /\ Open(p) /\ faults < MaxFaults
  /\ faults' = faults + 1
  /\ left' = [left EXCEPT ![p] = {}] /\ sum' = [sum EXCEPT ![p] = 0]
  /\ adds' = [adds EXCEPT ![p] = NoAdds] /\ sets' = [sets EXCEPT ![p] = NoSets]
  /\ deletes' = [deletes EXCEPT ![p] = {}]
  /\ End(p)
  /\ UNCHANGED <<metrics, raced>>

Init ==
  /\ now = 0
  /\ bucket = [r \in Requests |-> Nil] /\ row = [r \in Requests |-> "none"]
  /\ hourly = [h \in Hours |-> Nil] /\ daily = NoSets
  /\ pc = [p \in Passes |-> "idle"] /\ began = [p \in Passes |-> 0]
  /\ cutoff = [p \in Passes |-> 0]
  /\ left = [p \in Passes |-> {}] /\ sum = [p \in Passes |-> 0]
  /\ adds = [p \in Passes |-> NoAdds] /\ sets = [p \in Passes |-> NoSets]
  /\ deletes = [p \in Passes |-> {}]
  /\ raced = {} /\ faults = 0

RollRaw(p) == ListRaw(p) \/ AggregateRaw(p) \/ UpsertHourly(p) \/ DeleteRaw(p) \/ CommitRaw(p)
RollDaily(p) ==
  EndPass(p) \/ ListHourly(p) \/ AggregateHourly(p) \/ UpsertDaily(p) \/ DeleteHourly(p) \/ CommitDaily(p)

Next ==
  \/ Tick
  \/ \E r \in Requests : Handle(r)
  \/ \E p \in Passes : RollRaw(p) \/ RollDaily(p) \/ RollBack(p)

Spec == Init /\ [][Next]_vars

\* The clock runs and the loop starts a pass in every interval.
FairSpec == Spec /\ WF_vars(Tick) /\ \A p \in Passes : WF_vars(RollRaw(p) \/ RollDaily(p))

-----------------------------------------------------------------------------
(* Properties.                                                             *)

\* The tables, clocks and transactions have their shapes, and a pass between two
\* transactions holds nothing.
TypeOK ==
  /\ now \in Hours /\ bucket \in [Requests -> Hours \cup {Nil}]
  /\ row \in [Requests -> {"none", "raw", "gone"}]
  /\ hourly \in [Hours -> Nat \cup {Nil}] /\ daily \in [Days -> Nat \cup {Nil}]
  /\ pc \in [Passes -> {"idle", "aggregate", "increment", "commitRaw", "daily", "sumDay",
                        "replace", "commitDaily"}]
  /\ began \in [Passes -> Hours] /\ cutoff \in [Passes -> Nat] /\ sum \in [Passes -> Nat]
  /\ left \in [Passes -> SUBSET Hours]
  /\ adds \in [Passes -> [Hours -> Nat]] /\ sets \in [Passes -> [Days -> Nat \cup {Nil}]]
  /\ deletes \in [Passes -> SUBSET (Requests \cup Hours)]
  /\ raced \subseteq Days \cup {Nil} /\ faults \in 0 .. MaxFaults
  /\ \A p \in Passes : ~Open(p) => adds[p] = NoAdds /\ sets[p] = NoSets /\ deletes[p] = {}

\* What the dashboard shows for day d: the union of the three tables.
Shown(d) ==
  (IF daily[d] = Nil THEN 0 ELSE daily[d]) + MapThenSumSet(Count, HoursOf(d))
    + Cardinality(UNION {Raw(h) : h \in HoursOf(d)})

\* The requests of day d whose rows were inserted.
Recorded(d) == {r \in Requests : row[r] \in {"raw", "gone"} /\ Day(bucket[r]) = d}

\* While passes take turns, the dashboard counts no request twice (reader.py:14), between
\* the two commits of a pass included; and a day whose rows all came between passes, and
\* before it was folded, is shown in full: rollbacks, repeated and interrupted passes lose
\* nothing, and the races of one day never cost another.
CountsTrue ==
  Nil \notin raced => \A d \in Days :
    /\ Shown(d) <= Cardinality(Recorded(d))
    /\ d \notin raced => Shown(d) = Cardinality(Recorded(d))

\* ADR-0002: a raw row, which carries the visitor's hash, is discarded soon after its hour,
\* whatever transactions fail and passes wait for each other's rows.
RawDiscarded ==
  LET r == CHOOSE r \in Requests : TRUE      \* any request: they differ in name only
  IN (row[r] = "raw" /\ bucket[r] < now) ~> row[r] # "raw"
=============================================================================

---------------------------- MODULE MetricsRebase ----------------------------
(***************************************************************************)
(* `fdp metrics rebase-resources --from OLD`: one transaction that moves   *)
(* the rows of metrics_raw, metrics_hourly and metrics_daily from the old  *)
(* prefix to the new one, or merges them (metrics/rebase.py), while the    *)
(* roll-up of the server folds raw rows into hours (aggregation.py).       *)
(*                                                                         *)
(* Of one record and one bucket: a row of an aggregate is its count.  The  *)
(* fold of hours into days is in MetricsRollup.                            *)
(***************************************************************************)
EXTENDS Naturals

CONSTANTS
  MaxRequests,  \* bound: requests that come during the behaviour
  MaxRuns,      \* bound: runs
  MaxFaults,    \* bound: transactions that are rolled back
  Nil

Prefixes == {"old", "new"}
Tables == {"hourly", "daily"}
Rows == [Prefixes -> Nat \cup {Nil}]

\* What the constants must satisfy; the module that makes the instance assumes it.
MetricsRebaseAssumption ==
  /\ MaxRequests \in Nat /\ MaxRuns \in Nat /\ MaxFaults \in Nat
  /\ Nil \notin Nat /\ Nil \notin Rows

VARIABLES
  raw,          \* of each prefix: raw rows
  agg,          \* of each aggregate and prefix: the count of its row, or Nil
  pc, table,    \* the run: the next statement, and the aggregate it is about
  moved,        \* has its transaction re-keyed the raw rows
  rows, match,  \* what its two SELECTs gave: the row of the old prefix, and of the new
  written,      \* aggregates it has written: prefix -> count or Nil; Nil: not written
  rolled,       \* the roll-up: the raw rows it has added up, or Nil
  requests, runs, faults,
  recorded,     \* history: the requests whose rows were inserted
  late,         \* history: the roll-up committed a count under the old prefix since the run began
  raced         \* history: a run merged what it had read, and the roll-up had committed since

tables == <<raw, agg>>
run    == <<pc, table, moved, rows, match, written>>
vars   == <<tables, run, rolled, requests, runs, faults, recorded, late, raced>>

Plus(a, b) == IF a = Nil THEN b ELSE IF b = Nil THEN a ELSE a + b
Nothing == [t \in Tables |-> Nil]

Begin ==
  /\ pc \in {"idle", "done"} /\ runs < MaxRuns /\ runs' = runs + 1
  /\ pc' = "raw" /\ table' = "hourly" /\ moved' = FALSE /\ written' = Nothing /\ late' = FALSE
  /\ rows' = Nil /\ match' = Nil
  /\ UNCHANGED <<tables, rolled, requests, faults, recorded, raced>>

\* _rebase_raw: an UPDATE, which locks the rows until the commit.
Raw ==
  /\ pc = "raw" /\ pc' = "select" /\ moved' = TRUE
  /\ UNCHANGED <<tables, table, rows, match, written, rolled, requests, runs, faults, recorded,
                 late, raced>>

After == IF table = "hourly" THEN "select" ELSE "commit"

\* _rebase_aggregates: the rows under the old prefix ...
Select ==
  /\ pc = "select"
  /\ rows' = agg[table]["old"]
  /\ IF agg[table]["old"] = Nil THEN pc' = After /\ table' = "daily"
                                ELSE pc' = "match" /\ UNCHANGED table
  /\ UNCHANGED <<tables, moved, match, written, rolled, requests, runs, faults, recorded, late,
                 raced>>

\* ... and the one that has the same dimensions under the new.
Match ==
  /\ pc = "match" /\ pc' = "write" /\ match' = agg[table]["new"]
  /\ UNCHANGED <<tables, table, moved, rows, written, rolled, requests, runs, faults, recorded,
                 late, raced>>

\* There is none: the row is renamed, and keeps the count it has.
Rename ==
  /\ pc = "write" /\ match = Nil /\ agg[table]["new"] = Nil
  /\ written' = [written EXCEPT ![table] = [old |-> Nil, new |-> agg[table]["old"]]]
  /\ pc' = After /\ table' = "daily"
  /\ UNCHANGED <<tables, moved, rows, match, rolled, requests, runs, faults, recorded, late, raced>>

\* There is one: it is set to the sum of what was read, and the old row is deleted.
Merge ==
  /\ pc = "write" /\ match # Nil
  /\ written' = [written EXCEPT ![table] = [old |-> Nil, new |-> match + rows]]
  /\ raced' = (raced \/ agg[table] # [old |-> rows, new |-> match])
  /\ pc' = After /\ table' = "daily"
  /\ UNCHANGED <<tables, moved, rows, match, rolled, requests, runs, faults, recorded, late>>

Commit ==
  /\ pc = "commit" /\ pc' = "done"
  /\ raw' = [old |-> 0, new |-> raw["old"] + raw["new"]]
  /\ agg' = [t \in Tables |-> IF written[t] = Nil THEN agg[t] ELSE written[t]]
  /\ moved' = FALSE /\ written' = Nothing
  /\ UNCHANGED <<table, rows, match, rolled, requests, runs, faults, recorded, late, raced>>

RolledBack == pc' = "idle" /\ moved' = FALSE /\ written' = Nothing

\* The unique constraint refuses the new name, as the roll-up inserted its row meanwhile.
Collides ==
  /\ pc = "write" /\ match = Nil /\ agg[table]["new"] # Nil /\ RolledBack
  /\ UNCHANGED <<tables, table, rows, match, rolled, requests, runs, faults, recorded, late, raced>>

\* A statement raises, or --dry-run rolls back.
Fails ==
  /\ pc \notin {"idle", "done"} /\ faults < MaxFaults /\ faults' = faults + 1 /\ RolledBack
  /\ UNCHANGED <<tables, table, rows, match, rolled, requests, runs, recorded, late, raced>>

\* The observer records under the record's identifier: the new prefix.
Request ==
  /\ requests < MaxRequests /\ rolled = Nil
  /\ requests' = requests + 1 /\ recorded' = recorded + 1
  /\ raw' = [raw EXCEPT !["new"] = @ + 1]
  /\ UNCHANGED <<agg, run, rolled, runs, faults, late, raced>>

\* The roll-up adds up the raw rows as they are committed ...
RollReads ==
  /\ rolled = Nil /\ \E p \in Prefixes : raw[p] > 0
  /\ rolled' = raw
  /\ UNCHANGED <<tables, run, requests, runs, faults, recorded, late, raced>>

\* ... then waits for the rows the rebase has written, increments, and deletes the raw rows,
\* under whatever prefix they are now.
RollCommits ==
  /\ rolled # Nil
  /\ ~(moved /\ raw["old"] > 0) /\ written["hourly"] = Nil
  /\ agg' = [agg EXCEPT !["hourly"] = [p \in Prefixes |->
       IF rolled[p] = 0 THEN agg["hourly"][p] ELSE Plus(agg["hourly"][p], rolled[p])]]
  /\ raw' = [p \in Prefixes |-> 0]
  /\ rolled' = Nil
  /\ late' = (late \/ rolled["old"] > 0)
  /\ UNCHANGED <<run, requests, runs, faults, recorded, raced>>

Init ==
  /\ raw \in [Prefixes -> 0 .. 1]
  /\ agg \in [Tables -> [Prefixes -> {Nil, 1}]]
  /\ pc = "idle" /\ table = "hourly" /\ moved = FALSE
  /\ rows = Nil /\ match = Nil /\ written = Nothing /\ rolled = Nil
  /\ requests = 0 /\ runs = 0 /\ faults = 0
  /\ recorded = raw["old"] + raw["new"]
       + Plus(0, Plus(Plus(agg["hourly"]["old"], agg["hourly"]["new"]),
                      Plus(agg["daily"]["old"], agg["daily"]["new"])))
  /\ late = FALSE /\ raced = FALSE

Next ==
  \/ Begin \/ Raw \/ Select \/ Match \/ Rename \/ Merge \/ Commit \/ Collides \/ Fails
  \/ Request \/ RollReads \/ RollCommits

Spec == Init /\ [][Next]_vars

-----------------------------------------------------------------------------
\* The requests the dashboard shows of the record, under either prefix.
Total ==
  raw["old"] + raw["new"]
    + Plus(0, Plus(Plus(agg["hourly"]["old"], agg["hourly"]["new"]),
                   Plus(agg["daily"]["old"], agg["daily"]["new"])))

\* Whichever transactions fail and are repeated, the record keeps its counts, each request
\* once, unless the roll-up committed between what a run read and the sum it wrote from it.
CountsKept == ~raced => Total = recorded

\* Once a run is done nothing is left under the old prefix, but what the roll-up had added
\* up before: "Idempotent: a second run finds no row under the old prefix."
CountsMoved ==
  pc = "done" /\ ~late => raw["old"] = 0 /\ \A t \in Tables : agg[t]["old"] = Nil

CountsRekeyed == CountsKept /\ CountsMoved
=============================================================================

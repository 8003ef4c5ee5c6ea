--------------------------- MODULE Operations_proofs ---------------------------
(***************************************************************************)
(* What holds of an operator's jobs and commands, for every value of the   *)
(* constants.                                                              *)
(*                                                                         *)
(* Jobs, whatever is asked for, however they overlap, raise or are cut     *)
(* short by a restart.  The count of the write freeze is that of the jobs  *)
(* that hold it: so it is zero, and clients may write, whenever no full    *)
(* job of the server is at work.  The registry keeps within its capacity,  *)
(* and its directories in hand.  And a job that nobody interferes with     *)
(* makes the copy it promises: a full dump is one state of both stores,    *)
(* and a restore is whole or refused.                                      *)
(*                                                                         *)
(* Redirects, imports and rebases: an inductive invariant for each, and at *)
(* the end the composition, in which each part's steps leave the others as *)
(* they are.                                                               *)
(***************************************************************************)
EXTENDS Operations, FiniteSetTheorems, SequenceTheorems, WellFoundedInduction, TLAPS

Holders == {j \in Jobs : Holds(j)}

\* A job has a request and a state, and a next call ...
Shaped ==
  /\ job = [j \in Jobs |-> [req |-> job[j].req, state |-> job[j].state]]
  /\ pc = [j \in Jobs |-> pc[j]]

\* ... and only a restore is about to open an archive.
OpensArchive == \A j \in Jobs : Running(j) /\ pc[j] = "open" => Req(j).kind = "restore"

FInv == Shaped /\ OpensArchive /\ FreezeMatches

-----------------------------------------------------------------------------
(* How the set of holders changes with one job.                            *)

\* The set is finite, and its size a number.
LEMMA Counted == IsFiniteSet(Holders) /\ Cardinality(Holders) \in Nat
  <1>1. Holders \subseteq Jobs
    BY DEF Holders
  <1> QED
    BY <1>1, BackupAssumption, FS_Subset, FS_CardinalityType DEF BackupAssumption

\* A step that changes nothing but the job j.
Only(j) ==
  /\ Shaped'
  /\ \A i \in Jobs \ {j} : job'[i] = job[i] /\ pc'[i] = pc[i]

\* A change of the state and the next call of j is one of nothing else.
LEMMA StateChange ==
  ASSUME Shaped, NEW j \in Jobs, NEW state, NEW call,
         job' = [job EXCEPT ![j].state = state], pc' = [pc EXCEPT ![j] = call]
  PROVE  /\ Only(j) /\ pc'[j] = call
         /\ job'[j].req = job[j].req /\ job'[j].state = state
  <1>1. DOMAIN job = Jobs /\ job[j] = [req |-> job[j].req, state |-> job[j].state]
    BY DEF Shaped
  <1>2. job' = [i \in Jobs |-> IF i = j THEN [job[j] EXCEPT !.state = state] ELSE job[i]]
    BY <1>1
  <1>3. job'[j] = [req |-> job[j].req, state |-> state]
    BY <1>1, <1>2
  <1>4. \A i \in Jobs : job'[i] = [req |-> job'[i].req, state |-> job'[i].state]
    <2> SUFFICES ASSUME NEW i \in Jobs
                 PROVE  job'[i] = [req |-> job'[i].req, state |-> job'[i].state]
      OBVIOUS
    <2>1. CASE i = j
      BY <1>3, <2>1
    <2>2. CASE i # j
      <3>1. job'[i] = job[i]
        BY <1>2, <2>2
      <3>2. job[i] = [req |-> job[i].req, state |-> job[i].state]
        BY DEF Shaped
      <3> QED
        BY <3>1, <3>2
    <2> QED
      BY <2>1, <2>2
  <1>5. Shaped'
    BY <1>2, <1>4 DEF Shaped
  <1>6. pc'[j] = call /\ \A i \in Jobs \ {j} : job'[i] = job[i] /\ pc'[i] = pc[i]
    BY <1>2 DEF Shaped
  <1> QED
    BY <1>3, <1>5, <1>6 DEF Only

\* Where j neither takes nor releases the freeze, the count stays.
LEMMA KeepsFreeze ==
  ASSUME FInv, NEW j \in Jobs, Only(j), Holds(j)' <=> Holds(j), holders' = holders,
         Running(j)' /\ pc'[j] = "open" => Req(j)'.kind = "restore"
  PROVE  FInv'
  <1>1. \A i \in Jobs \ {j} : Holds(i)' <=> Holds(i)
    BY DEF Only, Holds, Running, IsHttp, Full, Scope, Archive, Req
  <1>2. Holders' = Holders
    BY <1>1 DEF Holders
  <1>3. FreezeMatches'
    BY <1>2 DEF FInv, FreezeMatches, Holders
  <1>4. OpensArchive'
    BY DEF FInv, OpensArchive, Only, Running, Req
  <1> QED
    BY <1>3, <1>4 DEF FInv, Only

\* Where j takes it, one more job holds it.
LEMMA TakesFreeze ==
  ASSUME FInv, NEW j \in Jobs, Only(j), ~Holds(j), Holds(j)', holders' = holders + 1, pc'[j] # "open"
  PROVE  FInv'
  <1>1. \A i \in Jobs \ {j} : Holds(i)' <=> Holds(i)
    BY DEF Only, Holds, Running, IsHttp, Full, Scope, Archive, Req
  <1>2. Holders' = Holders \cup {j} /\ j \notin Holders
    BY <1>1 DEF Holders
  <1>3. Cardinality(Holders') = Cardinality(Holders) + 1
    BY <1>2, Counted, FS_AddElement
  <1>4. FreezeMatches'
    BY <1>3 DEF FInv, FreezeMatches, Holders
  <1>5. OpensArchive'
    BY DEF FInv, OpensArchive, Only, Running, Req
  <1> QED
    BY <1>4, <1>5 DEF FInv, Only

\* However a job ends, the freeze it held is released, and none that it did not hold.
LEMMA EndReleases ==
  ASSUME FInv, NEW j \in Jobs, Only(j), ~Running(j)',
         holders' = IF Holds(j) THEN holders - 1 ELSE holders
  PROVE  FInv'
  <1>1. ~Holds(j)'
    BY DEF Holds
  <1>2. CASE ~Holds(j)
    <2>1. Running(j)' /\ pc'[j] = "open" => Req(j)'.kind = "restore"
      OBVIOUS
    <2> QED
      BY <1>1, <1>2, <2>1, KeepsFreeze
  <1>3. CASE Holds(j)
    <2>1. \A i \in Jobs \ {j} : Holds(i)' <=> Holds(i)
      BY DEF Only, Holds, Running, IsHttp, Full, Scope, Archive, Req
    <2>2. Holders' = Holders \ {j} /\ j \in Holders
      BY <1>1, <1>3, <2>1 DEF Holders
    <2>3. Cardinality(Holders') = Cardinality(Holders) - 1
      BY <2>2, Counted, FS_RemoveElement
    <2>4. FreezeMatches'
      BY <1>3, <2>3 DEF FInv, FreezeMatches, Holders
    <2>5. OpensArchive'
      BY DEF FInv, OpensArchive, Only, Running, Req
    <2> QED
      BY <2>4, <2>5 DEF FInv, Only
  <1> QED
    BY <1>2, <1>3

\* Finish, as the runner's end, the way out and _run make it.
LEMMA Finished ==
  ASSUME FInv, NEW j \in Jobs, NEW outcome \in {"SUCCEEDED", "FAILED"}, Finish(j, outcome)
  PROVE  FInv'
  <1>1. Only(j) /\ job'[j].state = outcome
    BY StateChange DEF FInv, Finish
  <1>2. ~Running(j)'
    BY <1>1 DEF Running
  <1>3. holders' = IF Holds(j) THEN holders - 1 ELSE holders
    BY DEF Finish, Released
  <1> QED
    BY <1>1, <1>2, <1>3, EndReleases

\* The calls between the one that takes the freeze and the end.
Held == {"rollup", "list", "fetch", "tables", "audit", "pack", "revision", "existing", "occupied",
         "preview", "truncate", "migrate", "load", "upgrade", "derived", "replace", "backfill",
         "clear", "index"}

\* From one of them to the next, a job keeps what it holds.
LEMMA Goes ==
  ASSUME FInv, NEW j \in Jobs, pc[j] \in Held, NEW call \in Held, Goto(j, call)
  PROVE  FInv'
  <1>1. Only(j)
    BY DEF FInv, Shaped, Only, Goto
  <1>2. pc'[j] = call /\ job' = job /\ holders' = holders
    BY DEF FInv, Shaped, Goto
  <1>3. Holds(j)' <=> Holds(j)
    BY <1>2 DEF Holds, Held, Unfrozen, Running, IsHttp, Full, Scope, Archive, Req
  <1>4. pc'[j] # "open"
    BY <1>2 DEF Held
  <1> QED
    BY <1>1, <1>2, <1>3, <1>4, KeepsFreeze

-----------------------------------------------------------------------------
(* The steps.                                                              *)

\* At first nobody holds it.
LEMMA Initially == Init => FInv
  <1> SUFFICES ASSUME Init PROVE FInv
    OBVIOUS
  <1>1. \A j \in Jobs : job[j] = [req |-> Nil, state |-> "none"] /\ pc[j] = "done"
    BY DEF Init
  <1>2. Shaped
    BY <1>1 DEF Init, Shaped
  <1>3. OpensArchive
    BY <1>1 DEF OpensArchive
  <1>4. Holders = {}
    BY <1>1 DEF Holders, Holds, Running
  <1>5. FreezeMatches
    BY <1>4, FS_EmptySet DEF FreezeMatches, Holders, Init
  <1> QED
    BY <1>2, <1>3, <1>5 DEF FInv

\* A step that is of no job.
LEMMA Others ==
  ASSUME FInv, UNCHANGED <<job, pc, holders>>
  PROVE  FInv'
  BY DEF FInv, Shaped, OpensArchive, FreezeMatches, Holds, Running, IsHttp, Full, Scope, Archive,
         Req

\* A job or a command that is asked for does not run yet.
LEMMA Asking ==
  ASSUME FInv, NEW j \in Jobs, NEW r, Fresh(j), holders' = holders,
         job' = [job EXCEPT ![j] = [req |-> r, state |-> "QUEUED"]],
         pc' = [pc EXCEPT ![j] = "queued"]
  PROVE  FInv'
  <1>1. Only(j)
    BY DEF FInv, Shaped, Only
  <1>2. job[j].state = "none" /\ job'[j].state = "QUEUED"
    BY DEF FInv, Shaped, Fresh
  <1>3. ~Running(j) /\ ~Running(j)'
    BY <1>2 DEF Running
  <1> QED
    BY <1>1, <1>3, KeepsFreeze DEF Holds

\* A dump takes the freeze as it starts, if it is a full one of the server.
LEMMA StartingDump ==
  ASSUME FInv, NEW j \in Jobs, StartDump(j)
  PROVE  FInv'
  <1>1. PICK call \in {"rollup", "list"}, state \in {"RUNNING"} :
          pc' = [pc EXCEPT ![j] = call] /\ job' = [job EXCEPT ![j].state = state]
    BY DEF StartDump
  <1>2. /\ Only(j) /\ pc'[j] = call
        /\ job'[j].req = job[j].req /\ job'[j].state = state
    BY <1>1, StateChange DEF FInv
  <1>3. /\ job[j].state = "QUEUED" /\ job'[j].state = "RUNNING" /\ job'[j].req = job[j].req
        /\ Req(j).kind = "dump" /\ pc'[j] \in {"rollup", "list"}
    BY <1>2 DEF StartDump, IsDump
  <1>4. ~Holds(j) /\ (Holds(j)' <=> IsHttp(j) /\ Full(j))
    BY <1>3 DEF Holds, Running, IsHttp, Full, Scope, Archive, Req
  <1>5. CASE IsHttp(j) /\ Full(j)
    <2>1. holders' = holders + 1
      BY <1>5 DEF StartDump
    <2> QED
      BY <1>2, <1>3, <1>4, <1>5, <2>1, TakesFreeze
  <1>6. CASE ~(IsHttp(j) /\ Full(j))
    <2>1. holders' = holders
      BY <1>6 DEF StartDump
    <2> QED
      BY <1>2, <1>3, <1>4, <1>6, <2>1, KeepsFreeze
  <1> QED
    BY <1>5, <1>6

\* A restore does not take it before it knows the archive ...
LEMMA StartingRestore ==
  ASSUME FInv, NEW j \in Jobs, StartRestore(j)
  PROVE  FInv'
  <1>1. /\ Only(j) /\ pc'[j] = "open"
        /\ job'[j].req = job[j].req /\ job'[j].state = "RUNNING"
    BY StateChange DEF FInv, StartRestore
  <1>2. job[j].state = "QUEUED" /\ Req(j).kind = "restore" /\ holders' = holders
    BY DEF StartRestore, IsRestore
  <1>3. ~Holds(j) /\ ~Holds(j)' /\ Req(j)'.kind = "restore"
    BY <1>1, <1>2 DEF Holds, Running, Req, Unfrozen
  <1> QED
    BY <1>1, <1>2, <1>3, KeepsFreeze

\* ... which is when it has opened it.
LEMMA Opening ==
  ASSUME FInv, NEW j \in Jobs, Open(j)
  PROVE  FInv'
  <1>1. Only(j)
    BY DEF FInv, Shaped, Only, Open
  <1>2. Running(j) /\ pc[j] = "open" /\ Req(j).kind = "restore"
    BY DEF FInv, OpensArchive, Open
  <1>3. ~Holds(j)
    BY <1>2 DEF Holds, Unfrozen
  <1>4. CASE ReadsZip(j) /\ Admissible(j)
    <2>1. /\ job' = job /\ pc'[j] \in {"revision", "existing"}
          /\ holders' = IF IsHttp(j) /\ Full(j) THEN holders + 1 ELSE holders
      BY <1>4 DEF Open, FInv, Shaped
    <2>2. Holds(j)' <=> IsHttp(j) /\ Full(j)
      BY <1>2, <2>1 DEF Holds, Running, IsHttp, Full, Scope, Archive, Req, Unfrozen
    <2>3. CASE IsHttp(j) /\ Full(j)
      BY <1>1, <1>3, <2>1, <2>2, <2>3, TakesFreeze
    <2>4. CASE ~(IsHttp(j) /\ Full(j))
      BY <1>1, <1>3, <2>1, <2>2, <2>4, KeepsFreeze
    <2> QED
      BY <2>3, <2>4
  <1>5. CASE ~(ReadsZip(j) /\ Admissible(j))
    <2>1. job'[j].state = "FAILED" /\ holders' = holders
      BY <1>5 DEF Open, FInv, Shaped
    <2>2. ~Running(j)'
      BY <2>1 DEF Running
    <2> QED
      BY <1>1, <1>3, <2>1, <2>2, EndReleases
  <1> QED
    BY <1>4, <1>5

\* A call of a dump under way goes on to another, or ends it.
LEMMA DumpGoesOn ==
  ASSUME FInv, NEW j \in Jobs, Dumping(j), ~StartDump(j)
  PROVE  FInv'
  <1>1. CASE RollUp(j)
    <2>1. Only(j) /\ pc[j] = "rollup" /\ pc'[j] = "list" /\ job' = job /\ holders' = holders
      BY <1>1 DEF RollUp, FInv, Shaped, Only
    <2>2. Holds(j)' <=> Holds(j)
      BY <2>1 DEF Holds, Unfrozen, Running, IsHttp, Full, Scope, Archive, Req
    <2> QED
      BY <2>1, <2>2, KeepsFreeze
  <1>2. CASE ListGraphs(j)
    BY <1>2, Finished, Goes DEF ListGraphs, Fail, AfterGraphs, Held
  <1>3. CASE FetchGraph(j)
    BY <1>3, Goes DEF FetchGraph, AfterGraphs, Held
  <1>4. CASE DumpTables(j)
    <2>1. Only(j) /\ pc[j] = "tables" /\ pc'[j] = "pack" /\ job' = job /\ holders' = holders
      BY <1>4 DEF DumpTables, FInv, Shaped, Only
    <2>2. Holds(j)' <=> Holds(j)
      BY <2>1 DEF Holds, Unfrozen, Running, IsHttp, Full, Scope, Archive, Req
    <2> QED
      BY <2>1, <2>2, KeepsFreeze
  <1>5. CASE DumpAudit(j)
    BY <1>5, Finished, Goes DEF DumpAudit, Fail, Held
  <1>6. CASE Pack(j)
    BY <1>6, Finished DEF Pack
  <1> QED
    BY <1>1, <1>2, <1>3, <1>4, <1>5, <1>6 DEF Dumping

\* A call of a restore that has opened its archive goes on to another, or ends it.
LEMMA RestoreGoesOn ==
  ASSUME FInv, NEW j \in Jobs, Restoring(j), ~StartRestore(j), ~Open(j)
  PROVE  FInv'
  <1>1. CASE CheckRevision(j)
    BY <1>1, Finished, Goes DEF CheckRevision, Fail, Held
  <1>2. CASE CheckOccupied(j)
    BY <1>2, Finished, Goes DEF CheckOccupied, Fail, Held
  <1>3. CASE Preview(j)
    BY <1>3, Finished, Goes DEF Preview, Fail, Held
  <1>4. CASE Truncate(j)
    BY <1>4, Goes DEF Truncate, Held
  <1>5. CASE MigrateToArchive(j)
    BY <1>5, Goes DEF MigrateToArchive, Held
  <1>6. CASE LoadTables(j)
    BY <1>6, Finished, Goes DEF LoadTables, Fail, Held
  <1>7. CASE MigrateToHead(j)
    BY <1>7, Goes DEF MigrateToHead, Held
  <1>8. CASE TruncateDerived(j)
    BY <1>8, Goes DEF TruncateDerived, Held
  <1>9. CASE Existing(j)
    BY <1>9, Finished, Goes DEF Existing, Fail, AfterReplace, Held
  <1>10. CASE ReplaceGraph(j)
    BY <1>10, Goes DEF ReplaceGraph, AfterReplace, Held
  <1>11. CASE RestoreAudit(j)
    BY <1>11, Finished, Goes DEF RestoreAudit, Fail, Held
  <1>12. CASE Backfill(j)
    BY <1>12, Goes DEF Backfill, Held
  <1>13. CASE ClearSearch(j)
    BY <1>13, Goes DEF ClearSearch, Held
  <1>14. CASE Index(j)
    BY <1>14, Finished DEF Index
  <1> QED
    BY <1>1, <1>2, <1>3, <1>4, <1>5, <1>6, <1>7, <1>8, <1>9, <1>10, <1>11, <1>12, <1>13, <1>14
    DEF Restoring

\* A restart ends every job of the server, and the freeze with them; commands hold none.
LEMMA Restarted ==
  ASSUME FInv, Restart
  PROVE  FInv'
  <1>1. Shaped'
    BY DEF FInv, Shaped, Restart
  <1>2. \A j \in Jobs : IsHttp(j)' => ~Running(j)'
    <2> SUFFICES ASSUME NEW j \in Jobs, IsHttp(j)' PROVE ~Running(j)'
      OBVIOUS
    <2>1. CASE Fresh(j)
      BY <2>1 DEF FInv, Shaped, Restart, Fresh, Running
    <2>2. CASE ~Fresh(j)
      <3>1. job'[j].req = job[j].req
        BY <2>2 DEF FInv, Shaped, Restart
      <3>2. IsHttp(j)
        BY <3>1 DEF IsHttp, Req
      <3> QED
        BY <2>2, <3>2 DEF FInv, Shaped, Restart, Running
    <2> QED
      BY <2>1, <2>2
  <1>3. Holders' = {}
    BY <1>2 DEF Holders, Holds
  <1>4. FreezeMatches'
    BY <1>3, FS_EmptySet DEF FreezeMatches, Holders, Restart
  <1>5. OpensArchive'
    <2> SUFFICES ASSUME NEW j \in Jobs, Running(j)', pc'[j] = "open" PROVE Req(j)'.kind = "restore"
      BY DEF OpensArchive
    <2>1. ~Fresh(j) /\ ~IsHttp(j)
      BY DEF Restart
    <2>2. job'[j] = job[j] /\ pc'[j] = pc[j]
      BY <2>1 DEF Restart
    <2> QED
      BY <2>2 DEF FInv, OpensArchive, Running, Req
  <1> QED
    BY <1>1, <1>4, <1>5 DEF FInv

\* Every step keeps the invariant.
LEMMA Inductive == FInv /\ [Next]_vars => FInv'
  <1> SUFFICES ASSUME FInv, [Next]_vars PROVE FInv'
    OBVIOUS
  <1>1. CASE \E w \in Writes : Admit(w) \/ WriteGraph(w) \/ WriteRow(w) \/ WriteSearch(w)
    BY <1>1, Others DEF Admit, WriteGraph, WriteRow, WriteSearch
  <1>2. CASE Decide
    BY <1>2, Others DEF Decide
  <1>3. CASE \E j \in Jobs, r \in Asked : Launch(j, r) \/ Command(j, r)
    <2>1. PICK j \in Jobs, r \in Asked : Launch(j, r) \/ Command(j, r)
      BY <1>3
    <2>2. CASE Launch(j, r)
      BY <2>2, Asking DEF Launch, NextJob
    <2>3. CASE Command(j, r)
      BY <2>3, Asking DEF Command, NextJob
    <2> QED
      BY <2>1, <2>2, <2>3
  <1>4. CASE \E j \in Jobs : JobStep(j) \/ Raise(j)
    <2>1. PICK j \in Jobs : JobStep(j) \/ Raise(j)
      BY <1>4
    <2>2. CASE Dumping(j)
      BY <2>2, StartingDump, DumpGoesOn
    <2>3. CASE Restoring(j)
      BY <2>3, StartingRestore, Opening, RestoreGoesOn
    <2>4. CASE Raise(j)
      BY <2>4, Finished DEF Raise, Fail
    <2> QED
      BY <2>1, <2>2, <2>3, <2>4 DEF JobStep
  <1>5. CASE Restart
    BY <1>5, Restarted
  <1>6. CASE UNCHANGED vars
    BY <1>6, Others DEF vars
  <1> QED
    BY <1>1, <1>2, <1>3, <1>4, <1>5, <1>6 DEF Next

-----------------------------------------------------------------------------
\* The freeze counts the jobs that hold it (write_freeze.py: entered by full jobs, left by every way
\* out of the runner), for any jobs, requests, bounds, raising calls and restarts.
THEOREM FreezeAlwaysMatches == Spec => []FreezeMatches
  <1>1. FInv => FreezeMatches
    BY DEF FInv
  <1> QED
    BY <1>1, Initially, Inductive, PTL DEF Spec
-----------------------------------------------------------------------------
(* The working directories.  A job of the registry keeps the directory it  *)
(* made as long as it is registered, and one that left the registry before *)
(* its end is known as early; the rest have none.                          *)

DumpCalls == {"rollup", "list", "fetch", "tables", "audit", "pack"}

\* The registry: no more jobs than it may hold, each of them once.
Registry ==
  /\ order \in Seq(Jobs) /\ Len(order) <= MaxJobs
  /\ \A a, b \in DOMAIN order : order[a] = order[b] => a = b
  /\ dir = [j \in Jobs |-> dir[j]] /\ archive = [j \in Jobs |-> archive[j]]

\* What holds of each job and its directory, between any two calls.
Keeps(j) ==
  /\ Fresh(j) => dir[j] = "none" /\ j \notin Registered
  /\ ~Fresh(j) /\ IsHttp(j) => j \in Registered \/ j \in early \/ (Ended(j) /\ dir[j] = "none")
  /\ j \in Registered => IsHttp(j)
  /\ Running(j) /\ Req(j).kind = "dump" =>
       pc[j] \in DumpCalls /\ (j \in Registered => dir[j] = "whole")
  /\ j \in Registered /\ job[j].state = "SUCCEEDED" /\ Req(j).kind = "dump" =>
       dir[j] = "whole" /\ archive[j].bad = {}

DInv == Shaped /\ Registry /\ \A j \in Jobs : Keeps(j)

\* A step of the job j touches no directory and no archive but its own, and not the registry.
Within(j) ==
  /\ Only(j) /\ job'[j].req = job[j].req
  /\ dir' = [i \in Jobs |-> dir'[i]] /\ archive' = [i \in Jobs |-> archive'[i]]
  /\ \A i \in Jobs \ {j} : dir'[i] = dir[i] /\ archive'[i] = archive[i]
  /\ order' = order /\ early' = early

\* So the others keep what they had.
LEMMA OthersKeep ==
  ASSUME DInv, NEW j \in Jobs, Within(j), Keeps(j)'
  PROVE  DInv'
  <1>1. Registry'
    BY DEF DInv, Registry, Within
  <1>2. \A i \in Jobs \ {j} : Keeps(i)'
    BY DEF DInv, Keeps, Within, Only, Fresh, IsHttp, Req, Registered, Ended, Running
  <1> QED
    BY <1>1, <1>2 DEF DInv, Within, Only

\* Where a job ends, or goes on to another call.
LEMMA FinishWithin ==
  ASSUME DInv, NEW j \in Jobs, NEW outcome, Finish(j, outcome),
         archive' = [i \in Jobs |-> archive'[i]], \A i \in Jobs \ {j} : archive'[i] = archive[i],
         order' = order, early' = early
  PROVE  /\ Within(j) /\ job'[j].state = outcome
         /\ IsHttp(j) => dir'[j] = dir[j]
  <1>1. Only(j) /\ job'[j].req = job[j].req /\ job'[j].state = outcome
    BY StateChange DEF DInv, Finish
  <1>2. /\ dir' = [i \in Jobs |-> dir'[i]] /\ \A i \in Jobs \ {j} : dir'[i] = dir[i]
        /\ IsHttp(j) => dir'[j] = dir[j]
    BY DEF Finish, Removed, DInv, Registry
  <1> QED
    BY <1>1, <1>2 DEF Within

\* A job that goes on, and keeps its directory.
LEMMA GotoWithin ==
  ASSUME DInv, NEW j \in Jobs, NEW call, Goto(j, call), archive' = archive, order' = order, early' = early
  PROVE  Within(j) /\ job' = job /\ pc'[j] = call /\ dir' = dir
  <1>1. Only(j) /\ pc'[j] = call /\ job' = job /\ dir' = dir
    BY DEF DInv, Shaped, Only, Goto
  <1> QED
    BY <1>1 DEF Within, DInv, Registry

\* A step of a job that had not ended leaves the first half of Keeps as it was ...
LEMMA StillKeeps ==
  ASSUME DInv, NEW j \in Jobs, Within(j), ~Ended(j), job'[j].state # "none",
         Running(j)' /\ Req(j).kind = "dump" =>
            pc'[j] \in DumpCalls /\ (j \in Registered => dir'[j] = "whole"),
         j \in Registered /\ job'[j].state = "SUCCEEDED" /\ Req(j).kind = "dump" =>
            dir'[j] = "whole" /\ archive'[j].bad = {}
  PROVE  DInv'
  <1>1. Req(j)' = Req(j) /\ Registered' = Registered /\ early' = early /\ ~Fresh(j)'
    BY DEF Within, Req, Registered, Fresh
  <1>2. ~Fresh(j) /\ Keeps(j)
    BY DEF DInv, Fresh, Ended
  <1>3. Keeps(j)'
    BY <1>1, <1>2 DEF Keeps, IsHttp
  <1> QED
    BY <1>3, OthersKeep

\* ... so a restore keeps the invariant whatever it does, ...
LEMMA RestoreKeeps ==
  ASSUME DInv, NEW j \in Jobs, Restoring(j)
  PROVE  DInv'
  <1>1. ~Ended(j) /\ Req(j).kind # "dump"
    <2>1. CASE StartRestore(j)
      BY <2>1 DEF StartRestore, IsRestore, Ended
    <2>2. CASE ~StartRestore(j)
      <3>1. Running(j) /\ (pc[j] \notin DumpCalls \/ Req(j).kind = "restore")
        BY <2>2
           DEF Restoring, DumpCalls, Open, CheckRevision, CheckOccupied, Preview, Truncate,
               MigrateToArchive, LoadTables, MigrateToHead, TruncateDerived, Existing,
               ReplaceGraph, RestoreAudit, IsRestore, Backfill, ClearSearch, Index
      <3> QED
        BY <3>1 DEF Ended, Running, DInv, Keeps
    <2> QED
      BY <2>1, <2>2
  <1>2. archive' = archive /\ order' = order /\ early' = early
    BY DEF Restoring, StartRestore, Open, CheckRevision, CheckOccupied, Preview, Truncate,
           MigrateToArchive, LoadTables, MigrateToHead, TruncateDerived, Existing, ReplaceGraph,
           RestoreAudit, Backfill, ClearSearch, Index, work, hist
  <1>3. \/ StartRestore(j) \/ Open(j)
        \/ \E call \in Held : Goto(j, call)
        \/ \E outcome \in {"SUCCEEDED", "FAILED"} : Finish(j, outcome)
    BY DEF Restoring, CheckRevision, CheckOccupied, Preview, Truncate,
           MigrateToArchive, LoadTables, MigrateToHead, TruncateDerived, Existing, ReplaceGraph,
           RestoreAudit, Backfill, ClearSearch, Index, Fail, Held, AfterReplace
  <1>4. Within(j) /\ job'[j].state # "none"
    <2>1. CASE StartRestore(j)
      <3>1. Only(j) /\ job'[j].req = job[j].req /\ job'[j].state = "RUNNING" /\ dir' = dir
        BY <2>1, StateChange DEF DInv, StartRestore
      <3> QED
        BY <1>2, <3>1 DEF Within, DInv, Registry
    <2>2. CASE Open(j)
      <3>1. CASE ReadsZip(j) /\ Admissible(j)
        <4>1. Only(j) /\ job' = job /\ dir' = dir
          BY <2>2, <3>1 DEF Open, DInv, Shaped, Only
        <4> QED
          BY <1>1, <1>2, <4>1 DEF Within, DInv, Registry, Ended
      <3>2. CASE ~(ReadsZip(j) /\ Admissible(j))
        <4>1. Only(j) /\ job'[j].req = job[j].req /\ job'[j].state = "FAILED"
          BY <2>2, <3>2, StateChange DEF DInv, Open
        <4>2. dir' = [i \in Jobs |-> dir'[i]] /\ \A i \in Jobs \ {j} : dir'[i] = dir[i]
          BY <2>2, <3>2 DEF Open, Removed, DInv, Registry
        <4> QED
          BY <1>2, <4>1, <4>2 DEF Within, DInv, Registry
      <3> QED
        BY <3>1, <3>2
    <2>3. CASE \E call \in Held : Goto(j, call)
      BY <1>1, <1>2, <2>3, GotoWithin DEF Ended
    <2>4. CASE \E outcome \in {"SUCCEEDED", "FAILED"} : Finish(j, outcome)
      BY <1>2, <2>4, FinishWithin DEF DInv, Registry
    <2> QED
      BY <1>3, <2>1, <2>2, <2>3, <2>4
  <1> QED
    BY <1>1, <1>4, StillKeeps

\* ... and a dump does: while it is registered nobody takes its directory away, so what it packs is whole.
LEMMA DumpKeeps ==
  ASSUME DInv, NEW j \in Jobs, Dumping(j)
  PROVE  DInv'
  <1>1. ~Ended(j) /\ ~Fresh(j) /\ Keeps(j)
    BY DEF Dumping, StartDump, IsDump, RollUp, ListGraphs, FetchGraph, DumpTables, DumpAudit,
           Pack, Running, Ended, Fresh, DInv
  <1>2. j \in Registered => IsHttp(j)
    BY <1>1 DEF Keeps
  <1>3. Running(j) /\ Req(j).kind = "dump" /\ j \in Registered => dir[j] = "whole"
    BY <1>1 DEF Keeps
  <1>4. CASE StartDump(j)
    <2>1. PICK call \in {"rollup", "list"}, state \in {"RUNNING"} :
            pc' = [pc EXCEPT ![j] = call] /\ job' = [job EXCEPT ![j].state = state]
      BY <1>4 DEF StartDump
    <2>2. /\ Only(j) /\ pc'[j] = call /\ job'[j].req = job[j].req /\ job'[j].state = "RUNNING"
      BY <2>1, StateChange DEF DInv
    <2>3. Within(j) /\ dir'[j] = "whole"
      BY <1>4, <2>2 DEF StartDump, Within, DInv, Registry, work
    <2> QED
      BY <1>1, <2>2, <2>3, StillKeeps DEF DumpCalls
  <1>5. CASE RollUp(j)
    <2>1. Only(j) /\ pc'[j] = "list" /\ job' = job
      BY <1>5 DEF RollUp, DInv, Shaped, Only
    <2>2. Within(j) /\ dir'[j] = "whole" /\ job'[j].state = "RUNNING"
      BY <1>5, <2>1 DEF RollUp, Within, DInv, Registry, work, hist, Running
    <2> QED
      BY <1>1, <2>1, <2>2, StillKeeps DEF DumpCalls
  <1>6. CASE DumpTables(j)
    <2>1. Only(j) /\ pc'[j] = "pack" /\ job' = job
      BY <1>6 DEF DumpTables, DInv, Shaped, Only
    <2>2. Within(j) /\ (dir[j] = "whole" => dir'[j] = "whole") /\ job'[j].state = "RUNNING"
      BY <1>6, <2>1 DEF DumpTables, Within, DInv, Registry, hist, Running, Here
    <2> QED
      BY <1>1, <1>3, <1>6, <2>1, <2>2, StillKeeps DEF DumpCalls, DumpTables
  <1>7. CASE ListGraphs(j) \/ FetchGraph(j) \/ DumpAudit(j)
    <2>1. archive' = archive /\ order' = order /\ early' = early /\ Running(j)
      BY <1>7 DEF ListGraphs, FetchGraph, DumpAudit, hist
    <2>2. Fail(j) \/ \E call \in DumpCalls : Goto(j, call)
      BY <1>7 DEF ListGraphs, FetchGraph, DumpAudit, AfterGraphs, DumpCalls
    <2>3. CASE Fail(j)
      <3>1. Within(j) /\ job'[j].state = "FAILED"
        BY <2>1, <2>3, FinishWithin DEF Fail, DInv, Registry
      <3> QED
        BY <1>1, <3>1, StillKeeps DEF Running
    <2>4. CASE \E call \in DumpCalls : Goto(j, call)
      <3>1. Within(j) /\ job' = job /\ pc'[j] \in DumpCalls /\ dir' = dir
        BY <2>1, <2>4, GotoWithin
      <3> QED
        BY <1>1, <1>3, <2>1, <3>1, StillKeeps DEF Running
    <2> QED
      BY <2>2, <2>3, <2>4
  <1>8. CASE Pack(j)
    <2>1. PICK outcome \in {"SUCCEEDED", "FAILED"} : Finish(j, outcome)
      BY <1>8 DEF Pack
    <2>2. /\ archive' = [i \in Jobs |-> archive'[i]] /\ order' = order /\ early' = early
          /\ \A i \in Jobs \ {j} : archive'[i] = archive[i]
          /\ dir[j] = "whole" => archive'[j].bad = {}
      BY <1>8 DEF Pack, DInv, Registry, hist, Here
    <2>3. Within(j) /\ job'[j].state = outcome /\ (IsHttp(j) => dir'[j] = dir[j])
      BY <2>1, <2>2, FinishWithin
    <2>4. Running(j)
      BY <1>8 DEF Pack
    <2> QED
      BY <1>1, <1>2, <1>3, <2>2, <2>3, <2>4, StillKeeps DEF Running
  <1> QED
    BY <1>4, <1>5, <1>6, <1>7, <1>8 DEF Dumping

\* What a queue holds, and that it repeats nothing.
Holding(q) == {q[a] : a \in DOMAIN q}
NoRepeats(q) == \A a, b \in DOMAIN q : q[a] = q[b] => a = b

\* What is left of a queue without repeats when its first element is taken, ...
LEMMA WithoutTheFirst ==
  ASSUME NEW q \in Seq(Jobs), Len(q) >= 1, NoRepeats(q)
  PROVE  /\ Tail(q) \in Seq(Jobs) /\ Len(Tail(q)) = Len(q) - 1 /\ q[1] \in Holding(q)
         /\ NoRepeats(Tail(q)) /\ Holding(Tail(q)) = Holding(q) \ {q[1]}
  <1> DEFINE t == Tail(q)
  <1>1. q # <<>>
    OBVIOUS
  <1>2. Len(q) \in Nat /\ DOMAIN q = 1 .. Len(q)
    OBVIOUS
  <1>3. t \in Seq(Jobs) /\ Len(t) = Len(q) - 1
    BY <1>1
  <1>4. DOMAIN t = 1 .. Len(q) - 1
    BY <1>3
  <1>5. \A a \in 1 .. Len(q) - 1 : t[a] = q[a + 1]
    BY <1>1
  <1> HIDE DEF t
  <1>6. NoRepeats(t)
    <2> SUFFICES ASSUME NEW a \in DOMAIN t, NEW b \in DOMAIN t, t[a] = t[b] PROVE a = b
      BY DEF NoRepeats
    <2>1. a + 1 \in DOMAIN q /\ b + 1 \in DOMAIN q /\ q[a + 1] = q[b + 1]
      BY <1>2, <1>4, <1>5
    <2>2. a + 1 = b + 1
      BY <2>1 DEF NoRepeats
    <2> QED
      BY <1>2, <1>4, <2>2
  <1>7. 1 \in DOMAIN q
    BY <1>2
  <1>8. ASSUME NEW a \in DOMAIN t PROVE t[a] \in {q[i] : i \in DOMAIN q} \ {q[1]}
    <2>1. a + 1 \in DOMAIN q /\ a + 1 # 1 /\ t[a] = q[a + 1]
      BY <1>2, <1>4, <1>5, <1>8
    <2>2. q[a + 1] # q[1]
      BY <1>7, <2>1 DEF NoRepeats
    <2> QED
      BY <2>1, <2>2
  <1>9. ASSUME NEW a \in DOMAIN q, q[a] # q[1] PROVE \E i \in DOMAIN t : q[a] = t[i]
    <2>1. a # 1
      BY <1>9
    <2>2. a - 1 \in DOMAIN t
      BY <1>2, <1>4, <2>1
    <2>3. t[a - 1] = q[a]
      BY <1>2, <1>4, <1>5, <2>2
    <2> QED
      BY <2>2, <2>3
  <1>10. Holding(t) \subseteq Holding(q) \ {q[1]}
    BY <1>8 DEF Holding
  <1>11. Holding(q) \ {q[1]} \subseteq Holding(t)
    BY <1>9 DEF Holding
  <1>12. q[1] \in Holding(q)
    BY <1>7 DEF Holding
  <1> QED
    BY <1>3, <1>6, <1>10, <1>11, <1>12 DEF t

\* ... and what the queue is when another element is put at its end.
LEMMA WithALast ==
  ASSUME NEW q \in Seq(Jobs), NEW j \in Jobs \ Holding(q), NoRepeats(q)
  PROVE  /\ Append(q, j) \in Seq(Jobs) /\ Len(Append(q, j)) = Len(q) + 1
         /\ NoRepeats(Append(q, j)) /\ Holding(Append(q, j)) = Holding(q) \cup {j}
  <1> DEFINE t == Append(q, j)
  <1>1. Len(q) \in Nat /\ DOMAIN q = 1 .. Len(q)
    OBVIOUS
  <1>2. t \in Seq(Jobs) /\ Len(t) = Len(q) + 1 /\ DOMAIN t = 1 .. Len(q) + 1
    OBVIOUS
  <1>3. t[Len(q) + 1] = j
    OBVIOUS
  <1>4. \A a \in 1 .. Len(q) : t[a] = q[a]
    OBVIOUS
  <1> HIDE DEF t
  <1>5. \A a \in DOMAIN t : a \in DOMAIN q \/ a = Len(q) + 1
    BY <1>1, <1>2
  <1>6. NoRepeats(t)
    BY <1>1, <1>3, <1>4, <1>5 DEF NoRepeats, Holding
  <1>7. DOMAIN t = DOMAIN q \cup {Len(q) + 1}
    BY <1>1, <1>2
  <1>8. Holding(t) = Holding(q) \cup {j}
    BY <1>1, <1>3, <1>4, <1>7 DEF Holding
  <1> QED
    BY <1>2, <1>6, <1>8 DEF t

\* The registry after create: the new job at the end, and the oldest gone if there were too many.
LEMMA Created ==
  ASSUME Registry, NEW j \in Jobs \ Registered,
         order' = Append(IF ToEvict = {} THEN order ELSE Tail(order), j)
  PROVE  /\ order' \in Seq(Jobs) /\ Len(order') <= MaxJobs
         /\ \A a, b \in DOMAIN order' : order'[a] = order'[b] => a = b
         /\ Registered' = (Registered \ ToEvict) \cup {j}
         /\ ToEvict \subseteq Registered
  <1>1. MaxJobs \in Nat /\ MaxJobs >= 1
    BY BackupAssumption DEF BackupAssumption
  <1>2. order \in Seq(Jobs) /\ Len(order) \in Nat /\ Len(order) <= MaxJobs
    BY DEF Registry
  <1>3. NoRepeats(order) /\ Registered = Holding(order)
    BY DEF Registry, NoRepeats, Holding, Registered
  <1>4. PICK rest \in Seq(Jobs) :
          /\ order' = Append(rest, j) /\ Len(rest) < MaxJobs /\ NoRepeats(rest)
          /\ Holding(rest) = Registered \ ToEvict /\ ToEvict \subseteq Registered
    <2>1. CASE Len(order) >= MaxJobs
      <3>1. ToEvict = {order[1]} /\ order' = Append(Tail(order), j) /\ Len(order) >= 1
        BY <1>1, <1>2, <2>1 DEF ToEvict
      <3>2. /\ Tail(order) \in Seq(Jobs) /\ Len(Tail(order)) = Len(order) - 1
            /\ order[1] \in Holding(order)
            /\ NoRepeats(Tail(order)) /\ Holding(Tail(order)) = Holding(order) \ {order[1]}
        BY <1>2, <1>3, <3>1, WithoutTheFirst
      <3>3. Len(Tail(order)) < MaxJobs
        BY <1>1, <1>2, <3>2
      <3> QED
        BY <1>3, <3>1, <3>2, <3>3
    <2>2. CASE ~(Len(order) >= MaxJobs)
      <3>1. ToEvict = {} /\ order' = Append(order, j) /\ Len(order) < MaxJobs
        BY <1>1, <1>2, <2>2 DEF ToEvict
      <3> QED
        BY <1>2, <1>3, <3>1
    <2> QED
      BY <2>1, <2>2
  <1>5. /\ Append(rest, j) \in Seq(Jobs) /\ Len(Append(rest, j)) = Len(rest) + 1
        /\ NoRepeats(Append(rest, j)) /\ Holding(Append(rest, j)) = Holding(rest) \cup {j}
    BY <1>4, WithALast
  <1>6. Registered' = (Registered \ ToEvict) \cup {j}
    BY <1>4, <1>5 DEF Registered, Holding
  <1>7. Len(rest) \in Nat
    BY <1>4
  <1>8. Len(order') <= MaxJobs
    BY <1>1, <1>4, <1>5, <1>7
  <1>9. \A a, b \in DOMAIN order' : order'[a] = order'[b] => a = b
    BY <1>4, <1>5 DEF NoRepeats
  <1> QED
    BY <1>4, <1>5, <1>6, <1>8, <1>9

\* The registry takes a job in, and forgets the oldest with its directory.
LEMMA LaunchKeeps ==
  ASSUME DInv, NEW j \in Jobs, NEW r, Launch(j, r)
  PROVE  DInv'
  <1>1. Fresh(j) /\ Keeps(j) /\ j \notin Registered /\ Registry /\ Shaped
    BY DEF Launch, NextJob, DInv, Keeps
  <1>2. /\ order' \in Seq(Jobs) /\ Len(order') <= MaxJobs
        /\ \A a, b \in DOMAIN order' : order'[a] = order'[b] => a = b
        /\ Registered' = (Registered \ ToEvict) \cup {j} /\ ToEvict \subseteq Registered
    BY <1>1, Created DEF Launch
  <1>3. /\ dir' = [i \in Jobs |-> dir'[i]] /\ archive' = archive
        /\ \A i \in Jobs \ {j} : dir'[i] = IF i \in ToEvict THEN "none" ELSE dir[i]
        /\ \A i \in ToEvict : ~Ended(i) => i \in early'
        /\ early \subseteq early'
    BY DEF Launch, Removed, work
  <1>4. /\ Only(j) /\ job'[j] = [req |-> r, state |-> "QUEUED"]
    BY <1>1 DEF Launch, Shaped, Only
  <1>5. Registry'
    BY <1>1, <1>2, <1>3 DEF Registry
  <1>6. Keeps(j)'
    BY <1>2, <1>4 DEF Keeps, Fresh, IsHttp, Req, Ended, Running, Launch
  <1>7. \A i \in Jobs \ {j} : Keeps(i)'
    <2> SUFFICES ASSUME NEW i \in Jobs \ {j} PROVE Keeps(i)'
      OBVIOUS
    <2>1. job'[i] = job[i] /\ pc'[i] = pc[i] /\ Keeps(i)
      BY <1>4 DEF Only, DInv
    <2>2. CASE i \in ToEvict
      <3>1. i \notin Registered' /\ dir'[i] = "none" /\ (~Ended(i) => i \in early')
        BY <1>1, <1>2, <1>3, <2>2
      <3> QED
        BY <2>1, <3>1 DEF Keeps, Fresh, IsHttp, Req, Ended, Running
    <2>3. CASE i \notin ToEvict
      <3>1. (i \in Registered' <=> i \in Registered) /\ dir'[i] = dir[i] /\ (i \in early => i \in early')
            /\ archive'[i] = archive[i]
        BY <1>2, <1>3, <2>3
      <3> QED
        BY <2>1, <3>1 DEF Keeps, Fresh, IsHttp, Req, Ended, Running
    <2> QED
      BY <2>2, <2>3
  <1> QED
    BY <1>4, <1>5, <1>6, <1>7 DEF DInv, Only

\* A command is in no registry, and its directory its own.
LEMMA CommandKeeps ==
  ASSUME DInv, NEW j \in Jobs, NEW r, Command(j, r)
  PROVE  DInv'
  <1>1. Fresh(j) /\ Keeps(j) /\ j \notin Registered /\ Registry /\ Shaped
    BY DEF Command, NextJob, DInv, Keeps
  <1>2. Only(j) /\ job'[j] = [req |-> r, state |-> "QUEUED"]
    BY <1>1 DEF Command, Shaped, Only
  <1>3. /\ dir' = [i \in Jobs |-> dir'[i]] /\ archive' = archive /\ order' = order
        /\ early' = early
        /\ \A i \in Jobs \ {j} : dir'[i] = dir[i]
    BY <1>1 DEF Command, work, hist, Registry
  <1>4. Registered' = Registered
    BY <1>3 DEF Registered
  <1>5. Keeps(j)'
    BY <1>1, <1>2, <1>4 DEF Keeps, Fresh, IsHttp, Req, Ended, Running, Command
  <1>6. \A i \in Jobs \ {j} : Keeps(i)'
    BY <1>2, <1>3, <1>4 DEF DInv, Only, Keeps, Fresh, IsHttp, Req, Ended, Running
  <1>7. Registry'
    BY <1>1, <1>3 DEF Registry
  <1> QED
    BY <1>2, <1>5, <1>6, <1>7 DEF DInv, Only

\* After a restart the registry is empty, and a directory that is left is one of an early job.
LEMMA RestartKeeps ==
  ASSUME DInv, Restart
  PROVE  DInv'
  <1>1. order' = <<>> /\ Registered' = {} /\ archive' = archive
    BY DEF Restart, Registered, work
  <1>2. Shaped'
    BY DEF DInv, Shaped, Restart
  <1>3. /\ dir' = [i \in Jobs |-> dir'[i]]
        /\ \A i \in Jobs : dir'[i] = "none" \/ (dir'[i] = dir[i] /\ i \in early')
    BY DEF Restart, Removed, DInv, Registry
  <1>4. Registry'
    BY <1>1, <1>3, BackupAssumption DEF Registry, DInv, BackupAssumption
  <1>5. \A j \in Jobs : Keeps(j)'
    <2> SUFFICES ASSUME NEW j \in Jobs PROVE Keeps(j)'
      OBVIOUS
    <2>1. Keeps(j)
      BY DEF DInv
    <2>2. CASE Fresh(j) \/ ~IsHttp(j)
      <3>1. job'[j] = job[j] /\ pc'[j] = IF Fresh(j) THEN "done" ELSE pc[j]
        BY <2>2 DEF Restart
      <3> QED
        BY <1>1, <1>3, <2>1, <2>2, <3>1 DEF Keeps, Fresh, IsHttp, Req, Running, Ended
    <2>3. CASE ~Fresh(j) /\ IsHttp(j)
      <3>1. job'[j].state = "gone" /\ job'[j].req = job[j].req
        BY <2>3 DEF Restart, DInv, Shaped
      <3> QED
        BY <1>1, <1>3, <3>1 DEF Keeps, Fresh, IsHttp, Req, Running, Ended
    <2> QED
      BY <2>2, <2>3
  <1> QED
    BY <1>2, <1>4, <1>5 DEF DInv

\* A call that raises ends its job.
LEMMA RaiseKeeps ==
  ASSUME DInv, NEW j \in Jobs, Raise(j)
  PROVE  DInv'
  <1>1. ~Ended(j) /\ archive' = archive /\ order' = order /\ early' = early
    BY DEF Raise, Running, Ended, work
  <1>2. Within(j) /\ job'[j].state = "FAILED"
    BY <1>1, FinishWithin DEF Raise, Fail, DInv, Registry
  <1> QED
    BY <1>1, <1>2, StillKeeps DEF Running

\* At first there is no job and no directory.
LEMMA KeepsInitially == Init => DInv
  <1> SUFFICES ASSUME Init PROVE DInv
    OBVIOUS
  <1>1. \A j \in Jobs : job[j] = [req |-> Nil, state |-> "none"] /\ pc[j] = "done" /\ dir[j] = "none"
    BY DEF Init
  <1>2. order = <<>> /\ Registered = {}
    BY DEF Init, Registered
  <1>3. Shaped
    BY <1>1 DEF Init, Shaped
  <1>4. Registry
    BY <1>1, <1>2, BackupAssumption DEF Init, Registry, BackupAssumption
  <1>5. \A j \in Jobs : Keeps(j)
    BY <1>1, <1>2 DEF Keeps, Fresh, Running
  <1> QED
    BY <1>3, <1>4, <1>5 DEF DInv

\* Every step keeps the invariant of the directories.
LEMMA KeepsInductive == DInv /\ [Next]_vars => DInv'
  <1> SUFFICES ASSUME DInv, [Next]_vars PROVE DInv'
    OBVIOUS
  <1>1. CASE UNCHANGED <<order, job, pc, dir, archive, early>>
    BY <1>1 DEF DInv, Shaped, Registry, Keeps, Fresh, IsHttp, Req, Registered, Running, Ended
  <1>2. CASE \E w \in Writes : Admit(w) \/ WriteGraph(w) \/ WriteRow(w) \/ WriteSearch(w)
    BY <1>1, <1>2 DEF Admit, WriteGraph, WriteRow, WriteSearch, work, hist
  <1>3. CASE Decide
    BY <1>1, <1>3 DEF Decide, work
  <1>4. CASE \E j \in Jobs, r \in Asked : Launch(j, r) \/ Command(j, r)
    BY <1>4, LaunchKeeps, CommandKeeps
  <1>5. CASE \E j \in Jobs : JobStep(j) \/ Raise(j)
    BY <1>5, DumpKeeps, RestoreKeeps, RaiseKeeps DEF JobStep
  <1>6. CASE Restart
    BY <1>6, RestartKeeps
  <1>7. CASE UNCHANGED vars
    BY <1>1, <1>7 DEF vars, work, hist
  <1> QED
    BY <1>2, <1>3, <1>4, <1>5, <1>6, <1>7 DEF Next

\* A dump the registry still shows as succeeded can be downloaded and verifies, the registry stays
\* within its capacity, and a directory that nobody can reach is one of a job evicted or killed before
\* its end (jobs.py: create, _evict, shutdown), for any jobs, requests and bounds.
THEOREM DirectoriesAlwaysOwned == Spec => []DirectoriesOwned
  <1>1. DInv => DirectoriesOwned
    BY DEF DInv, Registry, Keeps, DirectoriesOwned, Verified, Fresh
  <1> QED
    BY <1>1, KeepsInitially, KeepsInductive, PTL DEF Spec
-----------------------------------------------------------------------------
(* What a job that nobody interferes with makes of the stores.  From the   *)
(* moment it begins, no write is under way, and the stores are those that  *)
(* it found, but for what it has changed itself.                           *)

RestoreCalls == {"open", "revision", "occupied", "preview", "truncate", "migrate", "load", "upgrade",
                 "derived", "existing", "replace", "audit", "backfill", "clear", "index"}
OfTheState   == {"revision", "occupied", "preview", "truncate", "migrate", "load", "upgrade", "derived"}

\* A job is at a call of its kind, and only a full restore goes through the state tables.
RightCall(j) ==
  \/ Req(j).kind = "dump" /\ pc[j] \in DumpCalls /\ (Full(j) => pc[j] # "audit")
  \/ Req(j).kind = "restore" /\ pc[j] \in RestoreCalls
     /\ pc[j] \in (IF Full(j) THEN RestoreCalls \ {"audit"} ELSE RestoreCalls \ OfTheState)

\* A restore has the directory of its archive until it ends, or is excused.
HasDirectory(j) ==
  ~Fresh(j) /\ ~Ended(j) /\ Req(j).kind = "restore" => Here(j) \/ excused[j]

\* What a dump has of the graphs is what they are, but for those it has still to fetch.
Fetched(j, G) ==
  /\ \A g \in GraphSet \ G : got[j][g] = graph[g]
  /\ Record \notin G /\ graph[Record] # 0 => saved[j].bound = bound

Empty == [g \in GraphSet |-> 0]

NotBegun(j) == \/ Fresh(j) \/ (Req(j).kind = "dump" /\ job[j].state = "QUEUED")
               \/ Running(j) /\ Req(j).kind = "dump" /\ pc[j] \in {"rollup", "list"}

DumpStage(j) ==
  /\ <<graph, bound, rows>> = <<calm[j].graph, calm[j].bound, calm[j].rows>>
  /\ pc[j] = "fetch" => Fetched(j, todo[j])
  /\ pc[j] \in {"tables", "pack"} => Fetched(j, {})
  /\ pc[j] = "pack" => saved[j].rows = rows

\* The calls of a restore before it replaces a graph, and those after it has replaced them all.
Replaced  == {"audit", "backfill", "clear", "index"}
Replacing == Replaced \cup {"replace"}

\* The graphs that a restore loads.
Loads(j) ==
  {g \in GraphSet : Archive(j).graphs[g] # 0} \ (IF Req(j).merge THEN {g \in GraphSet : calm[j].graph[g] # 0} ELSE {})

\* A graph is as it was until it is replaced, and then as the archive has it; the binding goes with the record, ...
GraphStage(j, G) ==
  /\ G \subseteq Loads(j) /\ calm[j].graph = [g \in GraphSet |-> calm[j].graph[g]]
  /\ \A g \in GraphSet : graph[g] = IF g \in Loads(j) \ G THEN Archive(j).graphs[g] ELSE calm[j].graph[g]
  /\ pc[j] \notin {"clear", "index"} =>
       bound = IF Record \in Loads(j) \ G THEN Archive(j).bound ELSE calm[j].bound
  /\ pc[j] \in {"clear", "index"} /\ calm[j].bound = (calm[j].graph[Record] # 0) =>
       bound = (graph[Record] # 0)

\* ... the rows are those it found, none, and those of the archive, ...
RowStage(j) ==
  /\ pc[j] \in {"revision", "occupied", "preview", "truncate"} => rows = calm[j].rows
  /\ pc[j] \in {"migrate", "load"} => rows = {}
  /\ Full(j) /\ pc[j] \in {"upgrade", "derived", "existing"} \cup Replacing =>
       rows = Archive(j).rows
  /\ ~Full(j) /\ pc[j] \in {"existing", "replace", "audit"} => rows = calm[j].rows
  /\ ~Full(j) /\ pc[j] \in {"backfill", "clear", "index"} /\ "audit" \notin Archive(j).bad =>
       rows = calm[j].rows \cup (IF Req(j).audit THEN Archive(j).rows ELSE {})

\* ... and the schema moves to the archive's and back.
SchemaStage(j) ==
  /\ ~Full(j) \/ pc[j] \in {"revision", "occupied", "preview", "truncate", "migrate"} =>
       schema = calm[j].schema
  /\ Full(j) /\ pc[j] \in {"derived", "existing"} \cup Replacing => schema = Newest

\* What the checks of a restore have established by the time it writes.
Checked(j) ==
  /\ pc[j] \in {"preview", "truncate"} => saved[j].rows = rows
  /\ Full(j) /\ pc[j] \notin {"revision", "occupied", "preview"} =>
       "records" \notin Archive(j).bad /\ (Archive(j).base = "own" \/ Req(j).rebase)
       /\ (Replaces(j) \/ \A g \in GraphSet : calm[j].graph[g] = 0)
  /\ Req(j).dry =>
       pc[j] \in {"revision", "occupied", "preview"} \/ (~Full(j) /\ pc[j] = "existing")
  /\ pc[j] = "audit" => Req(j).audit
  /\ Full(j) /\ pc[j] \in {"existing"} \cup Replacing /\ j \notin peeked => decided = 0

RestoreStage(j) ==
  /\ pc[j] = "replace" => todo[j] # {}
  /\ GraphStage(j, IF pc[j] = "replace" THEN todo[j] ELSE IF pc[j] \in Replaced THEN {} ELSE Loads(j))
  /\ RowStage(j) /\ SchemaStage(j) /\ Checked(j)

\* A job at work that nobody interfered with.
Alone(j) == Running(j) /\ calm[j] # Nil /\ ~(Req(j).kind = "restore" /\ pc[j] = "open")

CopyStage(j) ==
  /\ Running(j) => RightCall(j)
  /\ HasDirectory(j)
  /\ NotBegun(j) => got[j] = Empty
  /\ Alone(j) => Quiet
  /\ Alone(j) /\ Req(j).kind = "dump" /\ Full(j) => DumpStage(j)
  /\ Alone(j) /\ Req(j).kind = "restore" /\ ~excused[j] => RestoreStage(j)

Functions ==
  /\ graph = [g \in GraphSet |-> graph[g]]
  /\ todo = [j \in Jobs |-> todo[j]] /\ calm = [j \in Jobs |-> calm[j]]
  /\ excused = [j \in Jobs |-> excused[j]]
  /\ got = [j \in Jobs |-> [g \in GraphSet |-> got[j][g]]]
  /\ writer = [w \in Writes |-> [op |-> writer[w].op, at |-> writer[w].at]]
  /\ saved = [j \in Jobs |-> [rows |-> saved[j].rows, bound |-> saved[j].bound, rev |-> saved[j].rev]]

CInv == Functions /\ \A j \in Jobs : CopyStage(j)

-----------------------------------------------------------------------------
(* What one process does to the others.                                    *)

\* A step leaves a job aside: its request, its call and its copies are as they were, and unless the
\* job is now known to be disturbed, the stores are.
Aside(i) ==
  /\ job'[i] = job[i] /\ pc'[i] = pc[i]
  /\ got'[i] = got[i] /\ saved'[i] = saved[i] /\ todo'[i] = todo[i]
  /\ (excused[i] => excused'[i]) /\ (i \in peeked => i \in peeked')
  /\ \/ calm'[i] = Nil
     \/ calm'[i] = calm[i] /\ ~Alone(i)
     \/ /\ calm'[i] = calm[i] /\ (Quiet => Quiet')
        /\ <<graph, bound, rows, schema>>' = <<graph, bound, rows, schema>>
        /\ i \notin peeked' => decided' = decided

\* So a job left aside has what it had.
LEMMA BystanderKeeps ==
  ASSUME NEW i \in Jobs, CopyStage(i), Aside(i), HasDirectory(i)'
  PROVE  CopyStage(i)'
  <1>1. job'[i] = job[i] /\ pc'[i] = pc[i] /\ (Running(i) => RightCall(i))
    BY DEF Aside, CopyStage
  <1>2. Running(i)' => RightCall(i)'
    BY <1>1 DEF Running, RightCall, Req, Full, Scope, Archive
  <1>3. NotBegun(i)' => got'[i] = Empty'
    BY <1>1 DEF Aside, CopyStage, NotBegun, Fresh, Running, Req, Empty
  <1>4. CASE ~Alone(i)'
    BY <1>2, <1>3, <1>4 DEF CopyStage
  <1>5. CASE Alone(i)'
    <2>1. Alone(i) /\ calm'[i] # Nil
      BY <1>1, <1>5 DEF Aside, Alone, Running, Req
    <2>2. /\ calm'[i] = calm[i] /\ (Quiet => Quiet') /\ graph' = graph /\ bound' = bound
          /\ rows' = rows /\ schema' = schema /\ (i \notin peeked' => decided' = decided)
      BY <2>1 DEF Aside
    <2>3. /\ got'[i] = got[i] /\ saved'[i] = saved[i] /\ todo'[i] = todo[i]
          /\ (excused[i] => excused'[i]) /\ (i \in peeked => i \in peeked')
      BY DEF Aside
    <2>4. Quiet'
      BY <2>1, <2>2 DEF CopyStage
    <2>5. ASSUME Req(i).kind = "dump", Full(i) PROVE DumpStage(i)'
      <3>1. DumpStage(i)
        BY <2>1, <2>5 DEF CopyStage
      <3> QED
        BY <1>1, <2>2, <2>3, <3>1 DEF DumpStage, Fetched
    <2>6. ASSUME Req(i).kind = "restore", ~excused'[i] PROVE RestoreStage(i)'
      <3>1. RestoreStage(i)
        BY <2>1, <2>3, <2>6 DEF CopyStage
      <3>2. Loads(i)' = Loads(i) /\ Full(i)' = Full(i) /\ Replaces(i)' = Replaces(i)
        BY <1>1, <2>2 DEF Loads, Full, Scope, Replaces, Req, Archive
      <3>3. \A G : GraphStage(i, G) => GraphStage(i, G)'
        BY <1>1, <2>2, <3>2 DEF GraphStage, Archive, Req
      <3>4. RowStage(i)'
        BY <1>1, <2>2, <3>1, <3>2 DEF RestoreStage, RowStage, Archive, Req
      <3>5. SchemaStage(i)'
        BY <1>1, <2>2, <3>1, <3>2 DEF RestoreStage, SchemaStage
      <3>6. Checked(i)'
        BY <1>1, <2>2, <2>3, <3>1, <3>2 DEF RestoreStage, Checked, Archive, Req
      <3> QED
        BY <1>1, <2>3, <3>1, <3>2, <3>3, <3>4, <3>5, <3>6 DEF RestoreStage
    <2>7. Full(i)' = Full(i) /\ Req(i)' = Req(i)
      BY <1>1 DEF Full, Scope, Req, Archive
    <2> QED
      BY <1>2, <1>3, <2>4, <2>5, <2>6, <2>7 DEF CopyStage
  <1> QED
    BY <1>4, <1>5

\* While a job of the server holds the freeze, no write is admitted.
LEMMA NoneHolds ==
  ASSUME FInv, ~FreezeActive, NEW i \in Jobs
  PROVE  ~Holds(i)
  <1>1. Cardinality(Holders) = 0
    BY Counted DEF FInv, FreezeMatches, FreezeActive, Holders
  <1>2. Holders = {}
    BY <1>1, Counted, FS_EmptySet
  <1> QED
    BY <1>2 DEF Holders

\* A write in progress means that no job is alone.
LEMMA WriteUnderWay ==
  ASSUME CInv, NEW w \in Writes, writer[w].op \in {"put", "delete"}, writer[w].at # 0, NEW i \in Jobs
  PROVE  ~Alone(i)
  BY DEF CInv, CopyStage, Quiet

\* The others, when nothing changes of the jobs and their directories.
LEMMA AllAside ==
  ASSUME CInv, Functions', UNCHANGED <<job, dir, excused>>, \A i \in Jobs : Aside(i)
  PROVE  CInv'
  <1>1. \A i \in Jobs : HasDirectory(i) => HasDirectory(i)'
    BY DEF HasDirectory, Fresh, Ended, Req, Here
  <1>2. \A i \in Jobs : CopyStage(i)'
    BY <1>1, BystanderKeeps DEF CInv, CopyStage
  <1> QED
    BY <1>2 DEF CInv

\* A write goes on to its next call, or ends; either way it is a write.
LEMMA WriterMoves ==
  ASSUME Functions, NEW w \in Writes, NEW v,
         \/ writer' = [writer EXCEPT ![w].at = v] \/ writer' = [writer EXCEPT ![w].op = v]
         \/ writer' = [writer EXCEPT ![w] = [op |-> v, at |-> 1]]
  PROVE  writer' = [u \in Writes |-> [op |-> writer'[u].op, at |-> writer'[u].at]]
  <1>1. \A u \in Writes : writer[u] = [op |-> writer[u].op, at |-> writer[u].at]
    BY DEF Functions
  <1>2. DOMAIN writer = Writes
    BY DEF Functions
  <1>3. PICK x : writer' = [u \in Writes |-> IF u = w THEN x ELSE writer[u]] /\ x = [op |-> x.op, at |-> x.at]
    <2>1. CASE writer' = [writer EXCEPT ![w].at = v]
      <3> DEFINE x == [op |-> writer[w].op, at |-> v]
      <3>1. writer' = [u \in Writes |-> IF u = w THEN x ELSE writer[u]]
        BY <1>1, <1>2, <2>1
      <3>2. x = [op |-> x.op, at |-> x.at]
        OBVIOUS
      <3> QED
        BY <3>1, <3>2
    <2>2. CASE writer' = [writer EXCEPT ![w].op = v]
      <3> DEFINE x == [op |-> v, at |-> writer[w].at]
      <3>1. writer' = [u \in Writes |-> IF u = w THEN x ELSE writer[u]]
        BY <1>1, <1>2, <2>2
      <3>2. x = [op |-> x.op, at |-> x.at]
        OBVIOUS
      <3> QED
        BY <3>1, <3>2
    <2>3. CASE writer' = [writer EXCEPT ![w] = [op |-> v, at |-> 1]]
      <3> DEFINE x == [op |-> v, at |-> 1]
      <3>1. writer' = [u \in Writes |-> IF u = w THEN x ELSE writer[u]]
        BY <1>2, <2>3
      <3>2. x = [op |-> x.op, at |-> x.at]
        OBVIOUS
      <3> QED
        BY <3>1, <3>2
    <2> QED
      BY <2>1, <2>2, <2>3
  <1>4. \A u \in Writes : writer'[u] = [op |-> writer'[u].op, at |-> writer'[u].at]
    BY <1>1, <1>3
  <1> QED
    BY <1>3, <1>4

\* Clients disturb every job but those that the freeze protects from them.
LEMMA WritesCopy ==
  ASSUME CInv, FInv, NEW w \in Writes, Admit(w) \/ WriteGraph(w) \/ WriteRow(w) \/ WriteSearch(w)
  PROVE  CInv'
  <1>1. CASE Admit(w)
    <2>1. Functions'
      <3>1. PICK op \in {"put", "delete"} : writer' = [writer EXCEPT ![w] = [op |-> op, at |-> 1]]
        BY <1>1 DEF Admit
      <3>2. writer' = [v \in Writes |-> [op |-> writer'[v].op, at |-> writer'[v].at]]
        BY <3>1, WriterMoves DEF CInv
      <3> QED
        BY <1>1, <3>2 DEF Admit, CInv, Functions, store, work
    <2>2. \A i \in Jobs : Aside(i)
      <3> SUFFICES ASSUME NEW i \in Jobs PROVE Aside(i)
        OBVIOUS
      <3>1. ~Holds(i)
        BY <1>1, NoneHolds DEF Admit
      <3>2. calm'[i] = Nil \/ (calm'[i] = calm[i] /\ Ended(i))
        BY <1>1, <3>1 DEF Admit
      <3>3. Ended(i) => ~Alone(i)
        BY DEF Ended, Alone, Running
      <3> QED
        BY <1>1, <3>2, <3>3 DEF Admit, Aside, work
    <2> QED
      BY <1>1, <2>1, <2>2, AllAside DEF Admit
  <1>2. CASE WriteGraph(w) \/ WriteRow(w) \/ WriteSearch(w)
    <2>1. writer[w].op \in {"put", "delete"} /\ writer[w].at # 0
      <3>1. DOMAIN Graphs = 1 .. Len(Graphs) /\ Len(Graphs) \in Nat
        BY BackupAssumption DEF BackupAssumption
      <3> QED
        BY <1>2, <3>1 DEF WriteGraph, WriteRow, WriteSearch
    <2>2. UNCHANGED <<job, pc, dir, work, hist>>
      BY <1>2 DEF WriteGraph, WriteRow, WriteSearch
    <2>3. graph' = [g \in GraphSet |-> graph'[g]]
      BY <1>2 DEF WriteGraph, WriteRow, WriteSearch, CInv, Functions
    <2>4. Functions'
      <3>1. writer' = [writer EXCEPT ![w].at = writer[w].at + 1] \/ writer' = [writer EXCEPT ![w].op = "done"]
        BY <1>2 DEF WriteGraph, WriteRow, WriteSearch
      <3>2. writer' = [v \in Writes |-> [op |-> writer'[v].op, at |-> writer'[v].at]]
        BY <3>1, WriterMoves DEF CInv
      <3> QED
        BY <2>2, <2>3, <3>2 DEF CInv, Functions, work, hist
    <2>5. \A i \in Jobs : Aside(i)
      BY <2>1, <2>2, WriteUnderWay DEF Aside, work, hist
    <2> QED
      BY <2>2, <2>4, <2>5, AllAside DEF hist
  <1> QED
    BY <1>1, <1>2

\* A decision that is cached is noted by the jobs at work.
LEMMA DecideCopy ==
  ASSUME CInv, Decide
  PROVE  CInv'
  <1>1. Functions'
    BY DEF Decide, CInv, Functions, work
  <1>2. \A i \in Jobs : Aside(i)
    <2> SUFFICES ASSUME NEW i \in Jobs PROVE Aside(i)
      OBVIOUS
    <2>1. ~Alone(i) \/ i \in peeked'
      BY DEF Decide, Alone, Running, Ended
    <2>2. Quiet => Quiet'
      BY DEF Decide, Quiet
    <2> QED
      BY <2>1, <2>2 DEF Decide, Aside, work
  <1> QED
    BY <1>1, <1>2, AllAside DEF Decide

\* A job or a command that is asked for has copied nothing, and a restore has its archive.
LEMMA AskingCopy ==
  ASSUME CInv, DInv, NEW j \in Jobs, NEW r, Launch(j, r) \/ Command(j, r)
  PROVE  CInv'
  <1>1. Fresh(j) /\ job' = [job EXCEPT ![j] = [req |-> r, state |-> "QUEUED"]]
        /\ pc' = [pc EXCEPT ![j] = "queued"] /\ UNCHANGED <<store, writer, work, calm, peeked>>
    BY DEF Launch, Command, NextJob, hist
  <1>2. Only(j) /\ job'[j] = [req |-> r, state |-> "QUEUED"]
    BY <1>1 DEF DInv, Shaped, Only
  <1>3. /\ dir' = [i \in Jobs |-> dir'[i]] /\ excused' = [i \in Jobs |-> excused'[i]]
        /\ \A i \in Jobs : (excused[i] => excused'[i])
        /\ \A i \in Jobs \ {j} : dir'[i] = dir[i] \/ Ended(i) \/ excused'[i]
        /\ r.kind = "restore" => dir'[j] = "whole"
    <2>1. CASE Launch(j, r)
      BY <2>1 DEF Launch, Removed, DInv, Registry
    <2>2. CASE Command(j, r)
      BY <2>2 DEF Command, hist, DInv, Registry, CInv, Functions
    <2> QED
      BY <2>1, <2>2
  <1>4. Functions'
    BY <1>1, <1>3 DEF CInv, Functions, store, work
  <1>5. \A i \in Jobs \ {j} : CopyStage(i)'
    <2> SUFFICES ASSUME NEW i \in Jobs \ {j} PROVE CopyStage(i)'
      OBVIOUS
    <2>1. job'[i] = job[i] /\ pc'[i] = pc[i]
      BY <1>2 DEF Only
    <2>2. Quiet => Quiet'
      BY <1>1 DEF Quiet
    <2>3. Aside(i)
      BY <1>1, <1>3, <2>1, <2>2 DEF Aside, store, work
    <2>4. HasDirectory(i)'
      BY <1>3, <2>1 DEF CInv, CopyStage, HasDirectory, Fresh, Ended, Req, Here
    <2> QED
      BY <2>3, <2>4, BystanderKeeps DEF CInv
  <1>6. CopyStage(j)'
    <2>1. got'[j] = Empty
      BY <1>1 DEF CInv, CopyStage, NotBegun, work
    <2>2. ~Running(j)' /\ ~Alone(j)'
      BY <1>2 DEF Running, Alone
    <2>3. HasDirectory(j)'
      BY <1>2, <1>3 DEF HasDirectory, Req, Here
    <2> QED
      BY <2>1, <2>2, <2>3 DEF CopyStage, Empty
  <1> QED
    BY <1>4, <1>5, <1>6 DEF CInv

\* A restart ends the jobs of the server and the writes; a command goes on, and no directory of its own is removed.
LEMMA RestartCopy ==
  ASSUME CInv, DInv, Restart
  PROVE  CInv'
  <1>1. UNCHANGED <<store, work, calm, excused, peeked>>
    BY DEF Restart
  <1>2. Functions'
    <2>1. \A w \in Writes : writer[w] = [op |-> writer[w].op, at |-> writer[w].at]
      BY DEF CInv, Functions
    <2>2. \A w \in Writes : writer'[w] = IF writer[w].at = 0 THEN writer[w] ELSE [op |-> "done", at |-> writer[w].at]
      <3>1. \A w \in Writes : writer'[w] = IF writer[w].at = 0 THEN writer[w] ELSE [writer[w] EXCEPT !.op = "done"]
        BY DEF Restart
      <3>2. \A w \in Writes : [writer[w] EXCEPT !.op = "done"] = [op |-> "done", at |-> writer[w].at]
        <4> SUFFICES ASSUME NEW w \in Writes
                     PROVE  [writer[w] EXCEPT !.op = "done"] = [op |-> "done", at |-> writer[w].at]
          OBVIOUS
        <4>1. PICK a, b : writer[w] = [op |-> a, at |-> b]
          BY <2>1
        <4> QED
          BY <4>1
      <3> QED
        BY <3>1, <3>2
    <2>3. \A w \in Writes : writer'[w] = [op |-> writer'[w].op, at |-> writer'[w].at]
      <3> SUFFICES ASSUME NEW w \in Writes PROVE writer'[w] = [op |-> writer'[w].op, at |-> writer'[w].at]
        OBVIOUS
      <3>1. CASE writer[w].at = 0
        BY <2>1, <2>2, <3>1
      <3>2. CASE writer[w].at # 0
        <4>1. writer'[w] = [op |-> "done", at |-> writer[w].at]
          BY <2>2, <3>2
        <4> QED
          BY <4>1
      <3> QED
        BY <3>1, <3>2
    <2>4. writer' = [w \in Writes |-> writer'[w]]
      BY DEF Restart
    <2>5. writer' = [w \in Writes |-> [op |-> writer'[w].op, at |-> writer'[w].at]]
      BY <2>3, <2>4
    <2> QED
      BY <1>1, <2>5 DEF CInv, Functions, store, work
  <1>3. ASSUME NEW j \in Jobs PROVE CopyStage(j)'
    <2>1. CASE Fresh(j)
      <3>1. job'[j] = job[j] /\ got'[j] = Empty
        BY <1>1, <2>1 DEF Restart, CInv, CopyStage, NotBegun, work
      <3>2. Fresh(j)' /\ ~Running(j)'
        BY <2>1, <3>1 DEF Fresh, Running
      <3> QED
        BY <3>1, <3>2 DEF CopyStage, HasDirectory, Alone, Empty
    <2>2. CASE ~Fresh(j) /\ IsHttp(j)
      <3>1. job'[j].state = "gone"
        BY <2>2 DEF Restart, DInv, Shaped
      <3> QED
        BY <3>1 DEF CopyStage, HasDirectory, Alone, Ended, Running, NotBegun, Fresh
    <2>3. CASE ~Fresh(j) /\ ~IsHttp(j)
      <3>1. job'[j] = job[j] /\ pc'[j] = pc[j]
        BY <2>3 DEF Restart
      <3>2. j \notin Registered
        BY <2>3 DEF DInv, Keeps
      <3>3. dir'[j] = dir[j]
        BY <3>2 DEF Restart, Removed
      <3>4. Quiet'
        <4>1. \A w \in Writes : writer'[w] = IF writer[w].at = 0 THEN writer[w] ELSE [writer[w] EXCEPT !.op = "done"]
          BY DEF Restart
        <4>2. \A w \in Writes : writer[w].at # 0 => writer'[w].at = 0 \/ writer'[w].op = "done"
          <5>1. \A w \in Writes : writer[w] = [op |-> writer[w].op, at |-> writer[w].at]
            BY DEF CInv, Functions
          <5> QED
            BY <4>1, <5>1
        <4>3. \A w \in Writes : writer[w].at = 0 => writer'[w].at = 0
          BY <4>1
        <4> QED
          BY <4>2, <4>3 DEF Quiet
      <3>5. Aside(j)
        BY <1>1, <3>1, <3>4 DEF Aside, store, work
      <3>6. HasDirectory(j)'
        BY <1>1, <3>1, <3>3 DEF CInv, CopyStage, HasDirectory, Fresh, Ended, Req, Here
      <3> QED
        BY <3>5, <3>6, BystanderKeeps DEF CInv
    <2> QED
      BY <2>1, <2>2, <2>3
  <1> QED
    BY <1>2, <1>3 DEF CInv

\* What a step of the job j does to the processes: they are the others, and its request stays.
Moves(j) ==
  /\ Only(j) /\ job'[j].req = job[j].req
  /\ \A i \in Jobs \ {j} : dir'[i] = dir[i]

\* What it leaves alone besides: their copies, and the stores unless it says that it changed them.
Apart(j) ==
  /\ \A i \in Jobs \ {j} : got'[i] = got[i] /\ saved'[i] = saved[i] /\ todo'[i] = todo[i] /\ excused'[i] = excused[i]
  /\ writer' = writer /\ peeked' = peeked
  /\ \/ calm' = Disturb(j)
     \/ <<graph, bound, rows, schema, decided>>' = <<graph, bound, rows, schema, decided>> /\ calm' \in {calm, Captured(j)}

\* A job that goes on, its state as it is, moves alone.
LEMMA GoesOn ==
  ASSUME DInv, NEW j \in Jobs, NEW call, job' = job, pc' = [pc EXCEPT ![j] = call],
         \A i \in Jobs \ {j} : dir'[i] = dir[i]
  PROVE  Moves(j)
  BY DEF DInv, Shaped, Only, Moves

\* A job that turns from one state to another moves alone, ...
LEMMA Turns ==
  ASSUME DInv, NEW j \in Jobs, NEW call, NEW state,
         job' = [job EXCEPT ![j].state = state], pc' = [pc EXCEPT ![j] = call],
         \A i \in Jobs \ {j} : dir'[i] = dir[i]
  PROVE  Moves(j) /\ job'[j].state = state
  BY StateChange DEF DInv, Moves

\* ... and so does one that ends, ...
LEMMA FinishMoves ==
  ASSUME DInv, NEW j \in Jobs, NEW outcome, Finish(j, outcome)
  PROVE  Moves(j) /\ job'[j].state = outcome
  <1>1. \A i \in Jobs \ {j} : dir'[i] = dir[i]
    BY DEF Finish, Removed
  <1> QED
    BY <1>1, Turns DEF Finish

\* ... and one that goes on to its next call.
LEMMA GotoMoves ==
  ASSUME DInv, NEW j \in Jobs, NEW call, Goto(j, call)
  PROVE  Moves(j) /\ job' = job /\ pc'[j] = call /\ dir' = dir
  <1>1. Moves(j)
    BY GoesOn DEF Goto
  <1> QED
    BY <1>1 DEF Goto, DInv, Shaped

\* So every step of a dump is of that job alone.
LEMMA DumpMoves ==
  ASSUME DInv, NEW j \in Jobs, Dumping(j)
  PROVE  Moves(j)
  <1>0. dir = [i \in Jobs |-> dir[i]]
    BY DEF DInv, Registry
  <1>1. CASE StartDump(j)
    <2>1. PICK call : pc' = [pc EXCEPT ![j] = call] /\ job' = [job EXCEPT ![j].state = "RUNNING"]
      BY <1>1 DEF StartDump
    <2> QED
      BY <1>0, <1>1, <2>1, Turns DEF StartDump
  <1>2. CASE RollUp(j)
    BY <1>0, <1>2, GoesOn DEF RollUp
  <1>3. CASE DumpTables(j)
    BY <1>0, <1>3, GoesOn DEF DumpTables
  <1>4. CASE ListGraphs(j) \/ FetchGraph(j) \/ DumpAudit(j)
    <2>1. Fail(j) \/ \E call : Goto(j, call)
      BY <1>4 DEF ListGraphs, FetchGraph, DumpAudit
    <2> QED
      BY <2>1, FinishMoves, GotoMoves DEF Fail
  <1>5. CASE Pack(j)
    BY <1>5, FinishMoves DEF Pack
  <1> QED
    BY <1>1, <1>2, <1>3, <1>4, <1>5 DEF Dumping

\* The same of the steps of a restore.
LEMMA RestoreMoves ==
  ASSUME DInv, NEW j \in Jobs, Restoring(j)
  PROVE  Moves(j)
  <1>0. dir = [i \in Jobs |-> dir[i]]
    BY DEF DInv, Registry
  <1>1. CASE StartRestore(j)
    BY <1>1, Turns DEF StartRestore
  <1>2. CASE Open(j)
    <2>1. CASE ReadsZip(j) /\ Admissible(j)
      <3>1. PICK call : pc' = [pc EXCEPT ![j] = call]
        BY <1>2, <2>1 DEF Open
      <3> QED
        BY <1>2, <2>1, <3>1, GoesOn DEF Open
    <2>2. CASE ~(ReadsZip(j) /\ Admissible(j))
      <3>1. \A i \in Jobs \ {j} : dir'[i] = dir[i]
        BY <1>0, <1>2, <2>2 DEF Open, Removed
      <3> QED
        BY <1>2, <2>2, <3>1, Turns DEF Open
    <2> QED
      BY <2>1, <2>2
  <1>3. CASE (\E call : Goto(j, call)) \/ (\E outcome : Finish(j, outcome))
    BY <1>3, FinishMoves, GotoMoves
  <1>4. Restoring(j) => \/ StartRestore(j) \/ Open(j)
                        \/ (\E call : Goto(j, call)) \/ (\E outcome : Finish(j, outcome))
    BY DEF Restoring, CheckRevision, CheckOccupied, Preview, Truncate,
           MigrateToArchive, LoadTables, MigrateToHead, TruncateDerived, Existing, ReplaceGraph,
           RestoreAudit, Backfill, ClearSearch, Index, Fail
  <1> QED
    BY <1>1, <1>2, <1>3, <1>4

\* And each keeps to its own copies.
LEMMA DumpApart ==
  ASSUME CInv, NEW j \in Jobs, Dumping(j)
  PROVE  Apart(j)
  <1> USE DEF Apart, store, work, hist, CInv, Functions
  <1>1. CASE StartDump(j)
    BY <1>1 DEF StartDump
  <1>2. CASE RollUp(j)
    BY <1>2 DEF RollUp
  <1>3. CASE ListGraphs(j)
    BY <1>3 DEF ListGraphs
  <1>4. CASE FetchGraph(j)
    BY <1>4 DEF FetchGraph
  <1>5. CASE DumpTables(j)
    BY <1>5 DEF DumpTables
  <1>6. CASE DumpAudit(j)
    BY <1>6 DEF DumpAudit
  <1>7. CASE Pack(j)
    BY <1>7 DEF Pack
  <1> QED
    BY <1>1, <1>2, <1>3, <1>4, <1>5, <1>6, <1>7 DEF Dumping

\* A restore writes to the stores, and disturbs whoever else is at work.
LEMMA RestoreApart ==
  ASSUME CInv, NEW j \in Jobs, Restoring(j)
  PROVE  Apart(j)
  <1> USE DEF Apart, store, work, hist, CInv, Functions
  <1>1. CASE StartRestore(j)
    BY <1>1 DEF StartRestore
  <1>2. CASE Open(j)
    BY <1>2 DEF Open
  <1>3. CASE CheckRevision(j)
    BY <1>3 DEF CheckRevision
  <1>4. CASE CheckOccupied(j)
    BY <1>4 DEF CheckOccupied
  <1>5. CASE Preview(j)
    BY <1>5 DEF Preview
  <1>6. CASE Truncate(j)
    BY <1>6 DEF Truncate
  <1>7. CASE MigrateToArchive(j)
    BY <1>7 DEF MigrateToArchive
  <1>8. CASE LoadTables(j)
    BY <1>8 DEF LoadTables
  <1>9. CASE MigrateToHead(j)
    BY <1>9 DEF MigrateToHead
  <1>10. CASE TruncateDerived(j)
    BY <1>10 DEF TruncateDerived
  <1>11. CASE Existing(j)
    BY <1>11 DEF Existing
  <1>12. CASE ReplaceGraph(j)
    BY <1>12 DEF ReplaceGraph
  <1>13. CASE RestoreAudit(j)
    BY <1>13 DEF RestoreAudit
  <1>14. CASE Backfill(j)
    BY <1>14 DEF Backfill
  <1>15. CASE ClearSearch(j)
    BY <1>15 DEF ClearSearch
  <1>16. CASE Index(j)
    BY <1>16 DEF Index
  <1> QED
    BY <1>1, <1>2, <1>3, <1>4, <1>5, <1>6, <1>7, <1>8, <1>9, <1>10, <1>11, <1>12, <1>13, <1>14,
       <1>15, <1>16 DEF Restoring

\* A job that keeps to itself, and to its stage, keeps the whole.
LEMMA OwnStep ==
  ASSUME CInv, NEW j \in Jobs, Moves(j), Apart(j), Functions', CopyStage(j)'
  PROVE  CInv'
  <1>1. ASSUME NEW i \in Jobs \ {j} PROVE CopyStage(i)'
    <2>1. job'[i] = job[i] /\ pc'[i] = pc[i] /\ dir'[i] = dir[i] /\ excused'[i] = excused[i]
      BY DEF Moves, Only, Apart
    <2>2. calm'[i] = Nil \/ (calm'[i] = calm[i] /\ ~Alone(i))
            \/ (calm'[i] = calm[i] /\ <<graph, bound, rows, schema, decided>>' = <<graph, bound, rows, schema, decided>>)
      <3>1. CASE calm' = Disturb(j)
        BY <3>1 DEF Disturb, Ended, Alone, Running
      <3>2. CASE calm' \in {calm, Captured(j)}
        BY <3>2, ZenonT(40) DEF Captured, CInv, Functions, Apart, Disturb, Ended, Alone, Running
      <3> QED
        BY <3>1, <3>2 DEF Apart
    <2>3. Quiet => Quiet'
      BY DEF Apart, Quiet
    <2>4. Aside(i)
      BY <2>1, <2>2, <2>3 DEF Aside, Apart
    <2>5. HasDirectory(i)'
      BY <2>1 DEF CInv, CopyStage, HasDirectory, Fresh, Ended, Req, Here
    <2> QED
      BY <2>4, <2>5, BystanderKeeps DEF CInv
  <1> QED
    BY <1>1 DEF CInv

\* A job notes one more thing, which leaves its notes of the same shape.
LEMMA NotesRows ==
  ASSUME Functions, NEW j \in Jobs, NEW R, NEW r,
         \/ saved' = [saved EXCEPT ![j].rows = R]
         \/ saved' = [saved EXCEPT ![j] = [rows |-> R, bound |-> saved[j].bound, rev |-> r]]
         \/ saved' = [saved EXCEPT ![j].bound = r]
  PROVE  saved' = [i \in Jobs |-> [rows |-> saved'[i].rows, bound |-> saved'[i].bound, rev |-> saved'[i].rev]]
  <1>1. \A i \in Jobs : saved[i] = [rows |-> saved[i].rows, bound |-> saved[i].bound, rev |-> saved[i].rev]
    BY DEF Functions
  <1>2. DOMAIN saved = Jobs
    BY DEF Functions
  <1>3. PICK x : /\ saved' = [i \in Jobs |-> IF i = j THEN x ELSE saved[i]]
                 /\ x = [rows |-> x.rows, bound |-> x.bound, rev |-> x.rev]
    <2>1. CASE saved' = [saved EXCEPT ![j].rows = R]
      <3> DEFINE x == [rows |-> R, bound |-> saved[j].bound, rev |-> saved[j].rev]
      <3>1. saved' = [i \in Jobs |-> IF i = j THEN x ELSE saved[i]]
        BY <1>1, <1>2, <2>1
      <3>2. x = [rows |-> x.rows, bound |-> x.bound, rev |-> x.rev]
        OBVIOUS
      <3> QED
        BY <3>1, <3>2
    <2>2. CASE saved' = [saved EXCEPT ![j] = [rows |-> R, bound |-> saved[j].bound, rev |-> r]]
      <3> DEFINE x == [rows |-> R, bound |-> saved[j].bound, rev |-> r]
      <3>1. saved' = [i \in Jobs |-> IF i = j THEN x ELSE saved[i]]
        BY <1>2, <2>2
      <3>2. x = [rows |-> x.rows, bound |-> x.bound, rev |-> x.rev]
        OBVIOUS
      <3> QED
        BY <3>1, <3>2
    <2>3. CASE saved' = [saved EXCEPT ![j].bound = r]
      <3> DEFINE x == [rows |-> saved[j].rows, bound |-> r, rev |-> saved[j].rev]
      <3>1. saved' = [i \in Jobs |-> IF i = j THEN x ELSE saved[i]]
        BY <1>1, <1>2, <2>3, ZenonT(40)
      <3>2. x = [rows |-> x.rows, bound |-> x.bound, rev |-> x.rev]
        OBVIOUS
      <3> QED
        BY <3>1, <3>2
    <2> QED
      BY <2>1, <2>2, <2>3
  <1>4. \A i \in Jobs : saved'[i] = [rows |-> saved'[i].rows, bound |-> saved'[i].bound, rev |-> saved'[i].rev]
    BY <1>1, <1>3
  <1> QED
    BY <1>3, <1>4

\* So does the copy of one more graph.
LEMMA CopiesGraph ==
  ASSUME Functions, NEW j \in Jobs, NEW g, NEW c, got' = [got EXCEPT ![j][g] = c]
  PROVE  /\ got' = [i \in Jobs |-> [h \in GraphSet |-> got'[i][h]]]
         /\ \A h \in GraphSet : got'[j][h] = IF h = g THEN c ELSE got[j][h]
  <1>1. \A i \in Jobs : got[i] = [h \in GraphSet |-> got[i][h]]
    BY DEF Functions
  <1>2. got' = [i \in Jobs |-> IF i = j THEN [got[j] EXCEPT ![g] = c] ELSE got[i]]
    BY DEF Functions
  <1>3. [got[j] EXCEPT ![g] = c] = [h \in GraphSet |-> IF h = g THEN c ELSE got[j][h]]
    BY <1>1
  <1>4. \A i \in Jobs : got'[i] = [h \in GraphSet |-> got'[i][h]]
    BY <1>1, <1>2, <1>3
  <1>5. \A h \in GraphSet : got'[j][h] = IF h = g THEN c ELSE got[j][h]
    BY <1>2, <1>3
  <1> QED
    BY <1>2, <1>4, <1>5

\* A dump keeps the shapes of what it copies.
LEMMA DumpFunctions ==
  ASSUME CInv, NEW j \in Jobs, Dumping(j)
  PROVE  Functions'
  <1>0. Functions
    BY DEF CInv
  <1> USE DEF Functions, store, work, hist
  <1>1. CASE StartDump(j)
    BY <1>0, <1>1 DEF StartDump, Captured
  <1>2. CASE RollUp(j)
    BY <1>0, <1>2 DEF RollUp
  <1>3. CASE ListGraphs(j)
    BY <1>0, <1>3 DEF ListGraphs
  <1>4. CASE FetchGraph(j)
    <2> DEFINE g == First(todo[j])
    <2>1. /\ got' = [got EXCEPT ![j][g] = graph[g]]
          /\ saved' = [saved EXCEPT ![j].bound = IF g = Record THEN bound ELSE saved[j].bound]
          /\ todo' = [todo EXCEPT ![j] = todo[j] \ {g}]
          /\ graph' = graph /\ calm' = calm /\ excused' = excused /\ writer' = writer
      BY <1>4 DEF FetchGraph
    <2> HIDE DEF g
    <2>2. saved' = [i \in Jobs |-> [rows |-> saved'[i].rows, bound |-> saved'[i].bound, rev |-> saved'[i].rev]]
      BY <1>0, <2>1, NotesRows
    <2>3. got' = [i \in Jobs |-> [h \in GraphSet |-> got'[i][h]]]
      BY <1>0, <2>1, CopiesGraph
    <2> QED
      BY <1>0, <2>1, <2>2, <2>3
  <1>5. CASE DumpTables(j)
    <2>1. saved' = [i \in Jobs |-> [rows |-> saved'[i].rows, bound |-> saved'[i].bound, rev |-> saved'[i].rev]]
      <3>1. saved' = [saved EXCEPT ![j] = [rows |-> rows, bound |-> saved[j].bound, rev |-> schema]]
        BY <1>5 DEF DumpTables
      <3> QED
        BY <1>0, <3>1, NotesRows
    <2> QED
      BY <1>0, <1>5, <2>1, SMTT(30) DEF DumpTables
  <1>6. CASE DumpAudit(j)
    <2>1. saved' = [i \in Jobs |-> [rows |-> saved'[i].rows, bound |-> saved'[i].bound, rev |-> saved'[i].rev]]
      BY <1>0, <1>6, NotesRows DEF DumpAudit
    <2> QED
      BY <1>0, <1>6, <2>1, SMTT(30) DEF DumpAudit
  <1>7. CASE Pack(j)
    BY <1>0, <1>7 DEF Pack
  <1> QED
    BY <1>1, <1>2, <1>3, <1>4, <1>5, <1>6, <1>7 DEF Dumping

\* A restore changes the stores, in their shapes.
LEMMA RestoreFunctions ==
  ASSUME CInv, NEW j \in Jobs, Restoring(j)
  PROVE  Functions'
  <1>0. Functions
    BY DEF CInv
  <1> USE DEF Functions, store, work, hist, Disturb
  <1>1. CASE StartRestore(j)
    BY <1>0, <1>1 DEF StartRestore
  <1>2. CASE Open(j)
    BY <1>0, <1>2 DEF Open, Captured
  <1>3. CASE CheckRevision(j)
    BY <1>0, <1>3 DEF CheckRevision
  <1>4. CASE CheckOccupied(j)
    <2>1. saved' = [i \in Jobs |-> [rows |-> saved'[i].rows, bound |-> saved'[i].bound, rev |-> saved'[i].rev]]
      BY <1>0, <1>4, NotesRows DEF CheckOccupied
    <2> QED
      BY <1>0, <1>4, <2>1, SMTT(30) DEF CheckOccupied
  <1>5. CASE Preview(j)
    BY <1>0, <1>5 DEF Preview
  <1>6. CASE Truncate(j)
    BY <1>0, <1>6 DEF Truncate
  <1>7. CASE MigrateToArchive(j)
    BY <1>0, <1>7 DEF MigrateToArchive
  <1>8. CASE LoadTables(j)
    BY <1>0, <1>8 DEF LoadTables
  <1>9. CASE MigrateToHead(j)
    BY <1>0, <1>9 DEF MigrateToHead
  <1>10. CASE TruncateDerived(j)
    BY <1>0, <1>10 DEF TruncateDerived
  <1>11. CASE Existing(j)
    BY <1>0, <1>11 DEF Existing
  <1>12. CASE ReplaceGraph(j)
    BY <1>0, <1>12 DEF ReplaceGraph
  <1>13. CASE RestoreAudit(j)
    BY <1>0, <1>13 DEF RestoreAudit
  <1>14. CASE Backfill(j)
    BY <1>0, <1>14 DEF Backfill
  <1>15. CASE ClearSearch(j)
    BY <1>0, <1>15 DEF ClearSearch
  <1>16. CASE Index(j)
    BY <1>0, <1>16 DEF Index
  <1> QED
    BY <1>1, <1>2, <1>3, <1>4, <1>5, <1>6, <1>7, <1>8, <1>9, <1>10, <1>11, <1>12, <1>13, <1>14,
       <1>15, <1>16 DEF Restoring

-----------------------------------------------------------------------------
(* The stages of a dump.                                                   *)

\* Nothing is said of a job that has ended, ...
LEMMA EndedStage ==
  ASSUME NEW j \in Jobs, job'[j].state \in {"SUCCEEDED", "FAILED"}
  PROVE  CopyStage(j)'
  BY DEF CopyStage, Running, HasDirectory, Fresh, Ended, NotBegun, Alone

\* ... and one that goes on is at a call of its kind, and as far as it should be.
LEMMA DumpStays ==
  ASSUME NEW j \in Jobs, CopyStage(j), Running(j), Req(j).kind = "dump", job' = job, writer' = writer,
         calm' = calm, pc'[j] \in DumpCalls, Full(j) => pc'[j] # "audit",
         pc'[j] \in {"rollup", "list"} => got'[j] = Empty,
         Alone(j) /\ Full(j) /\ DumpStage(j) => DumpStage(j)'
  PROVE  CopyStage(j)'
  <1>1. /\ Running(j)' /\ Req(j)' = Req(j) /\ Full(j)' = Full(j) /\ Quiet' = Quiet
        /\ Alone(j)' = Alone(j)
        /\ ~Fresh(j)' /\ job'[j].state = "RUNNING" /\ calm'[j] = calm[j]
    BY DEF Running, Req, Full, Scope, Archive, Quiet, Alone, Fresh
  <1>2. HasDirectory(j)' /\ RightCall(j)'
    BY <1>1 DEF HasDirectory, RightCall
  <1>3. NotBegun(j)' => got'[j] = Empty'
    BY <1>1 DEF NotBegun, Empty
  <1>4. Alone(j) => Quiet
    BY DEF CopyStage
  <1>5. Alone(j) /\ Full(j) => DumpStage(j)
    BY DEF CopyStage
  <1> QED
    BY <1>1, <1>2, <1>3, <1>4, <1>5 DEF CopyStage

\* A dump begins with the stores as they are.
LEMMA StartDumpStage ==
  ASSUME CInv, DInv, NEW j \in Jobs, StartDump(j)
  PROVE  CopyStage(j)'
  <1>1. /\ job[j].state = "QUEUED" /\ Req(j).kind = "dump" /\ got[j] = Empty
        /\ UNCHANGED <<store, writer, work>>
    BY DEF StartDump, IsDump, CInv, CopyStage, NotBegun
  <1>2. PICK call \in {"rollup", "list"}, state \in {"RUNNING"} :
          pc' = [pc EXCEPT ![j] = call] /\ job' = [job EXCEPT ![j].state = state]
    BY DEF StartDump
  <1>3. job'[j].req = job[j].req /\ job'[j].state = "RUNNING" /\ pc'[j] = call
    BY <1>2, StateChange DEF DInv
  <1>4. Req(j)' = Req(j) /\ RightCall(j)' /\ HasDirectory(j)' /\ got'[j] = Empty'
    <2>1. Req(j)' = Req(j) /\ got'[j] = Empty'
      BY <1>1, <1>3 DEF Req, work, Empty
    <2>2. Req(j)'.kind = "dump" /\ pc'[j] \in {"rollup", "list"}
      BY <1>1, <1>2, <1>3, <2>1
    <2> QED
      BY <2>1, <2>2 DEF RightCall, DumpCalls, HasDirectory
  <1>5. calm'[j] = IF Quiet THEN Now ELSE Nil
    BY DEF StartDump, Captured, CInv, Functions
  <1>6. ASSUME calm'[j] # Nil PROVE Quiet' /\ DumpStage(j)'
    <2>1. Quiet /\ calm'[j] = Now
      BY <1>5, <1>6
    <2>2. Quiet'
      BY <1>1, <2>1 DEF Quiet
    <2>3. graph' = calm'[j].graph /\ bound' = calm'[j].bound /\ rows' = calm'[j].rows
      BY <1>1, <2>1 DEF Now, store
    <2> QED
      BY <1>2, <1>3, <2>2, <2>3 DEF DumpStage
  <1> QED
    BY <1>1, <1>4, <1>6 DEF CopyStage, Alone

\* After the roll-up it has copied nothing yet, ...
LEMMA RollUpStage ==
  ASSUME CInv, DInv, NEW j \in Jobs, RollUp(j)
  PROVE  CopyStage(j)'
  <1>1. /\ Running(j) /\ pc[j] = "rollup" /\ pc'[j] = "list"
        /\ UNCHANGED <<store, writer, job, work, hist>>
    BY DEF RollUp, DInv, Shaped
  <1>2. Req(j).kind = "dump" /\ got'[j] = Empty
    BY <1>1 DEF CInv, CopyStage, RightCall, RestoreCalls, NotBegun, work
  <1>3. DumpStage(j) => DumpStage(j)'
    BY <1>1 DEF DumpStage, store, hist
  <1> QED
    BY <1>1, <1>2, <1>3, DumpStays DEF CInv, DumpCalls, hist

\* ... after the listing it has the graphs that are empty, ...
LEMMA ListStage ==
  ASSUME CInv, DInv, NEW j \in Jobs, ListGraphs(j)
  PROVE  CopyStage(j)'
  <1>1. /\ Running(j) /\ IsDump(j) /\ pc[j] = "list"
        /\ UNCHANGED <<store, writer, got, saved, hist>>
        /\ todo'[j] = Present
    BY DEF ListGraphs, CInv, Functions
  <1>2. CASE Fail(j)
    BY <1>2, FinishMoves, EndedStage DEF Fail
  <1>3. CASE Goto(j, IF Present = {} THEN AfterGraphs(j) ELSE "fetch")
    <2>1. job' = job /\ pc'[j] = IF Present = {} THEN AfterGraphs(j) ELSE "fetch"
      BY <1>3, GotoMoves
    <2>2. Req(j).kind = "dump" /\ got[j] = Empty
      BY <1>1 DEF IsDump, CInv, CopyStage, NotBegun
    <2>3. ASSUME NEW G, Present \subseteq G PROVE Fetched(j, G)'
      <3>1. \A g \in GraphSet \ G : got[j][g] = graph[g]
        BY <2>2, <2>3 DEF Empty, Present
      <3>2. ~(Record \notin G /\ graph[Record] # 0)
        BY <2>3, BackupAssumption DEF Present, BackupAssumption
      <3> QED
        BY <1>1, <3>1, <3>2 DEF Fetched, store
    <2>4. Fetched(j, todo[j])' /\ (Present = {} => Fetched(j, {})')
      BY <1>1, <2>3
    <2>5. pc'[j] \in DumpCalls \ {"rollup", "list"} /\ (Full(j) => pc'[j] # "audit")
          /\ (Full(j) => pc'[j] # "pack") /\ (pc'[j] = "tables" => Present = {})
      BY <2>1 DEF AfterGraphs, DumpCalls
    <2>6. Full(j) /\ DumpStage(j) => DumpStage(j)'
      BY <1>1, <2>4, <2>5 DEF DumpStage, store, hist
    <2> QED
      BY <1>1, <2>1, <2>2, <2>5, <2>6, DumpStays DEF CInv, hist
  <1> QED
    BY <1>2, <1>3 DEF ListGraphs

\* ... and each fetch copies one more.
LEMMA FetchStage ==
  ASSUME CInv, DInv, NEW j \in Jobs, FetchGraph(j)
  PROVE  CopyStage(j)'
  <1> DEFINE g == First(todo[j])
  <1>1. /\ Running(j) /\ pc[j] = "fetch" /\ UNCHANGED <<store, writer, hist>>
        /\ got' = [got EXCEPT ![j][g] = graph[g]]
        /\ saved' = [saved EXCEPT ![j].bound = IF g = Record THEN bound ELSE @]
        /\ todo'[j] = todo[j] \ {g}
        /\ Goto(j, IF todo[j] = {g} THEN AfterGraphs(j) ELSE "fetch")
    BY DEF FetchGraph, CInv, Functions
  <1> HIDE DEF g
  <1>2. job' = job /\ pc'[j] = IF todo[j] = {g} THEN AfterGraphs(j) ELSE "fetch"
    BY <1>1, GotoMoves
  <1>3. Req(j).kind = "dump"
    BY <1>1 DEF CInv, CopyStage, RightCall, RestoreCalls
  <1>4. \A h \in GraphSet : got'[j][h] = IF h = g THEN graph[g] ELSE got[j][h]
    BY <1>1, CopiesGraph DEF CInv
  <1>5. saved'[j].bound = IF g = Record THEN bound ELSE saved[j].bound
    BY <1>1 DEF CInv, Functions
  <1>6. Fetched(j, todo[j]) => Fetched(j, todo[j])'
    BY <1>1, <1>4, <1>5 DEF Fetched, store
  <1>7. Fetched(j, todo[j])' /\ todo[j] = {g} => Fetched(j, {})'
    BY <1>1 DEF Fetched
  <1>8. pc'[j] \in DumpCalls \ {"rollup", "list"} /\ (Full(j) => pc'[j] # "audit")
        /\ (Full(j) => pc'[j] # "pack") /\ (pc'[j] = "tables" => todo[j] = {g})
    BY <1>2 DEF AfterGraphs, DumpCalls
  <1>9. Full(j) /\ DumpStage(j) => DumpStage(j)'
    BY <1>1, <1>6, <1>7, <1>8 DEF DumpStage, store, hist
  <1> QED
    BY <1>1, <1>2, <1>3, <1>8, <1>9, DumpStays DEF CInv, hist

\* The tables are copied last; a dump with the audit rows alone is no full one.
LEMMA TablesStage ==
  ASSUME CInv, DInv, NEW j \in Jobs, DumpTables(j) \/ DumpAudit(j)
  PROVE  CopyStage(j)'
  <1>1. CASE DumpTables(j)
    <2>1. /\ Running(j) /\ pc[j] = "tables" /\ pc'[j] = "pack"
          /\ UNCHANGED <<store, writer, job, got, hist>>
          /\ saved'[j].rows = rows /\ saved'[j].bound = saved[j].bound
      BY <1>1 DEF DumpTables, DInv, Shaped, CInv, Functions
    <2>2. Req(j).kind = "dump"
      BY <2>1 DEF CInv, CopyStage, RightCall, RestoreCalls
    <2>3. Fetched(j, {}) => Fetched(j, {})'
      BY <2>1 DEF Fetched, store
    <2>4. DumpStage(j) => DumpStage(j)'
      BY <2>1, <2>3 DEF DumpStage, store, hist
    <2> QED
      BY <2>1, <2>2, <2>4, DumpStays DEF CInv, DumpCalls, hist
  <1>2. CASE DumpAudit(j)
    <2>1. /\ Running(j) /\ pc[j] = "audit" /\ Req(j).kind = "dump" /\ ~Full(j)
          /\ UNCHANGED <<writer, hist>>
      BY <1>2 DEF DumpAudit, IsDump, CInv, CopyStage, RightCall
    <2>2. CASE Fail(j)
      BY <2>2, FinishMoves, EndedStage DEF Fail
    <2>3. CASE Goto(j, "pack")
      <3>1. job' = job /\ pc'[j] = "pack"
        BY <2>3, GotoMoves
      <3> QED
        BY <2>1, <3>1, DumpStays DEF CInv, DumpCalls, hist
    <2> QED
      BY <1>2, <2>2, <2>3 DEF DumpAudit
  <1> QED
    BY <1>1, <1>2

\* So a dump keeps the invariant.
LEMMA DumpCopy ==
  ASSUME CInv, DInv, NEW j \in Jobs, Dumping(j)
  PROVE  CInv'
  <1>1. Pack(j) => CopyStage(j)'
    BY FinishMoves, EndedStage DEF Pack
  <1>2. CopyStage(j)'
    BY <1>1, StartDumpStage, RollUpStage, ListStage, FetchStage, TablesStage DEF Dumping
  <1> QED
    BY <1>2, DumpMoves, DumpApart, DumpFunctions, OwnStep

-----------------------------------------------------------------------------
(* The stages of a restore.                                                *)

\* The first of some graphs is one of them.
LEMMA FirstIsOne ==
  ASSUME NEW G, G \subseteq GraphSet, G # {}
  PROVE  First(G) \in G
  <1> DEFINE T == {i \in DOMAIN Graphs : Graphs[i] \in G}
  <1>1. DOMAIN Graphs = 1 .. Len(Graphs) /\ Len(Graphs) \in Nat
    BY BackupAssumption DEF BackupAssumption
  <1>2. T \subseteq Nat
    BY <1>1
  <1>3. T # {}
    BY DEF GraphSet
  <1>4. PICK n \in T : \A m \in T : ~(m < n)
    <2>1. IsWellFoundedOn(OpToRel(<, Nat), Nat)
      BY NatLessThanWellFounded
    <2>2. \E n \in T : \A m \in T : ~(<<m, n>> \in OpToRel(<, Nat))
      BY <1>2, <1>3, <2>1, WFMin
    <2>3. OpToRel(<, Nat) = {ss \in Nat \X Nat : ss[1] < ss[2]}
      BY DEF OpToRel
    <2> HIDE DEF T
    <2> QED
      BY <1>2, <2>2, <2>3
  <1>5. \A k \in 1 .. n - 1 : Graphs[k] \notin G
    BY <1>1, <1>4
  <1>6. n \in DOMAIN Graphs /\ Graphs[n] \in G
    BY <1>4
  <1> QED
    BY <1>5, <1>6 DEF First

\* What a restore that goes on to another call leaves as it is.
Continues(j, call) ==
  /\ Running(j) /\ Req(j).kind = "restore" /\ pc[j] # "open" /\ RightCall(j)
  /\ job' = job /\ pc'[j] = call /\ dir' = dir /\ writer' = writer
  /\ calm'[j] = calm[j] /\ excused' = excused /\ peeked' = peeked

\* Its request, and so what it loads, stay what they are, ...
LEMMA SameRequest ==
  ASSUME NEW j \in Jobs, NEW call, Continues(j, call)
  PROVE  Req(j)' = Req(j) /\ Archive(j)' = Archive(j) /\ Full(j)' = Full(j) /\ Replaces(j)' = Replaces(j)
         /\ Loads(j)' = Loads(j)
  BY DEF Continues, Req, Archive, Full, Scope, Replaces, Loads

\* ... and it is where it should be if it was.
LEMMA RestoreStays ==
  ASSUME NEW j \in Jobs, NEW call \in RestoreCalls \ {"open"}, CopyStage(j), Continues(j, call),
         call \in (IF Full(j) THEN RestoreCalls \ {"audit"} ELSE RestoreCalls \ OfTheState),
         calm[j] # Nil /\ ~excused[j] /\ RestoreStage(j) => RestoreStage(j)'
  PROVE  CopyStage(j)'
  <1>1. /\ Running(j)' /\ Req(j)' = Req(j) /\ Full(j)' = Full(j) /\ Quiet' = Quiet
        /\ ~Fresh(j)' /\ job'[j].state = "RUNNING" /\ Req(j).kind = "restore"
    BY SameRequest DEF Continues, Running, Quiet, Fresh
  <1>2. Alone(j) /\ calm'[j] = calm[j] <=> Alone(j)' /\ calm'[j] = calm[j]
    BY <1>1 DEF Alone, Continues
  <1>3. HasDirectory(j)'
    BY <1>1 DEF CopyStage, HasDirectory, Continues, Fresh, Ended, Here, Running
  <1>4. RightCall(j)'
    BY <1>1 DEF RightCall, Continues
  <1>5. ~NotBegun(j)'
    BY <1>1 DEF NotBegun
  <1>6. Alone(j) => Quiet
    BY DEF CopyStage
  <1>7. Alone(j) /\ ~excused[j] => RestoreStage(j) /\ calm[j] # Nil
    BY <1>1 DEF CopyStage, Alone
  <1> QED
    BY <1>1, <1>2, <1>3, <1>4, <1>5, <1>6, <1>7 DEF CopyStage, Continues

\* A call of a restore that does not end it.
LEMMA RestoreContinues ==
  ASSUME CInv, DInv, NEW j \in Jobs, Restoring(j), pc[j] \notin {"open", "audit"}, NEW call, Goto(j, call)
  PROVE  Continues(j, call)
  <1>1. job' = job /\ pc'[j] = call /\ dir' = dir
    BY GotoMoves
  <1>2. Running(j) /\ pc[j] \notin DumpCalls
    <2>1. ~StartRestore(j)
      <3>1. StartRestore(j) => job'[j].state = "RUNNING" /\ job[j].state = "QUEUED"
        BY Turns DEF StartRestore
      <3> QED
        BY <1>1, <3>1
    <2> QED
      BY <2>1
         DEF Restoring, DumpCalls, Open, CheckRevision, CheckOccupied, Preview, Truncate,
             MigrateToArchive, LoadTables, MigrateToHead, TruncateDerived, Existing, ReplaceGraph,
             RestoreAudit, Backfill, ClearSearch, Index
  <1>3. RightCall(j) /\ Req(j).kind = "restore"
    BY <1>2 DEF CInv, CopyStage, RightCall
  <1>4. Disturb(j)[j] = calm[j]
    BY DEF Disturb
  <1>5. /\ excused' = excused /\ peeked' = peeked /\ writer' = writer
        /\ (calm' = calm \/ calm' = Disturb(j))
    BY <1>2 DEF Restoring, StartRestore, Open, CheckRevision, CheckOccupied, Preview, Truncate,
           MigrateToArchive, LoadTables, MigrateToHead, TruncateDerived, Existing, ReplaceGraph,
           RestoreAudit, Backfill, ClearSearch, Index, hist, store
  <1> QED
    BY <1>1, <1>2, <1>3, <1>4, <1>5 DEF Continues

\* Before the graphs are replaced they wait.
LEMMA GraphsWait ==
  ASSUME NEW j \in Jobs, NEW call, Continues(j, call), pc[j] \notin Replacing, call \notin Replacing,
         graph' = graph, bound' = bound, RestoreStage(j),
         RowStage(j)', SchemaStage(j)', Checked(j)'
  PROVE  RestoreStage(j)'
  <1>1. GraphStage(j, Loads(j)) /\ pc'[j] = call /\ pc'[j] \notin Replacing
    BY DEF RestoreStage, Replacing, Replaced, Continues
  <1>2. GraphStage(j, Loads(j))'
    BY <1>1, SameRequest DEF GraphStage, Continues, Replacing, Replaced
  <1> QED
    BY <1>1, <1>2 DEF RestoreStage, Replacing, Replaced

\* The steps of a full restore on the state tables.
LEMMA StateStages ==
  ASSUME CInv, DInv, NEW j \in Jobs,
         \/ CheckRevision(j) \/ CheckOccupied(j) \/ Preview(j) \/ Truncate(j) \/ MigrateToArchive(j)
         \/ MigrateToHead(j) \/ TruncateDerived(j)
  PROVE  CopyStage(j)'
  <1>1. CASE \E outcome \in {"SUCCEEDED", "FAILED"} : Finish(j, outcome)
    BY <1>1, FinishMoves, EndedStage
  <1>2. CASE \A outcome \in {"SUCCEEDED", "FAILED"} : ~Finish(j, outcome)
    <2>1. Restoring(j) /\ Running(j) /\ pc[j] \in OfTheState
      BY DEF Restoring, CheckRevision, CheckOccupied, Preview, Truncate, MigrateToArchive,
             MigrateToHead, TruncateDerived, OfTheState
    <2>2. /\ Req(j).kind = "restore" /\ RightCall(j) /\ Full(j) /\ pc[j] \notin {"open", "audit"}
          /\ CopyStage(j)
      BY <2>1 DEF CInv, CopyStage, RightCall, DumpCalls, OfTheState
    <2>3. PICK call \in (OfTheState \ {"revision"}) \cup {"existing"} :
            /\ Goto(j, call)
            /\ \/ CheckRevision(j) /\ call = "occupied"
               \/ CheckOccupied(j) /\ call = "preview"
               \/ Preview(j) /\ call = (IF saved[j].rows # {} THEN "truncate" ELSE "migrate")
               \/ Truncate(j) /\ call = "migrate"
               \/ MigrateToArchive(j) /\ call = "load"
               \/ MigrateToHead(j) /\ call = "derived"
               \/ TruncateDerived(j) /\ call = "existing"
      BY <1>2
         DEF CheckRevision, CheckOccupied, Preview, Truncate, MigrateToArchive, MigrateToHead,
             TruncateDerived, OfTheState, Fail
    <2>4. Continues(j, call)
      BY <2>1, <2>2, <2>3, RestoreContinues
    <2>5. /\ Req(j)' = Req(j) /\ Archive(j)' = Archive(j) /\ Full(j)'
          /\ Replaces(j)' = Replaces(j)
          /\ calm'[j] = calm[j] /\ pc'[j] = call /\ peeked' = peeked
      BY <2>2, <2>4, SameRequest DEF Continues
    <2>6. graph' = graph /\ bound' = bound /\ pc[j] \notin Replacing /\ call \notin Replacing
      BY <2>1, <2>3
         DEF CheckRevision, CheckOccupied, Preview, Truncate, MigrateToArchive, MigrateToHead,
             TruncateDerived, store, OfTheState, Replacing, Replaced
    <2>7. call \in RestoreCalls \ {"open"} /\ call \in RestoreCalls \ {"audit"}
      BY DEF RestoreCalls, OfTheState
    <2>8. ASSUME RestoreStage(j) PROVE RestoreStage(j)'
      <3>1. /\ RowStage(j) /\ SchemaStage(j) /\ Checked(j)
            /\ \A g \in GraphSet : graph[g] = calm[j].graph[g]
        BY <2>6, <2>8 DEF RestoreStage, GraphStage, Replacing, Replaced
      <3>2. RowStage(j)' /\ SchemaStage(j)' /\ Checked(j)'
        <4> USE <2>2, <2>3, <2>5, <3>1 DEF RowStage, SchemaStage, Checked, Replacing, Replaced, store, hist, work
        <4>1. CASE CheckRevision(j) /\ call = "occupied"
          BY <4>1 DEF CheckRevision
        <4>2. CASE CheckOccupied(j) /\ call = "preview"
          <5>1. saved'[j].rows = rows
            BY <4>2 DEF CheckOccupied, CInv, Functions
          <5> QED
            BY <4>2, <5>1 DEF CheckOccupied
        <4>3. CASE Preview(j) /\ call = (IF saved[j].rows # {} THEN "truncate" ELSE "migrate")
          <5>1. ReadsGraphs(j) /\ ~Req(j).dry /\ (Present = {} \/ Replaces(j)) /\ pc[j] = "preview"
                /\ UNCHANGED <<rows, schema, decided, saved>>
            BY <1>2, <4>3 DEF Preview, Fail
          <5>2. Replaces(j) \/ \A g \in GraphSet : calm[j].graph[g] = 0
            BY <5>1 DEF Present
          <5> QED
            BY <4>3, <5>1, <5>2 DEF ReadsGraphs
        <4>4. CASE Truncate(j) /\ call = "migrate"
          BY <4>4 DEF Truncate
        <4>5. CASE MigrateToArchive(j) /\ call = "load"
          BY <4>5 DEF MigrateToArchive
        <4>6. CASE MigrateToHead(j) /\ call = "derived"
          BY <4>6 DEF MigrateToHead
        <4>7. CASE TruncateDerived(j) /\ call = "existing"
          BY <4>7 DEF TruncateDerived
        <4> QED
          BY <2>3, <4>1, <4>2, <4>3, <4>4, <4>5, <4>6, <4>7
      <3> QED
        BY <2>4, <2>6, <2>8, <3>2, GraphsWait
    <2> QED
      BY <2>2, <2>4, <2>7, <2>8, RestoreStays
  <1> QED
    BY <1>1, <1>2

\* The rows of the archive are loaded into empty tables.
LEMMA LoadStage ==
  ASSUME CInv, DInv, NEW j \in Jobs, LoadTables(j)
  PROVE  CopyStage(j)'
  <1>1. CASE Fail(j)
    BY <1>1, FinishMoves, EndedStage DEF Fail
  <1>2. CASE Goto(j, "upgrade") /\ rows' = rows \union Archive(j).rows
    <2>1. Restoring(j) /\ Running(j) /\ pc[j] = "load"
      BY DEF Restoring, LoadTables
    <2>2. RightCall(j) /\ Full(j) /\ CopyStage(j)
      BY <2>1 DEF CInv, CopyStage, RightCall, DumpCalls, OfTheState
    <2>3. Continues(j, "upgrade")
      BY <1>2, <2>1, RestoreContinues
    <2>4. /\ Req(j)' = Req(j) /\ Archive(j)' = Archive(j) /\ Full(j)'
          /\ Replaces(j)' = Replaces(j)
          /\ calm'[j] = calm[j] /\ pc'[j] = "upgrade" /\ peeked' = peeked
      BY <2>2, <2>3, SameRequest DEF Continues
    <2>5. graph' = graph /\ bound' = bound /\ schema' = schema /\ saved' = saved
      BY DEF LoadTables, work
    <2>6. ASSUME RestoreStage(j) PROVE RestoreStage(j)'
      <3>1. RowStage(j) /\ SchemaStage(j) /\ Checked(j)
        BY <2>6 DEF RestoreStage
      <3>2. rows' = Archive(j).rows
        BY <1>2, <2>1, <3>1 DEF RowStage
      <3>3. RowStage(j)' /\ SchemaStage(j)' /\ Checked(j)'
        BY <2>1, <2>2, <2>4, <2>5, <3>1, <3>2
           DEF RowStage, SchemaStage, Checked, Replacing, Replaced
      <3> QED
        BY <2>1, <2>3, <2>5, <2>6, <3>3, GraphsWait DEF Replacing, Replaced
    <2> QED
      BY <2>2, <2>3, <2>6, RestoreStays DEF RestoreCalls
  <1> QED
    BY <1>1, <1>2 DEF LoadTables

\* One look at the store decides what is loaded.
LEMMA ExistingStage ==
  ASSUME CInv, DInv, NEW j \in Jobs, Existing(j)
  PROVE  CopyStage(j)'
  <1> DEFINE kept == IF Req(j).merge THEN Present ELSE {}
             load == {g \in GraphSet : Archive(j).graphs[g] # 0} \ kept
             call == IF load = {} THEN AfterReplace(j) ELSE "replace"
  <1>1. CASE \E outcome \in {"SUCCEEDED", "FAILED"} : Finish(j, outcome)
    BY <1>1, FinishMoves, EndedStage
  <1>2. CASE Goto(j, call) /\ ~Req(j).dry
    <2>1. Restoring(j) /\ Running(j) /\ pc[j] = "existing" /\ todo'[j] = load
          /\ UNCHANGED <<graph, bound, rows, schema, decided, saved>>
      BY DEF Restoring, Existing, CInv, Functions, store
    <2>2. RightCall(j) /\ CopyStage(j)
      BY <2>1 DEF CInv, CopyStage
    <2>3. call \in {"replace", "audit", "backfill"} /\ (Full(j) => call # "audit")
          /\ (~Full(j) /\ call = "backfill" => ~Req(j).audit) /\ (call # "replace" => load = {})
          /\ (call = "audit" => Req(j).audit)
          /\ (call = "replace" => load # {})
      BY DEF AfterReplace
    <2> HIDE DEF call, load
    <2>4. Continues(j, call)
      BY <1>2, <2>1, RestoreContinues
    <2>5. /\ Req(j)' = Req(j) /\ Archive(j)' = Archive(j) /\ Full(j)' = Full(j)
          /\ Replaces(j)' = Replaces(j)
          /\ calm'[j] = calm[j] /\ pc'[j] = call /\ peeked' = peeked /\ Loads(j)' = Loads(j)
      BY <2>2, <2>4, SameRequest DEF Continues
    <2>6. ASSUME RestoreStage(j) PROVE RestoreStage(j)'
      <3>1. /\ RowStage(j) /\ SchemaStage(j) /\ Checked(j)
            /\ \A g \in GraphSet : graph[g] = calm[j].graph[g]
            /\ bound = calm[j].bound /\ calm[j].graph = [g \in GraphSet |-> calm[j].graph[g]]
        BY <2>1, <2>6 DEF RestoreStage, GraphStage, Replacing, Replaced
      <3>2. load = Loads(j)
        BY <3>1 DEF Loads, load, Present
      <3>3. GraphStage(j, todo[j])'
        BY <2>1, <2>3, <2>5, <3>1, <3>2 DEF GraphStage
      <3>4. GraphStage(j, IF pc[j] = "replace" THEN todo[j] ELSE IF pc[j] \in Replaced THEN {} ELSE Loads(j))'
            /\ (pc'[j] = "replace" => todo'[j] # {})
        <4>1. CASE call = "replace"
          BY <2>1, <2>3, <2>5, <3>3, <4>1 DEF GraphStage
        <4>2. CASE call # "replace"
          <5>1. todo'[j] = {} /\ pc'[j] \in Replaced /\ pc'[j] # "replace"
            BY <2>1, <2>3, <2>5, <4>2 DEF Replaced
          <5> QED
            BY <3>3, <5>1 DEF GraphStage
        <4> QED
          BY <4>1, <4>2
      <3>5. RowStage(j)'
        BY <2>1, <2>3, <2>5, <3>1 DEF RowStage, Replacing, Replaced
      <3>6. SchemaStage(j)' /\ Checked(j)'
        BY <1>2, <2>1, <2>3, <2>5, <3>1 DEF SchemaStage, Checked, Replacing, Replaced
      <3> QED
        BY <3>4, <3>5, <3>6 DEF RestoreStage
    <2>7. call \in RestoreCalls \ {"open"}
          /\ call \in (IF Full(j) THEN RestoreCalls \ {"audit"} ELSE RestoreCalls \ OfTheState)
      BY <2>3 DEF RestoreCalls, OfTheState
    <2> QED
      BY <2>2, <2>4, <2>6, <2>7, RestoreStays
  <1> QED
    BY <1>1, <1>2 DEF Existing, Fail

\* Each graph that is loaded replaces one.
LEMMA ReplaceStage ==
  ASSUME CInv, DInv, NEW j \in Jobs, ReplaceGraph(j)
  PROVE  CopyStage(j)'
  <1> DEFINE g    == First(todo[j])
             call == IF todo[j] = {g} THEN AfterReplace(j) ELSE "replace"
  <1>1. /\ Restoring(j) /\ Running(j) /\ pc[j] = "replace" /\ todo'[j] = todo[j] \ {g}
        /\ Goto(j, call)
        /\ graph' = [graph EXCEPT ![g] = Archive(j).graphs[g]]
        /\ bound' = IF g = Record THEN Archive(j).bound ELSE bound
        /\ UNCHANGED <<rows, schema, decided, saved>>
    BY DEF Restoring, ReplaceGraph, CInv, Functions
  <1>2. RightCall(j) /\ CopyStage(j)
    BY <1>1 DEF CInv, CopyStage
  <1>3. call \in {"replace", "audit", "backfill"} /\ (Full(j) => call # "audit")
        /\ (~Full(j) /\ call = "backfill" => ~Req(j).audit) /\ (call # "replace" => todo[j] = {g})
        /\ (call = "audit" => Req(j).audit)
        /\ (call = "replace" => todo[j] # {g})
    BY DEF AfterReplace
  <1>4. \A h \in GraphSet : graph'[h] = IF h = g THEN Archive(j).graphs[g] ELSE graph[h]
    BY <1>1 DEF CInv, Functions
  <1>5. todo[j] \subseteq GraphSet /\ todo[j] # {} => g \in todo[j]
    BY FirstIsOne
  <1> HIDE DEF call, g
  <1>6. Continues(j, call)
    BY <1>1, RestoreContinues
  <1>7. /\ Req(j)' = Req(j) /\ Archive(j)' = Archive(j) /\ Full(j)' = Full(j)
        /\ Replaces(j)' = Replaces(j)
        /\ calm'[j] = calm[j] /\ pc'[j] = call /\ peeked' = peeked /\ Loads(j)' = Loads(j)
    BY <1>6, SameRequest DEF Continues
  <1>8. ASSUME RestoreStage(j) PROVE RestoreStage(j)'
    <2>1. /\ RowStage(j) /\ SchemaStage(j) /\ Checked(j) /\ todo[j] # {}
          /\ todo[j] \subseteq Loads(j)
          /\ \A h \in GraphSet : graph[h] = IF h \in Loads(j) \ todo[j] THEN Archive(j).graphs[h] ELSE calm[j].graph[h]
          /\ bound = IF Record \in Loads(j) \ todo[j] THEN Archive(j).bound ELSE calm[j].bound
          /\ calm[j].graph = [h \in GraphSet |-> calm[j].graph[h]]
      BY <1>1, <1>8 DEF RestoreStage, GraphStage
    <2>2. g \in todo[j] /\ g \in Loads(j)
      BY <1>5, <2>1 DEF Loads
    <2>3. GraphStage(j, todo[j])'
      BY <1>1, <1>3, <1>4, <1>7, <2>1, <2>2 DEF GraphStage
    <2>4. (call = "replace" => todo'[j] # {}) /\ (call # "replace" => todo'[j] = {})
      BY <1>1, <1>3, <2>1, <2>2
    <2>5. GraphStage(j, IF pc[j] = "replace" THEN todo[j] ELSE IF pc[j] \in Replaced THEN {} ELSE Loads(j))'
      BY <1>3, <1>7, <2>3, <2>4 DEF Replaced, GraphStage
    <2>6. RowStage(j)'
      BY <1>1, <1>3, <1>7, <2>1 DEF RowStage, Replacing, Replaced
    <2>7. SchemaStage(j)' /\ Checked(j)'
      BY <1>1, <1>3, <1>7, <2>1 DEF SchemaStage, Checked, Replacing, Replaced
    <2> QED
      BY <1>7, <2>4, <2>5, <2>6, <2>7 DEF RestoreStage
  <1>9. call \in RestoreCalls \ {"open"}
        /\ call \in (IF Full(j) THEN RestoreCalls \ {"audit"} ELSE RestoreCalls \ OfTheState)
    BY <1>3 DEF RestoreCalls, OfTheState
  <1> QED
    BY <1>2, <1>6, <1>8, <1>9, RestoreStays

\* The record is bound again, if the archive knew no profiles, and indexed.
LEMMA LastStages ==
  ASSUME CInv, DInv, NEW j \in Jobs, RestoreAudit(j) \/ Backfill(j) \/ ClearSearch(j) \/ Index(j)
  PROVE  CopyStage(j)'
  <1>1. CASE \E outcome \in {"SUCCEEDED", "FAILED"} : Finish(j, outcome)
    BY <1>1, FinishMoves, EndedStage
  <1>2. CASE \A outcome \in {"SUCCEEDED", "FAILED"} : ~Finish(j, outcome)
    <2>1. PICK call \in {"backfill", "clear", "index"} :
            /\ Goto(j, call)
            /\ \/ RestoreAudit(j) /\ pc[j] = "audit" /\ call = "backfill"
               \/ Backfill(j) /\ pc[j] = "backfill" /\ call = "clear"
               \/ ClearSearch(j) /\ pc[j] = "clear" /\ call = "index"
      BY <1>2 DEF RestoreAudit, Backfill, ClearSearch, Index, Fail
    <2>2. Running(j) /\ CopyStage(j) /\ RightCall(j)
      BY <2>1 DEF RestoreAudit, Backfill, ClearSearch, CInv, CopyStage
    <2>3. Req(j).kind = "restore" /\ (pc[j] = "audit" => ~Full(j))
      BY <2>1, <2>2 DEF RightCall, DumpCalls, RestoreAudit, IsRestore
    <2>4. /\ UNCHANGED <<graph, schema, decided, writer, saved, excused, peeked>>
          /\ calm' = Disturb(j)
      BY <2>1 DEF RestoreAudit, Backfill, ClearSearch, work
    <2>5. Continues(j, call)
      <3>1. job' = job /\ pc'[j] = call /\ dir' = dir
        BY <2>1, GotoMoves
      <3> QED
        BY <2>1, <2>2, <2>3, <2>4, <3>1 DEF Continues, Disturb
    <2>6. /\ Req(j)' = Req(j) /\ Archive(j)' = Archive(j) /\ Full(j)' = Full(j)
          /\ Replaces(j)' = Replaces(j)
          /\ calm'[j] = calm[j] /\ pc'[j] = call /\ peeked' = peeked /\ Loads(j)' = Loads(j)
      BY <2>5, SameRequest DEF Continues
    <2>7. ASSUME RestoreStage(j), ~excused[j] PROVE RestoreStage(j)'
      <3>1. RowStage(j) /\ SchemaStage(j) /\ Checked(j) /\ GraphStage(j, {})
        BY <2>1, <2>7 DEF RestoreStage, Replaced
      <3>2. GraphStage(j, {})'
        <4>1. CASE RestoreAudit(j) /\ pc[j] = "audit" /\ call = "backfill"
          BY <2>4, <2>6, <3>1, <4>1 DEF GraphStage, RestoreAudit
        <4>2. CASE Backfill(j) /\ pc[j] = "backfill" /\ call = "clear"
          <5>1. bound' = (bound \/ (~Archive(j).bound /\ graph[Record] # 0))
            BY <4>2 DEF Backfill
          <5>2. bound = IF Record \in Loads(j) THEN Archive(j).bound ELSE calm[j].bound
            BY <3>1, <4>2 DEF GraphStage
          <5>3. graph[Record] = IF Record \in Loads(j) THEN Archive(j).graphs[Record] ELSE calm[j].graph[Record]
            BY <3>1, BackupAssumption DEF GraphStage, BackupAssumption
          <5>4. Record \in Loads(j) => Archive(j).graphs[Record] # 0
            BY DEF Loads
          <5>5. calm[j].bound = (calm[j].graph[Record] # 0) => bound' = (graph[Record] # 0)
            <6>1. CASE Record \in Loads(j)
              <7>1. bound = Archive(j).bound /\ graph[Record] # 0
                BY <5>2, <5>3, <5>4, <6>1
              <7> QED
                BY <5>1, <7>1
            <6>2. CASE Record \notin Loads(j)
              <7>1. bound = calm[j].bound /\ graph[Record] = calm[j].graph[Record]
                BY <5>2, <5>3, <6>2
              <7> QED
                BY <5>1, <7>1
            <6> QED
              BY <6>1, <6>2
          <5> QED
            BY <2>4, <2>6, <3>1, <4>2, <5>5 DEF GraphStage
        <4>3. CASE ClearSearch(j) /\ pc[j] = "clear" /\ call = "index"
          BY <2>4, <2>6, <3>1, <4>3 DEF GraphStage, ClearSearch
        <4> QED
          BY <2>1, <4>1, <4>2, <4>3
      <3>3. GraphStage(j, IF pc[j] = "replace" THEN todo[j] ELSE IF pc[j] \in Replaced THEN {} ELSE Loads(j))'
            /\ pc'[j] # "replace"
        BY <2>6, <3>2 DEF Replaced, GraphStage
      <3>4. RowStage(j)'
        <4>1. CASE RestoreAudit(j) /\ pc[j] = "audit" /\ call = "backfill"
          <5>1. ~Full(j) /\ Here(j) /\ rows = calm[j].rows
            BY <2>2, <2>3, <2>7, <3>1, <4>1
               DEF RowStage, CopyStage, HasDirectory, Fresh, Ended, Running
          <5>2. /\ Req(j).audit
                /\ ("audit" \notin Archive(j).bad => rows' = rows \cup Archive(j).rows)
            BY <3>1, <4>1, <5>1 DEF RestoreAudit, Checked
          <5> QED
            BY <2>6, <4>1, <5>1, <5>2 DEF RowStage, Replacing, Replaced
        <4>2. CASE Backfill(j) /\ pc[j] = "backfill" /\ call = "clear"
          BY <2>6, <3>1, <4>2 DEF RowStage, Replacing, Replaced, Backfill
        <4>3. CASE ClearSearch(j) /\ pc[j] = "clear" /\ call = "index"
          BY <2>6, <3>1, <4>3 DEF RowStage, Replacing, Replaced, ClearSearch
        <4> QED
          BY <2>1, <4>1, <4>2, <4>3
      <3>5. SchemaStage(j)' /\ Checked(j)'
        BY <2>1, <2>3, <2>4, <2>6, <3>1 DEF SchemaStage, Checked, Replacing, Replaced
      <3> QED
        BY <3>3, <3>4, <3>5 DEF RestoreStage
    <2>8. call \in RestoreCalls \ {"open"}
          /\ call \in (IF Full(j) THEN RestoreCalls \ {"audit"} ELSE RestoreCalls \ OfTheState)
      BY DEF RestoreCalls, OfTheState
    <2> QED
      BY <2>2, <2>5, <2>7, <2>8, RestoreStays
  <1> QED
    BY <1>1, <1>2

\* A restore starts, and looks at the stores when it has opened its archive.
LEMMA OpenStages ==
  ASSUME CInv, DInv, NEW j \in Jobs, StartRestore(j) \/ Open(j)
  PROVE  CopyStage(j)'
  <1>1. CASE StartRestore(j)
    <2>1. /\ job'[j].req = job[j].req /\ job'[j].state = "RUNNING" /\ pc'[j] = "open"
          /\ dir' = dir /\ excused' = excused
          /\ job[j].state = "QUEUED" /\ Req(j).kind = "restore"
      BY <1>1, StateChange DEF StartRestore, IsRestore, DInv, hist
    <2>2. Req(j)' = Req(j) /\ Full(j)' = Full(j)
      BY <2>1 DEF Req, Full, Scope, Archive
    <2>3. RightCall(j)' /\ ~Alone(j)' /\ ~NotBegun(j)'
      BY <2>1, <2>2 DEF RightCall, RestoreCalls, OfTheState, Alone, NotBegun, Fresh
    <2>4. HasDirectory(j)'
      BY <2>1, <2>2 DEF CInv, CopyStage, HasDirectory, Fresh, Ended, Here
    <2> QED
      BY <2>3, <2>4 DEF CopyStage
  <1>2. CASE Open(j) /\ ReadsZip(j) /\ Admissible(j)
    <2>1. /\ Running(j) /\ pc[j] = "open" /\ job' = job /\ dir' = dir /\ excused' = excused
          /\ writer' = writer
          /\ pc'[j] = IF Full(j) THEN "revision" ELSE "existing"
          /\ UNCHANGED store
      BY <1>2 DEF Open, DInv, Shaped
    <2>2. Req(j).kind = "restore"
      BY <2>1 DEF CInv, CopyStage, RightCall, DumpCalls
    <2>3. Req(j)' = Req(j) /\ Full(j)' = Full(j)
      BY <2>1 DEF Req, Full, Scope, Archive
    <2>4. calm'[j] = IF Quiet THEN Now ELSE Nil
      BY <1>2 DEF Open, Captured, CInv, Functions
    <2>5. RightCall(j)' /\ ~NotBegun(j)' /\ HasDirectory(j)'
      <3>1. RightCall(j)'
        BY <2>1, <2>2, <2>3 DEF RightCall, RestoreCalls, OfTheState
      <3>2. ~NotBegun(j)'
        BY <2>1, <2>2, <2>3 DEF NotBegun, Fresh, Running
      <3>3. HasDirectory(j)'
        BY <2>1, <2>2, <2>3 DEF CInv, CopyStage, HasDirectory, Fresh, Ended, Here
      <3> QED
        BY <3>1, <3>2, <3>3
    <2>6. ASSUME calm'[j] # Nil PROVE Quiet' /\ RestoreStage(j)'
      <3>1. Quiet /\ calm'[j] = Now
        BY <2>4, <2>6
      <3>2. Quiet'
        BY <2>1, <3>1 DEF Quiet
      <3>3. /\ graph' = calm'[j].graph /\ bound' = calm'[j].bound /\ rows' = calm'[j].rows
            /\ schema' = calm'[j].schema
        BY <2>1, <3>1 DEF Now, store
      <3>4. GraphStage(j, Loads(j))'
        <4>1. graph' = [g \in GraphSet |-> graph'[g]]
          BY <2>1 DEF store, CInv, Functions
        <4> QED
          BY <2>1, <3>3, <4>1 DEF GraphStage
      <3>5. GraphStage(j, IF pc[j] = "replace" THEN todo[j] ELSE IF pc[j] \in Replaced THEN {} ELSE Loads(j))'
            /\ pc'[j] # "replace"
        BY <2>1, <3>4 DEF GraphStage, Replaced
      <3>6. RowStage(j)' /\ SchemaStage(j)' /\ Checked(j)'
        BY <2>1, <2>3, <3>3 DEF RowStage, SchemaStage, Checked, Replacing, Replaced
      <3> QED
        BY <3>2, <3>5, <3>6 DEF RestoreStage
    <2> QED
      BY <2>2, <2>3, <2>5, <2>6 DEF CopyStage, Alone
  <1>3. CASE Open(j) /\ ~(ReadsZip(j) /\ Admissible(j))
    <2>1. job' = [job EXCEPT ![j].state = "FAILED"] /\ pc' = [pc EXCEPT ![j] = "done"]
      BY <1>3 DEF Open
    <2>2. job'[j].state = "FAILED"
      BY <2>1, StateChange DEF DInv
    <2> QED
      BY <2>2, EndedStage
  <1> QED
    BY <1>1, <1>2, <1>3

\* So a restore keeps the invariant.
LEMMA RestoreCopy ==
  ASSUME CInv, DInv, NEW j \in Jobs, Restoring(j)
  PROVE  CInv'
  <1>1. CopyStage(j)'
    BY StateStages, LoadStage, ExistingStage, ReplaceStage, LastStages, OpenStages DEF Restoring
  <1> QED
    BY <1>1, RestoreMoves, RestoreApart, RestoreFunctions, OwnStep

\* A call that raises excuses its job, and ends it.
LEMMA RaiseCopy ==
  ASSUME CInv, DInv, NEW j \in Jobs, Raise(j)
  PROVE  CInv'
  <1>1. Moves(j) /\ CopyStage(j)'
    BY FinishMoves, EndedStage DEF Raise, Fail
  <1>2. Apart(j) /\ Functions'
    BY DEF Raise, Apart, Functions, CInv, store, work
  <1> QED
    BY <1>1, <1>2, OwnStep

\* At first no job has begun.
LEMMA CopyInitially == Init => CInv
  <1> SUFFICES ASSUME Init PROVE CInv
    OBVIOUS
  <1>1. Functions
    BY DEF Init, Functions
  <1>2. \A j \in Jobs : Fresh(j) /\ got[j] = Empty
    BY DEF Init, Fresh, Empty
  <1>3. \A j \in Jobs : CopyStage(j)
    BY <1>2 DEF CopyStage, Running, Fresh, HasDirectory, Alone
  <1> QED
    BY <1>1, <1>3 DEF CInv

\* The stages, with what they rest on: the freeze, and the directories.
KInv == FInv /\ DInv /\ CInv

\* Every step keeps them.
LEMMA CopyInductive == KInv /\ [Next]_vars => KInv'
  <1> SUFFICES ASSUME KInv, [Next]_vars PROVE CInv'
    BY Inductive, KeepsInductive DEF KInv
  <1>0. FInv /\ DInv /\ CInv
    BY DEF KInv
  <1>1. CASE \E w \in Writes : Admit(w) \/ WriteGraph(w) \/ WriteRow(w) \/ WriteSearch(w)
    BY <1>0, <1>1, WritesCopy
  <1>2. CASE Decide
    BY <1>0, <1>2, DecideCopy
  <1>3. CASE \E j \in Jobs, r \in Asked : Launch(j, r) \/ Command(j, r)
    BY <1>0, <1>3, AskingCopy
  <1>4. CASE \E j \in Jobs : JobStep(j) \/ Raise(j)
    BY <1>0, <1>4, DumpCopy, RestoreCopy, RaiseCopy DEF JobStep
  <1>5. CASE Restart
    BY <1>0, <1>5, RestartCopy
  <1>6. CASE UNCHANGED vars
    <2>1. Functions'
      BY <1>0, <1>6 DEF vars, store, work, hist, CInv, Functions
    <2>2. \A i \in Jobs : Aside(i)
      BY <1>6 DEF vars, store, work, hist, Aside, Quiet
    <2> QED
      BY <1>0, <1>6, <2>1, <2>2, AllAside DEF vars, hist
  <1> QED
    BY <1>1, <1>2, <1>3, <1>4, <1>5, <1>6 DEF Next

-----------------------------------------------------------------------------
(* What jobs end with.                                                     *)

\* Only its own step, or a call that raises, ends a job as succeeded or failed.
LEMMA EndsByItself ==
  ASSUME KInv, [Next]_vars, NEW j \in Jobs, Running(j), job'[j].state \in {"SUCCEEDED", "FAILED"}
  PROVE  JobStep(j) \/ Raise(j)
  <1>1. job'[j] # job[j]
    BY DEF Running
  <1>2. CASE \E w \in Writes : Admit(w) \/ WriteGraph(w) \/ WriteRow(w) \/ WriteSearch(w)
    BY <1>1, <1>2 DEF Admit, WriteGraph, WriteRow, WriteSearch
  <1>3. CASE Decide
    BY <1>1, <1>3 DEF Decide
  <1>4. CASE \E i \in Jobs, r \in Asked : Launch(i, r) \/ Command(i, r)
    <2>1. PICK i \in Jobs, r \in Asked : Launch(i, r) \/ Command(i, r)
      BY <1>4
    <2>2. Fresh(i) /\ job' = [job EXCEPT ![i] = [req |-> r, state |-> "QUEUED"]]
      BY <2>1 DEF Launch, Command, NextJob
    <2>3. i # j
      BY <2>2 DEF Fresh, Running
    <2> QED
      BY <1>1, <2>2, <2>3 DEF KInv, FInv, Shaped
  <1>5. CASE \E i \in Jobs : JobStep(i) \/ Raise(i)
    <2>1. PICK i \in Jobs : JobStep(i) \/ Raise(i)
      BY <1>5
    <2>2. Moves(i)
      BY <2>1, DumpMoves, RestoreMoves, FinishMoves DEF KInv, JobStep, Raise, Fail
    <2>3. i = j
      BY <1>1, <2>2 DEF Moves, Only
    <2> QED
      BY <2>1, <2>3
  <1>6. CASE Restart
    <2>1. job'[j] = [job[j] EXCEPT !.state = "gone"]
      BY <1>1, <1>6 DEF Restart
    <2>2. job[j] = [req |-> job[j].req, state |-> job[j].state]
      BY DEF KInv, FInv, Shaped
    <2>3. job'[j].state = "gone"
      BY <2>1, <2>2
    <2> QED
      BY <2>3
  <1>7. CASE UNCHANGED vars
    BY <1>1, <1>7 DEF vars
  <1> QED
    BY <1>2, <1>3, <1>4, <1>5, <1>6, <1>7 DEF Next

\* A dump succeeds when it packs what it has copied.
LEMMA DumpEnds ==
  ASSUME KInv, [Next]_vars, NEW j \in Jobs, Ends(j, "SUCCEEDED"), IsDump(j)
  PROVE  Pack(j) /\ Here(j)
  <1>0. DInv /\ Running(j) /\ job'[j].state = "SUCCEEDED" /\ RightCall(j) /\ Req(j).kind = "dump"
    BY DEF KInv, CInv, CopyStage, Ends, IsDump
  <1>1. JobStep(j) \/ Raise(j)
    BY <1>0, EndsByItself
  <1>2. ~Raise(j) /\ ~Fail(j)
    BY <1>0, FinishMoves DEF Raise, Fail
  <1>3. ~Restoring(j)
    BY <1>0 DEF Restoring, StartRestore, Open, CheckRevision, CheckOccupied, Preview, Truncate,
           MigrateToArchive, LoadTables, MigrateToHead, TruncateDerived, Existing, ReplaceGraph,
           RestoreAudit, Backfill, ClearSearch, Index, IsRestore, RightCall, DumpCalls
  <1>4. \A call : ~Goto(j, call)
    BY <1>0 DEF Goto, Running
  <1>5. ~StartDump(j) /\ ~RollUp(j) /\ ~DumpTables(j)
    BY <1>0 DEF StartDump, RollUp, DumpTables, Running
  <1>6. Pack(j)
    BY <1>1, <1>2, <1>3, <1>4, <1>5 DEF JobStep, Dumping, ListGraphs, FetchGraph, DumpAudit
  <1>7. Here(j)
    BY <1>0, <1>6, FinishMoves DEF Pack
  <1> QED
    BY <1>6, <1>7

\* A full dump that nobody interfered with is one state of both stores, the one at which the freeze took
\* hold (write_freeze.py: "captured at one consistent point"), for any jobs, requests and bounds.
THEOREM DumpsAlwaysConsistent == Spec => DumpsConsistent
  <1>1. ASSUME KInv, [Next]_vars, NEW j \in Jobs,
               Ends(j, "SUCCEEDED"), IsDump(j), Full(j), calm[j] # Nil
        PROVE  /\ archive'[j].graphs = calm[j].graph
               /\ archive'[j].rows = calm[j].rows
               /\ graph[Record] # 0 => archive'[j].bound = calm[j].bound
    <2>1. Pack(j) /\ Here(j)
      BY <1>1, DumpEnds
    <2>2. /\ archive'[j].graphs = got[j] /\ archive'[j].rows = saved[j].rows
          /\ archive'[j].bound = saved[j].bound
          /\ Running(j) /\ pc[j] = "pack"
      BY <1>1, <2>1 DEF Pack, KInv, DInv, Registry
    <2>3. DumpStage(j)
      BY <1>1, <2>2 DEF KInv, CInv, CopyStage, IsDump, Alone
    <2>4. /\ \A g \in GraphSet : got[j][g] = graph[g]
          /\ graph[Record] # 0 => saved[j].bound = bound
          /\ saved[j].rows = rows /\ graph = calm[j].graph /\ bound = calm[j].bound
          /\ rows = calm[j].rows
      BY <2>2, <2>3 DEF DumpStage, Fetched
    <2>5. got[j] = graph
      <3>1. got[j] = [g \in GraphSet |-> got[j][g]] /\ graph = [g \in GraphSet |-> graph[g]]
        BY <1>1 DEF KInv, CInv, Functions
      <3> QED
        BY <2>4, <3>1
    <2> QED
      BY <2>2, <2>4, <2>5
  <1>2. KInv /\ [Next]_vars =>
          [\A j \in Jobs : Ends(j, "SUCCEEDED") /\ IsDump(j) /\ Full(j) /\ calm[j] # Nil /\ ~excused[j] =>
             /\ archive'[j].graphs = calm[j].graph
             /\ archive'[j].rows = calm[j].rows
             /\ graph[Record] # 0 => archive'[j].bound = calm[j].bound]_vars
    BY <1>1
  <1>3. Init => KInv
    BY Initially, KeepsInitially, CopyInitially DEF KInv
  <1> QED
    BY <1>2, <1>3, CopyInductive, PTL DEF Spec, DumpsConsistent

\* A restore succeeds at its last step, or before the first when it is a dry run; it fails where it
\* has not written, unless the files of the state are damaged.
LEMMA RestoreEnds ==
  ASSUME KInv, [Next]_vars, NEW j \in Jobs, IsRestore(j), calm'[j] # Nil, ~excused'[j]
  PROVE  /\ Ends(j, "SUCCEEDED") => Preview(j) \/ Existing(j) \/ Index(j)
         /\ Ends(j, "FAILED") /\ pc[j] # "open" =>
              CheckRevision(j) \/ CheckOccupied(j) \/ Preview(j) \/ Existing(j) \/ LoadTables(j) \/ RestoreAudit(j)
  <1> SUFFICES ASSUME Running(j), job'[j].state \in {"SUCCEEDED", "FAILED"}
               PROVE  /\ job'[j].state = "SUCCEEDED" => Preview(j) \/ Existing(j) \/ Index(j)
                      /\ job'[j].state = "FAILED" /\ pc[j] # "open" =>
                           \/ CheckRevision(j) \/ CheckOccupied(j) \/ Preview(j) \/ Existing(j)
                           \/ LoadTables(j) \/ RestoreAudit(j)
    BY DEF Ends
  <1>0. DInv /\ RightCall(j) /\ Req(j).kind = "restore"
    BY DEF KInv, CInv, CopyStage, IsRestore
  <1>1. JobStep(j) \/ Raise(j)
    BY EndsByItself
  <1>2. ~Raise(j)
    BY DEF Raise, KInv, CInv, Functions
  <1>3. ~Dumping(j)
    BY <1>0
       DEF Dumping, StartDump, IsDump, RollUp, ListGraphs, FetchGraph, DumpTables, DumpAudit,
           Pack, RightCall, RestoreCalls
  <1>4. Fail(j) => job'[j].state = "FAILED"
    BY <1>0, FinishMoves DEF Fail
  <1>5. Finish(j, "SUCCEEDED") => job'[j].state = "SUCCEEDED"
    BY <1>0, FinishMoves
  <1>6. \A call : ~Goto(j, call)
    BY DEF Goto, Running
  <1>7. ~StartRestore(j)
    BY DEF StartRestore, Running
  <1>8. Open(j) => pc[j] = "open" /\ job'[j].state # "SUCCEEDED"
    <2>1. CASE ReadsZip(j) /\ Admissible(j)
      BY <2>1 DEF Open, Running
    <2>2. CASE ~(ReadsZip(j) /\ Admissible(j))
      <3>1. Open(j) => job'[j].state = "FAILED"
        BY <2>2, <1>0, StateChange DEF Open, DInv
      <3> QED
        BY <3>1 DEF Open
    <2> QED
      BY <2>1, <2>2
  <1>9. Restoring(j)
    BY <1>1, <1>2, <1>3 DEF JobStep
  <1>10. CASE job'[j].state = "SUCCEEDED"
    BY <1>4, <1>6, <1>7, <1>8, <1>9, <1>10
       DEF Restoring, CheckRevision, CheckOccupied, Truncate, MigrateToArchive, LoadTables,
           MigrateToHead, TruncateDerived, ReplaceGraph, RestoreAudit, Backfill, ClearSearch
  <1>11. CASE job'[j].state = "FAILED"
    BY <1>5, <1>6, <1>7, <1>8, <1>9, <1>11
       DEF Restoring, Truncate, MigrateToArchive, MigrateToHead, TruncateDerived, ReplaceGraph,
           Backfill, ClearSearch, Index
  <1> QED
    BY <1>10, <1>11

\* What the stages say at the step that ends a restore.
LEMMA RestoreAt ==
  ASSUME KInv, NEW j \in Jobs, IsRestore(j), Running(j), pc[j] # "open", calm[j] # Nil, ~excused[j]
  PROVE  /\ Here(j) /\ RightCall(j)
         /\ RowStage(j) /\ SchemaStage(j) /\ Checked(j)
         /\ pc[j] \notin Replacing => graph = calm[j].graph /\ bound = calm[j].bound
         /\ pc[j] = "index" => GraphStage(j, {})
  <1>1. RestoreStage(j) /\ HasDirectory(j) /\ RightCall(j)
    BY DEF KInv, CInv, CopyStage, Alone, IsRestore
  <1>2. Here(j)
    BY <1>1 DEF HasDirectory, IsRestore, Running, Ended
  <1>3. pc[j] \notin Replacing => graph = calm[j].graph /\ bound = calm[j].bound
    <2>1. SUFFICES ASSUME pc[j] \notin Replacing PROVE graph = calm[j].graph /\ bound = calm[j].bound
      OBVIOUS
    <2>2. GraphStage(j, Loads(j))
      BY <1>1, <2>1 DEF RestoreStage, Replacing, Replaced
    <2>3. graph = [g \in GraphSet |-> graph[g]] /\ calm[j].graph = [g \in GraphSet |-> calm[j].graph[g]]
          /\ \A g \in GraphSet : graph[g] = calm[j].graph[g]
      BY <2>2 DEF GraphStage, KInv, CInv, Functions
    <2>4. bound = calm[j].bound
      BY <2>1, <2>2 DEF GraphStage, Replacing, Replaced
    <2>5. graph = calm[j].graph
      BY <2>3
    <2> QED
      BY <2>4, <2>5
  <1>4. pc[j] = "index" => GraphStage(j, {})
    BY <1>1 DEF RestoreStage, Replaced
  <1> QED
    BY <1>1, <1>2, <1>3, <1>4 DEF RestoreStage

\* Before the first write the stores are untouched.
LEMMA BeforeWriting ==
  ASSUME KInv, NEW j \in Jobs, IsRestore(j), Running(j), calm[j] # Nil, ~excused[j],
         pc[j] \in {"revision", "occupied", "preview"} \/ (~Full(j) /\ pc[j] = "existing"),
         UNCHANGED <<graph, bound, rows, schema>>
  PROVE  Untouched(j)
  <1>1. RowStage(j) /\ SchemaStage(j) /\ graph = calm[j].graph /\ bound = calm[j].bound
    BY RestoreAt DEF Replacing, Replaced
  <1> QED
    BY <1>1 DEF RowStage, SchemaStage, Untouched

\* At its last step a restore has made the stores what the archive and its options say.
LEMMA AfterWriting ==
  ASSUME KInv, NEW j \in Jobs, IsRestore(j), Running(j), calm[j] # Nil, ~excused[j],
         Index(j), Archive(j).bad = {}
  PROVE  ~Req(j).dry /\ Restored(j)
  <1>1. /\ RightCall(j) /\ RowStage(j) /\ SchemaStage(j) /\ Checked(j) /\ GraphStage(j, {})
        /\ pc[j] = "index"
        /\ UNCHANGED <<graph, bound, rows, schema>> /\ search' = graph[Record]
        /\ decided' = IF decided = 0 THEN graph[Record] ELSE decided
    BY RestoreAt DEF Index, Indexed
  <1>2. ~Req(j).dry
    BY <1>1 DEF Checked
  <1>3. graph' = Merged(j)
    <2>1. \A g \in GraphSet : graph[g] = Merged(j)[g]
      BY <1>1 DEF GraphStage, Loads, Merged
    <2>2. graph = [g \in GraphSet |-> graph[g]] /\ Merged(j) = [g \in GraphSet |-> Merged(j)[g]]
      BY DEF KInv, CInv, Functions, Merged
    <2> QED
      BY <1>1, <2>1, <2>2
  <1>4. calm[j].bound = (calm[j].graph[Record] # 0) => bound' = (graph'[Record] # 0)
    BY <1>1 DEF GraphStage
  <1>5. rows' = IF Full(j) THEN Archive(j).rows
                ELSE calm[j].rows \union (IF Req(j).audit THEN Archive(j).rows ELSE {})
    BY <1>1 DEF RowStage, Replacing, Replaced
  <1>6. schema' = IF Full(j) THEN Newest ELSE calm[j].schema
    BY <1>1 DEF SchemaStage, Replacing, Replaced
  <1>7. Full(j) /\ j \notin peeked => decided' \in {0, graph'[Record]}
    BY <1>1 DEF Checked, Replacing, Replaced
  <1> QED
    BY <1>1, <1>2, <1>3, <1>4, <1>5, <1>6, <1>7 DEF Restored

\* A restore that nobody interferes with does all or nothing (orchestrate.py: both stores are checked before
\* either is written): it succeeds with the stores as the archive and its options say, or is refused before
\* the first write, and a dry run writes nothing; for any archives, options, jobs and bounds.
THEOREM RestoresAllOrNothing == Spec => RestoreAllOrNothing
  <1>1. ASSUME KInv, [Next]_vars, NEW j \in Jobs, IsRestore(j), calm'[j] # Nil, ~excused'[j],
               Ends(j, "SUCCEEDED"), Verified(Archive(j), Req(j).pass)
        PROVE  IF Req(j).dry THEN Untouched(j) ELSE Restored(j)
    <2>0. Running(j) /\ job'[j].state = "SUCCEEDED" /\ Archive(j).bad = {} /\ DInv
      BY <1>1 DEF Ends, Verified, KInv
    <2>1. \A call : ~Goto(j, call) /\ ~Fail(j)
      BY <2>0, FinishMoves DEF Goto, Running, Fail
    <2>2. CASE Preview(j) \/ Existing(j)
      <3>1. /\ pc[j] \in {"preview", "existing"} /\ Req(j).dry /\ UNCHANGED <<store, hist>>
        BY <2>1, <2>2 DEF Preview, Existing
      <3>2. calm[j] # Nil /\ ~excused[j]
        BY <1>1, <3>1 DEF hist
      <3>3. pc[j] = "preview" \/ ~Full(j)
        BY <1>1, <2>0, <3>1, <3>2, RestoreAt DEF Checked
      <3>4. Untouched(j)
        BY <1>1, <2>0, <3>1, <3>2, <3>3, BeforeWriting DEF store
      <3> QED
        BY <3>1, <3>4
    <2>3. CASE Index(j)
      <3>1. calm'[j] = calm[j] /\ excused' = excused
        BY <2>3 DEF Index, Disturb
      <3> QED
        BY <1>1, <2>0, <2>3, <3>1, AfterWriting
    <2> QED
      BY <1>1, <2>2, <2>3, RestoreEnds
  <1>2. ASSUME KInv, [Next]_vars, NEW j \in Jobs, IsRestore(j), calm'[j] # Nil, ~excused'[j],
               Ends(j, "FAILED"), Archive(j).bad \subseteq {"zip", "records"}, pc[j] # "open"
        PROVE  Untouched(j)
    <2>0. Running(j) /\ job'[j].state = "FAILED" /\ DInv
      BY <1>2 DEF Ends, KInv
    <2>1. (\A call : ~Goto(j, call)) /\ ~Finish(j, "SUCCEEDED")
      BY <2>0, FinishMoves DEF Goto, Running
    <2>2. CASE CheckRevision(j) \/ CheckOccupied(j) \/ Preview(j)
      <3>1. pc[j] \in {"revision", "occupied", "preview"} /\ UNCHANGED <<store, hist>>
        BY <2>2 DEF CheckRevision, CheckOccupied, Preview
      <3>2. calm[j] # Nil /\ ~excused[j]
        BY <1>2, <3>1 DEF hist
      <3> QED
        BY <1>2, <2>0, <3>1, <3>2, BeforeWriting DEF store
    <2>3. CASE Existing(j)
      <3>1. /\ pc[j] = "existing" /\ UNCHANGED <<store, hist>>
            /\ ~ReadsGraphs(j) \/ (Present # {} /\ ~Replaces(j))
        BY <2>1, <2>3 DEF Existing
      <3>2. calm[j] # Nil /\ ~excused[j]
        BY <1>2, <3>1 DEF hist
      <3>3. ~Full(j)
        <4>1. Here(j) /\ Checked(j) /\ graph = calm[j].graph
          BY <1>2, <2>0, <3>1, <3>2, RestoreAt DEF Replacing, Replaced
        <4>2. SUFFICES ASSUME Full(j) PROVE FALSE
          OBVIOUS
        <4>3. ReadsGraphs(j) /\ (Replaces(j) \/ Present = {})
          BY <3>1, <4>1, <4>2 DEF Checked, ReadsGraphs, Present
        <4> QED
          BY <3>1, <4>3
      <3> QED
        BY <1>2, <2>0, <3>1, <3>2, <3>3, BeforeWriting DEF store
    <2>4. CASE LoadTables(j)
      <3>1. calm'[j] = calm[j] /\ excused' = excused /\ pc[j] = "load"
        BY <2>4 DEF LoadTables, Disturb
      <3>2. Here(j) /\ RowStage(j)
        BY <1>2, <2>0, <3>1, RestoreAt
      <3>3. rows = {} /\ Archive(j).bad \intersect {"tables", "rows"} = {}
        BY <1>2, <3>1, <3>2 DEF RowStage
      <3> QED
        BY <2>1, <2>4, <3>2, <3>3 DEF LoadTables
    <2>5. CASE RestoreAudit(j)
      BY <1>2, <2>1, <2>5 DEF RestoreAudit
    <2> QED
      BY <1>2, <2>2, <2>3, <2>4, <2>5, RestoreEnds
  <1>3. KInv /\ [Next]_vars =>
          [\A j \in Jobs : IsRestore(j) /\ calm'[j] # Nil /\ ~excused'[j] =>
             /\ Ends(j, "SUCCEEDED") /\ Verified(Archive(j), Req(j).pass) =>
                  IF Req(j).dry THEN Untouched(j) ELSE Restored(j)
             /\ Ends(j, "FAILED") /\ Archive(j).bad \subseteq {"zip", "records"} =>
                  pc[j] = "open" \/ Untouched(j)]_vars
    BY <1>1, <1>2
  <1>4. Init => KInv
    BY Initially, KeepsInitially, CopyInitially DEF KInv
  <1> QED
    BY <1>3, <1>4, CopyInductive, PTL DEF Spec, RestoreAllOrNothing

-----------------------------------------------------------------------------
(* The publication of the redirect.                                        *)

\* A run is past the point where it has started the branch anew.
Pushing(p) == run[p].pc \in Redirects_!Files \union {"file", "pull", "create"}

Publications ==
  [ pc : Redirects_!Files \union {"idle", "fork", "base", "sync", "file", "pull", "create"},
    target : Targets \union {Nil}, base : Redirects_!Contents, left : SUBSET Redirects_!Files,
    blob : Targets \union {Nil}, alone : BOOLEAN ]

\* A run is alone as long as no other is under way; then the branch has the files it has put.
Undisturbed(p) ==
  /\ run[p].target \in Targets /\ \A q \in Invocations \ {p} : run[q] = Redirects_!Idle
  /\ Pushing(p) =>
       \A f \in Redirects_!Files \ run[p].left : f = run[p].pc \/ branch[f] = run[p].target

RedirectTypes ==
  /\ upstream \in Redirects_!Contents /\ pull \in BOOLEAN /\ told \in Targets \union {Nil}
  /\ pull => branch \in Redirects_!Contents
  /\ run \in [Invocations -> Publications]
  /\ \A p \in Invocations : /\ Pushing(p) => branch \in Redirects_!Contents
                            /\ run[p].pc = "idle" => run[p] = Redirects_!Idle
                            /\ run[p].pc \in {"pull", "create"} => run[p].left = {}
                            /\ run[p].pc \in {"fork", "base", "sync"} =>
                                 run[p].left = Redirects_!Files

\* What was reported is on the branch, and no run is about to change the branch before it
\* starts it anew.
RedirectInv ==
  /\ RedirectTypes
  /\ \A p \in Invocations : run[p].alone => Undisturbed(p)
  /\ told # Nil => /\ branch = Redirects_!Naming(told) /\ (pull \/ upstream = branch)
                   /\ \A p \in Invocations : ~Pushing(p)

\* Nothing is under way at first.
LEMMA RedirectInitially == Redirects_!Init => RedirectInv
  <1> SUFFICES ASSUME Redirects_!Init PROVE RedirectInv
    OBVIOUS
  <1>1. Redirects_!Naming(Nil) \in Redirects_!Contents /\ Redirects_!Idle \in Publications
    BY DEF Redirects_!Naming, Redirects_!Contents, Redirects_!Idle, Publications
  <1>2. \A p \in Invocations : run[p] = Redirects_!Idle
    BY DEF Redirects_!Init
  <1> QED
    BY <1>1, <1>2
       DEF Redirects_!Init, RedirectInv, RedirectTypes, Pushing, Redirects_!Idle, Redirects_!Files

\* Steps on the branch, once it has been started anew.
PushCalls == Redirects_!Files \union {"file", "pull", "create"}

\* A step of run p that leaves the other runs as they are.
LEMMA OneInvocation ==
  ASSUME RedirectInv, NEW p \in Invocations, NEW r \in Publications, run[p] # Redirects_!Idle,
         run' = [run EXCEPT ![p] = r],
         r = Redirects_!Idle \/ /\ r.pc # "idle" /\ r.alone = run[p].alone /\ r.target = run[p].target
                                /\ r.alone /\ r.pc \in PushCalls =>
                                     \A f \in Redirects_!Files \ r.left : f = r.pc \/ branch'[f] = r.target,
         r.pc \in {"pull", "create"} => r.left = {},
         r.pc \in {"fork", "base", "sync"} => r.left = Redirects_!Files,
         r.pc \in PushCalls => branch' \in Redirects_!Contents,
         branch' = branch \/ branch' \in Redirects_!Contents,
         upstream' = upstream, pull' \in BOOLEAN,
         pull' => pull \/ branch' \in Redirects_!Contents, told' \in Targets \union {Nil},
         told' # Nil => /\ branch' = Redirects_!Naming(told') /\ (pull' \/ upstream = branch')
                        /\ r.pc \notin PushCalls /\ \A q \in Invocations \ {p} : ~Pushing(q)
  PROVE  RedirectInv'
  <1>1. /\ run' \in [Invocations -> Publications] /\ run'[p] = r
        /\ \A q \in Invocations \ {p} : run'[q] = run[q]
    BY DEF RedirectInv, RedirectTypes
  <1>2. ~Redirects_!Idle.alone /\ Redirects_!Idle.pc = "idle" /\ "idle" \notin PushCalls
    BY DEF Redirects_!Idle, PushCalls, Redirects_!Files
  <1>3. RedirectTypes'
    <2>1. ASSUME NEW q \in Invocations
          PROVE  /\ Pushing(q)' => branch' \in Redirects_!Contents
                 /\ run'[q].pc = "idle" => run'[q] = Redirects_!Idle
                 /\ run'[q].pc \in {"pull", "create"} => run'[q].left = {}
                 /\ run'[q].pc \in {"fork", "base", "sync"} => run'[q].left = Redirects_!Files
      <3>1. CASE q = p
        BY <1>1, <3>1 DEF Pushing, PushCalls
      <3>2. CASE q # p
        BY <1>1, <3>2 DEF Pushing, RedirectInv, RedirectTypes
      <3> QED
        BY <3>1, <3>2
    <2> QED
      BY <1>1, <2>1 DEF RedirectInv, RedirectTypes
  <1>4. ASSUME NEW q \in Invocations, run'[q].alone PROVE Undisturbed(q)'
    <2>1. CASE q = p
      <3>1. r # Redirects_!Idle /\ run[p].alone
        BY <1>1, <1>2, <1>4, <2>1
      <3>2. run[p].target \in Targets /\ \A i \in Invocations \ {p} : run[i] = Redirects_!Idle
        BY <3>1 DEF RedirectInv, Undisturbed
      <3> QED
        BY <1>1, <1>4, <2>1, <3>1, <3>2 DEF Undisturbed, Pushing, PushCalls
    <2>2. CASE q # p
      <3>1. run[q].alone
        BY <1>1, <1>4, <2>2
      <3> QED
        BY <2>2, <3>1 DEF RedirectInv, Undisturbed
    <2> QED
      BY <2>1, <2>2
  <1>5. told' # Nil => /\ branch' = Redirects_!Naming(told') /\ (pull' \/ upstream' = branch')
                       /\ \A q \in Invocations : ~Pushing(q)'
    BY <1>1 DEF Pushing, PushCalls
  <1>6. (told # Nil => /\ branch = Redirects_!Naming(told) /\ (pull \/ upstream = branch)
                       /\ \A q \in Invocations : ~Pushing(q))'
    BY <1>5 DEF Redirects_!Naming
  <1> QED
    BY <1>3, <1>4, <1>6 DEF RedirectInv

\* What a run that is at work holds, and what of the branch.
LEMMA InvocationHolds ==
  ASSUME RedirectInv, NEW p \in Invocations
  PROVE  /\ Redirects_!Idle \in Publications /\ Redirects_!Idle.pc = "idle"
         /\ ~Redirects_!Idle.alone /\ Redirects_!Idle # [Redirects_!Idle EXCEPT !.pc = "fork"]
         /\ run[p] = [pc |-> run[p].pc, target |-> run[p].target, base |-> run[p].base,
                      left |-> run[p].left, blob |-> run[p].blob, alone |-> run[p].alone]
         /\ run[p] \in Publications /\ upstream \in Redirects_!Contents /\ pull \in BOOLEAN
         /\ told \in Targets \union {Nil}
         /\ (run[p] = Redirects_!Idle) <=> (run[p].pc = "idle")
         /\ run[p].pc \in PushCalls => branch \in Redirects_!Contents /\ told = Nil
         /\ run[p].pc \in {"pull", "create"} => run[p].left = {}
         /\ run[p].pc \in {"fork", "base", "sync"} => run[p].left = Redirects_!Files
         /\ run[p].alone /\ run[p].pc \in PushCalls =>
              \A f \in Redirects_!Files \ run[p].left : f = run[p].pc \/ branch[f] = run[p].target
         /\ run[p].alone =>
              run[p].target \in Targets /\ \A q \in Invocations \ {p} : run[q] = Redirects_!Idle
  <1>1. /\ Redirects_!Idle \in Publications /\ Redirects_!Idle.pc = "idle"
        /\ ~Redirects_!Idle.alone /\ Redirects_!Idle # [Redirects_!Idle EXCEPT !.pc = "fork"]
    BY DEF Redirects_!Idle, Publications, Redirects_!Naming, Redirects_!Contents, Redirects_!Files
  <1>2. /\ run[p] \in Publications /\ upstream \in Redirects_!Contents /\ pull \in BOOLEAN
        /\ told \in Targets \union {Nil}
    BY DEF RedirectInv, RedirectTypes
  <1>3. run[p] = [pc |-> run[p].pc, target |-> run[p].target, base |-> run[p].base,
                      left |-> run[p].left, blob |-> run[p].blob, alone |-> run[p].alone]
    BY <1>2 DEF Publications
  <1>4. (run[p] = Redirects_!Idle) <=> (run[p].pc = "idle")
    BY <1>1 DEF RedirectInv, RedirectTypes
  <1>5. /\ run[p].pc \in PushCalls => branch \in Redirects_!Contents /\ told = Nil
        /\ run[p].pc \in {"pull", "create"} => run[p].left = {}
        /\ run[p].pc \in {"fork", "base", "sync"} => run[p].left = Redirects_!Files
    BY DEF RedirectInv, RedirectTypes, Pushing, PushCalls
  <1>6. /\ run[p].alone /\ run[p].pc \in PushCalls =>
              \A f \in Redirects_!Files \ run[p].left : f = run[p].pc \/ branch[f] = run[p].target
        /\ run[p].alone =>
             run[p].target \in Targets /\ \A q \in Invocations \ {p} : run[q] = Redirects_!Idle
    BY DEF RedirectInv, Undisturbed, Pushing, PushCalls
  <1> QED
    BY <1>1, <1>2, <1>3, <1>4, <1>5, <1>6

\* An error of GitHub ends the run.
LEMMA FailKeeps ==
  ASSUME RedirectInv, NEW p \in Invocations, Redirects_!Fails(p)
  PROVE  RedirectInv'
  <1>1. /\ run' = [run EXCEPT ![p] = Redirects_!Idle] /\ run[p] # Redirects_!Idle
        /\ UNCHANGED <<upstream, branch, pull, told>>
    BY DEF Redirects_!Fails
  <1>2. told # Nil => /\ branch = Redirects_!Naming(told) /\ (pull \/ upstream = branch)
                      /\ \A q \in Invocations \ {p} : ~Pushing(q)
    BY DEF RedirectInv
  <1>3. /\ Redirects_!Idle.pc \notin PushCalls
        /\ Redirects_!Idle.pc \notin {"pull", "create", "fork", "base", "sync"}
    BY DEF Redirects_!Idle, PushCalls, Redirects_!Files
  <1> QED
    BY <1>1, <1>2, <1>3, InvocationHolds, OneInvocation

\* A step that only goes on to another call, before the branch is started anew.
LEMMA StartsKeep ==
  ASSUME RedirectInv, NEW p \in Invocations, Redirects_!EnsureFork(p) \/ Redirects_!ReadBase(p)
  PROVE  RedirectInv'
  <1> DEFINE r == IF run[p].pc = "fork" THEN [run[p] EXCEPT !.pc = "base"]
                  ELSE [run[p] EXCEPT !.pc = "sync", !.base = upstream]
  <1>1. /\ run' = [run EXCEPT ![p] = r] /\ run[p].pc \in {"fork", "base"}
        /\ UNCHANGED <<upstream, branch, pull, told>>
    BY DEF Redirects_!EnsureFork, Redirects_!ReadBase, Redirects_!Goto
  <1>2. /\ r \in Publications /\ r.pc \in {"base", "sync"} /\ r.alone = run[p].alone
        /\ r.target = run[p].target
        /\ r.pc \notin PushCalls /\ r.left = Redirects_!Files
    BY <1>1, InvocationHolds DEF Publications, PushCalls, Redirects_!Files
  <1>3. told # Nil => /\ branch = Redirects_!Naming(told) /\ (pull \/ upstream = branch)
                      /\ \A q \in Invocations \ {p} : ~Pushing(q)
    BY DEF RedirectInv
  <1>4. run[p] # Redirects_!Idle
    BY <1>1, InvocationHolds
  <1> HIDE DEF r
  <1> QED
    BY <1>1, <1>2, <1>3, <1>4, InvocationHolds, OneInvocation

\* The branch is started anew from the base.
LEMMA SyncKeeps ==
  ASSUME RedirectInv, NEW p \in Invocations, Redirects_!SyncBranch(p)
  PROVE  RedirectInv'
  <1> DEFINE r == [run[p] EXCEPT !.pc = "file"]
  <1>1. /\ run' = [run EXCEPT ![p] = r] /\ run[p].pc = "sync" /\ upstream' = upstream
        /\ branch' = run[p].base /\ told' = Nil /\ pull' \in {pull, FALSE}
    BY DEF Redirects_!SyncBranch, Redirects_!Goto
  <1>2. /\ r \in Publications /\ r.pc = "file" /\ r.alone = run[p].alone
        /\ r.target = run[p].target
        /\ r.left = run[p].left /\ run[p].base \in Redirects_!Contents
    BY <1>1, InvocationHolds DEF Publications
  <1>4. run[p] # Redirects_!Idle /\ pull' \in BOOLEAN
    BY <1>1, InvocationHolds
  <1> QED
    BY <1>1, <1>2, <1>4, InvocationHolds, OneInvocation

\* On to the next file, or to the pull request if none is left.
LEMMA ReadBlobKeeps ==
  ASSUME RedirectInv, NEW p \in Invocations, Redirects_!ReadBlob(p)
  PROVE  RedirectInv'
  <1>1. /\ run[p].pc = "file" /\ UNCHANGED <<upstream, branch, pull, told>>
        /\ run[p] # Redirects_!Idle
    BY InvocationHolds DEF Redirects_!ReadBlob
  <1>2. branch \in Redirects_!Contents /\ told = Nil /\ run[p] \in Publications
    BY <1>1, InvocationHolds DEF PushCalls
  <1>3. CASE run[p].left = {}
    <2> DEFINE r == [run[p] EXCEPT !.pc = "pull"]
    <2>1. run' = [run EXCEPT ![p] = r]
      BY <1>3 DEF Redirects_!ReadBlob, Redirects_!Goto
    <2>2. /\ r \in Publications /\ r.pc = "pull" /\ r.alone = run[p].alone
          /\ r.target = run[p].target
          /\ r.left = {}
      BY <1>2, <1>3 DEF Publications
    <2>3. r.alone => \A f \in Redirects_!Files \ r.left : branch[f] = r.target
      BY <1>1, <1>3, <2>2, InvocationHolds DEF PushCalls, Redirects_!Files
    <2> HIDE DEF r
    <2> QED
      BY <1>1, <1>2, <2>1, <2>2, <2>3, InvocationHolds, OneInvocation
  <1>4. CASE run[p].left # {}
    <2> DEFINE f == Redirects_!NextFile(p)
               r == [run[p] EXCEPT !.pc = f, !.blob = branch[f], !.left = run[p].left \ {f}]
    <2>1. f \in run[p].left /\ f \in Redirects_!Files
      BY <1>2, <1>4 DEF Redirects_!NextFile, Publications
    <2>2. run' = [run EXCEPT ![p] = r]
      BY <1>4 DEF Redirects_!ReadBlob
    <2> HIDE DEF f
    <2>3. /\ r \in Publications /\ r.pc = f /\ r.alone = run[p].alone /\ r.target = run[p].target
          /\ r.left = run[p].left \ {f}
      BY <1>2, <2>1 DEF Publications, Redirects_!Contents
    <2>4. r.alone => \A g \in Redirects_!Files \ r.left : g = r.pc \/ branch[g] = r.target
      BY <1>1, <2>3, InvocationHolds DEF PushCalls, Redirects_!Files
    <2>5. r.pc \in {".htaccess", "README.md"}
      BY <2>1, <2>3 DEF Redirects_!Files
    <2> HIDE DEF r
    <2> QED
      BY <1>1, <1>2, <2>2, <2>3, <2>4, <2>5, InvocationHolds, OneInvocation
  <1> QED
    BY <1>3, <1>4

\* A file is put, or refused.
LEMMA PutFileKeeps ==
  ASSUME RedirectInv, NEW p \in Invocations, NEW f \in Redirects_!Files, Redirects_!PutFile(p, f)
  PROVE  RedirectInv'
  <1>1. /\ run[p].pc = f /\ UNCHANGED <<upstream, pull, told>> /\ run[p] # Redirects_!Idle
        /\ f \in {".htaccess", "README.md"} /\ f \in PushCalls
    BY InvocationHolds DEF Redirects_!PutFile, Redirects_!Files, PushCalls
  <1>2. branch \in Redirects_!Contents /\ told = Nil /\ run[p] \in Publications
    BY <1>1, InvocationHolds
  <1>3. CASE branch[f] = run[p].blob
    <2> DEFINE r == [run[p] EXCEPT !.pc = "file"]
    <2>1. run' = [run EXCEPT ![p] = r] /\ branch' = [branch EXCEPT ![f] = run[p].target]
      BY <1>3 DEF Redirects_!PutFile, Redirects_!Goto
    <2>2. /\ r \in Publications /\ r.pc = "file" /\ r.alone = run[p].alone
          /\ r.target = run[p].target
          /\ r.left = run[p].left /\ branch' \in Redirects_!Contents
      BY <1>2, <2>1 DEF Publications, Redirects_!Contents
    <2>3. r.alone => \A g \in Redirects_!Files \ r.left : branch'[g] = r.target
      BY <1>1, <1>2, <2>1, <2>2, InvocationHolds DEF Redirects_!Contents
    <2> HIDE DEF r
    <2> QED
      BY <1>1, <1>2, <2>1, <2>2, <2>3, InvocationHolds, OneInvocation
  <1>4. CASE branch[f] # run[p].blob
    <2>1. run' = [run EXCEPT ![p] = Redirects_!Idle] /\ branch' = branch
      BY <1>4 DEF Redirects_!PutFile
    <2>2. /\ Redirects_!Idle.pc \notin PushCalls
          /\ Redirects_!Idle.pc \notin {"pull", "create", "fork", "base", "sync"}
      BY DEF Redirects_!Idle, PushCalls, Redirects_!Files
    <2> QED
      BY <1>1, <1>2, <2>1, <2>2, InvocationHolds, OneInvocation
  <1> QED
    BY <1>3, <1>4

\* A run that reports has its files on the branch.
LEMMA ReportsKeep ==
  ASSUME RedirectInv, NEW p \in Invocations, run[p].pc \in {"pull", "create"}, Redirects_!Reports(p),
         pull' = TRUE,
         UNCHANGED <<upstream, branch>>
  PROVE  RedirectInv'
  <1>1. /\ run[p] # Redirects_!Idle /\ run[p].pc \in PushCalls /\ run[p].left = {}
        /\ run[p].pc \notin Redirects_!Files
    BY InvocationHolds DEF PushCalls, Redirects_!Files
  <1>2. branch \in Redirects_!Contents /\ told = Nil /\ run[p] \in Publications
    BY <1>1, InvocationHolds
  <1>3. /\ Redirects_!Idle.pc \notin PushCalls
        /\ Redirects_!Idle.pc \notin {"pull", "create", "fork", "base", "sync"}
    BY DEF Redirects_!Idle, PushCalls, Redirects_!Files
  <1>4. run' = [run EXCEPT ![p] = Redirects_!Idle] /\ told' = IF run[p].alone THEN run[p].target ELSE told
    BY DEF Redirects_!Reports
  <1>5. told' \in Targets \union {Nil}
    BY <1>2, <1>4 DEF Publications
  <1>6. ASSUME told' # Nil
        PROVE  branch' = Redirects_!Naming(told') /\ \A q \in Invocations \ {p} : ~Pushing(q)
    <2>1. run[p].alone /\ told' = run[p].target
      BY <1>2, <1>4, <1>6
    <2>2. \A f \in Redirects_!Files : branch[f] = run[p].target
      BY <1>1, <2>1, InvocationHolds
    <2>3. \A q \in Invocations \ {p} : run[q] = Redirects_!Idle
      BY <2>1, InvocationHolds
    <2> QED
      BY <1>2, <1>3, <2>1, <2>2, <2>3
         DEF Redirects_!Contents, Redirects_!Naming, Pushing, PushCalls
  <1> QED
    BY <1>1, <1>2, <1>3, <1>4, <1>5, <1>6, InvocationHolds, OneInvocation

\* The pull request is found or opened.
LEMMA PullKeeps ==
  ASSUME RedirectInv, NEW p \in Invocations, Redirects_!FindPull(p) \/ Redirects_!CreatePull(p)
  PROVE  RedirectInv'
  <1>1. /\ run[p].pc \in {"pull", "create"} /\ UNCHANGED <<upstream, branch>>
        /\ run[p] # Redirects_!Idle /\ run[p].pc \in PushCalls
    BY InvocationHolds DEF Redirects_!FindPull, Redirects_!CreatePull, PushCalls
  <1>2. branch \in Redirects_!Contents /\ told = Nil /\ run[p] \in Publications
    BY <1>1, InvocationHolds
  <1>3. CASE Redirects_!Reports(p) /\ pull' = TRUE
    BY <1>1, <1>3, ReportsKeep
  <1>4. CASE Redirects_!Goto(p, "create") /\ UNCHANGED <<told, pull>>
    <2> DEFINE r == [run[p] EXCEPT !.pc = "create"]
    <2>1. run' = [run EXCEPT ![p] = r]
      BY <1>4 DEF Redirects_!Goto
    <2>2. /\ r \in Publications /\ r.pc = "create" /\ r.alone = run[p].alone
          /\ r.target = run[p].target
          /\ r.left = {}
      BY <1>1, <1>2, InvocationHolds DEF Publications
    <2>3. r.alone => \A f \in Redirects_!Files \ r.left : f = r.pc \/ branch[f] = r.target
      BY <1>1, <2>2, InvocationHolds DEF Redirects_!Files
    <2> HIDE DEF r
    <2> QED
      BY <1>1, <1>2, <1>4, <2>1, <2>2, <2>3, InvocationHolds, OneInvocation
  <1>5. CASE run' = [run EXCEPT ![p] = Redirects_!Idle] /\ UNCHANGED <<told, pull>>
    <2>1. /\ Redirects_!Idle.pc \notin PushCalls
          /\ Redirects_!Idle.pc \notin {"pull", "create", "fork", "base", "sync"}
      BY DEF Redirects_!Idle, PushCalls, Redirects_!Files
    <2> QED
      BY <1>1, <1>2, <1>5, <2>1, InvocationHolds, OneInvocation
  <1>6. pull \in BOOLEAN
    BY DEF RedirectInv, RedirectTypes
  <1> QED
    BY <1>3, <1>4, <1>5, <1>6 DEF Redirects_!FindPull, Redirects_!CreatePull

\* A run begins: none is alone but it, if no other is under way.
LEMMA BeginKeeps ==
  ASSUME RedirectInv, NEW p \in Invocations, Redirects_!Begin(p)
  PROVE  RedirectInv'
  <1>1. PICK t \in Targets :
          run' = [q \in Invocations |->
            IF q = p THEN [Redirects_!Idle EXCEPT !.pc = "fork", !.target = t, !.left = Redirects_!Files,
                                                  !.alone = Redirects_!Others(p) = {}]
            ELSE [run[q] EXCEPT !.alone = FALSE]]
    BY DEF Redirects_!Begin
  <1> DEFINE r == [Redirects_!Idle EXCEPT !.pc = "fork", !.target = t, !.left = Redirects_!Files,
                                          !.alone = Redirects_!Others(p) = {}]
  <1>2. run[p] = Redirects_!Idle /\ UNCHANGED <<upstream, branch, pull, told>>
    BY DEF Redirects_!Begin
  <1>3. /\ r \in Publications /\ r.pc = "fork" /\ r.target = t /\ r.left = Redirects_!Files
        /\ (r.alone <=> Redirects_!Others(p) = {})
    BY DEF Redirects_!Idle, Publications, Redirects_!Naming, Redirects_!Contents
  <1>4. run'[p] = r
    BY <1>1
  <1> HIDE DEF r
  <1>5. ASSUME NEW q \in Invocations \ {p}
        PROVE  /\ run'[q] \in Publications /\ ~run'[q].alone /\ run'[q].pc = run[q].pc
               /\ run'[q].left = run[q].left
               /\ (run[q] = Redirects_!Idle => run'[q] = Redirects_!Idle)
    <2>1. run[q] \in Publications /\ run'[q] = [run[q] EXCEPT !.alone = FALSE]
      BY <1>1 DEF RedirectInv, RedirectTypes
    <2>2. run[q] = Redirects_!Idle => run'[q] = Redirects_!Idle
      <3>1. [Redirects_!Idle EXCEPT !.alone = FALSE] = Redirects_!Idle
        <4>1. \A r1 \in Publications : r1.alone = FALSE => [r1 EXCEPT !.alone = FALSE] = r1
          BY DEF Publications
        <4>2. Redirects_!Idle \in Publications /\ Redirects_!Idle.alone = FALSE
          BY DEF Redirects_!Idle, Publications, Redirects_!Naming, Redirects_!Contents,
                 Redirects_!Files
        <4> QED
          BY <4>1, <4>2
      <3> QED
        BY <2>1, <3>1
    <2>3. /\ run'[q] \in Publications /\ ~run'[q].alone /\ run'[q].pc = run[q].pc
          /\ run'[q].left = run[q].left
      BY <2>1 DEF Publications
    <2> QED
      BY <2>2, <2>3
  <1>6. run' \in [Invocations -> Publications]
    <2>1. \A q \in Invocations : run'[q] \in Publications
      BY <1>3, <1>4, <1>5
    <2>2. run' = [q \in Invocations |-> run'[q]]
      BY <1>1
    <2> QED
      BY <2>1, <2>2
  <1>7. \A q \in Invocations : Pushing(q)' => Pushing(q)
    BY <1>3, <1>4, <1>5 DEF Pushing, Redirects_!Files
  <1>8. RedirectTypes'
    <2>1. ASSUME NEW q \in Invocations
          PROVE  /\ Pushing(q)' => branch' \in Redirects_!Contents
                 /\ run'[q].pc = "idle" => run'[q] = Redirects_!Idle
                 /\ run'[q].pc \in {"pull", "create"} => run'[q].left = {}
                 /\ run'[q].pc \in {"fork", "base", "sync"} => run'[q].left = Redirects_!Files
      BY <1>2, <1>3, <1>4, <1>5, <1>7 DEF RedirectInv, RedirectTypes
    <2> QED
      BY <1>2, <1>6, <2>1 DEF RedirectInv, RedirectTypes
  <1>9. ASSUME NEW q \in Invocations, run'[q].alone PROVE Undisturbed(q)'
    <2>1. q = p /\ Redirects_!Others(p) = {}
      BY <1>3, <1>4, <1>5, <1>9
    <2>2. \A i \in Invocations \ {p} : run'[i] = Redirects_!Idle
      BY <1>5, <2>1 DEF Redirects_!Others
    <2> QED
      BY <1>3, <1>4, <2>1, <2>2 DEF Undisturbed, Pushing, Redirects_!Files
  <1> QED
    BY <1>2, <1>7, <1>8, <1>9 DEF RedirectInv, Redirects_!Naming

\* What is merged is the branch.
LEMMA MergeKeeps ==
  ASSUME RedirectInv, Redirects_!Merge
  PROVE  RedirectInv'
  <1>1. pull /\ pull' = FALSE /\ upstream' = branch /\ UNCHANGED <<branch, run, told>>
    BY DEF Redirects_!Merge
  <1> QED
    BY <1>1 DEF RedirectInv, RedirectTypes, Undisturbed, Pushing, Redirects_!Naming

\* Every step keeps it.
LEMMA RedirectInductive ==
  ASSUME RedirectInv, Redirects_!Next \/ UNCHANGED redirects
  PROVE  RedirectInv'
  <1>1. CASE UNCHANGED redirects
    BY <1>1 DEF RedirectInv, RedirectTypes, Pushing, Undisturbed, Redirects_!Naming, redirects
  <1> QED
    BY <1>1, BeginKeeps, FailKeeps, StartsKeep, SyncKeeps, ReadBlobKeeps, PutFileKeeps, PullKeeps,
       MergeKeeps DEF Redirects_!Next

\* What was reported is there.
LEMMA RedirectGives == RedirectInv => Redirects_!RedirectPublished
  BY DEF RedirectInv, Redirects_!RedirectPublished

-----------------------------------------------------------------------------
(* The import.                                                             *)

Elements(s) == {s[i] : i \in 1 .. Len(s)}

Crawling == {"next", "fetch", "write", "meta"}
Stamping == {"stamp", "bindgraph", "stampmeta"}

ImportTypes ==
  /\ contains \in [SourceRecords -> SUBSET (SourceRecords \union Elsewhere)]
  /\ copies \in [SourceRecords -> Import!Copies \union {Nil}]
  /\ metas \in [SourceRecords -> Import!Copies \union {Nil}] /\ found \subseteq SourceRecords
  /\ crawl \in Crawling \union Stamping \union {"idle", "bind", "reindex", "ended"}
  /\ record \in SourceRecords
  /\ queue \in Seq(SourceRecords) /\ visited \subseteq SourceRecords
  /\ imported \subseteq SourceRecords /\ skipped \subseteq SourceRecords
  /\ unstamped \subseteq SourceRecords /\ body \in Import!Copies \union {Nil}
  /\ truncated \in BOOLEAN
  /\ crawl = "bindgraph" => body # Nil
  /\ crawl \in {"meta", "bindgraph"} => copies[record] # Nil
  /\ \A r \in imported : copies[r] # Nil /\ metas[r] # Nil

\* The record that the crawl is about to import.
Taken == IF crawl \in {"fetch", "write", "meta"} THEN {record} ELSE {}

\* What the crawl has come across is what it has visited and what it has queued.
CrawlStage ==
  crawl \in Crawling =>
    /\ visited = imported \union skipped \union Taken
    /\ Taken \intersect (imported \union skipped) = {}
    /\ visited \union Elements(queue) =
            Import!Seen \union
           (IF crawl \in {"write", "meta"} THEN contains[record] \intersect SourceRecords ELSE {})
    /\ Taken # {} => Cardinality(imported) < MaxRecords

\* Once it is over, it has told what it left.
CrawlOver ==
  crawl \in Stamping \union {"bind", "reindex", "ended"} =>
    truncated \/ Import!Seen = imported \union skipped

Stamped(r) == copies[r].bound /\ metas[r].bound

\* Which of the imported records are stamped.
StampStage ==
  /\ crawl \in Stamping =>
         \A r \in imported : r \in unstamped \/ Stamped(r) \/ (crawl # "stamp" /\ r = record)
  /\ crawl = "stampmeta" => (copies[record] # Nil => copies[record].bound)
  /\ crawl \in {"reindex", "ended"} => \A r \in imported : Stamped(r)
  /\ crawl = "ended" => imported \subseteq found

ImportInv ==
  /\ ImportTypes /\ CrawlStage /\ CrawlOver /\ StampStage /\ Import!MetaFollows
  /\ imported \intersect skipped = {} /\ Cardinality(imported) <= MaxRecords

\* The instance counts as the module of finite sets does.
LEMMA SameSize ==
  ASSUME NEW S
  PROVE  Import!Cardinality(S) = Cardinality(S) /\ Import!IsFiniteSet(S) = IsFiniteSet(S)
  BY DEF Import!Cardinality, Cardinality, Import!IsFiniteSet, IsFiniteSet

\* What the assumption says.
LEMMA Source ==
  /\ SourceRoot \in SourceRecords /\ IsFiniteSet(SourceRecords) /\ Nil \notin Import!Copies
  /\ MaxRecords \in Nat \ {0}
  /\ Trees \subseteq [SourceRecords -> SUBSET (SourceRecords \union Elsewhere)]
  BY OperationsAssumption, SameSize DEF OperationsAssumption, Import!ImportAssumption

\* A queue of one record, ...
LEMMA QueueOfOne == <<SourceRoot>> \in Seq(SourceRecords) /\ Elements(<<SourceRoot>>) = {SourceRoot}
  BY Source DEF Elements

\* ... what follows its head, ...
LEMMA QueueTail ==
  ASSUME NEW q \in Seq(SourceRecords), q # <<>>
  PROVE  /\ Head(q) \in SourceRecords /\ Tail(q) \in Seq(SourceRecords)
         /\ Elements(q) = {Head(q)} \union Elements(Tail(q))
  <1>1. /\ Len(q) \in Nat \ {0} /\ Head(q) = q[1] /\ Tail(q) \in Seq(SourceRecords)
        /\ Len(Tail(q)) = Len(q) - 1
        /\ \A i \in 1 .. Len(q) - 1 : Tail(q)[i] = q[i + 1]
        /\ \A i \in 1 .. Len(q) : q[i] \in SourceRecords
    BY HeadTailProperties, EmptySeq, LenProperties, ElementOfSeq
  <1>2. Elements(q) \subseteq {q[1]} \union Elements(Tail(q))
    <2> SUFFICES ASSUME NEW i \in 1 .. Len(q), i # 1
                 PROVE  q[i] \in Elements(Tail(q))
      BY DEF Elements
    <2>1. i - 1 \in 1 .. Len(Tail(q)) /\ Tail(q)[i - 1] = q[i]
      BY <1>1
    <2> QED
      BY <2>1 DEF Elements
  <1>3. Elements(Tail(q)) \subseteq Elements(q)
    <2> SUFFICES ASSUME NEW i \in 1 .. Len(Tail(q))
                 PROVE  Tail(q)[i] \in Elements(q)
      BY DEF Elements
    <2>1. i + 1 \in 1 .. Len(q) /\ Tail(q)[i] = q[i + 1]
      BY <1>1
    <2> QED
      BY <2>1 DEF Elements
  <1>4. q[1] \in Elements(q) /\ q[1] \in SourceRecords
    BY <1>1 DEF Elements
  <1> QED
    BY <1>1, <1>2, <1>3, <1>4

\* ... and what it is with more behind it.
LEMMA QueueMore ==
  ASSUME NEW q \in Seq(SourceRecords), NEW s \in Seq(SourceRecords)
  PROVE  q \o s \in Seq(SourceRecords) /\ Elements(q \o s) = Elements(q) \union Elements(s)
  <1>1. /\ q \o s \in Seq(SourceRecords) /\ Len(q \o s) = Len(q) + Len(s) /\ Len(q) \in Nat
        /\ Len(s) \in Nat
        /\ \A i \in 1 .. Len(q) + Len(s) : (q \o s)[i] = IF i <= Len(q) THEN q[i] ELSE s[i - Len(q)]
    BY ConcatProperties, LenProperties
  <1>2. Elements(q \o s) \subseteq Elements(q) \union Elements(s)
    <2> SUFFICES ASSUME NEW i \in 1 .. Len(q) + Len(s)
                 PROVE  (q \o s)[i] \in Elements(q) \union Elements(s)
      BY <1>1 DEF Elements
    <2>1. CASE i <= Len(q)
      BY <1>1, <2>1 DEF Elements
    <2>2. CASE ~(i <= Len(q))
      <3>1. i - Len(q) \in 1 .. Len(s)
        BY <1>1, <2>2
      <3> QED
        BY <1>1, <2>2, <3>1 DEF Elements
    <2> QED
      BY <2>1, <2>2
  <1>3. ASSUME NEW i \in 1 .. Len(q) PROVE q[i] \in Elements(q \o s)
    <2>1. i \in 1 .. Len(q) + Len(s) /\ i <= Len(q)
      BY <1>1
    <2> QED
      BY <1>1, <2>1 DEF Elements
  <1>4. ASSUME NEW i \in 1 .. Len(s) PROVE s[i] \in Elements(q \o s)
    <2>1. /\ i + Len(q) \in 1 .. Len(q) + Len(s) /\ ~(i + Len(q) <= Len(q))
          /\ i + Len(q) - Len(q) = i
      BY <1>1
    <2>2. (q \o s)[i + Len(q)] = s[i]
      BY <1>1, <2>1
    <2> QED
      BY <1>1, <2>1, <2>2 DEF Elements
  <1> QED
    BY <1>1, <1>2, <1>3, <1>4 DEF Elements

\* The members of a record in any order are all of them.
LEMMA OrdersAll ==
  ASSUME NEW S \in SUBSET SourceRecords, NEW s \in Import!Orders(S)
  PROVE  s \in Seq(SourceRecords) /\ Elements(s) = S
  <1>1. IsFiniteSet(S) /\ Cardinality(S) \in Nat
    BY Source, FS_Subset, FS_CardinalityType
  <1> DEFINE n == Cardinality(S)
  <1>2. s \in [1 .. n -> S] /\ \A i, j \in 1 .. n : s[i] = s[j] => i = j
    <2>1. s \in [1 .. n -> S] /\ \A i, j \in DOMAIN s : s[i] = s[j] => i = j
      BY SameSize DEF Import!Orders
    <2>2. DOMAIN s = 1 .. n
      BY <2>1
    <2> QED
      BY <2>1, <2>2
  <1>3. s \in Seq(S) /\ Len(s) = n
    BY <1>1, <1>2, IsASeq, LenProperties
  <1>4. s \in Seq(SourceRecords)
    BY <1>3, SeqMonotonic
  <1>5. Cardinality(1 .. n) = n
    BY <1>1, FS_Interval
  <1>6. s \in Injection(1 .. n, S)
    BY <1>2 DEF Injection, IsInjective
  <1>7. s \in Surjection(1 .. n, S)
    BY <1>1, <1>5, <1>6, FS_Injection
  <1>8. \A r \in S : \E i \in 1 .. n : s[i] = r
    BY <1>7 DEF Surjection
  <1> QED
    BY <1>2, <1>3, <1>4, <1>8 DEF Elements

\* What the import writes is a copy.
LEMMA BodyIs == Import!Body("source") \in Import!Copies /\ Import!Body("source") # Nil
  <1>1. Import!Body("source") \in Import!Copies
    BY DEF Import!Body, Import!Copies
  <1> QED
    BY <1>1, Source

\* Nothing is here at first.
LEMMA ImportInitially == Import!Init => ImportInv
  <1> SUFFICES ASSUME Import!Init PROVE ImportInv
    OBVIOUS
  <1>1. /\ crawl = "idle" /\ record = SourceRoot /\ queue = <<>> /\ visited = {} /\ imported = {}
        /\ skipped = {} /\ unstamped = {}
        /\ body = Nil /\ truncated = FALSE /\ contains \in Trees /\ found = {}
        /\ copies = [r \in SourceRecords |-> Nil] /\ metas = [r \in SourceRecords |-> Nil]
    BY DEF Import!Init
  <1>2. ImportTypes
    BY <1>1, Source, EmptySeq DEF ImportTypes, Crawling, Stamping
  <1>3. CrawlStage /\ CrawlOver /\ StampStage /\ Import!MetaFollows
    BY <1>1 DEF CrawlStage, CrawlOver, StampStage, Import!MetaFollows, Crawling, Stamping
  <1>4. imported \intersect skipped = {} /\ Cardinality(imported) <= MaxRecords
    BY <1>1, Source, FS_EmptySet
  <1> QED
    BY <1>2, <1>3, <1>4 DEF ImportInv

\* A run starts anew from the root.
LEMMA StartKeeps ==
  ASSUME ImportInv, Import!Start
  PROVE  ImportInv'
  <1>1. /\ crawl' = "next" /\ queue' = <<SourceRoot>> /\ visited' = {} /\ imported' = {}
        /\ skipped' = {}
        /\ truncated' = FALSE /\ unstamped' = {} /\ body' = Nil
        /\ UNCHANGED <<contains, copies, metas, found, record, torn>>
    BY DEF Import!Start, Import!source, Import!store
  <1>2. ImportTypes'
    BY <1>1, QueueOfOne DEF ImportInv, ImportTypes, Crawling, Stamping
  <1>3. Import!Seen' = {SourceRoot} /\ Taken' = {}
    BY <1>1 DEF Import!Seen, Taken
  <1>4. CrawlStage'
    BY <1>1, <1>3, QueueOfOne DEF CrawlStage, Elements
  <1>5. CrawlOver' /\ StampStage' /\ Import!MetaFollows'
    BY <1>1 DEF ImportInv, CrawlOver, StampStage, Import!MetaFollows, Crawling, Stamping
  <1>6. (imported \intersect skipped = {} /\ Cardinality(imported) <= MaxRecords)'
    BY <1>1, Source, FS_EmptySet
  <1> QED
    BY <1>2, <1>4, <1>5, <1>6 DEF ImportInv

\* The next of the queue, or the end of the crawl.
LEMMA PopKeeps ==
  ASSUME ImportInv, Import!Pop
  PROVE  ImportInv'
  <1>1. /\ crawl = "next"
        /\ UNCHANGED <<contains, copies, metas, found, imported, skipped, unstamped, body, torn>>
        /\ Taken = {} /\ Import!Seen' = Import!Seen
    BY DEF Import!Pop, Import!source, Import!store, Import!stamps, Taken, Import!Seen
  <1>2. /\ visited = imported \union skipped /\ visited \union Elements(queue) = Import!Seen
        /\ queue \in Seq(SourceRecords)
    BY <1>1 DEF ImportInv, ImportTypes, CrawlStage, Crawling
  <1>3. CASE crawl' = Import!AfterCrawl /\ record' = record /\ queue' = queue /\ visited' = visited
             /\ truncated' \in BOOLEAN /\ (queue = <<>> \/ truncated')
    <2>1. crawl' \in {"ended", "bind"} /\ (crawl' = "ended" => imported = {})
      BY <1>3 DEF Import!AfterCrawl
    <2>2. ImportTypes'
      BY <1>1, <1>3, <2>1 DEF ImportInv, ImportTypes, Stamping
    <2>3. queue = <<>> => Import!Seen = imported \union skipped
      BY <1>2 DEF Elements
    <2>4. CrawlStage' /\ CrawlOver' /\ StampStage' /\ Import!MetaFollows'
      BY <1>1, <1>3, <2>1, <2>3
         DEF ImportInv, CrawlStage, CrawlOver, StampStage, Import!MetaFollows, Crawling, Stamping
    <2> QED
      BY <1>1, <2>2, <2>4 DEF ImportInv
  <1>4. CASE /\ queue # <<>> /\ ~(Cardinality(imported) >= MaxRecords)
             /\ record' = Head(queue) /\ queue' = Tail(queue)
             /\ crawl' = IF Head(queue) \in visited THEN "next" ELSE "fetch"
             /\ visited' = visited \union {Head(queue)} /\ truncated' = truncated
    <2>1. /\ record' \in SourceRecords /\ queue' \in Seq(SourceRecords)
          /\ Elements(queue) = {record'} \union Elements(queue')
      BY <1>2, <1>4, QueueTail
    <2>2. ImportTypes'
      BY <1>1, <1>4, <2>1 DEF ImportInv, ImportTypes, Crawling
    <2>3. Elements(queue)' = Elements(queue')
      BY DEF Elements
    <2>4. CrawlStage'
      <3>1. CASE record' \in visited
        <4>1. crawl' = "next" /\ Taken' = {} /\ visited' = visited
          BY <1>4, <3>1 DEF Taken
        <4> QED
          BY <1>1, <1>2, <2>1, <2>3, <3>1, <4>1 DEF CrawlStage
      <3>2. CASE record' \notin visited
        <4>1. crawl' = "fetch" /\ Taken' = {record'} /\ visited' = visited \union {record'}
          BY <1>4, <3>2 DEF Taken
        <4>2. Cardinality(imported) < MaxRecords
          <5>1. Cardinality(imported) \in Nat /\ MaxRecords \in Nat
            BY Source, FS_Subset, FS_CardinalityType DEF ImportInv, ImportTypes
          <5> QED
            BY <1>4, <5>1
        <4> QED
          BY <1>1, <1>2, <2>1, <2>3, <3>2, <4>1, <4>2 DEF CrawlStage
      <3> QED
        BY <3>1, <3>2
    <2>5. CrawlOver' /\ StampStage' /\ Import!MetaFollows'
      BY <1>1, <1>4 DEF ImportInv, CrawlOver, StampStage, Import!MetaFollows, Crawling, Stamping
    <2> QED
      BY <1>1, <2>2, <2>4, <2>5 DEF ImportInv
  <1>5. truncated \in BOOLEAN
    BY DEF ImportInv, ImportTypes
  <1>6. CASE queue = <<>>
    BY <1>3, <1>5, <1>6 DEF Import!Pop
  <1>7. CASE queue # <<>> /\ Cardinality(imported) >= MaxRecords
    BY <1>3, <1>7, SameSize DEF Import!Pop
  <1>8. CASE queue # <<>> /\ ~(Cardinality(imported) >= MaxRecords)
    BY <1>4, <1>8, SameSize DEF Import!Pop
  <1> QED
    BY <1>6, <1>7, <1>8

\* What a record contains is queued; or the record is skipped, and what only it contains never seen.
LEMMA FetchKeeps ==
  ASSUME ImportInv, Import!Fetch \/ Import!FetchFails
  PROVE  ImportInv'
  <1>1. /\ crawl = "fetch"
        /\ UNCHANGED <<contains, copies, metas, found, record, visited, imported, truncated,
                       unstamped, body, torn>>
        /\ Taken = {record} /\ record \in SourceRecords /\ Import!Seen' = Import!Seen
    BY DEF Import!Fetch, Import!FetchFails, Import!source, Import!store, Import!stamps, Taken,
           Import!Seen, ImportInv, ImportTypes
  <1>2. /\ visited = imported \union skipped \union {record}
        /\ record \notin imported \union skipped
        /\ visited \union Elements(queue) = Import!Seen /\ queue \in Seq(SourceRecords)
        /\ Cardinality(imported) < MaxRecords
    BY <1>1 DEF ImportInv, ImportTypes, CrawlStage, Crawling
  <1>3. CASE Import!Fetch
    <2>1. PICK s \in Import!Orders(Import!Members) : queue' = queue \o s
      BY <1>3 DEF Import!Fetch
    <2>2. /\ Import!Members \in SUBSET SourceRecords
          /\ Import!Members = (contains[record] \intersect SourceRecords) \ visited
      BY DEF Import!Members
    <2>3. /\ queue' \in Seq(SourceRecords)
          /\ Elements(queue') = Elements(queue) \union Import!Members
      BY <1>2, <2>1, <2>2, OrdersAll, QueueMore
    <2>4. crawl' = "write" /\ skipped' = skipped
      BY <1>3 DEF Import!Fetch
    <2>5. ImportTypes'
      BY <1>1, <2>3, <2>4 DEF ImportInv, ImportTypes, Crawling
    <2>6. Taken' = {record} /\ Elements(queue)' = Elements(queue')
      BY <1>1, <2>4 DEF Taken, Elements
    <2>7. CrawlStage'
      BY <1>1, <1>2, <2>2, <2>3, <2>4, <2>6 DEF CrawlStage
    <2>8. CrawlOver' /\ StampStage' /\ Import!MetaFollows'
      BY <1>1, <2>4 DEF ImportInv, CrawlOver, StampStage, Import!MetaFollows, Crawling, Stamping
    <2> QED
      BY <1>1, <2>4, <2>5, <2>7, <2>8 DEF ImportInv
  <1>4. CASE Import!FetchFails
    <2>1. crawl' = "next" /\ skipped' = skipped \union {record} /\ queue' = queue
      BY <1>4 DEF Import!FetchFails
    <2>2. ImportTypes'
      BY <1>1, <2>1 DEF ImportInv, ImportTypes, Crawling
    <2>3. Taken' = {} /\ Elements(queue)' = Elements(queue)
      BY <2>1 DEF Taken, Elements
    <2>4. CrawlStage'
      BY <1>1, <1>2, <2>1, <2>3 DEF CrawlStage
    <2>5. CrawlOver' /\ StampStage' /\ Import!MetaFollows'
      BY <1>1, <2>1 DEF ImportInv, CrawlOver, StampStage, Import!MetaFollows, Crawling, Stamping
    <2> QED
      BY <1>1, <1>2, <2>1, <2>2, <2>4, <2>5 DEF ImportInv
  <1> QED
    BY <1>3, <1>4

\* The graph of a record, torn until its meta graph is there ...
LEMMA WriteGraphKeeps ==
  ASSUME ImportInv, Import!WriteGraph
  PROVE  ImportInv'
  <1>1. /\ crawl = "write" /\ crawl' = "meta"
        /\ copies' = [copies EXCEPT ![record] = Import!Body("source")]
        /\ torn' = torn \union {record}
        /\ UNCHANGED <<contains, metas, found, record, queue, visited, imported, skipped,
                       truncated, unstamped, body>>
    BY DEF Import!WriteGraph, Import!source, Import!crawl, Import!stamps
  <1>2. Import!Body("source") \in Import!Copies /\ Import!Body("source") # Nil
    BY BodyIs
  <1>3. ImportTypes'
    BY <1>1, <1>2 DEF ImportInv, ImportTypes, Crawling
  <1>4. Taken' = Taken /\ Import!Seen' = Import!Seen /\ Elements(queue)' = Elements(queue)
    BY <1>1 DEF Taken, Import!Seen, Elements
  <1>5. CrawlStage'
    BY <1>1, <1>4 DEF ImportInv, CrawlStage, Crawling
  <1>6. CrawlOver' /\ StampStage'
    BY <1>1 DEF CrawlOver, StampStage, Stamping
  <1>7. Import!MetaFollows'
    BY <1>1 DEF ImportInv, ImportTypes, Import!MetaFollows
  <1> QED
    BY <1>1, <1>3, <1>5, <1>6, <1>7 DEF ImportInv

\* ... which makes it one of the imported.
LEMMA WriteMetaKeeps ==
  ASSUME ImportInv, Import!WriteMeta
  PROVE  ImportInv'
  <1>1. /\ crawl = "meta" /\ crawl' = "next"
        /\ metas' = [metas EXCEPT ![record] = Import!Body("source")] /\ torn' = torn \ {record}
        /\ imported' = imported \union {record}
        /\ UNCHANGED <<contains, copies, found, record, queue, visited, skipped, truncated,
                       unstamped, body>>
    BY DEF Import!WriteMeta, Import!source, Import!stamps
  <1>2. /\ Import!Body("source") \in Import!Copies /\ Import!Body("source") # Nil
        /\ record \in SourceRecords
    BY BodyIs DEF ImportInv, ImportTypes
  <1>3. /\ visited = imported \union skipped \union {record}
        /\ record \notin imported \union skipped
        /\ visited \union Elements(queue) = Import!Seen \union (contains[record] \intersect SourceRecords)
        /\ Cardinality(imported) < MaxRecords
    BY <1>1 DEF ImportInv, CrawlStage, Crawling, Taken
  <1>4. /\ Taken' = {}
        /\ Import!Seen' = Import!Seen \union (contains[record] \intersect SourceRecords)
        /\ Elements(queue)' = Elements(queue)
    BY <1>1 DEF Taken, Import!Seen, Elements
  <1>5. CrawlStage'
    BY <1>1, <1>3, <1>4 DEF CrawlStage
  <1>6. CrawlOver' /\ StampStage'
    BY <1>1 DEF CrawlOver, StampStage, Stamping
  <1>7. Import!MetaFollows'
    BY <1>1, <1>2 DEF ImportInv, ImportTypes, Import!MetaFollows
  <1>8. Cardinality(imported') <= MaxRecords /\ imported' \intersect skipped' = {}
    <2>1. IsFiniteSet(imported) /\ Cardinality(imported) \in Nat
      BY Source, FS_Subset, FS_CardinalityType DEF ImportInv, ImportTypes
    <2>2. Cardinality(imported') = Cardinality(imported) + 1
      BY <1>1, <1>3, <2>1, FS_AddElement
    <2> QED
      BY <1>1, <1>3, <2>1, <2>2, Source DEF ImportInv
  <1>9. ImportTypes'
    <2>1. metas' \in [SourceRecords -> Import!Copies \union {Nil}] /\ metas'[record] # Nil
          /\ \A r \in SourceRecords : metas[r] # Nil => metas'[r] # Nil
      BY <1>1, <1>2 DEF ImportInv, ImportTypes
    <2>2. copies[record] # Nil
      BY <1>1 DEF ImportInv, ImportTypes
    <2> QED
      BY <1>1, <1>2, <2>1, <2>2 DEF ImportInv, ImportTypes, Crawling
  <1> QED
    BY <1>5, <1>6, <1>7, <1>8, <1>9 DEF ImportInv

\* Every imported record is to be stamped.
LEMMA ListKeeps ==
  ASSUME ImportInv, Import!List
  PROVE  ImportInv'
  <1>1. /\ crawl = "bind" /\ crawl' = "stamp" /\ unstamped' = Import!Here
        /\ UNCHANGED <<contains, copies, metas, found, record, queue, visited, imported, skipped,
                       truncated, body, torn>>
    BY DEF Import!List, Import!source, Import!store, Import!crawl
  <1>2. imported \subseteq Import!Here /\ Import!Here \subseteq SourceRecords
    BY DEF Import!Here, ImportInv, ImportTypes
  <1>3. Import!Seen' = Import!Seen
    BY <1>1 DEF Import!Seen
  <1> QED
    BY <1>1, <1>2, <1>3
       DEF ImportInv, ImportTypes, CrawlStage, CrawlOver, StampStage, Import!MetaFollows,
           Crawling, Stamping

\* A record that is stamped already is left as it is.
LEMMA ReadGraphKeeps ==
  ASSUME ImportInv, Import!ReadGraph
  PROVE  ImportInv'
  <1>1. /\ crawl = "stamp"
        /\ UNCHANGED <<contains, copies, metas, found, queue, visited, imported, skipped,
                       truncated, torn>>
        /\ Import!Seen' = Import!Seen
    BY DEF Import!ReadGraph, Import!source, Import!store, Import!crawl, Import!Seen
  <1>2. CASE unstamped = {}
    <2>1. crawl' = "reindex" /\ UNCHANGED <<record, unstamped, body>>
      BY <1>2 DEF Import!ReadGraph
    <2> QED
      BY <1>1, <1>2, <2>1
         DEF ImportInv, ImportTypes, CrawlStage, CrawlOver, StampStage, Import!MetaFollows,
             Crawling, Stamping, Stamped
  <1>3. CASE unstamped # {}
    <2>1. PICK r \in unstamped :
               /\ record' = r /\ unstamped' = unstamped \ {r} /\ body' = copies[r]
               /\ crawl' = IF copies[r] = Nil \/ copies[r].bound THEN "stampmeta" ELSE "bindgraph"
      BY <1>3 DEF Import!ReadGraph
    <2>2. r \in SourceRecords /\ copies[r] \in Import!Copies \union {Nil}
      BY DEF ImportInv, ImportTypes
    <2>3. ImportTypes'
      BY <1>1, <2>1, <2>2 DEF ImportInv, ImportTypes, Crawling, Stamping
    <2>4. CrawlStage' /\ CrawlOver' /\ Import!MetaFollows'
      BY <1>1, <2>1 DEF ImportInv, CrawlStage, CrawlOver, Import!MetaFollows, Crawling, Stamping
    <2>5. StampStage'
      BY <1>1, <2>1 DEF ImportInv, StampStage, Stamping, Stamped
    <2> QED
      BY <1>1, <2>3, <2>4, <2>5 DEF ImportInv
  <1> QED
    BY <1>2, <1>3

\* The record and its meta graph are stamped.
LEMMA BindKeeps ==
  ASSUME ImportInv, Import!BindGraph \/ Import!BindMeta
  PROVE  ImportInv'
  <1>1. /\ UNCHANGED <<contains, found, record, queue, visited, imported, skipped, truncated,
                       unstamped, body, torn>>
        /\ Import!Seen' = Import!Seen /\ record \in SourceRecords
    BY DEF Import!BindGraph, Import!BindMeta, Import!source, Import!crawl, Import!stamps,
           Import!Seen, ImportInv, ImportTypes
  <1>2. CASE Import!BindGraph
    <2>1. /\ crawl = "bindgraph" /\ crawl' = "stampmeta" /\ metas' = metas
          /\ copies' = [copies EXCEPT ![record] = [body EXCEPT !.bound = TRUE]]
      BY <1>2 DEF Import!BindGraph
    <2>2. body \in Import!Copies
      BY <2>1 DEF ImportInv, ImportTypes
    <2>3. [body EXCEPT !.bound = TRUE] \in Import!Copies /\ [body EXCEPT !.bound = TRUE].bound
      BY <2>2 DEF Import!Copies
    <2>4. [body EXCEPT !.bound = TRUE] # Nil
      BY <2>3, Source
    <2>5. /\ copies' \in [SourceRecords -> Import!Copies \union {Nil}] /\ copies'[record] # Nil
          /\ copies'[record].bound
          /\ \A r \in SourceRecords \ {record} : copies'[r] = copies[r]
      BY <1>1, <2>1, <2>3, <2>4 DEF ImportInv, ImportTypes
    <2>6. ImportTypes'
      BY <1>1, <2>1, <2>5 DEF ImportInv, ImportTypes, Stamping
    <2>7. StampStage'
      <3>1. \A r \in imported : r # record => (Stamped(r) => Stamped(r)')
        BY <1>1, <2>1, <2>5 DEF Stamped, ImportInv, ImportTypes
      <3> QED
        BY <1>1, <2>1, <2>5, <3>1 DEF ImportInv, StampStage, Stamping
    <2>8. Import!MetaFollows'
      BY <1>1, <2>1, <2>5 DEF ImportInv, ImportTypes, Import!MetaFollows
    <2>9. CrawlStage' /\ CrawlOver'
      BY <1>1, <2>1 DEF ImportInv, CrawlStage, CrawlOver, Crawling, Stamping
    <2> QED
      BY <1>1, <2>6, <2>7, <2>8, <2>9 DEF ImportInv
  <1>3. CASE Import!BindMeta
    <2>1. /\ crawl = "stampmeta" /\ crawl' = "stamp" /\ copies' = copies
          /\ metas' = IF metas[record] = Nil THEN metas ELSE [metas EXCEPT ![record].bound = TRUE]
      BY <1>3 DEF Import!BindMeta
    <2>2. /\ metas' \in [SourceRecords -> Import!Copies \union {Nil}]
          /\ metas[record] # Nil => metas'[record] # Nil /\ metas'[record].bound
          /\ \A r \in SourceRecords \ {record} : metas'[r] = metas[r]
          /\ metas[record] = Nil => metas'[record] = Nil
      <3>1. CASE metas[record] = Nil
        BY <2>1, <3>1 DEF ImportInv, ImportTypes
      <3>2. CASE metas[record] # Nil
        <4>1. metas[record] \in Import!Copies
          BY <1>1, <3>2 DEF ImportInv, ImportTypes
        <4>2. /\ [metas[record] EXCEPT !.bound = TRUE] \in Import!Copies
              /\ [metas[record] EXCEPT !.bound = TRUE].bound
          BY <4>1 DEF Import!Copies
        <4>3. [metas[record] EXCEPT !.bound = TRUE] # Nil
          BY <4>2, Source
        <4>4. metas' = [metas EXCEPT ![record] = [metas[record] EXCEPT !.bound = TRUE]]
          BY <2>1, <3>2
        <4> QED
          BY <1>1, <3>2, <4>2, <4>3, <4>4 DEF ImportInv, ImportTypes
      <3> QED
        BY <3>1, <3>2
    <2>3. ImportTypes'
      BY <1>1, <2>1, <2>2 DEF ImportInv, ImportTypes, Stamping
    <2>4. StampStage'
      <3>1. \A r \in imported : r # record => (Stamped(r) => Stamped(r)')
        BY <1>1, <2>1, <2>2 DEF Stamped, ImportInv, ImportTypes
      <3>2. record \in imported => Stamped(record)'
        BY <1>1, <2>1, <2>2 DEF Stamped, ImportInv, ImportTypes, StampStage
      <3> QED
        BY <1>1, <2>1, <3>1, <3>2 DEF ImportInv, StampStage, Stamping
    <2>5. Import!MetaFollows'
      BY <1>1, <2>1, <2>2 DEF ImportInv, ImportTypes, Import!MetaFollows
    <2>6. CrawlStage' /\ CrawlOver'
      BY <1>1, <2>1 DEF ImportInv, CrawlStage, CrawlOver, Crawling, Stamping
    <2> QED
      BY <1>1, <2>3, <2>4, <2>5, <2>6 DEF ImportInv
  <1> QED
    BY <1>2, <1>3

\* The records are indexed; or a call raises.
LEMMA EndKeeps ==
  ASSUME ImportInv, Import!Reindex \/ Import!Ends
  PROVE  ImportInv'
  <1>1. /\ UNCHANGED <<contains, copies, metas, record, queue, visited, imported, skipped,
                       truncated, unstamped, body, torn>>
        /\ Import!Seen' = Import!Seen
    BY DEF Import!Reindex, Import!Ends, Import!source, Import!store, Import!crawl, Import!stamps,
           Import!Seen
  <1>2. CASE Import!Reindex
    <2>1. crawl = "reindex" /\ crawl' = "ended" /\ found' = Import!Here
      BY <1>2 DEF Import!Reindex
    <2>2. imported \subseteq Import!Here /\ Import!Here \subseteq SourceRecords
      BY DEF Import!Here, ImportInv, ImportTypes
    <2> QED
      BY <1>1, <2>1, <2>2
         DEF ImportInv, ImportTypes, CrawlStage, CrawlOver, StampStage, Import!MetaFollows,
             Crawling, Stamping, Stamped
  <1>3. CASE Import!Ends
    <2>1. crawl' = "idle" /\ found' = found
      BY <1>3 DEF Import!Ends, Import!store
    <2> QED
      BY <1>1, <2>1
         DEF ImportInv, ImportTypes, CrawlStage, CrawlOver, StampStage, Import!MetaFollows,
             Crawling, Stamping, Stamped
  <1> QED
    BY <1>2, <1>3

\* A client's record is stamped and indexed.
LEMMA EditKeeps ==
  ASSUME ImportInv, NEW r \in SourceRecords, Import!Edit(r)
  PROVE  ImportInv'
  <1> DEFINE b == [by |-> "client", bound |-> TRUE]
             m == [by |-> "server", bound |-> TRUE]
  <1>1. /\ UNCHANGED <<contains, crawl, record, queue, visited, imported, skipped, truncated,
                       unstamped, body>>
        /\ copies' = [copies EXCEPT ![r] = b] /\ metas' = [metas EXCEPT ![r] = m]
        /\ found' = found \union {r} /\ torn' = torn \ {r}
    BY DEF Import!Edit, Import!source, Import!crawl, Import!stamps
  <1>2. b \in Import!Copies /\ m \in Import!Copies /\ b.bound /\ m.bound
    BY DEF Import!Copies
  <1>3. b # Nil /\ m # Nil
    BY <1>2, Source
  <1> HIDE DEF b, m
  <1>4. /\ copies' \in [SourceRecords -> Import!Copies \union {Nil}] /\ copies'[r] = b
        /\ \A i \in SourceRecords \ {r} : copies'[i] = copies[i]
        /\ metas' \in [SourceRecords -> Import!Copies \union {Nil}] /\ metas'[r] = m
        /\ \A i \in SourceRecords \ {r} : metas'[i] = metas[i]
    BY <1>1, <1>2 DEF ImportInv, ImportTypes
  <1>5. Import!Seen' = Import!Seen /\ Taken' = Taken /\ Elements(queue)' = Elements(queue)
    BY <1>1 DEF Import!Seen, Taken, Elements
  <1>6. ImportTypes'
    BY <1>1, <1>3, <1>4 DEF ImportInv, ImportTypes
  <1>7. CrawlStage' /\ CrawlOver'
    BY <1>1, <1>5 DEF ImportInv, CrawlStage, CrawlOver
  <1>8. \A i \in SourceRecords : Stamped(i) => Stamped(i)'
    BY <1>2, <1>4 DEF Stamped
  <1>9. StampStage'
    BY <1>1, <1>2, <1>4, <1>8 DEF ImportInv, ImportTypes, StampStage
  <1>10. Import!MetaFollows'
    BY <1>1, <1>3, <1>4 DEF ImportInv, Import!MetaFollows
  <1> QED
    BY <1>1, <1>6, <1>7, <1>9, <1>10 DEF ImportInv

\* Every step keeps it.
LEMMA ImportInductive ==
  ASSUME ImportInv, Import!Next \/ UNCHANGED import
  PROVE  ImportInv'
  <1>1. CASE UNCHANGED import
    <2>1. UNCHANGED <<contains, copies, metas, found, crawl, record, queue, visited, imported,
                      skipped, truncated, unstamped, body, torn>>
      BY <1>1 DEF import
    <2>2. Import!Seen' = Import!Seen /\ Taken' = Taken /\ Elements(queue)' = Elements(queue)
      BY <2>1 DEF Import!Seen, Taken, Elements
    <2>3. ImportTypes'
      BY <2>1 DEF ImportInv, ImportTypes
    <2>4. CrawlStage' /\ CrawlOver'
      BY <2>1, <2>2 DEF ImportInv, CrawlStage, CrawlOver
    <2>5. StampStage' /\ Import!MetaFollows'
      BY <2>1 DEF ImportInv, StampStage, Import!MetaFollows, Stamped
    <2> QED
      BY <2>1, <2>3, <2>4, <2>5 DEF ImportInv
  <1> QED
    BY <1>1, StartKeeps, PopKeeps, FetchKeeps, WriteGraphKeeps, WriteMetaKeeps, ListKeeps,
       ReadGraphKeeps, BindKeeps, EndKeeps, EditKeeps DEF Import!Next

\* What was imported is here whole.
LEMMA ImportGives == ImportInv => Import!RecordsAdopted
  <1> SUFFICES ASSUME ImportInv PROVE Import!RecordsAdopted
    OBVIOUS
  <1>1. Import!MetaFollows
    BY DEF ImportInv
  <1>2. ASSUME crawl = "ended"
        PROVE  /\ truncated \/ Import!Seen = imported \union skipped
               /\ imported \intersect skipped = {} /\ Cardinality(imported) <= MaxRecords
               /\ \A r \in imported : copies[r] # Nil /\ metas[r] # Nil /\ Stamped(r) /\ r \in found
    BY <1>2 DEF ImportInv, ImportTypes, CrawlOver, StampStage
  <1>3. Import!ImportWhole
    BY <1>2, SameSize DEF Import!ImportWhole, Stamped
  <1> QED
    BY <1>1, <1>3 DEF Import!RecordsAdopted

-----------------------------------------------------------------------------
(* The rebase of graphs.                                                   *)

MoveCalls == {"next", "replace", "drop"}

RebaseTypes ==
  /\ placed \in [Rebase!Bases -> [Records -> Rebase!Copies \union {Nil}]]
  /\ names \in Rebase!Bases /\ written \in Nat
  /\ latest \in [Records -> Nat] /\ mem \in Rebase!Copies \union {Nil}
  /\ unmoved \subseteq Records
  /\ move \in MoveCalls \union {"idle", "done"} /\ since \in BOOLEAN
  /\ move \in {"replace", "drop"} =>
       moving \in Records /\ moving \notin unmoved /\ mem # Nil /\ mem.terms = "new"
  /\ move = "drop" => placed["new"][moving] # Nil

\* A record is under one base or the other, and under the new one in the terms of the new one.
Somewhere ==
  \A r \in Records : /\ placed["old"][r] # Nil \/ placed["new"][r] # Nil
                     /\ placed["new"][r] # Nil => placed["new"][r].terms = "new"

\* The new base has what was copied, or the last write, once writes go there.
Copied ==
  move = "drop" /\ moving \notin lost =>
    placed["new"][moving].write = mem.write \/ (names = "new" /\ placed["new"][moving].write = latest[moving])

\* What a run has still to move, and nothing else, if nobody has written since it began.
StillToMove ==
  /\ move \in MoveCalls => \A r \in unmoved : placed["old"][r] # Nil
  /\ move \in MoveCalls /\ ~since =>
         \A r \in Records : placed["old"][r] # Nil => r \in unmoved \/ (move # "next" /\ r = moving)
  /\ move = "done" /\ ~since => \A r \in Records : placed["old"][r] = Nil

RebaseInv == RebaseTypes /\ Somewhere /\ Copied /\ StillToMove /\ Rebase!NothingLost

\* A step that stores body for r under the base b.
LEMMA Placed ==
  ASSUME RebaseTypes, NEW b \in Rebase!Bases, NEW r \in Records,
         NEW copy \in Rebase!Copies \union {Nil},
         placed' = [placed EXCEPT ![b][r] = copy]
  PROVE  /\ placed' \in [Rebase!Bases -> [Records -> Rebase!Copies \union {Nil}]]
         /\ placed'[b][r] = copy
         /\ \A i \in Records : i # r => placed'[b][i] = placed[b][i]
         /\ \A c \in Rebase!Bases : c # b => placed'[c] = placed[c]
  BY DEF RebaseTypes

\* Every record is under the old base at first.
LEMMA RebaseInitially == Rebase!Init => RebaseInv
  <1> SUFFICES ASSUME Rebase!Init PROVE RebaseInv
    OBVIOUS
  <1>1. Nil \notin Rebase!Copies /\ Rebase!Bases = {"old", "new"}
    BY OperationsAssumption DEF OperationsAssumption, Rebase!RebaseAssumption, Rebase!Bases
  <1>2. [write |-> 0, terms |-> "old"] \in Rebase!Copies
    BY DEF Rebase!Copies, Rebase!Bases
  <1>3. \A r \in Records : placed["old"][r] = [write |-> 0, terms |-> "old"] /\ placed["new"][r] = Nil
    BY <1>1 DEF Rebase!Init
  <1>4. RebaseTypes
    BY <1>1, <1>2 DEF Rebase!Init, RebaseTypes, MoveCalls
  <1>5. Somewhere /\ Copied /\ StillToMove
    BY <1>1, <1>2, <1>3 DEF Rebase!Init, Somewhere, Copied, StillToMove, MoveCalls
  <1>6. Rebase!NothingLost
    BY <1>1, <1>2, <1>3 DEF Rebase!Init, Rebase!NothingLost
  <1> QED
    BY <1>4, <1>5, <1>6 DEF RebaseInv

\* Every step keeps it.
LEMMA RebaseInductive ==
  ASSUME RebaseInv, Rebase!Next \/ UNCHANGED rebase
  PROVE  RebaseInv'
  <1>0. /\ Nil \notin Rebase!Copies /\ Rebase!Bases = {"old", "new"} /\ "old" \in Rebase!Bases
        /\ "new" \in Rebase!Bases
    BY OperationsAssumption DEF OperationsAssumption, Rebase!RebaseAssumption, Rebase!Bases
  <1>1. CASE Rebase!Begin
    <2>1. UNCHANGED <<placed, names, moving, mem, written, latest, lost>> /\ move' = "next"
          /\ unmoved' = {r \in Records : placed["old"][r] # Nil} /\ since' = FALSE
      BY <1>1 DEF Rebase!Begin
    <2> QED
      BY <2>1
         DEF RebaseInv, RebaseTypes, Somewhere, Copied, StillToMove, Rebase!NothingLost, MoveCalls
  <1>2. CASE Rebase!Copy
    <2>1. PICK r \in unmoved :
               /\ moving' = r /\ unmoved' = unmoved \ {r}
               /\ mem' = Rebase!Rewritten(placed["old"][r])
      BY <1>2 DEF Rebase!Copy
    <2>2. /\ move = "next" /\ move' = "replace"
          /\ UNCHANGED <<placed, names, written, latest, since, lost>>
      BY <1>2 DEF Rebase!Copy
    <2>3. r \in Records /\ placed["old"][r] # Nil /\ placed["old"][r] \in Rebase!Copies
      BY <1>0, <2>2 DEF RebaseInv, RebaseTypes, StillToMove, MoveCalls
    <2>4. mem' \in Rebase!Copies /\ mem'.terms = "new" /\ mem' # Nil
      BY <1>0, <2>1, <2>3 DEF Rebase!Rewritten, Rebase!Copies
    <2> QED
      BY <2>1, <2>2, <2>3, <2>4
         DEF RebaseInv, RebaseTypes, Somewhere, Copied, StillToMove, Rebase!NothingLost, MoveCalls
  <1>3. CASE Rebase!Replace
    <2>1. move = "replace" /\ move' = "drop" /\ placed' = [placed EXCEPT !["new"][moving] = mem]
          /\ lost' = (IF Rebase!Stale(placed["new"][moving]) THEN lost \cup {moving} ELSE lost)
          /\ UNCHANGED <<names, unmoved, moving, mem, written, latest, since>>
      BY <1>3 DEF Rebase!Replace
    <2>2. /\ moving \in Records /\ moving \notin unmoved /\ mem \in Rebase!Copies /\ mem # Nil
          /\ mem.terms = "new"
      BY <2>1 DEF RebaseInv, RebaseTypes
    <2>3. /\ placed' \in [Rebase!Bases -> [Records -> Rebase!Copies \union {Nil}]]
          /\ placed'["new"][moving] = mem
          /\ \A i \in Records : i # moving => placed'["new"][i] = placed["new"][i]
          /\ placed'["old"] = placed["old"]
      BY <1>0, <2>1, <2>2, Placed DEF RebaseInv
    <2>4. RebaseTypes' /\ Somewhere' /\ Copied' /\ StillToMove'
      BY <2>1, <2>2, <2>3 DEF RebaseInv, RebaseTypes, Somewhere, Copied, StillToMove, MoveCalls
    <2>5. ASSUME NEW r \in Records \ lost'
          PROVE  \E b \in Rebase!Bases : placed'[b][r] # Nil /\ placed'[b][r].write = latest'[r]
      <3>1. r \notin lost
        BY <2>1, <2>5
      <3>2. PICK b \in Rebase!Bases : placed[b][r] # Nil /\ placed[b][r].write = latest[r]
        BY <3>1 DEF RebaseInv, Rebase!NothingLost
      <3>3. CASE b = "new" /\ r = moving
        <4>1. ~Rebase!Stale(placed["new"][moving])
          BY <2>1, <2>5, <3>3
        <4> QED
          BY <1>0, <2>1, <2>2, <2>3, <3>2, <3>3, <4>1 DEF Rebase!Stale
      <3>4. CASE ~(b = "new" /\ r = moving)
        BY <1>0, <2>1, <2>3, <3>2, <3>4
      <3> QED
        BY <3>3, <3>4
    <2> QED
      BY <2>4, <2>5 DEF RebaseInv, Rebase!NothingLost
  <1>4. CASE Rebase!Drop
    <2>1. move = "drop" /\ move' = "next" /\ placed' = [placed EXCEPT !["old"][moving] = Nil]
          /\ lost' = (IF Rebase!Stale(placed["old"][moving]) THEN lost \cup {moving} ELSE lost)
          /\ UNCHANGED <<names, unmoved, moving, mem, written, latest, since>>
      BY <1>4 DEF Rebase!Drop
    <2>2. /\ moving \in Records /\ moving \notin unmoved /\ mem \in Rebase!Copies /\ mem # Nil
          /\ placed["new"][moving] # Nil
      BY <2>1 DEF RebaseInv, RebaseTypes
    <2>3. /\ placed' \in [Rebase!Bases -> [Records -> Rebase!Copies \union {Nil}]]
          /\ placed'["old"][moving] = Nil
          /\ \A i \in Records : i # moving => placed'["old"][i] = placed["old"][i]
          /\ placed'["new"] = placed["new"]
      BY <1>0, <2>1, <2>2, Placed DEF RebaseInv
    <2>4. RebaseTypes' /\ Somewhere' /\ Copied' /\ StillToMove'
      BY <2>1, <2>2, <2>3 DEF RebaseInv, RebaseTypes, Somewhere, Copied, StillToMove, MoveCalls
    <2>5. ASSUME NEW r \in Records \ lost'
          PROVE  \E b \in Rebase!Bases : placed'[b][r] # Nil /\ placed'[b][r].write = latest'[r]
      <3>1. r \notin lost
        BY <2>1, <2>5
      <3>2. PICK b \in Rebase!Bases : placed[b][r] # Nil /\ placed[b][r].write = latest[r]
        BY <3>1 DEF RebaseInv, Rebase!NothingLost
      <3>3. CASE b = "old" /\ r = moving
        <4>1. ~Rebase!Stale(placed["old"][moving])
          BY <2>1, <2>5, <3>3
        <4>2. mem.write = latest[moving]
          BY <2>2, <3>2, <3>3, <4>1 DEF Rebase!Stale
        <4>3. placed["new"][moving].write = mem.write \/ placed["new"][moving].write = latest[moving]
          BY <2>1, <3>1, <3>3 DEF RebaseInv, Copied
        <4> QED
          BY <1>0, <2>1, <2>2, <2>3, <3>3, <4>2, <4>3
      <3>4. CASE ~(b = "old" /\ r = moving)
        BY <1>0, <2>1, <2>3, <3>2, <3>4
      <3> QED
        BY <3>3, <3>4
    <2> QED
      BY <2>4, <2>5 DEF RebaseInv, Rebase!NothingLost
  <1>5. CASE Rebase!Done
    <2>1. /\ move = "next" /\ unmoved = {} /\ move' = "done"
          /\ UNCHANGED <<placed, names, unmoved, moving, mem, written, latest, since, lost>>
      BY <1>5 DEF Rebase!Done
    <2> QED
      BY <2>1
         DEF RebaseInv, RebaseTypes, Somewhere, Copied, StillToMove, Rebase!NothingLost, MoveCalls
  <1>6. CASE Rebase!Ends
    <2>1. /\ move' = "idle"
          /\ UNCHANGED <<placed, names, unmoved, moving, mem, written, latest, since, lost>>
      BY <1>6 DEF Rebase!Ends
    <2> QED
      BY <2>1
         DEF RebaseInv, RebaseTypes, Somewhere, Copied, StillToMove, Rebase!NothingLost, MoveCalls
  <1>7. CASE Rebase!Adopt
    <2>1. /\ names' = "new"
          /\ UNCHANGED <<placed, move, unmoved, moving, mem, written, latest, since, lost>>
      BY <1>7 DEF Rebase!Adopt, Rebase!run
    <2> QED
      BY <1>0, <2>1
         DEF RebaseInv, RebaseTypes, Somewhere, Copied, StillToMove, Rebase!NothingLost, MoveCalls
  <1>8. ASSUME NEW r \in Records, Rebase!Write(r) PROVE RebaseInv'
    <2> DEFINE copy == [write |-> written + 1, terms |-> names]
    <2>1. /\ written' = written + 1 /\ placed' = [placed EXCEPT ![names][r] = copy]
          /\ since' = TRUE
          /\ latest' = [latest EXCEPT ![r] = written + 1]
          /\ UNCHANGED <<names, move, unmoved, moving, mem, lost>>
      BY <1>8 DEF Rebase!Write, Rebase!run
    <2>2. /\ copy \in Rebase!Copies /\ copy # Nil /\ copy.terms = names
          /\ copy.write = written + 1 /\ names \in Rebase!Bases /\ written + 1 \in Nat
      BY <1>0 DEF RebaseInv, RebaseTypes, Rebase!Copies
    <2> HIDE DEF copy
    <2>3. /\ placed' \in [Rebase!Bases -> [Records -> Rebase!Copies \union {Nil}]]
          /\ placed'[names][r] = copy
          /\ \A i \in Records : i # r => placed'[names][i] = placed[names][i]
          /\ \A c \in Rebase!Bases : c # names => placed'[c] = placed[c]
      BY <2>1, <2>2, Placed DEF RebaseInv
    <2>4. /\ latest' \in [Records -> Nat] /\ latest'[r] = written + 1
          /\ \A i \in Records \ {r} : latest'[i] = latest[i]
      BY <2>1, <2>2 DEF RebaseInv, RebaseTypes
    <2>5. \A b \in Rebase!Bases, i \in Records : placed[b][i] # Nil => placed'[b][i] # Nil
      BY <2>2, <2>3
    <2>6. \A i \in Records :
            \/ placed'["new"][i] = placed["new"][i]
            \/ i = r /\ placed'["new"][i] = copy /\ names = "new"
      BY <1>0, <2>3
    <2>7. RebaseTypes'
      BY <1>0, <2>1, <2>2, <2>3, <2>4, <2>5 DEF RebaseInv, RebaseTypes
    <2>8. Somewhere'
      BY <1>0, <2>2, <2>5, <2>6 DEF RebaseInv, Somewhere
    <2>9. Copied'
      BY <2>1, <2>2, <2>4, <2>6 DEF RebaseInv, RebaseTypes, Copied
    <2>10. StillToMove'
      <3>1. move' \in MoveCalls => \A i \in unmoved' : placed'["old"][i] # Nil
        BY <1>0, <2>1, <2>5 DEF RebaseInv, RebaseTypes, StillToMove
      <3> QED
        BY <2>1, <3>1 DEF StillToMove
    <2>11. ASSUME NEW i \in Records \ lost'
           PROVE  \E b \in Rebase!Bases : placed'[b][i] # Nil /\ placed'[b][i].write = latest'[i]
      <3>1. CASE i = r
        BY <2>2, <2>3, <2>4, <3>1
      <3>2. CASE i # r
        <4>1. PICK b \in Rebase!Bases : placed[b][i] # Nil /\ placed[b][i].write = latest[i]
          BY <2>1 DEF RebaseInv, Rebase!NothingLost
        <4> QED
          BY <2>3, <2>4, <3>2, <4>1
      <3> QED
        BY <3>1, <3>2
    <2> QED
      BY <2>7, <2>8, <2>9, <2>10, <2>11 DEF RebaseInv, Rebase!NothingLost
  <1>9. CASE UNCHANGED rebase
    BY <1>9
       DEF RebaseInv, RebaseTypes, Somewhere, Copied, StillToMove, Rebase!NothingLost, rebase
  <1> QED
    BY <1>1, <1>2, <1>3, <1>4, <1>5, <1>6, <1>7, <1>8, <1>9 DEF Rebase!Next

\* Nothing is lost, and nothing is left behind.
LEMMA RebaseGives == RebaseInv => Rebase!IdentifiersMoved
  BY DEF RebaseInv, Rebase!IdentifiersMoved, Rebase!Adopted, StillToMove, Somewhere

-----------------------------------------------------------------------------
(* The rebase of counts.                                                   *)

\* What a row counts, and what the two rows of an aggregate do.
Amount(x)    == IF x = Nil THEN 0 ELSE x
Amounts(row) == Amount(row["old"]) + Amount(row["new"])

RekeyCalls == {"raw", "select", "match", "write", "commit"}

RekeyTypes ==
  /\ raw \in [Counts!Prefixes -> Nat] /\ agg \in [Counts!Tables -> Counts!Rows]
  /\ table \in Counts!Tables
  /\ statement \in RekeyCalls \union {"idle", "done"}
  /\ selected \in Nat \union {Nil} /\ match \in Nat \union {Nil}
  /\ wrote \in [Counts!Tables -> Counts!Rows \union {Nil}]
  /\ rolled \in [Counts!Prefixes -> Nat] \union {Nil}
  /\ recorded \in Nat /\ late \in BOOLEAN /\ raced \in BOOLEAN
  /\ statement = "raw" => table = "hourly"
  /\ statement \in {"match", "write"} => selected \in Nat /\ agg[table]["old"] # Nil

\* The run is past the aggregate t.
Passed(t) ==
  \/ statement = "commit"
  \/ statement \in {"select", "match", "write"} /\ table = "daily" /\ t = "hourly"

\* What the run has written of t stands for what is there.
Rewrote(t) ==
  wrote[t] # Nil => wrote[t]["old"] = Nil /\ (~raced => Amounts(wrote[t]) = Amounts(agg[t]))

RekeyInv ==
  /\ RekeyTypes
  /\ \A t \in Counts!Tables : Rewrote(t) /\ (~late /\ Passed(t) /\ wrote[t] = Nil => agg[t]["old"] = Nil)
  /\ rolled # Nil => rolled["old"] + rolled["new"] = raw["old"] + raw["new"]
  /\ ~raced => recorded = raw["old"] + raw["new"] + Amounts(agg["hourly"]) + Amounts(agg["daily"])
  /\ Counts!CountsMoved

\* No two of the strings are one, and Nil is no count.
LEMMA Tags ==
  /\ Counts!Prefixes = {"old", "new"} /\ Counts!Tables = {"hourly", "daily"} /\ Nil \notin Nat
  /\ Nil \notin Counts!Rows
  /\ Nil \notin [Counts!Prefixes -> Nat]
  <1>1. /\ Counts!Prefixes = {"old", "new"} /\ Counts!Tables = {"hourly", "daily"}
        /\ Nil \notin Nat /\ Nil \notin Counts!Rows
    BY OperationsAssumption
       DEF OperationsAssumption, Counts!MetricsRebaseAssumption, Counts!Prefixes, Counts!Tables
  <1>2. [Counts!Prefixes -> Nat] \subseteq Counts!Rows
    BY DEF Counts!Rows
  <1> QED
    BY <1>1, <1>2

\* Sums of counts of which some are not there.
LEMMA PlusIs ==
  ASSUME NEW a \in Nat \union {Nil}, NEW b \in Nat \union {Nil}
  PROVE  Counts!Plus(a, b) \in Nat \union {Nil} /\ Amount(Counts!Plus(a, b)) = Amount(a) + Amount(b)
         /\ Amount(a) \in Nat /\ (b # Nil => Counts!Plus(a, b) # Nil)
         /\ (a # Nil => Counts!Plus(a, b) # Nil)
  BY Tags DEF Counts!Plus, Amount

\* The two rows of an aggregate count a number.
LEMMA AmountsIs ==
  ASSUME NEW r \in Counts!Rows
  PROVE  Amounts(r) \in Nat
  <1>1. r["old"] \in Nat \union {Nil} /\ r["new"] \in Nat \union {Nil}
    BY Tags DEF Counts!Rows
  <1>2. Amount(r["old"]) \in Nat /\ Amount(r["new"]) \in Nat
    BY <1>1, PlusIs
  <1> QED
    BY <1>2 DEF Amounts

\* The dashboard's total is what the rows count.
LEMMA TotalIs ==
  ASSUME raw \in [Counts!Prefixes -> Nat], agg \in [Counts!Tables -> Counts!Rows]
  PROVE  Counts!Total = raw["old"] + raw["new"] + Amounts(agg["hourly"]) + Amounts(agg["daily"])
  <1> DEFINE a == agg["hourly"]["old"]
             b == agg["hourly"]["new"]
             c == agg["daily"]["old"]
             d == agg["daily"]["new"]
  <1>1. {a, b, c, d} \subseteq Nat \union {Nil} /\ raw["old"] \in Nat /\ raw["new"] \in Nat
    BY Tags DEF Counts!Rows
  <1>2. /\ Amounts(agg["hourly"]) = Amount(a) + Amount(b)
        /\ Amounts(agg["daily"]) = Amount(c) + Amount(d)
    BY DEF Amounts
  <1>3. Counts!Total = raw["old"] + raw["new"] + Counts!Plus(0, Counts!Plus(Counts!Plus(a, b), Counts!Plus(c, d)))
    BY DEF Counts!Total
  <1> HIDE DEF a, b, c, d
  <1>4. Amount(Counts!Plus(Counts!Plus(a, b), Counts!Plus(c, d))) = Amount(a) + Amount(b) + (Amount(c) + Amount(d))
        /\ Counts!Plus(Counts!Plus(a, b), Counts!Plus(c, d)) \in Nat \union {Nil}
    <2>1. /\ Counts!Plus(a, b) \in Nat \union {Nil}
          /\ Amount(Counts!Plus(a, b)) = Amount(a) + Amount(b)
          /\ Counts!Plus(c, d) \in Nat \union {Nil}
          /\ Amount(Counts!Plus(c, d)) = Amount(c) + Amount(d)
      BY <1>1, PlusIs
    <2> QED
      BY <2>1, PlusIs
  <1>5. \A x \in Nat \union {Nil} : Counts!Plus(0, x) = Amount(x)
    <2> SUFFICES ASSUME NEW x \in Nat \union {Nil} PROVE Counts!Plus(0, x) = Amount(x)
      OBVIOUS
    <2> QED
      BY Tags DEF Counts!Plus, Amount
  <1>6. Amount(a) \in Nat /\ Amount(b) \in Nat /\ Amount(c) \in Nat /\ Amount(d) \in Nat
    BY <1>1, PlusIs
  <1>7. Counts!Total = raw["old"] + raw["new"] + (Amount(a) + Amount(b) + (Amount(c) + Amount(d)))
    BY <1>3, <1>4, <1>5
  <1> QED
    BY <1>1, <1>2, <1>6, <1>7

\* As the run and the roll-up begin.
LEMMA RekeyInitially == Counts!Init => RekeyInv
  <1> SUFFICES ASSUME Counts!Init PROVE RekeyInv
    OBVIOUS
  <1>1. raw \in [Counts!Prefixes -> Nat] /\ agg \in [Counts!Tables -> Counts!Rows]
    BY Tags DEF Counts!Init, Counts!Rows
  <1>2. recorded = Counts!Total
    BY DEF Counts!Init, Counts!Total
  <1>3. recorded = raw["old"] + raw["new"] + Amounts(agg["hourly"]) + Amounts(agg["daily"])
    BY <1>1, <1>2, TotalIs
  <1>4. \A t \in Counts!Tables : Amounts(agg[t]) \in Nat
    BY <1>1, AmountsIs
  <1>5. recorded \in Nat
    BY <1>1, <1>3, <1>4, Tags
  <1>6. /\ statement = "idle" /\ table = "hourly" /\ selected = Nil /\ match = Nil /\ rolled = Nil
        /\ wrote \in [Counts!Tables -> Counts!Rows \union {Nil}]
        /\ (\A t \in Counts!Tables : wrote[t] = Nil) /\ late \in BOOLEAN /\ raced \in BOOLEAN
    BY DEF Counts!Init, Counts!Nothing
  <1>7. RekeyTypes
    BY <1>1, <1>5, <1>6, Tags DEF RekeyTypes, RekeyCalls
  <1> QED
    BY <1>3, <1>6, <1>7 DEF RekeyInv, Passed, Rewrote, Counts!CountsMoved

\* What a run holds that has locked nothing the roll-up writes.
LEMMA NumbersFit ==
  ASSUME RekeyTypes
  PROVE  /\ \A t \in Counts!Tables, p \in Counts!Prefixes : agg[t][p] \in Nat \union {Nil} /\ Amount(agg[t][p]) \in Nat
         /\ \A t \in Counts!Tables : agg[t] \in Counts!Rows /\ Amounts(agg[t]) \in Nat
         /\ \A t \in Counts!Tables : wrote[t] # Nil =>
              wrote[t] \in Counts!Rows /\ Amounts(wrote[t]) \in Nat
         /\ raw["old"] \in Nat /\ raw["new"] \in Nat
  <1>1. \A t \in Counts!Tables, p \in Counts!Prefixes : agg[t][p] \in Nat \union {Nil}
    BY DEF RekeyTypes, Counts!Rows
  <1>2. \A r \in Counts!Rows : Amounts(r) \in Nat
    BY AmountsIs
  <1> QED
    BY <1>1, <1>2, Tags, PlusIs DEF RekeyTypes

\* Every step keeps it.
LEMMA RekeyInductive ==
  ASSUME RekeyInv, Counts!Next \/ UNCHANGED counts
  PROVE  RekeyInv'
  <1>0. /\ RekeyTypes /\ "hourly" \in Counts!Tables /\ "daily" \in Counts!Tables
        /\ "old" \in Counts!Prefixes /\ "new" \in Counts!Prefixes
    BY Tags DEF RekeyInv
  <1>12. \A t \in Counts!Tables : Amounts(agg[t])' = Amounts(agg'[t])
    BY DEF Amounts, Amount
  <1>1. CASE Counts!Begin
    <2>1. /\ statement' = "raw" /\ table' = "hourly" /\ wrote' = Counts!Nothing /\ late' = FALSE
          /\ selected' = Nil /\ match' = Nil
          /\ UNCHANGED <<raw, agg, rolled, recorded, raced>>
      BY <1>1 DEF Counts!Begin, Counts!tables
    <2>2. /\ wrote' \in [Counts!Tables -> Counts!Rows \union {Nil}]
          /\ \A t \in Counts!Tables : wrote'[t] = Nil
      BY <2>1 DEF Counts!Nothing
    <2> QED
      BY <1>0, <2>1, <2>2
         DEF RekeyInv, RekeyTypes, RekeyCalls, Rewrote, Passed, Counts!CountsMoved, Amounts,
             Amount
  <1>2. CASE Counts!Raw
    <2>1. /\ statement = "raw" /\ statement' = "select"
          /\ UNCHANGED <<raw, agg, table, selected, match, wrote, rolled, recorded, late, raced>>
      BY <1>2 DEF Counts!Raw, Counts!tables
    <2>2. table = "hourly"
      BY <1>0, <2>1 DEF RekeyTypes
    <2> QED
      BY <1>0, <2>1, <2>2
         DEF RekeyInv, RekeyTypes, RekeyCalls, Rewrote, Passed, Counts!CountsMoved, Amounts,
             Amount
  <1>3. CASE Counts!Select
    <2>1. /\ statement = "select" /\ selected' = agg[table]["old"]
          /\ UNCHANGED <<raw, agg, match, wrote, rolled, recorded, late, raced>>
          /\ IF agg[table]["old"] = Nil THEN statement' = Counts!After /\ table' = "daily"
                                        ELSE statement' = "match" /\ table' = table
      BY <1>3 DEF Counts!Select, Counts!tables
    <2>2. selected' \in Nat \union {Nil} /\ table' \in Counts!Tables /\ statement' \in {"select", "commit", "match"}
          /\ (statement' = "match" => agg[table']["old"] = selected' /\ selected' # Nil)
      BY <1>0, <2>1, NumbersFit DEF RekeyTypes, Counts!After
    <2>3. RekeyTypes'
      BY <1>0, <2>1, <2>2 DEF RekeyTypes, RekeyCalls
    <2>4. \A t \in Counts!Tables : Passed(t)' => Passed(t) \/ (t = table /\ agg[t]["old"] = Nil)
      BY <1>0, <2>1, Tags DEF Passed, Counts!After, RekeyTypes
    <2>5. \A t \in Counts!Tables : Rewrote(t)' /\ (~late' /\ Passed(t)' /\ wrote'[t] = Nil => agg'[t]["old"] = Nil)
      BY <2>1, <2>4 DEF RekeyInv, Rewrote, Amounts, Amount
    <2> QED
      BY <1>0, <2>1, <2>2, <2>3, <2>5 DEF RekeyInv, Counts!CountsMoved, Amounts, Amount
  <1>4. CASE Counts!Match
    <2>1. /\ statement = "match" /\ statement' = "write" /\ match' = agg[table]["new"]
          /\ UNCHANGED <<raw, agg, table, selected, wrote, rolled, recorded, late, raced>>
      BY <1>4 DEF Counts!Match, Counts!tables
    <2>2. match' \in Nat \union {Nil}
      BY <1>0, <2>1, NumbersFit DEF RekeyTypes
    <2> QED
      BY <1>0, <2>1, <2>2
         DEF RekeyInv, RekeyTypes, RekeyCalls, Rewrote, Passed, Counts!CountsMoved, Amounts,
             Amount
  <1>5. CASE Counts!Rename \/ Counts!Merge
    <2> DEFINE new == IF match = Nil THEN agg[table]["old"] ELSE match + selected
               row == [old |-> Nil, new |-> new]
    <2>1. /\ statement = "write" /\ wrote' = [wrote EXCEPT ![table] = row]
          /\ statement' = Counts!After /\ table' = "daily"
          /\ UNCHANGED <<raw, agg, selected, match, rolled, recorded, late>>
          /\ \/ match = Nil /\ agg[table]["new"] = Nil /\ raced' = raced
             \/ match # Nil /\ raced' = (raced \/ agg[table] # [old |-> selected, new |-> match])
      BY <1>5 DEF Counts!Rename, Counts!Merge, Counts!tables
    <2>2. /\ table \in Counts!Tables /\ selected \in Nat /\ match \in Nat \union {Nil}
          /\ agg[table] \in Counts!Rows /\ agg[table]["old"] \in Nat
      BY <1>0, <2>1, NumbersFit DEF RekeyTypes
    <2>3. new \in Nat
      BY <2>2
    <2>4. /\ row \in Counts!Rows /\ row["old"] = Nil /\ row["new"] = new /\ row # Nil
      BY <2>3, Tags DEF Counts!Rows
    <2>5. Amounts(row) = new
      BY <2>3, <2>4, Tags DEF Amounts, Amount
    <2>6. ~raced' => ~raced /\ Amounts(agg[table]) = new
      <3>1. CASE match = Nil
        BY <2>1, <2>2, <3>1, Tags DEF Amounts, Amount
      <3>2. CASE match # Nil
        <4>1. ~raced' => ~raced /\ agg[table]["old"] = selected /\ agg[table]["new"] = match
          <5>1. ~raced' => ~raced /\ agg[table] = [old |-> selected, new |-> match]
            BY <2>1, <3>2, Zenon
          <5> QED
            BY <5>1
        <4>2. Amount(selected) = selected /\ Amount(match) = match /\ new = match + selected
          BY <2>2, <3>2, Tags DEF Amount
        <4>3. match \in Nat /\ selected \in Nat
          BY <2>2, <3>2
        <4> QED
          BY <4>1, <4>2, <4>3 DEF Amounts
      <3> QED
        BY <3>1, <3>2
    <2> HIDE DEF row, new
    <2>7. /\ wrote' \in [Counts!Tables -> Counts!Rows \union {Nil}] /\ wrote'[table] = row
          /\ \A t \in Counts!Tables \ {table} : wrote'[t] = wrote[t]
      BY <1>0, <2>1, <2>2, <2>4 DEF RekeyTypes
    <2>8. statement' \in {"select", "commit"} /\ raced' \in BOOLEAN
      BY <1>0, <2>1 DEF Counts!After, RekeyTypes
    <2>9. RekeyTypes'
      BY <1>0, <2>1, <2>7, <2>8 DEF RekeyTypes, RekeyCalls
    <2>10. \A t \in Counts!Tables : Passed(t)' => Passed(t) \/ t = table
      BY <1>0, <2>1, Tags DEF Passed, Counts!After, RekeyTypes
    <2>11. ASSUME NEW t \in Counts!Tables
           PROVE  Rewrote(t)' /\ (~late' /\ Passed(t)' /\ wrote'[t] = Nil => agg'[t]["old"] = Nil)
      <3>1. CASE t = table
        BY <2>1, <2>4, <2>5, <2>6, <2>7, <3>1 DEF Rewrote
      <3>2. CASE t # table
        BY <2>1, <2>6, <2>7, <2>10, <3>2 DEF RekeyInv, Rewrote
      <3> QED
        BY <3>1, <3>2
    <2> QED
      BY <1>0, <2>1, <2>6, <2>8, <2>9, <2>11 DEF RekeyInv, Counts!CountsMoved
  <1>6. CASE Counts!Commit
    <2>1. /\ statement = "commit" /\ statement' = "done" /\ wrote' = Counts!Nothing
          /\ raw' = [old |-> 0, new |-> raw["old"] + raw["new"]]
          /\ agg' = [t \in Counts!Tables |-> IF wrote[t] = Nil THEN agg[t] ELSE wrote[t]]
          /\ UNCHANGED <<table, selected, match, rolled, recorded, late, raced>>
      BY <1>6 DEF Counts!Commit
    <2>2. /\ wrote' \in [Counts!Tables -> Counts!Rows \union {Nil}]
          /\ \A t \in Counts!Tables : wrote'[t] = Nil
      BY <2>1 DEF Counts!Nothing
    <2>3. /\ raw' \in [Counts!Prefixes -> Nat] /\ raw'["old"] = 0
          /\ raw'["new"] = raw["old"] + raw["new"]
      BY <1>0, <2>1, NumbersFit, Tags
    <2>4. \A t \in Counts!Tables : agg'[t] = IF wrote[t] = Nil THEN agg[t] ELSE wrote[t]
      BY <2>1
    <2>5. agg' \in [Counts!Tables -> Counts!Rows]
      BY <1>0, <2>1, NumbersFit
    <2>6. \A t \in Counts!Tables : /\ ~raced => Amounts(agg'[t]) = Amounts(agg[t])
                                   /\ ~late => agg'[t]["old"] = Nil
      BY <2>1, <2>4 DEF RekeyInv, Rewrote, Passed
    <2>7. RekeyTypes'
      BY <1>0, <2>1, <2>2, <2>3, <2>5 DEF RekeyTypes, RekeyCalls
    <2>8. ~raced =>
            recorded = raw["old"] + raw["new"] + Amounts(agg'["hourly"]) + Amounts(agg'["daily"])
      BY <1>0, <2>6 DEF RekeyInv
    <2>10. (~raced => recorded = raw["old"] + raw["new"] + Amounts(agg["hourly"]) + Amounts(agg["daily"]))'
      BY <1>0, <2>1, <2>3, <2>8, <1>12, NumbersFit
    <2>11. (rolled # Nil => rolled["old"] + rolled["new"] = raw["old"] + raw["new"])'
      BY <1>0, <2>1, <2>3, NumbersFit DEF RekeyInv
    <2>12. Counts!CountsMoved'
      BY <2>1, <2>3, <2>6 DEF Counts!CountsMoved
    <2>13. \A t \in Counts!Tables : Rewrote(t)' /\ ~Passed(t)'
      BY <2>1, <2>2 DEF Rewrote, Passed
    <2> QED
      BY <2>7, <2>10, <2>11, <2>12, <2>13 DEF RekeyInv
  <1>7. CASE Counts!Collides \/ Counts!Fails
    <2>1. /\ statement' = "idle" /\ wrote' = Counts!Nothing
          /\ UNCHANGED <<raw, agg, table, selected, match, rolled, recorded, late, raced>>
      BY <1>7 DEF Counts!Collides, Counts!Fails, Counts!RolledBack, Counts!tables
    <2>2. /\ wrote' \in [Counts!Tables -> Counts!Rows \union {Nil}]
          /\ \A t \in Counts!Tables : wrote'[t] = Nil
      BY <2>1 DEF Counts!Nothing
    <2> QED
      BY <1>0, <2>1, <2>2
         DEF RekeyInv, RekeyTypes, RekeyCalls, Rewrote, Passed, Counts!CountsMoved, Amounts,
             Amount
  <1>8. CASE Counts!Request
    <2>1. /\ rolled = Nil /\ recorded' = recorded + 1
          /\ raw' = [raw EXCEPT !["new"] = raw["new"] + 1]
          /\ UNCHANGED <<agg, statement, table, selected, match, wrote, rolled, late, raced>>
      BY <1>8 DEF Counts!Request, Counts!run
    <2>2. /\ raw' \in [Counts!Prefixes -> Nat] /\ raw'["old"] = raw["old"]
          /\ raw'["new"] = raw["new"] + 1 /\ recorded' \in Nat
      BY <1>0, <2>1, NumbersFit, Tags DEF RekeyTypes
    <2>3. RekeyTypes'
      BY <1>0, <2>1, <2>2 DEF RekeyTypes
    <2>4. (~raced => recorded = raw["old"] + raw["new"] + Amounts(agg["hourly"]) + Amounts(agg["daily"]))'
      <3>1. /\ Amounts(agg["hourly"])' = Amounts(agg["hourly"])
            /\ Amounts(agg["daily"])' = Amounts(agg["daily"])
        BY <2>1 DEF Amounts, Amount
      <3> QED
        BY <1>0, <2>1, <2>2, <3>1, NumbersFit DEF RekeyInv
    <2> QED
      BY <1>0, <2>1, <2>2, <2>3, <2>4
         DEF RekeyInv, Rewrote, Passed, Counts!CountsMoved, Amounts, Amount
  <1>9. CASE Counts!RollReads
    <2>1. /\ rolled' = raw
          /\ UNCHANGED <<raw, agg, statement, table, selected, match, wrote, recorded, late,
                         raced>>
      BY <1>9 DEF Counts!RollReads, Counts!tables, Counts!run
    <2> QED
      BY <1>0, <2>1 DEF RekeyInv, RekeyTypes, Rewrote, Passed, Counts!CountsMoved, Amounts, Amount
  <1>10. CASE Counts!RollCommits
    <2> DEFINE sums == [p \in Counts!Prefixes |->
                          IF rolled[p] = 0 THEN agg["hourly"][p]
                                           ELSE Counts!Plus(agg["hourly"][p], rolled[p])]
    <2>1. /\ rolled # Nil /\ wrote["hourly"] = Nil /\ agg' = [agg EXCEPT !["hourly"] = sums]
          /\ raw' = [p \in Counts!Prefixes |-> 0] /\ rolled' = Nil
          /\ late' = (late \/ rolled["old"] > 0)
          /\ UNCHANGED <<statement, table, selected, match, wrote, recorded, raced>>
      BY <1>10 DEF Counts!RollCommits, Counts!run
    <2>2. rolled["old"] \in Nat /\ rolled["new"] \in Nat
      BY <1>0, <2>1 DEF RekeyTypes
    <2>3. ASSUME NEW p \in Counts!Prefixes
          PROVE  /\ sums[p] \in Nat \union {Nil}
                 /\ Amount(sums[p]) = Amount(agg["hourly"][p]) + rolled[p]
                 /\ (agg["hourly"][p] # Nil => sums[p] # Nil)
                 /\ (rolled[p] = 0 => sums[p] = agg["hourly"][p])
      <3>1. /\ rolled[p] \in Nat /\ agg["hourly"][p] \in Nat \union {Nil}
            /\ Amount(agg["hourly"][p]) \in Nat
        BY <1>0, <2>2, <2>3, NumbersFit, Tags
      <3>2. Amount(rolled[p]) = rolled[p]
        BY <3>1, Tags DEF Amount
      <3>3. /\ Counts!Plus(agg["hourly"][p], rolled[p]) \in Nat \union {Nil}
            /\ Amount(Counts!Plus(agg["hourly"][p], rolled[p])) = Amount(agg["hourly"][p]) + rolled[p]
            /\ (agg["hourly"][p] # Nil => Counts!Plus(agg["hourly"][p], rolled[p]) # Nil)
        BY <3>1, <3>2, PlusIs
      <3> QED
        BY <3>1, <3>3
    <2>4. sums \in Counts!Rows
      BY <2>3 DEF Counts!Rows
    <2>5. Amounts(sums) = Amounts(agg["hourly"]) + rolled["old"] + rolled["new"]
      <3>1. /\ Amount(sums["old"]) = Amount(agg["hourly"]["old"]) + rolled["old"]
            /\ Amount(sums["new"]) = Amount(agg["hourly"]["new"]) + rolled["new"]
        BY <1>0, <2>3
      <3>2. Amount(agg["hourly"]["old"]) \in Nat /\ Amount(agg["hourly"]["new"]) \in Nat
        BY <1>0, NumbersFit
      <3> HIDE DEF sums
      <3> QED
        BY <2>2, <3>1, <3>2 DEF Amounts
    <2>6. /\ (agg["hourly"]["old"] # Nil => sums["old"] # Nil)
          /\ (rolled["old"] = 0 => sums["old"] = agg["hourly"]["old"])
      BY <1>0, <2>3
    <2> HIDE DEF sums
    <2>7. /\ agg' \in [Counts!Tables -> Counts!Rows] /\ agg'["hourly"] = sums
          /\ agg'["daily"] = agg["daily"]
      BY <1>0, <2>1, <2>4, Tags DEF RekeyTypes
    <2>8. raw' \in [Counts!Prefixes -> Nat] /\ raw'["old"] = 0 /\ raw'["new"] = 0
      BY <1>0, <2>1
    <2>9. RekeyTypes'
      <3>1. statement' \in {"match", "write"} => selected' \in Nat /\ agg'[table']["old"] # Nil
        BY <1>0, <2>1, <2>6, <2>7, Tags DEF RekeyTypes
      <3>2. late' \in BOOLEAN
        BY <1>0, <2>1 DEF RekeyTypes
      <3> QED
        BY <1>0, <2>1, <2>7, <2>8, <3>1, <3>2 DEF RekeyTypes
    <2>11. ~late' => ~late /\ rolled["old"] = 0
      <3>1. ~late' => ~late /\ ~(rolled["old"] > 0)
        BY <2>1, Zenon
      <3> QED
        BY <2>2, <3>1
    <2>12. ASSUME NEW t \in Counts!Tables
           PROVE  Rewrote(t)' /\ (~late' /\ Passed(t)' /\ wrote'[t] = Nil => agg'[t]["old"] = Nil)
      <3>1. CASE t = "hourly"
        BY <2>1, <2>6, <2>7, <2>11, <3>1 DEF RekeyInv, Rewrote, Passed
      <3>2. CASE t = "daily"
        <4>1. /\ wrote'[t] = wrote[t] /\ agg'[t] = agg[t] /\ raced' = raced
              /\ (Passed(t)' => Passed(t))
          BY <2>1, <2>7, <3>2 DEF Passed
        <4>2. Rewrote(t)'
          BY <4>1 DEF RekeyInv, Rewrote, Amounts, Amount
        <4> QED
          BY <2>11, <4>1, <4>2 DEF RekeyInv
      <3> QED
        BY <3>1, <3>2, Tags
    <2>13. (~raced => recorded = raw["old"] + raw["new"] + Amounts(agg["hourly"]) + Amounts(agg["daily"]))'
      <3>1. rolled["old"] + rolled["new"] = raw["old"] + raw["new"]
        BY <2>1 DEF RekeyInv
      <3>2. ~raced =>
              recorded = raw["old"] + raw["new"] + Amounts(agg["hourly"]) + Amounts(agg["daily"])
        BY DEF RekeyInv
      <3>3. /\ Amounts(agg["hourly"]) \in Nat /\ Amounts(agg["daily"]) \in Nat
            /\ raw["old"] \in Nat /\ raw["new"] \in Nat
        BY <1>0, NumbersFit
      <3>4. /\ Amounts(agg["hourly"])' = Amounts(sums)
            /\ Amounts(agg["daily"])' = Amounts(agg["daily"])
        BY <1>0, <2>7, <1>12
      <3>5. ~raced => recorded = Amounts(sums) + Amounts(agg["daily"])
        BY <2>2, <2>5, <3>1, <3>2, <3>3
      <3>6. Amounts(sums) \in Nat
        BY <2>2, <2>5, <3>3
      <3> QED
        BY <2>1, <2>8, <3>3, <3>4, <3>5, <3>6
    <2>14. Counts!CountsMoved'
      <3>1. ASSUME statement' = "done", ~late'
            PROVE  raw'["old"] = 0 /\ \A t \in Counts!Tables : agg'[t]["old"] = Nil
        <4>1. \A t \in Counts!Tables : agg[t]["old"] = Nil
          BY <2>1, <2>11, <3>1 DEF RekeyInv, Counts!CountsMoved
        <4> QED
          BY <1>0, <2>6, <2>7, <2>8, <2>11, <3>1, <4>1, Tags
      <3> QED
        BY <3>1 DEF Counts!CountsMoved
    <2>15. (rolled # Nil => rolled["old"] + rolled["new"] = raw["old"] + raw["new"])'
      BY <2>1
    <2> QED
      BY <2>9, <2>12, <2>13, <2>14, <2>15 DEF RekeyInv
  <1>11. CASE UNCHANGED counts
    BY <1>0, <1>11
       DEF RekeyInv, RekeyTypes, Rewrote, Passed, Counts!CountsMoved, Amounts, Amount, counts
  <1> QED
    BY <1>1, <1>2, <1>3, <1>4, <1>5, <1>6, <1>7, <1>8, <1>9, <1>10, <1>11 DEF Counts!Next

\* Counts are kept, and none is left under the old prefix.
LEMMA RekeyGives == RekeyInv => Counts!CountsRekeyed
  <1> SUFFICES ASSUME RekeyInv PROVE Counts!CountsRekeyed
    OBVIOUS
  <1>1. Counts!Total = raw["old"] + raw["new"] + Amounts(agg["hourly"]) + Amounts(agg["daily"])
    BY TotalIs DEF RekeyInv, RekeyTypes
  <1> QED
    BY <1>1 DEF RekeyInv, Counts!CountsRekeyed, Counts!CountsKept

-----------------------------------------------------------------------------
(* The composition.  A behaviour is of jobs or of one command, whose steps  *)
(* leave the others at rest.                                                *)

\* Every step is one of each part, or leaves that part as it is.
LEMMA EachPart ==
  ASSUME OperationsNext \/ UNCHANGED OperationsVars
  PROVE  /\ Next \/ UNCHANGED vars
         /\ Redirects_!Next \/ UNCHANGED redirects
         /\ Import!Next \/ UNCHANGED import
         /\ Rebase!Next \/ UNCHANGED rebase
         /\ Counts!Next \/ UNCHANGED counts
  <1>1. CASE UNCHANGED OperationsVars
    BY <1>1 DEF OperationsVars, adoption
  <1>2. CASE Next /\ UNCHANGED <<part, adoption>>
    BY <1>2 DEF adoption
  <1>3. CASE AdoptionNext /\ UNCHANGED <<part, vars>>
    <2>1. CASE adopting = "redirects"
      <3>1. UNCHANGED <<import, rebase, counts>>
        BY <1>3, <2>1 DEF AdoptionNext, Points, Imports, Rebases, Rekeys
      <3>2. Redirects_!Next
        BY <1>3, <2>1 DEF AdoptionNext, Points, Imports, Rebases, Rekeys, Redirects_!Next
      <3> QED
        BY <1>3, <3>1, <3>2
    <2>2. CASE adopting = "import"
      <3>1. UNCHANGED <<redirects, rebase, counts>>
        BY <1>3, <2>2 DEF AdoptionNext, Points, Imports, Rebases, Rekeys
      <3>2. Import!Next
        BY <1>3, <2>2 DEF AdoptionNext, Points, Imports, Rebases, Rekeys, Import!Next
      <3> QED
        BY <1>3, <3>1, <3>2
    <2>3. CASE adopting = "rebase"
      <3>1. UNCHANGED <<redirects, import, counts>>
        BY <1>3, <2>3 DEF AdoptionNext, Points, Imports, Rebases, Rekeys
      <3>2. Rebase!Next
        BY <1>3, <2>3 DEF AdoptionNext, Points, Imports, Rebases, Rekeys, Rebase!Next
      <3> QED
        BY <1>3, <3>1, <3>2
    <2>4. CASE adopting = "counts"
      <3>1. UNCHANGED <<redirects, import, rebase>>
        BY <1>3, <2>4 DEF AdoptionNext, Points, Imports, Rebases, Rekeys
      <3>2. Counts!Next
        BY <1>3, <2>4 DEF AdoptionNext, Points, Imports, Rebases, Rekeys, Counts!Next
      <3> QED
        BY <1>3, <3>1, <3>2
    <2>5. adopting \in {"redirects", "import", "rebase", "counts"}
      BY <1>3 DEF AdoptionNext, Points, Imports, Rebases, Rekeys
    <2> QED
      BY <2>1, <2>2, <2>3, <2>4, <2>5
  <1> QED
    BY <1>1, <1>2, <1>3 DEF OperationsNext

\* A job is asked for, overlaps and is cut short in the composition as by itself: what is proved
\* of BackupRestore holds beside the commands.
THEOREM JobsAsByThemselves ==
  OperationsSpec => /\ []FreezeMatches /\ []DirectoriesOwned
                    /\ DumpsConsistent /\ RestoreAllOrNothing
  <1>1. OperationsInit => Init
    BY DEF OperationsInit
  <1>2. [OperationsNext]_OperationsVars => [Next]_vars
    BY EachPart
  <1>3. OperationsSpec => Spec
    BY <1>1, <1>2, PTL DEF OperationsSpec, Spec
  <1> QED
    BY <1>3, FreezeAlwaysMatches, DirectoriesAlwaysOwned, DumpsAlwaysConsistent,
       RestoresAllOrNothing

\* What holds of the commands.
AdoptionInv == RedirectInv /\ ImportInv /\ RebaseInv /\ RekeyInv

\* It holds before any of them is run.
LEMMA AdoptionInitially == OperationsInit => AdoptionInv
  BY RedirectInitially, ImportInitially, RebaseInitially, RekeyInitially
     DEF OperationsInit, AdoptionInit, AdoptionInv

\* Every step keeps it.
LEMMA AdoptionInductive == AdoptionInv /\ [OperationsNext]_OperationsVars => AdoptionInv'
  <1> SUFFICES ASSUME AdoptionInv, [OperationsNext]_OperationsVars PROVE AdoptionInv'
    OBVIOUS
  <1>1. OperationsNext \/ UNCHANGED OperationsVars
    OBVIOUS
  <1>2. RedirectInv /\ ImportInv /\ RebaseInv /\ RekeyInv
    BY DEF AdoptionInv
  <1>3. RedirectInv'
    BY <1>1, <1>2, EachPart, RedirectInductive
  <1>4. ImportInv'
    BY <1>1, <1>2, EachPart, ImportInductive
  <1>5. RebaseInv'
    BY <1>1, <1>2, EachPart, RebaseInductive
  <1>6. RekeyInv'
    BY <1>1, <1>2, EachPart, RekeyInductive
  <1> QED
    BY <1>3, <1>4, <1>5, <1>6 DEF AdoptionInv

\* A redirect that a run reported, with no other run under way, is published, until another run
\* starts the branch anew (pid/github.py); a record that was imported is here whole, stamped
\* and indexed once a run has ended by itself (import_fdp.py, prof_backfill.py); and a rebase
\* loses no record and no count but to what overlapped it, and leaves nothing behind
\* (pid/rebase.py, metrics/rebase.py).
THEOREM IdentifiersAlwaysKept == OperationsSpec => []IdentifiersKept
  <1>1. AdoptionInv => IdentifiersKept
    BY RedirectGives, ImportGives, RebaseGives, RekeyGives DEF AdoptionInv, IdentifiersKept
  <1> QED
    BY <1>1, AdoptionInitially, AdoptionInductive, PTL DEF OperationsSpec

=============================================================================

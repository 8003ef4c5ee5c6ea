------------------------- MODULE HostUpdater_proofs -------------------------
(***************************************************************************)
(* Any number of agents, administrators, releases, requests and faults:    *)
(* Shape is an inductive invariant of HostUpdater that gives type          *)
(* correctness and ClaimedOnce; IInv adds what is true of the stack while  *)
(* no two agents have requests at the same time, and gives OutcomeTrue     *)
(* and OnlyEligibleReleases.                                               *)
(***************************************************************************)
EXTENDS HostUpdater, TLAPS

-----------------------------------------------------------------------------
(* Shapes: what holds whoever shares the stack.                            *)

\* From its reading of .env to the restore, an agent knows a tag to go back to.
Restorable ==
  \A a \in Agents : pc[a] \in {"apply", "recreate", "wait", "decide", "restore"} =>
    previous[a] \in Versions

\* An agent that reports has an outcome.
Reported == \A a \in Agents : pc[a] = "report" => outcome[a] \in Final

\* No request an agent works on is open to another.
ClaimsHeld == \A a \in Agents : Working(a) => rows[job[a]].status # "pending"

Claims == Restorable /\ Reported /\ ClaimsHeld /\ ClaimedOnce
Shape == TypeOK /\ Claims

\* A step adds rows and moves statuses on, and touches nothing else of the table.
SameRequests ==
  \A i \in DOMAIN rows :
    /\ i \in DOMAIN rows'
    /\ rows'[i].component = rows[i].component /\ rows'[i].target = rows[i].target
    /\ rows[i].status # "pending" => rows'[i].status # "pending"

\* Rows and jobs have their types; a transition moves one status.
LEMMA RowTypes ==
  ASSUME TypeOK, NEW i \in DOMAIN rows
  PROVE  rows[i] \in Row
BY DEF TypeOK, TableOK

LEMMA TransitionShape ==
  ASSUME TypeOK, NEW i \in DOMAIN rows, NEW from, NEW to \in Status \ {"pending"},
         Transition(i, from, to)
  PROVE  rows' \in Seq(Row) /\ SameRequests /\ rows'[i].status = to
<1>1. rows[i] \in Row
  BY RowTypes
<1>2. [rows[i] EXCEPT !.status = to] \in Row
  BY <1>1 DEF Row
<1>3. rows' = [rows EXCEPT ![i] = [rows[i] EXCEPT !.status = to]]
  BY DEF Transition
<1>4. rows' \in Seq(Row) /\ DOMAIN rows' = DOMAIN rows
  BY <1>2, <1>3 DEF TypeOK, TableOK
<1>5. \A j \in DOMAIN rows : rows'[j] = IF j = i THEN [rows[i] EXCEPT !.status = to] ELSE rows[j]
  BY <1>3
<1> QED
  BY <1>1, <1>4, <1>5 DEF SameRequests, Row

LEMMA Same == ASSUME TypeOK, rows' = rows PROVE SameRequests
BY RowTypes DEF SameRequests, TypeOK, TableOK

LEMMA JobTypes ==
  ASSUME TypeOK, NEW a \in Agents, pc[a] # "idle"
  PROVE  /\ job[a] \in DOMAIN rows /\ job[a] # None
         /\ Part(a) \in Components /\ Target(a) \in Versions
<1>1. job[a] # None /\ job[a] \in DOMAIN rows
  BY DEF TypeOK, JobsOK
<1>2. rows[job[a]] \in Row
  BY <1>1, RowTypes
<1> QED
  BY <1>1, <1>2 DEF Part, Target, Row

\* An agent at work goes to another step, and no row changes.
LEMMA AgentMoves ==
  ASSUME Shape, NEW a \in Agents, Working(a), NEW l \in Locations \ {"idle", "polled"},
         Goto(a, l), job' = job, rows' = rows
  PROVE  JobsOK' /\ ClaimsHeld' /\ ClaimedOnce' /\ pc' \in [Agents -> Locations]
<1>1. pc' = [pc EXCEPT ![a] = l] /\ pc \in [Agents -> Locations]
  BY DEF Goto, Shape, TypeOK, AgentsOK
<1>2. /\ pc' \in [Agents -> Locations] /\ pc'[a] = l
      /\ \A b \in Agents : b # a => pc'[b] = pc[b]
  BY <1>1
<1>3. \A b \in Agents : (pc'[b] = "idle") = (pc[b] = "idle")
  BY <1>2 DEF Working
<1>4. \A b \in Agents : Working(b)' => Working(b)
  BY <1>2 DEF Working
<1>5. JobsOK'
  BY <1>3 DEF Shape, TypeOK, JobsOK
<1>6. ClaimsHeld' /\ ClaimedOnce'
  BY <1>4 DEF Shape, Claims, ClaimsHeld, ClaimedOnce
<1> QED
  BY <1>2, <1>5, <1>6

\* An agent forgets its request; rows may be reported or claimed.
LEMMA AgentForgets ==
  ASSUME Shape, NEW a \in Agents, Forget(a), SameRequests
  PROVE  AgentsOK' /\ JobsOK' /\ Claims'
<1>1. pc' = [pc EXCEPT ![a] = "idle"] /\ job' = [job EXCEPT ![a] = None]
  BY DEF Goto, Forget
<1>2. /\ pc \in [Agents -> Locations] /\ job \in [Agents -> Option(Nat)]
  BY DEF Shape, TypeOK, AgentsOK, JobsOK
<1>3. /\ pc'[a] = "idle" /\ job'[a] = None
      /\ \A b \in Agents : b # a => pc'[b] = pc[b] /\ job'[b] = job[b]
  BY <1>1, <1>2
<1>4. /\ pc' \in [Agents -> Locations] /\ job' \in [Agents -> Option(Nat)]
  BY <1>1, <1>2 DEF Locations, Option
<1>5. AgentsOK'
  BY <1>4 DEF Shape, TypeOK, AgentsOK, Forget, Option
<1>6. JobsOK'
  BY <1>3, <1>4 DEF Shape, TypeOK, JobsOK, SameRequests
<1>7. Restorable' /\ Reported'
  BY <1>3 DEF Shape, Claims, TypeOK, AgentsOK, Restorable, Reported, Forget
<1>8. \A b \in Agents : Working(b)' => Working(b) /\ job'[b] = job[b] /\ job[b] \in DOMAIN rows
  BY <1>3 DEF Working, Shape, TypeOK, JobsOK
<1>9. ClaimsHeld' /\ ClaimedOnce'
  BY <1>8 DEF Shape, Claims, ClaimsHeld, ClaimedOnce, SameRequests
<1> QED
  BY <1>5, <1>6, <1>7, <1>9 DEF Claims

\* A step of the others: the agents' variables stay, no open request is touched.
LEMMA OthersMove ==
  ASSUME Shape, UNCHANGED agent, SameRequests
  PROVE  AgentsOK' /\ JobsOK' /\ Claims'
<1>1. AgentsOK' /\ JobsOK'
  BY DEF Shape, TypeOK, AgentsOK, JobsOK, agent, SameRequests
<1>2. \A b \in Agents : Working(b)' => Working(b) /\ job'[b] = job[b] /\ job[b] \in DOMAIN rows
  BY DEF Working, Shape, TypeOK, JobsOK, agent
<1>3. Claims'
  BY <1>2 DEF Shape, Claims, ClaimsHeld, ClaimedOnce, SameRequests, Restorable, Reported, agent
<1> QED
  BY <1>1, <1>3

\* What is unchanged keeps its types.
LEMMA TableStays == ASSUME TableOK, UNCHANGED table PROVE TableOK'
BY DEF TableOK, table
LEMMA StackStays == ASSUME StackOK, UNCHANGED stack PROVE StackOK'
BY DEF StackOK, stack

-----------------------------------------------------------------------------
(* Shape, action by action.                                                *)

LEMMA PollShape ==
  ASSUME Shape, NEW a \in Agents, Poll(a) PROVE Shape'
<1>1. TableOK' /\ StackOK' /\ (shared \in BOOLEAN /\ faults \in Nat)'
  BY DEF Poll, Shape, TypeOK, TableOK, StackOK, stack
<1>2. CASE UNCHANGED <<pc, job, told>>
  <2>1. UNCHANGED agent /\ SameRequests
    BY <1>2, Same DEF Poll, agent, Shape
  <2> QED
    BY <1>1, <2>1, OthersMove DEF Shape, TypeOK
<1>3. ASSUME NEW i \in Oldest, Goto(a, "polled"), job' = [job EXCEPT ![a] = i],
             told' = [told EXCEPT ![a] = image["server"]]
      PROVE  Shape'
  <2>1. pc \in [Agents -> Locations] /\ job \in [Agents -> Option(Nat)]
      /\ told \in [Agents -> Versions]
    BY DEF Shape, TypeOK, AgentsOK, JobsOK
  <2>2. i \in DOMAIN rows /\ i \in Nat /\ i # None
    BY UpdaterAssumption DEF Oldest, Pending, Shape, TypeOK, TableOK
  <2>3. pc' \in [Agents -> Locations] /\ job' \in [Agents -> Option(Nat)]
      /\ told' \in [Agents -> Versions]
    BY <1>3, <2>1, <2>2 DEF Goto, Locations, Option, Shape, TypeOK, StackOK, Components
  <2>4. /\ pc'[a] = "polled" /\ job'[a] = i /\ rows' = rows /\ pc[a] = "idle"
        /\ \A b \in Agents : b # a => pc'[b] = pc[b] /\ job'[b] = job[b]
    BY <1>3, <2>1 DEF Goto, Poll
  <2>5. AgentsOK'
    BY <2>3 DEF Poll, Shape, TypeOK, AgentsOK
  <2>6. JobsOK'
    BY <2>2, <2>3, <2>4 DEF Shape, TypeOK, JobsOK
  <2>7. Restorable' /\ Reported'
    BY <2>4 DEF Shape, Claims, Restorable, Reported, Poll
  <2>8. \A b \in Agents : Working(b)' => Working(b) /\ job'[b] = job[b]
    BY <2>4 DEF Working
  <2>9. ClaimsHeld' /\ ClaimedOnce'
    BY <2>4, <2>8 DEF Shape, Claims, ClaimsHeld, ClaimedOnce
  <2> QED
    BY <1>1, <2>5, <2>6, <2>7, <2>9 DEF Shape, TypeOK, Claims
<1> QED
  BY <1>2, <1>3 DEF Poll

\* A request that is claimed was pending, so nobody works on it.
LEMMA ClaimShape ==
  ASSUME Shape, NEW a \in Agents, Claim(a) PROVE Shape'
<1>1. /\ job[a] \in DOMAIN rows /\ rows[job[a]].status = "pending" /\ rows' \in Seq(Row)
      /\ SameRequests /\ rows'[job[a]].status = "claimed" /\ Part(a) \in Components
  <2>1. job[a] \in DOMAIN rows /\ Part(a) \in Components /\ Transition(job[a], "pending", "claimed")
    BY JobTypes DEF Claim, Shape
  <2>2. rows[job[a]].status = "pending"
    BY <2>1 DEF Transition
  <2> QED
    BY <2>1, <2>2, TransitionShape DEF Status, Shape
<1>2. TableOK' /\ StackOK' /\ (shared \in BOOLEAN /\ faults \in Nat)'
  BY <1>1 DEF Claim, Fault, Shape, TypeOK, TableOK, StackOK, stack
<1>3. CASE Forget(a)
  BY <1>1, <1>2, <1>3, AgentForgets DEF Shape, TypeOK
<1>4. CASE /\ Goto(a, "validate")
           /\ before' = [before EXCEPT ![a] = [env |-> env[Part(a)], image |-> image[Part(a)]]]
           /\ UNCHANGED <<job, told, backup, previous, revBefore, outcome, faults>>
  <2>1. pc \in [Agents -> Locations] /\ before \in [Agents -> Option([env : Versions,
      image : Versions])]
    BY DEF Shape, TypeOK, AgentsOK
  <2>2. [env |-> env[Part(a)], image |-> image[Part(a)]] \in [env : Versions, image : Versions]
    BY <1>1 DEF Shape, TypeOK, StackOK
  <2>3. pc' \in [Agents -> Locations] /\ before' \in [Agents -> Option([env : Versions,
      image : Versions])]
    BY <1>4, <2>1, <2>2 DEF Goto, Locations, Option
  <2>4. pc'[a] = "validate" /\ pc[a] = "polled" /\ \A b \in Agents : b # a => pc'[b] = pc[b]
    BY <1>4, <2>1 DEF Goto, Claim
  <2>5. AgentsOK'
    BY <1>4, <2>3 DEF Shape, TypeOK, AgentsOK
  <2>6. JobsOK'
    BY <1>1, <1>4, <2>4 DEF Shape, TypeOK, JobsOK, SameRequests
  <2>7. Restorable' /\ Reported'
    BY <1>4, <2>4 DEF Shape, Claims, Restorable, Reported
  <2>8. \A b \in Agents : b # a /\ Working(b)' => Working(b) /\ job[b] \in DOMAIN rows
    BY <2>4 DEF Working, Shape, TypeOK, JobsOK
  <2>9. \A b \in Agents : b # a /\ Working(b)' => job[b] # job[a]
    BY <1>1, <2>8 DEF Shape, Claims, ClaimsHeld
  <2>10. ClaimsHeld' /\ ClaimedOnce'
    BY <1>1, <1>4, <2>8, <2>9 DEF Shape, Claims, ClaimsHeld, ClaimedOnce, SameRequests
  <2> QED
    BY <1>2, <2>5, <2>6, <2>7, <2>10 DEF Shape, TypeOK, Claims
<1> QED
  BY <1>3, <1>4 DEF Claim

\* The steps that end a request, and the report.
LEMMA ForgetShape ==
  ASSUME Shape, NEW a \in Agents, ClaimRefused(a) \/ ReportGivesUp(a) \/ AgentCrashes(a)
  PROVE  Shape'
<1>1. Forget(a) /\ UNCHANGED <<shared, table, stack>> /\ faults' \in Nat
  BY DEF ClaimRefused, ReportGivesUp, AgentCrashes, Fault, Shape, TypeOK
<1>2. SameRequests
  BY <1>1, Same DEF table, Shape
<1> QED
  BY <1>1, <1>2, AgentForgets, TableStays, StackStays DEF Shape, TypeOK

LEMMA ReportShape ==
  ASSUME Shape, NEW a \in Agents, Report(a) PROVE Shape'
<1>1. job[a] \in DOMAIN rows /\ outcome[a] \in Final
  BY JobTypes DEF Report, Shape, Claims, Reported
<1>2. rows' \in Seq(Row) /\ SameRequests
  BY <1>1, TransitionShape DEF Report, Shape, Final, Status
<1>3. TableOK' /\ StackOK' /\ (shared \in BOOLEAN /\ faults \in Nat)'
  BY <1>2 DEF Report, Fault, Shape, TypeOK, TableOK, StackOK, stack
<1>4. AgentsOK' /\ JobsOK' /\ Claims'
  BY <1>2, AgentForgets, OthersMove DEF Report
<1> QED
  BY <1>3, <1>4 DEF Shape, TypeOK

\* The steps at work that change no row and no table: what they share.
LEMMA WorkShape ==
  ASSUME Shape, NEW a \in Agents, Working(a), NEW l \in Locations \ {"idle", "polled"},
         Goto(a, l), UNCHANGED <<job, rows, seen, shared>>, asking' \in [Admins -> Option(Body)],
         StackOK', AgentsOK', Restorable', Reported', faults' \in Nat
  PROVE  Shape'
<1>1. JobsOK' /\ ClaimsHeld' /\ ClaimedOnce'
  BY AgentMoves
<1>2. TableOK'
  BY DEF Shape, TypeOK, TableOK
<1> QED
  BY <1>1, <1>2 DEF Shape, TypeOK, Claims

\* A container is replaced by one that .env names.
LEMMA ReplaceShape ==
  ASSUME StackOK, TableOK, NEW c \in Components, Replace(c) \/ UNCHANGED <<image, serving, asking>>,
         UNCHANGED <<env, schema>>
  PROVE  StackOK' /\ asking' \in [Admins -> Option(Body)]
<1>1. asking' \in [Admins -> Option(Body)]
  BY DEF Replace, TableOK, Option
<1>2. image' \in [Components -> Versions] /\ serving' \in [Components -> BOOLEAN]
  BY DEF Replace, StackOK
<1> QED
  BY <1>1, <1>2 DEF StackOK

\* The local variables that a step at work may set.
LEMMA AgentTypes ==
  ASSUME Shape
  PROVE  /\ pc \in [Agents -> Locations] /\ outcome \in [Agents -> Option(Final)]
         /\ backup \in [Agents -> Option(Nat)] /\ revBefore \in [Agents -> Option(Nat)]
         /\ previous \in [Agents -> Option(Versions)]
BY DEF Shape, TypeOK, AgentsOK

\* An agent goes on to another step than its report.
LEMMA GoesOn ==
  ASSUME Shape, NEW a \in Agents, Working(a), NEW l \in Locations \ {"idle", "polled", "report"},
         Goto(a, l), UNCHANGED <<job, told, before, previous, outcome, rows, seen, shared>>,
         backup' \in [Agents -> Option(Nat)], revBefore' \in [Agents -> Option(Nat)],
         l \in {"apply", "recreate", "wait", "decide", "restore"} =>
           pc[a] \in {"apply", "recreate", "wait", "decide", "restore"},
         asking' \in [Admins -> Option(Body)], StackOK', faults' \in Nat
  PROVE  Shape'
<1>1. pc' \in [Agents -> Locations] /\ pc'[a] = l /\ \A b \in Agents : b # a => pc'[b] = pc[b]
  BY AgentTypes DEF Goto
<1>2. AgentsOK'
  BY <1>1 DEF Shape, TypeOK, AgentsOK
<1>3. Restorable' /\ Reported'
  BY <1>1 DEF Shape, Claims, Restorable, Reported
<1> QED
  BY <1>2, <1>3, WorkShape

\* An agent has an outcome to report.
LEMMA GoesToReport ==
  ASSUME Shape, NEW a \in Agents, Working(a), NEW o \in Final, Reports(a, o),
         UNCHANGED <<job, told, before, backup, revBefore, previous, rows, seen, shared>>,
         asking' \in [Admins -> Option(Body)], StackOK', faults' \in Nat
  PROVE  Shape'
<1>1. pc' \in [Agents -> Locations] /\ pc'[a] = "report"
    /\ \A b \in Agents : b # a => pc'[b] = pc[b]
  BY AgentTypes DEF Goto, Reports, Locations
<1>2. /\ outcome' \in [Agents -> Option(Final)] /\ outcome'[a] = o
      /\ \A b \in Agents : b # a => outcome'[b] = outcome[b]
  BY AgentTypes DEF Reports, Option
<1>3. AgentsOK'
  BY <1>1, <1>2 DEF Shape, TypeOK, AgentsOK
<1>4. Restorable' /\ Reported'
  BY <1>1, <1>2 DEF Shape, Claims, Restorable, Reported
<1> QED
  BY <1>3, <1>4, WorkShape DEF Reports, Locations

\* Each step of handle() between claim and report.
LEMMA WorkKeepsShape ==
  ASSUME Shape, NEW a \in Agents,
         \/ Validate(a) \/ Backup(a) \/ ReadPrevious(a) \/ SetEnv(a) \/ Recreate(a) \/ Ready(a)
         \/ WaitTimesOut(a) \/ Decide(a) \/ RestoreEnv(a) \/ RecreateOld(a) \/ WaitOld(a)
  PROVE  Shape'
<1>1. /\ TableOK /\ StackOK /\ asking \in [Admins -> Option(Body)] /\ faults \in Nat
      /\ pc[a] # "idle" => Part(a) \in Components /\ Target(a) \in Versions
  BY JobTypes DEF Shape, TypeOK, TableOK
<1>2. CASE Validate(a)
  <2>1. Working(a) /\ UNCHANGED <<shared, table, stack, job, told, before, backup, previous,
      revBefore>> /\ faults' \in Nat
    BY <1>1, <1>2 DEF Validate, Working, Fault
  <2>2. StackOK' /\ UNCHANGED <<rows, seen, asking>>
    BY <1>1, <2>1, StackStays DEF table
  <2>3. CASE Goto(a, "backup") /\ UNCHANGED outcome
    BY <1>1, <2>1, <2>2, <2>3, GoesOn, AgentTypes DEF Locations
  <2>4. CASE Reports(a, "failed")
    BY <1>1, <2>1, <2>2, <2>4, GoesToReport DEF Final
  <2> QED
    BY <1>2, <2>3, <2>4 DEF Validate
<1>3. CASE Backup(a)
  <2>1. Working(a) /\ UNCHANGED <<shared, table, stack, job, told, before, previous,
      revBefore>> /\ faults' \in Nat
    BY <1>1, <1>3 DEF Backup, Working, Fault
  <2>2. StackOK' /\ UNCHANGED <<rows, seen, asking>>
    BY <1>1, <2>1, StackStays DEF table
  <2>3. CASE Goto(a, "read") /\ backup' = [backup EXCEPT ![a] = schema] /\ UNCHANGED outcome
    <3>1. backup' \in [Agents -> Option(Nat)]
      BY <1>1, <2>3, AgentTypes DEF StackOK, Option
    <3> QED
      BY <1>1, <2>1, <2>2, <2>3, <3>1, GoesOn, AgentTypes DEF Locations
  <2>4. CASE Reports(a, "failed") /\ UNCHANGED backup
    BY <1>1, <2>1, <2>2, <2>4, GoesToReport DEF Final
  <2> QED
    BY <1>3, <2>3, <2>4 DEF Backup
<1>4. CASE ReadPrevious(a)
  <2>1. /\ Working(a) /\ Goto(a, "apply")
        /\ UNCHANGED <<shared, table, stack, job, told, before, backup, outcome, faults>>
    BY <1>4 DEF ReadPrevious, Working
  <2>2. StackOK' /\ UNCHANGED <<rows, seen, asking>>
    BY <1>1, <2>1, StackStays DEF table
  <2>3. env[Part(a)] \in Versions /\ MigrationRevision(Part(a)) \in Option(Nat)
    BY <1>1, <1>4 DEF ReadPrevious, StackOK, MigrationRevision, Option
  <2>4. /\ previous' \in [Agents -> Option(Versions)] /\ previous'[a] = env[Part(a)]
        /\ revBefore' \in [Agents -> Option(Nat)]
        /\ \A b \in Agents : b # a => previous'[b] = previous[b]
    BY <1>4, <2>3, AgentTypes DEF ReadPrevious, Option
  <2>5. pc' \in [Agents -> Locations] /\ pc'[a] = "apply"
      /\ \A b \in Agents : b # a => pc'[b] = pc[b]
    BY <2>1, AgentTypes DEF Goto, Locations
  <2>6. AgentsOK'
    BY <2>1, <2>4, <2>5 DEF Shape, TypeOK, AgentsOK
  <2>7. Restorable' /\ Reported'
    BY <2>1, <2>3, <2>4, <2>5 DEF Shape, Claims, Restorable, Reported
  <2> QED
    BY <1>1, <2>1, <2>2, <2>6, <2>7, WorkShape DEF Locations
<1>5. CASE SetEnv(a)
  <2>1. env' \in [Components -> Versions]
    BY <1>1, <1>5 DEF SetEnv, StackOK
  <2>2. StackOK'
    BY <1>1, <1>5, <2>1 DEF SetEnv, StackOK
  <2> QED
    BY <1>1, <1>5, <2>2, GoesOn, AgentTypes DEF SetEnv, Working, table, Locations
<1>6. CASE Recreate(a)
  <2>1. Working(a) /\ UNCHANGED <<shared, rows, seen, env, schema, job, told, before, backup,
      previous, revBefore, outcome>> /\ faults' \in Nat
    BY <1>1, <1>6 DEF Recreate, Working, Fault
  <2>2. StackOK' /\ asking' \in [Admins -> Option(Body)]
    BY <1>1, <1>6, <2>1, ReplaceShape DEF Recreate
  <2>3. PICK l \in {"wait", "decide"} : Goto(a, l)
    BY <1>6 DEF Recreate
  <2> QED
    BY <1>6, <2>1, <2>2, <2>3, GoesOn, AgentTypes DEF Locations, Recreate
<1>7. CASE Ready(a)
  BY <1>1, <1>7, StackStays, GoesToReport DEF Ready, Working, table, Final
<1>8. CASE WaitTimesOut(a)
  BY <1>1, <1>8, StackStays, GoesOn, AgentTypes DEF WaitTimesOut, Working, table, Locations
<1>9. CASE Decide(a)
  <2>1. Working(a) /\ UNCHANGED <<shared, table, stack, job, told, before, backup, previous,
      revBefore, faults>>
    BY <1>1, <1>9 DEF Decide, Working
  <2>2. StackOK' /\ UNCHANGED <<rows, seen, asking>>
    BY <1>1, <2>1, StackStays DEF table
  <2>3. CASE Goto(a, "restore") /\ UNCHANGED outcome
    BY <1>1, <1>9, <2>1, <2>2, <2>3, GoesOn, AgentTypes DEF Locations, Decide
  <2>4. CASE Reports(a, "needs_attention")
    BY <1>1, <2>1, <2>2, <2>4, GoesToReport DEF Final
  <2> QED
    BY <1>9, <2>3, <2>4 DEF Decide
<1>10. CASE RestoreEnv(a)
  <2>1. previous[a] \in Versions
    BY <1>10 DEF RestoreEnv, Shape, Claims, Restorable
  <2>2. env' \in [Components -> Versions]
    BY <1>1, <1>10, <2>1 DEF RestoreEnv, StackOK
  <2>3. StackOK'
    BY <1>1, <1>10, <2>2 DEF RestoreEnv, StackOK
  <2> QED
    BY <1>1, <1>10, <2>3, GoesOn, AgentTypes DEF RestoreEnv, Working, table, Locations
<1>11. CASE RecreateOld(a)
  <2>1. Working(a) /\ UNCHANGED <<shared, rows, seen, env, schema, job, told, before, backup,
      previous, revBefore>> /\ faults' \in Nat
    BY <1>1, <1>11 DEF RecreateOld, Working, Fault
  <2>2. StackOK' /\ asking' \in [Admins -> Option(Body)]
    BY <1>1, <1>11, <2>1, ReplaceShape DEF RecreateOld
  <2>3. CASE Goto(a, "rewait") /\ UNCHANGED outcome
    BY <1>11, <2>1, <2>2, <2>3, GoesOn, AgentTypes DEF Locations
  <2>4. CASE \E o \in {"rolled_back", "needs_attention"} : Reports(a, o)
    BY <2>1, <2>2, <2>4, GoesToReport DEF Final
  <2> QED
    BY <1>11, <2>3, <2>4 DEF RecreateOld
<1>12. CASE WaitOld(a)
  BY <1>1, <1>12, StackStays, GoesToReport DEF WaitOld, Working, table, Final
<1> QED
  BY <1>2, <1>3, <1>4, <1>5, <1>6, <1>7, <1>8, <1>9, <1>10, <1>11, <1>12

\* Administrators, their browser and the clock.
LEMMA AdminsKeepShape ==
  ASSUME Shape, (\E d \in Admins : AdminStep(d)) \/ Cancel \/ AgentExpires PROVE Shape'
<1>1. ASSUME NEW d \in Admins, AdminChecks(d) PROVE Shape'
  <2>1. TableOK' /\ UNCHANGED <<rows, stack, agent, shared, faults>>
    BY <1>1 DEF AdminChecks, Shape, TypeOK, TableOK, Option
  <2> QED
    BY <2>1, Same, OthersMove, StackStays DEF Shape, TypeOK
<1>2. ASSUME NEW d \in Admins, AdminInserts(d) PROVE Shape'
  <2>1. asking[d] \in Body /\ rows \in Seq(Row)
    BY <1>2 DEF AdminInserts, Shape, TypeOK, TableOK, Option
  <2> DEFINE r == [component |-> asking[d].component, target |-> asking[d].target,
                   from |-> asking[d].from, status |-> "pending"]
  <2>2. r \in Row /\ rows' = Append(rows, r)
    BY <1>2, <2>1 DEF AdminInserts, Body, Row, Status
  <2>3. rows' \in Seq(Row) /\ \A i \in DOMAIN rows : i \in DOMAIN rows' /\ rows'[i] = rows[i]
    BY <2>1, <2>2
  <2>4. TableOK' /\ SameRequests
    BY <1>2, <2>3 DEF AdminInserts, Shape, TypeOK, TableOK, Option, SameRequests
  <2> QED
    BY <1>2, <2>4, OthersMove, StackStays DEF AdminInserts, Shape, TypeOK
<1>3. CASE Cancel
  <2>1. PICK i \in DOMAIN rows : Transition(i, "pending", "cancelled")
    BY <1>3 DEF Cancel
  <2>2. rows' \in Seq(Row) /\ SameRequests
    BY <2>1, TransitionShape DEF Shape, Status
  <2>3. TableOK'
    BY <1>3, <2>2 DEF Cancel, Shape, TypeOK, TableOK
  <2> QED
    BY <1>3, <2>2, <2>3, OthersMove, StackStays DEF Cancel, Shape, TypeOK
<1>4. CASE AgentExpires
  <2>1. TableOK' /\ SameRequests
    BY <1>4, Same DEF AgentExpires, Shape, TypeOK, TableOK
  <2> QED
    BY <1>4, <2>1, OthersMove, StackStays DEF AgentExpires, Shape, TypeOK
<1> QED
  BY <1>1, <1>2, <1>3, <1>4 DEF AdminStep

\* The containers.
LEMMA ContainersKeepShape ==
  ASSUME Shape, Migrate \/ ServerCrashes \/ \E c \in Components : Serve(c) PROVE Shape'
<1>1. CASE Migrate
  <2>1. StackOK' /\ SameRequests
    BY <1>1, Same, UpdaterAssumption DEF Migrate, Shape, TypeOK, StackOK, table, Components
  <2> QED
    BY <1>1, <2>1, OthersMove, TableStays DEF Migrate, Shape, TypeOK
<1>2. CASE ServerCrashes
  <2>1. StackOK' /\ SameRequests
    BY <1>2, Same DEF ServerCrashes, Shape, TypeOK, StackOK
  <2>2. TableOK' /\ faults' \in Nat
    BY <1>2 DEF ServerCrashes, Fault, Shape, TypeOK, TableOK, Option
  <2> QED
    BY <1>2, <2>1, <2>2, OthersMove DEF ServerCrashes, Shape, TypeOK
<1>3. ASSUME NEW c \in Components, Serve(c) PROVE Shape'
  <2>1. StackOK' /\ SameRequests
    BY <1>3, Same DEF Serve, Shape, TypeOK, StackOK, table
  <2> QED
    BY <1>3, <2>1, OthersMove, TableStays DEF Serve, Shape, TypeOK
<1> QED
  BY <1>1, <1>2, <1>3

\* Shape holds at first and after every step.
LEMMA InitShape == Init => Shape
<1> SUFFICES ASSUME Init PROVE Shape
  OBVIOUS
<1>1. TableOK
  <2>1. << >> \in Seq(Row)
    OBVIOUS
  <2>2. [d \in Admins |-> None] \in [Admins -> Option(Body)]
    BY DEF Option
  <2> QED
    BY <2>1, <2>2 DEF Init, TableOK
<1>5. JobsOK
  BY DEF Init, JobsOK, Option
<1>4. AgentsOK
  BY UpdaterAssumption DEF Init, AgentsOK, Option, Versions, Locations
<1>2. StackOK
  BY UpdaterAssumption DEF Init, StackOK, Components, Versions
<1>3. Claims
  BY DEF Init, Claims, Restorable, Reported, ClaimsHeld, ClaimedOnce, Working
<1> QED
  BY <1>1, <1>2, <1>3, <1>4, <1>5, UpdaterAssumption DEF Shape, TypeOK, Init

LEMMA NextKeepsShape == Shape /\ [Next]_vars => Shape'
<1> SUFFICES ASSUME Shape, [Next]_vars PROVE Shape'
  OBVIOUS
<1>1. ASSUME NEW a \in Agents, AgentStep(a) \/ AgentCrashes(a) PROVE Shape'
  BY <1>1, PollShape, ClaimShape, ForgetShape, ReportShape, WorkKeepsShape DEF AgentStep
<1>2. CASE UNCHANGED vars
  BY <1>2, Same, OthersMove, TableStays, StackStays DEF vars, Shape, TypeOK, table
<1> QED
  BY <1>1, <1>2, AdminsKeepShape, ContainersKeepShape DEF Next

\* The table, the stack and every agent keep their types in every behaviour (TypeOK).
THEOREM TypeCorrect == Spec => []TypeOK
<1>1. Shape => TypeOK
  BY DEF Shape
<1> QED
  BY <1>1, InitShape, NextKeepsShape, PTL DEF Spec

\* However many agents poll one server and whatever answers are lost, no two work on one
\* request (update_requests.py: claim's compare and set).
THEOREM NoTwoClaims == Spec => []ClaimedOnce
<1>1. Shape => ClaimedOnce
  BY DEF Shape, Claims
<1> QED
  BY <1>1, InitShape, NextKeepsShape, PTL DEF Spec

-----------------------------------------------------------------------------
(* The stack of an agent that is alone.                                    *)

\* A server that answers has migrated the database to its own revision.
ServesRevision == serving["server"] => schema = Revision[image["server"]]

\* At most one agent is in handle().
Alone == \A a, b \in Agents : pc[a] # "idle" /\ pc[b] # "idle" => a = b

\* What the poll said of the server's version is so until it is replaced ...
ToldTrue(a) ==
  pc[a] \in {"polled", "validate", "backup", "read", "apply", "recreate"} =>
    told[a] = image["server"]

\* ... and so is what validate_release found.
StillEligible(a) ==
  ClientLabelled /\ pc[a] \in {"backup", "read", "apply", "recreate"} =>
    Eligible(GitHub, Part(a), Target(a), image[Part(a)], image["server"])

\* The tag and the container are, at each step, the old or the new ones.
StackFits(a) ==
  /\ Working(a) => before[a] \in [env : Versions, image : Versions]
  /\ pc[a] \in {"validate", "backup", "read", "apply", "rerecreate", "rewait"} =>
       env[Part(a)] = before[a].env
  /\ pc[a] \in {"validate", "backup", "read", "apply", "recreate"} =>
       image[Part(a)] = before[a].image
  /\ pc[a] \in {"recreate", "wait", "decide", "restore"} => env[Part(a)] = Target(a)
  /\ pc[a] \in {"wait", "rewait"} => image[Part(a)] = env[Part(a)]
  /\ pc[a] \in {"apply", "recreate", "wait", "decide", "restore"} => previous[a] = before[a].env

\* The backup of a server update was taken at the revision of the server it replaces.
BackupFits(a) ==
  Part(a) = "server" =>
    /\ pc[a] \in {"validate", "backup"} => schema = Revision[before[a].image]
    /\ pc[a] \in {"read", "apply", "recreate", "wait", "decide", "restore", "rerecreate",
        "rewait"} =>
         backup[a] = Revision[before[a].image]

\* OutcomeTrue of one agent.
Reporting(a) ==
  pc[a] = "report" =>
    LET now == [env |-> env[Part(a)], image |-> image[Part(a)]] IN
    /\ outcome[a] = "failed" => now = before[a]
    /\ outcome[a] = "rolled_back" => now = [env |-> before[a].env, image |-> before[a].env]
    /\ outcome[a] = "succeeded" => now = [env |-> Target(a), image |-> Target(a)]
    /\ (outcome[a] = "needs_attention" /\ Part(a) = "server" /\ env["server"] = Target(a)) =>
          backup[a] = Revision[before[a].image]

Fits(a) ==
  pc[a] # "idle" =>
    ToldTrue(a) /\ StillEligible(a) /\ StackFits(a) /\ BackupFits(a) /\ Reporting(a)

Honest == ~shared => Alone /\ \A a \in Agents : Fits(a)

IInv == Shape /\ ServesRevision /\ Honest

\* The request of a job keeps its component and its target.
LEMMA RequestStays ==
  ASSUME Shape, NEW a \in Agents, pc[a] # "idle", job' = job, SameRequests
  PROVE  Part(a)' = Part(a) /\ Target(a)' = Target(a)
BY JobTypes DEF Shape, Part, Target, SameRequests

\* Each step of handle() leads from what holds before it to what holds after it.
LEMMA WorkFits ==
  ASSUME Shape, ServesRevision, NEW a \in Agents, pc[a] # "idle", Fits(a), Part(a) \in Components,
         Part(a)' = Part(a), Target(a)' = Target(a), job' = job,
         pc \in [Agents -> Locations], outcome \in [Agents -> Option(Final)],
         env \in [Components -> Versions], image \in [Components -> Versions],
         previous \in [Agents -> Option(Versions)], backup \in [Agents -> Option(Nat)],
         \/ Validate(a) \/ Backup(a) \/ ReadPrevious(a) \/ SetEnv(a) \/ Recreate(a) \/ Ready(a)
         \/ WaitTimesOut(a) \/ Decide(a) \/ RestoreEnv(a) \/ RecreateOld(a) \/ WaitOld(a)
  PROVE  Fits(a)'
<1> DEFINE Parts == ToldTrue(a)' /\ StillEligible(a)' /\ StackFits(a)' /\ BackupFits(a)'
    /\ Reporting(a)'
<1> SUFFICES Parts
  BY DEF Fits
<1>1. ToldTrue(a) /\ StillEligible(a) /\ StackFits(a) /\ BackupFits(a) /\ Reporting(a)
  BY DEF Fits
<1>2. CASE Validate(a)
  <2>1. ToldTrue(a)'
    BY <1>1, <1>2 DEF ToldTrue, Goto, Validate, Prepared, Current, Reports, stack
  <2>2. StillEligible(a)'
    <3>1. image' = image /\ told[a] = image["server"]
      BY <1>1, <1>2 DEF Validate, stack, ToldTrue
    <3>2. CASE Reports(a, "failed")
      BY <3>2 DEF Reports, Goto, StillEligible
    <3>3. CASE Prepared(a) /\ Goto(a, "backup")
      <4>1. ClientLabelled => Current(a) = image[Part(a)]
        BY <3>1 DEF Current, Components
      <4>2. ClientLabelled => Eligible(GitHub, Part(a), Target(a), image[Part(a)], image["server"])
        BY <3>1, <3>3, <4>1 DEF Prepared
      <4> QED
        BY <3>1, <4>2 DEF StillEligible, Eligible
    <3> QED
      BY <1>2, <3>2, <3>3 DEF Validate
  <2>3. StackFits(a)'
    BY <1>1, <1>2 DEF StackFits, Working, Goto, Components, Validate, Prepared, Current, Reports,
        stack
  <2>4. BackupFits(a)'
    BY <1>1, <1>2 DEF BackupFits, StackFits, Working, Goto, Components, Validate, Prepared,
        Current, Reports, stack
  <2>5. Reporting(a)'
    BY <1>1, <1>2 DEF Reporting, BackupFits, StackFits, Working, Goto, Components, Validate,
        Prepared, Current, Reports, stack
  <2> QED
    BY <2>1, <2>2, <2>3, <2>4, <2>5
<1>3. CASE Backup(a)
  <2>1. ToldTrue(a)'
    BY <1>1, <1>3 DEF ToldTrue, Goto, Backup, Reports, stack
  <2>2. StillEligible(a)'
    BY <1>1, <1>3 DEF ToldTrue, StillEligible, StackFits, Goto, Backup, Reports, stack
  <2>3. StackFits(a)'
    BY <1>1, <1>3 DEF StackFits, Working, Goto, Components, Backup, Reports, stack
  <2>4. BackupFits(a)'
    BY <1>1, <1>3 DEF BackupFits, StackFits, Working, Goto, Components, Backup, Reports, stack
  <2>5. Reporting(a)'
    BY <1>1, <1>3 DEF Reporting, BackupFits, StackFits, Working, Goto, Components, Backup,
        Reports, stack
  <2> QED
    BY <2>1, <2>2, <2>3, <2>4, <2>5
<1>4. CASE ReadPrevious(a)
  <2>1. ToldTrue(a)'
    BY <1>1, <1>4 DEF ToldTrue, Goto, ReadPrevious, stack
  <2>2. StillEligible(a)'
    BY <1>1, <1>4 DEF ToldTrue, StillEligible, StackFits, Goto, ReadPrevious, stack
  <2>3. StackFits(a)'
    BY <1>1, <1>4 DEF StackFits, Working, Goto, Components, ReadPrevious, stack
  <2>4. BackupFits(a)'
    BY <1>1, <1>4 DEF BackupFits, StackFits, Working, Goto, Components, ReadPrevious, stack
  <2>5. Reporting(a)'
    BY <1>1, <1>4 DEF Reporting, BackupFits, StackFits, Working, Goto, Components, ReadPrevious,
        stack
  <2> QED
    BY <2>1, <2>2, <2>3, <2>4, <2>5
<1>5. CASE SetEnv(a)
  <2>1. ToldTrue(a)'
    BY <1>1, <1>5 DEF ToldTrue, Goto, SetEnv
  <2>2. StillEligible(a)'
    BY <1>1, <1>5 DEF ToldTrue, StillEligible, StackFits, Goto, SetEnv
  <2>3. StackFits(a)'
    BY <1>1, <1>5 DEF StackFits, Working, Goto, Components, SetEnv
  <2>4. BackupFits(a)'
    BY <1>1, <1>5 DEF BackupFits, StackFits, Working, Goto, Components, SetEnv
  <2>5. Reporting(a)'
    BY <1>1, <1>5 DEF Reporting, BackupFits, StackFits, Working, Goto, Components, SetEnv
  <2> QED
    BY <2>1, <2>2, <2>3, <2>4, <2>5
<1>6. CASE Recreate(a)
  <2>1. ToldTrue(a)'
    BY <1>1, <1>6 DEF ToldTrue, Goto, Recreate, Replace
  <2>2. StillEligible(a)'
    BY <1>1, <1>6 DEF ToldTrue, StillEligible, StackFits, Goto, Recreate, Replace
  <2>3. StackFits(a)'
    BY <1>1, <1>6 DEF StackFits, Working, Goto, Components, Recreate, Replace
  <2>4. BackupFits(a)'
    BY <1>1, <1>6 DEF BackupFits, StackFits, Working, Goto, Components, Recreate, Replace
  <2>5. Reporting(a)'
    BY <1>1, <1>6 DEF Reporting, BackupFits, StackFits, Working, Goto, Components, Recreate, Replace
  <2> QED
    BY <2>1, <2>2, <2>3, <2>4, <2>5
<1>7. CASE Ready(a)
  <2>1. ToldTrue(a)'
    BY <1>1, <1>7 DEF ToldTrue, Goto, Ready, Reports, IsReady, stack
  <2>2. StillEligible(a)'
    BY <1>1, <1>7 DEF ToldTrue, StillEligible, StackFits, Goto, Ready, Reports, IsReady, stack
  <2>3. StackFits(a)'
    BY <1>1, <1>7 DEF StackFits, Working, Goto, Components, Ready, Reports, IsReady, stack
  <2>4. BackupFits(a)'
    BY <1>1, <1>7 DEF BackupFits, StackFits, Working, Goto, Components, Ready, Reports, IsReady,
        stack
  <2>5. Reporting(a)'
    BY <1>1, <1>7 DEF Reporting, BackupFits, StackFits, Working, Goto, Components, Ready,
        Reports, IsReady, stack
  <2> QED
    BY <2>1, <2>2, <2>3, <2>4, <2>5
<1>8. CASE WaitTimesOut(a)
  <2>1. ToldTrue(a)'
    BY <1>1, <1>8 DEF ToldTrue, Goto, WaitTimesOut, stack
  <2>2. StillEligible(a)'
    BY <1>1, <1>8 DEF ToldTrue, StillEligible, StackFits, Goto, WaitTimesOut, stack
  <2>3. StackFits(a)'
    BY <1>1, <1>8 DEF StackFits, Working, Goto, Components, WaitTimesOut, stack
  <2>4. BackupFits(a)'
    BY <1>1, <1>8 DEF BackupFits, StackFits, Working, Goto, Components, WaitTimesOut, stack
  <2>5. Reporting(a)'
    BY <1>1, <1>8 DEF Reporting, BackupFits, StackFits, Working, Goto, Components, WaitTimesOut,
        stack
  <2> QED
    BY <2>1, <2>2, <2>3, <2>4, <2>5
<1>9. CASE Decide(a)
  <2>1. ToldTrue(a)'
    BY <1>1, <1>9 DEF ToldTrue, Goto, Decide, Reports, stack
  <2>2. StillEligible(a)'
    BY <1>1, <1>9 DEF ToldTrue, StillEligible, StackFits, Goto, Decide, Reports, stack
  <2>3. StackFits(a)'
    BY <1>1, <1>9 DEF StackFits, Working, Goto, Components, Decide, Reports, stack
  <2>4. BackupFits(a)'
    BY <1>1, <1>9 DEF BackupFits, StackFits, Working, Goto, Components, Decide, Reports, stack
  <2>5. Reporting(a)'
    BY <1>1, <1>9 DEF Reporting, BackupFits, StackFits, Working, Goto, Components, Decide,
        Reports, stack
  <2> QED
    BY <2>1, <2>2, <2>3, <2>4, <2>5
<1>10. CASE RestoreEnv(a)
  <2>1. ToldTrue(a)'
    BY <1>1, <1>10 DEF ToldTrue, Goto, RestoreEnv
  <2>2. StillEligible(a)'
    BY <1>1, <1>10 DEF ToldTrue, StillEligible, StackFits, Goto, RestoreEnv
  <2>3. StackFits(a)'
    BY <1>1, <1>10 DEF StackFits, Working, Goto, Components, RestoreEnv
  <2>4. BackupFits(a)'
    BY <1>1, <1>10 DEF BackupFits, StackFits, Working, Goto, Components, RestoreEnv
  <2>5. Reporting(a)'
    BY <1>1, <1>10 DEF Reporting, BackupFits, StackFits, Working, Goto, Components, RestoreEnv
  <2> QED
    BY <2>1, <2>2, <2>3, <2>4, <2>5
<1>11. CASE RecreateOld(a)
  <2>1. ToldTrue(a)'
    BY <1>1, <1>11 DEF ToldTrue, Goto, RecreateOld, Replace, Reports
  <2>2. StillEligible(a)'
    BY <1>1, <1>11 DEF ToldTrue, StillEligible, StackFits, Goto, RecreateOld, Replace, Reports
  <2>3. StackFits(a)'
    BY <1>1, <1>11 DEF StackFits, Working, Goto, Components, RecreateOld, Replace, Reports
  <2>4. BackupFits(a)'
    BY <1>1, <1>11 DEF BackupFits, StackFits, Working, Goto, Components, RecreateOld, Replace,
        Reports
  <2>5. Reporting(a)'
    BY <1>1, <1>11 DEF Reporting, BackupFits, StackFits, Working, Goto, Components, RecreateOld,
        Replace, Reports
  <2> QED
    BY <2>1, <2>2, <2>3, <2>4, <2>5
<1>12. CASE WaitOld(a)
  <2>1. ToldTrue(a)'
    BY <1>1, <1>12 DEF ToldTrue, Goto, WaitOld, Reports, stack
  <2>2. StillEligible(a)'
    BY <1>1, <1>12 DEF ToldTrue, StillEligible, StackFits, Goto, WaitOld, Reports, stack
  <2>3. StackFits(a)'
    BY <1>1, <1>12 DEF StackFits, Working, Goto, Components, WaitOld, Reports, stack
  <2>4. BackupFits(a)'
    BY <1>1, <1>12 DEF BackupFits, StackFits, Working, Goto, Components, WaitOld, Reports, stack
  <2>5. Reporting(a)'
    BY <1>1, <1>12 DEF Reporting, BackupFits, StackFits, Working, Goto, Components, WaitOld,
        Reports, stack
  <2> QED
    BY <2>1, <2>2, <2>3, <2>4, <2>5
<1> QED
  BY <1>2, <1>3, <1>4, <1>5, <1>6, <1>7, <1>8, <1>9, <1>10, <1>11, <1>12

\* What an agent's polled, claimed or unreported request says of the stack.
LEMMA PollFits ==
  ASSUME Shape, NEW a \in Agents, Poll(a), Fits(a) PROVE Fits(a)'
<1>1. CASE UNCHANGED pc
  BY <1>1 DEF Poll, Fits
<1>2. CASE Goto(a, "polled") /\ told' = [told EXCEPT ![a] = image["server"]]
  <2>1. pc'[a] = "polled" /\ told'[a] = image["server"] /\ image' = image
    BY <1>2 DEF Goto, Poll, stack, Shape, TypeOK, AgentsOK
  <2> QED
    BY <2>1 DEF Fits, ToldTrue, StillEligible, StackFits, BackupFits, Reporting, Working
<1> QED
  BY <1>1, <1>2 DEF Poll

LEMMA ForgetFits ==
  ASSUME Shape, NEW a \in Agents, Forget(a) PROVE Fits(a)'
BY DEF Shape, TypeOK, AgentsOK, Forget, Goto, Fits

LEMMA ClaimFits ==
  ASSUME Shape, ServesRevision, NEW a \in Agents, Claim(a), Fits(a) PROVE Fits(a)'
<1>1. CASE Forget(a)
  BY <1>1, ForgetFits
<1>2. CASE /\ Goto(a, "validate") /\ job' = job /\ told' = told
           /\ before' = [before EXCEPT ![a] = [env |-> env[Part(a)], image |-> image[Part(a)]]]
  <2>1. job[a] \in DOMAIN rows /\ Part(a) \in Components /\ pc[a] = "polled"
    BY JobTypes DEF Claim, Shape
  <2>2. SameRequests
    BY <2>1, TransitionShape DEF Claim, Shape, Status
  <2>3. Part(a)' = Part(a)
    BY <1>2, <2>1, <2>2, RequestStays
  <2>4. /\ pc'[a] = "validate" /\ before'[a] = [env |-> env[Part(a)], image |-> image[Part(a)]]
        /\ UNCHANGED stack /\ told[a] = image["server"] /\ schema = Revision[image["server"]]
    BY <1>2, <2>1 DEF Goto, Claim, Shape, TypeOK, AgentsOK, Fits, ToldTrue, ServesRevision
  <2>5. [env |-> env[Part(a)], image |-> image[Part(a)]] \in [env : Versions, image : Versions]
    BY <2>1 DEF Shape, TypeOK, StackOK
  <2>6. ToldTrue(a)' /\ StillEligible(a)' /\ Reporting(a)'
    BY <1>2, <2>4 DEF ToldTrue, StillEligible, Reporting, stack
  <2>7. StackFits(a)' /\ BackupFits(a)'
    BY <2>3, <2>4, <2>5 DEF StackFits, BackupFits, Working, stack
  <2> QED
    BY <2>6, <2>7 DEF Fits
<1> QED
  BY <1>1, <1>2 DEF Claim

\* A step that leaves the agent's variables and the containers alone.
LEMMA OthersFit ==
  ASSUME Shape, NEW a \in Agents, Fits(a), UNCHANGED <<agent, env, image>>, SameRequests,
         \/ schema' = schema
         \/ schema < Revision[image["server"]] /\ schema \in Nat
  PROVE  Fits(a)'
<1>1. CASE pc[a] = "idle"
  BY <1>1 DEF agent, Fits
<1>2. CASE pc[a] # "idle"
  <2>1. Part(a)' = Part(a) /\ Target(a)' = Target(a)
    BY <1>2, RequestStays DEF agent
  <2>2. ToldTrue(a) /\ StillEligible(a) /\ StackFits(a) /\ BackupFits(a) /\ Reporting(a)
    BY <1>2 DEF Fits
  <2>3. ToldTrue(a)' /\ StillEligible(a)' /\ StackFits(a)' /\ Reporting(a)'
    BY <2>1, <2>2 DEF ToldTrue, StillEligible, Eligible, StackFits, Reporting, Working, agent
  <2>4. BackupFits(a)'
    BY <2>1, <2>2 DEF BackupFits, StackFits, agent
  <2> QED
    BY <2>3, <2>4 DEF Fits
<1> QED
  BY <1>1, <1>2

\* Whatever an agent does, what it knows of the stack fits when it is the only one.
LEMMA AgentFits ==
  ASSUME Shape, ServesRevision, NEW a \in Agents, Fits(a), AgentStep(a) \/ AgentCrashes(a)
  PROVE  Fits(a)'
<1>1. CASE ClaimRefused(a) \/ ReportGivesUp(a) \/ AgentCrashes(a)
  BY <1>1, ForgetFits DEF ClaimRefused, ReportGivesUp, AgentCrashes
<1>2. CASE Report(a)
  <2>1. job[a] \in DOMAIN rows /\ outcome[a] \in Final
    BY <1>2, JobTypes DEF Report, Shape, Claims, Reported
  <2>2. SameRequests
    BY <1>2, <2>1, TransitionShape DEF Report, Shape, Final, Status
  <2> QED
    BY <1>2, <2>2, ForgetFits, OthersFit DEF Report, stack
<1>3. CASE \/ Validate(a) \/ Backup(a) \/ ReadPrevious(a) \/ SetEnv(a) \/ Recreate(a) \/ Ready(a)
           \/ WaitTimesOut(a) \/ Decide(a) \/ RestoreEnv(a) \/ RecreateOld(a) \/ WaitOld(a)
  <2>1. rows' = rows /\ job' = job /\ pc[a] # "idle"
    BY <1>3 DEF Validate, Backup, ReadPrevious, SetEnv, Recreate, Ready, WaitTimesOut, Decide,
                RestoreEnv, RecreateOld, WaitOld, table
  <2>2. /\ Part(a) \in Components /\ Part(a)' = Part(a) /\ Target(a)' = Target(a)
    BY <2>1, Same, JobTypes, RequestStays DEF Shape
  <2> QED
    BY <1>3, <2>1, <2>2, AgentTypes, WorkFits DEF Shape, TypeOK, StackOK
<1> QED
  BY <1>1, <1>2, <1>3, PollFits, ClaimFits DEF AgentStep

\* An agent's step leaves the place of the others alone, and shares the stack or is alone.
LEMMA AgentAlone ==
  ASSUME Shape, NEW a \in Agents, AgentStep(a) \/ AgentCrashes(a)
  PROVE  /\ \A b \in Agents : b # a => pc'[b] = pc[b]
         /\ shared => shared'
         /\ pc[a] = "idle" /\ pc'[a] # "idle" /\ ~shared' =>
              \A b \in Agents : b # a => pc[b] = "idle"
<1>1. pc \in [Agents -> Locations]
  BY AgentTypes
<1>2. CASE Poll(a)
  <2>1. CASE UNCHANGED <<pc, shared>>
    BY <1>2, <2>1 DEF Poll
  <2>2. CASE Goto(a, "polled") /\ shared' = (shared \/ \E b \in Agents \ {a} : pc[b] # "idle")
    <3>1. \A b \in Agents : b # a => pc'[b] = pc[b]
      BY <1>1, <2>2 DEF Goto
    <3>2. shared => shared'
      BY <2>2
    <3>3. ~shared' => \A b \in Agents : b # a => pc[b] = "idle"
      BY <2>2
    <3> QED
      BY <3>1, <3>2, <3>3
  <2> QED
    BY <1>2, <2>1, <2>2 DEF Poll
<1>3. CASE AgentCrashes(a) \/ ClaimRefused(a) \/ Claim(a) \/ Report(a) \/ ReportGivesUp(a)
  BY <1>1, <1>3 DEF AgentCrashes, ClaimRefused, Claim, Report, ReportGivesUp, Forget, Goto, agent
<1>4. CASE \/ Validate(a) \/ Backup(a) \/ ReadPrevious(a) \/ SetEnv(a) \/ Recreate(a) \/ Ready(a)
           \/ WaitTimesOut(a) \/ Decide(a) \/ RestoreEnv(a) \/ RecreateOld(a) \/ WaitOld(a)
  BY <1>1, <1>4 DEF Validate, Backup, ReadPrevious, SetEnv, Recreate, Ready, WaitTimesOut, Decide,
                RestoreEnv, RecreateOld, WaitOld, Goto, Reports
<1> QED
  BY <1>2, <1>3, <1>4 DEF AgentStep

\* A new container does not serve before its schema is its own.
LEMMA RevisionServed ==
  ASSUME Shape, ServesRevision, [Next]_vars PROVE ServesRevision'
<1>1. /\ image \in [Components -> Versions] /\ serving \in [Components -> BOOLEAN]
      /\ "server" \in Components
  BY DEF Shape, TypeOK, StackOK, Components
<1>2. ASSUME NEW a \in Agents, UNCHANGED <<image, serving, schema>> \/ UNCHANGED stack
    PROVE ServesRevision'
  BY <1>2 DEF ServesRevision, stack
<1>3. ASSUME NEW a \in Agents, AgentStep(a) \/ AgentCrashes(a) PROVE ServesRevision'
  <2>1. CASE Recreate(a) \/ RecreateOld(a)
    <3>1. schema' = schema /\ (Replace(Part(a)) \/ UNCHANGED <<image, serving>>)
      BY <2>1 DEF Recreate, RecreateOld
    <3>2. Part(a) \in Components
      BY <2>1, JobTypes DEF Shape, Recreate, RecreateOld
    <3> QED
      BY <1>1, <3>1, <3>2 DEF Replace, ServesRevision
  <2>2. CASE SetEnv(a) \/ RestoreEnv(a)
    BY <1>2, <2>2 DEF SetEnv, RestoreEnv
  <2>3. CASE ~(Recreate(a) \/ RecreateOld(a) \/ SetEnv(a) \/ RestoreEnv(a))
    BY <1>2, <1>3, <2>3 DEF AgentStep, AgentCrashes, Poll, Claim, ClaimRefused, Validate, Backup,
      ReadPrevious, Ready, WaitTimesOut, Decide, WaitOld, Report, ReportGivesUp
  <2> QED
    BY <2>1, <2>2, <2>3
<1>4. CASE (\E d \in Admins : AdminStep(d)) \/ Cancel \/ AgentExpires \/ UNCHANGED vars
  BY <1>4 DEF AdminStep, AdminChecks, AdminInserts, Cancel, AgentExpires, vars, stack,
      ServesRevision
<1>5. CASE Migrate \/ ServerCrashes \/ \E c \in Components : Serve(c)
  BY <1>1, <1>5 DEF Migrate, ServerCrashes, Serve, ServesRevision
<1> QED
  BY <1>3, <1>4, <1>5 DEF Next

-----------------------------------------------------------------------------
(* The invariant and the theorems.                                         *)

LEMMA Initially == Init => IInv
<1> SUFFICES ASSUME Init PROVE IInv
  OBVIOUS
<1>1. ServesRevision /\ Honest
  BY DEF Init, ServesRevision, Honest, Alone, Fits, Components
<1> QED
  BY <1>1, InitShape DEF IInv

LEMMA Inductive == IInv /\ [Next]_vars => IInv'
<1> SUFFICES ASSUME IInv, [Next]_vars PROVE IInv'
  OBVIOUS
<1>1. Shape /\ ServesRevision /\ Honest
  BY DEF IInv
<1>2. Shape' /\ ServesRevision'
  BY <1>1, NextKeepsShape, RevisionServed
<1>3. ASSUME NEW a \in Agents, AgentStep(a) \/ AgentCrashes(a), ~shared' PROVE Honest'
  <2>1. /\ \A b \in Agents : b # a => pc'[b] = pc[b]
        /\ ~shared
        /\ pc[a] = "idle" /\ pc'[a] # "idle" => \A b \in Agents : b # a => pc[b] = "idle"
    BY <1>1, <1>3, AgentAlone
  <2>2. Alone /\ \A b \in Agents : Fits(b)
    BY <1>1, <2>1 DEF Honest
  <2>3. Alone'
    BY <2>1, <2>2 DEF Alone
  <2>4. Fits(a)'
    BY <1>1, <1>3, <2>2, AgentFits
  <2>5. ASSUME NEW b \in Agents, b # a PROVE Fits(b)'
    <3>1. CASE pc[b] = "idle"
      BY <2>1, <2>5, <3>1 DEF Fits
    <3>2. CASE pc[b] # "idle"
      <4>1. pc[a] = "idle"
        BY <2>2, <2>5, <3>2 DEF Alone
      <4>2. Poll(a) /\ UNCHANGED <<pc, job, told>>
        BY <1>3, <2>1, <2>5, <3>2, <4>1 DEF AgentStep, AgentCrashes, Poll, Claim, ClaimRefused,
            Validate,
          Backup, ReadPrevious, SetEnv, Recreate, Ready, WaitTimesOut, Decide, RestoreEnv,
              RecreateOld,
          WaitOld, Report, ReportGivesUp
      <4>3. UNCHANGED <<agent, env, image, schema>> /\ rows' = rows
        BY <4>2 DEF Poll, agent, stack
      <4> QED
        BY <1>1, <2>2, <4>3, Same, OthersFit DEF Shape
    <3> QED
      BY <3>1, <3>2
  <2> QED
    BY <2>3, <2>4, <2>5 DEF Honest
<1>4. ASSUME UNCHANGED <<agent, shared, env, image>>, SameRequests,
             schema' = schema \/ (schema < Revision[image["server"]] /\ schema \in Nat)
      PROVE  Honest'
  <2>1. Alone => Alone'
    BY <1>4 DEF Alone, agent
  <2>2. \A b \in Agents : Fits(b) => Fits(b)'
    BY <1>1, <1>4, OthersFit
  <2> QED
    BY <1>1, <1>4, <2>1, <2>2 DEF Honest
<1>5. ASSUME \E d \in Admins : AdminStep(d) PROVE Honest'
  <2>1. PICK d \in Admins : AdminChecks(d) \/ AdminInserts(d)
    BY <1>5 DEF AdminStep
  <2>2. SameRequests
    <3>1. CASE AdminChecks(d)
      BY <1>1, <3>1, Same DEF AdminChecks, Shape
    <3>2. CASE AdminInserts(d)
      BY <1>1, <3>2 DEF AdminInserts, Shape, TypeOK, TableOK, SameRequests
    <3> QED
      BY <2>1, <3>1, <3>2
  <2> QED
    BY <1>4, <2>1, <2>2 DEF AdminChecks, AdminInserts, stack
<1>6. ASSUME Cancel PROVE Honest'
  <2>1. SameRequests
    BY <1>1, <1>6, TransitionShape DEF Cancel, Shape, Status
  <2> QED
    BY <1>4, <1>6, <2>1 DEF Cancel, stack
<1>7. ASSUME AgentExpires \/ UNCHANGED vars PROVE Honest'
  <2>1. rows' = rows /\ UNCHANGED <<agent, shared, env, image, schema>>
    BY <1>7 DEF AgentExpires, vars, stack, table
  <2> QED
    BY <1>1, <1>4, <2>1, Same DEF Shape
<1>8. ASSUME Migrate \/ ServerCrashes \/ \E c \in Components : Serve(c) PROVE Honest'
  <2>1. rows' = rows /\ UNCHANGED <<agent, shared, env, image>>
    BY <1>8 DEF Migrate, ServerCrashes, Serve, table
  <2>2. schema' = schema \/ (schema < Revision[image["server"]] /\ schema \in Nat)
    BY <1>1, <1>8 DEF Migrate, ServerCrashes, Serve, Shape, TypeOK, StackOK
  <2> QED
    BY <1>1, <1>4, <2>1, <2>2, Same DEF Shape
<1>9. Honest'
  <2>1. CASE shared'
    BY <2>1 DEF Honest
  <2> QED
    BY <1>3, <1>4, <1>5, <1>6, <1>7, <1>8, <2>1 DEF Next, IInv
<1> QED
  BY <1>2, <1>9 DEF IInv

\* What an agent that is alone reports is what it did to the stack, whatever failed,
\* crashed or was lost (handle() of fdpneo_updater.py).
THEOREM OutcomeAlwaysTrue == Spec => []OutcomeTrue
<1>1. IInv => OutcomeTrue
  BY DEF IInv, Honest, Fits, Reporting, OutcomeTrue
<1> QED
  BY <1>1, Initially, Inductive, PTL DEF Spec

\* Only a recreate changes a container, to what .env pins.
LEMMA ReplacedEligibly ==
  ASSUME ClientLabelled, IInv, [Next]_vars, NEW c \in Components, ~shared', image'[c] # image[c]
  PROVE  \/ Eligible(GitHub, c, image'[c], image[c], image["server"])
         \/ \E a \in Agents : pc[a] = "rerecreate" /\ image'[c] = before[a].env
<1>1. image \in [Components -> Versions] /\ Shape
  BY DEF IInv, Shape, TypeOK, StackOK
<1>2. PICK a \in Agents : Recreate(a) \/ RecreateOld(a)
  BY DEF Next, vars, stack, AgentStep, AdminStep, AgentCrashes, Poll, Claim, ClaimRefused, Validate,
    Backup, ReadPrevious, SetEnv, Ready, WaitTimesOut, Decide, RestoreEnv, WaitOld, Report,
    ReportGivesUp, AdminChecks, AdminInserts, Cancel, AgentExpires, Migrate, Serve, ServerCrashes
<1>3. Replace(Part(a)) /\ ~shared /\ pc[a] \in {"recreate", "rerecreate"}
  BY <1>2 DEF Recreate, RecreateOld
<1>4. Part(a) \in Components
  BY <1>1, <1>3, JobTypes DEF Shape
<1>5. c = Part(a) /\ image'[c] = env[c]
  BY <1>1, <1>3, <1>4 DEF Replace
<1>6. Fits(a)
  BY <1>3 DEF IInv, Honest
<1> QED
  BY <1>3, <1>5, <1>6 DEF Fits, StillEligible, StackFits

\* With labelled client images, an agent that is alone replaces a container only by a release
\* that GitHub allows on top of what runs, or by the tag it took out of .env.
THEOREM ReplacedOnlyByEligible ==
  ASSUME ClientLabelled PROVE Spec => OnlyEligibleReleases
<1>1. IInv /\ [Next]_vars =>
        [\A c \in Components : ~shared' /\ image'[c] # image[c] =>
           \/ Eligible(GitHub, c, image'[c], image[c], image["server"])
           \/ \E a \in Agents : pc[a] = "rerecreate" /\ image'[c] = before[a].env]_vars
  BY ReplacedEligibly
<1> QED
  BY <1>1, Initially, Inductive, PTL DEF Spec, OnlyEligibleReleases
====

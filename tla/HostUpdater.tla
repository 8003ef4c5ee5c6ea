----------------------------- MODULE HostUpdater -----------------------------
(***************************************************************************)
(* Update requests (update_requests.py) and the host updater agent that    *)
(* applies them (deploy/updater/fdpneo_updater.py): the update_request     *)
(* table, the administrators who fill it, agents that poll, claim, apply   *)
(* and report, and the compose stack they change - the tags in .env, the   *)
(* containers created from them and the database schema.                   *)
(*                                                                         *)
(* A version is its rank in release order.  An HTTP call of the agent is   *)
(* one step of the server (its transaction) that needs a serving server;   *)
(* the answer may be lost.                                                 *)
(***************************************************************************)
EXTENDS Naturals, Sequences

CONSTANTS
  Agents,        \* updater agents that share the stack
  Admins,        \* administrators asking for updates
  MaxVersion,    \* bound: releases of each component
  Cached,        \* the server's cached release facts: [component -> [version -> facts]]
  GitHub,        \* the same facts as GitHub serves them to the agent
  Revision,      \* the Alembic head of each server version
  ClientLabelled,\* client images carry their version as a label
  PsqlWorks,     \* the agent's psql call can read alembic_version
  MaxRequests,   \* bound: rows of update_request
  MaxFaults,     \* bound: lost answers, failing steps, agent and server crashes
  None           \* no value

Components == {"server", "client"}
Versions   == 1 .. MaxVersion
Facts      == [manual : BOOLEAN, minFrom : Versions, requiresServer : Versions]

ASSUME UpdaterAssumption ==
  /\ MaxVersion \in Nat \ {0} /\ MaxRequests \in Nat /\ MaxFaults \in Nat
  /\ Cached \in [Components -> [Versions -> Facts]]
  /\ GitHub \in [Components -> [Versions -> Facts]]
  /\ Revision \in [Versions -> Nat]
  /\ \A v, w \in Versions : v <= w => Revision[v] <= Revision[w]
  /\ ClientLabelled \in BOOLEAN /\ PsqlWorks \in BOOLEAN
  /\ None \notin Nat

VARIABLES
  rows,          \* the update_request table, in requested_at order
  seen,          \* an agent polled within AGENT_ONLINE_WINDOW
  asking,        \* what an administrator's request has checked but not inserted
  env,           \* the tag .env pins for each component
  image,         \* the version each component's container was created from
  serving,       \* the component answers (readyz / the client's front page)
  schema,        \* the revision in alembic_version
  pc, job,       \* where each agent is, and the row it claimed
  told,          \* the server version of its last poll
  before,        \* env and image of the component when it claimed (history)
  backup,        \* what its backup holds
  previous,      \* the tag it will restore
  revBefore,     \* the revision it read before applying
  outcome,       \* the status it reports
  shared,        \* history: an agent polled while another had a request
  faults

table == <<rows, seen, asking>>
stack == <<env, image, serving, schema>>
agent == <<pc, job, told, before, backup, previous, revBefore, outcome>>
vars  == <<table, stack, agent, shared, faults>>

Final  == {"succeeded", "rolled_back", "failed", "needs_attention"}
Status == Final \cup {"pending", "claimed", "cancelled"}
Body   == [component : Components, target : Versions, from : Versions]
Row    == [component : Components, target : Versions, from : Versions, status : Status]
Open   == {i \in DOMAIN rows : rows[i].status \in {"pending", "claimed"}}

Locations == {"idle", "polled", "validate", "backup", "read", "apply", "recreate", "wait",
              "decide", "restore", "rerecreate", "rewait", "report"}

-----------------------------------------------------------------------------
(* The two validations: _validate of the server over its cached releases,  *)
(* validate_release of the agent over what GitHub serves.                  *)

Eligible(facts, component, target, current, server) ==
  LET f == facts[component][target] IN
  /\ target > current
  /\ ~f.manual
  /\ current >= f.minFrom
  /\ component = "client" => server >= f.requiresServer

-----------------------------------------------------------------------------
(* Administrators, served by the running server.                           *)

\* request() up to its select of open rows: the server knows its own version,
\* the client's is what the administrator's page, perhaps an old one, says ...
AdminChecks(a) ==
  /\ serving["server"] /\ asking[a] = None /\ Len(rows) < MaxRequests
  /\ \E b \in Body :
       /\ IF b.component = "server" THEN b.from = image["server"] ELSE b.from <= image["client"]
       /\ Eligible(Cached, b.component, b.target, b.from, image["server"])
       /\ asking' = [asking EXCEPT ![a] = b]
  /\ seen
  /\ Open = {}
  /\ UNCHANGED <<shared, rows, seen, stack, agent, faults>>

\* ... and its insert; no constraint of the table looks at the status.
AdminInserts(a) ==
  /\ asking[a] # None /\ Len(rows) < MaxRequests
  /\ rows' = Append(rows, [component |-> asking[a].component, target |-> asking[a].target,
                           from |-> asking[a].from, status |-> "pending"])
  /\ asking' = [asking EXCEPT ![a] = None]
  /\ UNCHANGED <<shared, seen, stack, agent, faults>>

\* A variant of Transition that does not look at the status it leaves.
TransitionAnyway(i, from, to) == rows' = [rows EXCEPT ![i].status = to]

\* _transition: compare and set on the status.
Transition(i, from, to) ==
  /\ rows[i].status = from
  /\ rows' = [rows EXCEPT ![i].status = to]

Cancel ==
  /\ serving["server"]
  /\ \E i \in DOMAIN rows : Transition(i, "pending", "cancelled")
  /\ UNCHANGED <<shared, seen, asking, stack, agent, faults>>

\* No poll for five minutes.
AgentExpires ==
  /\ seen
  /\ seen' = FALSE
  /\ UNCHANGED <<shared, rows, asking, stack, agent, faults>>

-----------------------------------------------------------------------------
(* The agent: poll, claim, validate, back up.                              *)

Goto(a, to) == pc' = [pc EXCEPT ![a] = to]

Reports(a, status) ==
  /\ Goto(a, "report")
  /\ outcome' = [outcome EXCEPT ![a] = status]

Fault == faults < MaxFaults /\ faults' = faults + 1

\* A variant of Pending that hands out open requests.
PendingOrClaimed == Open

Pending == {i \in DOMAIN rows : rows[i].status = "pending"}
Oldest  == {i \in Pending : \A j \in Pending : i <= j}

Poll(a) ==
  /\ pc[a] = "idle" /\ serving["server"]
  /\ seen' = TRUE
  /\ \/ /\ Pending = {}
        /\ UNCHANGED <<pc, job, told, shared>>
     \/ /\ Goto(a, "polled")
        /\ shared' = (shared \/ \E b \in Agents \ {a} : pc[b] # "idle")
        /\ \E i \in Oldest : job' = [job EXCEPT ![a] = i]
        /\ told' = [told EXCEPT ![a] = image["server"]]
  /\ UNCHANGED <<rows, asking, stack, before, backup, previous, revBefore, outcome, faults>>

\* A variant of Forget that keeps the request.
ForgetAllButJob(a) ==
  /\ Goto(a, "idle")
  /\ before' = [before EXCEPT ![a] = None]
  /\ backup' = [backup EXCEPT ![a] = None]
  /\ previous' = [previous EXCEPT ![a] = None]
  /\ revBefore' = [revBefore EXCEPT ![a] = None]
  /\ outcome' = [outcome EXCEPT ![a] = None]
  /\ UNCHANGED <<job, told>>

\* handle() is over: its local variables are gone.
Forget(a) ==
  /\ Goto(a, "idle")
  /\ job' = [job EXCEPT ![a] = None]
  /\ before' = [before EXCEPT ![a] = None]
  /\ backup' = [backup EXCEPT ![a] = None]
  /\ previous' = [previous EXCEPT ![a] = None]
  /\ revBefore' = [revBefore EXCEPT ![a] = None]
  /\ outcome' = [outcome EXCEPT ![a] = None]
  /\ UNCHANGED told

Target(a) == rows[job[a]].target
Part(a)   == rows[job[a]].component

\* The claim lands; a lost answer leaves the row claimed by nobody.
Claim(a) ==
  /\ pc[a] = "polled" /\ serving["server"]
  /\ Transition(job[a], "pending", "claimed")
  /\ \/ /\ Goto(a, "validate")
        /\ before' = [before EXCEPT ![a] = [env |-> env[Part(a)], image |-> image[Part(a)]]]
        /\ UNCHANGED <<job, told, backup, previous, revBefore, outcome, faults>>
     \/ Fault /\ Forget(a)
  /\ UNCHANGED <<shared, seen, asking, stack>>

\* The row is no longer pending (409), or the server is gone.
ClaimRefused(a) ==
  /\ pc[a] = "polled"
  /\ ~serving["server"] \/ rows[job[a]].status # "pending"
  /\ Forget(a)
  /\ UNCHANGED <<shared, table, stack, faults>>

\* What handle() takes for the running version of the component.
Current(a) == IF Part(a) = "server" THEN told[a]
              ELSE IF ClientLabelled THEN image["client"] ELSE rows[job[a]].from

\* A variant of Prepared that trusts the server's validation.
PreparedUnchecked(a) == TRUE

Prepared(a) == Eligible(GitHub, Part(a), Target(a), Current(a), told[a])

\* Step 1 and 2: release check, pull, signature check.
Validate(a) ==
  /\ pc[a] = "validate"
  /\ \/ Prepared(a) /\ Goto(a, "backup") /\ UNCHANGED <<outcome, faults>>
     \/ ~Prepared(a) /\ Reports(a, "failed") /\ UNCHANGED faults
     \/ Fault /\ Reports(a, "failed")
  /\ UNCHANGED <<shared, table, stack, job, told, before, backup, previous, revBefore>>

\* Step 3: the backup command.
Backup(a) ==
  /\ pc[a] = "backup"
  /\ \/ /\ Goto(a, "read")
        /\ backup' = [backup EXCEPT ![a] = schema]
        /\ UNCHANGED <<outcome, faults>>
     \/ Fault /\ Reports(a, "failed") /\ UNCHANGED backup
  /\ UNCHANGED <<shared, table, stack, job, told, before, previous, revBefore>>

-----------------------------------------------------------------------------
(* The agent: apply, wait, roll back, report.                              *)

MigrationRevision(component) ==
  IF component = "server" /\ PsqlWorks THEN schema ELSE None

ReadPrevious(a) ==
  /\ pc[a] = "read"
  /\ previous' = [previous EXCEPT ![a] = env[Part(a)]]
  /\ revBefore' = [revBefore EXCEPT ![a] = MigrationRevision(Part(a))]
  /\ Goto(a, "apply")
  /\ UNCHANGED <<shared, table, stack, job, told, before, backup, outcome, faults>>

SetEnv(a) ==
  /\ pc[a] = "apply"
  /\ env' = [env EXCEPT ![Part(a)] = Target(a)]
  /\ Goto(a, "recreate")
  /\ UNCHANGED <<shared, table, image, serving, schema, job, told, before, backup, previous, revBefore,
                 outcome, faults>>

\* docker compose up -d: the container is replaced when its tag changed; the
\* requests the old server was answering are gone with it.
Replace(component) ==
  IF image[component] = env[component] THEN UNCHANGED <<image, serving, asking>>
  ELSE /\ image' = [image EXCEPT ![component] = env[component]]
       /\ serving' = [serving EXCEPT ![component] = FALSE]
       /\ asking' = IF component = "server" THEN [d \in Admins |-> None] ELSE asking

Recreate(a) ==
  /\ pc[a] = "recreate"
  /\ \/ Replace(Part(a)) /\ Goto(a, "wait") /\ UNCHANGED faults
     \/ Fault /\ Goto(a, "decide") /\ (Replace(Part(a)) \/ UNCHANGED <<image, serving, asking>>)
  /\ UNCHANGED <<shared, rows, seen, env, schema, job, told, before, backup, previous, revBefore, outcome>>

\* wait_ready: the component answers and, where it can tell, as that version.
IsReady(component, version) ==
  /\ serving[component]
  /\ component = "server" \/ ClientLabelled => image[component] = version

Ready(a) ==
  /\ pc[a] = "wait" /\ IsReady(Part(a), Target(a))
  /\ Reports(a, "succeeded")
  /\ UNCHANGED <<shared, table, stack, job, told, before, backup, previous, revBefore, faults>>

WaitTimesOut(a) ==
  /\ pc[a] = "wait"
  /\ Goto(a, "decide")
  /\ UNCHANGED <<shared, table, stack, job, told, before, backup, previous, revBefore, outcome, faults>>

\* Roll back only if the schema is unchanged.
Decide(a) ==
  /\ pc[a] = "decide"
  /\ \/ MigrationRevision(Part(a)) # revBefore[a] /\ Reports(a, "needs_attention")
     \/ MigrationRevision(Part(a)) = revBefore[a] /\ Goto(a, "restore") /\ UNCHANGED outcome
  /\ UNCHANGED <<shared, table, stack, job, told, before, backup, previous, revBefore, faults>>

\* A variant of RestoreEnv that forgets what was there.
RestoreEnvToTarget(a) ==
  /\ pc[a] = "restore"
  /\ Goto(a, "rerecreate")
  /\ UNCHANGED <<shared, table, stack, job, told, before, backup, previous, revBefore, outcome, faults>>

RestoreEnv(a) ==
  /\ pc[a] = "restore"
  /\ env' = [env EXCEPT ![Part(a)] = previous[a]]
  /\ Goto(a, "rerecreate")
  /\ UNCHANGED <<shared, table, image, serving, schema, job, told, before, backup, previous, revBefore,
                 outcome, faults>>

RecreateOld(a) ==
  /\ pc[a] = "rerecreate"
  /\ \/ /\ Replace(Part(a)) /\ UNCHANGED faults
        /\ \/ Part(a) = "server" /\ Goto(a, "rewait") /\ UNCHANGED outcome
           \/ Part(a) = "client" /\ Reports(a, "rolled_back")
     \/ /\ Fault /\ Reports(a, "needs_attention")
        /\ Replace(Part(a)) \/ UNCHANGED <<image, serving, asking>>
  /\ UNCHANGED <<shared, rows, seen, env, schema, job, told, before, backup, previous, revBefore>>

\* The result of this wait is not looked at.
WaitOld(a) ==
  /\ pc[a] = "rewait"
  /\ Reports(a, "rolled_back")
  /\ UNCHANGED <<shared, table, stack, job, told, before, backup, previous, revBefore, faults>>

\* The report lands; when the answer is lost the agent tries again.
Report(a) ==
  /\ pc[a] = "report" /\ serving["server"]
  /\ Transition(job[a], "claimed", outcome[a])
  /\ \/ Forget(a) /\ UNCHANGED faults
     \/ Fault /\ UNCHANGED agent
  /\ UNCHANGED <<shared, seen, asking, stack>>

\* The deadline passed with no server to report to, or only refusals (409).
ReportGivesUp(a) ==
  /\ pc[a] = "report"
  /\ ~serving["server"] \/ rows[job[a]].status # "claimed"
  /\ Forget(a)
  /\ UNCHANGED <<shared, table, stack, faults>>

AgentCrashes(a) ==
  /\ pc[a] # "idle" /\ Fault
  /\ Forget(a)
  /\ UNCHANGED <<shared, table, stack>>

-----------------------------------------------------------------------------
(* The containers: docker-entrypoint.sh migrates, then serves.             *)

\* A container whose code does not know the schema's revision never starts.
Migrate ==
  /\ ~serving["server"] /\ schema < Revision[image["server"]]
  /\ schema' = Revision[image["server"]]
  /\ UNCHANGED <<shared, table, env, image, serving, agent, faults>>

Serve(c) ==
  /\ ~serving[c] /\ c = "server" => schema = Revision[image["server"]]
  /\ serving' = [serving EXCEPT ![c] = TRUE]
  /\ UNCHANGED <<shared, table, env, image, schema, agent, faults>>

ServerCrashes ==
  /\ serving["server"] /\ Fault
  /\ serving' = [serving EXCEPT !["server"] = FALSE]
  /\ asking' = [d \in Admins |-> None]
  /\ UNCHANGED <<shared, rows, seen, env, image, schema, agent>>

-----------------------------------------------------------------------------
Init ==
  /\ rows = << >> /\ seen = FALSE
  /\ asking = [d \in Admins |-> None]
  /\ env = [c \in Components |-> 1] /\ image = [c \in Components |-> 1]
  /\ serving = [c \in Components |-> TRUE]
  /\ schema = Revision[1]
  /\ pc = [a \in Agents |-> "idle"]
  /\ job = [a \in Agents |-> None] /\ told = [a \in Agents |-> 1]
  /\ before = [a \in Agents |-> None] /\ backup = [a \in Agents |-> None]
  /\ previous = [a \in Agents |-> None] /\ revBefore = [a \in Agents |-> None]
  /\ outcome = [a \in Agents |-> None]
  /\ shared = FALSE /\ faults = 0

AgentStep(a) ==
  \/ Poll(a) \/ Claim(a) \/ ClaimRefused(a) \/ Validate(a) \/ Backup(a) \/ ReadPrevious(a)
  \/ SetEnv(a) \/ Recreate(a) \/ Ready(a) \/ WaitTimesOut(a) \/ Decide(a) \/ RestoreEnv(a)
  \/ RecreateOld(a) \/ WaitOld(a) \/ Report(a) \/ ReportGivesUp(a)

AdminStep(d) == AdminChecks(d) \/ AdminInserts(d)

Next ==
  \/ \E a \in Agents : AgentStep(a) \/ AgentCrashes(a)
  \/ \E d \in Admins : AdminStep(d)
  \/ Cancel \/ AgentExpires
  \/ Migrate \/ ServerCrashes \/ \E c \in Components : Serve(c)

Spec == Init /\ [][Next]_vars

\* The agent's loop goes on; nothing promises that a container comes up.
FairAgents == \A a \in Agents : WF_vars(AgentStep(a))
FairSpec == Spec /\ FairAgents

-----------------------------------------------------------------------------
(* Properties.                                                             *)

Option(S) == S \cup {None}

\* The table, the stack and the agents' local variables have their shapes; an
\* agent has a job exactly while it is in handle() or about to enter it.
TableOK == rows \in Seq(Row) /\ seen \in BOOLEAN /\ asking \in [Admins -> Option(Body)]

StackOK ==
  /\ env \in [Components -> Versions] /\ image \in [Components -> Versions]
  /\ serving \in [Components -> BOOLEAN] /\ schema \in Nat

AgentsOK ==
  /\ pc \in [Agents -> Locations] /\ told \in [Agents -> Versions]
  /\ before \in [Agents -> Option([env : Versions, image : Versions])]
  /\ backup \in [Agents -> Option(Nat)] /\ revBefore \in [Agents -> Option(Nat)]
  /\ previous \in [Agents -> Option(Versions)]
  /\ outcome \in [Agents -> Option(Final)]

JobsOK ==
  /\ job \in [Agents -> Option(Nat)]
  /\ \A a \in Agents : /\ (pc[a] = "idle") = (job[a] = None)
                       /\ job[a] # None => job[a] \in DOMAIN rows

TypeOK ==
  TableOK /\ StackOK /\ AgentsOK /\ JobsOK /\ shared \in BOOLEAN /\ faults \in Nat

\* The agent has claimed a request.
Working(a) == pc[a] \notin {"idle", "polled"}

\* Whatever the agents poll and lose, no two of them work on one request
\* ("two agents can never both claim", update_requests.py:322).
ClaimedOnce ==
  \A a, b \in Agents : Working(a) /\ Working(b) /\ job[a] = job[b] => a = b

\* While no two agents have requests at the same time, the outcome one is about to report is
\* what it did to the stack: a failed request changed nothing, a rolled back one runs the tag .env pinned
\* when it began, a succeeded one runs its target, and when only the backup can
\* help, that backup fits the server it replaced.
OutcomeTrue ==
  \A a \in Agents : ~shared /\ pc[a] = "report" =>
    LET now == [env |-> env[Part(a)], image |-> image[Part(a)]] IN
    /\ outcome[a] = "failed" => now = before[a]
    /\ outcome[a] = "rolled_back" => now = [env |-> before[a].env, image |-> before[a].env]
    /\ outcome[a] = "succeeded" => now = [env |-> Target(a), image |-> Target(a)]
    /\ (outcome[a] = "needs_attention" /\ Part(a) = "server" /\ env["server"] = Target(a)) =>
          backup[a] = Revision[before[a].image]

\* While no two agents have requests at the same time, a container is only ever replaced by a
\* release that GitHub allows on top of what runs, or by the tag an update in progress
\* took out of .env.
OnlyEligibleReleases ==
  [][\A c \in Components : ~shared' /\ image'[c] # image[c] =>
       \/ Eligible(GitHub, c, image'[c], image[c], image["server"])
       \/ \E a \in Agents : pc[a] = "rerecreate" /\ image'[c] = before[a].env]_vars

\* Nothing in handle() waits forever, so an agent that took a request comes back: if the
\* server serves in the end, a pending request is taken or cancelled, whatever became of
\* the requests and the agents before.
RequestsAreTaken ==
  <>[]serving["server"] => \A i \in 1 .. MaxRequests :
    (i \in DOMAIN rows /\ rows[i].status = "pending")
      ~> (i \in DOMAIN rows /\ rows[i].status # "pending")
=============================================================================

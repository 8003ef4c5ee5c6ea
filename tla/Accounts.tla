------------------------------ MODULE Accounts ------------------------------
(***************************************************************************)
(* Who a request acts as.  The accounts live in the identity provider and  *)
(* are edited through the users facade (identity/users.py,                 *)
(* keycloak_admin.py); the authentication middleware (middleware.py) makes *)
(* a context from a signed token or an API key (api_keys.py), and records  *)
(* the roles it saw in subject_principal (principal.py), from which the    *)
(* keys of the same person take theirs.                                    *)
(*                                                                         *)
(* Of the roles only "admin" matters here; a person without it is "plain". *)
(* A call of the identity provider, a statement of the database or the     *)
(* code between two awaits is one step.                                    *)
(***************************************************************************)
EXTENDS Naturals, Sequences, FiniteSets

CONSTANTS
  Users,
  Procs,
  Bodies,        \* the bodies of PATCH /users/{id}
  MaxPerUser,    \* FDP_API_KEYS_MAX_PER_USER
  Instances,     \* bounds: the accounts at first, the requests the server answers at a time, the
                 \* rows of api_keys, the changes of accounts, the raising calls and restarts
  Nil

Role     == {"admin", "plain"}
Account  == [status : {"never", "enabled", "disabled", "gone"}, role : Role]
Body     == [role : Role \cup {Nil}, status : {"enabled", "disabled", Nil}, profile : BOOLEAN]

ASSUME AccountsAssumption ==
  /\ MaxPerUser \in Nat /\ Bodies \subseteq Body
  /\ Instances \subseteq [accounts : [Users -> Account], procs : SUBSET Procs,
                          rows : Nat, changes : Nat, faults : Nat]
  /\ \A i \in Instances : \E u \in Users : i.accounts[u] = [status |-> "enabled", role |-> "admin"]
  /\ Nil \notin Users \cup Role \cup {"enabled", "disabled", "updater"}

VARIABLES
  account,       \* of each user, in the identity provider
  tokens,        \* the roles in the unexpired tokens of each user
  principal,     \* subject_principal: the recorded role, or Nil
  seen,          \* _principal_seen: the role recorded in the last five minutes, or Nil
  keys,          \* the rows of api_keys
  proc,          \* the requests at work
  asserted,      \* history: the role in the last token of each user that was accepted
  lapsed,        \* history: users whose requests overlapped or whose record failed since
                 \* their last undisturbed record
  overminted,    \* history: users who minted two keys at once
  raced,         \* history: two changes of accounts overlapped, or one was made by somebody
                 \* who was no enabled administrator any more
  changes, faults,
  bound          \* the member of Instances

provider == <<account, tokens>>
server   == <<principal, seen, keys>>
history  == <<asserted, lapsed, overminted, raced>>
vars     == <<provider, server, proc, history, changes, faults, bound>>

Idle == [pc |-> "idle", user |-> Nil, role |-> Nil, key |-> 0, scope |-> Nil, target |-> Nil,
         body |-> Nil, current |-> Nil]

At(p, pc)   == proc[p].pc = pc
Go(p, pc)   == proc' = [proc EXCEPT ![p].pc = pc]
Done(p)     == proc' = [proc EXCEPT ![p] = Idle]
Fault       == faults < bound.faults /\ faults' = faults + 1

\* Another request of the same person is at work.
Busy(p, u)  == \E q \in Procs \ {p} : proc[q].user = u
\* Another request is between the checks and the last write of a change of accounts.
Changing(p) == \E q \in Procs \ {p} : proc[q].pc \in {"count", "fetch", "put", "roles", "delete"}

-----------------------------------------------------------------------------
(* The identity provider and the clocks.                                   *)

\* Signing in gives a token with the role of the moment.
SignIn(u) ==
  /\ account[u].status = "enabled" /\ account[u].role \notin tokens[u]
  /\ tokens' = [tokens EXCEPT ![u] = @ \cup {account[u].role}]
  /\ UNCHANGED <<account, server, proc, history, changes, faults, bound>>

\* (Not while every request the bound allows is at work: a newest token does not expire for want
\* of a request to present it in.)
TokenExpires(u, r) ==
  /\ r \in tokens[u]
  /\ r = account[u].role => \E p \in bound.procs : At(p, "idle")
  /\ tokens' = [tokens EXCEPT ![u] = @ \ {r}]
  /\ UNCHANGED <<account, server, proc, history, changes, faults, bound>>

\* Somebody changes the role of an account, or removes it, in the identity provider's console.
Console(u, r) ==
  /\ changes < bound.changes /\ account[u].status = "enabled"
  /\ account' = IF r = account[u].role THEN [account EXCEPT ![u].status = "gone"]
                ELSE [account EXCEPT ![u].role = r]
  /\ changes' = changes + 1 /\ raced' = TRUE
  /\ UNCHANGED <<tokens, server, proc, asserted, lapsed, overminted, faults, bound>>

\* A variant of SeenAges: what was recorded once is not recorded again.
SeenStays(u) == seen[u] # Nil /\ UNCHANGED vars

\* Five minutes since the middleware recorded the user.
SeenAges(u) ==
  /\ seen[u] # Nil
  /\ seen' = [seen EXCEPT ![u] = Nil]
  /\ UNCHANGED <<provider, principal, keys, proc, history, changes, faults, bound>>

-----------------------------------------------------------------------------
(* AuthenticationMiddleware and ApiKeyService.authenticate.                *)

\* A variant of ShouldRecord without the change of role.
ShouldRecordAged(u, r) == seen[u] = Nil

\* _should_record: the role changed, or it was recorded five minutes ago.
ShouldRecord(u, r) == seen[u] # r

\* A request with a valid token; the throttle notes the record before it is made.
Present(p, u, r) ==
  /\ At(p, "idle") /\ r \in tokens[u]
  /\ proc' = [proc EXCEPT ![p] = [Idle EXCEPT !.user = u, !.role = r,
                                  !.pc = IF ShouldRecord(u, r) THEN "record" ELSE "route"]]
  /\ seen' = IF ShouldRecord(u, r) THEN [seen EXCEPT ![u] = r] ELSE seen
  /\ asserted' = [asserted EXCEPT ![u] = r]
  /\ lapsed' = IF Busy(p, u) THEN lapsed \cup {u} ELSE lapsed
  /\ UNCHANGED <<provider, principal, keys, overminted, raced, changes, faults, bound>>

\* SubjectPrincipalRepository.record; a failure is logged and the request goes on.
Record(p) ==
  LET u == proc[p].user IN
  /\ At(p, "record") /\ Go(p, "route")
  /\ \/ /\ principal' = [principal EXCEPT ![u] = proc[p].role]
        /\ lapsed' = IF Busy(p, u) \/ proc[p].role # asserted[u] THEN lapsed ELSE lapsed \ {u}
        /\ UNCHANGED faults
     \/ Fault /\ lapsed' = lapsed \cup {u} /\ UNCHANGED principal
  /\ UNCHANGED <<provider, seen, keys, asserted, overminted, raced, changes, bound>>

Active(k) == ~keys[k].revoked /\ ~keys[k].expired

\* A request with a key: its row ...
PresentKey(p, k) ==
  /\ At(p, "idle") /\ Active(k)
  /\ proc' = [proc EXCEPT ![p] = [Idle EXCEPT !.user = keys[k].owner, !.key = k, !.pc = "resolve"]]
  /\ lapsed' = IF Busy(p, keys[k].owner) THEN lapsed \cup {keys[k].owner} ELSE lapsed
  /\ UNCHANGED <<provider, server, asserted, overminted, raced, changes, faults, bound>>

\* ... and the recorded role of its owner, or that of the day it was minted.
Live(k) == IF principal[keys[k].owner] = Nil THEN keys[k].role ELSE principal[keys[k].owner]

\* An updater key is good for the agent's routes alone, and while its owner is an administrator.
Resolve(p) ==
  /\ At(p, "resolve")
  /\ IF keys[proc[p].key].scope = "updater" THEN Done(p)
     ELSE proc' = [proc EXCEPT ![p].pc = "route", ![p].role = Live(proc[p].key)]
  /\ UNCHANGED <<provider, server, history, changes, faults, bound>>

\* Any other route, and the refusals of those below.
Other(p) ==
  /\ At(p, "route") /\ Done(p)
  /\ UNCHANGED <<provider, server, history, changes, faults, bound>>

-----------------------------------------------------------------------------
(* API keys: mint and revoke.                                              *)

\* A variant of Counted that leaves out the restricted keys.
CountedOrdinary(u) == {k \in DOMAIN keys : keys[k].owner = u /\ ~keys[k].revoked /\ keys[k].scope = Nil}

\* count_active_for_owner: the rows without a revoked_at, the expired ones among them.
Counted(u) == {k \in DOMAIN keys : keys[k].owner = u /\ ~keys[k].revoked}

\* mint up to the count; only an administrator mints a key for the updater.
CountKeys(p, scope) ==
  LET u == proc[p].user IN
  /\ At(p, "route") /\ Len(keys) < bound.rows
  /\ scope = "updater" => proc[p].role = "admin"
  /\ Cardinality(Counted(u)) < MaxPerUser
  /\ proc' = [proc EXCEPT ![p].pc = "insert", ![p].scope = scope]
  /\ overminted' = IF \E q \in Procs : proc[q].user = u /\ proc[q].pc = "insert"
                   THEN overminted \cup {u} ELSE overminted
  /\ UNCHANGED <<provider, server, asserted, lapsed, raced, changes, faults, bound>>

InsertKey(p) ==
  /\ At(p, "insert") /\ Go(p, "seed") /\ Len(keys) < bound.rows
  /\ keys' = Append(keys, [owner |-> proc[p].user, scope |-> proc[p].scope,
                           role |-> IF proc[p].scope = Nil THEN proc[p].role ELSE proc[p].scope,
                           revoked |-> FALSE, expired |-> FALSE])
  /\ UNCHANGED <<provider, principal, seen, history, changes, faults, bound>>

\* _safe_record_principal: the roles of this context, wherever they come from.
SeedPrincipal(p) ==
  /\ At(p, "seed") /\ Done(p)
  /\ \/ principal' = [principal EXCEPT ![proc[p].user] = proc[p].role] /\ UNCHANGED faults
     \/ Fault /\ UNCHANGED principal
  /\ UNCHANGED <<provider, seen, keys, history, changes, bound>>

\* The owner, or an administrator.
Revoke(p, k) ==
  /\ At(p, "route") /\ Done(p)
  /\ ~keys[k].revoked /\ (keys[k].owner = proc[p].user \/ proc[p].role = "admin")
  /\ keys' = [keys EXCEPT ![k].revoked = TRUE]
  /\ UNCHANGED <<provider, principal, seen, history, changes, faults, bound>>

KeyExpires(k) ==
  /\ Active(k)
  /\ keys' = [keys EXCEPT ![k].expired = TRUE]
  /\ UNCHANGED <<provider, principal, seen, proc, history, changes, faults, bound>>

-----------------------------------------------------------------------------
(* The users facade.  The administrator's credential may be older than the *)
(* account.                                                                *)

There(u)   == account[u].status \in {"enabled", "disabled"}
Admins     == {u \in Users : There(u) /\ account[u].role = "admin"}
Enabled(u) == account[u] = [status |-> "enabled", role |-> "admin"]

\* A variant of SelfLockout that lets administrators go.
SelfLockoutNever(p, v) == FALSE

\* _guard_not_self_lockout.
SelfLockout(p, v) == v = proc[p].user

Begins(p) ==
  /\ At(p, "route") /\ proc[p].role = "admin" /\ changes < bound.changes
  /\ changes' = changes + 1
  /\ raced' = (raced \/ Changing(p) \/ ~Enabled(proc[p].user))
  /\ UNCHANGED <<provider, server, asserted, lapsed, overminted, faults, bound>>

Removes(body) == body.role = "plain" \/ body.status = "disabled"

\* update_user: get_user before a change that takes an administrator away.
BeginUpdate(p, v, body) ==
  /\ Begins(p) /\ There(v)
  /\ Removes(body) => ~SelfLockout(p, v)
  /\ proc' = [proc EXCEPT ![p].target = v, ![p].body = body, ![p].current = account[v],
                          ![p].pc = IF Removes(body) THEN "count" ELSE "fetch"]

\* delete_user: body Nil.
BeginDelete(p, v) ==
  /\ Begins(p) /\ There(v) /\ ~SelfLockout(p, v)
  /\ proc' = [proc EXCEPT ![p].target = v, ![p].current = account[v], ![p].pc = "count"]

\* create_user: the account, and then its role.
BeginCreate(p, v) ==
  /\ At(p, "route") /\ proc[p].role = "admin" /\ changes < bound.changes
  /\ account[v].status = "never"
  /\ changes' = changes + 1
  /\ account' = [account EXCEPT ![v] = [status |-> "enabled", role |-> "plain"]]
  /\ proc' = [proc EXCEPT ![p].target = v, ![p].pc = "roles",
                          ![p].body = [role |-> "admin", status |-> Nil, profile |-> FALSE]]
  /\ raced' = (raced \/ Changing(p) \/ ~Enabled(proc[p].user))
  /\ UNCHANGED <<tokens, server, asserted, lapsed, overminted, faults, bound>>

\* _guard_not_last_admin: the members of the role, disabled ones among them.
CountAdmins(p) ==
  /\ At(p, "count")
  /\ IF proc[p].current.role = "admin" /\ Cardinality(Admins) <= 1 THEN Done(p)
     ELSE Go(p, IF proc[p].body = Nil THEN "delete" ELSE "fetch")
  /\ UNCHANGED <<provider, server, history, changes, faults, bound>>

\* KeycloakUserDirectory.update_user reads the whole account ...
Fetch(p) ==
  LET v == proc[p].target  b == proc[p].body IN
  /\ At(p, "fetch")
  /\ IF ~There(v) THEN Done(p)
     ELSE proc' = [proc EXCEPT ![p].current = account[v],
                               ![p].pc = IF b.status # Nil \/ b.profile THEN "put" ELSE "roles"]
  /\ UNCHANGED <<provider, server, history, changes, faults, bound>>

\* ... and writes it back whole, ...
PutUser(p) ==
  LET v == proc[p].target  b == proc[p].body IN
  /\ At(p, "put")
  /\ \/ /\ There(v)
        /\ account' = [account EXCEPT ![v].status = IF b.status = Nil THEN proc[p].current.status
                                                    ELSE b.status]
        /\ IF b.role = Nil THEN Done(p) ELSE Go(p, "roles")
        /\ UNCHANGED faults
     \/ ~There(v) /\ Done(p) /\ UNCHANGED <<account, faults>>
     \/ Fault /\ Done(p) /\ UNCHANGED account
  /\ UNCHANGED <<tokens, server, history, changes, bound>>

\* ... and reconciles its roles.
SetRole(p) ==
  LET v == proc[p].target IN
  /\ At(p, "roles") /\ Done(p)
  /\ \/ /\ There(v)
        /\ account' = [account EXCEPT ![v].role = IF proc[p].body.role = Nil THEN @
                                                  ELSE proc[p].body.role]
        /\ UNCHANGED faults
     \/ ~There(v) /\ UNCHANGED <<account, faults>>
     \/ Fault /\ UNCHANGED account
  /\ UNCHANGED <<tokens, server, history, changes, bound>>

DeleteUser(p) ==
  LET v == proc[p].target IN
  /\ At(p, "delete") /\ Done(p)
  /\ \/ There(v) /\ account' = [account EXCEPT ![v].status = "gone"] /\ UNCHANGED faults
     \/ ~There(v) /\ UNCHANGED <<account, faults>>
     \/ Fault /\ UNCHANGED account
  /\ UNCHANGED <<tokens, server, history, changes, bound>>

\* The server stops and starts: the requests at work and the throttle are gone.
Restart ==
  /\ Fault
  /\ proc' = [p \in Procs |-> Idle]
  /\ seen' = [u \in Users |-> Nil]
  /\ lapsed' = lapsed \cup {u \in Users : \E p \in Procs : proc[p].user = u}
  /\ UNCHANGED <<provider, principal, keys, asserted, overminted, raced, changes, bound>>

-----------------------------------------------------------------------------
Init ==
  /\ bound \in Instances /\ account = bound.accounts /\ tokens = [u \in Users |-> {}]
  /\ principal = [u \in Users |-> Nil]
  /\ seen = [u \in Users |-> Nil]
  /\ keys = << >> /\ proc = [p \in Procs |-> Idle]
  /\ asserted = [u \in Users |-> Nil] /\ lapsed = {} /\ overminted = {} /\ raced = FALSE
  /\ changes = 0 /\ faults = 0

\* A step of a request that has come in.
Serve(p) ==
  \/ Record(p) \/ Resolve(p) \/ Other(p)
  \/ \E scope \in {Nil, "updater"} : CountKeys(p, scope)
  \/ InsertKey(p) \/ SeedPrincipal(p) \/ \E k \in DOMAIN keys : Revoke(p, k)
  \/ \E v \in Users : BeginDelete(p, v) \/ BeginCreate(p, v) \/ \E b \in Bodies : BeginUpdate(p, v, b)
  \/ CountAdmins(p) \/ Fetch(p) \/ PutUser(p) \/ SetRole(p) \/ DeleteUser(p)

Next ==
  \/ \E u \in Users :
       \/ SignIn(u) \/ SeenAges(u)
       \/ \E r \in Role : TokenExpires(u, r) \/ Console(u, r)
  \/ \E p \in bound.procs :
       \/ Serve(p)
       \/ \E u \in Users, r \in Role : Present(p, u, r)
       \/ \E k \in DOMAIN keys : PresentKey(p, k)
  \/ \E k \in DOMAIN keys : KeyExpires(k)
  \/ Restart

Spec == Init /\ [][Next]_vars

\* Requests are served, clocks run, and people go on signing in, which is when their
\* recorded roles follow (ADR-0011).
FairSpec ==
  /\ Spec
  /\ \A p \in Procs : WF_vars(Serve(p))
  /\ \A u \in Users :
       /\ WF_vars(SignIn(u)) /\ WF_vars(SeenAges(u))
       /\ WF_vars(\E r \in Role \ {account[u].role} : TokenExpires(u, r))
       /\ SF_vars(\E p \in Procs : Present(p, u, account[u].role))

-----------------------------------------------------------------------------
(* Properties.                                                             *)

Key == [owner : Users, scope : {Nil, "updater"}, role : Role \cup {"updater"},
        revoked : BOOLEAN, expired : BOOLEAN]

Locations == {"idle", "record", "resolve", "route", "insert", "seed",
              "count", "fetch", "put", "roles", "delete"}

Call == [pc : Locations, user : Users \cup {Nil}, role : Role \cup {Nil}, key : Nat,
         scope : {Nil, "updater"}, target : Users \cup {Nil}, body : Body \cup {Nil}, current : Account \cup {Nil}]

\* What the registers of a request hold where it reads them.
CallOK(c) ==
  /\ c \in Call
  /\ (c.pc = "idle") = (c.user = Nil)
  /\ c.pc \notin {"idle", "resolve"} => c.role \in Role
  /\ c.pc = "resolve" => c.key \in DOMAIN keys /\ keys[c.key].owner = c.user
  /\ c.pc \in {"count", "fetch", "put", "roles", "delete"} => c.target \in Users
  /\ c.pc \in {"fetch", "put", "roles"} => c.body \in Body
  /\ c.pc \in {"count", "put"} => c.current \in Account

\* Accounts, records and keys have their types; a key without a scope has a person's role.
KeysOK == keys \in Seq(Key) /\ \A k \in DOMAIN keys : keys[k].scope = Nil => keys[k].role \in Role

DataOK ==
  /\ account \in [Users -> Account] /\ tokens \in [Users -> SUBSET Role]
  /\ principal \in [Users -> Role \cup {Nil}] /\ seen \in [Users -> Role \cup {Nil}]
  /\ asserted \in [Users -> Role \cup {Nil}] /\ lapsed \subseteq Users
  /\ overminted \subseteq Users /\ raced \in BOOLEAN
  /\ changes \in Nat /\ faults \in Nat /\ bound \in Instances

CallsOK == proc \in [Procs -> Call] /\ \A p \in Procs : CallOK(proc[p])

TypeOK == DataOK /\ KeysOK /\ CallsOK

\* The lock-out guards (ADR-0013) leave an administrator who can sign in, whatever calls
\* fail half-way, while changes take turns and only administrators make them.
AdminRemains == ~raced => \E u \in Users : Enabled(u)

\* ADR-0011: "subject_principal always holds the freshest IdP truth the FDP has seen": once the
\* requests of a person are over, unless they overlapped or the record failed, the keys of that
\* person act with the role of the token that was presented last, and not of an older one.
RecordCurrent ==
  \A u \in Users \ lapsed :
    asserted[u] # Nil /\ (\A p \in Procs : proc[p].user # u) => principal[u] = asserted[u]

\* Nobody holds more unrevoked keys than the limit, unless mints of theirs overlapped.
KeyLimit ==
  \A u \in Users \ overminted : Cardinality({k \in DOMAIN keys : keys[k].owner = u /\ ~keys[k].revoked})
                                  <= MaxPerUser

\* Whatever overlapped, failed or was lost, the record of a person who goes on signing in
\* comes to agree with the account for good, so a demoted owner's keys do not stay powerful.
RolesSettle ==
  \A u \in Users : <>[](account[u].status = "enabled" => principal[u] = account[u].role)
=============================================================================

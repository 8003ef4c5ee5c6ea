-------------------------- MODULE Accounts_proofs --------------------------
(***************************************************************************)
(* Any number of people, requests, tokens, keys, changes and faults, and   *)
(* any limit of keys: an inductive invariant of Accounts in three parts    *)
(* beside the types.  RecordInv follows a request from the token to the    *)
(* record, AdminInv a change of accounts from the guards to the last call  *)
(* of the identity provider, KeyInv a mint from the count to the insert.   *)
(***************************************************************************)
EXTENDS Accounts, FiniteSetTheorems, TLAPS

-----------------------------------------------------------------------------
(* The inductive invariants.                                               *)

\* The request of a person is the only one of that person.
Lone(u) == \A p, q \in Procs : proc[p].user = u /\ proc[q].user = u => p = q

\* It acts with the role last accepted, or has its key to resolve; unless it is about to record
\* that role, the record holds it.
Recorded(u) ==
  /\ Lone(u)
  /\ asserted[u] # Nil =>
       /\ \A p \in Procs : proc[p].user = u /\ proc[p].pc # "resolve" => proc[p].role = asserted[u]
       /\ (\A p \in Procs : proc[p].user = u => proc[p].pc # "record") => principal[u] = asserted[u]

\* The throttle notes the accepted role or nothing; records are current where nothing lapsed.
RecordInv ==
  /\ \A u \in Users : seen[u] \in {Nil, asserted[u]}
  /\ \A u \in Users \ lapsed : Recorded(u)

\* The locations between the checks of a change of accounts and its last write.
Changes == {"count", "fetch", "put", "roles", "delete"}

\* An administrator who changes accounts is enabled, and of the own account takes nothing away:
\* what is written back is what the account holds.
Sound(p) ==
  proc[p].pc \in Changes =>
    /\ Enabled(proc[p].user)
    /\ proc[p].target = proc[p].user =>
         /\ proc[p].pc \in {"fetch", "put", "roles"} /\ ~Removes(proc[p].body)
         /\ proc[p].pc = "put" => proc[p].current = account[proc[p].user]

\* Where changes took turns, an administrator remains, and at most one change is under way.
AdminInv ==
  ~raced => /\ \E u \in Users : Enabled(u)
            /\ \A p, q \in Procs : proc[p].pc \in Changes /\ proc[q].pc \in Changes => p = q
            /\ \A p \in Procs : Sound(p)

\* A mint between its count and its insert.
Inserting(p, u) == proc[p].user = u /\ proc[p].pc = "insert"

\* Where mints took turns, the rows are within the limit, and one below it before an insert.
KeyInv ==
  \A u \in Users \ overminted :
    /\ Cardinality(Counted(u)) <= MaxPerUser
    /\ \A p \in Procs : Inserting(p, u) => Cardinality(Counted(u)) < MaxPerUser
    /\ \A p, q \in Procs : Inserting(p, u) /\ Inserting(q, u) => p = q

-----------------------------------------------------------------------------
(* Types.                                                                  *)

\* A step of one request leaves the others alone.
Only(p) == proc' \in [Procs -> Call] /\ \A q \in Procs \ {p} : proc'[q] = proc[q]

\* Keys are added, revoked and expire.
KeysGrow ==
  \A k \in DOMAIN keys :
    /\ k \in DOMAIN keys' /\ keys'[k].owner = keys[k].owner /\ keys'[k].scope = keys[k].scope
    /\ keys[k].revoked => keys'[k].revoked

\* An idle process is a call of nobody.
LEMMA IdleCall == Idle \in Call /\ Idle.pc = "idle" /\ Idle.user = Nil
BY DEF Idle, Call, Locations

\* The registers of p after it has gone to another call, or has been answered.
LEMMA GoMoves ==
  ASSUME CallsOK, NEW p \in Procs, NEW to \in Locations, Go(p, to)
  PROVE  /\ Only(p) /\ proc'[p] = [proc[p] EXCEPT !.pc = to]
         /\ proc'[p].pc = to /\ proc'[p].user = proc[p].user /\ proc'[p].role = proc[p].role
         /\ proc'[p].key = proc[p].key /\ proc'[p].scope = proc[p].scope
         /\ proc'[p].target = proc[p].target /\ proc'[p].body = proc[p].body
         /\ proc'[p].current = proc[p].current
<1>1. proc \in [Procs -> Call] /\ proc[p] \in Call
  BY DEF CallsOK
<1>2. [proc[p] EXCEPT !.pc = to] \in Call
  BY <1>1 DEF Call
<1>3. proc' = [proc EXCEPT ![p] = [proc[p] EXCEPT !.pc = to]]
  BY DEF Go
<1>4. Only(p) /\ proc'[p] = [proc[p] EXCEPT !.pc = to]
  BY <1>1, <1>2, <1>3 DEF Only
<1> QED
  BY <1>1, <1>4 DEF Call

\* A request that has been answered.
LEMMA DoneMoves ==
  ASSUME CallsOK, NEW p \in Procs, Done(p)
  PROVE  Only(p) /\ proc'[p] = Idle
BY IdleCall DEF CallsOK, Done, Only

\* One call is replaced by another.
LEMMA PutMoves ==
  ASSUME CallsOK, NEW p \in Procs, NEW c \in Call, proc' = [proc EXCEPT ![p] = c]
  PROVE  Only(p) /\ proc'[p] = c
BY DEF CallsOK, Only

\* The other calls keep their types while keys are only added, revoked and expired.
LEMMA CallsStay ==
  ASSUME CallsOK, NEW p \in Procs, Only(p), CallOK(proc[p])', KeysGrow
  PROVE  CallsOK'
<1>1. ASSUME NEW q \in Procs PROVE CallOK(proc[q])'
  <2>1. CASE q = p
    BY <2>1
  <2>2. CASE q # p
    <3>1. proc'[q] = proc[q] /\ CallOK(proc[q])
      BY <2>2 DEF Only, CallsOK
    <3> QED
      BY <3>1 DEF CallOK, KeysGrow
  <2> QED
    BY <2>1, <2>2
<1> QED
  BY <1>1 DEF CallsOK, Only

\* An idle process has nothing to read.
LEMMA IdleOK == CallOK(Idle)
BY IdleCall DEF CallOK

\* An untouched table of keys.
LEMMA KeysStay == ASSUME keys' = keys PROVE KeysGrow /\ (KeysOK => KeysOK')
BY DEF KeysGrow, KeysOK

\* The type of one key.
LEMMA KeyTypes ==
  ASSUME KeysOK, NEW k \in DOMAIN keys
  PROVE  keys[k] \in Key /\ (keys[k].scope = Nil => keys[k].role \in Role)
BY DEF KeysOK

\* A key is changed but for its owner, its scope and its role.
LEMMA KeyChanges ==
  ASSUME KeysOK, NEW k \in DOMAIN keys, NEW r \in BOOLEAN, NEW e \in BOOLEAN, keys[k].revoked => r,
         keys' = [keys EXCEPT ![k] = [keys[k] EXCEPT !.revoked = r, !.expired = e]]
  PROVE  KeysGrow /\ KeysOK' /\ DOMAIN keys' = DOMAIN keys
<1> DEFINE new == [keys[k] EXCEPT !.revoked = r, !.expired = e]
<1>1. keys[k] \in Key
  BY KeyTypes
<1>2. /\ new \in Key /\ new.owner = keys[k].owner /\ new.scope = keys[k].scope
      /\ new.role = keys[k].role /\ new.revoked = r
  BY <1>1 DEF Key
<1>3. keys \in Seq(Key) /\ keys' = [keys EXCEPT ![k] = new]
  BY DEF KeysOK
<1> HIDE DEF new
<1>4. /\ keys' \in Seq(Key) /\ DOMAIN keys' = DOMAIN keys
      /\ \A j \in DOMAIN keys : keys'[j] = IF j = k THEN new ELSE keys[j]
  BY <1>2, <1>3
<1> QED
  BY <1>2, <1>4 DEF KeysGrow, KeysOK

\* The type of one call.
LEMMA ProcTypes ==
  ASSUME CallsOK, NEW p \in Procs
  PROVE  proc[p] \in Call /\ CallOK(proc[p])
BY DEF CallsOK

\* The steps that move one request on.
LEMMA MovesKeepTypes ==
  ASSUME TypeOK, NEW p \in Procs, DataOK', KeysOK', KeysGrow, Only(p), CallOK(proc[p])'
  PROVE  TypeOK'
BY CallsStay DEF TypeOK

\* The steps that answer a request and touch no key.
LEMMA IdleKeepsTypes ==
  ASSUME TypeOK, NEW p \in Procs, DataOK', keys' = keys, Done(p)
  PROVE  TypeOK'
<1>1. CallOK(proc[p])'
  BY DoneMoves, IdleCall DEF CallOK, TypeOK
<1> QED
  BY <1>1, DoneMoves, KeysStay, MovesKeepTypes DEF TypeOK

\* It goes to a location that asks no more of the registers.
LEMMA GoKeepsTypes ==
  ASSUME TypeOK, NEW p \in Procs, NEW to \in Locations, Go(p, to), DataOK', KeysOK', KeysGrow,
         proc[p].pc # "idle", to \notin {"idle", "resolve"}, proc[p].role \in Role,
         to \in Changes => proc[p].target \in Users,
         to \in {"fetch", "put", "roles"} => proc[p].body \in Body,
         to \in {"count", "put"} => proc[p].current \in Account
  PROVE  TypeOK'
<1>1. CallOK(proc[p])'
  <2>1. CallOK(proc[p])
    BY ProcTypes DEF TypeOK
  <2>2. proc'[p] \in Call
    BY GoMoves DEF TypeOK, Only
  <2> QED
    BY <2>1, <2>2, GoMoves DEF CallOK, TypeOK, Changes
<1> QED
  BY <1>1, GoMoves, MovesKeepTypes DEF TypeOK

\* The identity provider and the clocks.
LEMMA ProviderKeepsTypes ==
  ASSUME TypeOK, NEW u \in Users,
         SignIn(u) \/ SeenAges(u) \/ \E r \in Role : TokenExpires(u, r) \/ Console(u, r)
  PROVE  TypeOK'
<1>1. /\ DataOK /\ account[u] \in Account /\ account[u].role \in Role
  BY DEF TypeOK, DataOK, Account
<1>2. UNCHANGED <<keys, proc>>
  BY DEF SignIn, SeenAges, TokenExpires, Console, server
<1>3. CallsOK' /\ KeysOK'
  BY <1>2 DEF TypeOK, CallsOK, CallOK, KeysOK
<1>4. DataOK'
  <2>1. CASE SignIn(u)
    BY <1>1, <2>1 DEF SignIn, DataOK, server, history
  <2>2. CASE SeenAges(u)
    BY <1>1, <2>2 DEF SeenAges, DataOK, provider, history
  <2>3. ASSUME NEW r \in Role, TokenExpires(u, r) PROVE DataOK'
    BY <1>1, <2>3 DEF TokenExpires, DataOK, server, history
  <2>4. ASSUME NEW r \in Role, Console(u, r) PROVE DataOK'
    <3>1. account' \in [Users -> Account]
      BY <1>1, <2>4 DEF Console, DataOK, Account
    <3> QED
      BY <1>1, <2>4, <3>1 DEF Console, DataOK, server
  <2> QED
    BY <2>1, <2>2, <2>3, <2>4
<1> QED
  BY <1>3, <1>4 DEF TypeOK

\* A key expires.
LEMMA KeyExpiresKeepsTypes ==
  ASSUME TypeOK, NEW k \in DOMAIN keys, KeyExpires(k) PROVE TypeOK' /\ KeysGrow
<1>1. keys[k] \in Key
  BY KeyTypes DEF TypeOK
<1>2. keys' = [keys EXCEPT ![k] = [keys[k] EXCEPT !.revoked = keys[k].revoked, !.expired = TRUE]]
  BY <1>1 DEF KeyExpires, Key
<1>3. KeysOK' /\ KeysGrow
  BY <1>1, <1>2, KeyChanges DEF TypeOK, Key
<1>4. DataOK' /\ proc' = proc
  BY DEF KeyExpires, TypeOK, DataOK, provider, history
<1>5. CallsOK'
  BY <1>3, <1>4 DEF TypeOK, CallsOK, CallOK, KeysGrow
<1> QED
  BY <1>3, <1>4, <1>5 DEF TypeOK

\* The server stops and starts.
LEMMA RestartKeepsTypes == ASSUME TypeOK, Restart PROVE TypeOK'
<1>1. DataOK' /\ KeysOK'
  BY DEF Restart, Fault, TypeOK, DataOK, KeysOK, provider
<1>2. CallsOK'
  BY IdleCall DEF Restart, CallsOK, CallOK
<1> QED
  BY <1>1, <1>2 DEF TypeOK

\* The middleware.
LEMMA PresentKeepsTypes ==
  ASSUME TypeOK, NEW p \in Procs, NEW u \in Users, NEW r \in Role, Present(p, u, r)
  PROVE  /\ TypeOK' /\ Only(p) /\ proc'[p].user = u /\ proc'[p].role = r /\ proc[p].user = Nil
         /\ proc'[p].pc = IF seen[u] # r THEN "record" ELSE "route"
<1> DEFINE c == [Idle EXCEPT !.user = u, !.role = r,
                             !.pc = IF ShouldRecord(u, r) THEN "record" ELSE "route"]
<1>1. /\ c \in Call /\ c.user = u /\ c.role = r
      /\ c.pc = IF ShouldRecord(u, r) THEN "record" ELSE "route"
  BY DEF Idle, Call, Locations
<1>2. proc' = [proc EXCEPT ![p] = c]
  BY DEF Present
<1> HIDE DEF c
<1>3. Only(p) /\ proc'[p] = c
  BY <1>1, <1>2, PutMoves DEF TypeOK
<1>4. CallOK(proc[p])'
  BY <1>1, <1>3, AccountsAssumption DEF CallOK
<1>5. DataOK' /\ keys' = keys
  BY DEF Present, TypeOK, DataOK, provider
<1>6. proc[p].user = Nil
  BY ProcTypes DEF Present, At, TypeOK, CallOK
<1> QED
  BY <1>1, <1>3, <1>4, <1>5, <1>6, KeysStay, MovesKeepTypes DEF TypeOK, ShouldRecord

\* A request with a key comes in.
LEMMA PresentKeyKeepsTypes ==
  ASSUME TypeOK, NEW p \in Procs, NEW k \in DOMAIN keys, PresentKey(p, k)
  PROVE  /\ TypeOK' /\ Only(p) /\ proc'[p].user = keys[k].owner /\ proc'[p].pc = "resolve"
         /\ proc[p].user = Nil /\ keys[k].owner \in Users
<1> DEFINE c == [Idle EXCEPT !.user = keys[k].owner, !.key = k, !.pc = "resolve"]
<1>1. keys[k] \in Key /\ keys[k].owner \in Users /\ k \in Nat
  BY KeyTypes DEF TypeOK, Key, KeysOK
<1>2. c \in Call /\ c.user = keys[k].owner /\ c.key = k /\ c.pc = "resolve"
  BY <1>1 DEF Idle, Call, Locations
<1>3. proc' = [proc EXCEPT ![p] = c]
  BY DEF PresentKey
<1> HIDE DEF c
<1>4. Only(p) /\ proc'[p] = c
  BY <1>2, <1>3, PutMoves DEF TypeOK
<1>5. keys' = keys
  BY DEF PresentKey, server
<1>6. CallOK(proc[p])'
  BY <1>1, <1>2, <1>4, <1>5, AccountsAssumption DEF CallOK
<1>7. DataOK'
  BY <1>1 DEF PresentKey, TypeOK, DataOK, provider, server
<1>8. proc[p].user = Nil
  BY ProcTypes DEF PresentKey, At, TypeOK, CallOK
<1> QED
  BY <1>1, <1>2, <1>4, <1>5, <1>6, <1>7, <1>8, KeysStay, MovesKeepTypes DEF TypeOK

\* The middleware records the role of a token.
LEMMA RecordKeepsTypes ==
  ASSUME TypeOK, NEW p \in Procs, Record(p)
  PROVE  TypeOK' /\ proc[p].user \in Users /\ proc[p].role \in Role
<1>1. proc[p].user \in Users /\ proc[p].role \in Role /\ proc[p].pc = "record" /\ Go(p, "route")
  BY ProcTypes DEF Record, At, TypeOK, CallOK, Call
<1>2. DataOK' /\ keys' = keys
  BY <1>1 DEF Record, Fault, TypeOK, DataOK, provider
<1> QED
  BY <1>1, <1>2, KeysStay, GoKeepsTypes DEF TypeOK, Locations, Changes

\* A key resolves to the role of its owner that is recorded.
LEMMA ResolveKeepsTypes ==
  ASSUME TypeOK, NEW p \in Procs, Resolve(p)
  PROVE  /\ TypeOK' /\ Only(p) /\ proc[p].pc = "resolve" /\ proc[p].user \in Users
         /\ \/ proc'[p] = Idle
            \/ /\ proc'[p].pc = "route" /\ proc'[p].user = proc[p].user
               /\ principal[proc[p].user] # Nil => proc'[p].role = principal[proc[p].user]
<1>1. /\ proc[p].pc = "resolve" /\ proc[p] \in Call /\ proc[p].user \in Users
      /\ proc[p].key \in DOMAIN keys /\ keys[proc[p].key].owner = proc[p].user
  BY ProcTypes DEF Resolve, At, TypeOK, CallOK, Call
<1>2. DataOK' /\ keys' = keys
  BY DEF Resolve, TypeOK, DataOK, provider, server, history
<1>3. CASE Done(p)
  BY <1>1, <1>2, <1>3, DoneMoves, IdleKeepsTypes DEF TypeOK
<1>4. CASE ~Done(p)
  <2> DEFINE k == proc[p].key
             c == [proc[p] EXCEPT !.pc = "route", !.role = Live(k)]
  <2>1. keys[k] \in Key /\ (keys[k].scope = Nil => keys[k].role \in Role)
    BY <1>1, KeyTypes DEF TypeOK
  <2>2. keys[k].scope = Nil /\ proc' = [proc EXCEPT ![p] = c]
    BY <1>4, <2>1 DEF Resolve, Key
  <2>3. Live(k) \in Role /\ (principal[proc[p].user] # Nil => Live(k) = principal[proc[p].user])
    BY <1>1, <2>1, <2>2 DEF Live, TypeOK, DataOK
  <2>4. c \in Call /\ c.pc = "route" /\ c.user = proc[p].user /\ c.role = Live(k)
    BY <1>1, <2>3 DEF Call, Locations
  <2> HIDE DEF c
  <2>5. Only(p) /\ proc'[p] = c
    BY <2>2, <2>4, PutMoves DEF TypeOK
  <2>6. CallOK(proc[p])'
    BY <1>1, <2>3, <2>4, <2>5, AccountsAssumption DEF CallOK
  <2> QED
    BY <1>1, <1>2, <2>3, <2>4, <2>5, <2>6, KeysStay, MovesKeepTypes DEF TypeOK
<1> QED
  BY <1>3, <1>4

\* What a request that acts as somebody has in its registers.
LEMMA ActingTypes ==
  ASSUME TypeOK, NEW p \in Procs, proc[p].pc \notin {"idle", "resolve"}
  PROVE  proc[p] \in Call /\ proc[p].user \in Users /\ proc[p].role \in Role
BY ProcTypes DEF TypeOK, CallOK, Call

\* The key routes.
LEMMA CountKeysTypes ==
  ASSUME TypeOK, NEW p \in Procs, NEW scope \in {Nil, "updater"}, CountKeys(p, scope)
  PROVE  /\ TypeOK' /\ Only(p) /\ proc'[p].pc = "insert" /\ proc'[p].user = proc[p].user
         /\ proc'[p].role = proc[p].role /\ proc[p].user \in Users
<1> DEFINE c == [proc[p] EXCEPT !.pc = "insert", !.scope = scope]
<1>1. proc[p].pc = "route" /\ proc[p] \in Call /\ proc[p].user \in Users /\ proc[p].role \in Role
  BY ActingTypes DEF CountKeys, At
<1>2. /\ c \in Call /\ c.pc = "insert" /\ c.user = proc[p].user /\ c.role = proc[p].role
      /\ proc' = [proc EXCEPT ![p] = c]
  BY <1>1 DEF Call, Locations, CountKeys
<1> HIDE DEF c
<1>3. Only(p) /\ proc'[p] = c
  BY <1>2, PutMoves DEF TypeOK
<1>4. CallOK(proc[p])'
  BY <1>1, <1>2, <1>3, AccountsAssumption DEF CallOK
<1>5. DataOK' /\ keys' = keys
  BY <1>1 DEF CountKeys, TypeOK, DataOK, provider, server
<1> QED
  BY <1>1, <1>2, <1>3, <1>4, <1>5, KeysStay, MovesKeepTypes DEF TypeOK

\* A mint appends one row.
LEMMA InsertKeyTypes ==
  ASSUME TypeOK, NEW p \in Procs, InsertKey(p)
  PROVE  /\ TypeOK' /\ KeysGrow /\ DOMAIN keys' = DOMAIN keys \cup {Len(keys) + 1}
         /\ keys'[Len(keys) + 1].owner = proc[p].user
         /\ \A k \in DOMAIN keys : keys'[k] = keys[k]
<1> DEFINE new == [owner |-> proc[p].user, scope |-> proc[p].scope,
                   role |-> IF proc[p].scope = Nil THEN proc[p].role ELSE proc[p].scope,
                   revoked |-> FALSE, expired |-> FALSE]
<1>1. proc[p].pc = "insert" /\ proc[p] \in Call /\ proc[p].user \in Users /\ proc[p].role \in Role
  BY ActingTypes DEF InsertKey, At
<1>2. new \in Key /\ (new.scope = Nil => new.role \in Role) /\ new.owner = proc[p].user
  BY <1>1 DEF Call, Key
<1>3. keys' = Append(keys, new) /\ keys \in Seq(Key)
  BY DEF InsertKey, TypeOK, KeysOK
<1> HIDE DEF new
<1>4. /\ keys' \in Seq(Key) /\ DOMAIN keys' = DOMAIN keys \cup {Len(keys) + 1}
      /\ keys'[Len(keys) + 1] = new /\ \A k \in DOMAIN keys : keys'[k] = keys[k]
  BY <1>2, <1>3
<1>5. KeysOK' /\ KeysGrow
  BY <1>2, <1>4 DEF KeysOK, KeysGrow, TypeOK
<1>6. DataOK' /\ Go(p, "seed")
  BY DEF InsertKey, TypeOK, DataOK, provider, history
<1> QED
  BY <1>1, <1>2, <1>4, <1>5, <1>6, GoKeepsTypes DEF Locations, Changes

\* A mint seeds the record.
LEMMA SeedTypes ==
  ASSUME TypeOK, NEW p \in Procs, SeedPrincipal(p)
  PROVE  TypeOK' /\ proc[p].user \in Users /\ proc[p].role \in Role
<1>1. proc[p].user \in Users /\ proc[p].role \in Role
  BY ActingTypes DEF SeedPrincipal, At
<1>2. DataOK' /\ keys' = keys /\ Done(p)
  BY <1>1 DEF SeedPrincipal, Fault, TypeOK, DataOK, provider, history
<1> QED
  BY <1>1, <1>2, IdleKeepsTypes

\* A key is revoked.
LEMMA RevokeTypes ==
  ASSUME TypeOK, NEW p \in Procs, NEW k \in DOMAIN keys, Revoke(p, k)
  PROVE  TypeOK' /\ KeysGrow /\ DOMAIN keys' = DOMAIN keys
<1>1. keys[k] \in Key
  BY KeyTypes DEF TypeOK
<1>2. keys' = [keys EXCEPT ![k] = [keys[k] EXCEPT !.revoked = TRUE, !.expired = keys[k].expired]]
  BY <1>1 DEF Revoke, Key
<1>3. KeysOK' /\ KeysGrow /\ DOMAIN keys' = DOMAIN keys
  BY <1>1, <1>2, KeyChanges DEF TypeOK, Key
<1>4. DataOK' /\ Done(p)
  BY DEF Revoke, TypeOK, DataOK, provider, history
<1>5. CallOK(proc[p])'
  BY <1>4, DoneMoves, IdleCall DEF CallOK, TypeOK
<1> QED
  BY <1>3, <1>4, <1>5, DoneMoves, MovesKeepTypes DEF TypeOK

\* The routes of the administrators: a change begins.
LEMMA BeginUpdateTypes ==
  ASSUME TypeOK, NEW p \in Procs, NEW v \in Users, NEW body \in Body, BeginUpdate(p, v, body)
  PROVE  /\ TypeOK' /\ Only(p) /\ proc'[p].user = proc[p].user /\ proc'[p].role = proc[p].role
         /\ proc'[p].target = v /\ proc'[p].body = body
         /\ proc'[p].pc = IF Removes(body) THEN "count" ELSE "fetch"
<1> DEFINE c == [proc[p] EXCEPT !.target = v, !.body = body, !.current = account[v],
                                !.pc = IF Removes(body) THEN "count" ELSE "fetch"]
<1>1. proc[p].pc = "route" /\ proc[p] \in Call /\ proc[p].user \in Users /\ proc[p].role \in Role
  BY ActingTypes DEF BeginUpdate, Begins, At
<1>2. account[v] \in Account
  BY DEF TypeOK, DataOK
<1>3. /\ c \in Call /\ c.pc = IF Removes(body) THEN "count" ELSE "fetch"
      /\ c.user = proc[p].user /\ c.role = proc[p].role /\ c.target = v /\ c.body = body
      /\ c.current = account[v] /\ proc' = [proc EXCEPT ![p] = c]
  BY <1>1, <1>2 DEF Call, Locations, BeginUpdate
<1> HIDE DEF c
<1>4. Only(p) /\ proc'[p] = c
  BY <1>3, PutMoves DEF TypeOK
<1>5. CallOK(proc[p])'
  BY <1>1, <1>2, <1>3, <1>4, AccountsAssumption DEF CallOK
<1>6. DataOK' /\ keys' = keys
  BY DEF BeginUpdate, Begins, TypeOK, DataOK, provider, server
<1> QED
  BY <1>3, <1>4, <1>5, <1>6, KeysStay, MovesKeepTypes DEF TypeOK

\* The removal of an account begins.
LEMMA BeginDeleteTypes ==
  ASSUME TypeOK, NEW p \in Procs, NEW v \in Users, BeginDelete(p, v)
  PROVE  /\ TypeOK' /\ Only(p) /\ proc'[p].user = proc[p].user /\ proc'[p].role = proc[p].role
         /\ proc'[p].target = v /\ proc'[p].pc = "count"
<1> DEFINE c == [proc[p] EXCEPT !.target = v, !.current = account[v], !.pc = "count"]
<1>1. proc[p].pc = "route" /\ proc[p] \in Call /\ proc[p].user \in Users /\ proc[p].role \in Role
  BY ActingTypes DEF BeginDelete, Begins, At
<1>2. account[v] \in Account
  BY DEF TypeOK, DataOK
<1>3. /\ c \in Call /\ c.pc = "count" /\ c.user = proc[p].user /\ c.role = proc[p].role /\ c.target = v
      /\ c.current = account[v] /\ proc' = [proc EXCEPT ![p] = c]
  BY <1>1, <1>2 DEF Call, Locations, BeginDelete
<1> HIDE DEF c
<1>4. Only(p) /\ proc'[p] = c
  BY <1>3, PutMoves DEF TypeOK
<1>5. CallOK(proc[p])'
  BY <1>1, <1>2, <1>3, <1>4, AccountsAssumption DEF CallOK
<1>6. DataOK' /\ keys' = keys
  BY DEF BeginDelete, Begins, TypeOK, DataOK, provider, server
<1> QED
  BY <1>3, <1>4, <1>5, <1>6, KeysStay, MovesKeepTypes DEF TypeOK

\* An account is made, and its role is still to be set.
LEMMA BeginCreateTypes ==
  ASSUME TypeOK, NEW p \in Procs, NEW v \in Users, BeginCreate(p, v)
  PROVE  /\ TypeOK' /\ Only(p) /\ proc'[p].user = proc[p].user /\ proc'[p].role = proc[p].role
         /\ proc'[p].target = v /\ proc'[p].pc = "roles"
         /\ account'[v] = [status |-> "enabled", role |-> "plain"]
         /\ \A u \in Users \ {v} : account'[u] = account[u]
<1> DEFINE b == [role |-> "admin", status |-> Nil, profile |-> FALSE]
           new == [status |-> "enabled", role |-> "plain"]
           c == [proc[p] EXCEPT !.target = v, !.pc = "roles", !.body = b]
<1>1. proc[p].pc = "route" /\ proc[p] \in Call /\ proc[p].user \in Users /\ proc[p].role \in Role
  BY ActingTypes DEF BeginCreate, At
<1>2. b \in Body /\ new \in Account
  BY DEF Body, Account, Role
<1>3. proc' = [proc EXCEPT ![p] = c] /\ account' = [account EXCEPT ![v] = new]
  BY DEF BeginCreate
<1> HIDE DEF b, new
<1>4. /\ c \in Call /\ c.pc = "roles" /\ c.user = proc[p].user /\ c.role = proc[p].role
      /\ c.target = v /\ c.body = b
  BY <1>1, <1>2 DEF Call, Locations
<1> HIDE DEF c
<1>5. Only(p) /\ proc'[p] = c
  BY <1>3, <1>4, PutMoves DEF TypeOK
<1>6. CallOK(proc[p])'
  BY <1>1, <1>2, <1>4, <1>5, AccountsAssumption DEF CallOK
<1>7. /\ account' \in [Users -> Account] /\ account'[v] = new
      /\ \A u \in Users \ {v} : account'[u] = account[u]
  BY <1>2, <1>3 DEF TypeOK, DataOK
<1>8. DataOK' /\ keys' = keys
  BY <1>7 DEF BeginCreate, TypeOK, DataOK, server
<1> QED
  BY <1>4, <1>5, <1>6, <1>7, <1>8, KeysStay, MovesKeepTypes DEF TypeOK, new

\* The guard and the calls of the identity provider.
LEMMA ChangeTypes ==
  ASSUME TypeOK, NEW p \in Procs, proc[p].pc \in Changes
  PROVE  /\ proc[p] \in Call /\ proc[p].user \in Users /\ proc[p].role \in Role
         /\ proc[p].target \in Users
         /\ proc[p].pc \in {"fetch", "put", "roles"} => proc[p].body \in Body
BY ProcTypes DEF TypeOK, CallOK, Changes, Call

\* The guard of the last administrator.
LEMMA CountAdminsTypes ==
  ASSUME TypeOK, NEW p \in Procs, CountAdmins(p)
  PROVE  TypeOK' /\ UNCHANGED <<account, raced>>
<1>1. proc[p].pc = "count" /\ proc[p].body \in Body \cup {Nil}
  BY ProcTypes DEF CountAdmins, At, TypeOK, CallOK, Call
<1>2. DataOK' /\ keys' = keys
  BY DEF CountAdmins, TypeOK, DataOK, provider, server, history
<1>3. CASE Done(p)
  BY <1>2, <1>3, IdleKeepsTypes DEF CountAdmins, provider, history
<1>4. CASE Go(p, IF proc[p].body = Nil THEN "delete" ELSE "fetch")
  BY <1>1, <1>2, <1>4, ChangeTypes, KeysStay, GoKeepsTypes
  DEF CountAdmins, provider, history, Changes, Locations, TypeOK
<1> QED
  BY <1>3, <1>4 DEF CountAdmins

\* The account is read into the register.
LEMMA FetchTypes ==
  ASSUME TypeOK, NEW p \in Procs, Fetch(p)
  PROVE  /\ TypeOK' /\ Only(p)
         /\ \/ proc'[p] = Idle
            \/ /\ proc'[p].user = proc[p].user /\ proc'[p].role = proc[p].role
               /\ proc'[p].target = proc[p].target /\ proc'[p].body = proc[p].body
               /\ proc'[p].current = account[proc[p].target] /\ proc'[p].pc \in {"put", "roles"}
<1> DEFINE v == proc[p].target
           to == IF proc[p].body.status # Nil \/ proc[p].body.profile THEN "put" ELSE "roles"
           c == [proc[p] EXCEPT !.current = account[v], !.pc = to]
<1>1. /\ proc[p].pc = "fetch" /\ proc[p] \in Call /\ proc[p].user \in Users /\ proc[p].role \in Role
      /\ v \in Users /\ proc[p].body \in Body /\ account[v] \in Account
  BY ChangeTypes DEF Fetch, At, Changes, TypeOK, DataOK
<1>2. DataOK' /\ keys' = keys
  BY DEF Fetch, TypeOK, DataOK, provider, server, history
<1>3. CASE Done(p)
  BY <1>2, <1>3, IdleKeepsTypes, DoneMoves DEF TypeOK
<1>4. CASE proc' = [proc EXCEPT ![p] = c]
  <2>1. to \in {"put", "roles"}
    OBVIOUS
  <2> HIDE DEF to
  <2>2. /\ c \in Call /\ c.pc = to /\ c.user = proc[p].user /\ c.role = proc[p].role /\ c.target = v
        /\ c.body = proc[p].body /\ c.current = account[v]
    BY <1>1, <2>1 DEF Call, Locations
  <2> HIDE DEF c
  <2>3. Only(p) /\ proc'[p] = c
    BY <1>4, <2>2, PutMoves DEF TypeOK
  <2>4. CallOK(proc[p])'
    BY <1>1, <2>1, <2>2, <2>3, AccountsAssumption DEF CallOK
  <2> QED
    BY <1>2, <2>1, <2>2, <2>3, <2>4, KeysStay, MovesKeepTypes DEF TypeOK
<1> QED
  BY <1>3, <1>4 DEF Fetch

\* The writes touch the target's account alone.
LEMMA WritesTypes ==
  ASSUME TypeOK, NEW p \in Procs, PutUser(p) \/ SetRole(p) \/ DeleteUser(p)
  PROVE  /\ TypeOK' /\ raced' = raced
         /\ account' \in [Users -> Account]
         /\ \A u \in Users \ {proc[p].target} : account'[u] = account[u]
<1> DEFINE v == proc[p].target
<1>1. /\ proc[p].pc \in {"put", "roles", "delete"} /\ proc[p] \in Call /\ v \in Users
      /\ proc[p].pc # "delete" => proc[p].body \in Body
      /\ proc[p].pc = "put" => proc[p].current \in Account
  BY ChangeTypes, ProcTypes DEF PutUser, SetRole, DeleteUser, At, Changes, TypeOK, CallOK
<1>2. account \in [Users -> Account] /\ account[v] \in Account
  BY <1>1 DEF TypeOK, DataOK
<1>3. account' \in [Users -> Account] /\ \A u \in Users \ {v} : account'[u] = account[u]
  <2>1. CASE PutUser(p)
    <3>1. proc[p].pc = "put"
      BY <2>1 DEF PutUser, At
    <3>2. CASE account' = account
      BY <1>2, <3>2
    <3>3. CASE account' = [account EXCEPT ![v].status = IF proc[p].body.status = Nil
                             THEN proc[p].current.status ELSE proc[p].body.status]
      <4>1. (IF proc[p].body.status = Nil THEN proc[p].current.status ELSE proc[p].body.status)
              \in {"never", "enabled", "disabled", "gone"}
        BY <1>1, <3>1 DEF Body, Account
      <4> QED
        BY <1>1, <1>2, <3>3, <4>1 DEF Account
    <3> QED
      BY <2>1, <3>2, <3>3 DEF PutUser
  <2>2. CASE SetRole(p)
    <3>1. proc[p].pc = "roles"
      BY <2>2 DEF SetRole, At
    <3>2. CASE account' = account
      BY <1>2, <3>2
    <3>3. CASE account' = [account EXCEPT ![v].role = IF proc[p].body.role = Nil THEN @
                                                      ELSE proc[p].body.role]
      <4>1. (IF proc[p].body.role = Nil THEN account[v].role ELSE proc[p].body.role) \in Role
        BY <1>1, <1>2, <3>1 DEF Body, Account
      <4> QED
        BY <1>1, <1>2, <3>3, <4>1 DEF Account
    <3> QED
      BY <2>2, <3>2, <3>3 DEF SetRole
  <2>3. CASE DeleteUser(p)
    BY <1>1, <1>2, <2>3 DEF DeleteUser, Account
  <2> QED
    BY <2>1, <2>2, <2>3
<1>4. DataOK' /\ keys' = keys /\ raced' = raced
  BY <1>3 DEF PutUser, SetRole, DeleteUser, Fault, TypeOK, DataOK, server, history
<1>5. CASE Done(p)
  BY <1>3, <1>4, <1>5, IdleKeepsTypes
<1>6. CASE Go(p, "roles") /\ proc[p].pc = "put"
  BY <1>1, <1>3, <1>4, <1>6, ChangeTypes, KeysStay, GoKeepsTypes DEF Changes, Locations, TypeOK
<1> QED
  BY <1>5, <1>6 DEF PutUser, SetRole, DeleteUser, At

\* Any other route.
LEMMA OtherTypes ==
  ASSUME TypeOK, NEW p \in Procs, Other(p) PROVE TypeOK'
<1>1. DataOK' /\ keys' = keys /\ Done(p)
  BY DEF Other, TypeOK, DataOK, provider, server, history
<1> QED
  BY <1>1, IdleKeepsTypes

\* The bodies are bodies.
LEMMA Bounds == \A b \in Bodies : b \in Body
BY AccountsAssumption

\* The processes of the bound are processes.
LEMMA BoundProcs == ASSUME TypeOK PROVE bound.procs \subseteq Procs
BY AccountsAssumption DEF TypeOK, DataOK

\* Every step of a request.
LEMMA ServeKeepsTypes ==
  ASSUME TypeOK, NEW p \in Procs, Serve(p) PROVE TypeOK'
<1>1. CASE Record(p) \/ Resolve(p) \/ Other(p)
  BY <1>1, RecordKeepsTypes, ResolveKeepsTypes, OtherTypes
<1>2. ASSUME NEW scope \in {Nil, "updater"}, CountKeys(p, scope) PROVE TypeOK'
  BY <1>2, CountKeysTypes
<1>3. CASE InsertKey(p) \/ SeedPrincipal(p) \/ \E k \in DOMAIN keys : Revoke(p, k)
  BY <1>3, InsertKeyTypes, SeedTypes, RevokeTypes
<1>4. ASSUME NEW v \in Users, BeginDelete(p, v) \/ BeginCreate(p, v) PROVE TypeOK'
  BY <1>4, BeginDeleteTypes, BeginCreateTypes
<1>5. ASSUME NEW v \in Users, NEW b \in Bodies, BeginUpdate(p, v, b) PROVE TypeOK'
  BY <1>5, Bounds, BeginUpdateTypes
<1>6. CASE CountAdmins(p) \/ Fetch(p) \/ PutUser(p) \/ SetRole(p) \/ DeleteUser(p)
  BY <1>6, CountAdminsTypes, FetchTypes, WritesTypes
<1> QED
  BY <1>1, <1>2, <1>3, <1>4, <1>5, <1>6 DEF Serve

\* The types at the start, and in every step.
LEMMA TypesInitially == ASSUME Init PROVE TypeOK
<1>1. bound \in Instances /\ bound.accounts \in [Users -> Account]
  BY AccountsAssumption DEF Init
<1>2. DataOK
  BY <1>1 DEF Init, DataOK
<1>4. KeysOK
  BY DEF Init, KeysOK
<1>3. CallsOK
  BY IdleCall, IdleOK DEF Init, CallsOK
<1> QED
  BY <1>2, <1>3, <1>4 DEF TypeOK

LEMMA TypesKept == ASSUME TypeOK, [Next]_vars PROVE TypeOK'
<1>1. CASE UNCHANGED vars
  BY <1>1 DEF vars, provider, server, history, TypeOK, DataOK, KeysOK, CallsOK, CallOK
<1>2. ASSUME NEW u \in Users,
             SignIn(u) \/ SeenAges(u) \/ \E r \in Role : TokenExpires(u, r) \/ Console(u, r)
      PROVE TypeOK'
  BY <1>2, ProviderKeepsTypes
<1>3. ASSUME NEW p \in bound.procs,
             Serve(p) \/ (\E u \in Users, r \in Role : Present(p, u, r))
               \/ (\E k \in DOMAIN keys : PresentKey(p, k))
      PROVE TypeOK'
  BY <1>3, BoundProcs, ServeKeepsTypes, PresentKeepsTypes, PresentKeyKeepsTypes
<1>4. ASSUME NEW k \in DOMAIN keys, KeyExpires(k) PROVE TypeOK'
  BY <1>4, KeyExpiresKeepsTypes
<1>5. CASE Restart
  BY <1>5, RestartKeepsTypes
<1> QED
  BY <1>1, <1>2, <1>3, <1>4, <1>5 DEF Next

-----------------------------------------------------------------------------
(* The records of the roles.                                               *)

\* A request that acts as somebody goes on as the same, or is answered.
Moves(p) ==
  /\ Only(p) /\ proc[p].pc \notin {"idle", "record", "resolve"}
  /\ \/ proc'[p] = Idle
     \/ /\ proc'[p].user = proc[p].user /\ proc'[p].role = proc[p].role
        /\ proc'[p].pc \notin {"idle", "record", "resolve"}

\* The steps of the routes.
Works(p) ==
  \/ Other(p) \/ \E scope \in {Nil, "updater"} : CountKeys(p, scope)
  \/ InsertKey(p) \/ SeedPrincipal(p) \/ \E k \in DOMAIN keys : Revoke(p, k)
  \/ \E v \in Users : BeginDelete(p, v) \/ BeginCreate(p, v) \/ \E b \in Bodies : BeginUpdate(p, v, b)
  \/ CountAdmins(p) \/ Fetch(p) \/ PutUser(p) \/ SetRole(p) \/ DeleteUser(p)

\* A step of a route moves its request, and notes nothing about tokens.
LEMMA WorkMoves ==
  ASSUME TypeOK, NEW p \in Procs, Works(p)
  PROVE  Moves(p) /\ UNCHANGED <<seen, asserted, lapsed>>
<1>1. ASSUME proc[p].pc \notin {"idle", "record", "resolve"}, Done(p) PROVE Moves(p)
  BY <1>1, DoneMoves DEF Moves, TypeOK
<1>2. ASSUME NEW to \in {"seed", "roles", "delete", "fetch"}, Go(p, to),
             proc[p].pc \notin {"idle", "record", "resolve"}
      PROVE  Moves(p)
  BY <1>2, GoMoves DEF Moves, TypeOK, Locations
<1>3. CASE Other(p) \/ SeedPrincipal(p) \/ \E k \in DOMAIN keys : Revoke(p, k)
  BY <1>1, <1>3 DEF Other, SeedPrincipal, Revoke, At, server, history
<1>4. ASSUME NEW scope \in {Nil, "updater"}, CountKeys(p, scope)
      PROVE  Moves(p) /\ UNCHANGED <<seen, asserted, lapsed>>
  BY <1>4, CountKeysTypes DEF CountKeys, At, Moves, server
<1>5. CASE InsertKey(p)
  BY <1>2, <1>5 DEF InsertKey, At, history
<1>6. ASSUME NEW v \in Users, BeginDelete(p, v)
      PROVE  Moves(p) /\ UNCHANGED <<seen, asserted, lapsed>>
  BY <1>6, BeginDeleteTypes DEF BeginDelete, Begins, At, Moves, server
<1>7. ASSUME NEW v \in Users, BeginCreate(p, v)
      PROVE  Moves(p) /\ UNCHANGED <<seen, asserted, lapsed>>
  BY <1>7, BeginCreateTypes DEF BeginCreate, At, Moves, server
<1>8. ASSUME NEW v \in Users, NEW b \in Bodies, BeginUpdate(p, v, b)
      PROVE  Moves(p) /\ UNCHANGED <<seen, asserted, lapsed>>
  <2>1. b \in Body /\ proc[p].pc = "route" /\ UNCHANGED <<seen, asserted, lapsed>>
    BY <1>8, Bounds DEF BeginUpdate, Begins, At, server
  <2> QED
    BY <1>8, <2>1, BeginUpdateTypes DEF Moves
<1>9. CASE CountAdmins(p)
  BY <1>1, <1>2, <1>9 DEF CountAdmins, At, server, history
<1>10. CASE Fetch(p)
  BY <1>10, FetchTypes DEF Fetch, At, Moves, server, history
<1>11. CASE PutUser(p) \/ SetRole(p) \/ DeleteUser(p)
  BY <1>1, <1>2, <1>11 DEF PutUser, SetRole, DeleteUser, At, server, history
<1> QED
  BY <1>3, <1>4, <1>5, <1>6, <1>7, <1>8, <1>9, <1>10, <1>11 DEF Works

\* The record itself is written by the middleware and after a mint.
LEMMA WorkRecords ==
  ASSUME NEW p \in Procs, Works(p)
  PROVE  principal' = principal \/ SeedPrincipal(p)
BY DEF Works, Other, CountKeys, InsertKey, Revoke, BeginDelete, BeginCreate, BeginUpdate, Begins,
       CountAdmins, Fetch, PutUser, SetRole, DeleteUser, server

\* The routes keep the records current: a mint seeds what its request acts with.
LEMMA WorksKeepRecords ==
  ASSUME TypeOK, RecordInv, NEW p \in Procs, Works(p)
  PROVE  RecordInv'
<1>1. Moves(p) /\ UNCHANGED <<seen, asserted, lapsed>>
  BY WorkMoves
<1>2. ASSUME NEW u \in Users \ lapsed PROVE Recorded(u)'
  <2>1. Recorded(u)
    BY <1>2 DEF RecordInv
  <2>2. Lone(u)'
    <3>1. \A q \in Procs : proc'[q].user = u => proc[q].user = u
      BY IdleCall, AccountsAssumption, <1>1 DEF Moves, Only
    <3> QED
      BY <2>1, <3>1 DEF Recorded, Lone
  <2>3. ASSUME asserted[u] # Nil, NEW q \in Procs, proc'[q].user = u, proc'[q].pc # "resolve"
        PROVE  proc'[q].role = asserted[u]
    BY <1>1, <2>1, <2>3, IdleCall, AccountsAssumption DEF Moves, Only, Recorded
  <2>4. ASSUME asserted[u] # Nil, \A q \in Procs : proc'[q].user = u => proc'[q].pc # "record"
        PROVE  principal'[u] = asserted[u]
    <3>1. \A q \in Procs : proc[q].user = u => proc[q].pc # "record"
      BY <1>1, <2>4 DEF Moves, Only
    <3>2. principal[u] = asserted[u]
      BY <2>1, <2>4, <3>1 DEF Recorded
    <3>3. CASE SeedPrincipal(p) /\ proc[p].user = u
      <4>1. proc[p].role = asserted[u]
        BY <1>1, <2>1, <2>4, <3>3 DEF Moves, Recorded
      <4> QED
        BY <3>2, <3>3, <4>1 DEF SeedPrincipal, TypeOK, DataOK
    <3>4. CASE SeedPrincipal(p) /\ proc[p].user # u
      BY <3>2, <3>4 DEF SeedPrincipal, TypeOK, DataOK
    <3> QED
      BY <3>2, <3>3, <3>4, WorkRecords
  <2> QED
    BY <1>1, <2>2, <2>3, <2>4 DEF Recorded
<1> QED
  BY <1>1, <1>2 DEF RecordInv

\* A token is accepted: its role is recorded next, or was already.
LEMMA PresentKeepsRecords ==
  ASSUME TypeOK, RecordInv, NEW p \in Procs, NEW u \in Users, NEW r \in Role, Present(p, u, r)
  PROVE  RecordInv'
<1>1. /\ Only(p) /\ proc'[p].user = u /\ proc'[p].role = r /\ proc[p].user = Nil
      /\ proc'[p].pc = IF seen[u] # r THEN "record" ELSE "route"
  BY PresentKeepsTypes
<1>2. /\ asserted' = [asserted EXCEPT ![u] = r] /\ principal' = principal
      /\ seen'[u] = r /\ asserted'[u] = r
      /\ \A w \in Users \ {u} : seen'[w] = seen[w] /\ asserted'[w] = asserted[w]
      /\ lapsed' = IF Busy(p, u) THEN lapsed \cup {u} ELSE lapsed
  BY DEF Present, ShouldRecord, TypeOK, DataOK
<1>3. \A w \in Users : seen'[w] \in {Nil, asserted'[w]}
  BY <1>2 DEF RecordInv
<1>4. ASSUME NEW w \in Users \ lapsed', w # u PROVE Recorded(w)'
  <2>1. Recorded(w)
    BY <1>2, <1>4 DEF RecordInv
  <2>2. \A q \in Procs : proc'[q].user = w => q # p /\ proc'[q] = proc[q]
    BY <1>1, <1>4 DEF Only
  <2>3. \A q \in Procs : proc[q].user = w => q # p /\ proc'[q] = proc[q]
    BY <1>1, <1>4, AccountsAssumption DEF Only
  <2> QED
    BY <1>2, <1>4, <2>1, <2>2, <2>3 DEF Recorded, Lone
<1>5. ASSUME u \notin lapsed' PROVE Recorded(u)'
  <2>1. Recorded(u) /\ \A q \in Procs : proc[q].user # u
    BY <1>1, <1>2, <1>5, AccountsAssumption DEF RecordInv, Busy
  <2>2. \A q \in Procs : proc'[q].user = u => q = p
    BY <1>1, <2>1 DEF Only
  <2>3. proc'[p].pc # "record" => principal[u] = r
    <3>1. proc'[p].pc # "record" => seen[u] = r
      BY <1>1
    <3>2. seen[u] = r => asserted[u] = r
      BY AccountsAssumption DEF RecordInv
    <3> QED
      BY <2>1, <3>1, <3>2, AccountsAssumption DEF Recorded
  <2> QED
    BY <1>1, <1>2, <2>2, <2>3 DEF Recorded, Lone
<1> QED
  BY <1>3, <1>4, <1>5 DEF RecordInv

\* A key is accepted: nobody of the same person is at work, or the person lapses.
LEMMA PresentKeyKeepsRecords ==
  ASSUME TypeOK, RecordInv, NEW p \in Procs, NEW k \in DOMAIN keys, PresentKey(p, k)
  PROVE  RecordInv'
<1> DEFINE u == keys[k].owner
<1>1. Only(p) /\ proc'[p].user = u /\ proc'[p].pc = "resolve" /\ proc[p].user = Nil /\ u \in Users
  BY PresentKeyKeepsTypes
<1>2. /\ UNCHANGED <<asserted, principal, seen>>
      /\ lapsed' = IF Busy(p, u) THEN lapsed \cup {u} ELSE lapsed
  BY DEF PresentKey, server
<1>3. ASSUME NEW w \in Users \ lapsed' PROVE Recorded(w)'
  <2>1. Recorded(w)
    BY <1>2, <1>3 DEF RecordInv
  <2>2. CASE w # u
    <3>1. \A q \in Procs : proc'[q].user = w => q # p /\ proc'[q] = proc[q]
      BY <1>1, <2>2 DEF Only
    <3>2. \A q \in Procs : proc[q].user = w => q # p /\ proc'[q] = proc[q]
      BY <1>1, <1>3, AccountsAssumption DEF Only
    <3> QED
      BY <1>2, <2>1, <3>1, <3>2 DEF Recorded, Lone
  <2>3. CASE w = u
    <3>1. \A q \in Procs : proc[q].user # u
      BY <1>1, <1>2, <1>3, <2>3, AccountsAssumption DEF Busy
    <3>2. \A q \in Procs : proc'[q].user = u => q = p
      BY <1>1, <3>1 DEF Only
    <3> QED
      BY <1>1, <1>2, <2>1, <2>3, <3>1, <3>2 DEF Recorded, Lone
  <2> QED
    BY <2>2, <2>3
<1> QED
  BY <1>2, <1>3 DEF RecordInv

\* The record is made, or fails and the person lapses.
LEMMA RecordKeepsRecords ==
  ASSUME TypeOK, RecordInv, NEW p \in Procs, Record(p)
  PROVE  RecordInv'
<1>1. PICK u \in Users : u = proc[p].user
  BY RecordKeepsTypes
<1>2. /\ Only(p) /\ proc[p].pc = "record" /\ proc'[p].pc = "route" /\ proc'[p].user = u
      /\ proc'[p].role = proc[p].role
  BY <1>1, GoMoves DEF Record, At, TypeOK, Locations
<1>3. UNCHANGED <<seen, asserted>>
  BY DEF Record
<1>4. ASSUME NEW w \in Users \ lapsed', w # u PROVE Recorded(w)'
  <2>1. Recorded(w) /\ principal'[w] = principal[w]
    BY <1>1, <1>4 DEF RecordInv, Record, TypeOK, DataOK
  <2>2. \A q \in Procs : proc'[q].user = w => q # p /\ proc'[q] = proc[q]
    BY <1>1, <1>2, <1>4 DEF Only
  <2>3. \A q \in Procs : proc[q].user = w => q # p /\ proc'[q] = proc[q]
    BY <1>1, <1>2, <1>4 DEF Only
  <2> QED
    BY <1>3, <2>1, <2>2, <2>3 DEF Recorded, Lone
<1>5. ASSUME u \notin lapsed' PROVE Recorded(u)'
  <2>1. /\ principal'[u] = proc[p].role
        /\ lapsed' = IF Busy(p, u) \/ proc[p].role # asserted[u] THEN lapsed ELSE lapsed \ {u}
    BY <1>1, <1>5 DEF Record, TypeOK, DataOK
  <2>2. \A q \in Procs : proc'[q].user = u => proc[q].user = u
    BY <1>1, <1>2 DEF Only
  <2>3. CASE u \in lapsed
    <3>1. ~Busy(p, u) /\ proc[p].role = asserted[u]
      BY <1>5, <2>1, <2>3
    <3>2. \A q \in Procs : proc'[q].user = u => q = p
      BY <1>1, <2>2, <3>1 DEF Busy
    <3> QED
      BY <1>1, <1>2, <1>3, <2>1, <3>1, <3>2 DEF Recorded, Lone
  <2>4. CASE u \notin lapsed
    <3>1. Recorded(u)
      BY <1>1, <2>4 DEF RecordInv
    <3>2. \A q \in Procs : proc'[q].user = u => q = p
      BY <1>1, <1>2, <2>2, <3>1 DEF Recorded, Lone
    <3>3. asserted[u] # Nil => proc[p].role = asserted[u]
      BY <1>1, <1>2, <3>1 DEF Recorded
    <3> QED
      BY <1>1, <1>2, <1>3, <2>1, <3>2, <3>3 DEF Recorded, Lone
  <2> QED
    BY <2>3, <2>4
<1>6. \A w \in Users \ lapsed' : Recorded(w)'
  BY <1>4, <1>5
<1> QED
  BY <1>3, <1>6 DEF RecordInv

\* A key takes the recorded role, which is the accepted one.
LEMMA ResolveKeepsRecords ==
  ASSUME TypeOK, RecordInv, NEW p \in Procs, Resolve(p)
  PROVE  RecordInv'
<1>1. UNCHANGED <<principal, seen, asserted, lapsed>>
  BY DEF Resolve, server, history
<1>2. ASSUME NEW u \in Users \ lapsed PROVE Recorded(u)'
  <2>1. Recorded(u)
    BY <1>2 DEF RecordInv
  <2>2. /\ Only(p) /\ proc[p].pc = "resolve"
        /\ \/ proc'[p] = Idle
           \/ /\ proc'[p].pc = "route" /\ proc'[p].user = proc[p].user
              /\ principal[proc[p].user] # Nil => proc'[p].role = principal[proc[p].user]
    BY ResolveKeepsTypes
  <2>3. \A q \in Procs : proc'[q].user = u => proc[q].user = u
    BY <2>2, IdleCall, AccountsAssumption DEF Only
  <2>4. ASSUME asserted[u] # Nil, \A q \in Procs : proc'[q].user = u => proc'[q].pc # "record"
        PROVE  principal[u] = asserted[u]
    BY <2>1, <2>2, <2>4 DEF Only, Recorded
  <2>5. ASSUME asserted[u] # Nil, NEW q \in Procs, proc'[q].user = u, proc'[q].pc # "resolve"
        PROVE  proc'[q].role = asserted[u]
    <3>1. CASE q = p
      <4>1. proc[p].user = u /\ \A s \in Procs : proc[s].user = u => proc[s].pc # "record"
        BY <2>1, <2>2, <2>3, <2>5, <3>1 DEF Recorded, Lone
      <4>2. principal[u] = asserted[u]
        BY <2>1, <2>5, <4>1 DEF Recorded
      <4> QED
        BY <2>2, <2>5, <3>1, <4>1, <4>2, IdleCall, AccountsAssumption
    <3>2. CASE q # p
      BY <2>1, <2>2, <2>5, <3>2 DEF Only, Recorded
    <3> QED
      BY <3>1, <3>2
  <2> QED
    BY <1>1, <2>1, <2>3, <2>4, <2>5 DEF Recorded, Lone
<1> QED
  BY <1>1, <1>2 DEF RecordInv

\* People with requests at work lapse; of the others nothing changes.
LEMMA RestartKeepsRecords ==
  ASSUME TypeOK, RecordInv, Restart
  PROVE  RecordInv'
<1>1. /\ proc' = [p \in Procs |-> Idle] /\ UNCHANGED <<principal, asserted>>
      /\ \A u \in Users : seen'[u] = Nil
  BY DEF Restart
<1>2. ASSUME NEW u \in Users \ lapsed' PROVE Recorded(u)'
  <2>1. Recorded(u) /\ \A q \in Procs : proc[q].user # u
    BY <1>2 DEF Restart, RecordInv
  <2>2. \A q \in Procs : proc'[q].user # u
    BY <1>1, <1>2, IdleCall, AccountsAssumption
  <2> QED
    BY <1>1, <2>1, <2>2 DEF Recorded, Lone
<1> QED
  BY <1>1, <1>2 DEF RecordInv

\* Every step keeps the records current.
LEMMA RecordsKept == ASSUME TypeOK, RecordInv, [Next]_vars PROVE RecordInv'
<1>1. ASSUME UNCHANGED <<principal, asserted, lapsed, proc>>,
             \A u \in Users : seen'[u] \in {Nil, seen[u]}
      PROVE  RecordInv'
  BY <1>1 DEF RecordInv, Recorded, Lone
<1>2. ASSUME NEW u \in Users,
             SignIn(u) \/ SeenAges(u) \/ \E r \in Role : TokenExpires(u, r) \/ Console(u, r)
      PROVE  RecordInv'
  <2>1. UNCHANGED <<principal, asserted, lapsed, proc>> /\ \A w \in Users : seen'[w] \in {Nil, seen[w]}
    BY <1>2 DEF SignIn, SeenAges, TokenExpires, Console, server, history, TypeOK, DataOK
  <2> QED
    BY <1>1, <2>1
<1>3. ASSUME NEW p \in bound.procs, Serve(p) PROVE RecordInv'
  <2>1. p \in Procs /\ (Record(p) \/ Resolve(p) \/ Works(p))
    BY <1>3, BoundProcs DEF Serve, Works
  <2> QED
    BY <2>1, RecordKeepsRecords, ResolveKeepsRecords, WorksKeepRecords
<1>4. ASSUME NEW p \in bound.procs, (\E u \in Users, r \in Role : Present(p, u, r))
               \/ (\E k \in DOMAIN keys : PresentKey(p, k))
      PROVE  RecordInv'
  BY <1>4, BoundProcs, PresentKeepsRecords, PresentKeyKeepsRecords
<1>5. CASE \E k \in DOMAIN keys : KeyExpires(k)
  BY <1>1, <1>5 DEF KeyExpires, history
<1>6. CASE Restart
  BY <1>6, RestartKeepsRecords
<1>7. CASE UNCHANGED vars
  BY <1>1, <1>7 DEF vars, server, history
<1> QED
  BY <1>2, <1>3, <1>4, <1>5, <1>6, <1>7 DEF Next

-----------------------------------------------------------------------------
(* The administrators.                                                     *)

\* The accounts stay, and no change begins.
LEMMA AdminsStay ==
  ASSUME TypeOK, AdminInv, NEW p \in Procs, Only(p), account' = account, raced' = raced,
         proc'[p].pc \in Changes => proc[p].pc \in Changes /\ (~raced => Sound(p)')
  PROVE  AdminInv'
<1> SUFFICES ASSUME ~raced PROVE AdminInv'
  BY DEF AdminInv
<1>1. \A u \in Users : Enabled(u) => Enabled(u)'
  BY DEF Enabled
<1>2. \A q \in Procs : proc'[q].pc \in Changes => proc[q].pc \in Changes
  BY DEF Only
<1>3. ASSUME NEW q \in Procs PROVE Sound(q)'
  <2>1. CASE q = p
    BY <2>1 DEF Sound
  <2>2. CASE q # p
    <3>1. proc'[q] = proc[q] /\ Sound(q)
      BY <2>2 DEF Only, AdminInv
    <3> QED
      BY <3>1 DEF Sound, Enabled
  <2> QED
    BY <2>1, <2>2
<1> QED
  BY <1>1, <1>2, <1>3 DEF AdminInv

\* A change begins.
LEMMA AdminsBegin ==
  ASSUME TypeOK, AdminInv, NEW p \in Procs, Only(p), proc'[p].user = proc[p].user,
         raced' = (raced \/ Changing(p) \/ ~Enabled(proc[p].user)), proc[p].user \in Users,
         \A u \in Users : Enabled(u) => Enabled(u)',
         ~raced' => Sound(p)'
  PROVE  AdminInv'
<1> SUFFICES ASSUME ~raced' PROVE AdminInv'
  BY DEF AdminInv
<1>1. ~raced /\ ~Changing(p) /\ Enabled(proc[p].user)
  OBVIOUS
<1>2. \A q \in Procs : proc'[q].pc \in Changes => q = p
  BY <1>1 DEF Only, Changing, Changes
<1>3. \A q \in Procs : Sound(q)'
  BY <1>2 DEF Sound
<1> QED
  BY <1>1, <1>2, <1>3 DEF AdminInv

\* update_user: nobody takes away from the own account.
LEMMA BeginUpdateKeepsAdmins ==
  ASSUME TypeOK, AdminInv, NEW p \in Procs, NEW v \in Users, NEW body \in Body, BeginUpdate(p, v, body)
  PROVE  AdminInv'
<1>1. /\ Only(p) /\ proc'[p].user = proc[p].user /\ proc'[p].target = v /\ proc'[p].body = body
      /\ proc'[p].pc = IF Removes(body) THEN "count" ELSE "fetch"
  BY BeginUpdateTypes
<1>2. /\ account' = account /\ raced' = (raced \/ Changing(p) \/ ~Enabled(proc[p].user))
      /\ proc[p].user \in Users /\ (Removes(body) => proc[p].user # v)
  BY ActingTypes DEF BeginUpdate, Begins, At, provider, SelfLockout
<1>3. \A u \in Users : Enabled(u) => Enabled(u)'
  BY <1>2 DEF Enabled
<1>4. ~raced' => Sound(p)'
  BY <1>1, <1>2, <1>3 DEF Sound, Removes
<1> QED
  BY <1>1, <1>2, <1>3, <1>4, AdminsBegin

\* delete_user: nobody removes the own account.
LEMMA BeginDeleteKeepsAdmins ==
  ASSUME TypeOK, AdminInv, NEW p \in Procs, NEW v \in Users, BeginDelete(p, v)
  PROVE  AdminInv'
<1>1. Only(p) /\ proc'[p].user = proc[p].user /\ proc'[p].target = v /\ proc'[p].pc = "count"
  BY BeginDeleteTypes
<1>2. /\ account' = account /\ raced' = (raced \/ Changing(p) \/ ~Enabled(proc[p].user))
      /\ proc[p].user \in Users /\ proc[p].user # v
  BY ActingTypes DEF BeginDelete, Begins, At, provider, SelfLockout
<1>3. \A u \in Users : Enabled(u) => Enabled(u)'
  BY <1>2 DEF Enabled
<1>4. ~raced' => Sound(p)'
  BY <1>1, <1>2, <1>3 DEF Sound
<1> QED
  BY <1>1, <1>2, <1>3, <1>4, AdminsBegin

\* create_user: the new account is nobody's.
LEMMA BeginCreateKeepsAdmins ==
  ASSUME TypeOK, AdminInv, NEW p \in Procs, NEW v \in Users, BeginCreate(p, v)
  PROVE  AdminInv'
<1>1. /\ Only(p) /\ proc'[p].user = proc[p].user /\ proc'[p].target = v /\ proc'[p].pc = "roles"
      /\ \A u \in Users \ {v} : account'[u] = account[u]
  BY BeginCreateTypes
<1>2. /\ raced' = (raced \/ Changing(p) \/ ~Enabled(proc[p].user))
      /\ proc[p].user \in Users /\ ~Enabled(v)
  BY ActingTypes DEF BeginCreate, At, Enabled
<1>3. \A u \in Users : Enabled(u) => Enabled(u)'
  BY <1>1, <1>2 DEF Enabled
<1>4. ~raced' => Sound(p)'
  BY <1>1, <1>2, <1>3 DEF Sound
<1> QED
  BY <1>1, <1>2, <1>3, <1>4, AdminsBegin

\* What is read is what the account holds, as no other change is under way.
LEMMA FetchKeepsAdmins ==
  ASSUME TypeOK, AdminInv, NEW p \in Procs, Fetch(p)
  PROVE  AdminInv'
<1>1. /\ Only(p)
      /\ \/ proc'[p] = Idle
         \/ /\ proc'[p].user = proc[p].user /\ proc'[p].target = proc[p].target
            /\ proc'[p].body = proc[p].body
            /\ proc'[p].current = account[proc[p].target] /\ proc'[p].pc \in {"put", "roles"}
  BY FetchTypes
<1>2. proc[p].pc = "fetch" /\ UNCHANGED <<account, raced>>
  BY DEF Fetch, At, provider, history
<1>3. ASSUME ~raced, proc'[p].pc \in Changes PROVE Sound(p)'
  <2>1. Sound(p) /\ proc'[p] # Idle
    BY <1>3, IdleCall DEF AdminInv, Changes
  <2> QED
    BY <1>1, <1>2, <2>1 DEF Sound, Changes, Enabled
<1> QED
  BY <1>1, <1>2, <1>3, AdminsStay DEF Changes

\* The guard lets a change go on or answers.
LEMMA CountAdminsKeepsAdmins ==
  ASSUME TypeOK, AdminInv, NEW p \in Procs, CountAdmins(p)
  PROVE  AdminInv'
<1>1. proc[p].pc = "count" /\ UNCHANGED <<account, raced>>
  BY DEF CountAdmins, At, provider, history
<1>2. CASE Done(p)
  BY <1>1, <1>2, DoneMoves, IdleCall, AdminsStay DEF Changes, TypeOK
<1>3. ASSUME NEW to \in {"delete", "fetch"}, Go(p, to) PROVE AdminInv'
  <2>1. /\ Only(p) /\ proc'[p].pc = to /\ proc'[p].user = proc[p].user
        /\ proc'[p].target = proc[p].target /\ proc'[p].body = proc[p].body
    BY <1>3, GoMoves DEF TypeOK, Locations
  <2>2. ASSUME ~raced PROVE Sound(p)'
    <3>1. Sound(p)
      BY <2>2 DEF AdminInv
    <3> QED
      BY <1>1, <2>1, <3>1 DEF Sound, Changes, Enabled
  <2> QED
    BY <1>1, <2>1, <2>2, AdminsStay DEF Changes
<1> QED
  BY <1>2, <1>3 DEF CountAdmins

\* The calls of the identity provider leave the account of the administrator who makes them.
LEMMA WritesKeepActor ==
  ASSUME TypeOK, NEW p \in Procs, Sound(p), PutUser(p) \/ SetRole(p) \/ DeleteUser(p),
         NEW u \in Users, u = proc[p].user
  PROVE  Enabled(u)'
<1> DEFINE b == proc[p].body
<1>1. proc[p].pc \in {"put", "roles", "delete"}
  BY DEF PutUser, SetRole, DeleteUser, At
<1>2. u \in Users /\ Enabled(u) /\ proc[p].target \in Users /\ account[u] \in Account
  BY <1>1, ChangeTypes DEF Sound, Changes, TypeOK, DataOK
<1>3. CASE proc[p].target # u
  BY <1>2, <1>3, WritesTypes DEF Enabled
<1>4. CASE proc[p].target = u
  <2>1. proc[p].pc \in {"put", "roles"} /\ ~Removes(b) /\ b \in Body
    BY <1>1, <1>4, ChangeTypes DEF Sound, Changes
  <2>2. b.role \in {Nil, "admin"} /\ b.status \in {Nil, "enabled"}
    BY <2>1 DEF Removes, Body, Role
  <2>3. CASE account' = account
    BY <1>2, <2>3 DEF Enabled
  <2>4. CASE PutUser(p) /\ account' # account
    <3>1. account' = [account EXCEPT ![u].status = IF b.status = Nil THEN proc[p].current.status
                                                 ELSE b.status]
      BY <1>4, <2>4 DEF PutUser
    <3>2. proc[p].current = account[u]
      BY <1>4, <2>4 DEF Sound, Changes, PutUser, At
    <3>3. (IF b.status = Nil THEN proc[p].current.status ELSE b.status) = "enabled"
      BY <1>2, <2>2, <3>2 DEF Enabled
    <3> HIDE DEF b
    <3>4. account' = [account EXCEPT ![u].status = "enabled"]
      BY <3>1, <3>3
    <3> QED
      BY <1>2, <3>4 DEF Enabled, TypeOK, DataOK, Account
  <2>5. CASE SetRole(p) /\ account' # account
    <3>1. account' = [account EXCEPT ![u].role = IF b.role = Nil THEN @ ELSE b.role]
      BY <1>4, <2>5 DEF SetRole
    <3>2. (IF b.role = Nil THEN account[u].role ELSE b.role) = "admin"
      BY <1>2, <2>2 DEF Enabled
    <3> HIDE DEF b
    <3>3. account' = [account EXCEPT ![u].role = "admin"]
      BY <3>1, <3>2
    <3> QED
      BY <1>2, <3>3 DEF Enabled, TypeOK, DataOK, Account
  <2> QED
    BY <2>1, <2>3, <2>4, <2>5 DEF DeleteUser, At
<1> QED
  BY <1>3, <1>4

\* So an administrator is left after each of them, failed or not.
LEMMA WritesKeepAdmins ==
  ASSUME TypeOK, AdminInv, NEW p \in Procs, PutUser(p) \/ SetRole(p) \/ DeleteUser(p)
  PROVE  AdminInv'
<1> SUFFICES ASSUME ~raced PROVE AdminInv'
  BY WritesTypes DEF AdminInv
<1>1. proc[p].pc \in {"put", "roles", "delete"}
  BY ActingTypes DEF PutUser, SetRole, DeleteUser, At
<1>2. Sound(p) /\ \A q \in Procs : proc[q].pc \in Changes => q = p
  BY <1>1 DEF AdminInv, Changes
<1>3. PICK u \in Users : u = proc[p].user /\ Enabled(u)'
  BY <1>1, <1>2, ActingTypes, WritesKeepActor
<1>4. CASE Done(p)
  <2>1. \A q \in Procs : proc'[q].pc \notin Changes
    BY <1>2, <1>4, DoneMoves, IdleCall DEF Only, Changes, TypeOK
  <2> QED
    BY <1>3, <2>1 DEF AdminInv, Sound
<1>5. CASE Go(p, "roles") /\ proc[p].pc = "put"
  <2>1. /\ Only(p) /\ proc'[p].pc = "roles" /\ proc'[p].user = proc[p].user
        /\ proc'[p].target = proc[p].target /\ proc'[p].body = proc[p].body
    BY <1>5, GoMoves DEF TypeOK, Locations
  <2>2. \A q \in Procs : proc'[q].pc \in Changes => q = p
    BY <1>2, <2>1 DEF Only
  <2>3. Sound(p)'
    BY <1>2, <1>3, <1>5, <2>1 DEF Sound, Changes, Enabled
  <2>4. \A q \in Procs : Sound(q)'
    BY <2>2, <2>3 DEF Sound
  <2> QED
    BY <1>1, <1>3, <2>1, <2>2, <2>4 DEF AdminInv, Enabled
<1> QED
  BY <1>4, <1>5 DEF PutUser, SetRole, DeleteUser, At

\* The other steps of a request begin no change.
LEMMA OthersKeepAdmins ==
  ASSUME TypeOK, AdminInv, NEW p \in Procs,
         \/ Record(p) \/ Resolve(p) \/ Other(p) \/ InsertKey(p) \/ SeedPrincipal(p)
         \/ \E k \in DOMAIN keys : Revoke(p, k) \/ PresentKey(p, k)
         \/ \E scope \in {Nil, "updater"} : CountKeys(p, scope)
         \/ \E u \in Users, r \in Role : Present(p, u, r)
  PROVE  AdminInv'
<1>1. UNCHANGED <<account, raced>>
  BY DEF Record, Resolve, Other, InsertKey, SeedPrincipal, Revoke, PresentKey, CountKeys, Present,
         provider, history
<1>2. ASSUME Only(p), proc'[p].pc \notin Changes PROVE AdminInv'
  BY <1>1, <1>2, AdminsStay
<1>3. ASSUME Done(p) PROVE AdminInv'
  BY <1>2, <1>3, DoneMoves, IdleCall DEF Changes, TypeOK
<1>4. ASSUME NEW to \in {"route", "seed"}, Go(p, to) PROVE AdminInv'
  BY <1>2, <1>4, GoMoves DEF Changes, TypeOK, Locations
<1>5. CASE Record(p) \/ Other(p) \/ InsertKey(p) \/ SeedPrincipal(p)
         \/ \E k \in DOMAIN keys : Revoke(p, k)
  BY <1>3, <1>4, <1>5 DEF Record, Other, InsertKey, SeedPrincipal, Revoke
<1>6. CASE Resolve(p)
  BY <1>2, <1>6, ResolveKeepsTypes, IdleCall DEF Changes
<1>7. CASE \E k \in DOMAIN keys : PresentKey(p, k)
  BY <1>2, <1>7, PresentKeyKeepsTypes DEF Changes
<1>8. CASE \E scope \in {Nil, "updater"} : CountKeys(p, scope)
  BY <1>2, <1>8, CountKeysTypes DEF Changes
<1>9. CASE \E u \in Users, r \in Role : Present(p, u, r)
  BY <1>2, <1>9, PresentKeepsTypes DEF Changes
<1> QED
  BY <1>5, <1>6, <1>7, <1>8, <1>9

\* Every step leaves an administrator while changes take turns.
LEMMA AdminsKept == ASSUME TypeOK, AdminInv, [Next]_vars PROVE AdminInv'
<1>1. ASSUME UNCHANGED <<account, raced, proc>> PROVE AdminInv'
  BY <1>1 DEF AdminInv, Sound, Enabled
<1>2. ASSUME NEW u \in Users,
             SignIn(u) \/ SeenAges(u) \/ \E r \in Role : TokenExpires(u, r)
      PROVE  AdminInv'
  BY <1>1, <1>2 DEF SignIn, SeenAges, TokenExpires, provider, history
<1>3. ASSUME NEW u \in Users, NEW r \in Role, Console(u, r) PROVE AdminInv'
  BY <1>3 DEF Console, AdminInv
<1>4. ASSUME NEW p \in bound.procs,
             Serve(p) \/ (\E u \in Users, r \in Role : Present(p, u, r))
               \/ (\E k \in DOMAIN keys : PresentKey(p, k))
      PROVE AdminInv'
  BY <1>4, Bounds, BoundProcs, OthersKeepAdmins, BeginUpdateKeepsAdmins, BeginDeleteKeepsAdmins,
     BeginCreateKeepsAdmins, CountAdminsKeepsAdmins, FetchKeepsAdmins, WritesKeepAdmins DEF Serve
<1>5. CASE \E k \in DOMAIN keys : KeyExpires(k)
  BY <1>1, <1>5 DEF KeyExpires, provider, history
<1>6. CASE Restart
  <2>1. UNCHANGED <<account, raced>> /\ \A p \in Procs : proc'[p].pc \notin Changes
    BY <1>6, IdleCall DEF Restart, provider, Changes
  <2> QED
    BY <2>1 DEF AdminInv, Sound, Enabled
<1>7. CASE UNCHANGED vars
  BY <1>1, <1>7 DEF vars, provider, history
<1> QED
  BY <1>2, <1>3, <1>4, <1>5, <1>6, <1>7 DEF Next

-----------------------------------------------------------------------------
(* The keys.                                                               *)

\* One more element.
LEMMA OneMore ==
  ASSUME NEW S, NEW x, IsFiniteSet(S)
  PROVE  /\ IsFiniteSet(S \cup {x}) /\ Cardinality(S \cup {x}) \in Nat
         /\ Cardinality(S) \in Nat /\ Cardinality(S \cup {x}) <= Cardinality(S) + 1
<1>1. /\ IsFiniteSet(S \cup {x})
      /\ Cardinality(S \cup {x}) = IF x \in S THEN Cardinality(S) ELSE Cardinality(S) + 1
  BY FS_AddElement
<1>2. Cardinality(S) \in Nat /\ Cardinality(S \cup {x}) \in Nat
  BY <1>1, FS_CardinalityType
<1> QED
  BY <1>1, <1>2

\* The counted rows are finitely many.
LEMMA CountedFinite ==
  ASSUME KeysOK, NEW u \in Users
  PROVE  IsFiniteSet(Counted(u)) /\ Cardinality(Counted(u)) \in Nat
<1>1. DOMAIN keys = 1 .. Len(keys) /\ Len(keys) \in Nat
  BY DEF KeysOK
<1>2. IsFiniteSet(DOMAIN keys)
  BY <1>1, FS_Interval
<1>3. Counted(u) \subseteq DOMAIN keys
  BY DEF Counted
<1> QED
  BY <1>2, <1>3, FS_Subset, FS_CardinalityType

\* Nobody has more keys than before, and nobody begins to insert one.
LEMMA KeysKept ==
  ASSUME TypeOK, TypeOK', KeyInv, overminted' = overminted,
         \A u \in Users : Counted(u)' \subseteq Counted(u),
         \A p \in Procs, u \in Users : Inserting(p, u)' => Inserting(p, u)
  PROVE  KeyInv'
<1>1. ASSUME NEW u \in Users \ overminted
      PROVE  /\ Cardinality(Counted(u)') <= Cardinality(Counted(u))
             /\ Cardinality(Counted(u)') \in Nat /\ Cardinality(Counted(u)) \in Nat
  BY CountedFinite, FS_Subset, FS_CardinalityType DEF TypeOK
<1> QED
  BY <1>1, AccountsAssumption DEF KeyInv

\* The steps of one request that insert nothing and count nothing.
LEMMA MoveKeepsKeys ==
  ASSUME TypeOK, TypeOK', KeyInv, NEW p \in Procs, UNCHANGED <<keys, overminted>>, Only(p),
         proc'[p].pc # "insert"
  PROVE  KeyInv'
<1>1. \A u \in Users : Counted(u)' = Counted(u)
  BY DEF Counted
<1>2. \A q \in Procs, u \in Users : Inserting(q, u)' => Inserting(q, u)
  BY DEF Only, Inserting
<1> QED
  BY <1>1, <1>2, KeysKept

\* A count that finds room: nobody else of the owner is about to insert.
LEMMA CountKeysKeepsKeys ==
  ASSUME TypeOK, KeyInv, NEW p \in Procs, NEW scope \in {Nil, "updater"}, CountKeys(p, scope)
  PROVE  KeyInv'
<1>1. /\ TypeOK' /\ Only(p) /\ proc'[p].pc = "insert" /\ proc'[p].user = proc[p].user
      /\ proc[p].user \in Users
  BY CountKeysTypes
<1>2. /\ keys' = keys /\ Cardinality(Counted(proc[p].user)) < MaxPerUser
      /\ overminted \subseteq overminted'
  BY DEF CountKeys, server
<1>3. ASSUME NEW u \in Users \ overminted'
      PROVE  /\ Cardinality(Counted(u)') <= MaxPerUser
             /\ \A q \in Procs : Inserting(q, u)' => Cardinality(Counted(u)') < MaxPerUser
             /\ \A q, s \in Procs : Inserting(q, u)' /\ Inserting(s, u)' => q = s
  <2>1. Counted(u)' = Counted(u) /\ u \notin overminted
    BY <1>2 DEF Counted
  <2>2. CASE u = proc[p].user
    <3>1. \A q \in Procs : ~(proc[q].user = u /\ proc[q].pc = "insert")
      BY <1>3, <2>2 DEF CountKeys
    <3>2. \A q \in Procs : Inserting(q, u)' => q = p
      BY <1>1, <3>1 DEF Inserting, Only
    <3>3. Cardinality(Counted(u)) < MaxPerUser /\ Cardinality(Counted(u)) <= MaxPerUser
      BY <1>2, <2>1, <2>2 DEF KeyInv
    <3> QED
      BY <2>1, <3>2, <3>3
  <2>3. CASE u # proc[p].user
    <3>1. \A q \in Procs : Inserting(q, u)' => Inserting(q, u)
      BY <1>1, <2>3 DEF Inserting, Only
    <3> QED
      BY <2>1, <3>1 DEF KeyInv
  <2> QED
    BY <2>2, <2>3
<1> QED
  BY <1>3 DEF KeyInv

\* The insert adds one to less than the limit.
LEMMA InsertKeyKeepsKeys ==
  ASSUME TypeOK, KeyInv, NEW p \in Procs, InsertKey(p)
  PROVE  KeyInv'
<1> DEFINE n == Len(keys) + 1
<1>1. /\ DOMAIN keys' = DOMAIN keys \cup {n} /\ keys'[n].owner = proc[p].user
      /\ \A k \in DOMAIN keys : keys'[k] = keys[k]
  BY InsertKeyTypes
<1>2. /\ Only(p) /\ proc[p].pc = "insert" /\ proc'[p].pc = "seed" /\ overminted' = overminted
      /\ proc'[p].user = proc[p].user
  BY GoMoves DEF InsertKey, At, TypeOK, Locations, history
<1>3. ASSUME NEW u \in Users \ overminted
      PROVE  /\ Cardinality(Counted(u)') <= MaxPerUser
             /\ \A q \in Procs : Inserting(q, u)' => Cardinality(Counted(u)') < MaxPerUser
             /\ \A q, s \in Procs : Inserting(q, u)' /\ Inserting(s, u)' => q = s
  <2>1. \A q \in Procs : Inserting(q, u)' => q # p /\ Inserting(q, u)
    BY <1>2 DEF Inserting, Only
  <2>2. CASE proc[p].user = u
    <3>1. Inserting(p, u)
      BY <1>2, <2>2 DEF Inserting
    <3>2. Cardinality(Counted(u)) < MaxPerUser /\ \A q \in Procs : ~Inserting(q, u)'
      BY <2>1, <3>1 DEF KeyInv
    <3>3. Counted(u)' \subseteq Counted(u) \cup {n}
      BY <1>1 DEF Counted
    <3>4. IsFiniteSet(Counted(u)) /\ Cardinality(Counted(u)) \in Nat
      BY CountedFinite DEF TypeOK
    <3>5. /\ IsFiniteSet(Counted(u) \cup {n}) /\ Cardinality(Counted(u) \cup {n}) \in Nat
          /\ Cardinality(Counted(u) \cup {n}) <= Cardinality(Counted(u)) + 1
      BY <3>4, OneMore
    <3>6. /\ Cardinality(Counted(u)') <= Cardinality(Counted(u) \cup {n})
          /\ Cardinality(Counted(u)') \in Nat
      BY <3>3, <3>5, FS_Subset, FS_CardinalityType
    <3> HIDE DEF n
    <3> QED
      BY <3>2, <3>4, <3>5, <3>6, AccountsAssumption
  <2>3. CASE proc[p].user # u
    <3>1. Counted(u)' = Counted(u)
      BY <1>1, <2>3 DEF Counted
    <3> QED
      BY <2>1, <3>1 DEF KeyInv
  <2> QED
    BY <2>2, <2>3
<1> QED
  BY <1>2, <1>3 DEF KeyInv

\* A revoked key counts no more.
LEMMA RevokeKeepsKeys ==
  ASSUME TypeOK, KeyInv, NEW p \in Procs, NEW k \in DOMAIN keys, Revoke(p, k)
  PROVE  KeyInv'
<1>1. TypeOK' /\ KeysGrow /\ DOMAIN keys' = DOMAIN keys
  BY RevokeTypes
<1>2. overminted' = overminted /\ Only(p) /\ proc'[p] = Idle
  BY DoneMoves DEF Revoke, history, TypeOK
<1>3. \A u \in Users : Counted(u)' \subseteq Counted(u)
  BY <1>1 DEF Counted, KeysGrow
<1>4. \A q \in Procs, u \in Users : Inserting(q, u)' => Inserting(q, u)
  BY <1>2, IdleCall DEF Only, Inserting
<1> QED
  BY <1>1, <1>2, <1>3, <1>4, KeysKept

\* An expired key counts as before.
LEMMA KeyExpiresKeepsKeys ==
  ASSUME TypeOK, KeyInv, NEW k \in DOMAIN keys, KeyExpires(k)
  PROVE  KeyInv'
<1>1. TypeOK' /\ KeysGrow /\ UNCHANGED <<proc, overminted>> /\ DOMAIN keys' = DOMAIN keys
  BY KeyExpiresKeepsTypes DEF KeyExpires, history
<1>2. \A u \in Users : Counted(u)' \subseteq Counted(u)
  BY <1>1 DEF Counted, KeysGrow
<1>3. \A q \in Procs, u \in Users : Inserting(q, u)' => Inserting(q, u)
  BY <1>1 DEF Inserting
<1> QED
  BY <1>1, <1>2, <1>3, KeysKept

\* The steps of the middleware and of the users facade.
LEMMA OthersKeepKeys ==
  ASSUME TypeOK, TypeOK', KeyInv, NEW p \in Procs,
         \/ Record(p) \/ Resolve(p) \/ Other(p) \/ SeedPrincipal(p)
         \/ \E u \in Users, r \in Role : Present(p, u, r)
         \/ \E k \in DOMAIN keys : PresentKey(p, k)
         \/ \E v \in Users : BeginDelete(p, v) \/ BeginCreate(p, v)
                              \/ \E b \in Bodies : BeginUpdate(p, v, b)
         \/ CountAdmins(p) \/ Fetch(p) \/ PutUser(p) \/ SetRole(p) \/ DeleteUser(p)
  PROVE  KeyInv'
<1>1. UNCHANGED <<keys, overminted>>
  BY DEF Record, Resolve, Other, SeedPrincipal, Present, PresentKey, BeginDelete, BeginCreate,
         BeginUpdate, Begins, CountAdmins, Fetch, PutUser, SetRole, DeleteUser, server, history
<1>2. ASSUME Only(p), proc'[p].pc # "insert" PROVE KeyInv'
  BY <1>1, <1>2, MoveKeepsKeys
<1>3. ASSUME Done(p) PROVE KeyInv'
  BY <1>2, <1>3, DoneMoves, IdleCall DEF TypeOK
<1>4. ASSUME NEW to \in {"route", "roles", "delete", "fetch"}, Go(p, to) PROVE KeyInv'
  BY <1>2, <1>4, GoMoves DEF TypeOK, Locations
<1>5. CASE \/ Record(p) \/ Other(p) \/ SeedPrincipal(p) \/ CountAdmins(p)
           \/ PutUser(p) \/ SetRole(p) \/ DeleteUser(p)
  BY <1>3, <1>4, <1>5 DEF Record, Other, SeedPrincipal, CountAdmins, PutUser, SetRole, DeleteUser
<1>6. CASE Resolve(p) \/ Fetch(p)
  BY <1>2, <1>6, ResolveKeepsTypes, FetchTypes, IdleCall
<1>7. CASE (\E u \in Users, r \in Role : Present(p, u, r)) \/ \E k \in DOMAIN keys : PresentKey(p, k)
  BY <1>2, <1>7, PresentKeepsTypes, PresentKeyKeepsTypes
<1>8. ASSUME NEW v \in Users, BeginDelete(p, v) \/ BeginCreate(p, v) PROVE KeyInv'
  BY <1>2, <1>8, BeginDeleteTypes, BeginCreateTypes
<1>9. ASSUME NEW v \in Users, NEW b \in Bodies, BeginUpdate(p, v, b) PROVE KeyInv'
  BY <1>2, <1>9, Bounds, BeginUpdateTypes
<1> QED
  BY <1>5, <1>6, <1>7, <1>8, <1>9

\* Every step keeps owners within the limit while their mints take turns.
LEMMA LimitKept == ASSUME TypeOK, KeyInv, [Next]_vars PROVE KeyInv'
<1>1. TypeOK'
  BY TypesKept
<1>2. ASSUME UNCHANGED <<keys, overminted>>, \A p \in Procs : proc'[p] \in {proc[p], Idle} PROVE KeyInv'
  <2>1. \A u \in Users : Counted(u)' = Counted(u)
    BY <1>2 DEF Counted
  <2>2. \A p \in Procs, u \in Users : Inserting(p, u)' => Inserting(p, u)
    BY <1>2, IdleCall DEF Inserting
  <2> QED
    BY <1>1, <1>2, <2>1, <2>2, KeysKept
<1>3. ASSUME NEW u \in Users,
             SignIn(u) \/ SeenAges(u) \/ \E r \in Role : TokenExpires(u, r) \/ Console(u, r)
      PROVE  KeyInv'
  BY <1>2, <1>3 DEF SignIn, SeenAges, TokenExpires, Console, server, history
<1>4. ASSUME NEW p \in bound.procs,
             Serve(p) \/ (\E u \in Users, r \in Role : Present(p, u, r))
               \/ (\E k \in DOMAIN keys : PresentKey(p, k))
      PROVE KeyInv'
  <2>1. p \in Procs
    BY <1>4, BoundProcs
  <2>2. CASE \/ InsertKey(p) \/ \E scope \in {Nil, "updater"} : CountKeys(p, scope)
             \/ \E k \in DOMAIN keys : Revoke(p, k)
    BY <2>1, <2>2, InsertKeyKeepsKeys, CountKeysKeepsKeys, RevokeKeepsKeys
  <2> QED
    BY <1>1, <1>4, <2>1, <2>2, OthersKeepKeys DEF Serve
<1>5. CASE \E k \in DOMAIN keys : KeyExpires(k)
  BY <1>5, KeyExpiresKeepsKeys
<1>6. CASE Restart
  BY <1>2, <1>6 DEF Restart
<1>7. CASE UNCHANGED vars
  BY <1>2, <1>7 DEF vars, server, history
<1> QED
  BY <1>3, <1>4, <1>5, <1>6, <1>7 DEF Next

-----------------------------------------------------------------------------
(* The invariant and what follows from it.                                 *)

\* The whole invariant: the parts need the types and not one another.
IInv == TypeOK /\ RecordInv /\ AdminInv /\ KeyInv

\* It holds at first, ...
LEMMA Initially == ASSUME Init PROVE IInv
<1>1. TypeOK
  BY TypesInitially
<1>2. \A p \in Procs : proc[p] = Idle
  BY DEF Init
<1>3. RecordInv
  BY <1>2, IdleCall, AccountsAssumption DEF Init, RecordInv, Recorded, Lone
<1>4. AdminInv
  <2>1. \E u \in Users : Enabled(u)
    BY AccountsAssumption DEF Init, Enabled
  <2> QED
    BY <1>2, <2>1, IdleCall DEF AdminInv, Sound, Changes
<1>5. KeyInv
  <2>1. \A u \in Users : Counted(u) = {}
    BY DEF Init, Counted
  <2>2. \A p \in Procs, u \in Users : ~Inserting(p, u)
    BY <1>2, IdleCall DEF Inserting
  <2> QED
    <3>1. Cardinality({}) = 0 /\ 0 <= MaxPerUser
      BY FS_EmptySet, AccountsAssumption
    <3> QED
      BY <2>1, <2>2, <3>1 DEF KeyInv
<1> QED
  BY <1>1, <1>3, <1>4, <1>5 DEF IInv

\* ... and in every step.
LEMMA Inductive == ASSUME IInv, [Next]_vars PROVE IInv'
BY TypesKept, RecordsKept, AdminsKept, LimitKept DEF IInv

\* So it holds always.
LEMMA InvariantHolds == Spec => []IInv
BY Initially, Inductive, PTL DEF Spec

\* Every register, row and record has its type in every state (middleware.py, api_keys.py, users.py).
THEOREM TypeCorrect == Spec => []TypeOK
<1>1. IInv => TypeOK
  BY DEF IInv
<1> QED
  BY <1>1, InvariantHolds, PTL

\* ADR-0011 for any number of people, requests and tokens: without overlaps and failed records, the
\* record of a person whose requests are over holds the role of the token presented last.
THEOREM RecordAlwaysCurrent == Spec => []RecordCurrent
<1>1. IInv => RecordCurrent
  BY DEF IInv, RecordInv, Recorded, RecordCurrent
<1> QED
  BY <1>1, InvariantHolds, PTL

\* The lock-out guards of identity/users.py leave an enabled administrator, for any number of
\* accounts, requests and calls of the identity provider that fail half-way, unless changes overlap
\* or are made by somebody who is no administrator any more.
THEOREM AdminAlwaysRemains == Spec => []AdminRemains
<1>1. IInv => AdminRemains
  BY DEF IInv, AdminInv, AdminRemains
<1> QED
  BY <1>1, InvariantHolds, PTL

\* ApiKeyService.mint keeps every owner whose mints do not overlap under the limit, whatever the limit.
THEOREM KeyLimitHolds == Spec => []KeyLimit
<1>1. IInv => KeyLimit
  BY DEF IInv, KeyInv, KeyLimit, Counted
<1> QED
  BY <1>1, InvariantHolds, PTL
=============================================================================

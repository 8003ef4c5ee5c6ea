----------------------------- MODULE LdpService -----------------------------
(***************************************************************************)
(* The write side of the LDP server: the PUT, POST, PATCH and DELETE       *)
(* handlers of metadata/ldp/router.py and the state transition of          *)
(* metadata/lifecycle.py, run by concurrent request handlers of one        *)
(* asyncio process over a triple store.                                    *)
(*                                                                         *)
(* The store commits one graph per call: a handler is a list of calls, and *)
(* any other handler may run between two of them.  queue[p] is what        *)
(* handler p has left to do: a call that reads puts the call that writes   *)
(* what it computed in front of the rest.  undo[p] is the compensation the *)
(* except branch runs when a call inside the try block (field try) raises. *)
(*                                                                         *)
(* A request is what a client may send, after the authorization and the    *)
(* validation of the body: a refusal there has no effect on the store and  *)
(* is the action Refuse.                                                   *)
(***************************************************************************)
EXTENDS MetadataRecords, Sequences

CONSTANTS
  Handlers,     \* request handlers that may be in flight together
  Containers,   \* record IRIs whose type declares children
  Seed,         \* the record graphs the applied profile left in the store
  Requests,     \* the requests clients may send
  Exclusive,    \* TRUE: clients never overlap two requests on one record
  MaxRequests,  \* bound: requests sent in a behaviour
  MaxFaults,    \* bound: store calls that raise
  MaxCrashes,   \* bound: restarts of the process
  MaxEvents     \* bound: all of these together

VARIABLES
  record,       \* the triple store: record graphs
  meta,         \* the triple store: <record>/meta graphs
  audit,        \* record_audit rows of each record, in insertion order
  phase, req,   \* where each handler is, and the request it serves
  seen,         \* the representation its client read before sending it
  old,          \* the graph the handler read at the start (existing)
  queue, undo,  \* calls left; calls of the compensation
  stamp,        \* identifies the request in dct:created / dct:creator
  sent, faults, crashes,
  granted       \* history: <<record, state>> a client was entitled to ask for

store    == <<record, meta, audit>>
handler  == <<phase, req, seen, old, queue, undo, stamp>>
counters == <<sent, faults, crashes>>
vars     == <<store, handler, counters, granted>>

-----------------------------------------------------------------------------
Methods       == {"PUT", "POST", "PATCH", "DELETE", "STATE"}
Preconditions == {"none", "star", "etag"}     \* no If-Match, If-Match: *, an ETag
Operations    == {"create", "modify", "delete", "state_change"}
Phases        == {"idle", "client", "check", "checkMeta", "run", "undo", "failed"}

\* state: the Prefer: publication-state of a create, or the target of a STATE.
Request ==
  [method : Methods, iri : Records, container : Records, pre : Preconditions,
   body : Bodies, parent : Records \cup {Nil, Keep}, state : MetadataState,
   admin : BOOLEAN]

Call ==
       [do : {"replaceRecord"}, iri : Records, graph : Graph, try : BOOLEAN]
  \cup [do : {"readMeta", "readState"}, iri : Records, state : MetadataState, try : BOOLEAN]
  \cup [do : {"replaceMeta"}, iri : Records, meta : Meta, try : BOOLEAN]
  \cup [do : {"dropRecord", "dropMeta", "dropAudit"}, iri : Records, try : BOOLEAN]
  \cup [do : {"readParent"}, iri : Records, child : Records, add : BOOLEAN, try : BOOLEAN]
  \cup [do : {"publish"}, iri : Records, op : Operations, try : BOOLEAN]

ASSUME LdpAssumption ==
  /\ Containers \subseteq Records
  /\ Seed \in [Records -> Graph \cup {Nil}]
  /\ Requests \subseteq Request
  /\ \A r \in Requests : r.method \in {"PUT", "POST"} => r.state # "ARCHIVED" /\ r.parent # Keep
  /\ \A r \in Requests : r.method = "POST" => r.pre = "none"
  /\ Exclusive \in BOOLEAN
  /\ MaxRequests \in Nat /\ MaxFaults \in Nat /\ MaxCrashes \in Nat /\ MaxEvents \in Nat
  /\ Nil \notin Graph /\ Nil \notin Meta /\ Nil \notin Request

SeedStamp == 1

-----------------------------------------------------------------------------
(* The calls a handler is made of.                                         *)

\* MetadataRepository.put_graph, the refresh of the meta graph included.
PutGraph(iri, graph, initialState, try) ==
  << [do |-> "replaceRecord", iri |-> iri, graph |-> graph, try |-> try],
     [do |-> "readMeta", iri |-> iri, state |-> initialState, try |-> try] >>

\* MetadataRepository.delete_graph.
DeleteGraph(iri) ==
  << [do |-> "dropRecord", iri |-> iri, try |-> FALSE],
     [do |-> "dropMeta",   iri |-> iri, try |-> FALSE],
     [do |-> "dropAudit",  iri |-> iri, try |-> FALSE] >>

\* ContainmentManager._apply for one parent; no parent, nothing to do.
Apply(parent, child, add) ==
  IF parent = Nil THEN << >>
  ELSE << [do |-> "readParent", iri |-> parent, child |-> child, add |-> add, try |-> TRUE] >>

\* Variants of Reconcile: one forgets the old parent of a moved record, one
\* has no self-heal.
ReconcileForgetsOldParent(child, oldParent, newParent) == Apply(newParent, child, TRUE)

ReconcileSkipsUnmoved(child, oldParent, newParent) ==
  IF oldParent = newParent THEN << >>
  ELSE Apply(oldParent, child, FALSE) \o Apply(newParent, child, TRUE)

\* reconcile_update; with no old parent it is reconcile_create, with no new
\* parent it is reconcile_delete.
Reconcile(child, oldParent, newParent) ==
  IF oldParent = newParent THEN Apply(newParent, child, TRUE)
  ELSE Apply(oldParent, child, FALSE) \o Apply(newParent, child, TRUE)

\* The announcement of a write, and a variant that calls them all edits.
PublishModified(iri, op) ==
  << [do |-> "publish", iri |-> iri, op |-> "modify", try |-> FALSE] >>

Publish(iri, op) == << [do |-> "publish", iri |-> iri, op |-> op, try |-> FALSE] >>

-----------------------------------------------------------------------------
(* Receiving a request.                                                    *)

\* The records whose graphs a request on a record with this graph writes.
Touches(r, current) == {r.iri, r.parent, ParentOf(current)} \cap Records

InFlight(p) == phase[p] \notin {"idle", "client"}

Footprint(p) == Touches(req[p], IF old[p] # Nil THEN old[p] ELSE record[req[p].iri])

\* No request in flight writes r.
Quiet(r) == \A p \in Handlers : InFlight(p) => r \notin Footprint(p)

\* One of the events that the bounds count.
Counted == sent + faults + crashes < MaxEvents

\* A client reads the record and starts composing a request ...
ClientReads(p) ==
  /\ phase[p] = "idle" /\ sent < MaxRequests /\ Counted
  /\ \E r \in Requests :
       /\ r.pre = "etag" => record[r.iri] # Nil
       /\ req' = [req EXCEPT ![p] = r]
       /\ seen' = [seen EXCEPT ![p] = record[r.iri]]
  /\ stamp' = [stamp EXCEPT ![p] = SeedStamp + sent + 1]
  /\ sent' = sent + 1
  /\ phase' = [phase EXCEPT ![p] = "client"]
  /\ UNCHANGED <<store, old, queue, undo, faults, crashes, granted>>

\* ... and a handler receives it, which may be after other requests.
Receive(p) ==
  /\ phase[p] = "client"
  /\ Exclusive => \A r \in Footprint(p) : Quiet(r)
  /\ phase' = [phase EXCEPT ![p] = "check"]
  /\ UNCHANGED <<store, req, seen, old, queue, undo, stamp, counters, granted>>

\* A variant of Release that forgets to drop the request.
ReleaseKeepsRequest(p) ==
  /\ phase' = [phase EXCEPT ![p] = "idle"]
  /\ seen' = [seen EXCEPT ![p] = Nil]
  /\ old' = [old EXCEPT ![p] = Nil]
  /\ queue' = [queue EXCEPT ![p] = << >>]
  /\ undo' = [undo EXCEPT ![p] = << >>]
  /\ stamp' = [stamp EXCEPT ![p] = 0]
  /\ UNCHANGED req

\* Put handler p back in the pool, with empty registers.
Release(p) ==
  /\ phase' = [phase EXCEPT ![p] = "idle"]
  /\ req' = [req EXCEPT ![p] = Nil]
  /\ seen' = [seen EXCEPT ![p] = Nil]
  /\ old' = [old EXCEPT ![p] = Nil]
  /\ queue' = [queue EXCEPT ![p] = << >>]
  /\ undo' = [undo EXCEPT ![p] = << >>]
  /\ stamp' = [stamp EXCEPT ![p] = 0]

\* A variant of IfMatchHolds that takes any ETag of an existing record.
IfMatchAnyETag(r, current, representation) == (r.pre = "none") = (current = Nil)

\* _enforce_if_match: the header against the graph just read.
IfMatchHolds(r, current, representation) ==
  CASE r.pre = "none" -> current = Nil
    [] r.pre = "star" -> current # Nil
    [] r.pre = "etag" -> current = representation

\* The graph a PUT or POST body asks for.  A client that sends an ETag edits the
\* representation it read; one that does not writes no containment triples.
BodyGraph(r, representation) ==
  [body |-> r.body, parent |-> r.parent,
   members |-> IF r.pre = "etag" THEN representation.members ELSE {}]

\* Prefer: publication-state counts on a create only; the variant always counts it.
InitialStateHonouredAlways(r, existing) == r.state

InitialState(r, existing) == IF existing = Nil THEN r.state ELSE DefaultState

\* The except branch of _maintain_membership; the variant always deletes.
CompensationDeletes(iri, existing) == DeleteGraph(iri)

Compensation(iri, existing) ==
  IF existing = Nil THEN DeleteGraph(iri)
                    ELSE PutGraph(iri, existing, DefaultState, FALSE)

\* simulate_update: the PATCH applied to the graph just read.
PatchedGraph(r, current) ==
  [current EXCEPT !.body = r.body, !.parent = IF r.parent = Keep THEN @ ELSE r.parent]

\* The handler has read and checked what it needs: it will run calls, and
\* compensation if one of them raises inside the try block.
Proceed(p, current, calls, compensation) ==
  /\ phase' = [phase EXCEPT ![p] = "run"]
  /\ old' = [old EXCEPT ![p] = current]
  /\ queue' = [queue EXCEPT ![p] = calls]
  /\ undo' = [undo EXCEPT ![p] = compensation]
  /\ UNCHANGED <<store, req, seen, stamp, counters>>

Grant(iri, state) == granted' = granted \cup {<<iri, state>>}

\* Denied by the PDP, invalid body, failed precondition or failed read: the
\* request ends with nothing written.
Refuse(p) ==
  /\ phase[p] \in {"check", "checkMeta"}
  /\ Release(p)
  /\ UNCHANGED <<store, counters, granted>>

\* A PUT: create when no graph is there, else replace it.
Put(p) ==
  LET r == req[p]
      existing == record[r.iri]
      graph == BodyGraph(r, seen[p])
      created == existing = Nil IN
  /\ phase[p] = "check" /\ r.method = "PUT"
  /\ IfMatchHolds(r, existing, seen[p])
  /\ Proceed(p, existing,
             PutGraph(r.iri, graph, InitialState(r, existing), FALSE)
               \o Reconcile(r.iri, ParentOf(existing), graph.parent)
               \o Publish(r.iri, IF created THEN "create" ELSE "modify"),
             Compensation(r.iri, existing))
  /\ granted' = granted \cup (IF created THEN {<<r.iri, r.state>>} ELSE {})

\* _record_exists, first read: the member's own graph.
PostCheckRecord(p) ==
  /\ phase[p] = "check" /\ req[p].method = "POST"
  /\ req[p].container \in Containers
  /\ record[req[p].iri] = Nil
  /\ phase' = [phase EXCEPT ![p] = "checkMeta"]
  /\ UNCHANGED <<store, req, seen, old, queue, undo, stamp, counters, granted>>

\* _record_exists, second read: its meta sibling.  Then the write.
PostCreate(p) ==
  LET r == req[p]
      graph == BodyGraph(r, Nil) IN
  /\ phase[p] = "checkMeta"
  /\ ~HasCreated(meta[r.iri])
  /\ Proceed(p, Nil,
             PutGraph(r.iri, graph, InitialState(r, Nil), FALSE)
               \o Reconcile(r.iri, Nil, graph.parent) \o Publish(r.iri, "create"),
             Compensation(r.iri, Nil))
  /\ Grant(r.iri, r.state)

Patch(p) ==
  LET r == req[p]
      existing == record[r.iri] IN
  /\ phase[p] = "check" /\ r.method = "PATCH"
  /\ existing # Nil /\ IfMatchHolds(r, existing, seen[p])
  /\ Proceed(p, existing,
             PutGraph(r.iri, PatchedGraph(r, existing), DefaultState, FALSE)
               \o Publish(r.iri, "modify"),
             << >>)
  /\ UNCHANGED granted

Delete(p) ==
  LET r == req[p]
      existing == record[r.iri] IN
  /\ phase[p] = "check" /\ r.method = "DELETE"
  /\ existing # Nil /\ IfMatchHolds(r, existing, seen[p])
  /\ Proceed(p, existing,
             DeleteGraph(r.iri)
               \o Reconcile(r.iri, existing.parent, Nil) \o Publish(r.iri, "delete"),
             Compensation(r.iri, existing))
  /\ UNCHANGED granted

\* StateService.transition up to the write; the meta graph is read again there.
Transition(p) ==
  LET r == req[p] IN
  /\ phase[p] = "check" /\ r.method = "STATE"
  /\ meta[r.iri] # Nil
  /\ TransitionAllowed(meta[r.iri].state, r.state, r.admin)
  /\ Proceed(p, Nil,
             << [do |-> "readState", iri |-> r.iri, state |-> r.state, try |-> FALSE] >>
               \o Publish(r.iri, "state_change"),
             << >>)
  /\ Grant(r.iri, r.state)

-----------------------------------------------------------------------------
(* Running the calls, one per step.                                        *)

HeadIs(p, do) == queue[p] # << >> /\ Head(queue[p]).do = do

\* The call is done; calls go in front of what is left, later ones behind it.
Continue(p, calls, later) ==
  /\ queue' = [queue EXCEPT ![p] = calls \o Tail(@) \o later]
  /\ UNCHANGED <<phase, req, seen, old, undo, stamp, counters, granted>>

ReplaceRecord(p) ==
  LET c == Head(queue[p]) IN
  /\ HeadIs(p, "replaceRecord")
  /\ record' = [record EXCEPT ![c.iri] = c.graph]
  /\ Continue(p, << >>, << >>)
  /\ UNCHANGED <<meta, audit>>

\* _refresh_meta reads the prior meta graph and builds the next one ...
ReadMeta(p) ==
  LET c == Head(queue[p]) IN
  /\ HeadIs(p, "readMeta")
  /\ Continue(p, << [do |-> "replaceMeta", iri |-> c.iri, try |-> c.try,
                     meta |-> BuildMetaGraph(meta[c.iri], stamp[p], c.state)] >>, << >>)
  /\ UNCHANGED store

\* ... and _write_state swaps the state in the one it reads ...
ReadState(p) ==
  LET c == Head(queue[p]) IN
  /\ HeadIs(p, "readState")
  /\ Continue(p, << [do |-> "replaceMeta", iri |-> c.iri, try |-> c.try,
                     meta |-> SwapState(meta[c.iri], c.state)] >>, << >>)
  /\ UNCHANGED store

\* ... and both write it back whole.
ReplaceMeta(p) ==
  LET c == Head(queue[p]) IN
  /\ HeadIs(p, "replaceMeta")
  /\ meta' = [meta EXCEPT ![c.iri] = c.meta]
  /\ Continue(p, << >>, << >>)
  /\ UNCHANGED <<record, audit>>

DropRecord(p) ==
  /\ HeadIs(p, "dropRecord")
  /\ record' = [record EXCEPT ![Head(queue[p]).iri] = Nil]
  /\ Continue(p, << >>, << >>)
  /\ UNCHANGED <<meta, audit>>

DropMeta(p) ==
  /\ HeadIs(p, "dropMeta")
  /\ meta' = [meta EXCEPT ![Head(queue[p]).iri] = Nil]
  /\ Continue(p, << >>, << >>)
  /\ UNCHANGED <<record, audit>>

\* The <record>/audit graph holds ODRL agreements, which nothing here reads.
DropAudit(p) ==
  /\ HeadIs(p, "dropAudit")
  /\ Continue(p, << >>, << >>)
  /\ UNCHANGED store

\* _apply: read the parent, put it back with the link, announce it last.
ReadParent(p) ==
  LET c == Head(queue[p])
      parent == record[c.iri] IN
  /\ HeadIs(p, "readParent")
  /\ \/ /\ LinkChanges(parent, c.child, c.add)
        /\ Continue(p, PutGraph(c.iri, WithLink(parent, c.child, c.add), DefaultState, TRUE),
                    Publish(c.iri, "modify"))
     \/ /\ ~LinkChanges(parent, c.child, c.add)
        /\ Continue(p, << >>, << >>)
  /\ UNCHANGED store

\* The audit subscriber inserts its row before publish returns.
PublishEvent(p) ==
  LET c == Head(queue[p]) IN
  /\ HeadIs(p, "publish")
  /\ audit' = [audit EXCEPT ![c.iri] = Append(@, c.op)]
  /\ Continue(p, << >>, << >>)
  /\ UNCHANGED <<record, meta>>

\* The response is sent.
Respond(p) ==
  /\ phase[p] \in {"run", "undo", "failed"} /\ queue[p] = << >>
  /\ Release(p)
  /\ UNCHANGED <<store, counters, granted>>

-----------------------------------------------------------------------------
(* A store call raises (refused, or timed out before or after it took      *)
(* effect), and the process stops.                                         *)

TookEffect(c) ==
  CASE c.do = "replaceRecord" -> record' = [record EXCEPT ![c.iri] = c.graph] /\ UNCHANGED meta
    [] c.do = "replaceMeta"   -> meta' = [meta EXCEPT ![c.iri] = c.meta] /\ UNCHANGED record
    [] c.do = "dropRecord"    -> record' = [record EXCEPT ![c.iri] = Nil] /\ UNCHANGED meta
    [] c.do = "dropMeta"      -> meta' = [meta EXCEPT ![c.iri] = Nil] /\ UNCHANGED record
    [] OTHER                  -> UNCHANGED <<record, meta>>

Raise(p) ==
  LET c == Head(queue[p]) IN
  /\ faults < MaxFaults /\ Counted /\ queue[p] # << >> /\ c.do # "publish"
  /\ TookEffect(c) \/ UNCHANGED <<record, meta>>
  /\ faults' = faults + 1
  /\ phase' = [phase EXCEPT ![p] = IF c.try THEN "undo" ELSE "failed"]
  /\ queue' = [queue EXCEPT ![p] = IF c.try THEN undo[p] ELSE << >>]
  /\ undo' = [undo EXCEPT ![p] = << >>]
  /\ UNCHANGED <<audit, req, seen, old, stamp, sent, crashes, granted>>

\* AuditLog._persist and the event bus swallow a failing insert.
LoseAuditRow(p) ==
  /\ faults < MaxFaults /\ Counted /\ HeadIs(p, "publish")
  /\ faults' = faults + 1
  /\ queue' = [queue EXCEPT ![p] = Tail(@)]
  /\ UNCHANGED <<store, phase, req, seen, old, undo, stamp, sent, crashes, granted>>

\* Nothing of a request outlives the process: no compensation runs.
Crash ==
  /\ crashes < MaxCrashes /\ Counted
  /\ crashes' = crashes + 1
  /\ phase' = [p \in Handlers |-> "idle"]
  /\ req'   = [p \in Handlers |-> Nil]
  /\ seen'  = [p \in Handlers |-> Nil]
  /\ old'   = [p \in Handlers |-> Nil]
  /\ queue' = [p \in Handlers |-> << >>]
  /\ undo'  = [p \in Handlers |-> << >>]
  /\ stamp' = [p \in Handlers |-> 0]
  /\ UNCHANGED <<store, sent, faults, granted>>

-----------------------------------------------------------------------------
Init ==
  /\ record = Seed
  /\ meta = [r \in Records |->
               IF Seed[r] = Nil THEN Nil ELSE BuildMetaGraph(Nil, SeedStamp, SeedState)]
  /\ audit = [r \in Records |-> << >>]
  /\ phase = [p \in Handlers |-> "idle"]
  /\ req   = [p \in Handlers |-> Nil]
  /\ seen  = [p \in Handlers |-> Nil]
  /\ old   = [p \in Handlers |-> Nil]
  /\ queue = [p \in Handlers |-> << >>]
  /\ undo  = [p \in Handlers |-> << >>]
  /\ stamp = [p \in Handlers |-> 0]
  /\ sent = 0 /\ faults = 0 /\ crashes = 0
  /\ granted = {<<r, SeedState>> : r \in {s \in Records : Seed[s] # Nil}}

Admit(p) ==
  \/ Put(p) \/ PostCheckRecord(p) \/ PostCreate(p)
  \/ Patch(p) \/ Delete(p) \/ Transition(p) \/ Refuse(p)

CallStore(p) ==
  \/ ReplaceRecord(p) \/ ReadMeta(p) \/ ReadState(p) \/ ReplaceMeta(p)
  \/ DropRecord(p) \/ DropMeta(p) \/ DropAudit(p) \/ ReadParent(p) \/ PublishEvent(p)

Step(p) == Admit(p) \/ CallStore(p) \/ Respond(p)

Next == \/ \E p \in Handlers : ClientReads(p) \/ Receive(p) \/ Step(p) \/ Raise(p) \/ LoseAuditRow(p)
        \/ Crash

Spec == Init /\ [][Next]_vars

-----------------------------------------------------------------------------
(* Properties.                                                             *)

\* A publication state that somebody asked for, given the set g of what was.
GrantedState(g, iri, state) == state = DefaultState \/ <<iri, state>> \in g

\* The calls that carry no other state.
GrantedCalls(g) ==
  { c \in Call :
      /\ c.do \in {"readMeta", "readState"} => GrantedState(g, c.iri, c.state)
      /\ c.do = "replaceMeta" => GrantedState(g, c.iri, c.meta.state) }

\* The registers of every handler and the stored graphs have the shape the code
\* gives them; a handler serves a request exactly when it is not idle.
TypeOK ==
  /\ record \in [Records -> Graph \cup {Nil}]
  /\ meta   \in [Records -> Meta \cup {Nil}]
  /\ audit  \in [Records -> Seq(Operations)]
  /\ phase  \in [Handlers -> Phases]
  /\ req    \in [Handlers -> Requests \cup {Nil}]
  /\ seen   \in [Handlers -> Graph \cup {Nil}]
  /\ old    \in [Handlers -> Graph \cup {Nil}]
  /\ queue  \in [Handlers -> Seq(Call)]
  /\ undo   \in [Handlers -> Seq(Call)]
  /\ stamp  \in [Handlers -> Nat]
  /\ sent \in Nat /\ faults \in Nat /\ crashes \in Nat
  /\ granted \subseteq Records \X MetadataState
  /\ \A p \in Handlers : (phase[p] = "idle") = (req[p] = Nil)

\* No interleaving, failure, compensation or link maintenance ever makes a
\* record public or archived unless some admitted request asked for that state
\* (the initial state of a create, or a transition): a content edit never
\* publishes a record (router.py:506, meta.py:132).
StateGranted ==
  \A r \in Records : meta[r] # Nil => GrantedState(granted, r, meta[r].state)

\* StateGranted is not inductive: what handlers still have to write matters.
QueuesGranted ==
  \A p \in Handlers : /\ queue[p] \in Seq(GrantedCalls(granted))
                      /\ undo[p] \in Seq(GrantedCalls(granted))

\* An ETag was read from a record; only a POST looks at the meta sibling first;
\* only a handler past its checks has calls to run.
RegistersMatch ==
  \A p \in Handlers :
     /\ queue[p] # << >> => phase[p] \in {"run", "undo"}
     /\ phase[p] = "checkMeta" => req[p].method = "POST"
     /\ phase[p] # "idle" => (req[p].pre = "etag" => seen[p] # Nil)

\* The inductive invariant: shapes, grants of the stored and of the pending
\* states, and the registers the handlers rely on.
IInv == TypeOK /\ StateGranted /\ QueuesGranted /\ RegistersMatch

\* Until a call raises or the process stops.
Undisturbed == faults = 0 /\ crashes = 0

\* A parent's ldp:contains link leads to a record that names it as its
\* dct:isPartOf: creates, moves and deletes of the child keep the forward links
\* in step with the back link (containment.py, router.py:323-360).
NoDanglingLinks ==
  \A k, c \in Records :
     (Quiet(k) /\ Quiet(c) /\ record[k] # Nil) =>
        (c \in record[k].members => ParentOf(record[c]) = k)

\* When a PUT or POST announces its record, the parent the record names holds
\* the link to it, if that parent is a stored record (reconcile_create,
\* reconcile_update and its self-heal).
AnnouncedMembersLinked ==
  \A p \in Handlers :
     (/\ HeadIs(p, "publish") /\ req[p].method \in {"PUT", "POST"}
      /\ Head(queue[p]).iri = req[p].iri) =>
        LET parent == ParentOf(record[req[p].iri]) IN
        (IF parent = Nil THEN Nil ELSE record[parent]) = Nil
          \/ req[p].iri \in record[parent].members

\* While nothing fails, the links of both directions agree: none dangles, and a
\* record is not announced before its parent links to it.
LinksAgree == Undisturbed => NoDanglingLinks /\ AnnouncedMembersLinked

\* Handler p is about to write or drop the very record its request names.
OwnWrite(p) ==
  /\ HeadIs(p, "replaceRecord") \/ HeadIs(p, "dropRecord")
  /\ phase[p] = "run" /\ ~Head(queue[p]).try

\* A write under an ETag replaces exactly the representation its client read:
\* nothing written since is lost (architecture 14.4, ADR-0024 section 3).
NoLostUpdate ==
  [][\A p \in Handlers :
       OwnWrite(p) /\ queue'[p] # queue[p] /\ phase'[p] # "idle" /\ req[p].pre = "etag"
         => record[req[p].iri] = seen[p]]_vars

\* Does a record exist, told from its audit rows?  By the last creation or deletion, or as
\* the profile left it.
Replayed(rows, seeded) ==
  \/ \E i \in DOMAIN rows : /\ rows[i] = "create"
                           /\ \A j \in DOMAIN rows : j > i => rows[j] # "delete"
  \/ seeded /\ \A i \in DOMAIN rows : rows[i] # "delete"

\* While nothing fails, creation and deletion rows of the audit trail replay to
\* the records that exist: no write goes unannounced, or is announced as
\* something it was not.
AuditReplays ==
  \A r \in Records : Undisturbed /\ Quiet(r) =>
     (record[r] # Nil) = Replayed(audit[r], Seed[r] # Nil)

\* A request whose membership write failed, and whose compensation ran, leaves
\* its own record's content as it found it (router.py:354-360, 685-688).
CompensationRestores ==
  \A p \in Handlers : phase[p] = "undo" /\ queue[p] = << >> => record[req[p].iri] = old[p]

\* Provenance, version and state of every record follow the abstract life of a
\* record: the multi-step writes of put_graph, delete_graph and _write_state
\* behave as one step each.
Life == INSTANCE PublicationLifecycle WITH life <- meta
FollowsLifecycle == Life!Spec
=============================================================================

------------------------------ MODULE AuthzIndex ------------------------------
(***************************************************************************)
(* The policy decision point and what is derived from its decisions        *)
(* (policy/pdp.py, cache.py, runtime.py, resolver.py): the authorization   *)
(* index in Postgres and the anon_read flags of the search index, against  *)
(* administrators who write policies, delete them, repoint records and     *)
(* switch the access-control mode (metadata/policies.py,                   *)
(* search/indexer.py, search/reindex.py, main.py).                         *)
(*                                                                         *)
(* A decision is the walk of dct:isPartOf to the first dct:rights, one     *)
(* graph fetch per step, then the fetch of the offer; its upsert is seen   *)
(* by others when its session commits.  An offer is the set of contexts    *)
(* its rules permit; a context is a subject with its roles, groups and     *)
(* the moment of the request, of which the index key keeps only the        *)
(* subject and the roles.  The action is fixed (odrl:read).                *)
(***************************************************************************)
EXTENDS Naturals, FiniteSets

CONSTANTS
  Records, Policies, Nil,
  Contexts, Anonymous,
  Key,            \* compute_subject_key of each context
  Procs,          \* requests and background tasks that run together
  Writers,        \* administrators' policy writes that run together
  SystemDefault,  \* the system-default offer, or Nil
  MaxDepth,       \* bound of the isPartOf walk
  SeedLink,       \* the rights and parent of each record at the start
  SeedOffer,      \* the policies at the start
  Offers,         \* what a policy write may store
  Links,          \* what a record edit may store; {}: records are not edited
  Modes,          \* modes an administrator switches between
  SeedMode,
  MaxWrites       \* bound: policy writes, record edits and switches

Link == [rights : Policies \cup {Nil}, parent : Records \cup {Nil}]
Keys == {Key[c] : c \in Contexts}
Decisions == {"permit", "deny"}

ASSUME AuthzAssumption ==
  /\ Anonymous \in Contexts /\ IsFiniteSet(Records)
  /\ SystemDefault \in Policies \cup {Nil}
  /\ MaxDepth \in Nat \ {0} /\ MaxWrites \in Nat
  /\ SeedLink \in [Records -> Link] /\ Links \subseteq Link
  /\ SeedOffer \in [Policies -> (SUBSET Contexts) \cup {Nil}] /\ Offers \subseteq SUBSET Contexts
  /\ Modes \subseteq {"open", "odrl"} /\ SeedMode \in {"open", "odrl"}
  /\ Nil \notin Records \cup Policies /\ Nil \notin Decisions
  /\ DOMAIN Key = Contexts

VARIABLES
  link,         \* dct:rights and dct:isPartOf of each record graph
  offer,        \* the permitted contexts of each policy graph, or Nil
  mode,         \* the access.control setting
  index,        \* authz_index: the decision of each key and record, or Nil
  flag,         \* anon_read of each search row, or Nil: no row
  pc, task,     \* where each process is, and what it decides for
  ctx, todo,    \* the context it decides for, the records still to decide
  item, at, path,   \* the record it decides, where its walk is, how it got there
  pol, verdict, \* the offer the walk ended at, the decision
  pend,         \* upserts of its open transaction
  writer,       \* what each policy write has still to do
  granted,      \* history: pairs the store granted at some moment
  invented,     \* history: a permit was answered that no version of the store gave
  raced,        \* history: a write, an edit or a switch overlapped with something
  mixed,        \* history: a record was edited while a decision was on its way
  outdated,     \* history: rows whose record an edit has put under another offer
  writes

store == <<link, offer, mode>>
walk  == <<item, at, path, pol>>
proc  == <<pc, task, ctx, todo, walk, verdict, pend>>
hist  == <<granted, invented>>
table == <<index, outdated>>
overlaps == <<raced, mixed>>
vars  == <<store, table, flag, proc, writer, hist, overlaps, writes>>

NoPend == [r \in Records |-> Nil]
NoRows == [k \in Keys |-> NoPend]
Idle   == [pc |-> "idle", pol |-> Nil]

-----------------------------------------------------------------------------
(* What the walk and the evaluation give on a store nobody changes.        *)

\* Where a walk is, and the records before.
Visits == Records \X SUBSET Records

\* _resolve_rights_iri: the first dct:rights up the dct:isPartOf chain, at most
\* MaxDepth graphs, never one twice; else the system default.
EffectiveOffer(lk, record) ==
  LET up[v \in Visits] ==
        LET r == v[1]  seen == v[2] IN
        IF lk[r].rights # Nil THEN lk[r].rights
        ELSE IF lk[r].parent \in seen \cup {r, Nil} \/ Cardinality(seen) + 1 >= MaxDepth
             THEN SystemDefault
             ELSE up[<<lk[r].parent, seen \cup {r}>>]
  IN up[<<record, {}>>]

\* evaluate, and the default deny when no offer or no parseable offer is there.
Evaluate(of, c, p) ==
  IF p = Nil THEN "deny"
  ELSE IF of[p] = Nil THEN "deny" ELSE IF c \in of[p] THEN "permit" ELSE "deny"

Permitted(lk, of, c, r) == Evaluate(of, c, EffectiveOffer(lk, r)) = "permit"

GrantedNow(lk, of) == {cr \in Contexts \X Records : Permitted(lk, of, cr[1], cr[2])}

-----------------------------------------------------------------------------
Writing == \E w \in Writers : writer[w] # Idle
Busy    == \E p \in Procs : pc[p] # "idle"

\* A write, an edit or a switch begins.
Alters == raced' = (raced \/ Writing \/ Busy)

Goto(p, to) == pc' = [pc EXCEPT ![p] = to]

\* Its locals are gone.
Leave(p) ==
  /\ Goto(p, "idle")
  /\ task' = [task EXCEPT ![p] = "answer"] /\ ctx' = [ctx EXCEPT ![p] = Anonymous]

\* A process starts deciding for c, with the given records to do.
Start(p, what, c, records) ==
  /\ task' = [task EXCEPT ![p] = what]
  /\ ctx' = [ctx EXCEPT ![p] = c]
  /\ todo' = [todo EXCEPT ![p] = records]
  /\ UNCHANGED <<walk, verdict, pend>>

\* authorize_many, or authorize for one record: the cached permits first.  In
\* open mode a request is answered by decide_open, which touches nothing here.
Begin(p) ==
  /\ pc[p] = "idle" /\ mode = "odrl"
  /\ raced' = (raced \/ Writing \/ \E q \in Procs : task[q] # "answer")
  /\ \E c \in Contexts, records \in SUBSET Records :
       LET cached == {r \in records : index[Key[c]][r] = "permit"} IN
       /\ records # {}
       /\ invented' = (invented \/ ~({c} \X cached \subseteq granted))
       /\ Start(p, "answer", c, records \ cached)
  /\ Goto(p, "next")
  /\ UNCHANGED <<store, table, flag, writer, granted, mixed, writes>>

\* The decision for r: part of the answer, or what the indexer goes on with.
Decided(p, r, d) ==
  IF task[p] = "answer"
  THEN /\ invented' = (invented \/ (d = "permit" /\ <<ctx[p], r>> \notin granted))
       /\ item' = [item EXCEPT ![p] = Nil]
       /\ UNCHANGED verdict
  ELSE /\ item' = [item EXCEPT ![p] = r]
       /\ verdict' = [verdict EXCEPT ![p] = d]
       /\ UNCHANGED invented

\* cache.lookup finds a row, its own uncommitted ones included.
Known(p, r) == IF pend[p][r] # Nil THEN pend[p][r] ELSE index[Key[ctx[p]]][r]

LookupHit(p) ==
  /\ pc[p] = "next" /\ (task[p] = "event" => mode = "odrl")
  /\ \E r \in todo[p] :
       /\ Known(p, r) # Nil
       /\ todo' = [todo EXCEPT ![p] = @ \ {r}]
       /\ Decided(p, r, Known(p, r))
  /\ Goto(p, IF task[p] = "answer" THEN "next" ELSE "flag")
  /\ UNCHANGED <<store, table, flag, task, ctx, at, path, pol, pend, writer, granted, overlaps, writes>>

LookupMiss(p) ==
  /\ pc[p] = "next" /\ (task[p] = "event" => mode = "odrl")
  /\ \E r \in todo[p] :
       /\ Known(p, r) = Nil
       /\ todo' = [todo EXCEPT ![p] = @ \ {r}]
       /\ item' = [item EXCEPT ![p] = r]
       /\ at' = [at EXCEPT ![p] = r]
  /\ Goto(p, "walk")
  /\ UNCHANGED <<store, table, flag, task, ctx, path, pol, verdict, pend, writer, hist, overlaps, writes>>

EndsWalk(p, seen) ==
  \/ link[at[p]].parent = Nil
  \/ link[at[p]].parent \in seen \cup {at[p]}
  \/ Cardinality(seen) + 1 >= MaxDepth

\* A variant of WalkUp without the guard against cycles.
WalkUpAgain(p) ==
  /\ pc[p] = "walk" /\ link[at[p]].rights = Nil /\ link[at[p]].parent # Nil
  /\ at' = [at EXCEPT ![p] = link[at[p]].parent]
  /\ UNCHANGED <<store, table, flag, pc, task, ctx, todo, item, path, pol, verdict, pend, writer,
                 hist, overlaps, writes>>

WalkUp(p) ==
  /\ pc[p] = "walk" /\ link[at[p]].rights = Nil /\ ~EndsWalk(p, path[p])
  /\ at' = [at EXCEPT ![p] = link[at[p]].parent]
  /\ path' = [path EXCEPT ![p] = @ \cup {at[p]}]
  /\ UNCHANGED <<store, table, flag, pc, task, ctx, todo, item, pol, verdict, pend, writer,
                 hist, overlaps, writes>>

WalkEnds(p) ==
  /\ pc[p] = "walk"
  /\ \/ /\ link[at[p]].rights # Nil
        /\ pol' = [pol EXCEPT ![p] = link[at[p]].rights]
     \/ /\ link[at[p]].rights = Nil /\ EndsWalk(p, path[p])
        /\ pol' = [pol EXCEPT ![p] = SystemDefault]
  /\ at' = [at EXCEPT ![p] = Nil] /\ path' = [path EXCEPT ![p] = {}]
  /\ Goto(p, "offer")
  /\ UNCHANGED <<store, table, flag, task, ctx, todo, item, verdict, pend, writer, hist, overlaps, writes>>

\* The row p is about to insert is one that q has inserted and not committed:
\* Postgres makes p wait for q.
WaitsFor(p, q) ==
  /\ p # q /\ pc[p] = "offer" /\ Key[ctx[p]] = Key[ctx[q]] /\ pend[q][item[p]] # Nil

\* Fetch the offer, evaluate it, and upsert the decision in the transaction.
Decide(p) ==
  LET d == Evaluate(offer, ctx[p], pol[p]) IN
  /\ pc[p] = "offer" /\ \A q \in Procs : ~WaitsFor(p, q)
  /\ Decided(p, item[p], d)
  /\ pol' = [pol EXCEPT ![p] = Nil]
  /\ pend' = [pend EXCEPT ![p][item[p]] = d]
  /\ Goto(p, IF task[p] = "answer" THEN "next" ELSE "commit")
  /\ UNCHANGED <<store, table, flag, task, ctx, todo, at, path, writer, granted, overlaps, writes>>

\* Batches insert in the order their sets iterate: when they wait for each other
\* Postgres aborts one, and its request fails.
Aborted(p) ==
  /\ \E S \in SUBSET Procs : p \in S /\ \A q \in S : \E h \in S : WaitsFor(q, h)
  /\ pend' = [pend EXCEPT ![p] = NoPend]
  /\ todo' = [todo EXCEPT ![p] = {}]
  /\ item' = [item EXCEPT ![p] = Nil] /\ pol' = [pol EXCEPT ![p] = Nil]
  /\ Leave(p)
  /\ UNCHANGED <<store, table, flag, at, path, verdict, writer, hist, overlaps, writes>>

\* A variant of Commit whose rows are found under every subject key.
CommitForEverybody(p) ==
  /\ pc[p] = "commit" \/ (pc[p] = "next" /\ task[p] = "answer" /\ todo[p] = {})
  /\ index' = [k \in Keys |-> [r \in Records |-> IF pend[p][r] # Nil THEN pend[p][r] ELSE index[k][r]]]
  /\ pend' = [pend EXCEPT ![p] = NoPend]
  /\ IF task[p] = "answer" THEN Leave(p) ELSE Goto(p, "flag") /\ UNCHANGED <<task, ctx>>
  /\ UNCHANGED <<store, outdated, flag, todo, walk, verdict, writer, hist, overlaps, writes>>

\* A variant of Commit that leaves the rows in the transaction.
CommitAndKeep(p) ==
  /\ pc[p] = "commit" \/ (pc[p] = "next" /\ task[p] = "answer" /\ todo[p] = {})
  /\ index' = [index EXCEPT ![Key[ctx[p]]] =
                  [r \in Records |-> IF pend[p][r] # Nil THEN pend[p][r] ELSE index[Key[ctx[p]]][r]]]
  /\ IF task[p] = "answer" THEN Leave(p) ELSE Goto(p, "flag") /\ UNCHANGED <<task, ctx>>
  /\ UNCHANGED <<store, outdated, flag, todo, walk, pend, verdict, writer, hist, overlaps, writes>>

\* The session commits: after the batch, or after each record that is indexed.
Commit(p) ==
  /\ pc[p] = "commit" \/ (pc[p] = "next" /\ task[p] = "answer" /\ todo[p] = {})
  /\ index' = [index EXCEPT ![Key[ctx[p]]] =
                  [r \in Records |-> IF pend[p][r] # Nil THEN pend[p][r] ELSE index[Key[ctx[p]]][r]]]
  /\ pend' = [pend EXCEPT ![p] = NoPend]
  /\ IF task[p] = "answer" THEN Leave(p) ELSE Goto(p, "flag") /\ UNCHANGED <<task, ctx>>
  /\ UNCHANGED <<store, outdated, flag, todo, walk, verdict, writer, hist, overlaps, writes>>

\* A committed row that an open transaction has overwritten.
Overwritten == \E p \in Procs, r \in Records : pend[p][r] # Nil /\ index[Key[ctx[p]]][r] # Nil

-----------------------------------------------------------------------------
(* Policy writes: PolicyService.put and delete.                            *)

Write == writes < MaxWrites /\ writes' = writes + 1

\* The store becomes lk and of.
Stored(lk, of) ==
  link' = lk /\ offer' = of /\ granted' = granted \cup GrantedNow(lk, of)

PutPolicy(w) ==
  /\ writer[w] = Idle /\ Alters /\ Write
  /\ \E p \in Policies, s \in Offers : Stored(link, [offer EXCEPT ![p] = s])
  /\ writer' = [writer EXCEPT ![w] = [pc |-> "invalidate", pol |-> Nil]]
  /\ UNCHANGED <<mode, table, flag, proc, invented, mixed>>

\* _is_referenced and _exists ...
CheckUnreferenced(w) ==
  /\ writer[w] = Idle /\ Alters /\ Write
  /\ \E p \in Policies : /\ offer[p] # Nil
                         /\ \A r \in Records : link[r].rights # p
                         /\ writer' = [writer EXCEPT ![w] = [pc |-> "drop", pol |-> p]]
  /\ UNCHANGED <<store, table, flag, proc, hist, mixed>>

\* ... then the delete.
DropPolicy(w) ==
  /\ writer[w].pc = "drop"
  /\ Stored(link, [offer EXCEPT ![writer[w].pol] = Nil])
  /\ writer' = [writer EXCEPT ![w] = [pc |-> "invalidate", pol |-> Nil]]
  /\ UNCHANGED <<mode, table, flag, proc, invented, overlaps, writes>>

\* A variant of Invalidate that only drops the permits of anonymous.
InvalidateAnonymous(w) ==
  /\ writer[w].pc = "invalidate"
  /\ index' = [index EXCEPT ![Key[Anonymous]] = NoPend]
  /\ writer' = [writer EXCEPT ![w] = Idle]
  /\ UNCHANGED <<store, outdated, flag, proc, hist, overlaps, writes>>

\* invalidate_all drops the rows that are committed, and waits for the
\* transactions that overwrite one of them.
Invalidate(w) ==
  /\ writer[w].pc = "invalidate" /\ ~Overwritten
  /\ index' = NoRows /\ outdated' = {}
  /\ writer' = [writer EXCEPT ![w] = Idle]
  /\ UNCHANGED <<store, flag, proc, hist, overlaps, writes>>

-----------------------------------------------------------------------------
(* Record edits and mode switches, and the search rows they rebuild.       *)

\* The rows of records that come under another offer when the hierarchy becomes lk.
Outdates(lk) ==
  {kr \in Keys \X Records :
     index[kr[1]][kr[2]] # Nil /\ EffectiveOffer(lk, kr[2]) # EffectiveOffer(link, kr[2])}

\* An LDP write of a record's dct:rights or dct:isPartOf; its event makes the
\* indexer decide for anonymous.  No row is invalidated.
EditRecord(p) ==
  /\ pc[p] = "idle" /\ Alters /\ Write
  /\ \E r \in Records, l \in Links :
       /\ l.parent # r
       /\ Stored([link EXCEPT ![r] = l], offer)
       /\ outdated' = outdated \cup Outdates([link EXCEPT ![r] = l])
       /\ Start(p, "event", Anonymous, {r})
  /\ mixed' = (mixed \/ \E q \in Procs : pc[q] \in {"walk", "offer"})
  /\ Goto(p, "next")
  /\ UNCHANGED <<mode, index, flag, writer, invented>>

\* In open mode the indexer's decision is decide_open's, and is not cached.
DecideOpen(p) ==
  /\ pc[p] = "next" /\ task[p] = "event" /\ mode = "open"
  /\ \E r \in todo[p] : /\ todo' = [todo EXCEPT ![p] = @ \ {r}]
                        /\ item' = [item EXCEPT ![p] = r]
  /\ verdict' = [verdict EXCEPT ![p] = "permit"]
  /\ Goto(p, "flag")
  /\ UNCHANGED <<store, table, flag, task, ctx, at, path, pol, pend, writer, hist, overlaps, writes>>

\* SearchIndexRepository.upsert.
UpsertFlag(p) ==
  /\ pc[p] = "flag"
  /\ flag' = [flag EXCEPT ![item[p]] = (verdict[p] = "permit")]
  /\ item' = [item EXCEPT ![p] = Nil] /\ verdict' = [verdict EXCEPT ![p] = Nil]
  /\ Goto(p, "next")
  /\ UNCHANGED <<store, table, task, ctx, todo, at, path, pol, pend, writer, hist, overlaps, writes>>

IndexingEnds(p) ==
  /\ pc[p] = "next" /\ task[p] # "answer" /\ todo[p] = {}
  /\ Leave(p)
  /\ UNCHANGED <<store, table, flag, todo, walk, verdict, pend, writer, hist, overlaps, writes>>

\* The settings write; the rebuild runs as a task of its own ...
SwitchMode(p) ==
  /\ pc[p] = "idle" /\ Alters /\ Write
  /\ mode' \in Modes \ {mode}
  /\ Start(p, "rebuild", Anonymous, {})
  /\ Goto(p, "drop")
  /\ UNCHANGED <<link, offer, table, flag, writer, hist, mixed>>

\* ... drops the index ...
RebuildDrops(p) ==
  /\ pc[p] = "drop" /\ ~Overwritten
  /\ index' = NoRows /\ outdated' = {}
  /\ Goto(p, "clear")
  /\ UNCHANGED <<store, flag, task, ctx, todo, walk, verdict, pend, writer, hist, overlaps, writes>>

\* ... and lets reindex_all clear the search rows and index every record, with
\* a decision point of its own that always runs the ODRL engine.
RebuildClears(p) ==
  /\ pc[p] = "clear"
  /\ flag' = NoPend
  /\ todo' = [todo EXCEPT ![p] = Records]
  /\ Goto(p, "next")
  /\ UNCHANGED <<store, table, task, ctx, walk, verdict, pend, writer, hist, overlaps, writes>>

-----------------------------------------------------------------------------
Init ==
  /\ link = SeedLink /\ offer = SeedOffer /\ mode = SeedMode
  /\ index = NoRows /\ flag = NoPend
  /\ pc = [p \in Procs |-> "idle"] /\ task = [p \in Procs |-> "answer"]
  /\ ctx = [p \in Procs |-> Anonymous] /\ todo = [p \in Procs |-> {}]
  /\ item = [p \in Procs |-> Nil] /\ at = [p \in Procs |-> Nil] /\ path = [p \in Procs |-> {}]
  /\ pol = [p \in Procs |-> Nil] /\ verdict = [p \in Procs |-> Nil]
  /\ pend = [p \in Procs |-> NoPend]
  /\ writer = [w \in Writers |-> Idle]
  /\ granted = GrantedNow(SeedLink, SeedOffer)
  /\ invented = FALSE /\ raced = FALSE /\ mixed = FALSE /\ outdated = {} /\ writes = 0

Step(p) ==
  \/ LookupHit(p) \/ LookupMiss(p) \/ WalkUp(p) \/ WalkEnds(p) \/ Decide(p) \/ Aborted(p) \/ Commit(p)
  \/ DecideOpen(p) \/ UpsertFlag(p) \/ IndexingEnds(p) \/ RebuildDrops(p) \/ RebuildClears(p)

PolicyStep(w) == DropPolicy(w) \/ Invalidate(w)

Next ==
  \/ \E p \in Procs : Begin(p) \/ Step(p) \/ EditRecord(p) \/ SwitchMode(p)
  \/ \E w \in Writers : PutPolicy(w) \/ CheckUnreferenced(w) \/ PolicyStep(w)

Spec == Init /\ [][Next]_vars

\* The event loop runs every task that can make a step, and Postgres wakes the
\* transaction that waits for one that ended.
Fairness ==
  /\ \A p \in Procs : WF_vars(Step(p)) /\ SF_vars(Decide(p))
  /\ \A w \in Writers : WF_vars(PolicyStep(w))

-----------------------------------------------------------------------------
(* Properties.                                                             *)

Option(S) == S \cup {Nil}

\* The store, the index and the registers have their shapes, and a process has
\* uncommitted rows only while it runs.
TypeOK ==
  /\ link \in [Records -> Link] /\ offer \in [Policies -> Option(SUBSET Contexts)]
  /\ mode \in {"open", "odrl"}
  /\ index \in [Keys -> [Records -> Option(Decisions)]]
  /\ flag \in [Records -> Option(BOOLEAN)]
  /\ pc \in [Procs -> {"idle", "next", "walk", "offer", "commit", "flag", "drop", "clear"}]
  /\ task \in [Procs -> {"answer", "event", "rebuild"}]
  /\ ctx \in [Procs -> Contexts] /\ todo \in [Procs -> SUBSET Records]
  /\ item \in [Procs -> Option(Records)] /\ at \in [Procs -> Option(Records)]
  /\ path \in [Procs -> SUBSET Records]
  /\ pol \in [Procs -> Option(Policies)] /\ verdict \in [Procs -> Option(Decisions)]
  /\ pend \in [Procs -> [Records -> Option(Decisions)]]
  /\ writer \in [Writers -> [pc : {"idle", "drop", "invalidate"}, pol : Option(Policies)]]
  /\ granted \subseteq Contexts \X Records /\ invented \in BOOLEAN
  /\ raced \in BOOLEAN /\ mixed \in BOOLEAN /\ outdated \subseteq Keys \X Records /\ writes \in Nat
  /\ \A p \in Procs : pc[p] = "idle" => pend[p] = NoPend

\* Until a record is edited while a decision is on its way, no interleaving of policy
\* writes, deletes, edits, batches and rebuilds answers or caches a permit that no version
\* of the effective offer ever gave: decisions may be late, never invented.
PermitsWereGranted ==
  mixed \/ /\ ~invented
           /\ \A k \in Keys, r \in Records :
                index[k][r] = "permit" => \E c \in Contexts : Key[c] = k /\ <<c, r>> \in granted

Quiet == ~Writing /\ ~Busy

\* The decision that is cached for a context, if one is, is what the stored links and
\* offers give.
Agrees(c, r) ==
  index[Key[c]][r] # Nil => (index[Key[c]][r] = "permit") = Permitted(link, offer, c, r)

\* Once writes and decisions have come to rest, every cached decision agrees with the store.
AlwaysCoherent == Quiet => \A c \in Contexts, r \in Records : Agrees(c, r)

\* The same while no write, edit or switch overlaps with a decision or with another: one at
\* a time, policy writes, record edits and decisions leave nothing wrong in the index.
EditsInvalidate == ~raced => AlwaysCoherent

\* What holds: while nothing overlaps, policy writes and switches leave nothing wrong in the
\* index, and an edit of a record only the rows that were there of the records it puts under
\* another offer.  Those rows stay until the next policy write or switch (EditsInvalidate is
\* violated by them).
IndexCoherent ==
  ~raced /\ Quiet =>
    \A c \in Contexts, r \in Records : <<Key[c], r>> \notin outdated => Agrees(c, r)

\* A walk over any dct:isPartOf graph ends, cycles included, and the process
\* with it.
DecisionsEnd == \A p \in Procs : pc[p] # "idle" ~> pc[p] = "idle"
=============================================================================

------------------------- MODULE LdpService_proofs -------------------------
(***************************************************************************)
(* IInv is an inductive invariant of LdpService; type correctness and      *)
(* StateGranted follow, for any handlers, records, requests and bounds.    *)
(* XInv, which contains it, is inductive when clients do not overlap their *)
(* requests on one record: no update is lost then, a compensation restores *)
(* the record, and the handlers implement PublicationLifecycle, whichever  *)
(* store calls fail and whenever the process restarts.  Until a call       *)
(* raises or the process stops, AInv, on top of XInv, is inductive: the    *)
(* creation and deletion rows of the audit trail replay to the records     *)
(* that exist.  So is KInv: the links of both directions agree, from a     *)
(* store in which they do.                                                 *)
(***************************************************************************)
EXTENDS LdpService, SequenceTheorems, TLAPS

-----------------------------------------------------------------------------
(* Calls and queues.                                                       *)

\* What is granted stays granted: calls fit for g fit for any larger set.
LEMMA GrantedCallsGrow ==
  ASSUME NEW g, NEW h, g \subseteq h
  PROVE  /\ GrantedCalls(g) \subseteq GrantedCalls(h)
         /\ \A s \in Seq(GrantedCalls(g)) : s \in Seq(GrantedCalls(h))
<1>1. GrantedCalls(g) \subseteq GrantedCalls(h)
  BY DEF GrantedCalls, GrantedState
<1>2. QED
  BY <1>1, SeqMonotonic

\* Fit calls are calls.
LEMMA GrantedCallsAreCalls ==
  ASSUME NEW g
  PROVE  \A s \in Seq(GrantedCalls(g)) : s \in Seq(Call)
<1>1. GrantedCalls(g) \subseteq Call
  BY DEF GrantedCalls
<1>2. QED
  BY <1>1, SeqMonotonic

\* The queue of a put_graph is fit when its initial state is granted.
LEMMA PutGraphFits ==
  ASSUME NEW g, NEW iri \in Records, NEW graph \in Graph,
         NEW state \in MetadataState, GrantedState(g, iri, state), NEW try \in BOOLEAN
  PROVE  PutGraph(iri, graph, state, try) \in Seq(GrantedCalls(g))
<1> DEFINE c1 == [do |-> "replaceRecord", iri |-> iri, graph |-> graph, try |-> try]
           c2 == [do |-> "readMeta", iri |-> iri, state |-> state, try |-> try]
<1>1. c1 \in GrantedCalls(g)
  BY DEF GrantedCalls, Call
<1>2. c2 \in GrantedCalls(g)
  BY DEF GrantedCalls, Call
<1>3. <<c1, c2>> \in Seq(GrantedCalls(g))
  BY <1>1, <1>2
<1>4. QED
  BY <1>3 DEF PutGraph

\* A delete, a link update and an announcement carry no publication state.
LEMMA DeleteGraphFits ==
  ASSUME NEW g, NEW iri \in Records
  PROVE  DeleteGraph(iri) \in Seq(GrantedCalls(g))
<1> DEFINE c(d) == [do |-> d, iri |-> iri, try |-> FALSE]
<1>1. /\ c("dropRecord") \in GrantedCalls(g)
      /\ c("dropMeta") \in GrantedCalls(g)
      /\ c("dropAudit") \in GrantedCalls(g)
  BY DEF GrantedCalls, Call
<1>2. QED
  BY <1>1 DEF DeleteGraph

\* The read of a parent is fit for any grants: link maintenance asks for no state.
LEMMA ApplyFits ==
  ASSUME NEW g, NEW parent \in Records \cup {Nil}, NEW child \in Records, NEW add \in BOOLEAN
  PROVE  Apply(parent, child, add) \in Seq(GrantedCalls(g))
<1>1. CASE parent = Nil
  BY <1>1 DEF Apply
<1>2. CASE parent # Nil
  <2> DEFINE c == [do |-> "readParent", iri |-> parent, child |-> child, add |-> add, try |-> TRUE]
  <2>1. c \in GrantedCalls(g)
    BY <1>2 DEF GrantedCalls, Call
  <2>2. QED
    BY <1>2, <2>1 DEF Apply
<1>3. QED
  BY <1>1, <1>2

\* ... and so is a reconciliation, which makes one or two of them ...
LEMMA ReconcileFits ==
  ASSUME NEW g, NEW child \in Records,
         NEW oldParent \in Records \cup {Nil}, NEW newParent \in Records \cup {Nil}
  PROVE  Reconcile(child, oldParent, newParent) \in Seq(GrantedCalls(g))
<1>1. /\ Apply(newParent, child, TRUE) \in Seq(GrantedCalls(g))
      /\ Apply(oldParent, child, FALSE) \in Seq(GrantedCalls(g))
  BY ApplyFits
<1>2. QED
  BY <1>1, ConcatProperties DEF Reconcile

\* ... and an announcement.
LEMMA PublishFits ==
  ASSUME NEW g, NEW iri \in Records, NEW op \in Operations
  PROVE  Publish(iri, op) \in Seq(GrantedCalls(g))
<1> DEFINE c == [do |-> "publish", iri |-> iri, op |-> op, try |-> FALSE]
<1>1. c \in GrantedCalls(g)
  BY DEF GrantedCalls, Call
<1>2. QED
  BY <1>1 DEF Publish

\* A compensation puts a record back as DRAFT, or deletes it: it needs no grant.
LEMMA CompensationFits ==
  ASSUME NEW g, NEW iri \in Records, NEW existing \in Graph \cup {Nil}
  PROVE  Compensation(iri, existing) \in Seq(GrantedCalls(g))
<1>1. DefaultState \in MetadataState /\ GrantedState(g, iri, DefaultState)
  BY DEF DefaultState, MetadataState, GrantedState
<1>2. QED
  BY <1>1, PutGraphFits, DeleteGraphFits DEF Compensation

\* The parent of a graph, and the graph an _apply writes back.
LEMMA GraphTypes ==
  /\ \A x \in Graph \cup {Nil} : ParentOf(x) \in Records \cup {Nil}
  /\ \A x \in Graph : \A child \in Records : \A add \in BOOLEAN : WithLink(x, child, add) \in Graph
BY DEF ParentOf, WithLink, Graph

\* build_meta_graph and _write_state keep to the states they find or are given.
LEMMA MetaTypes ==
  ASSUME NEW g, NEW iri \in Records, NEW m \in Meta \cup {Nil}, NEW stamp0 \in Nat,
         NEW state \in MetadataState, GrantedState(g, iri, state),
         m # Nil => GrantedState(g, iri, m.state)
  PROVE  /\ BuildMetaGraph(m, stamp0, state) \in Meta
         /\ GrantedState(g, iri, BuildMetaGraph(m, stamp0, state).state)
         /\ SwapState(m, state) \in Meta
         /\ GrantedState(g, iri, SwapState(m, state).state)
BY DEF BuildMetaGraph, SwapState, Meta, GrantedState

-----------------------------------------------------------------------------
(* The inductive invariant.                                                *)

\* The profile's seeds, and no handler at work.
LEMMA Initially == Init => IInv
<1> SUFFICES ASSUME Init PROVE IInv
  OBVIOUS
<1> USE LdpAssumption, NilAssumption
<1>1. \A S : << >> \in Seq(S)
  BY EmptySeq
<1>2. TypeOK
  <2>1. meta \in [Records -> Meta \cup {Nil}]
    BY DEF Init, BuildMetaGraph, Meta, SeedStamp, SeedState, MetadataState
  <2>2. granted \subseteq Records \X MetadataState
    BY DEF Init, SeedState, MetadataState
  <2>3. QED
    BY <1>1, <2>1, <2>2 DEF Init, TypeOK, Phases
<1>3. StateGranted
  BY DEF Init, StateGranted, GrantedState, BuildMetaGraph, SeedState
<1>4. QueuesGranted
  BY <1>1 DEF Init, QueuesGranted
<1>5. RegistersMatch
  BY DEF Init, RegistersMatch
<1>6. QED
  BY <1>2, <1>3, <1>4, <1>5 DEF IInv

\* A handler that is serving has a request of the workload.
LEMMA Serving ==
  ASSUME IInv, NEW p \in Handlers, phase[p] # "idle"
  PROVE  /\ req[p] \in Requests /\ req[p] \in Request
         /\ req[p].iri \in Records /\ req[p].state \in MetadataState
         /\ req[p].parent \in Records \cup {Nil, Keep}
         /\ req[p].pre \in Preconditions /\ req[p].method \in Methods
         /\ req[p].body \in Bodies
BY LdpAssumption DEF IInv, TypeOK, Request

\* The call at the head of a queue.
LEMMA HeadCall ==
  ASSUME IInv, NEW p \in Handlers, queue[p] # << >>
  PROVE  /\ Head(queue[p]) \in GrantedCalls(granted)
         /\ Head(queue[p]) \in Call
         /\ Tail(queue[p]) \in Seq(GrantedCalls(granted))
<1>1. queue[p] \in Seq(GrantedCalls(granted))
  BY DEF IInv, QueuesGranted
<1>2. /\ Head(queue[p]) \in GrantedCalls(granted)
      /\ Tail(queue[p]) \in Seq(GrantedCalls(granted))
  BY <1>1, HeadTailProperties
<1>3. QED
  BY <1>2 DEF GrantedCalls

\* Continue keeps the invariant when the calls it adds are fit and the store
\* keeps its shape and its granted states.
LEMMA ContinueKeeps ==
  ASSUME IInv, NEW p \in Handlers, queue[p] # << >>,
         NEW calls \in Seq(GrantedCalls(granted)), NEW later \in Seq(GrantedCalls(granted)),
         Continue(p, calls, later),
         record' \in [Records -> Graph \cup {Nil}],
         meta' \in [Records -> Meta \cup {Nil}],
         audit' \in [Records -> Seq(Operations)],
         \A r \in Records : meta'[r] # Nil => GrantedState(granted, r, meta'[r].state)
  PROVE  IInv'
<1>1. calls \o Tail(queue[p]) \o later \in Seq(GrantedCalls(granted))
  BY HeadCall, ConcatProperties
<1>2. queue' \in [Handlers -> Seq(Call)]
  BY <1>1, GrantedCallsAreCalls DEF Continue, IInv, TypeOK
<1>3. TypeOK'
  BY <1>2 DEF IInv, TypeOK, Continue, counters
<1>4. StateGranted'
  BY DEF StateGranted, Continue
<1>5. QueuesGranted'
  <2>1. \A q \in Handlers : queue'[q] \in Seq(GrantedCalls(granted))
    BY <1>1 DEF Continue, IInv, TypeOK, QueuesGranted
  <2>2. QED
    BY <2>1 DEF QueuesGranted, IInv, Continue
<1>6. RegistersMatch'
  BY DEF RegistersMatch, IInv, TypeOK, Continue
<1>7. QED
  BY <1>3, <1>4, <1>5, <1>6 DEF IInv

\* Proceed keeps it when calls and compensation are fit for what is granted.
LEMMA ProceedKeeps ==
  ASSUME IInv, NEW p \in Handlers, phase[p] # "idle",
         NEW current \in Graph \cup {Nil},
         granted \subseteq granted', granted' \subseteq Records \X MetadataState,
         NEW calls \in Seq(GrantedCalls(granted')), NEW compensation \in Seq(GrantedCalls(granted')),
         Proceed(p, current, calls, compensation)
  PROVE  IInv'
<1>1. /\ calls \in Seq(Call) /\ compensation \in Seq(Call)
  BY GrantedCallsAreCalls
<1>2. TypeOK'
  BY <1>1 DEF IInv, TypeOK, Proceed, counters, store, Phases
<1>3. StateGranted'
  BY DEF StateGranted, GrantedState, IInv, Proceed, store
<1>4. QueuesGranted'
  <2>1. \A q \in Handlers : /\ queue[q] \in Seq(GrantedCalls(granted'))
                            /\ undo[q] \in Seq(GrantedCalls(granted'))
    BY GrantedCallsGrow DEF IInv, QueuesGranted
  <2>2. QED
    BY <2>1 DEF QueuesGranted, IInv, TypeOK, Proceed
<1>5. RegistersMatch'
  BY DEF RegistersMatch, IInv, TypeOK, Proceed
<1>6. QED
  BY <1>2, <1>3, <1>4, <1>5 DEF IInv

\* Releasing a handler only empties its registers.
LEMMA ReleaseKeeps ==
  ASSUME IInv, NEW p \in Handlers, Release(p), UNCHANGED <<store, counters, granted>>
  PROVE  IInv'
<1>1. \A S : << >> \in Seq(S)
  BY EmptySeq
<1>2. TypeOK'
  BY <1>1 DEF IInv, TypeOK, Release, counters, store, Phases
<1>3. StateGranted'
  BY DEF StateGranted, GrantedState, IInv, store
<1>4. QueuesGranted'
  BY <1>1 DEF QueuesGranted, IInv, TypeOK, Release
<1>5. RegistersMatch'
  BY DEF RegistersMatch, IInv, TypeOK, Release
<1>6. QED
  BY <1>2, <1>3, <1>4, <1>5 DEF IInv

-----------------------------------------------------------------------------
(* One lemma for each kind of step.                                        *)

\* A client reads and sends: the handler gets a request and its representation.
LEMMA ClientStep ==
  ASSUME IInv, NEW p \in Handlers, ClientReads(p) \/ Receive(p)
  PROVE  IInv'
<1>1. CASE ClientReads(p)
  <2>1. PICK r \in Requests : /\ req' = [req EXCEPT ![p] = r]
                              /\ seen' = [seen EXCEPT ![p] = record[r.iri]]
    BY <1>1 DEF ClientReads
  <2>2. r.iri \in Records /\ r # Nil /\ record[r.iri] \in Graph \cup {Nil}
    BY LdpAssumption DEF IInv, TypeOK, Request
  <2>3. SeedStamp + sent + 1 \in Nat /\ sent + 1 \in Nat
    BY DEF IInv, TypeOK, SeedStamp
  <2>4. TypeOK'
    BY <1>1, <2>1, <2>2, <2>3 DEF IInv, TypeOK, ClientReads, store, Phases
  <2>5. StateGranted' /\ QueuesGranted'
    BY <1>1 DEF IInv, StateGranted, GrantedState, QueuesGranted, ClientReads, store
  <2>6. RegistersMatch'
    BY <1>1 DEF IInv, TypeOK, RegistersMatch, ClientReads
  <2>7. QED
    BY <2>4, <2>5, <2>6 DEF IInv
<1>2. CASE Receive(p)
  <2>1. TypeOK'
    BY <1>2 DEF IInv, TypeOK, Receive, store, counters, Phases
  <2>2. StateGranted' /\ QueuesGranted'
    BY <1>2 DEF IInv, StateGranted, GrantedState, QueuesGranted, Receive, store
  <2>3. RegistersMatch'
    BY <1>2 DEF IInv, TypeOK, RegistersMatch, Receive
  <2>4. QED
    BY <2>1, <2>2, <2>3 DEF IInv
<1>3. QED
  BY <1>1, <1>2

\* A PUT queues what the create it was granted, or the edit, allows.
LEMMA PutStep ==
  ASSUME IInv, NEW p \in Handlers, Put(p)
  PROVE  IInv'
<1> DEFINE r == req[p]
           existing == record[r.iri]
           graph == BodyGraph(r, seen[p])
           op == IF existing = Nil THEN "create" ELSE "modify"
           calls == PutGraph(r.iri, graph, InitialState(r, existing), FALSE)
                      \o Reconcile(r.iri, ParentOf(existing), graph.parent)
                      \o Publish(r.iri, op)
<1>1. /\ r \in Requests /\ r.iri \in Records /\ r.state \in MetadataState
      /\ r.pre \in Preconditions /\ r.body \in Bodies /\ r.parent \in Records \cup {Nil}
  BY Serving, LdpAssumption DEF Put
<1>2. existing \in Graph \cup {Nil} /\ seen[p] \in Graph \cup {Nil}
  BY <1>1 DEF IInv, TypeOK
<1>3. r.pre = "etag" => seen[p] \in Graph
  BY <1>2 DEF IInv, RegistersMatch, Put
<1>4. graph \in Graph /\ graph.parent \in Records \cup {Nil}
  BY <1>1, <1>3 DEF BodyGraph, Graph
<1>5. /\ granted \subseteq granted' /\ granted' \subseteq Records \X MetadataState
      /\ InitialState(r, existing) \in MetadataState
      /\ GrantedState(granted', r.iri, InitialState(r, existing))
  BY <1>1 DEF Put, IInv, TypeOK, InitialState, GrantedState, DefaultState, MetadataState
<1>6. op \in Operations
  BY DEF Operations
<1>7. ParentOf(existing) \in Records \cup {Nil}
  BY <1>2, GraphTypes
<1>8. /\ PutGraph(r.iri, graph, InitialState(r, existing), FALSE) \in Seq(GrantedCalls(granted'))
      /\ Reconcile(r.iri, ParentOf(existing), graph.parent) \in Seq(GrantedCalls(granted'))
      /\ Publish(r.iri, op) \in Seq(GrantedCalls(granted'))
      /\ Compensation(r.iri, existing) \in Seq(GrantedCalls(granted'))
  BY <1>1, <1>2, <1>4, <1>5, <1>6, <1>7, PutGraphFits, ReconcileFits, PublishFits, CompensationFits
<1>9. calls \in Seq(GrantedCalls(granted'))
  BY <1>8, ConcatProperties
<1>10. Proceed(p, existing, calls, Compensation(r.iri, existing)) /\ phase[p] # "idle"
  BY DEF Put
<1>11. QED
  BY <1>2, <1>5, <1>8, <1>9, <1>10, ProceedKeeps

\* A POST queues a create in the state it was granted.
LEMMA PostStep ==
  ASSUME IInv, NEW p \in Handlers, PostCheckRecord(p) \/ PostCreate(p)
  PROVE  IInv'
<1>1. CASE PostCheckRecord(p)
  <2>1. TypeOK'
    BY <1>1 DEF IInv, TypeOK, PostCheckRecord, store, counters, Phases
  <2>2. StateGranted' /\ QueuesGranted'
    BY <1>1 DEF IInv, StateGranted, GrantedState, QueuesGranted, PostCheckRecord, store
  <2>3. RegistersMatch'
    BY <1>1 DEF IInv, TypeOK, RegistersMatch, PostCheckRecord
  <2>4. QED
    BY <2>1, <2>2, <2>3 DEF IInv
<1>2. CASE PostCreate(p)
  <2> DEFINE r == req[p]
             graph == BodyGraph(r, Nil)
             calls == PutGraph(r.iri, graph, InitialState(r, Nil), FALSE)
                        \o Reconcile(r.iri, Nil, graph.parent) \o Publish(r.iri, "create")
  <2>1. /\ phase[p] # "idle" /\ r.method = "POST"
        /\ Proceed(p, Nil, calls, Compensation(r.iri, Nil))
    BY <1>2 DEF PostCreate, IInv, RegistersMatch
  <2>2. /\ r \in Requests /\ r.iri \in Records /\ r.state \in MetadataState
        /\ r.pre = "none" /\ r.body \in Bodies /\ r.parent \in Records \cup {Nil}
    BY <2>1, Serving, LdpAssumption
  <2>3. graph \in Graph /\ graph.parent \in Records \cup {Nil}
    BY <2>2 DEF BodyGraph, Graph
  <2>4. /\ granted \subseteq granted' /\ granted' \subseteq Records \X MetadataState
        /\ InitialState(r, Nil) \in MetadataState
        /\ GrantedState(granted', r.iri, InitialState(r, Nil))
    BY <1>2, <2>2 DEF PostCreate, Grant, IInv, TypeOK, InitialState, GrantedState
  <2>5. "create" \in Operations
    BY DEF Operations
  <2>6. /\ PutGraph(r.iri, graph, InitialState(r, Nil), FALSE) \in Seq(GrantedCalls(granted'))
        /\ Reconcile(r.iri, Nil, graph.parent) \in Seq(GrantedCalls(granted'))
        /\ Publish(r.iri, "create") \in Seq(GrantedCalls(granted'))
        /\ Compensation(r.iri, Nil) \in Seq(GrantedCalls(granted'))
    BY <2>2, <2>3, <2>4, <2>5, PutGraphFits, ReconcileFits, PublishFits, CompensationFits
  <2>7. calls \in Seq(GrantedCalls(granted'))
    BY <2>6, ConcatProperties
  <2>8. QED
    BY <2>1, <2>4, <2>6, <2>7, ProceedKeeps
<1>3. QED
  BY <1>1, <1>2

\* A PATCH asks for no state.
LEMMA PatchStep ==
  ASSUME IInv, NEW p \in Handlers, Patch(p)
  PROVE  IInv'
<1> DEFINE r == req[p]
           existing == record[r.iri]
           graph == PatchedGraph(r, existing)
           calls == PutGraph(r.iri, graph, DefaultState, FALSE) \o Publish(r.iri, "modify")
<1>1. /\ r.iri \in Records /\ r.body \in Bodies /\ r.parent \in Records \cup {Nil, Keep}
  BY Serving DEF Patch
<1>2. existing \in Graph
  BY <1>1 DEF Patch, IInv, TypeOK
<1>3. graph \in Graph
  BY <1>1, <1>2 DEF PatchedGraph, Graph
<1>4. /\ granted' = granted /\ granted' \subseteq Records \X MetadataState
      /\ DefaultState \in MetadataState /\ GrantedState(granted', r.iri, DefaultState)
      /\ "modify" \in Operations
  BY DEF Patch, IInv, TypeOK, DefaultState, MetadataState, GrantedState, Operations
<1>5. /\ PutGraph(r.iri, graph, DefaultState, FALSE) \in Seq(GrantedCalls(granted'))
      /\ Publish(r.iri, "modify") \in Seq(GrantedCalls(granted'))
      /\ << >> \in Seq(GrantedCalls(granted'))
  BY <1>1, <1>3, <1>4, PutGraphFits, PublishFits, EmptySeq
<1>6. calls \in Seq(GrantedCalls(granted'))
  BY <1>5, ConcatProperties
<1>7. Proceed(p, existing, calls, << >>) /\ phase[p] # "idle"
  BY DEF Patch
<1>8. QED
  BY <1>2, <1>4, <1>5, <1>6, <1>7, ProceedKeeps

\* A DELETE neither, and its compensation puts the record back as DRAFT.
LEMMA DeleteStep ==
  ASSUME IInv, NEW p \in Handlers, Delete(p)
  PROVE  IInv'
<1> DEFINE r == req[p]
           existing == record[r.iri]
           calls == DeleteGraph(r.iri)
                      \o Reconcile(r.iri, existing.parent, Nil) \o Publish(r.iri, "delete")
<1>1. r.iri \in Records
  BY Serving DEF Delete
<1>2. existing \in Graph /\ existing.parent \in Records \cup {Nil}
  BY <1>1 DEF Delete, IInv, TypeOK, Graph
<1>3. /\ granted' = granted /\ granted' \subseteq Records \X MetadataState
      /\ "delete" \in Operations
  BY DEF Delete, IInv, TypeOK, Operations
<1>4. /\ DeleteGraph(r.iri) \in Seq(GrantedCalls(granted'))
      /\ Reconcile(r.iri, existing.parent, Nil) \in Seq(GrantedCalls(granted'))
      /\ Publish(r.iri, "delete") \in Seq(GrantedCalls(granted'))
      /\ Compensation(r.iri, existing) \in Seq(GrantedCalls(granted'))
  BY <1>1, <1>2, <1>3, DeleteGraphFits, ReconcileFits, PublishFits, CompensationFits
<1>5. calls \in Seq(GrantedCalls(granted'))
  BY <1>4, ConcatProperties
<1>6. Proceed(p, existing, calls, Compensation(r.iri, existing)) /\ phase[p] # "idle"
  BY DEF Delete
<1>7. QED
  BY <1>2, <1>3, <1>4, <1>5, <1>6, ProceedKeeps

\* A transition queues the state it was granted.
LEMMA TransitionStep ==
  ASSUME IInv, NEW p \in Handlers, Transition(p)
  PROVE  IInv'
<1> DEFINE r == req[p]
           c == [do |-> "readState", iri |-> r.iri, state |-> r.state, try |-> FALSE]
           calls == <<c>> \o Publish(r.iri, "state_change")
<1>1. r.iri \in Records /\ r.state \in MetadataState
  BY Serving DEF Transition
<1>2. /\ granted \subseteq granted' /\ granted' \subseteq Records \X MetadataState
      /\ GrantedState(granted', r.iri, r.state) /\ "state_change" \in Operations
  BY <1>1 DEF Transition, Grant, IInv, TypeOK, GrantedState, Operations
<1>3. c \in GrantedCalls(granted')
  BY <1>1, <1>2 DEF GrantedCalls, Call
<1>4. /\ <<c>> \in Seq(GrantedCalls(granted'))
      /\ Publish(r.iri, "state_change") \in Seq(GrantedCalls(granted'))
      /\ << >> \in Seq(GrantedCalls(granted'))
  BY <1>1, <1>2, <1>3, PublishFits, EmptySeq
<1>5. calls \in Seq(GrantedCalls(granted'))
  BY <1>4, ConcatProperties
<1>6. Proceed(p, Nil, calls, << >>) /\ phase[p] # "idle"
  BY DEF Transition
<1>7. QED
  BY <1>2, <1>4, <1>5, <1>6, ProceedKeeps

\* What the fields of a call are.
LEMMA CallFields ==
  ASSUME NEW g, NEW c \in GrantedCalls(g)
  PROVE  /\ c.iri \in Records /\ c.try \in BOOLEAN
         /\ c.do = "replaceRecord" => c.graph \in Graph
         /\ c.do \in {"readMeta", "readState"} =>
              c.state \in MetadataState /\ GrantedState(g, c.iri, c.state)
         /\ c.do = "replaceMeta" => c.meta \in Meta /\ GrantedState(g, c.iri, c.meta.state)
         /\ c.do = "readParent" => c.child \in Records /\ c.add \in BOOLEAN
         /\ c.do = "publish" => c.op \in Operations
<1>1. c \in Call
  BY DEF GrantedCalls
<1>2. /\ c.iri \in Records /\ c.try \in BOOLEAN
      /\ c.do = "replaceRecord" => c.graph \in Graph
      /\ c.do \in {"readMeta", "readState"} => c.state \in MetadataState
      /\ c.do = "replaceMeta" => c.meta \in Meta
      /\ c.do = "readParent" => c.child \in Records /\ c.add \in BOOLEAN
      /\ c.do = "publish" => c.op \in Operations
  BY <1>1 DEF Call
<1>3. QED
  BY <1>2 DEF GrantedCalls

\* A write-back of a meta graph is fit when its state is granted.
LEMMA ReplaceMetaFits ==
  ASSUME NEW g, NEW iri \in Records, NEW m \in Meta, GrantedState(g, iri, m.state),
         NEW try \in BOOLEAN
  PROVE  << [do |-> "replaceMeta", iri |-> iri, try |-> try, meta |-> m] >> \in Seq(GrantedCalls(g))
<1> DEFINE c == [do |-> "replaceMeta", iri |-> iri, try |-> try, meta |-> m]
<1>1. c \in GrantedCalls(g)
  BY DEF GrantedCalls, Call
<1>2. QED
  BY <1>1

\* The calls that write record graphs or nothing.
LEMMA RecordCallStep ==
  ASSUME IInv, NEW p \in Handlers,
         \/ ReplaceRecord(p) \/ DropRecord(p) \/ DropMeta(p) \/ DropAudit(p) \/ ReplaceMeta(p)
  PROVE  IInv'
<1> DEFINE c == Head(queue[p])
<1>1. queue[p] # << >> /\ Continue(p, << >>, << >>)
  BY DEF ReplaceRecord, DropRecord, DropMeta, DropAudit, ReplaceMeta, HeadIs
<1>2. << >> \in Seq(GrantedCalls(granted))
  BY EmptySeq
<1>3. c \in GrantedCalls(granted)
  BY <1>1, HeadCall
<1>4. record' \in [Records -> Graph \cup {Nil}]
  BY <1>3, CallFields
     DEF ReplaceRecord, DropRecord, DropMeta, DropAudit, ReplaceMeta, store, HeadIs, IInv, TypeOK
<1>5. meta' \in [Records -> Meta \cup {Nil}]
  BY <1>3, CallFields
     DEF ReplaceRecord, DropRecord, DropMeta, DropAudit, ReplaceMeta, store, HeadIs, IInv, TypeOK
<1>6. audit' \in [Records -> Seq(Operations)]
  BY DEF ReplaceRecord, DropRecord, DropMeta, DropAudit, ReplaceMeta, store, IInv, TypeOK
<1>7. \A r \in Records : meta'[r] # Nil => GrantedState(granted, r, meta'[r].state)
  <2> SUFFICES ASSUME NEW r \in Records, meta'[r] # Nil
               PROVE  GrantedState(granted, r, meta'[r].state)
    OBVIOUS
  <2>1. meta \in [Records -> Meta \cup {Nil}]
        /\ (meta[r] # Nil => GrantedState(granted, r, meta[r].state))
    BY DEF IInv, TypeOK, StateGranted
  <2>2. CASE ReplaceMeta(p)
    BY <1>3, <2>1, <2>2, CallFields DEF ReplaceMeta, HeadIs
  <2>3. CASE DropMeta(p)
    BY <1>3, <2>1, <2>3, CallFields DEF DropMeta, HeadIs
  <2>4. CASE UNCHANGED meta
    BY <2>1, <2>4
  <2>5. QED
    BY <2>2, <2>3, <2>4 DEF ReplaceRecord, DropRecord, DropAudit, store
<1>8. QED
  BY <1>1, <1>2, <1>4, <1>5, <1>6, <1>7, ContinueKeeps

\* The reads that compute the meta graph their handler writes back.
LEMMA MetaReadStep ==
  ASSUME IInv, NEW p \in Handlers, ReadMeta(p) \/ ReadState(p)
  PROVE  IInv'
<1> DEFINE c == Head(queue[p])
           built == BuildMetaGraph(meta[c.iri], stamp[p], c.state)
           swapped == SwapState(meta[c.iri], c.state)
           back(m) == << [do |-> "replaceMeta", iri |-> c.iri, try |-> c.try, meta |-> m] >>
<1>1. queue[p] # << >> /\ UNCHANGED store
  BY DEF ReadMeta, ReadState, HeadIs
<1>2. /\ c \in GrantedCalls(granted) /\ c.iri \in Records /\ c.try \in BOOLEAN
      /\ c.state \in MetadataState /\ GrantedState(granted, c.iri, c.state)
  BY <1>1, HeadCall, CallFields DEF ReadMeta, ReadState, HeadIs
<1>3. /\ meta[c.iri] \in Meta \cup {Nil} /\ stamp[p] \in Nat
      /\ meta[c.iri] # Nil => GrantedState(granted, c.iri, meta[c.iri].state)
  BY <1>2 DEF IInv, TypeOK, StateGranted
<1>4. /\ built \in Meta /\ GrantedState(granted, c.iri, built.state)
      /\ swapped \in Meta /\ GrantedState(granted, c.iri, swapped.state)
  BY <1>2, <1>3, MetaTypes
<1>5. /\ back(built) \in Seq(GrantedCalls(granted))
      /\ back(swapped) \in Seq(GrantedCalls(granted))
      /\ << >> \in Seq(GrantedCalls(granted))
  BY <1>2, <1>4, ReplaceMetaFits, EmptySeq
<1>6. /\ record' \in [Records -> Graph \cup {Nil}]
      /\ meta' \in [Records -> Meta \cup {Nil}]
      /\ audit' \in [Records -> Seq(Operations)]
      /\ \A r \in Records : meta'[r] # Nil => GrantedState(granted, r, meta'[r].state)
  BY <1>1 DEF IInv, TypeOK, StateGranted, store
<1>7. Continue(p, back(built), << >>) \/ Continue(p, back(swapped), << >>)
  BY DEF ReadMeta, ReadState
<1>8. QED
  BY <1>1, <1>5, <1>6, <1>7, ContinueKeeps

\* Link maintenance carries the default state, which no refresh of an existing
\* meta graph takes.
LEMMA ReadParentStep ==
  ASSUME IInv, NEW p \in Handlers, ReadParent(p)
  PROVE  IInv'
<1> DEFINE c == Head(queue[p])
           parent == record[c.iri]
           linked == WithLink(parent, c.child, c.add)
<1>1. queue[p] # << >> /\ UNCHANGED store
  BY DEF ReadParent, HeadIs
<1>2. /\ c.iri \in Records /\ c.child \in Records /\ c.add \in BOOLEAN
  BY <1>1, HeadCall, CallFields DEF ReadParent, HeadIs
<1>3. /\ record' \in [Records -> Graph \cup {Nil}]
      /\ meta' \in [Records -> Meta \cup {Nil}]
      /\ audit' \in [Records -> Seq(Operations)]
      /\ \A r \in Records : meta'[r] # Nil => GrantedState(granted, r, meta'[r].state)
  BY <1>1 DEF IInv, TypeOK, StateGranted, store
<1>4. << >> \in Seq(GrantedCalls(granted))
  BY EmptySeq
<1>5. CASE LinkChanges(parent, c.child, c.add)
  <2>1. parent \in Graph
    BY <1>2, <1>5 DEF LinkChanges, IInv, TypeOK
  <2>2. linked \in Graph
    BY <1>2, <2>1, GraphTypes
  <2>3. /\ DefaultState \in MetadataState /\ GrantedState(granted, c.iri, DefaultState)
        /\ "modify" \in Operations
    BY DEF DefaultState, MetadataState, GrantedState, Operations
  <2>4. /\ PutGraph(c.iri, linked, DefaultState, TRUE) \in Seq(GrantedCalls(granted))
        /\ Publish(c.iri, "modify") \in Seq(GrantedCalls(granted))
    BY <1>2, <2>2, <2>3, PutGraphFits, PublishFits
  <2>5. Continue(p, PutGraph(c.iri, linked, DefaultState, TRUE), Publish(c.iri, "modify"))
    BY <1>5 DEF ReadParent
  <2>6. QED
    BY <1>1, <1>3, <2>4, <2>5, ContinueKeeps
<1>6. CASE ~LinkChanges(parent, c.child, c.add)
  <2>1. Continue(p, << >>, << >>)
    BY <1>6 DEF ReadParent
  <2>2. QED
    BY <1>1, <1>3, <1>4, <2>1, ContinueKeeps
<1>7. QED
  BY <1>5, <1>6

\* An announcement adds a row and writes no graph.
LEMMA PublishEventStep ==
  ASSUME IInv, NEW p \in Handlers, PublishEvent(p)
  PROVE  IInv'
<1> DEFINE c == Head(queue[p])
<1>1. queue[p] # << >> /\ Continue(p, << >>, << >>)
  BY DEF PublishEvent, HeadIs
<1>2. c.iri \in Records /\ c.op \in Operations
  BY <1>1, HeadCall, CallFields DEF PublishEvent, HeadIs
<1>3. Append(audit[c.iri], c.op) \in Seq(Operations)
  BY <1>2, AppendProperties DEF IInv, TypeOK
<1>4. audit' \in [Records -> Seq(Operations)]
  BY <1>3 DEF PublishEvent, IInv, TypeOK
<1>5. /\ record' \in [Records -> Graph \cup {Nil}]
      /\ meta' \in [Records -> Meta \cup {Nil}]
      /\ \A r \in Records : meta'[r] # Nil => GrantedState(granted, r, meta'[r].state)
  BY DEF PublishEvent, IInv, TypeOK, StateGranted
<1>6. << >> \in Seq(GrantedCalls(granted))
  BY EmptySeq
<1>7. QED
  BY <1>1, <1>4, <1>5, <1>6, ContinueKeeps

\* A call that raises, whether or not it took effect.
LEMMA RaiseStep ==
  ASSUME IInv, NEW p \in Handlers, Raise(p)
  PROVE  IInv'
<1> DEFINE c == Head(queue[p])
<1>1. /\ queue[p] # << >> /\ (TookEffect(c) \/ UNCHANGED <<record, meta>>)
      /\ UNCHANGED <<audit, req, seen, old, stamp, sent, crashes, granted>>
  BY DEF Raise
<1>2. c \in GrantedCalls(granted)
  BY <1>1, HeadCall
<1>3. record' \in [Records -> Graph \cup {Nil}]
  BY <1>1, <1>2, CallFields DEF TookEffect, IInv, TypeOK
<1>4. meta' \in [Records -> Meta \cup {Nil}]
  BY <1>1, <1>2, CallFields DEF TookEffect, IInv, TypeOK
<1>5. StateGranted'
  <2> SUFFICES ASSUME NEW r \in Records, meta'[r] # Nil
               PROVE  GrantedState(granted, r, meta'[r].state)
    BY <1>1 DEF StateGranted
  <2>1. /\ meta \in [Records -> Meta \cup {Nil}]
        /\ meta[r] # Nil => GrantedState(granted, r, meta[r].state)
    BY DEF IInv, TypeOK, StateGranted
  <2>2. CASE c.do = "replaceMeta" /\ meta' = [meta EXCEPT ![c.iri] = c.meta]
    BY <1>2, <2>1, <2>2, CallFields
  <2>3. CASE c.do = "dropMeta" /\ meta' = [meta EXCEPT ![c.iri] = Nil]
    BY <1>2, <2>1, <2>3, CallFields
  <2>4. CASE UNCHANGED meta
    BY <2>1, <2>4
  <2>5. QED
    BY <1>1, <2>2, <2>3, <2>4 DEF TookEffect
<1>6. \A q \in Handlers : /\ queue'[q] \in Seq(GrantedCalls(granted))
                          /\ undo'[q] \in Seq(GrantedCalls(granted))
  BY EmptySeq DEF Raise, IInv, TypeOK, QueuesGranted
<1>7. QueuesGranted'
  BY <1>1, <1>6 DEF QueuesGranted
<1>8. /\ queue' \in [Handlers -> Seq(Call)]
      /\ undo' \in [Handlers -> Seq(Call)]
  BY EmptySeq DEF Raise, IInv, TypeOK
<1>9. /\ phase[p] # "idle" /\ phase' \in [Handlers -> Phases]
      /\ \A q \in Handlers : (phase'[q] = "idle") = (phase[q] = "idle")
      /\ \A q \in Handlers : phase'[q] = phase[q] \/ phase'[q] = "undo"
                               \/ (phase'[q] = "failed" /\ queue'[q] = << >>)
      /\ \A q \in Handlers \ {p} : queue'[q] = queue[q] /\ phase'[q] = phase[q]
      /\ phase'[p] \in {"undo", "failed"}
  BY DEF Raise, IInv, TypeOK, Phases, RegistersMatch
<1>10. TypeOK'
  BY <1>1, <1>3, <1>4, <1>8, <1>9 DEF Raise, IInv, TypeOK
<1>11. RegistersMatch'
  BY <1>1, <1>9 DEF IInv, RegistersMatch
<1>12. QED
  BY <1>5, <1>7, <1>10, <1>11 DEF IInv

\* A lost row leaves the rest of the queue.
LEMMA LoseAuditRowStep ==
  ASSUME IInv, NEW p \in Handlers, LoseAuditRow(p)
  PROVE  IInv'
<1>1. queue[p] # << >>
  BY DEF LoseAuditRow, HeadIs
<1>2. \A q \in Handlers : queue'[q] \in Seq(GrantedCalls(granted))
  BY <1>1, HeadCall DEF LoseAuditRow, IInv, TypeOK, QueuesGranted
<1>3. queue' \in [Handlers -> Seq(Call)]
  BY <1>2, GrantedCallsAreCalls DEF LoseAuditRow, IInv, TypeOK
<1>4. TypeOK'
  BY <1>3 DEF LoseAuditRow, IInv, TypeOK, store
<1>5. StateGranted' /\ QueuesGranted'
  BY <1>2 DEF LoseAuditRow, IInv, StateGranted, GrantedState, QueuesGranted, store
<1>6. RegistersMatch'
  BY <1>1 DEF LoseAuditRow, IInv, TypeOK, RegistersMatch
<1>7. QED
  BY <1>4, <1>5, <1>6 DEF IInv

\* A restart empties the registers and keeps the stores.
LEMMA CrashStep ==
  ASSUME IInv, Crash
  PROVE  IInv'
<1>1. \A S : << >> \in Seq(S)
  BY EmptySeq
<1>2. TypeOK'
  BY <1>1 DEF Crash, IInv, TypeOK, store, Phases
<1>3. StateGranted' /\ QueuesGranted' /\ RegistersMatch'
  BY <1>1 DEF Crash, IInv, StateGranted, GrantedState, QueuesGranted, RegistersMatch, store
<1>4. QED
  BY <1>2, <1>3 DEF IInv

\* Nothing happens.
LEMMA Stutter ==
  ASSUME IInv, UNCHANGED vars
  PROVE  IInv'
BY DEF IInv, TypeOK, StateGranted, GrantedState, QueuesGranted, RegistersMatch,
       vars, store, handler, counters

\* Every step keeps the invariant.
LEMMA Inductive == IInv /\ [Next]_vars => IInv'
<1> SUFFICES ASSUME IInv, [Next]_vars PROVE IInv'
  OBVIOUS
<1>1. CASE UNCHANGED vars
  BY <1>1, Stutter
<1>2. CASE Crash
  BY <1>2, CrashStep
<1>3. ASSUME NEW p \in Handlers, ClientReads(p) \/ Receive(p) PROVE IInv'
  BY <1>3, ClientStep
<1>4. ASSUME NEW p \in Handlers, Admit(p) PROVE IInv'
  <2>1. CASE Refuse(p)
    BY <2>1, ReleaseKeeps DEF Refuse
  <2>2. QED
    BY <1>4, <2>1, PutStep, PostStep, PatchStep, DeleteStep, TransitionStep DEF Admit
<1>5. ASSUME NEW p \in Handlers, CallStore(p) PROVE IInv'
  BY <1>5, RecordCallStep, MetaReadStep, ReadParentStep, PublishEventStep DEF CallStore
<1>6. ASSUME NEW p \in Handlers, Respond(p) PROVE IInv'
  BY <1>6, ReleaseKeeps DEF Respond
<1>7. ASSUME NEW p \in Handlers, Raise(p) PROVE IInv'
  BY <1>7, RaiseStep
<1>8. ASSUME NEW p \in Handlers, LoseAuditRow(p) PROVE IInv'
  BY <1>8, LoseAuditRowStep
<1>9. QED
  BY <1>1, <1>2, <1>3, <1>4, <1>5, <1>6, <1>7, <1>8 DEF Next, Step

-----------------------------------------------------------------------------
(* The theorems.                                                           *)

\* IInv holds in every reachable state, whatever the constants: how many
\* handlers, records and requests there are, and what fails when.
THEOREM InvariantHolds == Spec => []IInv
BY Initially, Inductive, PTL DEF Spec

\* The stored graphs and the registers of every handler keep their shapes, and
\* a handler holds a request exactly while it serves it.
THEOREM TypeCorrect == Spec => []TypeOK
<1>1. IInv => TypeOK
  BY DEF IInv
<1>2. QED
  BY <1>1, InvariantHolds, PTL

\* No interleaving of the handlers, failing store call, compensation or restart
\* gives a record a publication state other than DRAFT that no admitted request
\* asked for it: content edits and link maintenance never publish.
THEOREM StatesAreGranted == Spec => []StateGranted
<1>1. IInv => StateGranted
  BY DEF IInv
<1>2. QED
  BY <1>1, InvariantHolds, PTL
-----------------------------------------------------------------------------
(* Clients that do not overlap requests on one record.  Each handler then  *)
(* has the records its request touches to itself, so that what it read is  *)
(* still so when it writes.                                                *)

Serves(p) == phase[p] \in {"run", "undo", "failed"}

\* The records p may write, once it has read what it needs.
Own(p) == Touches(req[p], old[p])

\* Handlers in flight touch different records.
Apart ==
  \A p, q \in Handlers : p # q /\ InFlight(p) /\ InFlight(q) => Footprint(p) \cap Footprint(q) = {}

\* A life goes from m to n in one step of the abstract specification.
Lives(m, n) ==
  \/ /\ m = Nil
     /\ n.born # 0 /\ n.version = 1 /\ n.state \in {"DRAFT", "PUBLISHED"}
  \/ m # Nil /\ n = [m EXCEPT !.version = @ + 1]
  \/ m # Nil /\ \E e \in Life!Moves : m.state = e[1] /\ n = [m EXCEPT !.state = e[2]]

\* The parents p may give the record of its request, when it found none there.
Homes(p) == Own(p) \cup {Nil}

FitGraph(p, c) ==
  c.do = "replaceRecord" /\ c.iri = req[p].iri /\ old[p] = Nil => c.graph.parent \in Homes(p)

\* The calls p may have left behind the first ...
Later(p) ==
  {c \in Call :
     /\ c.iri \in Own(p) /\ c.do \notin {"replaceMeta", "readState"}
     /\ c.do = "readMeta" => c.state \in {"DRAFT", "PUBLISHED"}
     /\ FitGraph(p, c)
     /\ phase[p] = "run" /\ c.do \in {"replaceRecord", "dropRecord"} => c.try
     /\ c.do = "readParent" => c.try
     /\ req[p].method = "STATE" => c.do = "publish"}

\* ... and the first, which writes what was computed from what is still there.
Ready(p, c) ==
  /\ c.iri \in Own(p)
  /\ \/ c \in Later(p)
     \/ c.do = "replaceMeta" /\ Lives(meta[c.iri], c.meta)
     \/ /\ c.do = "readState" /\ ~c.try
        /\ meta[c.iri] # Nil /\ TransitionAllowed(meta[c.iri].state, c.state, req[p].admin)
     \/ /\ phase[p] = "run" /\ c.do \in {"replaceRecord", "dropRecord"} /\ ~c.try
        /\ c.iri = req[p].iri /\ FitGraph(p, c) /\ req[p].method # "STATE"
        /\ req[p].pre = "etag" => record[c.iri] = seen[p]

Untried == {c \in Call : ~c.try}
Closing == {c \in Untried : c.do \in {"readMeta", "replaceMeta", "dropMeta", "dropAudit"}}

Restore(p) == Compensation(req[p].iri, old[p])

\* What holds of each handler between any two steps.
Tidy(p) ==
  /\ phase[p] # "idle" => stamp[p] # 0
  /\ ~Serves(p) => old[p] = Nil
  /\ phase[p] = "checkMeta" => record[req[p].iri] = Nil
  /\ Serves(p) /\ old[p] = Nil /\ req[p].method # "STATE" => ParentOf(record[req[p].iri]) \in Homes(p)
  /\ queue[p] # << >> => Ready(p, Head(queue[p])) /\ Tail(queue[p]) \in Seq(Later(p))
  /\ phase[p] = "run" => \/ undo[p] = Restore(p) /\ req[p].method # "STATE"
                         \/ queue[p] \in Seq(Untried)
  /\ phase[p] = "undo" => \/ queue[p] = Restore(p) /\ req[p].method # "STATE"
                          \/ record[req[p].iri] = old[p] /\ queue[p] \in Seq(Closing)

\* Every life has begun with its provenance.
Born == \A r \in Records : meta[r] # Nil => meta[r].born # 0

XInv == IInv /\ Apart /\ Born /\ \A p \in Handlers : Tidy(p)
-----------------------------------------------------------------------------
(* Sequences of calls.                                                     *)

\* The parts of a sequence that begins with c.
LEMMA ConsParts ==
  ASSUME NEW S, NEW c, NEW s \in Seq(S)
  PROVE  Head(<<c>> \o s) = c /\ Tail(<<c>> \o s) = s /\ <<c>> \o s # << >>
<1> DEFINE q == <<c>> \o s
           T == S \cup {c}
<1>1. s \in Seq(T) /\ <<c>> \in Seq(T)
  BY SeqMonotonic
<1>2. /\ q \in Seq(T) /\ Len(q) = 1 + Len(s)
      /\ \A i \in 1 .. 1 + Len(s) : q[i] = IF i <= 1 THEN <<c>>[i] ELSE s[i - 1]
  BY <1>1, ConcatProperties
<1>3. Len(s) \in Nat /\ q # << >>
  BY <1>2, LenProperties
<1>4. Head(q) = c
  BY <1>2, <1>3
<1>5. /\ Tail(q) \in Seq(T) /\ Len(Tail(q)) = Len(s)
      /\ \A i \in 1 .. Len(Tail(q)) : Tail(q)[i] = q[i + 1]
  BY <1>2, <1>3, HeadTailProperties
<1>6. \A i \in 1 .. Len(s) : Tail(q)[i] = s[i]
  BY <1>2, <1>3, <1>5
<1>7. Tail(q) = s
  BY <1>1, <1>5, <1>6, SeqEqual
<1>8. QED
  BY <1>3, <1>4, <1>7

\* The parts of the two shortest programs.
LEMMA ShortParts ==
  ASSUME NEW a, NEW b, NEW c
  PROVE  /\ Head(<<a, b>>) = a /\ Tail(<<a, b>>) = <<b>> /\ <<a, b>> # << >>
         /\ Head(<<a, b, c>>) = a /\ Tail(<<a, b, c>>) = <<b, c>> /\ <<a, b, c>> # << >>
<1> DEFINE S == {a, b, c}
<1>1. <<b>> \in Seq(S) /\ <<b, c>> \in Seq(S) /\ <<a, b>> \in Seq(S) /\ <<a, b, c>> \in Seq(S)
  OBVIOUS
<1>2. Len(<<a, b>>) = 2 /\ Len(<<a, b, c>>) = 3 /\ Len(<<b>>) = 1 /\ Len(<<b, c>>) = 2
  OBVIOUS
<1>3. <<a, b>> # << >> /\ <<a, b, c>> # << >>
  BY <1>2
<1>4. Tail(<<a, b>>) = <<b>>
  <2>1. /\ Tail(<<a, b>>) \in Seq(S) /\ Len(Tail(<<a, b>>)) = 1
        /\ \A i \in 1 .. 1 : Tail(<<a, b>>)[i] = <<a, b>>[i + 1]
    BY <1>1, <1>2, <1>3, HeadTailProperties
  <2>2. \A i \in 1 .. 1 : Tail(<<a, b>>)[i] = <<b>>[i]
    BY <2>1
  <2>3. QED
    BY <1>1, <1>2, <2>1, <2>2, SeqEqual
<1>5. Tail(<<a, b, c>>) = <<b, c>>
  <2>1. /\ Tail(<<a, b, c>>) \in Seq(S) /\ Len(Tail(<<a, b, c>>)) = 2
        /\ \A i \in 1 .. 2 : Tail(<<a, b, c>>)[i] = <<a, b, c>>[i + 1]
    BY <1>1, <1>2, <1>3, HeadTailProperties
  <2>2. Tail(<<a, b, c>>)[1] = b /\ Tail(<<a, b, c>>)[2] = c
    BY <2>1
  <2>3. \A i \in 1 .. 2 : Tail(<<a, b, c>>)[i] = <<b, c>>[i]
    BY <2>2
  <2>4. QED
    BY <1>1, <1>2, <2>1, <2>3, SeqEqual
<1>6. QED
  BY <1>3, <1>4, <1>5

\* The first call of a compensation writes the record back.
LEMMA RestoreFirst ==
  ASSUME NEW iri, NEW existing
  PROVE  /\ existing # Nil => Head(Compensation(iri, existing)) =
                 [do |-> "replaceRecord", iri |-> iri, graph |-> existing, try |-> FALSE]
         /\ existing = Nil => Head(Compensation(iri, existing)) =
                 [do |-> "dropRecord", iri |-> iri, try |-> FALSE]
BY ShortParts DEF Compensation, PutGraph, DeleteGraph

\* What a compensation is made of: first its write, then what follows from it.
LEMMA RestoreParts ==
  ASSUME NEW iri \in Records, NEW existing \in Graph \cup {Nil}
  PROVE  LET c == Head(Compensation(iri, existing))
             t == Tail(Compensation(iri, existing)) IN
         /\ Compensation(iri, existing) # << >>
         /\ c \in Untried /\ c.iri = iri
         /\ existing # Nil => c.do = "replaceRecord" /\ c.graph = existing
         /\ existing = Nil => c.do = "dropRecord"
         /\ t \in Seq({d \in Closing : d.iri = iri /\ d.do # "replaceMeta"
                                         /\ (d.do = "readMeta" => d.state = DefaultState)})
<1> DEFINE D == {d \in Closing : d.iri = iri /\ d.do # "replaceMeta"
                                   /\ (d.do = "readMeta" => d.state = DefaultState)}
           d1 == [do |-> "dropRecord", iri |-> iri, try |-> FALSE]
           d2 == [do |-> "dropMeta", iri |-> iri, try |-> FALSE]
           d3 == [do |-> "dropAudit", iri |-> iri, try |-> FALSE]
           p1 == [do |-> "replaceRecord", iri |-> iri, graph |-> existing, try |-> FALSE]
           p2 == [do |-> "readMeta", iri |-> iri, state |-> DefaultState, try |-> FALSE]
<1>1. CASE existing = Nil
  <2>1. d1 \in Untried /\ d2 \in D /\ d3 \in D
    BY DEF Untried, Closing, Call
  <2>2. <<d2, d3>> \in Seq(D)
    BY <2>1
  <2>3. Compensation(iri, existing) = <<d1, d2, d3>>
    BY <1>1 DEF Compensation, DeleteGraph
  <2> HIDE DEF d1, d2, d3
  <2>4. Head(<<d1, d2, d3>>) = d1 /\ Tail(<<d1, d2, d3>>) = <<d2, d3>> /\ <<d1, d2, d3>> # << >>
    BY ShortParts
  <2>5. QED
    BY <1>1, <2>1, <2>2, <2>3, <2>4 DEF d1
<1>2. CASE existing # Nil
  <2>1. p1 \in Untried /\ p2 \in D
    BY <1>2 DEF Untried, Closing, Call, DefaultState, MetadataState
  <2>2. <<p2>> \in Seq(D)
    BY <2>1
  <2>3. Compensation(iri, existing) = <<p1, p2>>
    BY <1>2 DEF Compensation, PutGraph
  <2>4. Head(<<p1, p2>>) = p1 /\ Tail(<<p1, p2>>) = <<p2>> /\ <<p1, p2>> # << >>
    BY ShortParts
  <2>5. QED
    BY <1>2, <2>1, <2>2, <2>3, <2>4
<1>3. QED
  BY <1>1, <1>2

-----------------------------------------------------------------------------
(* What one handler's step leaves to the others.                           *)

Same(q) ==
  /\ phase'[q] = phase[q] /\ req'[q] = req[q] /\ seen'[q] = seen[q] /\ old'[q] = old[q]
  /\ queue'[q] = queue[q] /\ undo'[q] = undo[q] /\ stamp'[q] = stamp[q]

\* The step is of p alone, and writes nothing but records that are its own.
Confined(p) ==
  /\ \A q \in Handlers \ {p} : Same(q)
  /\ \A r \in Records :
       record'[r] # record[r] \/ meta'[r] # meta[r] => Serves(p) /\ r \in Own(p)

\* The records a handler may write are among those it touches.
LEMMA OwnInFootprint ==
  ASSUME NEW p \in Handlers
  PROVE  Own(p) \subseteq Footprint(p) /\ Footprint(p) \subseteq Records
<1>1. Nil \notin Records
  BY NilAssumption
<1>2. QED
  BY <1>1 DEF Own, Footprint, Touches, ParentOf

\* The record a request names is one of them.
LEMMA NamedIsOwn ==
  ASSUME IInv, NEW p \in Handlers, phase[p] # "idle"
  PROVE  req[p].iri \in Own(p) /\ req[p].iri \in Records
BY Serving DEF Own, Touches

\* A handler whose registers and records stay as they are stays as it is.
LEMMA FrameTidy ==
  ASSUME IInv, NEW q \in Handlers, Tidy(q), Same(q),
         InFlight(q) => \A r \in Footprint(q) : record'[r] = record[r] /\ meta'[r] = meta[r]
  PROVE  Tidy(q)' /\ (InFlight(q)' <=> InFlight(q)) /\ (InFlight(q) => Footprint(q)' = Footprint(q))
<1>1. InFlight(q)' <=> InFlight(q)
  BY DEF InFlight, Same
<1>2. Own(q)' = Own(q) /\ Homes(q)' = Homes(q) /\ Restore(q)' = Restore(q) /\ (Serves(q)' <=> Serves(q))
  BY DEF Own, Homes, Restore, Serves, Same
<1>3. Later(q)' = Later(q)
  BY <1>2 DEF Later, FitGraph, Same
<1>4. CASE ~InFlight(q)
  <2>1. phase[q] \in {"idle", "client"} /\ queue[q] = << >>
    BY <1>4 DEF InFlight, IInv, RegistersMatch
  <2>2. QED
    BY <1>1, <1>2, <1>4, <2>1 DEF Tidy, Serves, Same
<1>5. CASE InFlight(q)
  <2>1. req[q].iri \in Own(q) /\ req[q].iri \in Footprint(q)
    BY <1>5, NamedIsOwn, OwnInFootprint DEF InFlight
  <2>2. record'[req[q].iri] = record[req[q].iri]
    BY <1>5, <2>1
  <2>3. Footprint(q)' = Footprint(q)
    BY <2>2 DEF Footprint, Same
  <2>4. \A c : Ready(q, c) => Ready(q, c)'
    <3> SUFFICES ASSUME NEW c, Ready(q, c) PROVE Ready(q, c)'
      OBVIOUS
    <3>1. c.iri \in Own(q) /\ c.iri \in Footprint(q)
      BY OwnInFootprint DEF Ready
    <3>2. record'[c.iri] = record[c.iri] /\ meta'[c.iri] = meta[c.iri]
      BY <1>5, <3>1
    <3>3. FitGraph(q, c)' <=> FitGraph(q, c)
      BY <1>2 DEF FitGraph, Same
    <3>4. QED
      BY <1>2, <1>3, <3>2, <3>3 DEF Ready, Same
  <2>5. QED
    BY <1>1, <1>2, <1>3, <2>2, <2>3, <2>4 DEF Tidy, Same
<1>6. QED
  BY <1>4, <1>5

\* So a confined step that leaves its own handler tidy, and its footprint no larger, leaves all so.
LEMMA Gather ==
  ASSUME XInv, NEW p \in Handlers, Confined(p), Tidy(p)',
         InFlight(p)' => InFlight(p) /\ Footprint(p)' \subseteq Footprint(p)
  PROVE  Apart' /\ \A q \in Handlers : Tidy(q)'
<1>1. \A q \in Handlers \ {p} :
        Tidy(q)' /\ (InFlight(q)' <=> InFlight(q)) /\ (InFlight(q) => Footprint(q)' = Footprint(q))
  <2> SUFFICES ASSUME NEW q \in Handlers \ {p}
               PROVE  Tidy(q)' /\ (InFlight(q)' <=> InFlight(q))
                        /\ (InFlight(q) => Footprint(q)' = Footprint(q))
    OBVIOUS
  <2>1. ASSUME InFlight(q), NEW r \in Footprint(q)
        PROVE  record'[r] = record[r] /\ meta'[r] = meta[r]
    <3>1. r \in Records
      BY <2>1, OwnInFootprint
    <3>2. ~(Serves(p) /\ r \in Own(p))
      BY <2>1, OwnInFootprint DEF XInv, Apart, Serves, InFlight
    <3>3. QED
      BY <3>1, <3>2 DEF Confined
  <2>2. QED
    BY <2>1, FrameTidy DEF XInv, Confined
<1>2. Apart'
  BY <1>1 DEF XInv, Apart
<1>3. QED
  BY <1>1, <1>2
-----------------------------------------------------------------------------
(* What the call in hand does to the stores.                               *)

\* A call that took effect, or did not: it writes only what its handler owns, the lives it changes
\* make one step, and a record that was not there gets one of the parents its handler knows.
LEMMA Effect ==
  ASSUME XInv, NEW p \in Handlers, queue[p] # << >>,
         TookEffect(Head(queue[p])) \/ UNCHANGED <<record, meta>>
  PROVE  /\ \A r \in Records :
              record'[r] # record[r] \/ meta'[r] # meta[r] => r \in Own(p)
         /\ Born'
         /\ old[p] = Nil /\ req[p].method # "STATE" => ParentOf(record'[req[p].iri]) \in Homes(p)
         /\ req[p].method = "STATE" => record' = record
         /\ meta' # meta => \E r \in Records :
              /\ \A q \in Records \ {r} : meta'[q] = meta[q]
              /\ \/ Lives(meta[r], meta'[r]) /\ meta'[r] # Nil
                 \/ meta[r] # Nil /\ meta'[r] = Nil
<1> DEFINE c == Head(queue[p])
<1>1. c \in Call /\ c \in GrantedCalls(granted) /\ Ready(p, c) /\ c.iri \in Own(p)
  BY HeadCall DEF XInv, Tidy, Ready
<1>2. /\ phase[p] # "idle" /\ Serves(p) /\ req[p].iri \in Records
      /\ record \in [Records -> Graph \cup {Nil}] /\ meta \in [Records -> Meta \cup {Nil}]
  BY NamedIsOwn DEF XInv, IInv, RegistersMatch, TypeOK, Serves
<1>3. /\ c.iri \in Records
      /\ c.do = "replaceRecord" => c.graph \in Graph /\ c.graph # Nil
      /\ c.do = "replaceMeta" => c.meta \in Meta /\ c.meta # Nil
  BY <1>1, CallFields, LdpAssumption
<1>4. c.do = "replaceMeta" => Lives(meta[c.iri], c.meta)
  BY <1>1 DEF Ready, Later
<1>5. c.do = "replaceRecord" => FitGraph(p, c)
  BY <1>1 DEF Ready, Later
<1>6. c.do \in {"replaceRecord", "dropRecord"} => req[p].method # "STATE"
  BY <1>1 DEF Ready, Later
<1>7. old[p] = Nil /\ req[p].method # "STATE" => ParentOf(record[req[p].iri]) \in Homes(p)
  BY <1>2 DEF XInv, Tidy
<1> HIDE DEF c
<1>8. CASE c.do = "replaceRecord" /\ record' = [record EXCEPT ![c.iri] = c.graph] /\ UNCHANGED meta
  <2>1. old[p] = Nil /\ req[p].method # "STATE" => ParentOf(record'[req[p].iri]) \in Homes(p)
    <3>1. CASE c.iri = req[p].iri
      BY <1>2, <1>3, <1>5, <1>8, <3>1 DEF FitGraph, ParentOf
    <3>2. CASE c.iri # req[p].iri
      BY <1>2, <1>7, <1>8, <3>2
    <3>3. QED
      BY <3>1, <3>2
  <2>2. QED
    BY <1>1, <1>2, <1>6, <1>8, <2>1 DEF XInv, Born
<1>9. CASE c.do = "dropRecord" /\ record' = [record EXCEPT ![c.iri] = Nil] /\ UNCHANGED meta
  <2>1. old[p] = Nil /\ req[p].method # "STATE" => ParentOf(record'[req[p].iri]) \in Homes(p)
    <3>1. CASE c.iri = req[p].iri
      BY <1>2, <1>9, <3>1 DEF ParentOf, Homes
    <3>2. CASE c.iri # req[p].iri
      BY <1>2, <1>7, <1>9, <3>2
    <3>3. QED
      BY <3>1, <3>2
  <2>2. QED
    BY <1>1, <1>2, <1>6, <1>9, <2>1 DEF XInv, Born
<1>10. CASE c.do = "replaceMeta" /\ meta' = [meta EXCEPT ![c.iri] = c.meta] /\ UNCHANGED record
  <2>1. meta'[c.iri] = c.meta /\ \A q \in Records \ {c.iri} : meta'[q] = meta[q]
    BY <1>2, <1>3, <1>10
  <2>2. c.meta.born # 0
    <3>1. Lives(meta[c.iri], c.meta) /\ (meta[c.iri] # Nil => meta[c.iri].born # 0 /\ meta[c.iri] \in Meta)
      BY <1>2, <1>3, <1>4, <1>10 DEF XInv, Born
    <3>2. QED
      BY <3>1 DEF Lives, Meta
  <2>3. Born'
    BY <2>1, <2>2 DEF XInv, Born
  <2>4. QED
    BY <1>1, <1>3, <1>4, <1>7, <1>10, <2>1, <2>3
<1>11. CASE c.do = "dropMeta" /\ meta' = [meta EXCEPT ![c.iri] = Nil] /\ UNCHANGED record
  <2>1. meta'[c.iri] = Nil /\ \A q \in Records \ {c.iri} : meta'[q] = meta[q]
    BY <1>2, <1>3, <1>11
  <2>2. Born'
    BY <2>1 DEF XInv, Born
  <2>3. meta[c.iri] = Nil => meta' = meta
    BY <1>2, <1>11
  <2>4. QED
    BY <1>1, <1>3, <1>7, <1>11, <2>1, <2>2, <2>3
<1>12. CASE UNCHANGED <<record, meta>>
  BY <1>7, <1>12 DEF XInv, Born
<1>13. QED
  BY <1>8, <1>9, <1>10, <1>11, <1>12 DEF TookEffect, c

\* The call in hand is one its handler may have: what it says.
LEMMA InHand ==
  ASSUME XInv, NEW p \in Handlers, queue[p] # << >>
  PROVE  LET c == Head(queue[p]) IN
         /\ c \in Call /\ Ready(p, c) /\ c.iri \in Own(p) /\ c.iri \in Records
         /\ Tail(queue[p]) \in Seq(Later(p)) /\ Tail(queue[p]) \in Seq(Call)
         /\ Serves(p) /\ phase[p] \in {"run", "undo"}
         /\ req[p].iri \in Records /\ req[p].iri \in Own(p) /\ stamp[p] # 0 /\ stamp[p] \in Nat
         /\ queue[p] \in Seq(Untried) => c \in Untried /\ Tail(queue[p]) \in Seq(Untried)
         /\ queue[p] \in Seq(Closing) => c \in Closing /\ Tail(queue[p]) \in Seq(Closing)
<1> DEFINE c == Head(queue[p])
<1>1. c \in Call /\ c \in GrantedCalls(granted) /\ Ready(p, c) /\ Tail(queue[p]) \in Seq(Later(p))
  BY HeadCall DEF XInv, Tidy
<1>2. Later(p) \subseteq Call
  BY DEF Later
<1>3. Tail(queue[p]) \in Seq(Call)
  BY <1>1, <1>2, SeqMonotonic
<1>4. phase[p] \in {"run", "undo"} /\ Serves(p) /\ phase[p] # "idle"
  BY DEF XInv, IInv, RegistersMatch, Serves
<1>5. req[p].iri \in Records /\ req[p].iri \in Own(p) /\ stamp[p] # 0 /\ stamp[p] \in Nat
  BY <1>4, NamedIsOwn DEF XInv, Tidy, IInv, TypeOK
<1>6. c.iri \in Own(p) /\ c.iri \in Records
  BY <1>1, CallFields DEF Ready
<1>7. \A S : queue[p] \in Seq(S) => c \in S /\ Tail(queue[p]) \in Seq(S)
  BY HeadTailProperties
<1>8. QED
  BY <1>1, <1>3, <1>4, <1>5, <1>6, <1>7

\* A handler that goes on with its program stays tidy.
LEMMA GoesOn ==
  ASSUME XInv, NEW p \in Handlers, queue[p] # << >>,
         \A q \in Handlers \ {p} : Same(q),
         UNCHANGED <<phase[p], req[p], seen[p], old[p], undo[p], stamp[p]>>,
         TookEffect(Head(queue[p])) \/ UNCHANGED <<record, meta>>,
         queue'[p] # << >> => Ready(p, Head(queue[p]))' /\ Tail(queue'[p]) \in Seq(Later(p)),
         queue[p] \in Seq(Untried) => queue'[p] \in Seq(Untried),
         phase[p] = "undo" => record'[req[p].iri] = old[p] /\ queue'[p] \in Seq(Closing)
  PROVE  Apart' /\ Born' /\ \A q \in Handlers : Tidy(q)'
<1>1. /\ Serves(p) /\ Serves(p)' /\ Own(p)' = Own(p) /\ Homes(p)' = Homes(p) /\ Restore(p)' = Restore(p)
      /\ InFlight(p) /\ InFlight(p)' /\ phase[p] \in {"run", "undo"}
  BY InHand DEF Serves, Own, Homes, Restore, InFlight
<1>2. Later(p)' = Later(p)
  BY <1>1 DEF Later, FitGraph
<1>3. /\ \A r \in Records : record'[r] # record[r] \/ meta'[r] # meta[r] => r \in Own(p)
      /\ Born'
      /\ old[p] = Nil /\ req[p].method # "STATE" => ParentOf(record'[req[p].iri]) \in Homes(p)
      /\ req[p].method = "STATE" => record' = record
  BY Effect
<1>4. Tidy(p)'
  BY <1>1, <1>2, <1>3 DEF XInv, Tidy
<1>5. Confined(p)
  BY <1>1, <1>3 DEF Confined
<1>6. Footprint(p)' \subseteq Footprint(p)
  <2>1. CASE old[p] # Nil \/ req[p].method = "STATE"
    BY <1>3, <2>1 DEF Footprint
  <2>2. CASE old[p] = Nil /\ req[p].method # "STATE"
    <3>1. Footprint(p)' \subseteq Own(p)
      <4>1. /\ Footprint(p)' = {req[p].iri, req[p].parent, ParentOf(record'[req[p].iri])} \cap Records
            /\ Own(p) = {req[p].iri, req[p].parent, Nil} \cap Records
        BY <2>2 DEF Footprint, Touches, Own, ParentOf
      <4>2. ParentOf(record'[req[p].iri]) \in Own(p) \cup {Nil} /\ Nil \notin Records
        BY <1>3, <2>2, NilAssumption DEF Homes
      <4>3. QED
        BY <4>1, <4>2
    <3>2. QED
      BY <3>1, OwnInFootprint
  <2>3. QED
    BY <2>1, <2>2
<1>7. QED
  BY <1>1, <1>3, <1>4, <1>5, <1>6, Gather
-----------------------------------------------------------------------------
(* The steps of a program.                                                 *)

\* The calls whose result their handler does not use.
LEMMA PlainCall ==
  ASSUME XInv, NEW p \in Handlers, queue[p] # << >>,
         Continue(p, << >>, << >>), TookEffect(Head(queue[p])) \/ UNCHANGED <<record, meta>>,
         phase[p] = "undo" /\ queue[p] = Restore(p) => record'[req[p].iri] = old[p],
         Head(queue[p]) \in Closing => record' = record
  PROVE  Apart' /\ Born' /\ \A q \in Handlers : Tidy(q)'
<1> DEFINE t == Tail(queue[p])
<1>1. t \in Seq(Later(p)) /\ t \in Seq(Call) /\ phase[p] \in {"run", "undo"} /\ req[p].iri \in Records
  BY InHand
<1>2. << >> \o t \o << >> = t
  BY <1>1, ConcatEmptySeq
<1>3. /\ \A q \in Handlers \ {p} : Same(q)
      /\ UNCHANGED <<phase[p], req[p], seen[p], old[p], undo[p], stamp[p]>>
      /\ queue'[p] = t
  BY <1>2 DEF Continue, Same, XInv, IInv, TypeOK
<1>4. queue'[p] # << >> => Ready(p, Head(queue[p]))' /\ Tail(queue'[p]) \in Seq(Later(p))
  <2> SUFFICES ASSUME queue'[p] # << >>
               PROVE  Ready(p, Head(queue[p]))' /\ Tail(queue'[p]) \in Seq(Later(p))
    OBVIOUS
  <2>1. Head(t) \in Later(p) /\ Tail(t) \in Seq(Later(p))
    BY <1>1, <1>3, HeadTailProperties
  <2>2. Later(p)' = Later(p) /\ Own(p)' = Own(p)
    BY <1>3 DEF Later, FitGraph, Own, Homes
  <2>3. Head(t).iri \in Own(p)
    BY <2>1 DEF Later
  <2>4. Ready(p, Head(queue[p]))'
    BY <1>3, <2>1, <2>2, <2>3 DEF Ready
  <2>5. QED
    BY <1>3, <2>1, <2>4
<1>5. queue[p] \in Seq(Untried) => queue'[p] \in Seq(Untried)
  BY <1>3, InHand
<1>6. phase[p] = "undo" => record'[req[p].iri] = old[p] /\ queue'[p] \in Seq(Closing)
  <2> SUFFICES ASSUME phase[p] = "undo" PROVE record'[req[p].iri] = old[p] /\ queue'[p] \in Seq(Closing)
    OBVIOUS
  <2>1. CASE queue[p] = Restore(p)
    <3>1. old[p] \in Graph \cup {Nil}
      BY DEF XInv, IInv, TypeOK
    <3> DEFINE D == {d \in Closing : d.iri = req[p].iri /\ d.do # "replaceMeta"
                                       /\ (d.do = "readMeta" => d.state = DefaultState)}
    <3>2. t \in Seq(D)
      BY <1>1, <2>1, <3>1, RestoreParts DEF Restore
    <3>3. t \in Seq(Closing)
      <4>1. D \subseteq Closing
        OBVIOUS
      <4>2. QED
        BY <3>2, <4>1, SeqMonotonic
    <3>4. QED
      BY <1>3, <2>1, <3>3
  <2>2. CASE record[req[p].iri] = old[p] /\ queue[p] \in Seq(Closing)
    BY <1>3, <2>2, InHand
  <2>3. QED
    BY <2>1, <2>2 DEF XInv, Tidy
<1>7. QED
  BY <1>3, <1>4, <1>5, <1>6, GoesOn

\* A compensation begins with a write of the record ...
LEMMA RestoreBegins ==
  ASSUME XInv, NEW p \in Handlers, queue[p] # << >>, queue[p] = Restore(p)
  PROVE  LET c == Head(queue[p]) IN
         /\ c.do \in {"replaceRecord", "dropRecord"} /\ c.iri = req[p].iri
         /\ c.do = "replaceRecord" => c.graph = old[p]
         /\ c.do = "dropRecord" => old[p] = Nil
<1>1. /\ \E iri \in Records : iri = req[p].iri
      /\ \E existing \in Graph \cup {Nil} : existing = old[p]
  BY InHand DEF XInv, IInv, TypeOK
<1>2. PICK iri \in Records : iri = req[p].iri
  BY <1>1
<1>3. PICK existing \in Graph \cup {Nil} : existing = old[p]
  BY <1>1
<1>4. queue[p] = Compensation(iri, existing)
  BY <1>2, <1>3 DEF Restore
<1>5. /\ existing # Nil => Head(queue[p]) =
              [do |-> "replaceRecord", iri |-> iri, graph |-> existing, try |-> FALSE]
      /\ existing = Nil => Head(queue[p]) = [do |-> "dropRecord", iri |-> iri, try |-> FALSE]
  BY <1>4, RestoreFirst
<1>6. CASE existing # Nil
  BY <1>2, <1>3, <1>5, <1>6
<1>7. CASE existing = Nil
  BY <1>2, <1>3, <1>5, <1>7
<1>8. QED
  BY <1>6, <1>7

\* ... that puts it back as it was.
LEMMA CompensationWrites ==
  ASSUME XInv, NEW p \in Handlers, queue[p] # << >>, queue[p] = Restore(p), TookEffect(Head(queue[p]))
  PROVE  record'[req[p].iri] = old[p]
<1>1. req[p].iri \in Records /\ record \in [Records -> Graph \cup {Nil}]
  BY InHand DEF XInv, IInv, TypeOK
<1>2. QED
  BY <1>1, RestoreBegins DEF TookEffect

\* A read puts the write of what it computed in front of the rest.
LEMMA ReadAhead ==
  ASSUME XInv, NEW p \in Handlers, queue[p] # << >>, NEW m \in Meta,
         Head(queue[p]).do \in {"readMeta", "readState"},
         Continue(p, << [do |-> "replaceMeta", iri |-> Head(queue[p]).iri,
                         try |-> Head(queue[p]).try, meta |-> m] >>, << >>),
         UNCHANGED store, Lives(meta[Head(queue[p]).iri], m)
  PROVE  Apart' /\ Born' /\ \A q \in Handlers : Tidy(q)'
<1> DEFINE c == Head(queue[p])
           t == Tail(queue[p])
           d == [do |-> "replaceMeta", iri |-> c.iri, try |-> c.try, meta |-> m]
<1>1. /\ t \in Seq(Later(p)) /\ t \in Seq(Call) /\ phase[p] \in {"run", "undo"} /\ req[p].iri \in Records
      /\ c \in Call /\ c.iri \in Own(p) /\ c.iri \in Records
  BY InHand
<1>2. c.try \in BOOLEAN
  BY HeadCall, CallFields DEF XInv
<1>3. d \in Call
  BY <1>1, <1>2 DEF Call
<1>4. <<d>> \o t \o << >> = <<d>> \o t
  <2>1. <<d>> \in Seq(Call)
    BY <1>3
  <2>2. <<d>> \o t \in Seq(Call)
    BY <1>1, <2>1, ConcatProperties
  <2>3. QED
    BY <2>2, ConcatEmptySeq
<1>5. Head(<<d>> \o t) = d /\ Tail(<<d>> \o t) = t
  BY <1>1, ConsParts
<1>6. /\ \A q \in Handlers \ {p} : Same(q)
      /\ UNCHANGED <<phase[p], req[p], seen[p], old[p], undo[p], stamp[p]>>
      /\ queue'[p] = <<d>> \o t
  BY <1>4 DEF Continue, Same, XInv, IInv, TypeOK
<1>7. d.do = "replaceMeta" /\ d.iri = c.iri /\ d.meta = m /\ d.try = c.try
  OBVIOUS
<1> HIDE DEF c, d, t
<1>8. Ready(p, Head(queue[p]))' /\ Tail(queue'[p]) \in Seq(Later(p))
  <2>1. Own(p)' = Own(p) /\ meta' = meta
    BY <1>6 DEF Own, store
  <2>2. Lives(meta[c.iri], m)
    BY DEF c
  <2>3. QED
    BY <1>1, <1>5, <1>6, <1>7, <2>1, <2>2 DEF Ready
<1>9. queue[p] \in Seq(Untried) => queue'[p] \in Seq(Untried)
  <2> SUFFICES ASSUME queue[p] \in Seq(Untried) PROVE queue'[p] \in Seq(Untried)
    OBVIOUS
  <2>1. c \in Untried /\ t \in Seq(Untried)
    BY InHand DEF c, t
  <2>2. d \in Untried
    BY <1>3, <1>7, <2>1 DEF Untried
  <2>3. <<d>> \in Seq(Untried)
    BY <2>2
  <2>4. QED
    BY <1>6, <2>1, <2>3, ConcatProperties
<1>10. phase[p] = "undo" => record'[req[p].iri] = old[p] /\ queue'[p] \in Seq(Closing)
  <2> SUFFICES ASSUME phase[p] = "undo" PROVE record'[req[p].iri] = old[p] /\ queue'[p] \in Seq(Closing)
    OBVIOUS
  <2>1. queue[p] # Restore(p)
    BY RestoreBegins DEF c
  <2>2. record[req[p].iri] = old[p] /\ queue[p] \in Seq(Closing)
    BY <2>1 DEF XInv, Tidy
  <2>3. c \in Closing /\ t \in Seq(Closing)
    BY <2>2, InHand DEF c, t
  <2>4. d \in Closing
    BY <1>3, <1>7, <2>3 DEF Closing, Untried
  <2>5. <<d>> \in Seq(Closing)
    BY <2>4
  <2>6. QED
    BY <1>6, <2>2, <2>3, <2>5, ConcatProperties DEF store
<1>11. QED
  BY <1>6, <1>8, <1>9, <1>10, GoesOn DEF store

\* What build_meta_graph and _write_state compute is the next step of a life.
LEMMA NextOfLife ==
  /\ \A m \in Meta \cup {Nil}, n \in Nat, s \in {"DRAFT", "PUBLISHED"} :
       n # 0 /\ (m # Nil => m.born # 0) =>
         BuildMetaGraph(m, n, s) \in Meta /\ Lives(m, BuildMetaGraph(m, n, s))
  /\ \A m \in Meta, s \in MetadataState, a \in BOOLEAN :
       m # Nil /\ TransitionAllowed(m.state, s, a) => SwapState(m, s) \in Meta /\ Lives(m, SwapState(m, s))
<1>1. ASSUME NEW m \in Meta \cup {Nil}, NEW n \in Nat, NEW s \in {"DRAFT", "PUBLISHED"},
             n # 0, m # Nil => m.born # 0
      PROVE  BuildMetaGraph(m, n, s) \in Meta /\ Lives(m, BuildMetaGraph(m, n, s))
  BY <1>1 DEF BuildMetaGraph, Meta, MetadataState, Lives
<1>2. ASSUME NEW m \in Meta, NEW s \in MetadataState, NEW a \in BOOLEAN,
             m # Nil, TransitionAllowed(m.state, s, a)
      PROVE  SwapState(m, s) \in Meta /\ Lives(m, SwapState(m, s))
  <2>1. <<m.state, s>> \in Life!Moves
    BY <1>2 DEF TransitionAllowed, Transitions, Life!Moves
  <2>2. SwapState(m, s) \in Meta /\ SwapState(m, s) = [m EXCEPT !.state = s]
    BY <1>2 DEF SwapState, Meta
  <2>3. \E e \in Life!Moves : m.state = e[1] /\ SwapState(m, s) = [m EXCEPT !.state = e[2]]
    BY <2>1, <2>2
  <2>4. QED
    BY <1>2, <2>2, <2>3 DEF Lives
<1>3. QED
  BY <1>1, <1>2

\* _apply puts the parent back with the link: a program of link maintenance goes before the rest.
LEMMA LinkAhead ==
  ASSUME XInv, NEW p \in Handlers, ReadParent(p)
  PROVE  Apart' /\ Born' /\ \A q \in Handlers : Tidy(q)'
<1> DEFINE c == Head(queue[p])
           t == Tail(queue[p])
           parent == record[c.iri]
           g == WithLink(parent, c.child, c.add)
           a == [do |-> "replaceRecord", iri |-> c.iri, graph |-> g, try |-> TRUE]
           b == [do |-> "readMeta", iri |-> c.iri, state |-> DefaultState, try |-> TRUE]
           e == [do |-> "publish", iri |-> c.iri, op |-> "modify", try |-> FALSE]
<1>1. queue[p] # << >> /\ c.do = "readParent" /\ UNCHANGED store
  BY DEF ReadParent, HeadIs
<1>2. /\ t \in Seq(Later(p)) /\ t \in Seq(Call) /\ phase[p] \in {"run", "undo"} /\ req[p].iri \in Records
      /\ c \in Call /\ c.iri \in Own(p) /\ c.iri \in Records /\ Ready(p, c) /\ Serves(p)
  BY <1>1, InHand
<1>3. c.try /\ req[p].method # "STATE"
  BY <1>1, <1>2 DEF Ready, Later
<1>4. queue[p] \notin Seq(Untried) /\ phase[p] # "undo"
  <2>1. c \notin Untried
    BY <1>3 DEF Untried
  <2>2. c \notin Closing
    BY <1>1 DEF Closing
  <2>3. queue[p] # Restore(p)
    BY <1>1, RestoreBegins
  <2>4. QED
    BY <1>1, <2>1, <2>2, <2>3, InHand DEF XInv, Tidy
<1>5. CASE ~LinkChanges(parent, c.child, c.add)
  <2>1. Continue(p, << >>, << >>)
    BY <1>5 DEF ReadParent
  <2>2. c \notin Closing
    BY <1>1 DEF Closing
  <2>3. QED
    BY <1>1, <1>4, <2>1, <2>2, PlainCall DEF store
<1>6. CASE LinkChanges(parent, c.child, c.add)
  <2>1. c.child \in Records /\ c.add \in BOOLEAN
    BY <1>1, HeadCall, CallFields DEF XInv
  <2>2. parent \in Graph /\ parent # Nil
    BY <1>2, <1>6 DEF LinkChanges, XInv, IInv, TypeOK
  <2>3. g \in Graph /\ g.parent = parent.parent
    BY <2>1, <2>2, GraphTypes DEF WithLink, Graph
  <2>4. a \in Later(p)
    <3>1. a \in Call
      BY <1>2, <2>3 DEF Call
    <3>2. FitGraph(p, a)
      BY <1>2, <1>3, <2>2, <2>3 DEF FitGraph, XInv, Tidy, ParentOf
    <3>3. QED
      BY <1>2, <1>3, <3>1, <3>2 DEF Later
  <2>5. b \in Later(p) /\ e \in Later(p)
    BY <1>2, <1>3 DEF Later, Call, FitGraph, DefaultState, MetadataState, Operations
  <2>6. <<a, b>> \in Seq(Later(p)) /\ <<e>> \in Seq(Later(p))
    BY <2>4, <2>5
  <2>7. <<a, b>> \o t \o <<e>> \in Seq(Later(p))
    BY <1>2, <2>6, ConcatProperties
  <2>8. Continue(p, <<a, b>>, <<e>>)
    BY <1>6 DEF ReadParent, PutGraph, Publish
  <2> HIDE DEF a, b, e, c, t, g, parent
  <2>9. /\ \A q \in Handlers \ {p} : Same(q)
        /\ UNCHANGED <<phase[p], req[p], seen[p], old[p], undo[p], stamp[p]>>
        /\ queue'[p] = <<a, b>> \o t \o <<e>>
    BY <2>8 DEF Continue, Same, XInv, IInv, TypeOK, t
  <2>10. queue'[p] # << >> => Ready(p, Head(queue[p]))' /\ Tail(queue'[p]) \in Seq(Later(p))
    <3> SUFFICES ASSUME queue'[p] # << >>
                 PROVE  Ready(p, Head(queue[p]))' /\ Tail(queue'[p]) \in Seq(Later(p))
      OBVIOUS
    <3>1. Head(queue'[p]) \in Later(p) /\ Tail(queue'[p]) \in Seq(Later(p))
      BY <2>7, <2>9, HeadTailProperties
    <3>2. Later(p)' = Later(p) /\ Own(p)' = Own(p)
      BY <2>9 DEF Later, FitGraph, Own, Homes
    <3>3. Head(queue'[p]).iri \in Own(p)
      BY <3>1 DEF Later
    <3>4. QED
      BY <3>1, <3>2, <3>3 DEF Ready
  <2>11. QED
    BY <1>1, <1>4, <2>9, <2>10, GoesOn DEF store
<1>7. QED
  BY <1>5, <1>6

\* Every call of a program keeps the handlers tidy.
LEMMA CallTidy ==
  ASSUME XInv, NEW p \in Handlers, CallStore(p)
  PROVE  Apart' /\ Born' /\ \A q \in Handlers : Tidy(q)'
<1> DEFINE c == Head(queue[p])
<1>1. queue[p] # << >>
  BY DEF CallStore, ReplaceRecord, ReadMeta, ReadState, ReplaceMeta, DropRecord, DropMeta, DropAudit,
         ReadParent, PublishEvent, HeadIs
<1>2. c \in Call /\ Ready(p, c) /\ c.iri \in Records /\ stamp[p] # 0 /\ stamp[p] \in Nat
  BY <1>1, InHand
<1>3. CASE ReplaceRecord(p) \/ DropRecord(p)
  <2>1. TookEffect(c) /\ Continue(p, << >>, << >>) /\ c.do \in {"replaceRecord", "dropRecord"}
    BY <1>3 DEF ReplaceRecord, DropRecord, TookEffect, HeadIs
  <2>2. c \notin Closing
    BY <2>1 DEF Closing
  <2>3. QED
    BY <1>1, <2>1, <2>2, CompensationWrites, PlainCall
<1>4. CASE ReplaceMeta(p) \/ DropMeta(p) \/ DropAudit(p) \/ PublishEvent(p)
  <2>1. /\ TookEffect(c) /\ Continue(p, << >>, << >>) /\ record' = record
        /\ c.do \notin {"replaceRecord", "dropRecord"}
    BY <1>4 DEF ReplaceMeta, DropMeta, DropAudit, PublishEvent, TookEffect, HeadIs, store
  <2>2. queue[p] # Restore(p)
    BY <1>1, <2>1, RestoreBegins
  <2>3. QED
    BY <1>1, <2>1, <2>2, PlainCall
<1>5. CASE ReadMeta(p)
  <2>1. c.do = "readMeta" /\ c.state \in {"DRAFT", "PUBLISHED"}
    BY <1>2, <1>5 DEF ReadMeta, HeadIs, Ready, Later
  <2>2. meta[c.iri] \in Meta \cup {Nil} /\ (meta[c.iri] # Nil => meta[c.iri].born # 0)
    BY <1>2 DEF XInv, IInv, TypeOK, Born
  <2>3. /\ BuildMetaGraph(meta[c.iri], stamp[p], c.state) \in Meta
        /\ Lives(meta[c.iri], BuildMetaGraph(meta[c.iri], stamp[p], c.state))
    BY <1>2, <2>1, <2>2, NextOfLife
  <2>4. QED
    BY <1>1, <1>5, <2>1, <2>3, ReadAhead DEF ReadMeta
<1>6. CASE ReadState(p)
  <2>1. c.do = "readState" /\ meta[c.iri] # Nil /\ TransitionAllowed(meta[c.iri].state, c.state, req[p].admin)
    BY <1>2, <1>6 DEF ReadState, HeadIs, Ready, Later
  <2>2. meta[c.iri] \in Meta /\ c.state \in MetadataState
    BY <1>1, <1>2, <2>1, HeadCall, CallFields DEF XInv, IInv, TypeOK
  <2>3. req[p].admin \in BOOLEAN
    BY <1>1, InHand, Serving DEF XInv, Serves, Request
  <2>4. /\ SwapState(meta[c.iri], c.state) \in Meta
        /\ Lives(meta[c.iri], SwapState(meta[c.iri], c.state))
    BY <2>1, <2>2, <2>3, NextOfLife
  <2>5. QED
    BY <1>1, <1>6, <2>1, <2>4, ReadAhead DEF ReadState
<1>7. CASE ReadParent(p)
  BY <1>7, LinkAhead
<1>8. QED
  BY <1>3, <1>4, <1>5, <1>6, <1>7 DEF CallStore

\* A call that raises, whether or not it took effect, hands over to the compensation, if it may.
LEMMA RaiseTidy ==
  ASSUME XInv, NEW p \in Handlers, Raise(p)
  PROVE  Apart' /\ Born' /\ \A q \in Handlers : Tidy(q)'
<1> DEFINE c == Head(queue[p])
<1>1. /\ queue[p] # << >> /\ (TookEffect(c) \/ UNCHANGED <<record, meta>>)
      /\ \A q \in Handlers \ {p} : Same(q)
      /\ UNCHANGED <<req[p], old[p], stamp[p]>>
      /\ phase'[p] = IF c.try THEN "undo" ELSE "failed"
      /\ queue'[p] = IF c.try THEN undo[p] ELSE << >>
  BY DEF Raise, Same, XInv, IInv, TypeOK
<1>2. /\ c \in Call /\ Ready(p, c) /\ Serves(p) /\ phase[p] \in {"run", "undo"} /\ stamp[p] # 0
      /\ req[p].iri \in Records /\ req[p].iri \in Own(p)
  BY <1>1, InHand
<1>3. /\ \A r \in Records : record'[r] # record[r] \/ meta'[r] # meta[r] => r \in Own(p)
      /\ Born'
      /\ old[p] = Nil /\ req[p].method # "STATE" => ParentOf(record'[req[p].iri]) \in Homes(p)
      /\ req[p].method = "STATE" => record' = record
  BY <1>1, Effect
<1>4. /\ Own(p)' = Own(p) /\ Homes(p)' = Homes(p) /\ Restore(p)' = Restore(p)
      /\ Serves(p)' /\ InFlight(p) /\ InFlight(p)'
  BY <1>1, <1>2 DEF Own, Homes, Restore, Serves, InFlight
<1>5. c.try => phase[p] = "run" /\ undo[p] = Restore(p) /\ req[p].method # "STATE"
  <2> SUFFICES ASSUME c.try PROVE phase[p] = "run" /\ undo[p] = Restore(p) /\ req[p].method # "STATE"
    OBVIOUS
  <2>1. c \notin Untried /\ c \notin Closing
    BY DEF Untried, Closing
  <2>2. queue[p] \notin Seq(Untried) /\ queue[p] \notin Seq(Closing)
    BY <1>1, <2>1, InHand
  <2>3. queue[p] # Restore(p)
    <3>1. old[p] \in Graph \cup {Nil}
      BY DEF XInv, IInv, TypeOK
    <3>2. Head(Compensation(req[p].iri, old[p])) \in Untried
      BY <1>2, <3>1, RestoreParts
    <3>3. QED
      BY <2>1, <3>2 DEF Restore
  <2>4. QED
    BY <1>2, <2>2, <2>3 DEF XInv, Tidy
<1>6. c.try => /\ Restore(p) # << >> /\ Ready(p, Head(Restore(p)))' /\ Tail(Restore(p)) \in Seq(Later(p)')
  <2> SUFFICES ASSUME c.try
               PROVE  /\ Restore(p) # << >> /\ Ready(p, Head(Restore(p)))'
                      /\ Tail(Restore(p)) \in Seq(Later(p)')
    OBVIOUS
  <2> DEFINE h == Head(Compensation(req[p].iri, old[p]))
             t == Tail(Compensation(req[p].iri, old[p]))
             D == {d \in Closing : d.iri = req[p].iri /\ d.do # "replaceMeta"
                                     /\ (d.do = "readMeta" => d.state = DefaultState)}
  <2>1. old[p] \in Graph \cup {Nil}
    BY DEF XInv, IInv, TypeOK
  <2>2. /\ Compensation(req[p].iri, old[p]) # << >>
        /\ h \in Untried /\ h.iri = req[p].iri
        /\ old[p] # Nil => h.do = "replaceRecord" /\ h.graph = old[p]
        /\ old[p] = Nil => h.do = "dropRecord"
        /\ t \in Seq(D)
    BY <1>2, <2>1, RestoreParts
  <2>3. phase'[p] = "undo" /\ req[p].method # "STATE"
    BY <1>1, <1>5
  <2>4. h \in Later(p)'
    <3>1. h \in Call /\ ~h.try
      BY <2>2 DEF Untried
    <3>2. FitGraph(p, h)'
      BY <1>1, <2>2 DEF FitGraph
    <3>3. QED
      BY <1>1, <1>2, <1>4, <2>2, <2>3, <3>1, <3>2 DEF Later
  <2>5. D \subseteq Later(p)'
    <3> SUFFICES ASSUME NEW d \in D PROVE d \in Later(p)'
      OBVIOUS
    <3>1. /\ d \in Call /\ ~d.try /\ d.iri = req[p].iri
          /\ d.do \in {"readMeta", "dropMeta", "dropAudit"} /\ (d.do = "readMeta" => d.state = DefaultState)
      BY DEF Closing, Untried
    <3>2. FitGraph(p, d)'
      BY <3>1 DEF FitGraph
    <3>3. QED
      BY <1>1, <1>2, <1>4, <2>3, <3>1, <3>2 DEF Later, DefaultState
  <2>6. t \in Seq(Later(p)')
    BY <2>2, <2>5, SeqMonotonic
  <2> HIDE DEF D
  <2>7. Ready(p, h)'
    BY <1>1, <1>2, <1>4, <2>2, <2>4 DEF Ready
  <2>8. QED
    BY <2>2, <2>6, <2>7, <1>4 DEF Restore
<1>7. Tidy(p)'
  <2>1. queue'[p] # << >> => Ready(p, Head(queue[p]))' /\ Tail(queue'[p]) \in Seq(Later(p)')
    <3>1. CASE c.try
      <4>1. queue'[p] = Restore(p) /\ queue'[p] = Restore(p)'
        BY <1>1, <1>4, <1>5, <3>1
      <4>2. QED
        BY <1>4, <1>6, <3>1, <4>1
    <3>2. CASE ~c.try
      BY <1>1, <3>2
    <3>3. QED
      BY <3>1, <3>2
  <2>2. QED
    BY <1>1, <1>2, <1>3, <1>4, <1>5, <2>1 DEF Tidy
<1>8. Confined(p)
  BY <1>1, <1>2, <1>3 DEF Confined
<1>9. Footprint(p)' \subseteq Footprint(p)
  <2>1. CASE old[p] # Nil \/ req[p].method = "STATE"
    BY <1>1, <1>3, <2>1 DEF Footprint
  <2>2. CASE old[p] = Nil /\ req[p].method # "STATE"
    <3>1. Footprint(p)' \subseteq Own(p)
      <4>1. /\ Footprint(p)' = {req[p].iri, req[p].parent, ParentOf(record'[req[p].iri])} \cap Records
            /\ Own(p) = {req[p].iri, req[p].parent, Nil} \cap Records
        BY <1>1, <2>2 DEF Footprint, Touches, Own, ParentOf
      <4>2. ParentOf(record'[req[p].iri]) \in Own(p) \cup {Nil} /\ Nil \notin Records
        BY <1>3, <2>2, NilAssumption DEF Homes
      <4>3. QED
        BY <4>1, <4>2
    <3>2. QED
      BY <3>1, OwnInFootprint
  <2>3. QED
    BY <2>1, <2>2
<1>10. QED
  BY <1>3, <1>4, <1>7, <1>8, <1>9, Gather

\* An announcement that leaves no audit row.
LEMMA LoseTidy ==
  ASSUME XInv, NEW p \in Handlers, LoseAuditRow(p)
  PROVE  Apart' /\ Born' /\ \A q \in Handlers : Tidy(q)'
<1> DEFINE c == Head(queue[p])
           t == Tail(queue[p])
<1>1. queue[p] # << >> /\ c.do = "publish" /\ UNCHANGED <<record, meta>>
  BY DEF LoseAuditRow, HeadIs, store
<1>2. t \in Seq(Later(p)) /\ phase[p] \in {"run", "undo"}
  BY <1>1, InHand
<1>3. /\ \A q \in Handlers \ {p} : Same(q)
      /\ UNCHANGED <<phase[p], req[p], seen[p], old[p], undo[p], stamp[p]>>
      /\ queue'[p] = t
  BY DEF LoseAuditRow, Same, XInv, IInv, TypeOK
<1>4. queue'[p] # << >> => Ready(p, Head(queue[p]))' /\ Tail(queue'[p]) \in Seq(Later(p))
  <2> SUFFICES ASSUME queue'[p] # << >>
               PROVE  Ready(p, Head(queue[p]))' /\ Tail(queue'[p]) \in Seq(Later(p))
    OBVIOUS
  <2>1. Head(t) \in Later(p) /\ Tail(t) \in Seq(Later(p))
    BY <1>2, <1>3, HeadTailProperties
  <2>2. Later(p)' = Later(p) /\ Own(p)' = Own(p)
    BY <1>3 DEF Later, FitGraph, Own, Homes
  <2>3. Head(t).iri \in Own(p)
    BY <2>1 DEF Later
  <2>4. Ready(p, Head(queue[p]))'
    BY <1>3, <2>1, <2>2, <2>3 DEF Ready
  <2>5. QED
    BY <1>3, <2>1, <2>4
<1>5. queue[p] \in Seq(Untried) => queue'[p] \in Seq(Untried)
  BY <1>1, <1>3, InHand
<1>6. phase[p] # "undo"
  <2>1. c \notin Closing
    BY <1>1 DEF Closing
  <2>2. queue[p] \notin Seq(Closing)
    BY <1>1, <2>1, InHand
  <2>3. queue[p] # Restore(p)
    BY <1>1, RestoreBegins
  <2>4. QED
    BY <2>2, <2>3 DEF XInv, Tidy
<1>7. QED
  BY <1>1, <1>3, <1>4, <1>5, <1>6, GoesOn

-----------------------------------------------------------------------------
(* The steps before and after a program.                                   *)

\* A handler that has not begun, or has ended.
LEMMA RestTidy ==
  ASSUME XInv, NEW p \in Handlers, \A q \in Handlers \ {p} : Same(q), UNCHANGED <<record, meta>>,
         phase'[p] \in {"idle", "client"}, phase'[p] # "idle" => stamp'[p] # 0,
         old'[p] = Nil, queue'[p] = << >>
  PROVE  Apart' /\ Born' /\ \A q \in Handlers : Tidy(q)'
<1>1. Confined(p)
  BY DEF Confined
<1>2. Tidy(p)' /\ ~InFlight(p)'
  BY DEF Tidy, Serves, InFlight
<1>3. QED
  BY <1>1, <1>2, Gather DEF XInv, Born

\* A client reads and composes, and a handler puts away what it had.
LEMMA IdleTidy ==
  ASSUME XInv, NEW p \in Handlers, ClientReads(p) \/ Refuse(p) \/ Respond(p)
  PROVE  Apart' /\ Born' /\ \A q \in Handlers : Tidy(q)'
<1>1. CASE ClientReads(p)
  <2>1. sent \in Nat /\ phase[p] = "idle" /\ old[p] = Nil /\ queue[p] = << >>
    BY <1>1 DEF ClientReads, XInv, Tidy, Serves, IInv, TypeOK, RegistersMatch
  <2>2. SeedStamp + sent + 1 # 0
    BY <2>1 DEF SeedStamp
  <2>3. /\ phase' = [phase EXCEPT ![p] = "client"] /\ stamp' = [stamp EXCEPT ![p] = SeedStamp + sent + 1]
        /\ UNCHANGED <<record, meta, old, queue, undo>>
        /\ \E r : req' = [req EXCEPT ![p] = r] /\ seen' = [seen EXCEPT ![p] = record[r.iri]]
    BY <1>1 DEF ClientReads, store
  <2>4. \A q \in Handlers \ {p} : Same(q)
    BY <2>3 DEF Same, XInv, IInv, TypeOK
  <2>5. phase'[p] = "client" /\ stamp'[p] # 0 /\ old'[p] = Nil /\ queue'[p] = << >>
    BY <2>1, <2>2, <2>3 DEF XInv, IInv, TypeOK
  <2>6. QED
    BY <2>3, <2>4, <2>5, RestTidy
<1>2. CASE Refuse(p) \/ Respond(p)
  <2>1. Release(p) /\ UNCHANGED <<record, meta>>
    BY <1>2 DEF Refuse, Respond, store
  <2>2. /\ \A q \in Handlers \ {p} : Same(q)
        /\ phase'[p] = "idle" /\ old'[p] = Nil /\ queue'[p] = << >>
    BY <2>1 DEF Release, Same, XInv, IInv, TypeOK
  <2>3. QED
    BY <2>1, <2>2, RestTidy
<1>3. QED
  BY <1>1, <1>2

\* A request is received when no other in flight touches what it does.
LEMMA ReceiveTidy ==
  ASSUME XInv, Exclusive, NEW p \in Handlers, Receive(p)
  PROVE  Apart' /\ Born' /\ \A q \in Handlers : Tidy(q)'
<1>1. /\ phase[p] = "client" /\ phase'[p] = "check" /\ UNCHANGED <<record, meta>>
      /\ \A q \in Handlers \ {p} : Same(q)
      /\ UNCHANGED <<req[p], old[p], queue[p], stamp[p]>>
  BY DEF Receive, Same, store, XInv, IInv, TypeOK
<1>2. old[p] = Nil /\ stamp[p] # 0 /\ queue[p] = << >>
  BY <1>1 DEF XInv, Tidy, Serves, IInv, RegistersMatch
<1>3. Tidy(p)'
  BY <1>1, <1>2 DEF Tidy, Serves
<1>4. Footprint(p)' = Footprint(p)
  BY <1>1 DEF Footprint
<1>5. \A q \in Handlers \ {p} :
        Tidy(q)' /\ (InFlight(q)' <=> InFlight(q)) /\ (InFlight(q) => Footprint(q)' = Footprint(q))
  BY <1>1, FrameTidy DEF XInv
<1>6. \A q \in Handlers \ {p} : InFlight(q) => Footprint(p) \cap Footprint(q) = {}
  BY DEF Receive, Quiet
<1>7. Apart'
  BY <1>4, <1>5, <1>6 DEF XInv, Apart
<1>8. QED
  BY <1>1, <1>3, <1>5, <1>7 DEF XInv, Born

\* A restart leaves nobody in flight.
LEMMA CrashTidy ==
  ASSUME XInv, Crash
  PROVE  Apart' /\ Born' /\ \A q \in Handlers : Tidy(q)'
<1>1. UNCHANGED <<record, meta>>
  BY DEF Crash, store
<1>2. \A q \in Handlers : phase'[q] = "idle" /\ old'[q] = Nil /\ queue'[q] = << >>
  BY DEF Crash
<1>3. QED
  BY <1>1, <1>2 DEF XInv, Born, Apart, InFlight, Tidy, Serves
-----------------------------------------------------------------------------
(* The admission of a request.                                             *)

\* A handler that has read what it needs sets out with a program whose first call is ready.
LEMMA SetsOut ==
  ASSUME XInv, NEW p \in Handlers, phase[p] \in {"check", "checkMeta"},
         NEW current, current \in {Nil, record[req[p].iri]},
         current = Nil /\ req[p].method # "STATE" => record[req[p].iri] = Nil,
         NEW c, NEW s, NEW comp, Proceed(p, current, <<c>> \o s, comp),
         Ready(p, c)', s \in Seq(Later(p)'),
         \/ comp = Compensation(req[p].iri, current) /\ req[p].method # "STATE"
         \/ c \in Untried /\ s \in Seq(Untried)
  PROVE  Apart' /\ Born' /\ \A q \in Handlers : Tidy(q)'
<1>1. /\ phase'[p] = "run" /\ old'[p] = current /\ queue'[p] = <<c>> \o s /\ undo'[p] = comp
      /\ UNCHANGED <<record, meta, req, seen, stamp>>
      /\ \A q \in Handlers \ {p} : Same(q)
  BY DEF Proceed, store, Same, XInv, IInv, TypeOK
<1>2. old[p] = Nil /\ stamp[p] # 0 /\ InFlight(p) /\ InFlight(p)'
  BY <1>1 DEF XInv, Tidy, Serves, InFlight
<1>3. Head(queue'[p]) = c /\ Tail(queue'[p]) = s /\ queue'[p] # << >>
  BY <1>1, ConsParts
<1>4. Restore(p)' = Compensation(req[p].iri, current)
  BY <1>1 DEF Restore
<1>5. \/ undo'[p] = Restore(p)' /\ req'[p].method # "STATE"
      \/ queue'[p] \in Seq(Untried)
  <2>1. CASE comp = Compensation(req[p].iri, current) /\ req[p].method # "STATE"
    BY <1>1, <1>4, <2>1
  <2>2. CASE c \in Untried /\ s \in Seq(Untried)
    <3>1. <<c>> \in Seq(Untried)
      BY <2>2
    <3>2. QED
      BY <1>1, <2>2, <3>1, ConcatProperties
  <2>3. QED
    BY <2>1, <2>2
<1>6. current = Nil /\ req[p].method # "STATE" => ParentOf(record[req[p].iri]) = Nil
  BY DEF ParentOf
<1>7. Tidy(p)'
  BY <1>1, <1>2, <1>3, <1>5, <1>6 DEF Tidy, Serves, Homes
<1>8. Footprint(p)' = Footprint(p)
  BY <1>1, <1>2 DEF Footprint
<1>9. Confined(p)
  BY <1>1 DEF Confined
<1>10. Born'
  BY <1>1 DEF XInv, Born
<1>11. QED
  BY <1>2, <1>7, <1>8, <1>9, <1>10, Gather

\* Two calls, one after the other.
LEMMA TwoCalls ==
  ASSUME NEW a, NEW b
  PROVE  <<a, b>> = <<a>> \o <<b>>
<1> DEFINE T == {a, b}
<1>1. <<a>> \in Seq(T) /\ <<b>> \in Seq(T) /\ Len(<<a>>) = 1 /\ Len(<<b>>) = 1
  OBVIOUS
<1>2. /\ <<a>> \o <<b>> \in Seq(T) /\ Len(<<a>> \o <<b>>) = 2
      /\ \A i \in 1 .. 2 : (<<a>> \o <<b>>)[i] = IF i <= 1 THEN <<a>>[i] ELSE <<b>>[i - 1]
  BY <1>1, ConcatProperties
<1>3. <<a, b>> \in Seq(T) /\ Len(<<a, b>>) = 2
  OBVIOUS
<1>4. \A i \in 1 .. 2 : (<<a>> \o <<b>>)[i] = <<a, b>>[i]
  BY <1>2
<1>5. QED
  BY <1>2, <1>3, <1>4, SeqEqual

\* The order in which the pieces of a program are put together does not matter.
LEMMA CallsAssociate ==
  \A s, t, u \in Seq(Call) : (s \o t) \o u = s \o (t \o u) /\ s \o t \in Seq(Call)
BY ConcatAssociative, ConcatProperties

\* What a handler's program is made of, once it has set out: the pieces fit.
LEMMA Pieces ==
  ASSUME NEW p \in Handlers, phase'[p] = "run", req'[p].method # "STATE",
         NEW iri \in Records, iri = req'[p].iri
  PROVE  /\ \A parent \in Records \cup {Nil}, add \in BOOLEAN :
              parent = Nil \/ parent \in Own(p)' => Apply(parent, iri, add) \in Seq(Later(p)')
         /\ \A op \in Operations : Publish(iri, op) \in Seq(Later(p)')
         /\ \A state \in {"DRAFT", "PUBLISHED"} :
              [do |-> "readMeta", iri |-> iri, state |-> state, try |-> FALSE] \in Later(p)'
         /\ [do |-> "dropMeta", iri |-> iri, try |-> FALSE] \in Later(p)'
         /\ [do |-> "dropAudit", iri |-> iri, try |-> FALSE] \in Later(p)'
         /\ iri \in Own(p)'
<1>1. iri \in Own(p)'
  BY DEF Own, Touches
<1>2. ASSUME NEW parent \in Records \cup {Nil}, NEW add \in BOOLEAN, parent = Nil \/ parent \in Own(p)'
      PROVE  Apply(parent, iri, add) \in Seq(Later(p)')
  <2>1. CASE parent = Nil
    BY <2>1, EmptySeq DEF Apply
  <2>2. CASE parent # Nil
    <3> DEFINE d == [do |-> "readParent", iri |-> parent, child |-> iri, add |-> add, try |-> TRUE]
    <3>1. d \in Call
      BY <1>2, <2>2 DEF Call
    <3>2. FitGraph(p, d)'
      BY DEF FitGraph
    <3>3. d \in Later(p)'
      BY <1>2, <2>2, <3>1, <3>2 DEF Later
    <3>4. <<d>> \in Seq(Later(p)')
      BY <3>3
    <3>5. QED
      BY <2>2, <3>4 DEF Apply
  <2>3. QED
    BY <2>1, <2>2
<1>3. ASSUME NEW op \in Operations PROVE Publish(iri, op) \in Seq(Later(p)')
  <2> DEFINE d == [do |-> "publish", iri |-> iri, op |-> op, try |-> FALSE]
  <2>1. d \in Call
    BY DEF Call
  <2>2. FitGraph(p, d)'
    BY DEF FitGraph
  <2>3. d \in Later(p)'
    BY <1>1, <2>1, <2>2 DEF Later
  <2>4. <<d>> \in Seq(Later(p)')
    BY <2>3
  <2>5. QED
    BY <2>4 DEF Publish
<1>4. \A state \in {"DRAFT", "PUBLISHED"} :
        [do |-> "readMeta", iri |-> iri, state |-> state, try |-> FALSE] \in Later(p)'
  BY <1>1 DEF Later, FitGraph, Call, MetadataState
<1>5. /\ [do |-> "dropMeta", iri |-> iri, try |-> FALSE] \in Later(p)'
      /\ [do |-> "dropAudit", iri |-> iri, try |-> FALSE] \in Later(p)'
  BY <1>1 DEF Later, FitGraph, Call
<1>6. QED
  BY <1>1, <1>2, <1>3, <1>4, <1>5

\* A reconciliation, of a child whose parents its handler owns.
LEMMA ReconcilePieces ==
  ASSUME NEW p \in Handlers, phase'[p] = "run", req'[p].method # "STATE",
         NEW iri \in Records, iri = req'[p].iri,
         NEW oldParent \in Own(p)' \cup {Nil}, NEW newParent \in Own(p)' \cup {Nil}
  PROVE  Reconcile(iri, oldParent, newParent) \in Seq(Later(p)')
<1>1. Own(p)' \subseteq Records
  BY DEF Own, Touches
<1>2. oldParent \in Records \cup {Nil} /\ newParent \in Records \cup {Nil}
  BY <1>1
<1>3. /\ Apply(newParent, iri, TRUE) \in Seq(Later(p)')
      /\ Apply(oldParent, iri, FALSE) \in Seq(Later(p)')
  BY <1>2, Pieces
<1>4. Apply(oldParent, iri, FALSE) \o Apply(newParent, iri, TRUE) \in Seq(Later(p)')
  BY <1>3, ConcatProperties
<1>5. QED
  BY <1>3, <1>4 DEF Reconcile

\* A program that replaces the record of its request and maintains its links.
LEMMA PutSetsOut ==
  ASSUME XInv, NEW p \in Handlers, phase[p] \in {"check", "checkMeta"}, req[p].method # "STATE",
         NEW current, current = record[req[p].iri], NEW graph \in Graph, NEW state \in {"DRAFT", "PUBLISHED"},
         graph.parent = req[p].parent \/ current # Nil,
         req[p].pre = "etag" => current = seen[p],
         NEW links, NEW op \in Operations, NEW comp,
         links = << >> \/ (req[p].parent \in Records \cup {Nil}
                            /\ links = Reconcile(req[p].iri, ParentOf(current), req[p].parent)),
         Proceed(p, current,
                 PutGraph(req[p].iri, graph, state, FALSE) \o links \o Publish(req[p].iri, op), comp),
         comp = Compensation(req[p].iri, current) \/ links = << >>
  PROVE  Apart' /\ Born' /\ \A q \in Handlers : Tidy(q)'
<1>1. /\ phase'[p] = "run" /\ req'[p] = req[p] /\ old'[p] = current /\ seen'[p] = seen[p] /\ record' = record
  BY DEF Proceed, store, XInv, IInv, TypeOK
<1>2. req[p].iri \in Records /\ req[p].parent \in Records \cup {Nil, Keep}
  BY Serving DEF XInv
<1>3. PICK iri \in Records : iri = req[p].iri
  BY <1>2
<1>4. PICK c : c = [do |-> "replaceRecord", iri |-> iri, graph |-> graph, try |-> FALSE]
  OBVIOUS
<1>5. PICK d : d = [do |-> "readMeta", iri |-> iri, state |-> state, try |-> FALSE]
  OBVIOUS
<1>6. PICK u : u = Publish(iri, op)
  OBVIOUS
<1>7. current \in Graph \cup {Nil} /\ ParentOf(current) \in Records \cup {Nil}
  BY <1>2, GraphTypes DEF XInv, IInv, TypeOK
<1>8. Own(p)' = {iri, req[p].parent, ParentOf(current)} \cap Records
  BY <1>1, <1>3 DEF Own, Touches
<1>9. links \in Seq(Later(p)')
  <2>1. CASE links = << >>
    BY <2>1, EmptySeq
  <2>2. CASE /\ req[p].parent \in Records \cup {Nil}
             /\ links = Reconcile(req[p].iri, ParentOf(current), req[p].parent)
    <3>1. ParentOf(current) \in Own(p)' \cup {Nil} /\ req[p].parent \in Own(p)' \cup {Nil}
      BY <1>7, <1>8, <2>2
    <3>2. QED
      BY <1>1, <1>3, <2>2, <3>1, ReconcilePieces
  <2>3. QED
    BY <2>1, <2>2
<1>10. d \in Later(p)' /\ u \in Seq(Later(p)') /\ iri \in Own(p)'
  BY <1>1, <1>3, <1>5, <1>6, Pieces
<1>11. <<d>> \o links \o u \in Seq(Later(p)')
  <2>1. <<d>> \in Seq(Later(p)')
    BY <1>10
  <2>2. QED
    BY <1>9, <1>10, <2>1, ConcatProperties
<1>12. c \in Call /\ d \in Call
  BY <1>4, <1>5 DEF Call, MetadataState
<1>13. PutGraph(iri, graph, state, FALSE) \o links \o u = <<c>> \o (<<d>> \o links \o u)
  <2>1. Later(p)' \subseteq Call
    BY DEF Later
  <2>2. links \in Seq(Call) /\ u \in Seq(Call)
    BY <1>9, <1>10, <2>1, SeqMonotonic
  <2>3. PutGraph(iri, graph, state, FALSE) = <<c, d>>
    BY <1>4, <1>5 DEF PutGraph
  <2>4. <<c, d>> \o links \o u = <<c>> \o (<<d>> \o links \o u)
    <3>1. PICK D : D = <<d>>
      OBVIOUS
    <3>2. D \in Seq(Call)
      BY <1>12, <3>1
    <3>3. PICK C : C = <<c>>
      OBVIOUS
    <3>4. C \in Seq(Call)
      BY <1>12, <3>3
    <3>5. PICK w : w = D \o links
      OBVIOUS
    <3>6. w \in Seq(Call)
      BY <2>2, <3>2, <3>5, CallsAssociate
    <3>7. (C \o D) \o links = C \o w
      BY <2>2, <3>2, <3>4, <3>5, CallsAssociate
    <3>8. (C \o w) \o u = C \o (w \o u)
      BY <2>2, <3>4, <3>6, CallsAssociate, SMTT(30)
    <3>9. QED
      BY <3>1, <3>3, <3>5, <3>7, <3>8, TwoCalls
  <2>5. QED
    BY <2>3, <2>4
<1>14. Ready(p, c)'
  <2>1. FitGraph(p, c)'
    BY <1>1, <1>2, <1>3, <1>4, <1>8 DEF FitGraph, Homes, Graph
  <2>2. req'[p].pre = "etag" => record'[c.iri] = seen'[p]
    BY <1>1, <1>3, <1>4
  <2>3. QED
    BY <1>1, <1>3, <1>4, <1>10, <2>1, <2>2 DEF Ready
<1>15. \/ comp = Compensation(req[p].iri, current)
       \/ c \in Untried /\ <<d>> \o links \o u \in Seq(Untried)
  <2> SUFFICES ASSUME links = << >> PROVE c \in Untried /\ <<d>> \o links \o u \in Seq(Untried)
    OBVIOUS
  <2>1. c \in Untried /\ d \in Untried
    BY <1>4, <1>5, <1>12 DEF Untried
  <2> DEFINE e == [do |-> "publish", iri |-> iri, op |-> op, try |-> FALSE]
  <2>2. e \in Untried
    BY DEF Untried, Call
  <2>3. u = <<e>>
    BY <1>6 DEF Publish
  <2>4. <<d>> \in Seq(Untried) /\ u \in Seq(Untried) /\ links \in Seq(Untried)
    BY <2>1, <2>2, <2>3, EmptySeq
  <2>5. QED
    BY <2>1, <2>4, ConcatProperties
<1>16. PICK b : b = <<d>> \o links \o u
  OBVIOUS
<1>17. Proceed(p, current, <<c>> \o b, comp)
  BY <1>3, <1>6, <1>13, <1>16
<1>18. QED
  BY <1>11, <1>14, <1>15, <1>16, <1>17, SetsOut

\* What the clients may send, of each kind.
LEMMA Asked ==
  ASSUME IInv, NEW p \in Handlers, phase[p] # "idle", req[p].method \in {"PUT", "POST"}
  PROVE  /\ req[p].parent \in Records \cup {Nil} /\ req[p].state \in {"DRAFT", "PUBLISHED"}
         /\ BodyGraph(req[p], seen[p]) \in Graph
         /\ req[p].method = "POST" => BodyGraph(req[p], Nil) \in Graph
         /\ \A x : BodyGraph(req[p], x).parent = req[p].parent
<1>1. req[p] \in Requests
  BY Serving
<1>2. \A r \in Requests : r.method \in {"PUT", "POST"} => r.state # "ARCHIVED" /\ r.parent # Keep
  BY LdpAssumption
<1>3. /\ \A r \in Requests : r.method = "POST" => r.pre = "none"
  BY LdpAssumption
<1>4. /\ req[p].parent \in Records \cup {Nil} /\ req[p].state \in {"DRAFT", "PUBLISHED"}
      /\ req[p].body \in Bodies
  BY <1>1, <1>2, Serving DEF MetadataState
<1>5. seen[p] \in Graph \cup {Nil} /\ (req[p].pre = "etag" => seen[p] # Nil)
  BY DEF IInv, TypeOK, RegistersMatch
<1>6. BodyGraph(req[p], seen[p]) \in Graph
  BY <1>4, <1>5 DEF BodyGraph, Graph
<1>7. ASSUME req[p].method = "POST" PROVE BodyGraph(req[p], Nil) \in Graph
  <2>1. req[p].pre = "none"
    BY <1>1, <1>3, <1>7
  <2>2. QED
    BY <1>4, <2>1 DEF BodyGraph, Graph
<1>8. QED
  BY <1>4, <1>6, <1>7 DEF BodyGraph

\* A PUT sets out with what it found.
LEMMA PutTidy ==
  ASSUME XInv, NEW p \in Handlers, Put(p)
  PROVE  Apart' /\ Born' /\ \A q \in Handlers : Tidy(q)'
<1> DEFINE iri == req[p].iri
<1>1. /\ phase[p] = "check" /\ req[p].method = "PUT"
      /\ IfMatchHolds(req[p], record[iri], seen[p])
      /\ Proceed(p, record[iri],
                 PutGraph(iri, BodyGraph(req[p], seen[p]), InitialState(req[p], record[iri]), FALSE)
                   \o Reconcile(iri, ParentOf(record[iri]), BodyGraph(req[p], seen[p]).parent)
                   \o Publish(iri, IF record[iri] = Nil THEN "create" ELSE "modify"),
                 Compensation(iri, record[iri]))
  BY DEF Put
<1>2. /\ req[p].parent \in Records \cup {Nil} /\ BodyGraph(req[p], seen[p]) \in Graph
      /\ BodyGraph(req[p], seen[p]).parent = req[p].parent
      /\ InitialState(req[p], record[iri]) \in {"DRAFT", "PUBLISHED"}
  BY <1>1, Asked DEF XInv, InitialState, DefaultState
<1>3. PICK current : current = record[iri]
  OBVIOUS
<1>4. PICK graph \in Graph : graph = BodyGraph(req[p], seen[p])
  BY <1>2
<1>5. PICK state \in {"DRAFT", "PUBLISHED"} : state = InitialState(req[p], record[iri])
  BY <1>2
<1>6. PICK op \in Operations : op = IF record[iri] = Nil THEN "create" ELSE "modify"
  BY DEF Operations
<1>7. PICK links : links = Reconcile(iri, ParentOf(current), req[p].parent)
  OBVIOUS
<1>8. PICK comp : comp = Compensation(iri, current)
  OBVIOUS
<1>9. Proceed(p, current, PutGraph(iri, graph, state, FALSE) \o links \o Publish(iri, op), comp)
  BY <1>1, <1>2, <1>3, <1>4, <1>5, <1>6, <1>7, <1>8
<1>10. req[p].pre = "etag" => current = seen[p]
  BY <1>1, <1>3 DEF IfMatchHolds
<1>11. QED
  BY <1>1, <1>2, <1>3, <1>4, <1>7, <1>8, <1>9, <1>10, PutSetsOut

\* A POST first finds nothing where its member goes ...
LEMMA PostCheckTidy ==
  ASSUME XInv, NEW p \in Handlers, PostCheckRecord(p)
  PROVE  Apart' /\ Born' /\ \A q \in Handlers : Tidy(q)'
<1>1. /\ phase[p] = "check" /\ phase'[p] = "checkMeta" /\ record[req[p].iri] = Nil
      /\ UNCHANGED <<record, meta, req, old, queue, stamp>>
      /\ \A q \in Handlers \ {p} : Same(q)
  BY DEF PostCheckRecord, store, Same, XInv, IInv, TypeOK
<1>2. old[p] = Nil /\ stamp[p] # 0 /\ queue[p] = << >>
  BY <1>1 DEF XInv, Tidy, Serves, IInv, RegistersMatch
<1>3. Tidy(p)'
  BY <1>1, <1>2 DEF Tidy, Serves
<1>4. Footprint(p)' = Footprint(p) /\ InFlight(p) /\ Confined(p)
  BY <1>1 DEF Footprint, InFlight, Confined
<1>5. QED
  BY <1>1, <1>3, <1>4, Gather DEF XInv, Born

\* ... and then creates it there.
LEMMA PostTidy ==
  ASSUME XInv, NEW p \in Handlers, PostCreate(p)
  PROVE  Apart' /\ Born' /\ \A q \in Handlers : Tidy(q)'
<1> DEFINE iri == req[p].iri
<1>1. /\ phase[p] = "checkMeta"
      /\ Proceed(p, Nil,
                 PutGraph(iri, BodyGraph(req[p], Nil), InitialState(req[p], Nil), FALSE)
                   \o Reconcile(iri, Nil, BodyGraph(req[p], Nil).parent) \o Publish(iri, "create"),
                 Compensation(iri, Nil))
  BY DEF PostCreate
<1>2. req[p].method = "POST" /\ record[iri] = Nil
  BY <1>1 DEF XInv, IInv, RegistersMatch, Tidy
<1>3. /\ req[p].parent \in Records \cup {Nil} /\ BodyGraph(req[p], Nil) \in Graph
      /\ BodyGraph(req[p], Nil).parent = req[p].parent
      /\ InitialState(req[p], Nil) \in {"DRAFT", "PUBLISHED"}
  BY <1>1, <1>2, Asked DEF XInv, InitialState
<1>4. req[p].pre = "none"
  BY <1>1, <1>2, Serving, LdpAssumption DEF XInv
<1>5. ParentOf(Nil) = Nil
  BY DEF ParentOf
<1>6. PICK graph \in Graph : graph = BodyGraph(req[p], Nil)
  BY <1>3
<1>7. PICK state \in {"DRAFT", "PUBLISHED"} : state = InitialState(req[p], Nil)
  BY <1>3
<1>8. PICK op \in Operations : op = "create"
  BY DEF Operations
<1>9. PICK links : links = Reconcile(iri, ParentOf(Nil), req[p].parent)
  OBVIOUS
<1>10. PICK comp : comp = Compensation(iri, Nil)
  OBVIOUS
<1>11. PICK current : current = Nil /\ current = record[iri]
  BY <1>2
<1>12. Proceed(p, current, PutGraph(iri, graph, state, FALSE) \o links \o Publish(iri, op), comp)
  BY <1>1, <1>3, <1>5, <1>6, <1>7, <1>8, <1>9, <1>10, <1>11
<1>13. links = Reconcile(iri, ParentOf(current), req[p].parent) /\ comp = Compensation(iri, current)
  BY <1>9, <1>10, <1>11
<1>14. QED
  BY <1>1, <1>2, <1>3, <1>4, <1>6, <1>11, <1>12, <1>13, PutSetsOut

\* A PATCH leaves the links alone.
LEMMA PatchTidy ==
  ASSUME XInv, NEW p \in Handlers, Patch(p)
  PROVE  Apart' /\ Born' /\ \A q \in Handlers : Tidy(q)'
<1> DEFINE iri == req[p].iri
<1>1. /\ phase[p] = "check" /\ req[p].method = "PATCH"
      /\ record[iri] # Nil /\ IfMatchHolds(req[p], record[iri], seen[p])
      /\ Proceed(p, record[iri],
                 PutGraph(iri, PatchedGraph(req[p], record[iri]), DefaultState, FALSE) \o Publish(iri, "modify"),
                 << >>)
  BY DEF Patch
<1>2. iri \in Records /\ req[p].parent \in Records \cup {Nil, Keep} /\ req[p].body \in Bodies
  BY <1>1, Serving DEF XInv
<1>3. PICK current \in Graph : current = record[iri]
  BY <1>1, <1>2 DEF XInv, IInv, TypeOK
<1>4. PatchedGraph(req[p], current) \in Graph
  BY <1>2 DEF PatchedGraph, Graph
<1>5. PICK graph \in Graph : graph = PatchedGraph(req[p], current)
  BY <1>4
<1>6. PICK state \in {"DRAFT", "PUBLISHED"} : state = DefaultState
  BY DEF DefaultState
<1>7. PICK op \in Operations : op = "modify"
  BY DEF Operations
<1>8. PutGraph(iri, graph, state, FALSE) \o << >> = PutGraph(iri, graph, state, FALSE)
  <2>1. PutGraph(iri, graph, state, FALSE) \in Seq(Call)
    BY <1>2 DEF PutGraph, Call, MetadataState
  <2>2. QED
    BY <2>1, ConcatEmptySeq
<1>9. PICK links : links = << >>
  OBVIOUS
<1>10. PICK comp : comp = << >>
  OBVIOUS
<1>11. Proceed(p, current, PutGraph(iri, graph, state, FALSE) \o links \o Publish(iri, op), comp)
  BY <1>1, <1>3, <1>5, <1>6, <1>7, <1>8, <1>9, <1>10
<1>12. req[p].pre = "etag" => current = seen[p]
  BY <1>1, <1>3 DEF IfMatchHolds
<1>13. current = record[req[p].iri] /\ current # Nil
  BY <1>1, <1>3
<1>14. QED
  BY <1>1, <1>9, <1>11, <1>12, <1>13, PutSetsOut

\* The state service reads the meta graph again, and moves it.
LEMMA TransitionTidy ==
  ASSUME XInv, NEW p \in Handlers, Transition(p)
  PROVE  Apart' /\ Born' /\ \A q \in Handlers : Tidy(q)'
<1>1. /\ phase[p] = "check" /\ req[p].method = "STATE" /\ meta[req[p].iri] # Nil
      /\ TransitionAllowed(meta[req[p].iri].state, req[p].state, req[p].admin)
      /\ Proceed(p, Nil,
             << [do |-> "readState", iri |-> req[p].iri, state |-> req[p].state, try |-> FALSE] >>
               \o Publish(req[p].iri, "state_change"), << >>)
  BY DEF Transition
<1>2. req[p].iri \in Records /\ req[p].state \in MetadataState
  BY <1>1, Serving DEF XInv
<1>3. PICK iri \in Records, state \in MetadataState : iri = req[p].iri /\ state = req[p].state
  BY <1>2
<1>4. PICK c : c = [do |-> "readState", iri |-> iri, state |-> state, try |-> FALSE]
  OBVIOUS
<1>5. PICK e : e = [do |-> "publish", iri |-> iri, op |-> "state_change", try |-> FALSE]
  OBVIOUS
<1>6. PICK s : s = <<e>>
  OBVIOUS
<1>7. /\ phase'[p] = "run" /\ req'[p] = req[p] /\ old'[p] = Nil /\ meta' = meta
  BY <1>1 DEF Proceed, store, XInv, IInv, TypeOK
<1>8. c \in Untried /\ e \in Untried
  BY <1>4, <1>5 DEF Untried, Call, Operations
<1>9. iri \in Own(p)'
  BY <1>3, <1>7 DEF Own, Touches
<1>10. Ready(p, c)'
  BY <1>1, <1>3, <1>4, <1>7, <1>9 DEF Ready
<1>11. e \in Later(p)'
  BY <1>5, <1>7, <1>8, <1>9 DEF Later, Untried, FitGraph
<1>12. s \in Seq(Later(p)') /\ s \in Seq(Untried)
  BY <1>6, <1>8, <1>11
<1>13. PICK comp : comp = << >>
  OBVIOUS
<1>14. Proceed(p, Nil, <<c>> \o s, comp)
  BY <1>1, <1>3, <1>4, <1>5, <1>6, <1>13 DEF Publish
<1>15. PICK current : current = Nil
  OBVIOUS
<1>16. /\ current \in {Nil, record[req[p].iri]} /\ Proceed(p, current, <<c>> \o s, comp)
       /\ (current = Nil /\ req[p].method # "STATE" => record[req[p].iri] = Nil)
  BY <1>1, <1>14, <1>15
<1>17. QED
  BY <1>1, <1>8, <1>10, <1>12, <1>16, SetsOut

\* Three calls, the first before the others.
LEMMA ThreeCalls ==
  ASSUME NEW a, NEW b, NEW c
  PROVE  <<a, b, c>> = <<a>> \o <<b, c>>
<1> DEFINE T == {a, b, c}
<1>1. <<a>> \in Seq(T) /\ <<b, c>> \in Seq(T) /\ Len(<<a>>) = 1 /\ Len(<<b, c>>) = 2
  OBVIOUS
<1>2. /\ <<a>> \o <<b, c>> \in Seq(T) /\ Len(<<a>> \o <<b, c>>) = 3
      /\ \A i \in 1 .. 3 : (<<a>> \o <<b, c>>)[i] = IF i <= 1 THEN <<a>>[i] ELSE <<b, c>>[i - 1]
  BY <1>1, ConcatProperties
<1>3. <<a, b, c>> \in Seq(T) /\ Len(<<a, b, c>>) = 3
  OBVIOUS
<1>4. \A i \in 1 .. 3 : (<<a>> \o <<b, c>>)[i] = <<a, b, c>>[i]
  <2>1. /\ (<<a>> \o <<b, c>>)[1] = a
        /\ (<<a>> \o <<b, c>>)[2] = b
        /\ (<<a>> \o <<b, c>>)[3] = c
    BY <1>2
  <2>2. \A i \in 1 .. 3 : i = 1 \/ i = 2 \/ i = 3
    OBVIOUS
  <2>3. QED
    BY <2>1, <2>2
<1>5. QED
  BY <1>2, <1>3, <1>4, SeqEqual

\* A DELETE drops the record before anything else.
LEMMA DeleteTidy ==
  ASSUME XInv, NEW p \in Handlers, Delete(p)
  PROVE  Apart' /\ Born' /\ \A q \in Handlers : Tidy(q)'
<1>1. /\ phase[p] = "check" /\ req[p].method = "DELETE"
      /\ record[req[p].iri] # Nil /\ IfMatchHolds(req[p], record[req[p].iri], seen[p])
      /\ Proceed(p, record[req[p].iri],
                 DeleteGraph(req[p].iri) \o Reconcile(req[p].iri, record[req[p].iri].parent, Nil)
                   \o Publish(req[p].iri, "delete"),
                 Compensation(req[p].iri, record[req[p].iri]))
  BY DEF Delete
<1>2. req[p].iri \in Records
  BY <1>1, Serving DEF XInv
<1>3. PICK iri \in Records : iri = req[p].iri
  BY <1>2
<1>4. PICK current \in Graph : current = record[iri]
  BY <1>1, <1>3 DEF XInv, IInv, TypeOK
<1>5. PICK a : a = [do |-> "dropRecord", iri |-> iri, try |-> FALSE]
  OBVIOUS
<1>6. PICK b : b = [do |-> "dropMeta", iri |-> iri, try |-> FALSE]
  OBVIOUS
<1>7. PICK c : c = [do |-> "dropAudit", iri |-> iri, try |-> FALSE]
  OBVIOUS
<1>8. PICK op \in Operations : op = "delete"
  BY DEF Operations
<1>9. PICK t : t = Reconcile(iri, current.parent, Nil)
  OBVIOUS
<1>10. PICK u : u = Publish(iri, op)
  OBVIOUS
<1>11. /\ phase'[p] = "run" /\ req'[p] = req[p] /\ old'[p] = current /\ seen'[p] = seen[p] /\ record' = record
  BY <1>1, <1>3, <1>4 DEF Proceed, store, XInv, IInv, TypeOK
<1>12. current.parent \in Own(p)' \cup {Nil}
  <2>1. current # Nil
    BY <1>1, <1>3, <1>4
  <2>2. current.parent \in Records \cup {Nil}
    BY DEF Graph
  <2>3. QED
    BY <1>11, <2>1, <2>2 DEF Own, Touches, ParentOf
<1>13. t \in Seq(Later(p)')
  BY <1>1, <1>3, <1>9, <1>11, <1>12, ReconcilePieces
<1>14. b \in Later(p)' /\ c \in Later(p)' /\ u \in Seq(Later(p)') /\ iri \in Own(p)'
  BY <1>1, <1>3, <1>6, <1>7, <1>10, <1>11, Pieces
<1>15. <<b, c>> \o t \o u \in Seq(Later(p)')
  <2>1. <<b, c>> \in Seq(Later(p)')
    BY <1>14
  <2>2. QED
    BY <1>13, <1>14, <2>1, ConcatProperties
<1>16. a \in Call /\ b \in Call /\ c \in Call
  BY <1>5, <1>6, <1>7 DEF Call
<1>17. DeleteGraph(iri) \o t \o u = <<a>> \o (<<b, c>> \o t \o u)
  <2>1. Later(p)' \subseteq Call
    BY DEF Later
  <2>2. t \in Seq(Call) /\ u \in Seq(Call)
    BY <1>13, <1>14, <2>1, SeqMonotonic
  <2>3. DeleteGraph(iri) = <<a, b, c>>
    BY <1>5, <1>6, <1>7 DEF DeleteGraph
  <2>4. <<a, b, c>> \o t \o u = <<a>> \o (<<b, c>> \o t \o u)
    <3>1. PICK D : D = <<b, c>>
      OBVIOUS
    <3>2. D \in Seq(Call)
      BY <1>16, <3>1
    <3>3. PICK C : C = <<a>>
      OBVIOUS
    <3>4. C \in Seq(Call)
      BY <1>16, <3>3
    <3>5. PICK w : w = D \o t
      OBVIOUS
    <3>6. w \in Seq(Call)
      BY <2>2, <3>2, <3>5, CallsAssociate
    <3>7. (C \o D) \o t = C \o w
      BY <2>2, <3>2, <3>4, <3>5, CallsAssociate
    <3>8. (C \o w) \o u = C \o (w \o u)
      BY <2>2, <3>4, <3>6, CallsAssociate
    <3>9. QED
      BY <3>1, <3>3, <3>5, <3>7, <3>8, ThreeCalls
  <2>5. QED
    BY <2>3, <2>4
<1>18. Ready(p, a)'
  <2>1. FitGraph(p, a)'
    BY <1>5 DEF FitGraph
  <2>2. req'[p].pre = "etag" => record'[a.iri] = seen'[p]
    BY <1>1, <1>3, <1>4, <1>5, <1>11 DEF IfMatchHolds
  <2>3. QED
    BY <1>1, <1>3, <1>5, <1>11, <1>14, <2>1, <2>2 DEF Ready
<1>19. PICK s : s = <<b, c>> \o t \o u
  OBVIOUS
<1>20. PICK comp : comp = Compensation(req[p].iri, current)
  OBVIOUS
<1>21. Proceed(p, current, <<a>> \o s, comp)
  BY <1>1, <1>3, <1>4, <1>8, <1>9, <1>10, <1>17, <1>19, <1>20
<1>22. /\ current \in {Nil, record[req[p].iri]} /\ current # Nil /\ s \in Seq(Later(p)')
       /\ req[p].method # "STATE"
  BY <1>1, <1>3, <1>4, <1>15, <1>19
<1>23. QED
  BY <1>1, <1>18, <1>20, <1>21, <1>22, SetsOut

-----------------------------------------------------------------------------
(* Clients that do not overlap: what their requests can count on.          *)

\* No handler has begun, and every seeded life has its provenance.
LEMMA TidyInitially ==
  Init => XInv
<1> SUFFICES ASSUME Init PROVE XInv
  OBVIOUS
<1>1. IInv
  BY Initially
<1>2. Apart
  BY DEF Init, Apart, InFlight
<1>3. Born
  BY DEF Init, Born, BuildMetaGraph, SeedStamp
<1>4. \A p \in Handlers : Tidy(p)
  BY DEF Init, Tidy, Serves
<1>5. QED
  BY <1>1, <1>2, <1>3, <1>4 DEF XInv

\* The shape of the handlers carries on, one case for each action.
LEMMA TidyInductive ==
  ASSUME Exclusive
  PROVE  XInv /\ [Next]_vars => XInv'
<1> SUFFICES ASSUME XInv, [Next]_vars PROVE XInv'
  OBVIOUS
<1>1. IInv'
  BY Inductive DEF XInv
<1>2. CASE UNCHANGED vars
  <2>1. UNCHANGED <<record, meta, audit, phase, req, seen, old, queue, undo, stamp>>
    BY <1>2 DEF vars, store, handler
  <2>2. Apart' /\ Born'
    BY <2>1 DEF XInv, Apart, Born, InFlight, Footprint
  <2>3. ASSUME NEW q \in Handlers PROVE Tidy(q)'
    <3>1. Same(q)
      BY <2>1 DEF Same
    <3>2. QED
      BY <2>1, <3>1, FrameTidy DEF XInv
  <2>4. QED
    BY <1>1, <2>2, <2>3 DEF XInv
<1>3. CASE Next
  <2>1. Apart' /\ Born' /\ \A q \in Handlers : Tidy(q)'
    <3>1. CASE Crash
      BY <3>1, CrashTidy
    <3>2. ASSUME NEW p \in Handlers,
                 ClientReads(p) \/ Receive(p) \/ Step(p) \/ Raise(p) \/ LoseAuditRow(p)
          PROVE  Apart' /\ Born' /\ \A q \in Handlers : Tidy(q)'
      <4>1. CASE ClientReads(p) \/ Refuse(p) \/ Respond(p)
        BY <4>1, IdleTidy
      <4>2. CASE Receive(p)
        BY <4>2, ReceiveTidy
      <4>3. CASE CallStore(p)
        BY <4>3, CallTidy
      <4>4. CASE Raise(p)
        BY <4>4, RaiseTidy
      <4>5. CASE LoseAuditRow(p)
        BY <4>5, LoseTidy
      <4>6. CASE Put(p)
        BY <4>6, PutTidy
      <4>7. CASE PostCheckRecord(p)
        BY <4>7, PostCheckTidy
      <4>8. CASE PostCreate(p)
        BY <4>8, PostTidy
      <4>9. CASE Patch(p)
        BY <4>9, PatchTidy
      <4>10. CASE Delete(p)
        BY <4>10, DeleteTidy
      <4>11. CASE Transition(p)
        BY <4>11, TransitionTidy
      <4>12. QED
        BY <3>2, <4>1, <4>2, <4>3, <4>4, <4>5, <4>6, <4>7, <4>8, <4>9, <4>10, <4>11 DEF Step, Admit
    <3>3. QED
      BY <1>3, <3>1, <3>2 DEF Next
  <2>2. QED
    BY <1>1, <2>1 DEF XInv
<1>4. QED
  BY <1>2, <1>3

\* When clients do not overlap their requests, every handler finds its records
\* as it left them, through every failure and restart.
THEOREM HandlersUndisturbed ==
  ASSUME Exclusive
  PROVE  Spec => []XInv
<1>1. Init => XInv
  BY TidyInitially
<1>2. XInv /\ [Next]_vars => XInv'
  BY TidyInductive
<1>3. QED
  BY <1>1, <1>2, PTL DEF Spec

\* A write under an ETag replaces what its client read (architecture 14.4):
\* clients that do not overlap their requests never lose an update.
THEOREM UpdatesNotLost ==
  ASSUME Exclusive
  PROVE  Spec => NoLostUpdate
<1> DEFINE Kept ==
      \A p \in Handlers :
        OwnWrite(p) /\ queue'[p] # queue[p] /\ phase'[p] # "idle" /\ req[p].pre = "etag"
          => record[req[p].iri] = seen[p]
<1>1. XInv => Kept
  <2> SUFFICES ASSUME XInv, NEW p \in Handlers, OwnWrite(p), req[p].pre = "etag"
               PROVE  record[req[p].iri] = seen[p]
    OBVIOUS
  <2>1. /\ queue[p] # << >> /\ phase[p] = "run" /\ ~Head(queue[p]).try
        /\ Head(queue[p]).do \in {"replaceRecord", "dropRecord"}
    BY DEF OwnWrite, HeadIs
  <2>2. Ready(p, Head(queue[p])) /\ Head(queue[p]) \notin Later(p)
    BY <2>1, InHand DEF Later
  <2>3. QED
    BY <2>1, <2>2 DEF Ready
<1>2. XInv => [Kept]_vars
  BY <1>1
<1>3. Spec => []XInv
  BY HandlersUndisturbed
<1>4. Spec => [][Kept]_vars
  <2> HIDE DEF Kept
  <2>1. QED
    BY <1>2, <1>3, PTL
<1>5. QED
  BY <1>4 DEF NoLostUpdate

\* A compensation that has run leaves the record as the request found it
\* (router.py, _maintain_membership), when clients do not overlap.
THEOREM CompensationsRestore ==
  ASSUME Exclusive
  PROVE  Spec => []CompensationRestores
<1>1. XInv => CompensationRestores
  <2> SUFFICES ASSUME XInv, NEW p \in Handlers, phase[p] = "undo", queue[p] = << >>
               PROVE  record[req[p].iri] = old[p]
    BY DEF CompensationRestores
  <2>1. req[p].iri \in Records /\ old[p] \in Graph \cup {Nil}
    BY Serving DEF XInv, IInv, TypeOK
  <2>2. Restore(p) # << >>
    BY <2>1, RestoreParts, ZenonT(40) DEF Restore
  <2>3. QED
    BY <2>2 DEF XInv, Tidy
<1>2. QED
  BY <1>1, HandlersUndisturbed, PTL

-----------------------------------------------------------------------------
(* LdpService implements PublicationLifecycle.                             *)

\* The seeded records begin as published ones.
LEMMA LivesBegin ==
  Init => Life!Init
<1> SUFFICES ASSUME Init, NEW r \in Records, meta[r] # Nil
             PROVE  meta[r].born # 0 /\ meta[r].version = 1 /\ meta[r].state = "PUBLISHED"
  BY DEF Life!Init
<1>1. meta[r] = [born |-> SeedStamp, version |-> 1, state |-> SeedState]
  BY DEF Init, BuildMetaGraph
<1>2. QED
  BY <1>1 DEF SeedStamp, SeedState

\* What Lives means is what the abstract steps say.
LEMMA LivesStep ==
  ASSUME NEW r \in Records, \A q \in Records \ {r} : meta'[q] = meta[q],
         \/ Lives(meta[r], meta'[r]) /\ meta'[r] # Nil
         \/ meta[r] # Nil /\ meta'[r] = Nil
  PROVE  Life!Next
<1>1. Life!Others(r)
  BY DEF Life!Others
<1>2. CASE meta[r] # Nil /\ meta'[r] = Nil
  BY <1>1, <1>2 DEF Life!Next, Life!Deleted
<1>3. CASE Lives(meta[r], meta'[r]) /\ meta'[r] # Nil
  <2>1. CASE meta[r] = Nil
    BY <1>1, <1>3, <2>1 DEF Life!Next, Life!Created, Lives
  <2>2. CASE meta[r] # Nil
    BY <1>1, <1>3, <2>2 DEF Life!Next, Life!Edited, Life!Moved, Lives
  <2>3. QED
    BY <2>1, <2>2
<1>4. QED
  BY <1>2, <1>3

\* Every step of the handlers is a step of a record's life, or none.
LEMMA LifeGoesOn ==
  XInv /\ [Next]_vars => [Life!Next]_meta
<1> SUFFICES ASSUME XInv, [Next]_vars, meta' # meta
             PROVE  Life!Next
  OBVIOUS
<1>1. PICK p \in Handlers : queue[p] # << >> /\ TookEffect(Head(queue[p]))
  <2>1. Next /\ ~Crash
    BY DEF vars, store, Crash
  <2>2. PICK p \in Handlers : ClientReads(p) \/ Receive(p) \/ Step(p) \/ Raise(p) \/ LoseAuditRow(p)
    BY <2>1 DEF Next
  <2>3. ~(ClientReads(p) \/ Receive(p) \/ LoseAuditRow(p) \/ Respond(p) \/ Refuse(p))
    BY DEF ClientReads, Receive, LoseAuditRow, Respond, Refuse, store
  <2>4. ~(Put(p) \/ PostCheckRecord(p) \/ PostCreate(p) \/ Patch(p) \/ Delete(p) \/ Transition(p))
    BY DEF Put, PostCheckRecord, PostCreate, Patch, Delete, Transition, Proceed, store
  <2>5. CASE Raise(p)
    BY <2>5 DEF Raise
  <2>6. CASE CallStore(p)
    <3>1. ReplaceMeta(p) \/ DropMeta(p)
      BY <2>6 DEF CallStore, ReplaceRecord, ReadMeta, ReadState, DropRecord, DropAudit, ReadParent,
                  PublishEvent, store
    <3>2. QED
      BY <3>1 DEF ReplaceMeta, DropMeta, HeadIs, TookEffect
  <2>7. QED
    BY <2>2, <2>3, <2>4, <2>5, <2>6 DEF Step, Admit
<1>2. PICK r \in Records :
        /\ \A q \in Records \ {r} : meta'[q] = meta[q]
        /\ \/ Lives(meta[r], meta'[r]) /\ meta'[r] # Nil
           \/ meta[r] # Nil /\ meta'[r] = Nil
  BY <1>1, Effect
<1>3. QED
  BY <1>2, LivesStep

\* The multi-step writes of the handlers refine the abstract life of a record:
\* each of them is one step of it, when clients do not overlap.
THEOREM RecordsFollowLifecycle ==
  ASSUME Exclusive
  PROVE  Spec => FollowsLifecycle
<1>1. Init => Life!Init
  BY LivesBegin
<1>2. XInv /\ [Next]_vars => [Life!Next]_meta
  BY LifeGoesOn
<1>3. Spec => []XInv
  BY HandlersUndisturbed
<1>4. Spec => Life!Spec
  BY <1>1, <1>2, <1>3, PTL DEF Spec, Life!Spec
<1>5. QED
  BY <1>4 DEF FollowsLifecycle

-----------------------------------------------------------------------------
(* The calls in a queue.                                                   *)

CallsOf(s) == {s[i] : i \in DOMAIN s}

\* The calls of the shortest programs.
LEMMA FewCalls ==
  ASSUME NEW a, NEW b, NEW c
  PROVE  /\ CallsOf(<< >>) = {} /\ CallsOf(<<a>>) = {a} /\ CallsOf(<<a, b>>) = {a, b}
         /\ CallsOf(<<a, b, c>>) = {a, b, c}
<1>1. CallsOf(<< >>) = {}
  BY DEF CallsOf
<1>2. CallsOf(<<a>>) = {a}
  <2>1. DOMAIN <<a>> = {1} /\ <<a>>[1] = a
    OBVIOUS
  <2>2. QED
    BY <2>1 DEF CallsOf
<1>3. CallsOf(<<a, b>>) = {a, b}
  <2>1. DOMAIN <<a, b>> = {1, 2} /\ <<a, b>>[1] = a /\ <<a, b>>[2] = b
    OBVIOUS
  <2>2. QED
    BY <2>1 DEF CallsOf
<1>4. CallsOf(<<a, b, c>>) = {a, b, c}
  <2>1. DOMAIN <<a, b, c>> = {1, 2, 3} /\ <<a, b, c>>[1] = a /\ <<a, b, c>>[2] = b /\ <<a, b, c>>[3] = c
    OBVIOUS
  <2>2. QED
    BY <2>1 DEF CallsOf
<1>5. QED
  BY <1>1, <1>2, <1>3, <1>4

\* A program put together has the calls of its pieces.
LEMMA CallsTogether ==
  ASSUME NEW s \in Seq(Call), NEW t \in Seq(Call)
  PROVE  CallsOf(s \o t) = CallsOf(s) \cup CallsOf(t)
<1>1. Len(s) \in Nat /\ Len(t) \in Nat /\ DOMAIN s = 1 .. Len(s) /\ DOMAIN t = 1 .. Len(t)
  BY LenProperties
<1>2. PICK u \in Seq(Call) : u = s \o t
  BY ConcatProperties
<1>3. /\ Len(u) = Len(s) + Len(t) /\ DOMAIN u = 1 .. Len(u)
      /\ \A i \in 1 .. Len(s) + Len(t) : u[i] = IF i <= Len(s) THEN s[i] ELSE t[i - Len(s)]
  BY <1>2, ConcatProperties, LenProperties
<1>4. ASSUME NEW i \in DOMAIN u PROVE u[i] \in CallsOf(s) \cup CallsOf(t)
  <2>1. CASE i <= Len(s)
    BY <1>1, <1>3, <2>1 DEF CallsOf
  <2>2. CASE i > Len(s)
    <3>1. i - Len(s) \in DOMAIN t /\ u[i] = t[i - Len(s)]
      BY <1>1, <1>3, <2>2
    <3>2. QED
      BY <3>1 DEF CallsOf
  <2>3. QED
    BY <1>1, <1>3, <2>1, <2>2
<1>5. ASSUME NEW i \in DOMAIN s PROVE s[i] \in CallsOf(u)
  <2>1. i \in DOMAIN u /\ u[i] = s[i]
    BY <1>1, <1>3
  <2>2. QED
    BY <2>1 DEF CallsOf
<1>6. ASSUME NEW i \in DOMAIN t PROVE t[i] \in CallsOf(u)
  <2>1. i \in Nat /\ i >= 1 /\ i <= Len(t)
    BY <1>1
  <2>2. PICK j \in Nat : j = i + Len(s)
    BY <1>1, <2>1
  <2>3. j \in 1 .. Len(s) + Len(t) /\ ~(j <= Len(s)) /\ j - Len(s) = i
    BY <1>1, <2>1, <2>2
  <2>4. j \in DOMAIN u
    BY <1>3, <2>3
  <2>5. u[j] = t[j - Len(s)]
    <3>1. u[j] = IF j <= Len(s) THEN s[j] ELSE t[j - Len(s)]
      BY <1>3, <2>3
    <3>2. QED
      BY <2>3, <3>1
  <2>6. QED
    BY <2>3, <2>4, <2>5 DEF CallsOf
<1>7. CallsOf(u) \subseteq CallsOf(s) \cup CallsOf(t)
  <2> SUFFICES ASSUME NEW x \in CallsOf(u) PROVE x \in CallsOf(s) \cup CallsOf(t)
    OBVIOUS
  <2>1. PICK i \in DOMAIN u : x = u[i]
    BY DEF CallsOf
  <2>2. QED
    BY <1>4, <2>1
<1>8. CallsOf(s) \subseteq CallsOf(u)
  BY <1>5 DEF CallsOf
<1>9. CallsOf(t) \subseteq CallsOf(u)
  BY <1>6 DEF CallsOf
<1>10. QED
  BY <1>2, <1>7, <1>8, <1>9

\* A program is its first call and the rest.
LEMMA FirstAndRest ==
  ASSUME NEW q \in Seq(Call), q # << >>
  PROVE  CallsOf(q) = {Head(q)} \cup CallsOf(Tail(q))
<1>1. /\ Tail(q) \in Seq(Call) /\ Len(Tail(q)) = Len(q) - 1 /\ Len(q) \in Nat /\ Len(q) # 0
      /\ \A i \in 1 .. Len(Tail(q)) : Tail(q)[i] = q[i + 1]
      /\ DOMAIN q = 1 .. Len(q) /\ Head(q) = q[1]
  BY HeadTailProperties, LenProperties, EmptySeq
<1>2. PICK t \in Seq(Call) : t = Tail(q)
  BY <1>1
<1>3. DOMAIN t = 1 .. Len(q) - 1 /\ \A i \in 1 .. Len(q) - 1 : t[i] = q[i + 1]
  BY <1>1, <1>2, LenProperties
<1>4. ASSUME NEW i \in DOMAIN q PROVE q[i] \in {q[1]} \cup CallsOf(t)
  <2>1. CASE i = 1
    BY <2>1
  <2>2. CASE i # 1
    <3>1. i - 1 \in DOMAIN t /\ t[i - 1] = q[i]
      BY <1>1, <1>3, <2>2
    <3>2. QED
      BY <3>1 DEF CallsOf
  <2>3. QED
    BY <2>1, <2>2
<1>5. ASSUME NEW i \in DOMAIN t PROVE t[i] \in CallsOf(q)
  <2>1. PICK j \in Nat : j = i + 1
    BY <1>1, <1>3
  <2>2. j \in DOMAIN q /\ q[j] = t[i]
    BY <1>1, <1>3, <2>1
  <2>3. QED
    BY <2>2 DEF CallsOf
<1>6. q[1] \in CallsOf(q)
  BY <1>1 DEF CallsOf
<1>7. QED
  BY <1>1, <1>2, <1>4, <1>5, <1>6 DEF CallsOf

\* The calls of a program whose calls are all of one kind are of that kind.
LEMMA CallsFit ==
  ASSUME NEW S, NEW s \in Seq(S)
  PROVE  CallsOf(s) \subseteq S
<1>1. \A i \in DOMAIN s : s[i] \in S
  BY LenProperties, ElementOfSeq
<1>2. QED
  BY <1>1 DEF CallsOf

\* Programs that begin with two calls.
Begins(a, b, t, u) == <<a, b>> \o t \o u

\* The first call of a program that begins with two, and the calls behind it.
LEMMA ProgramOfTwo ==
  ASSUME NEW a \in Call, NEW b \in Call, NEW t \in Seq(Call), NEW u \in Seq(Call)
  PROVE  /\ Begins(a, b, t, u) \in Seq(Call) /\ Begins(a, b, t, u) # << >>
         /\ Head(Begins(a, b, t, u)) = a /\ Tail(Begins(a, b, t, u)) = <<b>> \o t \o u
         /\ CallsOf(Tail(Begins(a, b, t, u))) = {b} \cup CallsOf(t) \cup CallsOf(u)
<1>1. PICK C : C = <<a>>
  OBVIOUS
<1>2. C \in Seq(Call)
  BY <1>1
<1>3. PICK D : D = <<b>>
  OBVIOUS
<1>4. D \in Seq(Call)
  BY <1>3
<1>5. PICK w : w = D \o t
  OBVIOUS
<1>6. w \in Seq(Call)
  BY <1>4, <1>5, CallsAssociate
<1>7. PICK v : v = w \o u
  OBVIOUS
<1>8. v \in Seq(Call)
  BY <1>6, <1>7, CallsAssociate
<1>9. (C \o D) \o t = C \o w
  BY <1>2, <1>4, <1>5, CallsAssociate, SMTT(30)
<1>10. (C \o w) \o u = C \o v
  BY <1>2, <1>6, <1>7, CallsAssociate, SMTT(30)
<1>11. <<a, b>> \o t \o u = <<a>> \o v
  BY <1>1, <1>3, <1>9, <1>10, TwoCalls
<1>12. C \o v \in Seq(Call)
  BY <1>2, <1>8, CallsAssociate
<1>13. Head(<<a>> \o v) = a /\ Tail(<<a>> \o v) = v /\ <<a>> \o v # << >>
  BY <1>8, ConsParts
<1>14. CallsOf(w \o u) = CallsOf(w) \cup CallsOf(u) /\ CallsOf(D \o t) = CallsOf(D) \cup CallsOf(t)
  BY <1>4, <1>6, CallsTogether
<1>15. CallsOf(D) = {b}
  BY <1>3, FewCalls
<1>16. CallsOf(v) = {b} \cup CallsOf(t) \cup CallsOf(u)
  BY <1>5, <1>7, <1>14, <1>15
<1>17. v = <<b>> \o t \o u
  BY <1>3, <1>5, <1>7
<1>18. QED
  BY <1>1, <1>8, <1>11, <1>12, <1>13, <1>16, <1>17 DEF Begins

-----------------------------------------------------------------------------
(* A step of a program: what it writes, and what it leaves to do.          *)

\* The calls p has left, and those behind its first.
Pending(p) == CallsOf(queue[p])
Behind(p)  == CallsOf(Tail(queue[p]))

\* The record graphs and the audit rows once c has run.
RecordAfter(c) ==
  IF c.do = "replaceRecord" THEN [record EXCEPT ![c.iri] = c.graph]
  ELSE IF c.do = "dropRecord" THEN [record EXCEPT ![c.iri] = Nil] ELSE record
AuditAfter(c) == IF c.do = "publish" THEN [audit EXCEPT ![c.iri] = Append(@, c.op)] ELSE audit

\* What a handler's step changes of the other variables.
LEMMA StoreStep ==
  ASSUME XInv, NEW p \in Handlers, CallStore(p)
  PROVE  LET c == Head(queue[p]) IN
         /\ queue[p] # << >>
         /\ UNCHANGED <<phase, req, seen, old, sent, faults, crashes>>
         /\ \A q \in Handlers \ {p} : queue'[q] = queue[q]
         /\ record' = RecordAfter(c) /\ audit' = AuditAfter(c)
         /\ \/ /\ c.do \notin {"readMeta", "readState"}
               /\ c.do = "readParent" => ~LinkChanges(record[c.iri], c.child, c.add)
               /\ queue'[p] = << >> \o Tail(queue[p]) \o << >>
            \/ /\ c.do \in {"readMeta", "readState"}
               /\ \E m : queue'[p] = << [do |-> "replaceMeta", iri |-> c.iri, try |-> c.try, meta |-> m] >>
                                        \o Tail(queue[p]) \o << >>
            \/ /\ c.do = "readParent" /\ LinkChanges(record[c.iri], c.child, c.add)
               /\ queue'[p] = PutGraph(c.iri, WithLink(record[c.iri], c.child, c.add), DefaultState, TRUE)
                                \o Tail(queue[p]) \o Publish(c.iri, "modify")
<1> DEFINE c == Head(queue[p])
<1>1. queue \in [Handlers -> Seq(Call)]
  BY DEF XInv, IInv, TypeOK
<1>2. ASSUME NEW calls, NEW later, Continue(p, calls, later)
      PROVE  /\ queue'[p] = calls \o Tail(queue[p]) \o later
             /\ \A q \in Handlers \ {p} : queue'[q] = queue[q]
             /\ UNCHANGED <<phase, req, seen, old, sent, faults, crashes>>
  BY <1>1, <1>2 DEF Continue, counters
<1> HIDE DEF c
<1>3. CASE ReplaceRecord(p)
  <2>1. /\ queue[p] # << >> /\ c.do = "replaceRecord" /\ Continue(p, << >>, << >>)
        /\ record' = [record EXCEPT ![c.iri] = c.graph] /\ audit' = audit
    BY <1>3 DEF ReplaceRecord, HeadIs, c
  <2>2. QED
    BY <1>2, <2>1 DEF c, RecordAfter, AuditAfter
<1>4. CASE DropRecord(p)
  <2>1. /\ queue[p] # << >> /\ c.do = "dropRecord" /\ Continue(p, << >>, << >>)
        /\ record' = [record EXCEPT ![c.iri] = Nil] /\ audit' = audit
    BY <1>4 DEF DropRecord, HeadIs, c
  <2>2. QED
    BY <1>2, <2>1 DEF c, RecordAfter, AuditAfter
<1>5. CASE PublishEvent(p)
  <2>1. /\ queue[p] # << >> /\ c.do = "publish" /\ Continue(p, << >>, << >>)
        /\ audit' = [audit EXCEPT ![c.iri] = Append(@, c.op)] /\ record' = record
    BY <1>5 DEF PublishEvent, HeadIs, c
  <2>2. QED
    BY <1>2, <2>1 DEF c, RecordAfter, AuditAfter
<1>6. CASE ReplaceMeta(p) \/ DropMeta(p) \/ DropAudit(p)
  <2>1. /\ queue[p] # << >> /\ c.do \in {"replaceMeta", "dropMeta", "dropAudit"}
        /\ Continue(p, << >>, << >>) /\ audit' = audit /\ record' = record
    BY <1>6 DEF ReplaceMeta, DropMeta, DropAudit, HeadIs, store, c
  <2>2. QED
    BY <1>2, <2>1 DEF c, RecordAfter, AuditAfter
<1>7. CASE ReadMeta(p)
  <2>1. PICK m : m = BuildMetaGraph(meta[c.iri], stamp[p], c.state)
    OBVIOUS
  <2>2. /\ queue[p] # << >> /\ c.do = "readMeta" /\ audit' = audit /\ record' = record
        /\ Continue(p, << [do |-> "replaceMeta", iri |-> c.iri, try |-> c.try, meta |-> m] >>, << >>)
    BY <1>7, <2>1 DEF ReadMeta, HeadIs, store, c
  <2>3. QED
    BY <1>2, <2>2 DEF c, RecordAfter, AuditAfter
<1>8. CASE ReadState(p)
  <2>1. PICK m : m = SwapState(meta[c.iri], c.state)
    OBVIOUS
  <2>2. /\ queue[p] # << >> /\ c.do = "readState" /\ audit' = audit /\ record' = record
        /\ Continue(p, << [do |-> "replaceMeta", iri |-> c.iri, try |-> c.try, meta |-> m] >>, << >>)
    BY <1>8, <2>1 DEF ReadState, HeadIs, store, c
  <2>3. QED
    BY <1>2, <2>2 DEF c, RecordAfter, AuditAfter
<1>9. CASE ReadParent(p)
  <2>1. queue[p] # << >> /\ c.do = "readParent" /\ audit' = audit /\ record' = record
    BY <1>9 DEF ReadParent, HeadIs, store, c
  <2>2. \/ /\ LinkChanges(record[c.iri], c.child, c.add)
           /\ Continue(p, PutGraph(c.iri, WithLink(record[c.iri], c.child, c.add), DefaultState, TRUE),
                       Publish(c.iri, "modify"))
        \/ ~LinkChanges(record[c.iri], c.child, c.add) /\ Continue(p, << >>, << >>)
    BY <1>9 DEF ReadParent, c
  <2>3. CASE ~LinkChanges(record[c.iri], c.child, c.add) /\ Continue(p, << >>, << >>)
    BY <1>2, <2>1, <2>3 DEF c, RecordAfter, AuditAfter
  <2>4. CASE /\ LinkChanges(record[c.iri], c.child, c.add)
             /\ Continue(p, PutGraph(c.iri, WithLink(record[c.iri], c.child, c.add), DefaultState, TRUE),
                         Publish(c.iri, "modify"))
    <3>1. PICK calls : calls = PutGraph(c.iri, WithLink(record[c.iri], c.child, c.add), DefaultState, TRUE)
      OBVIOUS
    <3>2. PICK later : later = Publish(c.iri, "modify")
      OBVIOUS
    <3>3. Continue(p, calls, later)
      BY <2>4, <3>1, <3>2
    <3>4. QED
      BY <1>2, <2>1, <2>4, <3>1, <3>2, <3>3 DEF c, RecordAfter, AuditAfter
  <2>5. QED
    BY <2>2, <2>3, <2>4
<1>10. QED
  BY <1>3, <1>4, <1>5, <1>6, <1>7, <1>8, <1>9 DEF CallStore

\* A queue holds calls; what it holds is its first and what is behind.
LEMMA QueueParts ==
  ASSUME IInv, NEW p \in Handlers
  PROVE  /\ queue[p] \in Seq(Call)
         /\ queue[p] = << >> => Pending(p) = {}
         /\ queue[p] # << >> =>
              /\ Pending(p) = {Head(queue[p])} \cup Behind(p)
              /\ Head(queue[p]) \in Call /\ Tail(queue[p]) \in Seq(Call) /\ Behind(p) \subseteq Call
<1>1. queue[p] \in Seq(Call)
  BY DEF IInv, TypeOK
<1>2. ASSUME queue[p] # << >>
      PROVE  /\ Pending(p) = {Head(queue[p])} \cup Behind(p)
             /\ Head(queue[p]) \in Call /\ Tail(queue[p]) \in Seq(Call) /\ Behind(p) \subseteq Call
  <2>1. Head(queue[p]) \in Call /\ Tail(queue[p]) \in Seq(Call)
    BY <1>1, <1>2, HeadTailProperties
  <2>2. Behind(p) \subseteq Call
    BY <2>1, CallsFit DEF Behind
  <2>3. QED
    BY <1>1, <1>2, <2>1, <2>2, FirstAndRest DEF Pending, Behind
<1>3. queue[p] = << >> => Pending(p) = {}
  BY FewCalls DEF Pending
<1>4. QED
  BY <1>1, <1>2, <1>3

\* What is left to do after a call: what was behind it, after what a call that reads puts before
\* it, and before the announcement of a parent it changes.
LEMMA NextCalls ==
  ASSUME XInv, NEW p \in Handlers, CallStore(p)
  PROVE  LET c == Head(queue[p]) IN
         \/ /\ c.do \notin {"readMeta", "readState"}
            /\ c.do = "readParent" => ~LinkChanges(record[c.iri], c.child, c.add)
            /\ queue'[p] = Tail(queue[p])
            /\ CallsOf(queue'[p]) = Behind(p)
            /\ queue'[p] # << >> => /\ Head(queue'[p]) \in Behind(p)
                                    /\ CallsOf(Tail(queue'[p])) \subseteq Behind(p)
         \/ /\ c.do \in {"readMeta", "readState"}
            /\ queue'[p] # << >> /\ Head(queue'[p]).do = "replaceMeta"
            /\ Tail(queue'[p]) = Tail(queue[p])
         \/ /\ c.do = "readParent" /\ LinkChanges(record[c.iri], c.child, c.add)
            /\ queue'[p] # << >>
            /\ Head(queue'[p]) = [do |-> "replaceRecord", iri |-> c.iri, try |-> TRUE,
                                  graph |-> WithLink(record[c.iri], c.child, c.add)]
            /\ \E b, e \in Call :
                 /\ b.do = "readMeta" /\ e.do = "publish" /\ e.op = "modify"
                 /\ Tail(queue'[p]) = <<b>> \o Tail(queue[p]) \o <<e>>
                 /\ CallsOf(Tail(queue'[p])) = {b} \cup Behind(p) \cup {e}
<1> DEFINE c == Head(queue[p])
<1>1. PICK t : t = Tail(queue[p])
  OBVIOUS
<1>2. queue[p] # << >>
  BY StoreStep
<1>3. t \in Seq(Call) /\ c \in Call /\ c.iri \in Records
  BY <1>1, <1>2, InHand
<1>4. << >> \o t \o << >> = t
  BY <1>3, ConcatEmptySeq
<1> HIDE DEF c
<1>5. CASE /\ c.do \notin {"readMeta", "readState"}
           /\ c.do = "readParent" => ~LinkChanges(record[c.iri], c.child, c.add)
           /\ queue'[p] = << >> \o t \o << >>
  <2>1. queue'[p] = t
    BY <1>4, <1>5
  <2>2. t # << >> => CallsOf(t) = {Head(t)} \cup CallsOf(Tail(t))
    BY <1>3, FirstAndRest
  <2>3. QED
    BY <1>1, <1>5, <2>1, <2>2 DEF Behind, c
<1>6. CASE /\ c.do \in {"readMeta", "readState"}
           /\ \E m : queue'[p] = << [do |-> "replaceMeta", iri |-> c.iri, try |-> c.try, meta |-> m] >>
                                    \o t \o << >>
  <2>1. PICK m : queue'[p] = << [do |-> "replaceMeta", iri |-> c.iri, try |-> c.try, meta |-> m] >> \o t \o << >>
    BY <1>6
  <2>2. PICK d : d = [do |-> "replaceMeta", iri |-> c.iri, try |-> c.try, meta |-> m]
    OBVIOUS
  <2>3. Head(<<d>> \o t) = d /\ Tail(<<d>> \o t) = t /\ <<d>> \o t # << >>
    BY <1>3, ConsParts
  <2>4. <<d>> \o t \o << >> = <<d>> \o t
    <3>1. PICK S : S = Call \cup {d}
      OBVIOUS
    <3>2. <<d>> \in Seq(S) /\ t \in Seq(S)
      BY <1>3, <3>1, SeqMonotonic
    <3>3. <<d>> \o t \in Seq(S)
      BY <3>2, ConcatProperties
    <3>4. QED
      BY <3>3, ConcatEmptySeq
  <2>5. queue'[p] = <<d>> \o t
    BY <2>1, <2>2, <2>4
  <2>6. QED
    BY <1>1, <1>6, <2>2, <2>3, <2>5 DEF c
<1>7. CASE /\ c.do = "readParent" /\ LinkChanges(record[c.iri], c.child, c.add)
           /\ queue'[p] = PutGraph(c.iri, WithLink(record[c.iri], c.child, c.add), DefaultState, TRUE)
                            \o t \o Publish(c.iri, "modify")
  <2>1. c.child \in Records /\ c.add \in BOOLEAN /\ record[c.iri] \in Graph
    <3>1. c \in GrantedCalls(granted) /\ record[c.iri] \in Graph \cup {Nil} /\ record[c.iri] # Nil
      BY <1>2, <1>3, <1>7, HeadCall DEF XInv, IInv, TypeOK, LinkChanges, c
    <3>2. QED
      BY <1>7, <3>1, CallFields
  <2>2. WithLink(record[c.iri], c.child, c.add) \in Graph
    BY <2>1, GraphTypes
  <2>3. PICK a : a = [do |-> "replaceRecord", iri |-> c.iri, try |-> TRUE,
                      graph |-> WithLink(record[c.iri], c.child, c.add)]
    OBVIOUS
  <2>4. PICK b : b = [do |-> "readMeta", iri |-> c.iri, state |-> DefaultState, try |-> TRUE]
    OBVIOUS
  <2>5. PICK e : e = [do |-> "publish", iri |-> c.iri, op |-> "modify", try |-> FALSE]
    OBVIOUS
  <2>6. a \in Call /\ b \in Call /\ e \in Call
    BY <1>3, <2>2, <2>3, <2>4, <2>5 DEF Call, DefaultState, MetadataState, Operations
  <2>7. PICK u : u = <<e>>
    OBVIOUS
  <2>8. u \in Seq(Call) /\ CallsOf(u) = {e}
    <3>1. u \in Seq(Call)
      BY <2>6, <2>7
    <3>2. CallsOf(u) = {e}
      BY <2>7, FewCalls
    <3>3. QED
      BY <3>1, <3>2
  <2>9. queue'[p] = <<a, b>> \o t \o u
    BY <1>7, <2>3, <2>4, <2>5, <2>7 DEF PutGraph, Publish
  <2>10. /\ queue'[p] # << >> /\ Head(queue'[p]) = a /\ Tail(queue'[p]) = <<b>> \o t \o u
         /\ CallsOf(Tail(queue'[p])) = {b} \cup CallsOf(t) \cup CallsOf(u)
    <3>1. PICK q : q = Begins(a, b, t, u)
      OBVIOUS
    <3>2. /\ q # << >> /\ Head(q) = a /\ Tail(q) = <<b>> \o t \o u
          /\ CallsOf(Tail(q)) = {b} \cup CallsOf(t) \cup CallsOf(u)
      BY <1>3, <2>6, <2>8, <3>1, ProgramOfTwo
    <3>3. q = queue'[p]
      BY <2>9, <3>1 DEF Begins
    <3>4. QED
      BY <3>2, <3>3
  <2>11. b.do = "readMeta" /\ e.do = "publish" /\ e.op = "modify"
    BY <2>4, <2>5
  <2>12. CallsOf(t) = Behind(p)
    BY <1>1 DEF Behind
  <2>13. \E bb, ee \in Call :
           /\ bb.do = "readMeta" /\ ee.do = "publish" /\ ee.op = "modify"
           /\ Tail(queue'[p]) = <<bb>> \o Tail(queue[p]) \o <<ee>>
           /\ CallsOf(Tail(queue'[p])) = {bb} \cup Behind(p) \cup {ee}
    BY <1>1, <2>6, <2>7, <2>8, <2>10, <2>11, <2>12
  <2>14. QED
    BY <1>7, <2>3, <2>10, <2>13 DEF c
<1>8. QED
  <2>1. \/ /\ c.do \notin {"readMeta", "readState"}
           /\ c.do = "readParent" => ~LinkChanges(record[c.iri], c.child, c.add)
           /\ queue'[p] = << >> \o t \o << >>
        \/ /\ c.do \in {"readMeta", "readState"}
           /\ \E m : queue'[p] = << [do |-> "replaceMeta", iri |-> c.iri, try |-> c.try, meta |-> m] >>
                                    \o t \o << >>
        \/ /\ c.do = "readParent" /\ LinkChanges(record[c.iri], c.child, c.add)
           /\ queue'[p] = PutGraph(c.iri, WithLink(record[c.iri], c.child, c.add), DefaultState, TRUE)
                            \o t \o Publish(c.iri, "modify")
    BY <1>1, StoreStep DEF c
  <2>2. QED
    BY <1>5, <1>6, <1>7, <2>1

-----------------------------------------------------------------------------
(* The audit trail.                                                        *)

\* The record p's request names, once p has written it.
After(p) ==
  IF ~OwnWrite(p) THEN record[req[p].iri]
  ELSE IF HeadIs(p, "replaceRecord") THEN Head(queue[p]).graph ELSE Nil

IsBirth(c) == c.do = "publish" /\ c.op \in {"create", "delete"}

\* What rows say of the record r; those of r say of it what the graph g says.
Says(r, rows) == Replayed(rows, Seed[r] # Nil)
Told(r, g) == Says(r, audit[r]) <=> g # Nil

\* The first call may write the record, the others write none; a write that may
\* raise the compensation puts back a parent that is there.
OneWrite(p) ==
  queue[p] # << >> =>
     /\ \A c \in Behind(p) : c.do \notin {"replaceRecord", "dropRecord"}
     /\ HeadIs(p, "replaceRecord") /\ Head(queue[p]).try => record[Head(queue[p]).iri] # Nil
     /\ HeadIs(p, "dropRecord") => ~Head(queue[p]).try

\* p has told what it makes of its record, or has still to tell it, and truly.
Tells(p) ==
  /\ \A c \in Pending(p) : IsBirth(c) => c.iri = req[p].iri /\ (c.op = "create" <=> After(p) # Nil)
  /\ Told(req[p].iri, After(p)) \/ \E c \in Pending(p) : IsBirth(c)

Running(r) == \E p \in Handlers : phase[p] = "run" /\ req[p].iri = r

\* While nothing has failed, handlers tell what they make of their records, and
\* the rows of the other records say whether they are there.
AInv ==
  Undisturbed =>
    /\ \A p \in Handlers : phase[p] \notin {"undo", "failed"}
    /\ \A p \in Handlers : phase[p] = "run" => OneWrite(p) /\ Tells(p)
    /\ \A r \in Records : Running(r) \/ Told(r, record[r])

\* What one more row does to the replay.
LEMMA OneMoreRow ==
  ASSUME NEW rows \in Seq(Operations), NEW op \in Operations, NEW r
  PROVE  /\ op = "create" => Says(r, Append(rows, op))
         /\ op = "delete" => ~Says(r, Append(rows, op))
         /\ op \notin {"create", "delete"} => (Says(r, Append(rows, op)) <=> Says(r, rows))
<1>1. PICK n \in Nat : n = Len(rows) + 1 /\ n >= 1
  BY LenProperties
<1>2. PICK more : more = Append(rows, op)
  OBVIOUS
<1>3. /\ DOMAIN rows = 1 .. n - 1 /\ DOMAIN more = 1 .. n /\ more[n] = op
      /\ \A i \in 1 .. n - 1 : more[i] = rows[i]
  <2>1. /\ more \in Seq(Operations) /\ Len(more) = Len(rows) + 1 /\ more[Len(rows) + 1] = op
        /\ \A i \in 1 .. Len(rows) : more[i] = rows[i]
    BY <1>2, AppendProperties
  <2>2. Len(rows) = n - 1 /\ DOMAIN rows = 1 .. Len(rows) /\ DOMAIN more = 1 .. Len(more)
    BY <1>1, <2>1, LenProperties
  <2>3. QED
    BY <1>1, <2>1, <2>2
<1>4. n \in DOMAIN more /\ \A i \in DOMAIN more : i <= n
  <2>1. n \in 1 .. n
    BY <1>1
  <2>2. \A i \in 1 .. n : i <= n
    BY <1>1
  <2>3. QED
    BY <1>3, <2>1, <2>2
<1>5. op = "create" => Says(r, more)
  <2>1. \A j \in DOMAIN more : ~(j > n)
    BY <1>4
  <2>2. QED
    BY <1>3, <1>4, <2>1 DEF Says, Replayed
<1>6. op = "delete" => ~Says(r, more)
  <2> SUFFICES ASSUME op = "delete" PROVE ~Says(r, more)
    OBVIOUS
  <2>1. ASSUME NEW i \in DOMAIN more, more[i] = "create" PROVE n > i
    BY <1>3, <1>4, <2>1
  <2>2. QED
    BY <1>3, <1>4, <2>1 DEF Says, Replayed
<1>7. ASSUME op \notin {"create", "delete"} PROVE Says(r, more) <=> Says(r, rows)
  <2>1. \A i \in DOMAIN more : i \in DOMAIN rows \/ i = n
    BY <1>3
  <2>2. \A i \in DOMAIN rows : i \in DOMAIN more /\ more[i] = rows[i]
    BY <1>3
  <2>3. more[n] # "create" /\ more[n] # "delete"
    BY <1>3, <1>7
  <2>4. QED
    BY <2>1, <2>2, <2>3 DEF Says, Replayed
<1>8. QED
  BY <1>2, <1>5, <1>6, <1>7

\* What a handler has left is about records of its own.
LEMMA PendingOwn ==
  ASSUME XInv, NEW p \in Handlers, queue[p] # << >>
  PROVE  /\ Head(queue[p]).iri \in Own(p) /\ Behind(p) \subseteq Later(p)
         /\ \A d \in Pending(p) : d.iri \in Own(p)
<1>1. Head(queue[p]).iri \in Own(p) /\ Tail(queue[p]) \in Seq(Later(p))
  BY InHand
<1>2. Behind(p) \subseteq Later(p)
  BY <1>1, CallsFit DEF Behind
<1>3. Pending(p) = {Head(queue[p])} \cup Behind(p)
  BY QueueParts DEF XInv
<1>4. QED
  BY <1>1, <1>2, <1>3 DEF Later

\* A step of one program leaves the records of the other handlers alone.
LEMMA Elsewhere ==
  ASSUME XInv, NEW p \in Handlers, CallStore(p), NEW q \in Handlers \ {p}, InFlight(q)
  PROVE  /\ \A r \in Own(q) : record'[r] = record[r] /\ audit'[r] = audit[r]
         /\ req[q].iri \in Own(q) /\ req[q].iri # req[p].iri /\ req[q].iri \in Records
         /\ queue'[q] = queue[q] /\ req'[q] = req[q] /\ phase'[q] = phase[q] /\ old'[q] = old[q]
<1>1. /\ queue[p] # << >> /\ record' = RecordAfter(Head(queue[p])) /\ audit' = AuditAfter(Head(queue[p]))
      /\ queue'[q] = queue[q] /\ UNCHANGED <<phase, req, old>>
  BY StoreStep
<1>2. Head(queue[p]).iri \in Own(p) /\ req[p].iri \in Own(p) /\ InFlight(p)
  BY <1>1, InHand DEF InFlight
<1>3. Footprint(p) \cap Footprint(q) = {}
  BY <1>2 DEF XInv, Apart
<1>4. Own(p) \cap Own(q) = {}
  BY <1>3, OwnInFootprint
<1>5. req[q].iri \in Own(q) /\ req[q].iri \in Records
  BY NamedIsOwn DEF XInv, InFlight
<1>6. Own(q) \subseteq Records
  BY OwnInFootprint
<1>7. \A r \in Own(q) : r # Head(queue[p]).iri
  BY <1>2, <1>4
<1>8. \A r \in Own(q) : record'[r] = record[r] /\ audit'[r] = audit[r]
  BY <1>1, <1>6, <1>7 DEF RecordAfter, AuditAfter, XInv, IInv, TypeOK
<1>9. QED
  BY <1>1, <1>2, <1>4, <1>5, <1>8

\* So they make what they made of theirs.
LEMMA OthersTell ==
  ASSUME XInv, NEW p \in Handlers, CallStore(p), NEW q \in Handlers \ {p}, phase[q] = "run",
         OneWrite(q), Tells(q)
  PROVE  OneWrite(q)' /\ Tells(q)' /\ After(q)' = After(q)
<1>1. /\ \A r \in Own(q) : record'[r] = record[r] /\ audit'[r] = audit[r]
      /\ req[q].iri \in Own(q)
      /\ queue'[q] = queue[q] /\ req'[q] = req[q] /\ phase'[q] = phase[q]
  BY Elsewhere DEF InFlight
<1>2. Pending(q)' = Pending(q) /\ Behind(q)' = Behind(q)
  BY <1>1 DEF Pending, Behind
<1>3. After(q)' = After(q)
  BY <1>1 DEF After, OwnWrite, HeadIs
<1>4. queue[q] # << >> => record'[Head(queue[q]).iri] = record[Head(queue[q]).iri]
  BY <1>1, PendingOwn
<1>5. OneWrite(q)'
  BY <1>1, <1>2, <1>4 DEF OneWrite, HeadIs
<1>6. Told(req[q].iri, After(q))' <=> Told(req[q].iri, After(q))
  BY <1>1, <1>3 DEF Told
<1>7. Tells(q)'
  BY <1>1, <1>2, <1>3, <1>6 DEF Tells
<1>8. QED
  BY <1>3, <1>5, <1>7

\* A step of p's own program: the write of its record is behind it, and what it
\* makes of the record is what it was going to.
LEMMA OwnWriteDone ==
  ASSUME XInv, NEW p \in Handlers, CallStore(p), phase[p] = "run", OneWrite(p)
  PROVE  /\ OneWrite(p)' /\ ~OwnWrite(p)'
         /\ After(p)' # Nil <=> After(p) # Nil
         /\ \A r \in Records : r # req[p].iri => (record'[r] # Nil <=> record[r] # Nil)
<1> DEFINE c == Head(queue[p])
<1>1. PICK iri \in Records : iri = req[p].iri
  BY Serving DEF XInv
<1>2. /\ queue[p] # << >> /\ record' = RecordAfter(c) /\ UNCHANGED <<phase, req>>
  BY StoreStep
<1>3. c \in Call /\ c.iri \in Records /\ Ready(p, c) /\ (c.do = "replaceRecord" => c.graph \in Graph)
  BY <1>2, InHand, HeadCall, CallFields DEF XInv
<1>4. record \in [Records -> Graph \cup {Nil}] /\ Nil \notin Graph
  BY LdpAssumption DEF XInv, IInv, TypeOK
<1>5. /\ \A d \in Behind(p) : d.do \notin {"replaceRecord", "dropRecord"}
      /\ c.do = "replaceRecord" /\ c.try => record[c.iri] # Nil
      /\ c.do = "dropRecord" => ~c.try
  BY <1>2 DEF OneWrite, HeadIs
<1>6. c.do \in {"replaceRecord", "dropRecord"} /\ ~c.try => c.iri = iri
  BY <1>1, <1>3 DEF Ready, Later
<1>7. OwnWrite(p) <=> c.do \in {"replaceRecord", "dropRecord"} /\ ~c.try
  BY <1>2 DEF OwnWrite, HeadIs
<1>8. /\ queue'[p] # << >> => /\ Head(queue'[p]).do # "dropRecord"
                              /\ Head(queue'[p]).do = "replaceRecord" =>
                                   Head(queue'[p]).try /\ record'[Head(queue'[p]).iri] # Nil
                              /\ \A d \in CallsOf(Tail(queue'[p])) : d.do \notin {"replaceRecord", "dropRecord"}
  <2> HIDE DEF c
  <2>1. CASE /\ queue'[p] # << >> => /\ Head(queue'[p]) \in Behind(p)
                                     /\ CallsOf(Tail(queue'[p])) \subseteq Behind(p)
    BY <1>5, <2>1
  <2>2. CASE Head(queue'[p]).do = "replaceMeta" /\ Tail(queue'[p]) = Tail(queue[p])
    BY <1>5, <2>2 DEF Behind
  <2>3. CASE /\ c.do = "readParent" /\ LinkChanges(record[c.iri], c.child, c.add)
             /\ Head(queue'[p]) = [do |-> "replaceRecord", iri |-> c.iri, try |-> TRUE,
                                   graph |-> WithLink(record[c.iri], c.child, c.add)]
             /\ \E b, e \in Call :
                 /\ b.do = "readMeta" /\ e.do = "publish" /\ e.op = "modify"
                 /\ Tail(queue'[p]) = <<b>> \o Tail(queue[p]) \o <<e>>
                 /\ CallsOf(Tail(queue'[p])) = {b} \cup Behind(p) \cup {e}
    <3>1. record' = record /\ record[c.iri] # Nil
      BY <1>2, <2>3 DEF RecordAfter, LinkChanges, c
    <3>2. QED
      BY <1>5, <2>3, <3>1
  <2>4. QED
    BY <2>1, <2>2, <2>3, NextCalls DEF c
<1>9. OneWrite(p)'
  BY <1>2, <1>8 DEF OneWrite, HeadIs, Behind
<1>10. ~OwnWrite(p)'
  BY <1>8 DEF OwnWrite, HeadIs
<1>11. After(p)' = record'[iri]
  BY <1>1, <1>2, <1>10 DEF After
<1>12. /\ OwnWrite(p) => After(p) = IF c.do = "replaceRecord" THEN c.graph ELSE Nil
       /\ ~OwnWrite(p) => After(p) = record[iri]
  BY <1>1, <1>2 DEF After, HeadIs
<1> HIDE DEF c
<1>13. record'[iri] # Nil <=> After(p) # Nil
  <2>1. CASE OwnWrite(p)
    BY <1>1, <1>2, <1>3, <1>4, <1>6, <1>7, <1>12, <2>1 DEF RecordAfter
  <2>2. CASE ~OwnWrite(p)
    BY <1>1, <1>2, <1>3, <1>4, <1>5, <1>7, <1>12, <2>2 DEF RecordAfter
  <2>3. QED
    BY <2>1, <2>2
<1>14. \A r \in Records : r # iri => (record'[r] # Nil <=> record[r] # Nil)
  BY <1>2, <1>3, <1>4, <1>5, <1>6 DEF RecordAfter
<1>15. QED
  BY <1>1, <1>9, <1>10, <1>11, <1>13, <1>14

\* A step of p's own program: it tells as much as it did, or has told.
LEMMA OwnTells ==
  ASSUME XInv, NEW p \in Handlers, CallStore(p), phase[p] = "run", OneWrite(p), Tells(p)
  PROVE  /\ Tells(p)'
         /\ \A r \in Records : r # req[p].iri =>
              (Says(r, audit'[r]) <=> Says(r, audit[r]))
<1> DEFINE c == Head(queue[p])
<1>1. PICK iri \in Records : iri = req[p].iri
  BY Serving DEF XInv
<1>2. /\ queue[p] # << >> /\ audit' = AuditAfter(c) /\ UNCHANGED <<phase, req>>
  BY StoreStep
<1>3. c \in Call /\ c.iri \in Records /\ (c.do = "publish" => c.op \in Operations)
  BY <1>2, InHand, HeadCall, CallFields DEF XInv
<1>4. audit \in [Records -> Seq(Operations)]
  BY DEF XInv, IInv, TypeOK
<1>5. Pending(p) = {c} \cup Behind(p) /\ IInv'
  <2>1. Next
    BY DEF Next, Step
  <2>2. QED
    BY <1>2, <2>1, QueueParts, Inductive DEF XInv
<1>6. queue'[p] # << >> => CallsOf(queue'[p]) = {Head(queue'[p])} \cup CallsOf(Tail(queue'[p]))
  BY <1>5, FirstAndRest DEF IInv, TypeOK
<1>7. \A d : IsBirth(d) => (d \in CallsOf(queue'[p]) <=> d \in Behind(p))
  <2> HIDE DEF c
  <2>1. CASE CallsOf(queue'[p]) = Behind(p)
    BY <2>1
  <2>2. CASE queue'[p] # << >> /\ Head(queue'[p]).do = "replaceMeta" /\ Tail(queue'[p]) = Tail(queue[p])
    BY <1>6, <2>2 DEF IsBirth, Behind
  <2>3. CASE /\ queue'[p] # << >>
             /\ Head(queue'[p]) = [do |-> "replaceRecord", iri |-> c.iri, try |-> TRUE,
                                   graph |-> WithLink(record[c.iri], c.child, c.add)]
             /\ \E b, e \in Call :
                 /\ b.do = "readMeta" /\ e.do = "publish" /\ e.op = "modify"
                 /\ Tail(queue'[p]) = <<b>> \o Tail(queue[p]) \o <<e>>
                 /\ CallsOf(Tail(queue'[p])) = {b} \cup Behind(p) \cup {e}
    <3>1. Head(queue'[p]).do = "replaceRecord"
      BY <2>3
    <3>2. QED
      BY <1>6, <2>3, <3>1 DEF IsBirth
  <2>4. QED
    BY <2>1, <2>2, <2>3, NextCalls DEF c
<1>8. After(p)' # Nil <=> After(p) # Nil
  BY OwnWriteDone
<1>9. c.do = "publish" => audit'[c.iri] = Append(audit[c.iri], c.op)
  BY <1>2, <1>3, <1>4 DEF AuditAfter
<1>10. \A r \in Records : r # c.iri \/ c.do # "publish" => audit'[r] = audit[r]
  BY <1>2, <1>3, <1>4 DEF AuditAfter
<1> HIDE DEF c
<1>11. \A r \in Records : ~(IsBirth(c) /\ c.iri = r) =>
         (Says(r, audit'[r]) <=> Says(r, audit[r]))
  <2> SUFFICES ASSUME NEW r \in Records, ~(IsBirth(c) /\ c.iri = r)
               PROVE  Says(r, audit'[r]) <=> Says(r, audit[r])
    OBVIOUS
  <2>1. CASE c.do = "publish" /\ c.iri = r
    <3>1. c.op \notin {"create", "delete"} /\ c.op \in Operations /\ audit[r] \in Seq(Operations)
      BY <1>3, <1>4, <2>1 DEF IsBirth
    <3>2. Says(r, Append(audit[r], c.op)) <=> Says(r, audit[r])
      BY <3>1, OneMoreRow
    <3>3. audit'[r] = Append(audit[r], c.op)
      BY <1>9, <2>1
    <3>4. QED
      BY <3>2, <3>3
  <2>2. CASE ~(c.do = "publish" /\ c.iri = r)
    BY <1>10, <2>2
  <2>3. QED
    BY <2>1, <2>2
<1>12. IsBirth(c) => c.iri = iri /\ (c.op = "create" <=> After(p) # Nil)
  BY <1>1, <1>5 DEF Tells
<1>13. \A d \in CallsOf(queue'[p]) : IsBirth(d) => d.iri = iri /\ (d.op = "create" <=> After(p)' # Nil)
  BY <1>1, <1>5, <1>7, <1>8 DEF Tells
<1>14. Told(iri, After(p))' \/ \E d \in CallsOf(queue'[p]) : IsBirth(d)
  <2>1. CASE IsBirth(c)
    <3>1. c.op \in {"create", "delete"} /\ c.op \in Operations /\ audit[iri] \in Seq(Operations)
          /\ audit'[iri] = Append(audit[iri], c.op)
      BY <1>3, <1>4, <1>9, <1>12, <2>1 DEF IsBirth
    <3>2. Says(iri, audit'[iri]) <=> c.op = "create"
      BY <3>1, OneMoreRow
    <3>3. QED
      BY <1>8, <1>12, <2>1, <3>2 DEF Told
  <2>2. CASE ~IsBirth(c)
    <3>1. Told(iri, After(p)) \/ \E d \in Behind(p) : IsBirth(d)
      BY <1>1, <1>5, <2>2 DEF Tells
    <3>2. QED
      BY <1>7, <1>8, <1>11, <2>2, <3>1 DEF Told
  <2>3. QED
    BY <2>1, <2>2
<1>15. Tells(p)'
  BY <1>1, <1>2, <1>13, <1>14 DEF Tells, Pending
<1>16. QED
  BY <1>1, <1>11, <1>12, <1>15

\* A step of a program keeps the invariant.
LEMMA CallTells ==
  ASSUME XInv, AInv, NEW p \in Handlers, CallStore(p)
  PROVE  AInv'
<1>1. queue[p] # << >> /\ UNCHANGED <<phase, req, faults, crashes>>
  BY StoreStep
<1> SUFFICES ASSUME Undisturbed
             PROVE  /\ \A q \in Handlers : phase[q] \notin {"undo", "failed"}
                    /\ \A q \in Handlers : phase[q] = "run" => OneWrite(q)' /\ Tells(q)'
                    /\ \A r \in Records : Running(r) \/ Told(r, record[r])'
  BY <1>1 DEF AInv, Undisturbed, Running
<1>2. phase[p] = "run"
  BY <1>1, InHand DEF AInv
<1>3. OneWrite(p)' /\ Tells(p)'
  BY <1>2, OwnWriteDone, OwnTells DEF AInv
<1>4. \A q \in Handlers \ {p} : phase[q] = "run" => OneWrite(q)' /\ Tells(q)'
  BY OthersTell DEF AInv
<1>5. ASSUME NEW r \in Records, ~Running(r) PROVE Told(r, record[r])'
  <2>1. r # req[p].iri /\ Told(r, record[r])
    BY <1>2, <1>5 DEF Running, AInv
  <2>2. /\ Says(r, audit'[r]) <=> Says(r, audit[r])
        /\ record'[r] # Nil <=> record[r] # Nil
    BY <1>2, <2>1, OwnWriteDone, OwnTells DEF AInv
  <2>3. QED
    BY <2>1, <2>2 DEF Told
<1>6. QED
  BY <1>3, <1>4, <1>5 DEF AInv

\* So does a step that leaves the stores and the programs alone, or ends a program.
LEMMA RestTells ==
  ASSUME XInv, AInv, UNCHANGED <<record, audit, faults, crashes>>,
         \A q \in Handlers :
            \/ UNCHANGED <<phase[q], req[q], queue[q]>>
            \/ phase'[q] \notin {"run", "undo", "failed"} /\ (phase[q] = "run" => queue[q] = << >>)
  PROVE  AInv'
<1> SUFFICES ASSUME Undisturbed
             PROVE  /\ \A q \in Handlers : phase'[q] \notin {"undo", "failed"}
                    /\ \A q \in Handlers : phase'[q] = "run" => OneWrite(q)' /\ Tells(q)'
                    /\ \A r \in Records : Running(r)' \/ Told(r, record[r])
  BY DEF AInv, Undisturbed, Told
<1>1. ASSUME NEW q \in Handlers, phase'[q] = "run" PROVE OneWrite(q)' /\ Tells(q)'
  <2>1. phase[q] = "run" /\ UNCHANGED <<phase[q], req[q], queue[q]>>
    BY <1>1
  <2>2. Pending(q)' = Pending(q) /\ Behind(q)' = Behind(q) /\ After(q)' = After(q)
    BY <2>1 DEF Pending, Behind, After, OwnWrite, HeadIs
  <2>3. OneWrite(q) /\ Tells(q)
    BY <2>1 DEF AInv
  <2>4. QED
    BY <2>1, <2>2, <2>3 DEF OneWrite, Tells, Told, HeadIs
<1>2. ASSUME NEW r \in Records, ~Running(r)' PROVE Told(r, record[r])
  <2>1. CASE ~Running(r)
    BY <2>1 DEF AInv
  <2>2. CASE Running(r)
    <3>1. PICK q \in Handlers : phase[q] = "run" /\ req[q].iri = r
      BY <2>2 DEF Running
    <3>2. queue[q] = << >>
      BY <1>2, <3>1 DEF Running
    <3>3. Pending(q) = {} /\ After(q) = record[r]
      BY <3>1, <3>2, QueueParts DEF XInv, After, OwnWrite, HeadIs
    <3>4. QED
      BY <3>1, <3>3 DEF AInv, Tells
  <2>3. QED
    BY <2>1, <2>2
<1>3. QED
  BY <1>1, <1>2 DEF AInv

\* No two handlers run requests on one record.
LEMMA OneEach ==
  ASSUME XInv, NEW p \in Handlers, NEW q \in Handlers, p # q, InFlight(p), InFlight(q)
  PROVE  req[p].iri # req[q].iri
<1>1. Footprint(p) \cap Footprint(q) = {}
  BY DEF XInv, Apart
<1>2. req[p].iri \in Footprint(p) /\ req[q].iri \in Footprint(q)
  BY NamedIsOwn, OwnInFootprint DEF XInv, InFlight
<1>3. QED
  BY <1>1, <1>2

\* A program that writes p's record in its first call, if at all, and announces as a creation or a
\* deletion what it makes of the record.
Announces(p, calls) ==
  LET c == Head(calls)
      T == CallsOf(Tail(calls))
      g == IF c.do = "replaceRecord" THEN c.graph
           ELSE IF c.do = "dropRecord" THEN Nil ELSE record[req[p].iri] IN
  /\ calls # << >> /\ CallsOf(calls) = {c} \cup T
  /\ c.do # "publish" /\ (c.do \in {"replaceRecord", "dropRecord"} => ~c.try)
  /\ \A d \in T : d.do \notin {"replaceRecord", "dropRecord"}
  /\ \A d \in T : IsBirth(d) => d.iri = req[p].iri /\ (d.op = "create" <=> g # Nil)
  /\ (g # Nil <=> record[req[p].iri] # Nil) \/ \E d \in T : IsBirth(d)

\* A handler that sets out has the announcement of what it will make of its record before it.
LEMMA SetsOutTells ==
  ASSUME XInv, AInv, NEW p \in Handlers, phase[p] \in {"check", "checkMeta"},
         NEW current, NEW calls, NEW comp, Proceed(p, current, calls, comp), Announces(p, calls)
  PROVE  AInv'
<1>0. PICK c, T, g :
        /\ c = Head(calls) /\ T = CallsOf(Tail(calls))
        /\ g = IF c.do = "replaceRecord" THEN c.graph
               ELSE IF c.do = "dropRecord" THEN Nil ELSE record[req[p].iri]
        /\ calls # << >> /\ CallsOf(calls) = {c} \cup T
        /\ c.do # "publish" /\ (c.do \in {"replaceRecord", "dropRecord"} => ~c.try)
        /\ \A d \in T : d.do \notin {"replaceRecord", "dropRecord"}
        /\ \A d \in T : IsBirth(d) => d.iri = req[p].iri /\ (d.op = "create" <=> g # Nil)
        /\ (g # Nil <=> record[req[p].iri] # Nil) \/ \E d \in T : IsBirth(d)
  BY DEF Announces
<1>1. /\ phase'[p] = "run" /\ queue'[p] = calls
      /\ UNCHANGED <<record, audit, req, faults, crashes>>
      /\ \A q \in Handlers \ {p} : phase'[q] = phase[q] /\ queue'[q] = queue[q]
  BY DEF Proceed, store, counters, XInv, IInv, TypeOK
<1> SUFFICES ASSUME Undisturbed
             PROVE  /\ \A q \in Handlers : phase'[q] \notin {"undo", "failed"}
                    /\ \A q \in Handlers : phase'[q] = "run" => OneWrite(q)' /\ Tells(q)'
                    /\ \A r \in Records : Running(r)' \/ Told(r, record[r])
  BY <1>1 DEF AInv, Undisturbed, Told
<1>2. PICK iri \in Records : iri = req[p].iri
  BY Serving DEF XInv
<1>3. Told(iri, record[iri])
  <2>1. \A q \in Handlers : phase[q] = "run" => req[q].iri # iri
    BY <1>2, OneEach DEF InFlight
  <2>2. QED
    BY <2>1 DEF AInv, Running
<1>4. \A q \in Handlers \ {p} : phase'[q] = "run" => OneWrite(q)' /\ Tells(q)'
  <2> SUFFICES ASSUME NEW q \in Handlers \ {p}, phase'[q] = "run" PROVE OneWrite(q)' /\ Tells(q)'
    OBVIOUS
  <2>1. phase[q] = "run" /\ UNCHANGED <<phase[q], req[q], queue[q]>>
    BY <1>1
  <2>2. Pending(q)' = Pending(q) /\ Behind(q)' = Behind(q) /\ After(q)' = After(q)
    BY <1>1, <2>1 DEF Pending, Behind, After, OwnWrite, HeadIs
  <2>3. OneWrite(q) /\ Tells(q)
    BY <2>1 DEF AInv
  <2>4. QED
    BY <1>1, <2>1, <2>2, <2>3 DEF OneWrite, Tells, Told, HeadIs
<1>5. OneWrite(p)'
  BY <1>0, <1>1 DEF OneWrite, Behind, HeadIs
<1>6. After(p)' = g
  BY <1>0, <1>1 DEF After, OwnWrite, HeadIs
<1>7. Pending(p)' = {c} \cup T
  BY <1>0, <1>1 DEF Pending
<1>8. Told(iri, g) \/ \E d \in T : IsBirth(d)
  BY <1>0, <1>2, <1>3 DEF Told
<1>9. Told(iri, g)' <=> Told(iri, g)
  BY <1>1 DEF Told
<1>10. Tells(p)'
  <2>1. Told(req[p].iri, After(p))' <=> Told(iri, g)
    BY <1>1, <1>2, <1>6 DEF Told
  <2>2. \A d \in {c} \cup T : IsBirth(d) => d \in T
    BY <1>0 DEF IsBirth
  <2>3. QED
    BY <1>0, <1>1, <1>2, <1>6, <1>7, <1>8, <2>1, <2>2 DEF Tells
<1>11. \A r \in Records : Running(r)' \/ Told(r, record[r])
  <2> SUFFICES ASSUME NEW r \in Records, ~Running(r)' PROVE Told(r, record[r])
    OBVIOUS
  <2>1. ~Running(r)
    BY <1>1 DEF Running
  <2>2. QED
    BY <2>1 DEF AInv
<1>12. QED
  BY <1>1, <1>4, <1>5, <1>10, <1>11 DEF AInv

-----------------------------------------------------------------------------
(* The programs handlers set out with.                                     *)

\* The link calls of a program: what they are about.
Link(k, child, add) == [do |-> "readParent", iri |-> k, child |-> child, add |-> add, try |-> TRUE]

\* The links a move from the parent o to the parent n asks for.
Relinks(calls, child, o, n) ==
  \A d : d \in calls <=> \/ n # Nil /\ d = Link(n, child, TRUE)
                         \/ o # Nil /\ o # n /\ d = Link(o, child, FALSE)

\* The calls of a reconciliation read the parents that are there.
LEMMA ReconcileCalls ==
  ASSUME NEW child \in Records, NEW o \in Records \cup {Nil}, NEW n \in Records \cup {Nil}
  PROVE  /\ Reconcile(child, o, n) \in Seq(Call)
         /\ Relinks(CallsOf(Reconcile(child, o, n)), child, o, n)
<1>1. ASSUME NEW k \in Records \cup {Nil}, NEW add \in BOOLEAN
      PROVE  /\ Apply(k, child, add) \in Seq(Call)
             /\ CallsOf(Apply(k, child, add)) = IF k = Nil THEN {} ELSE {Link(k, child, add)}
  <2>1. CASE k = Nil
    BY <2>1, FewCalls, EmptySeq DEF Apply
  <2>2. CASE k # Nil
    <3>1. PICK d : d = Link(k, child, add)
      OBVIOUS
    <3>2. d \in Call
      BY <2>2, <3>1 DEF Link, Call
    <3>3. Apply(k, child, add) = <<d>>
      BY <2>2, <3>1 DEF Apply, Link
    <3>4. CallsOf(<<d>>) = {d}
      BY FewCalls
    <3>5. QED
      BY <2>2, <3>1, <3>2, <3>3, <3>4
  <2>3. QED
    BY <2>1, <2>2
<1>2. PICK s : s = Apply(o, child, FALSE)
  OBVIOUS
<1>3. PICK t : t = Apply(n, child, TRUE)
  OBVIOUS
<1>4. /\ s \in Seq(Call) /\ CallsOf(s) = IF o = Nil THEN {} ELSE {Link(o, child, FALSE)}
      /\ t \in Seq(Call) /\ CallsOf(t) = IF n = Nil THEN {} ELSE {Link(n, child, TRUE)}
  BY <1>1, <1>2, <1>3
<1>5. CallsOf(s \o t) = CallsOf(s) \cup CallsOf(t) /\ s \o t \in Seq(Call)
  BY <1>4, CallsTogether, CallsAssociate
<1>6. Reconcile(child, o, n) = IF o = n THEN t ELSE s \o t
  BY <1>2, <1>3 DEF Reconcile
<1>7. QED
  BY <1>4, <1>5, <1>6 DEF Relinks

\* A program that writes a record, or deletes it, maintains links and announces what it did.
Puts(q, iri, graph, state, links, op) ==
  q = PutGraph(iri, graph, state, FALSE) \o links \o Publish(iri, op)
Drops(q, iri, links) == q = DeleteGraph(iri) \o links \o Publish(iri, "delete")

\* Its first call, and its last.
Save(iri, graph) == [do |-> "replaceRecord", iri |-> iri, graph |-> graph, try |-> FALSE]
Erase(iri) == [do |-> "dropRecord", iri |-> iri, try |-> FALSE]
Tell(iri, op) == [do |-> "publish", iri |-> iri, op |-> op, try |-> FALSE]

\* What is behind the first call: the rest of the write, the links, and the announcement.
PutRest(q, iri, links, op) ==
  \E d, e \in Call :
     /\ d.do = "readMeta" /\ e = Tell(iri, op)
     /\ Tail(q) = <<d>> \o links \o <<e>>
     /\ CallsOf(Tail(q)) = {d} \cup CallsOf(links) \cup {e}
DropRest(q, iri, links) ==
  \E b, d, e \in Call :
     /\ b.do = "dropMeta" /\ d.do = "dropAudit" /\ e = Tell(iri, "delete")
     /\ Tail(q) = <<b, d>> \o links \o <<e>>
     /\ CallsOf(Tail(q)) = {b, d} \cup CallsOf(links) \cup {e}

\* The first call of a program that writes a record, and the calls behind it.
LEMMA PutProgram ==
  ASSUME NEW iri \in Records, NEW graph \in Graph, NEW state \in MetadataState,
         NEW links \in Seq(Call), NEW op \in Operations,
         NEW q, Puts(q, iri, graph, state, links, op)
  PROVE  /\ q \in Seq(Call) /\ q # << >>
         /\ Head(q) = Save(iri, graph) /\ PutRest(q, iri, links, op)
<1>1. PICK c : c = [do |-> "replaceRecord", iri |-> iri, graph |-> graph, try |-> FALSE]
  OBVIOUS
<1>2. PICK d : d = [do |-> "readMeta", iri |-> iri, state |-> state, try |-> FALSE]
  OBVIOUS
<1>3. PICK e : e = [do |-> "publish", iri |-> iri, op |-> op, try |-> FALSE]
  OBVIOUS
<1>4. c \in Call /\ d \in Call /\ e \in Call
  BY <1>1, <1>2, <1>3 DEF Call
<1>5. PICK u : u = <<e>>
  OBVIOUS
<1>6. u \in Seq(Call)
  BY <1>4, <1>5
<1>7. CallsOf(u) = {e}
  BY <1>5, FewCalls
<1>8. q = Begins(c, d, links, u)
  BY <1>1, <1>2, <1>3, <1>5 DEF Puts, Begins, PutGraph, Publish
<1>9. /\ q \in Seq(Call) /\ q # << >> /\ Head(q) = c /\ Tail(q) = <<d>> \o links \o u
      /\ CallsOf(Tail(q)) = {d} \cup CallsOf(links) \cup CallsOf(u)
  <2>1. PICK b : b = Begins(c, d, links, u)
    OBVIOUS
  <2>2. /\ b \in Seq(Call) /\ b # << >> /\ Head(b) = c /\ Tail(b) = <<d>> \o links \o u
        /\ CallsOf(Tail(b)) = {d} \cup CallsOf(links) \cup CallsOf(u)
    BY <1>4, <1>6, <2>1, ProgramOfTwo
  <2>3. b = q
    BY <1>8, <2>1
  <2>4. QED
    BY <2>2, <2>3
<1>10. Tail(q) = <<d>> \o links \o <<e>> /\ CallsOf(Tail(q)) = {d} \cup CallsOf(links) \cup {e}
  BY <1>5, <1>7, <1>9
<1>11. d.do = "readMeta"
  BY <1>2
<1>12. QED
  <2>1. c = Save(iri, graph) /\ e = Tell(iri, op)
    BY <1>1, <1>3 DEF Save, Tell
  <2>2. QED
    BY <1>4, <1>9, <1>10, <1>11, <2>1 DEF PutRest

\* The same of one that deletes a record.
LEMMA DeleteProgram ==
  ASSUME NEW iri \in Records, NEW links \in Seq(Call),
         NEW q, Drops(q, iri, links)
  PROVE  /\ q \in Seq(Call) /\ q # << >>
         /\ Head(q) = Erase(iri) /\ DropRest(q, iri, links)
<1>1. PICK a : a = [do |-> "dropRecord", iri |-> iri, try |-> FALSE]
  OBVIOUS
<1>2. PICK b : b = [do |-> "dropMeta", iri |-> iri, try |-> FALSE]
  OBVIOUS
<1>3. PICK d : d = [do |-> "dropAudit", iri |-> iri, try |-> FALSE]
  OBVIOUS
<1>4. PICK e : e = [do |-> "publish", iri |-> iri, op |-> "delete", try |-> FALSE]
  OBVIOUS
<1>5. a \in Call /\ b \in Call /\ d \in Call /\ e \in Call
  BY <1>1, <1>2, <1>3, <1>4 DEF Call, Operations
<1>6. PICK u : u = <<e>>
  OBVIOUS
<1>7. u \in Seq(Call)
  BY <1>5, <1>6
<1>8. CallsOf(u) = {e}
  BY <1>6, FewCalls
<1>9. PICK v : v = Begins(b, d, links, u)
  OBVIOUS
<1>10. v \in Seq(Call) /\ CallsOf(v) = {b, d} \cup CallsOf(links) \cup CallsOf(u)
  <2>1. /\ v \in Seq(Call) /\ v # << >> /\ Head(v) = b /\ Tail(v) = <<d>> \o links \o u
        /\ CallsOf(Tail(v)) = {d} \cup CallsOf(links) \cup CallsOf(u)
    <3>1. b \in Call /\ d \in Call
      BY <1>5
    <3>2. QED
      BY <1>7, <1>9, <3>1, ProgramOfTwo
  <2>2. CallsOf(v) = {b} \cup CallsOf(Tail(v))
    BY <2>1, FirstAndRest
  <2>3. QED
    BY <2>1, <2>2
<1>11. q = <<a>> \o v
  <2>1. PICK x : x = <<a>>
    OBVIOUS
  <2>2. PICK y : y = <<b, d>>
    OBVIOUS
  <2>3. x \in Seq(Call) /\ y \in Seq(Call)
    <3>1. <<a>> \in Seq(Call) /\ <<b, d>> \in Seq(Call)
      BY <1>5
    <3>2. QED
      BY <2>1, <2>2, <3>1
  <2>4. PICK z : z = y \o links
    OBVIOUS
  <2>5. z \in Seq(Call) /\ (x \o y) \o links = x \o z
    BY <2>3, <2>4, CallsAssociate
  <2>6. (x \o z) \o u = x \o (z \o u)
    <3>1. x \in Seq(Call) /\ z \in Seq(Call) /\ u \in Seq(Call)
      BY <1>7, <2>3, <2>5
    <3>2. QED
      BY <3>1, CallsAssociate
  <2>7. x \o y = <<a, b, d>>
    <3>1. <<a, b, d>> = <<a>> \o <<b, d>>
      BY ThreeCalls
    <3>2. QED
      BY <2>1, <2>2, <3>1
  <2>8. q = <<a, b, d>> \o links \o u
    BY <1>1, <1>2, <1>3, <1>4, <1>6 DEF Drops, DeleteGraph, Publish
  <2>9. v = z \o u
    BY <1>9, <2>2, <2>4 DEF Begins
  <2>10. QED
    BY <2>1, <2>5, <2>6, <2>7, <2>8, <2>9
<1>12. /\ q \in Seq(Call) /\ q # << >> /\ Head(q) = a /\ Tail(q) = <<b, d>> \o links \o <<e>>
       /\ CallsOf(Tail(q)) = {b, d} \cup CallsOf(links) \cup {e}
  <2>1. Head(<<a>> \o v) = a /\ Tail(<<a>> \o v) = v /\ <<a>> \o v # << >>
    BY <1>10, ConsParts
  <2>2. <<a>> \o v \in Seq(Call)
    BY <1>5, <1>10, ConcatProperties
  <2>3. v = <<b, d>> \o links \o <<e>>
    BY <1>6, <1>9 DEF Begins
  <2>4. CallsOf(v) = {b, d} \cup CallsOf(links) \cup {e}
    BY <1>8, <1>10
  <2>5. QED
    BY <1>11, <2>1, <2>2, <2>3, <2>4
<1>13. b.do = "dropMeta" /\ d.do = "dropAudit"
  BY <1>2, <1>3
<1>14. QED
  <2>1. a = Erase(iri) /\ e = Tell(iri, "delete")
    BY <1>1, <1>4 DEF Erase, Tell
  <2>2. QED
    BY <1>5, <1>12, <1>13, <2>1 DEF DropRest

\* The same of a transition, which has no links to maintain.
LEMMA StateProgram ==
  ASSUME NEW iri \in Records, NEW state \in MetadataState,
         NEW q, q = << [do |-> "readState", iri |-> iri, state |-> state, try |-> FALSE] >>
                      \o Publish(iri, "state_change")
  PROVE  /\ q \in Seq(Call) /\ q # << >> /\ Head(q).do = "readState"
         /\ \E e \in Call : e.do = "publish" /\ e.op = "state_change" /\ Tail(q) = <<e>> /\ CallsOf(Tail(q)) = {e}
<1>1. PICK c : c = [do |-> "readState", iri |-> iri, state |-> state, try |-> FALSE]
  OBVIOUS
<1>2. PICK e : e = [do |-> "publish", iri |-> iri, op |-> "state_change", try |-> FALSE]
  OBVIOUS
<1>3. c \in Call /\ e \in Call
  BY <1>1, <1>2 DEF Call, Operations
<1>4. q = <<c, e>>
  BY <1>1, <1>2, TwoCalls DEF Publish
<1>5. q \in Seq(Call)
  <2>1. <<c, e>> \in Seq(Call)
    BY <1>3
  <2>2. QED
    BY <1>4, <2>1
<1>6. Head(q) = c /\ Tail(q) = <<e>> /\ q # << >>
  <2>1. Head(<<c, e>>) = c /\ Tail(<<c, e>>) = <<e>> /\ <<c, e>> # << >>
    BY ShortParts
  <2>2. QED
    BY <1>4, <2>1
<1>7. CallsOf(Tail(q)) = {e}
  BY <1>6, FewCalls
<1>8. c.do = "readState" /\ e.do = "publish" /\ e.op = "state_change"
  BY <1>1, <1>2
<1>9. QED
  BY <1>3, <1>5, <1>6, <1>7, <1>8

\* What a PUT, a POST, a PATCH and a DELETE set out with.
LEMMA Programs ==
  ASSUME XInv, NEW p \in Handlers
  PROVE  LET iri == req[p].iri
             current == record[iri] IN
         /\ Put(p) \/ PostCreate(p) =>
              /\ phase[p] \in {"check", "checkMeta"} /\ req[p].method \in {"PUT", "POST"}
              /\ req[p].parent \in Records \cup {Nil}
              /\ \E graph, state, op, comp :
                   /\ graph \in Graph /\ state \in MetadataState /\ op \in Operations
                   /\ graph.parent = req[p].parent
                   /\ graph.members \subseteq IF current = Nil THEN {} ELSE current.members
                   /\ op = IF current = Nil THEN "create" ELSE "modify"
                   /\ Proceed(p, current, PutGraph(iri, graph, state, FALSE)
                                            \o Reconcile(iri, ParentOf(current), req[p].parent)
                                            \o Publish(iri, op), comp)
         /\ Patch(p) =>
              /\ phase[p] = "check" /\ req[p].method = "PATCH" /\ current # Nil
              /\ \E graph, state, comp :
                   /\ graph \in Graph /\ state \in MetadataState
                   /\ req[p].parent = Keep => graph.parent = current.parent
                   /\ graph.members = current.members
                   /\ Proceed(p, current, PutGraph(iri, graph, state, FALSE) \o << >>
                                            \o Publish(iri, "modify"), comp)
         /\ Delete(p) =>
              /\ phase[p] = "check" /\ req[p].method = "DELETE" /\ current # Nil
              /\ \E comp : Proceed(p, current, DeleteGraph(iri) \o Reconcile(iri, ParentOf(current), Nil)
                                                 \o Publish(iri, "delete"), comp)
<1>1. PICK iri : iri = req[p].iri
  OBVIOUS
<1>2. PICK current : current = record[iri]
  OBVIOUS
<1>3. phase[p] # "idle" => iri \in Records /\ current \in Graph \cup {Nil}
  BY <1>1, <1>2, Serving DEF XInv, IInv, TypeOK
<1>4. ParentOf(Nil) = Nil
  BY DEF ParentOf
<1>5. ASSUME Put(p)
      PROVE  /\ phase[p] = "check" /\ req[p].method = "PUT" /\ req[p].parent \in Records \cup {Nil}
             /\ \E graph, state, op, comp :
                  /\ graph \in Graph /\ state \in MetadataState /\ op \in Operations
                  /\ graph.parent = req[p].parent
                  /\ graph.members \subseteq IF current = Nil THEN {} ELSE current.members
                  /\ op = IF current = Nil THEN "create" ELSE "modify"
                  /\ Proceed(p, current, PutGraph(iri, graph, state, FALSE)
                                           \o Reconcile(iri, ParentOf(current), req[p].parent)
                                           \o Publish(iri, op), comp)
  <2>1. /\ phase[p] = "check" /\ req[p].method = "PUT" /\ IfMatchHolds(req[p], current, seen[p])
        /\ Proceed(p, current,
                   PutGraph(iri, BodyGraph(req[p], seen[p]), InitialState(req[p], current), FALSE)
                     \o Reconcile(iri, ParentOf(current), BodyGraph(req[p], seen[p]).parent)
                     \o Publish(iri, IF current = Nil THEN "create" ELSE "modify"),
                   Compensation(iri, current))
    BY <1>1, <1>2, <1>5 DEF Put
  <2>2. /\ req[p].parent \in Records \cup {Nil} /\ req[p].state \in {"DRAFT", "PUBLISHED"}
        /\ BodyGraph(req[p], seen[p]) \in Graph /\ BodyGraph(req[p], seen[p]).parent = req[p].parent
    BY <2>1, Asked DEF XInv
  <2>3. PICK graph \in Graph : graph = BodyGraph(req[p], seen[p])
    BY <2>2
  <2>4. PICK state : state = InitialState(req[p], current)
    OBVIOUS
  <2>5. state \in MetadataState
    BY <2>2, <2>4 DEF InitialState, DefaultState, MetadataState
  <2>6. PICK op \in Operations : op = IF current = Nil THEN "create" ELSE "modify"
    BY DEF Operations
  <2>7. PICK comp : comp = Compensation(iri, current)
    OBVIOUS
  <2>8. graph.members \subseteq IF current = Nil THEN {} ELSE current.members
    <3>1. req[p].pre = "etag" => current = seen[p] /\ seen[p] # Nil
      BY <2>1 DEF IfMatchHolds, XInv, IInv, RegistersMatch
    <3>2. graph.members = IF req[p].pre = "etag" THEN seen[p].members ELSE {}
      BY <2>3 DEF BodyGraph
    <3>3. QED
      BY <3>1, <3>2
  <2>9. Proceed(p, current, PutGraph(iri, graph, state, FALSE)
                              \o Reconcile(iri, ParentOf(current), req[p].parent)
                              \o Publish(iri, op), comp)
    BY <2>1, <2>2, <2>3, <2>4, <2>6, <2>7
  <2>10. graph.parent = req[p].parent
    BY <2>2, <2>3
  <2>11. QED
    BY <2>1, <2>2, <2>5, <2>6, <2>8, <2>9, <2>10
<1>6. ASSUME PostCreate(p)
      PROVE  /\ phase[p] = "checkMeta" /\ req[p].method = "POST" /\ req[p].parent \in Records \cup {Nil}
             /\ \E graph, state, op, comp :
                  /\ graph \in Graph /\ state \in MetadataState /\ op \in Operations
                  /\ graph.parent = req[p].parent
                  /\ graph.members \subseteq IF current = Nil THEN {} ELSE current.members
                  /\ op = IF current = Nil THEN "create" ELSE "modify"
                  /\ Proceed(p, current, PutGraph(iri, graph, state, FALSE)
                                           \o Reconcile(iri, ParentOf(current), req[p].parent)
                                           \o Publish(iri, op), comp)
  <2>1. /\ phase[p] = "checkMeta"
        /\ Proceed(p, Nil,
                   PutGraph(iri, BodyGraph(req[p], Nil), InitialState(req[p], Nil), FALSE)
                     \o Reconcile(iri, Nil, BodyGraph(req[p], Nil).parent) \o Publish(iri, "create"),
                   Compensation(iri, Nil))
    BY <1>1, <1>6 DEF PostCreate
  <2>2. req[p].method = "POST" /\ current = Nil
    BY <1>1, <1>2, <2>1 DEF XInv, IInv, RegistersMatch, Tidy
  <2>3. /\ req[p].parent \in Records \cup {Nil} /\ req[p].state \in {"DRAFT", "PUBLISHED"}
        /\ BodyGraph(req[p], Nil) \in Graph /\ BodyGraph(req[p], Nil).parent = req[p].parent
    BY <2>1, <2>2, Asked DEF XInv
  <2>4. req[p].pre = "none"
    BY <2>1, <2>2, Serving, LdpAssumption DEF XInv
  <2>5. PICK graph \in Graph : graph = BodyGraph(req[p], Nil)
    BY <2>3
  <2>6. PICK state : state = InitialState(req[p], Nil)
    OBVIOUS
  <2>7. state \in MetadataState
    BY <2>3, <2>6 DEF InitialState, MetadataState
  <2>8. PICK op \in Operations : op = "create"
    BY DEF Operations
  <2>9. PICK comp : comp = Compensation(iri, Nil)
    OBVIOUS
  <2>10. graph.members = {} /\ graph.parent = req[p].parent
    BY <2>3, <2>4, <2>5 DEF BodyGraph
  <2>11. Proceed(p, current, PutGraph(iri, graph, state, FALSE)
                               \o Reconcile(iri, ParentOf(current), req[p].parent)
                               \o Publish(iri, op), comp)
    BY <1>4, <2>1, <2>2, <2>3, <2>5, <2>6, <2>8, <2>9
  <2>12. QED
    BY <2>1, <2>2, <2>3, <2>7, <2>8, <2>10, <2>11
<1>7. ASSUME Patch(p)
      PROVE  /\ phase[p] = "check" /\ req[p].method = "PATCH" /\ current # Nil
             /\ \E graph, state, comp :
                  /\ graph \in Graph /\ state \in MetadataState
                  /\ req[p].parent = Keep => graph.parent = current.parent
                  /\ graph.members = current.members
                  /\ Proceed(p, current, PutGraph(iri, graph, state, FALSE) \o << >>
                                           \o Publish(iri, "modify"), comp)
  <2>1. /\ phase[p] = "check" /\ req[p].method = "PATCH" /\ current # Nil
        /\ Proceed(p, current,
                   PutGraph(iri, PatchedGraph(req[p], current), DefaultState, FALSE)
                     \o Publish(iri, "modify"), << >>)
    BY <1>1, <1>2, <1>7 DEF Patch
  <2>2. current \in Graph /\ req[p].body \in Bodies /\ req[p].parent \in Records \cup {Nil, Keep}
    BY <1>3, <2>1, Serving DEF XInv
  <2>3. PICK graph : graph = PatchedGraph(req[p], current)
    OBVIOUS
  <2>4. /\ graph \in Graph /\ graph.members = current.members
        /\ req[p].parent = Keep => graph.parent = current.parent
    BY <2>2, <2>3 DEF PatchedGraph, Graph
  <2>5. PutGraph(iri, graph, DefaultState, FALSE) \o << >> = PutGraph(iri, graph, DefaultState, FALSE)
    <3>1. PICK S : S = {[do |-> "replaceRecord", iri |-> iri, graph |-> graph, try |-> FALSE],
                        [do |-> "readMeta", iri |-> iri, state |-> DefaultState, try |-> FALSE]}
      OBVIOUS
    <3>2. PutGraph(iri, graph, DefaultState, FALSE) \in Seq(S)
      BY <3>1 DEF PutGraph
    <3>3. QED
      BY <3>2, ConcatEmptySeq
  <2>6. PICK comp : comp = << >>
    OBVIOUS
  <2>7. PICK state \in MetadataState : state = DefaultState
    BY DEF DefaultState, MetadataState
  <2>8. Proceed(p, current, PutGraph(iri, graph, state, FALSE) \o << >> \o Publish(iri, "modify"), comp)
    BY <2>1, <2>3, <2>5, <2>6, <2>7
  <2>9. QED
    BY <2>1, <2>4, <2>8
<1>8. ASSUME Delete(p)
      PROVE  /\ phase[p] = "check" /\ req[p].method = "DELETE" /\ current # Nil
             /\ \E comp : Proceed(p, current, DeleteGraph(iri) \o Reconcile(iri, ParentOf(current), Nil)
                                                \o Publish(iri, "delete"), comp)
  <2>1. /\ phase[p] = "check" /\ req[p].method = "DELETE" /\ current # Nil
        /\ Proceed(p, current,
                   DeleteGraph(iri) \o Reconcile(iri, current.parent, Nil) \o Publish(iri, "delete"),
                   Compensation(iri, current))
    BY <1>1, <1>2, <1>8 DEF Delete
  <2>2. ParentOf(current) = current.parent
    BY <2>1 DEF ParentOf
  <2>3. QED
    BY <2>1, <2>2
<1>9. QED
  BY <1>1, <1>2, <1>5, <1>6, <1>7, <1>8

\* PUT, POST, PATCH, DELETE and a transition announce what they make of their records.
LEMMA AdmitTells ==
  ASSUME XInv, AInv, NEW p \in Handlers,
         Put(p) \/ PostCreate(p) \/ Patch(p) \/ Delete(p) \/ Transition(p)
  PROVE  AInv'
<1>1. PICK iri : iri = req[p].iri
  OBVIOUS
<1>2. PICK current : current = record[iri]
  OBVIOUS
<1>3. phase[p] \in {"check", "checkMeta"}
  BY DEF Put, PostCreate, Patch, Delete, Transition
<1>4. /\ iri \in Records /\ current \in Graph \cup {Nil} /\ Nil \notin Graph
      /\ req[p].state \in MetadataState
  BY <1>1, <1>2, <1>3, Serving, LdpAssumption DEF XInv, IInv, TypeOK
<1>5. \A x \in Graph \cup {Nil} : ParentOf(x) \in Records \cup {Nil}
  BY GraphTypes
(* A program that writes the record and maintains links. *)
<1>6. ASSUME NEW graph \in Graph, NEW state \in MetadataState, NEW op \in Operations \ {"delete"},
             NEW links \in Seq(Call), \A d \in CallsOf(links) : d.do = "readParent",
             NEW comp, NEW q, q = PutGraph(iri, graph, state, FALSE) \o links \o Publish(iri, op),
             Proceed(p, current, q, comp), current = Nil => op = "create", op = "create" => current = Nil
      PROVE  AInv'
  <2>1. /\ q \in Seq(Call) /\ q # << >>
        /\ Head(q) = Save(iri, graph) /\ PutRest(q, iri, links, op)
    <3>1. op \in Operations /\ links \in Seq(Call)
      BY <1>6
    <3>2. Puts(q, iri, graph, state, links, op)
      BY <1>6 DEF Puts
    <3>3. QED
      BY <1>4, <3>1, <3>2, PutProgram
  <2>2. PICK d, e : /\ d.do = "readMeta" /\ e.do = "publish" /\ e.iri = iri /\ e.op = op
                    /\ CallsOf(Tail(q)) = {d} \cup CallsOf(links) \cup {e}
    BY <2>1 DEF Tell, PutRest
  <2>3. CallsOf(q) = {Head(q)} \cup CallsOf(Tail(q))
    BY <2>1, FirstAndRest
  <2>4. Head(q).do = "replaceRecord" /\ Head(q).graph = graph /\ ~Head(q).try /\ graph # Nil
    BY <1>4, <2>1 DEF Save
  <2>5. /\ \A x \in CallsOf(Tail(q)) : x.do \notin {"replaceRecord", "dropRecord"}
        /\ \A x \in CallsOf(Tail(q)) : IsBirth(x) => x.iri = iri /\ x.op = "create"
    BY <1>6, <2>2 DEF IsBirth
  <2>6. current # Nil \/ \E x \in CallsOf(Tail(q)) : IsBirth(x)
    BY <1>6, <2>2 DEF IsBirth
  <2>7. Announces(p, q)
    BY <1>1, <1>2, <2>1, <2>3, <2>4, <2>5, <2>6 DEF Announces
  <2>8. QED
    BY <1>3, <1>6, <2>7, SetsOutTells
<1>7. ASSUME NEW o \in Records \cup {Nil}, NEW n \in Records \cup {Nil}
      PROVE  Reconcile(iri, o, n) \in Seq(Call) /\ \A d \in CallsOf(Reconcile(iri, o, n)) : d.do = "readParent"
  <2>1. Reconcile(iri, o, n) \in Seq(Call) /\ Relinks(CallsOf(Reconcile(iri, o, n)), iri, o, n)
    BY <1>4, ReconcileCalls
  <2>2. Link(n, iri, TRUE).do = "readParent" /\ Link(o, iri, FALSE).do = "readParent"
    BY DEF Link
  <2>3. ASSUME NEW d \in CallsOf(Reconcile(iri, o, n)) PROVE d.do = "readParent"
    <3>1. d = Link(n, iri, TRUE) \/ d = Link(o, iri, FALSE)
      BY <2>1, <2>3 DEF Relinks
    <3>2. QED
      BY <2>2, <3>1
  <2>4. QED
    BY <2>1, <2>3
<1>8. CASE Put(p) \/ PostCreate(p)
  <2>1. PICK graph, state, op, comp :
          /\ graph \in Graph /\ state \in MetadataState /\ op \in Operations
          /\ op = IF current = Nil THEN "create" ELSE "modify"
          /\ Proceed(p, current, PutGraph(iri, graph, state, FALSE)
                                   \o Reconcile(iri, ParentOf(current), req[p].parent)
                                   \o Publish(iri, op), comp)
    BY <1>1, <1>2, <1>8, Programs
  <2>2. req[p].parent \in Records \cup {Nil}
    BY <1>8, Programs
  <2>3. PICK links : links = Reconcile(iri, ParentOf(current), req[p].parent)
    OBVIOUS
  <2>4. links \in Seq(Call) /\ \A d \in CallsOf(links) : d.do = "readParent"
    BY <1>4, <1>5, <1>7, <2>2, <2>3
  <2>5. PICK q : q = PutGraph(iri, graph, state, FALSE) \o links \o Publish(iri, op)
    OBVIOUS
  <2>6. Proceed(p, current, q, comp)
    BY <2>1, <2>3, <2>5
  <2>7. op \in Operations \ {"delete"} /\ (current = Nil => op = "create") /\ (op = "create" => current = Nil)
    BY <2>1
  <2>8. QED
    BY <1>6, <2>1, <2>4, <2>5, <2>6, <2>7
<1>9. CASE Patch(p)
  <2>1. current # Nil
    BY <1>1, <1>2, <1>9, Programs
  <2>2. PICK graph, state, comp :
          /\ graph \in Graph /\ state \in MetadataState
          /\ Proceed(p, current, PutGraph(iri, graph, state, FALSE) \o << >> \o Publish(iri, "modify"), comp)
    BY <1>1, <1>2, <1>9, Programs
  <2>3. PICK links : links = << >>
    OBVIOUS
  <2>4. links \in Seq(Call) /\ \A d \in CallsOf(links) : d.do = "readParent"
    BY <2>3, FewCalls, EmptySeq
  <2>5. PICK q : q = PutGraph(iri, graph, state, FALSE) \o links \o Publish(iri, "modify")
    OBVIOUS
  <2>6. Proceed(p, current, q, comp)
    BY <2>2, <2>3, <2>5
  <2>7. "modify" \in Operations \ {"delete"}
    BY DEF Operations
  <2>8. QED
    BY <1>6, <2>1, <2>2, <2>4, <2>5, <2>6, <2>7
<1>10. CASE Delete(p)
  <2>1. current # Nil
    BY <1>1, <1>2, <1>10, Programs
  <2>2. PICK comp : Proceed(p, current, DeleteGraph(iri) \o Reconcile(iri, ParentOf(current), Nil)
                                          \o Publish(iri, "delete"), comp)
    BY <1>1, <1>2, <1>10, Programs
  <2>3. PICK links : links = Reconcile(iri, ParentOf(current), Nil)
    OBVIOUS
  <2>4. links \in Seq(Call) /\ \A d \in CallsOf(links) : d.do = "readParent"
    BY <1>4, <1>5, <1>7, <2>3
  <2>5. PICK q : q = DeleteGraph(iri) \o links \o Publish(iri, "delete")
    OBVIOUS
  <2>6. Proceed(p, current, q, comp)
    BY <2>2, <2>3, <2>5
  <2>7. /\ q \in Seq(Call) /\ q # << >> /\ Head(q).do = "dropRecord" /\ ~Head(q).try
        /\ DropRest(q, iri, links)
    <3>1. Drops(q, iri, links)
      BY <2>5 DEF Drops
    <3>2. q \in Seq(Call) /\ q # << >> /\ Head(q) = Erase(iri) /\ DropRest(q, iri, links)
      BY <1>4, <2>4, <3>1, DeleteProgram
    <3>3. QED
      BY <3>2 DEF Erase
  <2>8. PICK b, d, e : /\ b.do = "dropMeta" /\ d.do = "dropAudit"
                       /\ e.do = "publish" /\ e.iri = iri /\ e.op = "delete"
                       /\ CallsOf(Tail(q)) = {b, d} \cup CallsOf(links) \cup {e}
    BY <2>7 DEF Tell, DropRest
  <2>9. CallsOf(q) = {Head(q)} \cup CallsOf(Tail(q))
    BY <2>7, FirstAndRest
  <2>10. /\ \A x \in CallsOf(Tail(q)) : x.do \notin {"replaceRecord", "dropRecord"}
         /\ \A x \in CallsOf(Tail(q)) : IsBirth(x) => x.iri = iri /\ x.op # "create"
         /\ \E x \in CallsOf(Tail(q)) : IsBirth(x)
    BY <2>4, <2>8 DEF IsBirth
  <2>11. Announces(p, q)
    BY <1>1, <2>7, <2>9, <2>10 DEF Announces
  <2>12. QED
    BY <1>3, <2>6, <2>11, SetsOutTells
<1>11. CASE Transition(p)
  <2>1. PICK comp : comp = << >>
    OBVIOUS
  <2>2. PICK q : q = << [do |-> "readState", iri |-> iri, state |-> req[p].state, try |-> FALSE] >>
                       \o Publish(iri, "state_change")
    OBVIOUS
  <2>3. Proceed(p, Nil, q, comp)
    BY <1>1, <1>11, <2>1, <2>2 DEF Transition
  <2>4. /\ q \in Seq(Call) /\ q # << >> /\ Head(q).do = "readState"
        /\ \E e \in Call : e.do = "publish" /\ e.op = "state_change" /\ CallsOf(Tail(q)) = {e}
    BY <1>4, <2>2, StateProgram
  <2>5. CallsOf(q) = {Head(q)} \cup CallsOf(Tail(q))
    BY <2>4, FirstAndRest
  <2>6. \A x \in CallsOf(Tail(q)) : x.do = "publish" /\ ~IsBirth(x)
    BY <2>4 DEF IsBirth
  <2>7. Announces(p, q)
    BY <2>4, <2>5, <2>6 DEF Announces
  <2>8. QED
    BY <1>3, <2>3, <2>7, SetsOutTells
<1>12. QED
  BY <1>8, <1>9, <1>10, <1>11

\* Before anything is asked for, the rows say what the profile left.
LEMMA FirstTells == Init => AInv
<1> SUFFICES ASSUME Init PROVE AInv
  OBVIOUS
<1>1. /\ \A p \in Handlers : phase[p] = "idle"
      /\ record = Seed /\ \A r \in Records : audit[r] = << >>
  BY DEF Init
<1>2. DOMAIN << >> = {}
  OBVIOUS
<1>3. ASSUME NEW r \in Records PROVE Told(r, record[r])
  BY <1>1, <1>2 DEF Told, Says, Replayed
<1>4. QED
  BY <1>1, <1>3 DEF AInv

\* Every step keeps the invariant, when clients do not overlap requests on one record.
LEMMA StepTells ==
  ASSUME Exclusive, XInv, AInv, [Next]_vars
  PROVE  AInv'
<1>1. ASSUME NEW p \in Handlers, ClientReads(p) \/ Receive(p) \/ PostCheckRecord(p)
      PROVE  AInv'
  <2>1. /\ UNCHANGED <<record, audit, faults, crashes>>
        /\ \A q \in Handlers \ {p} : UNCHANGED <<phase[q], req[q], queue[q]>>
        /\ phase'[p] \notin {"run", "undo", "failed"} /\ phase[p] # "run"
    BY <1>1 DEF ClientReads, Receive, PostCheckRecord, store, counters, XInv, IInv, TypeOK
  <2>2. QED
    BY <2>1, RestTells
<1>2. ASSUME NEW p \in Handlers, Refuse(p) \/ Respond(p)
      PROVE  AInv'
  <2>1. /\ UNCHANGED <<record, audit, faults, crashes>>
        /\ \A q \in Handlers \ {p} : UNCHANGED <<phase[q], req[q], queue[q]>>
        /\ phase'[p] \notin {"run", "undo", "failed"} /\ (phase[p] = "run" => queue[p] = << >>)
    BY <1>2 DEF Refuse, Respond, Release, store, counters, XInv, IInv, TypeOK
  <2>2. QED
    BY <2>1, RestTells
<1>3. ASSUME NEW p \in Handlers, Raise(p) \/ LoseAuditRow(p)
      PROVE  AInv'
  <2>1. faults' = faults + 1 /\ faults \in Nat
    BY <1>3 DEF Raise, LoseAuditRow, XInv, IInv, TypeOK
  <2>2. QED
    BY <2>1 DEF AInv, Undisturbed
<1>4. CASE Crash
  <2>1. crashes' = crashes + 1 /\ crashes \in Nat
    BY <1>4 DEF Crash, XInv, IInv, TypeOK
  <2>2. QED
    BY <2>1 DEF AInv, Undisturbed
<1>5. CASE UNCHANGED vars
  <2>1. UNCHANGED <<record, audit, faults, crashes, phase, req, queue>>
    BY <1>5 DEF vars, store, handler, counters
  <2>2. QED
    BY <2>1, RestTells
<1>6. QED
  BY <1>1, <1>2, <1>3, <1>4, <1>5, AdmitTells, CallTells DEF Next, Step, Admit

\* While nothing has failed and no request is at work on it, a record exists exactly when
\* replaying its creation and deletion rows says so.
THEOREM AuditAlwaysReplays ==
  ASSUME Exclusive
  PROVE  Spec => []AuditReplays
<1>1. XInv /\ AInv /\ [Next]_vars => AInv'
  BY StepTells
<1>2. XInv /\ AInv => AuditReplays
  <2> SUFFICES ASSUME XInv, AInv, Undisturbed, NEW r \in Records, Quiet(r)
               PROVE  (record[r] # Nil) = Replayed(audit[r], Seed[r] # Nil)
    BY DEF AuditReplays
  <2>1. ~Running(r)
    <3>1. \A p \in Handlers : phase[p] = "run" => req[p].iri \in Footprint(p) /\ InFlight(p)
      BY NamedIsOwn, OwnInFootprint DEF XInv, InFlight
    <3>2. QED
      BY <3>1 DEF Running, Quiet
  <2>2. Told(r, record[r])
    BY <2>1 DEF AInv
  <2>3. QED
    BY <2>2 DEF Told, Says, Replayed
<1>3. Spec => []XInv
  BY HandlersUndisturbed
<1>4. QED
  BY <1>1, <1>2, <1>3, FirstTells, PTL DEF Spec

-----------------------------------------------------------------------------
(* The links of both directions.                                           *)

\* The record k holds the link to c.
Linked(k, c) == record[k] # Nil /\ c \in record[k].members

\* The parent p's record names, once p has written it.
Home(p) == ParentOf(After(p))

\* A call that will give the record k the link to c, or take it away.
Adds(d, k, c) ==
  /\ d.iri = k
  /\ \/ d.do = "readParent" /\ d.child = c /\ d.add
     \/ d.do = "replaceRecord" /\ d.try /\ c \in d.graph.members
Removes(d, k, c) ==
  /\ d.iri = k
  /\ \/ d.do = "readParent" /\ d.child = c /\ ~d.add
     \/ d.do = "replaceRecord" /\ d.try /\ c \notin d.graph.members

\* A call about links is about those to p's record: the parent it names has or gets one, others
\* lose theirs, and that is all a parent's graph changes.
FitLink(p, d) ==
  /\ d.do = "readParent" => d.child = req[p].iri /\ (d.add <=> d.iri = Home(p))
  /\ d.do = "replaceRecord" /\ d.try =>
       /\ d.graph.parent = record[d.iri].parent
       /\ \A x \in d.graph.members : x = req[p].iri \/ x \in record[d.iri].members
       /\ req[p].iri \in d.graph.members <=> d.iri = Home(p)

\* Announcements come last.
SavesFirst(q) == \A i, j \in DOMAIN q : i < j /\ q[i].do = "publish" => q[j].do = "publish"

\* What p has left will leave the link to its record where it should be, and nowhere else.
Links(p) ==
  LET c == req[p].iri IN
  /\ SavesFirst(queue[p])
  /\ req[p].method \in {"PUT", "POST"} => Home(p) = req[p].parent
  /\ OwnWrite(p) /\ After(p) # Nil => \A x \in After(p).members : Linked(c, x)
  /\ \A d \in Pending(p) : FitLink(p, d)
  /\ \A k \in Records : Linked(k, c) /\ k # Home(p) => \E d \in Pending(p) : Removes(d, k, c)
  /\ \A k \in Records :
       /\ req[p].method \in {"PUT", "POST"} /\ k = Home(p)
       /\ OwnWrite(p) \/ (record[k] # Nil /\ ~Linked(k, c))
       => \E d \in Pending(p) : Adds(d, k, c)

\* While nothing has failed, handlers keep the links of their records, and the
\* links to the other records lead where those say they belong.
KInv ==
  Undisturbed =>
    /\ \A p \in Handlers : phase[p] = "run" => Links(p)
    /\ \A k, c \in Records : Linked(k, c) => Running(c) \/ ParentOf(record[c]) = k

\* A program without announcements, or none but at its end, saves first.
LEMMA SavesPlain ==
  ASSUME NEW s \in Seq(Call), \A d \in CallsOf(s) : d.do # "publish"
  PROVE  SavesFirst(s) /\ \A e \in Call : e.do = "publish" => SavesFirst(s \o <<e>>)
<1>1. \A i \in DOMAIN s : s[i].do # "publish"
  BY DEF CallsOf
<1>2. SavesFirst(s)
  BY <1>1 DEF SavesFirst
<1>3. ASSUME NEW e \in Call, e.do = "publish" PROVE SavesFirst(s \o <<e>>)
  <2>1. PICK u : u = <<e>>
    OBVIOUS
  <2>2. u \in Seq(Call) /\ Len(u) = 1
    BY <2>1
  <2>3. PICK v : v = s \o u
    OBVIOUS
  <2>4. v \in Seq(Call) /\ Len(v) = Len(s) + 1 /\ \A i \in 1 .. Len(s) : v[i] = s[i]
    <3>1. /\ v \in Seq(Call) /\ Len(v) = Len(s) + Len(u)
          /\ \A i \in 1 .. Len(s) + Len(u) : v[i] = IF i <= Len(s) THEN s[i] ELSE u[i - Len(s)]
      BY <2>2, <2>3, ConcatProperties
    <3>2. Len(s) \in Nat
      BY LenProperties
    <3>3. QED
      BY <2>2, <3>1, <3>2
  <2>5. v[Len(s) + 1] = e
    <3>1. Len(s) + 1 \in 1 .. Len(s) + Len(u) /\ ~(Len(s) + 1 <= Len(s)) /\ Len(s) + 1 - Len(s) = 1
      BY <2>2, LenProperties
    <3>2. \A i \in 1 .. Len(s) + Len(u) : v[i] = IF i <= Len(s) THEN s[i] ELSE u[i - Len(s)]
      BY <2>2, <2>3, ConcatProperties
    <3>3. v[Len(s) + 1] = u[1]
      BY <3>1, <3>2
    <3>4. QED
      BY <2>1, <3>3
  <2>6. DOMAIN v = 1 .. Len(s) + 1 /\ DOMAIN s = 1 .. Len(s) /\ Len(s) \in Nat
    BY <2>4, LenProperties
  <2>7. \A i, j \in DOMAIN v : i < j /\ v[i].do = "publish" => v[j].do = "publish"
    BY <1>1, <1>3, <2>4, <2>5, <2>6
  <2>8. QED
    BY <2>1, <2>3, <2>7 DEF SavesFirst
<1>4. QED
  BY <1>2, <1>3

\* A call that announces nothing may come before, an announcement behind.
LEMMA SavesBehind ==
  ASSUME NEW s \in Seq(Call), SavesFirst(s), NEW e \in Call, e.do = "publish"
  PROVE  SavesFirst(s \o <<e>>)
<1>1. PICK u : u = <<e>>
  OBVIOUS
<1>2. u \in Seq(Call) /\ Len(u) = 1
  BY <1>1
<1>3. PICK v : v = s \o u
  OBVIOUS
<1>4. v \in Seq(Call) /\ Len(v) = Len(s) + 1 /\ \A i \in 1 .. Len(s) : v[i] = s[i]
  <2>1. /\ v \in Seq(Call) /\ Len(v) = Len(s) + Len(u)
        /\ \A i \in 1 .. Len(s) + Len(u) : v[i] = IF i <= Len(s) THEN s[i] ELSE u[i - Len(s)]
    BY <1>2, <1>3, ConcatProperties
  <2>2. Len(s) \in Nat
    BY LenProperties
  <2>3. QED
    BY <1>2, <2>1, <2>2
<1>5. v[Len(s) + 1] = e
  <2>1. Len(s) + 1 \in 1 .. Len(s) + Len(u) /\ ~(Len(s) + 1 <= Len(s)) /\ Len(s) + 1 - Len(s) = 1
    BY <1>2, LenProperties
  <2>2. \A i \in 1 .. Len(s) + Len(u) : v[i] = IF i <= Len(s) THEN s[i] ELSE u[i - Len(s)]
    BY <1>2, <1>3, ConcatProperties
  <2>3. v[Len(s) + 1] = u[1]
    BY <2>1, <2>2
  <2>4. QED
    BY <1>1, <2>3
<1>6. DOMAIN v = 1 .. Len(s) + 1 /\ DOMAIN s = 1 .. Len(s) /\ Len(s) \in Nat
  BY <1>4, LenProperties
<1>7. ASSUME NEW i \in DOMAIN v, NEW j \in DOMAIN v, i < j, v[i].do = "publish"
      PROVE  v[j].do = "publish"
  <2>1. CASE j = Len(s) + 1
    BY <1>5, <2>1
  <2>2. CASE j # Len(s) + 1
    <3>1. i \in DOMAIN s /\ j \in DOMAIN s /\ v[i] = s[i] /\ v[j] = s[j]
      BY <1>4, <1>6, <1>7, <2>2
    <3>2. QED
      BY <1>7, <3>1 DEF SavesFirst
  <2>3. QED
    BY <2>1, <2>2
<1>8. QED
  BY <1>1, <1>3, <1>7 DEF SavesFirst

\* A call that announces nothing may come before a program that saves first.
LEMMA SavesAhead ==
  ASSUME NEW q \in Seq(Call), q # << >>, Head(q).do # "publish", SavesFirst(Tail(q))
  PROVE  SavesFirst(q)
<1>1. /\ Tail(q) \in Seq(Call) /\ Len(Tail(q)) = Len(q) - 1 /\ Len(q) \in Nat /\ Len(q) # 0
      /\ \A i \in 1 .. Len(Tail(q)) : Tail(q)[i] = q[i + 1]
      /\ DOMAIN q = 1 .. Len(q) /\ Head(q) = q[1]
  BY HeadTailProperties, LenProperties, EmptySeq
<1>2. PICK t : t = Tail(q)
  OBVIOUS
<1>3. DOMAIN t = 1 .. Len(q) - 1 /\ \A i \in 1 .. Len(q) - 1 : t[i] = q[i + 1]
  BY <1>1, <1>2, LenProperties
<1>4. ASSUME NEW i \in DOMAIN q, NEW j \in DOMAIN q, i < j, q[i].do = "publish"
      PROVE  q[j].do = "publish"
  <2>1. i # 1
    BY <1>1, <1>4
  <2>2. i - 1 \in 1 .. Len(q) - 1 /\ j - 1 \in 1 .. Len(q) - 1 /\ i - 1 < j - 1 /\ i - 1 + 1 = i /\ j - 1 + 1 = j
    BY <1>1, <1>4, <2>1
  <2>3. t[i - 1] = q[i] /\ t[j - 1] = q[j] /\ i - 1 \in DOMAIN t /\ j - 1 \in DOMAIN t
    BY <1>3, <2>2
  <2>4. SavesFirst(t)
    BY <1>2
  <2>5. t[i - 1].do = "publish" => t[j - 1].do = "publish"
    BY <2>2, <2>3, <2>4 DEF SavesFirst
  <2>6. QED
    BY <1>4, <2>3, <2>5
<1>5. QED
  BY <1>4 DEF SavesFirst

\* The calls behind save first; behind an announcement there are but announcements.
LEMMA SavesRest ==
  ASSUME NEW q \in Seq(Call), q # << >>, SavesFirst(q)
  PROVE  /\ SavesFirst(Tail(q))
         /\ Head(q).do = "publish" => \A d \in CallsOf(Tail(q)) : d.do = "publish"
<1>1. /\ Tail(q) \in Seq(Call) /\ Len(Tail(q)) = Len(q) - 1 /\ Len(q) \in Nat /\ Len(q) # 0
      /\ \A i \in 1 .. Len(Tail(q)) : Tail(q)[i] = q[i + 1]
      /\ DOMAIN q = 1 .. Len(q) /\ Head(q) = q[1]
  BY HeadTailProperties, LenProperties, EmptySeq
<1>2. PICK t : t = Tail(q)
  OBVIOUS
<1>3. DOMAIN t = 1 .. Len(q) - 1 /\ \A i \in 1 .. Len(q) - 1 : t[i] = q[i + 1]
  BY <1>1, <1>2, LenProperties
<1>4. ASSUME NEW i \in DOMAIN t, NEW j \in DOMAIN t, i < j, t[i].do = "publish"
      PROVE  t[j].do = "publish"
  <2>1. i + 1 \in DOMAIN q /\ j + 1 \in DOMAIN q /\ i + 1 < j + 1
    BY <1>1, <1>3, <1>4
  <2>2. t[i] = q[i + 1] /\ t[j] = q[j + 1]
    BY <1>3
  <2>3. q[i + 1].do = "publish" => q[j + 1].do = "publish"
    BY <2>1 DEF SavesFirst
  <2>4. QED
    BY <1>4, <2>2, <2>3
<1>5. ASSUME NEW j \in DOMAIN t, q[1].do = "publish"
      PROVE  t[j].do = "publish"
  <2>1. 1 \in DOMAIN q /\ j + 1 \in DOMAIN q /\ 1 < j + 1
    BY <1>1, <1>3, <1>5
  <2>2. q[j + 1].do = "publish"
    BY <1>5, <2>1 DEF SavesFirst
  <2>3. QED
    BY <1>3, <2>2
<1>6. SavesFirst(t)
  BY <1>4 DEF SavesFirst
<1>7. Head(q).do = "publish" => \A d \in CallsOf(t) : d.do = "publish"
  BY <1>1, <1>5 DEF CallsOf
<1>8. QED
  BY <1>2, <1>6, <1>7

\* p is about to find that a parent's graph has to change.
ReadsLink(p) ==
  /\ Head(queue[p]).do = "readParent"
  /\ LinkChanges(record[Head(queue[p]).iri], Head(queue[p]).child, Head(queue[p]).add)

\* What is left to do after a call, as a set, and that announcements stay last.
LEMMA PendingAfter ==
  ASSUME XInv, NEW p \in Handlers, CallStore(p)
  PROVE  LET c == Head(queue[p])
             w == Head(queue'[p]) IN
         /\ Behind(p) \subseteq Pending(p)'
         /\ ~ReadsLink(p) => \A d \in Pending(p)' : d \in Behind(p) \/ d.do = "replaceMeta"
         /\ ReadsLink(p) =>
              /\ w \in Pending(p)' /\ w.do = "replaceRecord" /\ w.try /\ w.iri = c.iri
              /\ w.graph = WithLink(record[c.iri], c.child, c.add)
              /\ \A d \in Pending(p)' : d \in Behind(p) \/ d = w \/ d.do \in {"readMeta", "publish"}
         /\ SavesFirst(queue[p]) => SavesFirst(queue'[p])
<1> DEFINE c == Head(queue[p])
<1>1. PICK t : t = Tail(queue[p])
  OBVIOUS
<1>2. PICK q : q = queue'[p]
  OBVIOUS
<1>3. queue[p] # << >> /\ queue[p] \in Seq(Call) /\ t \in Seq(Call)
  BY <1>1, StoreStep, QueueParts DEF XInv
<1>4. q \in Seq(Call)
  <2>1. Next
    BY DEF Next, Step
  <2>2. IInv'
    BY <2>1, Inductive DEF XInv
  <2>3. QED
    BY <1>2, <2>2 DEF IInv, TypeOK
<1>5. /\ Behind(p) = CallsOf(t) /\ Pending(p)' = CallsOf(q)
      /\ q # << >> => CallsOf(q) = {Head(q)} \cup CallsOf(Tail(q))
  BY <1>1, <1>2, <1>4, FirstAndRest DEF Behind, Pending
<1>6. SavesFirst(queue[p]) => SavesFirst(t)
  BY <1>1, <1>3, SavesRest
<1> HIDE DEF c
<1>7. CASE ~ReadsLink(p) /\ q = t
  BY <1>2, <1>5, <1>6, <1>7
<1>8. CASE ~ReadsLink(p) /\ q # << >> /\ Head(q).do = "replaceMeta" /\ Tail(q) = t
  <2>1. SavesFirst(t) => SavesFirst(q)
    BY <1>4, <1>8, SavesAhead
  <2>2. QED
    BY <1>2, <1>5, <1>6, <1>8, <2>1
<1>9. CASE /\ ReadsLink(p) /\ q # << >>
           /\ Head(q) = [do |-> "replaceRecord", iri |-> c.iri, try |-> TRUE,
                         graph |-> WithLink(record[c.iri], c.child, c.add)]
           /\ \E b, e \in Call :
                /\ b.do = "readMeta" /\ e.do = "publish" /\ e.op = "modify"
                /\ Tail(q) = <<b>> \o t \o <<e>>
                /\ CallsOf(Tail(q)) = {b} \cup Behind(p) \cup {e}
  <2>1. PICK b, e \in Call : /\ b.do = "readMeta" /\ e.do = "publish"
                             /\ Tail(q) = <<b>> \o t \o <<e>>
                             /\ CallsOf(Tail(q)) = {b} \cup Behind(p) \cup {e}
    BY <1>9
  <2>2. /\ Head(q).do = "replaceRecord" /\ Head(q).try /\ Head(q).iri = c.iri
        /\ Head(q).graph = WithLink(record[c.iri], c.child, c.add)
    BY <1>9
  <2>3. SavesFirst(t) => SavesFirst(q)
    <3>1. PICK z : z = <<b>> \o t
      OBVIOUS
    <3>2. Head(<<b>> \o t) = b /\ Tail(<<b>> \o t) = t /\ <<b>> \o t # << >>
      BY <1>3, ConsParts
    <3>3. z \in Seq(Call) /\ Head(z) = b /\ Tail(z) = t /\ z # << >>
      <4>1. PICK x : x = <<b>>
        OBVIOUS
      <4>2. x \in Seq(Call)
        BY <4>1
      <4>3. x \o t \in Seq(Call)
        BY <1>3, <4>2, CallsAssociate
      <4>4. QED
        BY <3>1, <3>2, <4>1, <4>3
    <3>4. SavesFirst(t) => SavesFirst(z)
      BY <2>1, <3>3, SavesAhead
    <3>5. SavesFirst(z) => SavesFirst(z \o <<e>>)
      BY <2>1, <3>3, SavesBehind
    <3>6. SavesFirst(Tail(q)) => SavesFirst(q)
      BY <1>4, <1>9, <2>2, SavesAhead
    <3>7. Tail(q) = z \o <<e>>
      BY <2>1, <3>1
    <3>8. QED
      BY <3>4, <3>5, <3>6, <3>7
  <2>4. QED
    BY <1>2, <1>5, <1>6, <1>9, <2>1, <2>2, <2>3 DEF c
<1>10. QED
  <2>1. \/ ~ReadsLink(p) /\ q = t
        \/ ~ReadsLink(p) /\ q # << >> /\ Head(q).do = "replaceMeta" /\ Tail(q) = t
        \/ /\ ReadsLink(p) /\ q # << >>
           /\ Head(q) = [do |-> "replaceRecord", iri |-> c.iri, try |-> TRUE,
                         graph |-> WithLink(record[c.iri], c.child, c.add)]
           /\ \E b, e \in Call :
                /\ b.do = "readMeta" /\ e.do = "publish" /\ e.op = "modify"
                /\ Tail(q) = <<b>> \o t \o <<e>>
                /\ CallsOf(Tail(q)) = {b} \cup Behind(p) \cup {e}
    BY <1>1, <1>2, NextCalls DEF ReadsLink, c
  <2>2. QED
    BY <1>7, <1>8, <1>9, <2>1

\* What a step of p's own program does to links: it gives none but the one to p's record, to
\* the parent the record names, and takes none of that parent's but in writing the record.
LEMMA OwnHome ==
  ASSUME XInv, NEW p \in Handlers, CallStore(p), phase[p] = "run", OneWrite(p), Links(p),
         NEW iri, iri = req[p].iri
  PROVE  /\ Home(p)' = Home(p)
         /\ \A r \in Records : r # iri => ParentOf(record'[r]) = ParentOf(record[r])
         /\ \A k \in Records : \A x : Linked(k, x)' => Linked(k, x) \/ (x = iri /\ k = Home(p))
         /\ ~OwnWrite(p) =>
              /\ \A k \in Records : record'[k] # Nil <=> record[k] # Nil
              /\ \A k \in Records : Linked(k, iri) => Linked(k, iri)' \/ k # Home(p)
<1>0. PICK c : c = Head(queue[p])
  OBVIOUS
<1>1. iri \in Records /\ iri = req[p].iri
  BY Serving DEF XInv
<1>2. /\ queue[p] # << >> /\ record' = RecordAfter(c) /\ UNCHANGED <<phase, req>>
  BY <1>0, StoreStep
<1>3. c \in Call /\ c.iri \in Records /\ Ready(p, c) /\ (c.do = "replaceRecord" => c.graph \in Graph)
  BY <1>0, <1>2, InHand, HeadCall, CallFields DEF XInv
<1>4. record \in [Records -> Graph \cup {Nil}] /\ Nil \notin Graph
  BY LdpAssumption DEF XInv, IInv, TypeOK
<1>5. /\ c.do = "replaceRecord" /\ c.try => record[c.iri] # Nil
      /\ c.do = "dropRecord" => ~c.try
  BY <1>0, <1>2 DEF OneWrite, HeadIs
<1>6. c.do \in {"replaceRecord", "dropRecord"} /\ ~c.try => c.iri = iri
  BY <1>1, <1>3 DEF Ready, Later
<1>7. OwnWrite(p) <=> c.do \in {"replaceRecord", "dropRecord"} /\ ~c.try
  BY <1>0, <1>2 DEF OwnWrite, HeadIs
<1>8. ~OwnWrite(p)'
  BY OwnWriteDone
<1>9. After(p)' = record'[iri]
  BY <1>1, <1>2, <1>8 DEF After
<1>10. /\ OwnWrite(p) => After(p) = IF c.do = "replaceRecord" THEN c.graph ELSE Nil
       /\ ~OwnWrite(p) => After(p) = record[iri]
  BY <1>0, <1>1, <1>2 DEF After, HeadIs
<1>11. c \in Pending(p)
  BY <1>0, <1>2, QueueParts DEF XInv
<1>12. CASE OwnWrite(p)
  <2>1. /\ record'[iri] = After(p)
        /\ \A r \in Records : r # iri => record'[r] = record[r]
    BY <1>1, <1>2, <1>3, <1>4, <1>6, <1>7, <1>10, <1>12 DEF RecordAfter
  <2>2. \A x : Linked(iri, x)' => Linked(iri, x)
    BY <1>1, <1>12, <2>1 DEF Linked, Links
  <2>3. \A k \in Records : k # iri => \A x : Linked(k, x)' => Linked(k, x)
    BY <2>1 DEF Linked
  <2>4. Home(p)' = Home(p)
    BY <1>9, <2>1 DEF Home
  <2>5. QED
    BY <1>1, <1>12, <2>1, <2>2, <2>3, <2>4
<1>13. CASE c.do = "replaceRecord" /\ c.try
  <2>1. /\ record'[c.iri] = c.graph /\ record[c.iri] # Nil /\ c.graph # Nil
        /\ \A r \in Records : r # c.iri => record'[r] = record[r]
    BY <1>2, <1>3, <1>4, <1>5, <1>13 DEF RecordAfter
  <2>2. /\ c.graph.parent = record[c.iri].parent
        /\ \A x \in c.graph.members : x = iri \/ x \in record[c.iri].members
        /\ iri \in c.graph.members <=> c.iri = Home(p)
    BY <1>1, <1>11, <1>13 DEF Links, FitLink
  <2>3. \A r \in Records : ParentOf(record'[r]) = ParentOf(record[r]) /\ (record'[r] # Nil <=> record[r] # Nil)
    BY <2>1, <2>2 DEF ParentOf
  <2>4. Home(p)' = Home(p)
    BY <1>1, <1>7, <1>9, <1>10, <1>13, <2>3 DEF Home
  <2>5. \A k \in Records : k # c.iri => \A x : Linked(k, x)' <=> Linked(k, x)
    BY <2>1 DEF Linked
  <2>6. \A x : Linked(c.iri, x)' => Linked(c.iri, x) \/ (x = iri /\ c.iri = Home(p))
    BY <2>1, <2>2 DEF Linked
  <2>7. c.iri = Home(p) => Linked(c.iri, iri)'
    BY <2>1, <2>2 DEF Linked
  <2>8. QED
    BY <1>1, <2>3, <2>4, <2>5, <2>6, <2>7
<1>14. CASE ~OwnWrite(p) /\ ~(c.do = "replaceRecord" /\ c.try)
  <2>1. record' = record
    BY <1>2, <1>5, <1>7, <1>14 DEF RecordAfter
  <2>2. \A k, x : Linked(k, x)' <=> Linked(k, x)
    BY <2>1 DEF Linked
  <2>3. Home(p)' = Home(p)
    BY <1>9, <1>10, <1>14, <2>1 DEF Home
  <2>4. QED
    BY <1>1, <2>1, <2>2, <2>3
<1>15. QED
  BY <1>12, <1>13, <1>14

\* A step of p's own program leaves the rest of it fit to keep the links to p's record.
LEMMA OwnLinks ==
  ASSUME XInv, NEW p \in Handlers, CallStore(p), phase[p] = "run", OneWrite(p), Links(p)
  PROVE  Links(p)'
<1> DEFINE c == Head(queue[p])
           w == Head(queue'[p])
<1>1. PICK iri \in Records : iri = req[p].iri
  BY Serving DEF XInv
<1>2. /\ queue[p] # << >> /\ record' = RecordAfter(c) /\ UNCHANGED <<phase, req>>
  BY StoreStep
<1>3. /\ c.iri \in Records
      /\ c.do = "readParent" => c.child \in Records /\ c.add \in BOOLEAN
  BY <1>2, InHand, HeadCall, CallFields DEF XInv
<1>4. record \in [Records -> Graph \cup {Nil}] /\ Nil \notin Graph
  BY LdpAssumption DEF XInv, IInv, TypeOK
<1>5. Pending(p) = {c} \cup Behind(p)
  BY <1>2, QueueParts DEF XInv
<1>6. \A d \in Behind(p) : d.do \notin {"replaceRecord", "dropRecord"}
  BY <1>2 DEF OneWrite
<1>7. ~OwnWrite(p)' /\ (OwnWrite(p) <=> c.do \in {"replaceRecord", "dropRecord"} /\ ~c.try)
  BY <1>2, OwnWriteDone DEF OwnWrite, HeadIs
<1>8. /\ Behind(p) \subseteq Pending(p)'
      /\ ~ReadsLink(p) => \A d \in Pending(p)' : d \in Behind(p) \/ d.do = "replaceMeta"
      /\ ReadsLink(p) =>
           /\ w \in Pending(p)' /\ w.do = "replaceRecord" /\ w.try /\ w.iri = c.iri
           /\ w.graph = WithLink(record[c.iri], c.child, c.add)
           /\ \A d \in Pending(p)' : d \in Behind(p) \/ d = w \/ d.do \in {"readMeta", "publish"}
      /\ SavesFirst(queue'[p])
  BY PendingAfter DEF Links
<1>9. /\ Home(p)' = Home(p)
      /\ \A k \in Records : Linked(k, iri)' => Linked(k, iri) \/ k = Home(p)
      /\ ~OwnWrite(p) =>
           /\ \A k \in Records : record'[k] # Nil <=> record[k] # Nil
           /\ \A k \in Records : Linked(k, iri) => Linked(k, iri)' \/ k # Home(p)
  BY <1>1, OwnHome
<1>10. \A d \in Pending(p) : FitLink(p, d)
  BY DEF Links
<1> HIDE DEF c, w
<1>11. ReadsLink(p) =>
         /\ record' = record /\ record[c.iri] # Nil /\ c.child = iri /\ (c.add <=> c.iri = Home(p))
         /\ w.graph.parent = record[c.iri].parent
         /\ w.graph.members = IF c.add THEN record[c.iri].members \cup {iri} ELSE record[c.iri].members \ {iri}
  <2> SUFFICES ASSUME ReadsLink(p)
               PROVE  /\ record' = record /\ record[c.iri] # Nil /\ c.child = iri /\ (c.add <=> c.iri = Home(p))
                      /\ w.graph.parent = record[c.iri].parent
                      /\ w.graph.members = IF c.add THEN record[c.iri].members \cup {iri} ELSE record[c.iri].members \ {iri}
    OBVIOUS
  <2>1. c.do = "readParent" /\ record[c.iri] # Nil
    BY DEF ReadsLink, LinkChanges, c
  <2>2. record' = record
    BY <1>2, <2>1 DEF RecordAfter
  <2>3. c.child = iri /\ (c.add <=> c.iri = Home(p))
    BY <1>1, <1>5, <1>10, <2>1 DEF FitLink
  <2>4. PICK g \in Graph : g = record[c.iri]
    BY <1>3, <1>4, <2>1
  <2>5. w.graph = WithLink(g, iri, c.add)
    BY <1>8, <2>3, <2>4
  <2>6. w.graph.parent = g.parent /\ w.graph.members = IF c.add THEN g.members \cup {iri} ELSE g.members \ {iri}
    BY <2>4, <2>5 DEF WithLink, Graph
  <2>7. QED
    BY <2>1, <2>2, <2>3, <2>4, <2>6
<1>12. \A d \in Pending(p)' : FitLink(p, d)'
  <2> SUFFICES ASSUME NEW d \in Pending(p)' PROVE FitLink(p, d)'
    OBVIOUS
  <2>1. CASE d \in Behind(p)
    BY <1>2, <1>5, <1>6, <1>9, <1>10, <2>1 DEF FitLink
  <2>2. CASE d.do \in {"replaceMeta", "readMeta", "publish"}
    BY <2>2 DEF FitLink
  <2>3. CASE ReadsLink(p) /\ d = w
    <3>1. d.do = "replaceRecord" /\ d.iri = c.iri
      BY <1>8, <2>3
    <3>2. d.graph.parent = record'[d.iri].parent
      BY <1>11, <2>3, <3>1
    <3>3. \A x \in d.graph.members : x = iri \/ x \in record'[d.iri].members
      BY <1>11, <2>3, <3>1
    <3>4. iri \in d.graph.members <=> d.iri = Home(p)'
      BY <1>9, <1>11, <2>3, <3>1
    <3>5. QED
      BY <1>1, <1>2, <3>1, <3>2, <3>3, <3>4 DEF FitLink
  <2>4. QED
    BY <1>8, <2>1, <2>2, <2>3
<1>13. ASSUME NEW k \in Records, Linked(k, iri)', k # Home(p)
       PROVE  \E d \in Pending(p)' : Removes(d, k, iri)
  <2>1. Linked(k, iri)
    BY <1>9, <1>13
  <2>2. PICK d \in Pending(p) : Removes(d, k, iri)
    BY <1>1, <1>13, <2>1 DEF Links
  <2>3. CASE d \in Behind(p)
    BY <1>8, <2>2, <2>3
  <2>4. CASE d = c /\ c.do = "readParent"
    <3>1. c.iri = k /\ c.child = iri /\ c.add = FALSE
      BY <1>3, <2>2, <2>4 DEF Removes
    <3>2. ReadsLink(p)
      BY <2>1, <2>4, <3>1 DEF ReadsLink, LinkChanges, Linked, c
    <3>3. iri \notin w.graph.members
      BY <1>11, <3>1, <3>2
    <3>4. QED
      BY <1>8, <3>1, <3>2, <3>3 DEF Removes
  <2>5. CASE d = c /\ c.do = "replaceRecord" /\ c.try
    <3>1. c.iri = k /\ iri \notin c.graph.members
      BY <2>2, <2>5 DEF Removes
    <3>2. record'[k] = c.graph
      BY <1>2, <1>3, <1>4, <2>5, <3>1 DEF RecordAfter
    <3>3. QED
      BY <1>13, <3>1, <3>2 DEF Linked
  <2>6. QED
    BY <1>5, <2>2, <2>3, <2>4, <2>5 DEF Removes
<1>14. ASSUME NEW k \in Records, req[p].method \in {"PUT", "POST"}, k = Home(p),
              record'[k] # Nil, ~Linked(k, iri)'
       PROVE  \E d \in Pending(p)' : Adds(d, k, iri)
  <2>1. OwnWrite(p) \/ (record[k] # Nil /\ ~Linked(k, iri))
    BY <1>9, <1>14
  <2>2. PICK d \in Pending(p) : Adds(d, k, iri)
    BY <1>1, <1>14, <2>1 DEF Links
  <2>3. CASE d \in Behind(p)
    BY <1>8, <2>2, <2>3
  <2>4. CASE d = c /\ c.do = "readParent"
    <3>1. c.iri = k /\ c.child = iri /\ c.add = TRUE
      BY <1>3, <2>2, <2>4 DEF Adds
    <3>2. record[k] # Nil /\ iri \notin record[k].members
      BY <1>7, <2>1, <2>4 DEF Linked
    <3>3. ReadsLink(p)
      BY <2>4, <3>1, <3>2 DEF ReadsLink, LinkChanges, c
    <3>4. iri \in w.graph.members
      BY <1>11, <3>1, <3>3
    <3>5. QED
      BY <1>8, <3>1, <3>3, <3>4 DEF Adds
  <2>5. CASE d = c /\ c.do = "replaceRecord" /\ c.try
    <3>1. c.iri = k /\ iri \in c.graph.members
      BY <2>2, <2>5 DEF Adds
    <3>2. record'[k] = c.graph
      BY <1>2, <1>3, <1>4, <2>5, <3>1 DEF RecordAfter
    <3>3. QED
      BY <1>14, <3>1, <3>2 DEF Linked
  <2>6. QED
    BY <1>5, <2>2, <2>3, <2>4, <2>5 DEF Adds
<1>15. req'[p].method \in {"PUT", "POST"} => Home(p)' = req'[p].parent
  BY <1>2, <1>9 DEF Links
<1>16. QED
  BY <1>1, <1>2, <1>7, <1>8, <1>9, <1>12, <1>13, <1>14, <1>15 DEF Links

\* A step of one program leaves the others fit to keep the links to theirs.
LEMMA OthersLink ==
  ASSUME XInv, NEW p \in Handlers, CallStore(p), phase[p] = "run", OneWrite(p), Links(p),
         NEW q \in Handlers \ {p}, phase[q] = "run", OneWrite(q), Tells(q), Links(q)
  PROVE  Links(q)'
<1>1. PICK iri \in Records : iri = req[q].iri
  BY Serving DEF XInv
<1>2. /\ \A r \in Own(q) : record'[r] = record[r]
      /\ iri \in Own(q) /\ iri # req[p].iri
      /\ queue'[q] = queue[q] /\ req'[q] = req[q] /\ phase'[q] = phase[q]
  BY <1>1, Elsewhere DEF InFlight
<1>3. Pending(q)' = Pending(q) /\ Behind(q)' = Behind(q)
  BY <1>2 DEF Pending, Behind
<1>4. After(q)' = After(q) /\ Home(q)' = Home(q)
  BY OthersTell DEF Home
<1>5. OwnWrite(q)' <=> OwnWrite(q)
  BY <1>2 DEF OwnWrite, HeadIs
<1>6. \A k \in Records : Linked(k, iri)' => Linked(k, iri)
  BY <1>2, OwnHome
<1>7. \A d \in Pending(q) : d.iri \in Own(q)
  BY PendingOwn, QueueParts DEF XInv
<1>8. \A d \in Pending(q) : FitLink(q, d)'
  <2> SUFFICES ASSUME NEW d \in Pending(q) PROVE FitLink(q, d)'
    OBVIOUS
  <2>1. FitLink(q, d) /\ record'[d.iri] = record[d.iri]
    BY <1>2, <1>7 DEF Links
  <2>2. QED
    BY <1>2, <1>4, <2>1 DEF FitLink
<1>9. ASSUME OwnWrite(q), After(q) # Nil, NEW x \in After(q).members PROVE Linked(iri, x)'
  <2>1. Linked(iri, x)
    BY <1>1, <1>9 DEF Links
  <2>2. QED
    BY <1>2, <2>1 DEF Linked
<1>10. ASSUME NEW k \in Records, req[q].method \in {"PUT", "POST"}, k = Home(q)
       PROVE  record'[k] = record[k]
  <2>1. k = req[q].parent
    BY <1>10 DEF Links
  <2>2. k \in Own(q)
    BY <2>1 DEF Own, Touches
  <2>3. QED
    BY <1>2, <2>2
<1>11. ASSUME NEW k \in Records, req[q].method \in {"PUT", "POST"}, k = Home(q),
              OwnWrite(q) \/ (record'[k] # Nil /\ ~Linked(k, iri)')
       PROVE  \E d \in Pending(q) : Adds(d, k, iri)
  <2>1. Linked(k, iri)' <=> Linked(k, iri)
    BY <1>10, <1>11 DEF Linked
  <2>2. QED
    BY <1>1, <1>10, <1>11, <2>1 DEF Links
<1>12. ASSUME NEW k \in Records, Linked(k, iri)', k # Home(q)
       PROVE  \E d \in Pending(q) : Removes(d, k, iri)
  BY <1>1, <1>6, <1>12 DEF Links
<1>13. SavesFirst(queue[q]) /\ (req[q].method \in {"PUT", "POST"} => Home(q) = req[q].parent)
  BY DEF Links
<1>14. QED
  BY <1>1, <1>2, <1>3, <1>4, <1>5, <1>8, <1>9, <1>11, <1>12, <1>13 DEF Links

\* A step of a program keeps the invariant.
LEMMA CallLinks ==
  ASSUME XInv, AInv, KInv, NEW p \in Handlers, CallStore(p)
  PROVE  KInv'
<1>1. queue[p] # << >> /\ UNCHANGED <<phase, req, faults, crashes>>
  BY StoreStep
<1> SUFFICES ASSUME Undisturbed
             PROVE  /\ \A q \in Handlers : phase[q] = "run" => Links(q)'
                    /\ \A k, c \in Records : Linked(k, c)' => Running(c) \/ ParentOf(record'[c]) = k
  BY <1>1 DEF KInv, Undisturbed, Running
<1>2. phase[p] = "run" /\ OneWrite(p) /\ Links(p)
  BY <1>1, InHand DEF AInv, KInv
<1>3. Links(p)'
  BY <1>2, OwnLinks
<1>4. \A q \in Handlers \ {p} : phase[q] = "run" => Links(q)'
  BY <1>2, OthersLink DEF AInv, KInv
<1>5. ASSUME NEW k \in Records, NEW c \in Records, Linked(k, c)', ~Running(c)
      PROVE  ParentOf(record'[c]) = k
  <2>1. c # req[p].iri
    BY <1>2, <1>5 DEF Running
  <2>2. Linked(k, c) /\ ParentOf(record'[c]) = ParentOf(record[c])
    BY <1>2, <1>5, <2>1, OwnHome
  <2>3. QED
    BY <1>5, <2>2 DEF KInv
<1>6. QED
  BY <1>3, <1>4, <1>5

\* So does a step that leaves the stores and the programs alone, or ends a program.
LEMMA RestLinks ==
  ASSUME XInv, AInv, KInv, UNCHANGED <<record, faults, crashes>>,
         \A q \in Handlers :
            \/ UNCHANGED <<phase[q], req[q], queue[q]>>
            \/ phase'[q] \notin {"run", "undo", "failed"} /\ (phase[q] = "run" => queue[q] = << >>)
  PROVE  KInv'
<1> SUFFICES ASSUME Undisturbed
             PROVE  /\ \A q \in Handlers : phase'[q] = "run" => Links(q)'
                    /\ \A k, c \in Records : Linked(k, c) => Running(c)' \/ ParentOf(record[c]) = k
  BY DEF KInv, Undisturbed, Linked
<1>1. ASSUME NEW q \in Handlers, phase'[q] = "run" PROVE Links(q)'
  <2>1. UNCHANGED <<phase[q], req[q], queue[q]>>
    BY <1>1
  <2>2. /\ Pending(q)' = Pending(q) /\ After(q)' = After(q) /\ Home(q)' = Home(q)
        /\ OwnWrite(q)' <=> OwnWrite(q)
    BY <2>1 DEF Pending, Behind, Home, After, OwnWrite, HeadIs
  <2>3. Links(q)
    BY <1>1, <2>1 DEF KInv
  <2>4. QED
    BY <2>1, <2>2, <2>3 DEF Links, FitLink, Linked
<1>2. ASSUME NEW k \in Records, NEW c \in Records, Linked(k, c), ~Running(c)'
      PROVE  ParentOf(record[c]) = k
  <2>1. CASE ~Running(c)
    BY <1>2, <2>1 DEF KInv
  <2>2. CASE Running(c)
    <3>1. PICK q \in Handlers : phase[q] = "run" /\ req[q].iri = c
      BY <2>2 DEF Running
    <3>2. queue[q] = << >>
      BY <1>2, <3>1 DEF Running
    <3>3. Pending(q) = {} /\ After(q) = record[c]
      BY <3>1, <3>2, QueueParts DEF XInv, After, OwnWrite, HeadIs
    <3>4. Links(q)
      BY <3>1 DEF KInv
    <3>5. QED
      BY <1>2, <3>1, <3>3, <3>4 DEF Links, Home
  <2>3. QED
    BY <2>1, <2>2
<1>3. QED
  BY <1>1, <1>2

\* And a handler that sets out, if its program keeps the links to its record.
LEMMA SetsOutLinks ==
  ASSUME XInv, AInv, KInv, NEW p \in Handlers, phase[p] \in {"check", "checkMeta"},
         NEW current, NEW calls, NEW comp, Proceed(p, current, calls, comp),
         Undisturbed => Links(p)'
  PROVE  KInv'
<1>1. /\ phase'[p] = "run"
      /\ UNCHANGED <<record, req, faults, crashes>>
      /\ \A q \in Handlers \ {p} : phase'[q] = phase[q] /\ queue'[q] = queue[q]
  BY DEF Proceed, store, counters, XInv, IInv, TypeOK
<1> SUFFICES ASSUME Undisturbed
             PROVE  /\ \A q \in Handlers : phase'[q] = "run" => Links(q)'
                    /\ \A k, c \in Records : Linked(k, c) => Running(c)' \/ ParentOf(record[c]) = k
  BY <1>1 DEF KInv, Undisturbed, Linked
<1>2. ASSUME NEW q \in Handlers \ {p}, phase'[q] = "run" PROVE Links(q)'
  <2>1. phase[q] = "run" /\ UNCHANGED <<phase[q], req[q], queue[q]>>
    BY <1>1, <1>2
  <2>2. /\ Pending(q)' = Pending(q) /\ After(q)' = After(q) /\ Home(q)' = Home(q)
        /\ OwnWrite(q)' <=> OwnWrite(q)
    BY <1>1, <2>1 DEF Pending, Behind, Home, After, OwnWrite, HeadIs
  <2>3. Links(q)
    BY <2>1 DEF KInv
  <2>4. QED
    BY <1>1, <2>1, <2>2, <2>3 DEF Links, FitLink, Linked
<1>3. ASSUME NEW k \in Records, NEW c \in Records, Linked(k, c), ~Running(c)'
      PROVE  ParentOf(record[c]) = k
  <2>1. ~Running(c)
    BY <1>1, <1>3 DEF Running
  <2>2. QED
    BY <1>3, <2>1 DEF KInv
<1>4. QED
  BY <1>2, <1>3

\* The link calls of a program that gives p's record the graph g.
LinksFor(p, L, g) ==
  LET iri == req[p].iri
      o == ParentOf(record[iri])
      n == ParentOf(g) IN
  /\ \A d \in L : d = Link(n, iri, TRUE) \/ (o # n /\ d = Link(o, iri, FALSE))
  /\ o # Nil /\ o # n => Link(o, iri, FALSE) \in L
  /\ n # Nil /\ req[p].method \in {"PUT", "POST"} => Link(n, iri, TRUE) \in L

\* A program that gives p's record the graph g, none if it deletes it, and then makes the calls L.
SetsLinks(p, q, g, L) ==
  /\ q \in Seq(Call) /\ q # << >> /\ SavesFirst(q)
  /\ Head(q).do \in {"replaceRecord", "dropRecord"} /\ ~Head(q).try
  /\ g = IF Head(q).do = "replaceRecord" THEN Head(q).graph ELSE Nil
  /\ L \subseteq CallsOf(Tail(q))
  /\ \A d \in CallsOf(Tail(q)) : d \in L \/ d.do \notin {"readParent", "replaceRecord"}
  /\ g # Nil => \A x \in g.members : Linked(req[p].iri, x)
  /\ req[p].method \in {"PUT", "POST"} => ParentOf(g) = req[p].parent
  /\ LinksFor(p, L, g)

\* Such a program will leave the link to p's record where it should be.
LEMMA BeginLinks ==
  ASSUME XInv, AInv, KInv, Undisturbed, NEW p \in Handlers, phase[p] \in {"check", "checkMeta"},
         NEW current, NEW q, NEW comp, Proceed(p, current, q, comp), NEW g, NEW L, SetsLinks(p, q, g, L)
  PROVE  Links(p)'
<1>1. PICK iri \in Records : iri = req[p].iri
  BY Serving DEF XInv
<1>2. /\ phase'[p] = "run" /\ queue'[p] = q /\ record' = record /\ req' = req
  BY DEF Proceed, store, XInv, IInv, TypeOK
<1>3. /\ q \in Seq(Call) /\ q # << >> /\ SavesFirst(q)
      /\ Head(q).do \in {"replaceRecord", "dropRecord"} /\ ~Head(q).try
      /\ g = IF Head(q).do = "replaceRecord" THEN Head(q).graph ELSE Nil
      /\ L \subseteq CallsOf(Tail(q))
      /\ \A d \in CallsOf(Tail(q)) : d \in L \/ d.do \notin {"readParent", "replaceRecord"}
      /\ g # Nil => \A x \in g.members : Linked(iri, x)
      /\ req[p].method \in {"PUT", "POST"} => ParentOf(g) = req[p].parent
  BY <1>1 DEF SetsLinks
<1>4. PICK o, n : o = ParentOf(record[iri]) /\ n = ParentOf(g)
  OBVIOUS
<1>5. /\ \A d \in L : d = Link(n, iri, TRUE) \/ (o # n /\ d = Link(o, iri, FALSE))
      /\ o # Nil /\ o # n => Link(o, iri, FALSE) \in L
      /\ n # Nil /\ req[p].method \in {"PUT", "POST"} => Link(n, iri, TRUE) \in L
  BY <1>1, <1>4 DEF SetsLinks, LinksFor
<1>6. OwnWrite(p)' /\ After(p)' = g /\ Home(p)' = n
  BY <1>2, <1>3, <1>4 DEF OwnWrite, After, HeadIs, Home
<1>7. Pending(p)' = {Head(q)} \cup CallsOf(Tail(q))
  BY <1>2, <1>3, FirstAndRest DEF Pending
<1>8. \A k \in Records : Linked(k, iri) => k = o
  <2>1. \A r \in Handlers : phase[r] = "run" => req[r].iri # iri
    BY <1>1, OneEach DEF InFlight
  <2>2. QED
    BY <1>4, <2>1 DEF KInv, Running
<1>9. /\ \A k : Link(k, iri, TRUE).do = "readParent" /\ Link(k, iri, TRUE).iri = k
                  /\ Link(k, iri, TRUE).child = iri /\ Link(k, iri, TRUE).add = TRUE
      /\ \A k : Link(k, iri, FALSE).do = "readParent" /\ Link(k, iri, FALSE).iri = k
                  /\ Link(k, iri, FALSE).child = iri /\ Link(k, iri, FALSE).add = FALSE
  BY DEF Link
<1>10. \A d \in Pending(p)' : FitLink(p, d)'
  <2> SUFFICES ASSUME NEW d \in Pending(p)' PROVE FitLink(p, d)'
    OBVIOUS
  <2>1. CASE d = Head(q)
    <3>1. d.do # "readParent"
      BY <1>3, <2>1
    <3>2. ~(d.do = "replaceRecord" /\ d.try)
      BY <1>3, <2>1
    <3>3. QED
      BY <3>1, <3>2 DEF FitLink
  <2>2. CASE d \in CallsOf(Tail(q)) /\ d \notin L
    BY <1>3, <2>2 DEF FitLink
  <2>3. CASE d \in L
    <3>1. d.do = "readParent" /\ d.child = iri /\ (d.add <=> d.iri = n)
      <4>1. CASE d = Link(n, iri, TRUE)
        BY <1>9, <4>1
      <4>2. CASE o # n /\ d = Link(o, iri, FALSE)
        BY <1>9, <4>2
      <4>3. QED
        BY <1>5, <2>3, <4>1, <4>2
    <3>2. QED
      BY <1>1, <1>2, <1>6, <3>1 DEF FitLink
  <2>4. QED
    BY <1>7, <2>1, <2>2, <2>3
<1>11. ASSUME NEW k \in Records, Linked(k, iri), k # n
       PROVE  \E d \in Pending(p)' : Removes(d, k, iri)
  <2>1. k = o /\ o # Nil /\ o # n
    BY <1>8, <1>11, NilAssumption
  <2>2. Link(o, iri, FALSE) \in Pending(p)'
    BY <1>3, <1>5, <1>7, <2>1
  <2>3. Removes(Link(o, iri, FALSE), k, iri)
    BY <1>9, <2>1 DEF Removes
  <2>4. QED
    BY <2>2, <2>3
<1>12. ASSUME NEW k \in Records, req[p].method \in {"PUT", "POST"}, k = n
       PROVE  \E d \in Pending(p)' : Adds(d, k, iri)
  <2>1. Link(n, iri, TRUE) \in Pending(p)'
    BY <1>3, <1>5, <1>7, <1>12, NilAssumption
  <2>2. Adds(Link(n, iri, TRUE), k, iri)
    BY <1>9, <1>12 DEF Adds
  <2>3. QED
    BY <2>1, <2>2
<1>13. \A k, x : Linked(k, x)' <=> Linked(k, x)
  BY <1>2 DEF Linked
<1>14. QED
  BY <1>1, <1>2, <1>3, <1>4, <1>6, <1>10, <1>11, <1>12, <1>13 DEF Links

\* A program saves first if it is a call that announces nothing, such calls, and an announcement.
LEMMA ProgramSaves ==
  ASSUME NEW q \in Seq(Call), q # << >>, Head(q).do # "publish",
         NEW z \in Seq(Call), \A d \in CallsOf(z) : d.do # "publish",
         NEW e \in Call, e.do = "publish", Tail(q) = z \o <<e>>
  PROVE  SavesFirst(q)
<1>1. SavesFirst(z \o <<e>>)
  BY SavesPlain
<1>2. QED
  BY <1>1, SavesAhead

\* PUT, POST, PATCH, DELETE and a transition keep the links to their records.
LEMMA AdmitLinks ==
  ASSUME XInv, AInv, KInv, \A r \in Requests : r.method = "PATCH" => r.parent = Keep,
         NEW p \in Handlers, Put(p) \/ PostCreate(p) \/ Patch(p) \/ Delete(p) \/ Transition(p)
  PROVE  KInv'
<1>1. PICK iri : iri = req[p].iri
  OBVIOUS
<1>2. PICK current : current = record[iri]
  OBVIOUS
<1>3. phase[p] \in {"check", "checkMeta"}
  BY DEF Put, PostCreate, Patch, Delete, Transition
<1>4. /\ iri \in Records /\ current \in Graph \cup {Nil} /\ Nil \notin Graph
      /\ req[p].state \in MetadataState /\ req[p] \in Requests
  BY <1>1, <1>2, <1>3, Serving, LdpAssumption DEF XInv, IInv, TypeOK
<1>5. \A x \in Graph \cup {Nil} : ParentOf(x) \in Records \cup {Nil}
  BY GraphTypes
<1>6. PICK o \in Records \cup {Nil} : o = ParentOf(current)
  BY <1>4, <1>5
<1>7. \A x : current # Nil /\ x \in current.members => Linked(iri, x)
  BY <1>2 DEF Linked
(* A program that writes the record and maintains links. *)
<1>8. ASSUME NEW graph \in Graph, NEW state \in MetadataState, NEW op \in Operations,
             NEW links \in Seq(Call), \A d \in CallsOf(links) : d.do = "readParent",
             NEW comp, NEW q, Puts(q, iri, graph, state, links, op),
             Proceed(p, current, q, comp), LinksFor(p, CallsOf(links), graph),
             \A x \in graph.members : Linked(iri, x),
             req[p].method \in {"PUT", "POST"} => graph.parent = req[p].parent
      PROVE  KInv'
  <2>1. q \in Seq(Call) /\ q # << >> /\ Head(q) = Save(iri, graph) /\ PutRest(q, iri, links, op)
    BY <1>4, <1>8, PutProgram
  <2>2. PICK d, e \in Call : /\ d.do = "readMeta" /\ e.do = "publish"
                             /\ Tail(q) = <<d>> \o links \o <<e>>
                             /\ CallsOf(Tail(q)) = {d} \cup CallsOf(links) \cup {e}
    BY <2>1 DEF PutRest, Tell
  <2>3. Head(q).do = "replaceRecord" /\ Head(q).graph = graph /\ ~Head(q).try /\ graph # Nil
    BY <1>4, <2>1 DEF Save
  <2>4. SavesFirst(q)
    <3>1. PICK y : y = <<d>>
      OBVIOUS
    <3>2. y \in Seq(Call) /\ CallsOf(y) = {d}
      <4>1. y \in Seq(Call)
        BY <2>2, <3>1
      <4>2. CallsOf(<<d>>) = {d}
        BY FewCalls
      <4>3. QED
        BY <3>1, <4>1, <4>2
    <3>3. PICK z : z = y \o links
      OBVIOUS
    <3>4. z \in Seq(Call) /\ CallsOf(z) = {d} \cup CallsOf(links)
      BY <3>2, <3>3, CallsAssociate, CallsTogether
    <3>5. \A x \in CallsOf(z) : x.do # "publish"
      BY <1>8, <2>2, <3>4
    <3>6. Tail(q) = z \o <<e>> /\ Head(q).do # "publish"
      BY <2>2, <2>3, <3>1, <3>3
    <3>7. QED
      BY <2>1, <2>2, <3>4, <3>5, <3>6, ProgramSaves
  <2>5. PICK L : L = CallsOf(links)
    OBVIOUS
  <2>6. /\ L \subseteq CallsOf(Tail(q))
        /\ \A x \in CallsOf(Tail(q)) : x \in L \/ x.do \notin {"readParent", "replaceRecord"}
    BY <2>2, <2>5
  <2>7. ParentOf(graph) = graph.parent
    BY <2>3 DEF ParentOf
  <2>8. SetsLinks(p, q, graph, L)
    BY <1>1, <1>8, <2>1, <2>3, <2>4, <2>5, <2>6, <2>7 DEF SetsLinks
  <2>9. Undisturbed => Links(p)'
    BY <1>3, <1>8, <2>8, BeginLinks
  <2>10. QED
    BY <1>3, <1>8, <2>9, SetsOutLinks
<1>9. ASSUME NEW n \in Records \cup {Nil}
      PROVE  /\ Reconcile(iri, o, n) \in Seq(Call)
             /\ \A d \in CallsOf(Reconcile(iri, o, n)) : d.do = "readParent"
             /\ \A g : ParentOf(g) = n => LinksFor(p, CallsOf(Reconcile(iri, o, n)), g)
  <2>1. Reconcile(iri, o, n) \in Seq(Call) /\ Relinks(CallsOf(Reconcile(iri, o, n)), iri, o, n)
    BY <1>4, ReconcileCalls
  <2>2. Link(n, iri, TRUE).do = "readParent" /\ Link(o, iri, FALSE).do = "readParent"
    BY DEF Link
  <2>3. PICK L : L = CallsOf(Reconcile(iri, o, n))
    OBVIOUS
  <2>4. \A d : d \in L <=> \/ n # Nil /\ d = Link(n, iri, TRUE)
                           \/ o # Nil /\ o # n /\ d = Link(o, iri, FALSE)
    BY <2>1, <2>3 DEF Relinks
  <2>5. \A d \in L : d.do = "readParent"
    BY <2>2, <2>4
  <2>6. ASSUME NEW g, ParentOf(g) = n PROVE LinksFor(p, L, g)
    BY <1>1, <1>2, <1>6, <2>4, <2>6 DEF LinksFor
  <2>7. QED
    BY <2>1, <2>3, <2>5, <2>6
<1>10. CASE Put(p) \/ PostCreate(p)
  <2>1. PICK graph, state, op, comp :
          /\ graph \in Graph /\ state \in MetadataState /\ op \in Operations
          /\ graph.parent = req[p].parent
          /\ graph.members \subseteq IF current = Nil THEN {} ELSE current.members
          /\ Proceed(p, current, PutGraph(iri, graph, state, FALSE)
                                   \o Reconcile(iri, ParentOf(current), req[p].parent)
                                   \o Publish(iri, op), comp)
    BY <1>1, <1>2, <1>10, Programs
  <2>2. PICK n \in Records \cup {Nil} : n = req[p].parent
    BY <1>10, Programs
  <2>3. PICK links : links = Reconcile(iri, o, n)
    OBVIOUS
  <2>4. ParentOf(graph) = n
    BY <1>4, <2>1, <2>2 DEF ParentOf
  <2>5. /\ links \in Seq(Call) /\ \A d \in CallsOf(links) : d.do = "readParent"
        /\ LinksFor(p, CallsOf(links), graph)
    BY <1>9, <2>3, <2>4
  <2>6. PICK q : q = PutGraph(iri, graph, state, FALSE) \o links \o Publish(iri, op)
    OBVIOUS
  <2>7. Puts(q, iri, graph, state, links, op) /\ Proceed(p, current, q, comp)
    BY <1>6, <2>1, <2>2, <2>3, <2>6 DEF Puts
  <2>8. \A x \in graph.members : Linked(iri, x)
    BY <1>7, <2>1
  <2>9. QED
    BY <1>8, <2>1, <2>5, <2>7, <2>8
<1>11. CASE Patch(p)
  <2>1. current # Nil /\ req[p].method = "PATCH" /\ req[p].parent = Keep
    BY <1>1, <1>2, <1>4, <1>11, Programs
  <2>2. PICK graph, state, comp :
          /\ graph \in Graph /\ state \in MetadataState
          /\ req[p].parent = Keep => graph.parent = current.parent
          /\ graph.members = current.members
          /\ Proceed(p, current, PutGraph(iri, graph, state, FALSE) \o << >> \o Publish(iri, "modify"), comp)
    BY <1>1, <1>2, <1>11, Programs
  <2>3. PICK links : links = << >>
    OBVIOUS
  <2>4. links \in Seq(Call) /\ CallsOf(links) = {}
    BY <2>3, FewCalls, EmptySeq
  <2>5. PICK q : q = PutGraph(iri, graph, state, FALSE) \o links \o Publish(iri, "modify")
    OBVIOUS
  <2>6. Puts(q, iri, graph, state, links, "modify") /\ Proceed(p, current, q, comp)
    BY <2>2, <2>3, <2>5 DEF Puts
  <2>7. ParentOf(graph) = o
    BY <1>4, <1>6, <2>1, <2>2 DEF ParentOf
  <2>8. LinksFor(p, CallsOf(links), graph)
    BY <1>1, <1>2, <1>6, <2>1, <2>4, <2>7 DEF LinksFor
  <2>9. \A x \in graph.members : Linked(iri, x)
    BY <1>7, <2>1, <2>2
  <2>10. "modify" \in Operations /\ \A d \in CallsOf(links) : d.do = "readParent"
    BY <2>4 DEF Operations
  <2>11. QED
    BY <1>8, <2>1, <2>2, <2>4, <2>6, <2>8, <2>9, <2>10
<1>12. CASE Delete(p)
  <2>1. current # Nil /\ req[p].method = "DELETE"
    BY <1>1, <1>2, <1>12, Programs
  <2>2. PICK comp : Proceed(p, current, DeleteGraph(iri) \o Reconcile(iri, ParentOf(current), Nil)
                                          \o Publish(iri, "delete"), comp)
    BY <1>1, <1>2, <1>12, Programs
  <2>3. PICK links : links = Reconcile(iri, o, Nil)
    OBVIOUS
  <2>4. /\ links \in Seq(Call) /\ \A d \in CallsOf(links) : d.do = "readParent"
        /\ LinksFor(p, CallsOf(links), Nil)
    BY <1>9, <2>3 DEF ParentOf
  <2>5. PICK q : q = DeleteGraph(iri) \o links \o Publish(iri, "delete")
    OBVIOUS
  <2>6. Drops(q, iri, links) /\ Proceed(p, current, q, comp)
    BY <1>6, <2>2, <2>3, <2>5 DEF Drops
  <2>7. q \in Seq(Call) /\ q # << >> /\ Head(q) = Erase(iri) /\ DropRest(q, iri, links)
    BY <1>4, <2>4, <2>6, DeleteProgram
  <2>8. PICK b, d, e \in Call : /\ b.do = "dropMeta" /\ d.do = "dropAudit" /\ e.do = "publish"
                                /\ Tail(q) = <<b, d>> \o links \o <<e>>
                                /\ CallsOf(Tail(q)) = {b, d} \cup CallsOf(links) \cup {e}
    BY <2>7, ZenonT(40) DEF DropRest, Tell
  <2>9. Head(q).do = "dropRecord" /\ ~Head(q).try
    BY <2>7 DEF Erase
  <2>10. SavesFirst(q)
    <3>1. PICK y : y = <<b, d>>
      OBVIOUS
    <3>2. y \in Seq(Call) /\ CallsOf(y) = {b, d}
      <4>1. y \in Seq(Call)
        BY <2>8, <3>1
      <4>2. CallsOf(<<b, d>>) = {b, d}
        BY FewCalls
      <4>3. QED
        BY <3>1, <4>1, <4>2
    <3>3. PICK z : z = y \o links
      OBVIOUS
    <3>4. z \in Seq(Call) /\ CallsOf(z) = {b, d} \cup CallsOf(links)
      BY <2>4, <3>2, <3>3, CallsAssociate, CallsTogether
    <3>5. \A x \in CallsOf(z) : x.do # "publish"
      BY <2>4, <2>8, <3>4
    <3>6. Tail(q) = z \o <<e>> /\ Head(q).do # "publish"
      BY <2>8, <2>9, <3>1, <3>3
    <3>7. QED
      BY <2>7, <2>8, <3>4, <3>5, <3>6, ProgramSaves
  <2>11. PICK L : L = CallsOf(links)
    OBVIOUS
  <2>12. /\ L \subseteq CallsOf(Tail(q))
         /\ \A x \in CallsOf(Tail(q)) : x \in L \/ x.do \notin {"readParent", "replaceRecord"}
    BY <2>8, <2>11
  <2>13. SetsLinks(p, q, Nil, L)
    BY <2>1, <2>4, <2>7, <2>9, <2>10, <2>11, <2>12 DEF SetsLinks
  <2>14. Undisturbed => Links(p)'
    BY <1>3, <2>6, <2>13, BeginLinks
  <2>15. QED
    BY <1>3, <2>6, <2>14, SetsOutLinks
<1>13. CASE Transition(p)
  <2>1. PICK comp : comp = << >>
    OBVIOUS
  <2>2. PICK q : q = << [do |-> "readState", iri |-> iri, state |-> req[p].state, try |-> FALSE] >>
                       \o Publish(iri, "state_change")
    OBVIOUS
  <2>3. Proceed(p, Nil, q, comp) /\ req[p].method = "STATE"
    BY <1>1, <1>13, <2>1, <2>2 DEF Transition
  <2>4. /\ q \in Seq(Call) /\ q # << >> /\ Head(q).do = "readState"
        /\ \E e \in Call : e.do = "publish" /\ Tail(q) = <<e>> /\ CallsOf(Tail(q)) = {e}
    BY <1>4, <2>2, StateProgram
  <2>5. \A x \in CallsOf(Tail(q)) : x.do = "publish"
    BY <2>4
  <2>6. SavesFirst(q)
    <3>1. PICK e \in Call : e.do = "publish" /\ Tail(q) = <<e>>
      BY <2>4
    <3>2. SavesFirst(<<e>>)
      BY DEF SavesFirst
    <3>3. QED
      BY <2>4, <3>1, <3>2, SavesAhead
  <2>7. ASSUME Undisturbed PROVE Links(p)'
    <3>1. phase'[p] = "run" /\ queue'[p] = q /\ record' = record /\ req' = req
      BY <2>3 DEF Proceed, store, XInv, IInv, TypeOK
    <3>2. ~OwnWrite(p)' /\ Home(p)' = o
      BY <1>1, <1>2, <1>6, <2>4, <3>1 DEF OwnWrite, After, HeadIs, Home
    <3>3. Pending(p)' = {Head(q)} \cup CallsOf(Tail(q))
      BY <2>4, <3>1, FirstAndRest DEF Pending
    <3>4. \A d \in Pending(p)' : FitLink(p, d)'
      BY <2>4, <2>5, <3>3 DEF FitLink
    <3>5. \A k \in Records : Linked(k, iri) => k = o
      <4>1. \A r \in Handlers : phase[r] = "run" => req[r].iri # iri
        BY <1>1, <1>3, OneEach DEF InFlight
      <4>2. QED
        BY <1>2, <1>4, <1>6, <2>7, <4>1 DEF KInv, Running
    <3>6. \A k, x : Linked(k, x)' <=> Linked(k, x)
      BY <3>1 DEF Linked
    <3>7. QED
      BY <1>1, <2>3, <2>6, <3>1, <3>2, <3>4, <3>5, <3>6 DEF Links
  <2>8. QED
    BY <1>3, <2>3, <2>7, SetsOutLinks
<1>14. QED
  BY <1>10, <1>11, <1>12, <1>13

\* Every step keeps the invariant, when clients do not overlap requests on one record and a
\* PATCH does not move its record.
LEMMA StepLinks ==
  ASSUME Exclusive, \A r \in Requests : r.method = "PATCH" => r.parent = Keep,
         XInv, AInv, KInv, [Next]_vars
  PROVE  KInv'
<1>1. ASSUME NEW p \in Handlers, ClientReads(p) \/ Receive(p) \/ PostCheckRecord(p)
      PROVE  KInv'
  <2>1. /\ UNCHANGED <<record, faults, crashes>>
        /\ \A q \in Handlers \ {p} : UNCHANGED <<phase[q], req[q], queue[q]>>
        /\ phase'[p] \notin {"run", "undo", "failed"} /\ phase[p] # "run"
    BY <1>1 DEF ClientReads, Receive, PostCheckRecord, store, counters, XInv, IInv, TypeOK
  <2>2. QED
    BY <2>1, RestLinks
<1>2. ASSUME NEW p \in Handlers, Refuse(p) \/ Respond(p)
      PROVE  KInv'
  <2>1. /\ UNCHANGED <<record, faults, crashes>>
        /\ \A q \in Handlers \ {p} : UNCHANGED <<phase[q], req[q], queue[q]>>
        /\ phase'[p] \notin {"run", "undo", "failed"} /\ (phase[p] = "run" => queue[p] = << >>)
    BY <1>2 DEF Refuse, Respond, Release, store, counters, XInv, IInv, TypeOK
  <2>2. QED
    BY <2>1, RestLinks
<1>3. ASSUME NEW p \in Handlers, Raise(p) \/ LoseAuditRow(p)
      PROVE  KInv'
  <2>1. faults' = faults + 1 /\ faults \in Nat
    BY <1>3 DEF Raise, LoseAuditRow, XInv, IInv, TypeOK
  <2>2. QED
    BY <2>1 DEF KInv, Undisturbed
<1>4. CASE Crash
  <2>1. crashes' = crashes + 1 /\ crashes \in Nat
    BY <1>4 DEF Crash, XInv, IInv, TypeOK
  <2>2. QED
    BY <2>1 DEF KInv, Undisturbed
<1>5. CASE UNCHANGED vars
  <2>1. UNCHANGED <<record, faults, crashes, phase, req, queue>>
    BY <1>5 DEF vars, store, handler, counters
  <2>2. QED
    BY <2>1, RestLinks
<1>6. QED
  BY <1>1, <1>2, <1>3, <1>4, <1>5, AdmitLinks, CallLinks DEF Next, Step, Admit

\* While nothing has failed, the links of both directions agree, from a store in which they do: no
\* ldp:contains link dangles, and no record is announced before its parent links to it.
THEOREM LinksAlwaysAgree ==
  ASSUME Exclusive,
         \A r \in Requests : r.method = "PATCH" => r.parent = Keep,
         \A k, c \in Records : Seed[k] # Nil /\ c \in Seed[k].members => ParentOf(Seed[c]) = k
  PROVE  Spec => []LinksAgree
<1>1. Init => KInv
  <2> SUFFICES ASSUME Init PROVE KInv
    OBVIOUS
  <2>1. (\A p \in Handlers : phase[p] = "idle") /\ record = Seed
    BY DEF Init
  <2>2. QED
    BY <2>1 DEF KInv, Linked
<1>2. XInv /\ AInv /\ [Next]_vars => AInv'
  BY StepTells
<1>3. XInv /\ AInv /\ KInv /\ [Next]_vars => KInv'
  BY StepLinks
<1>4. XInv /\ AInv /\ KInv => LinksAgree
  <2> SUFFICES ASSUME XInv, AInv, KInv, Undisturbed PROVE NoDanglingLinks /\ AnnouncedMembersLinked
    BY DEF LinksAgree
  <2>1. ASSUME NEW k \in Records, NEW c \in Records, Quiet(c), record[k] # Nil, c \in record[k].members
        PROVE  ParentOf(record[c]) = k
    <3>1. \A p \in Handlers : phase[p] = "run" => req[p].iri \in Footprint(p) /\ InFlight(p)
      BY NamedIsOwn, OwnInFootprint DEF XInv, InFlight
    <3>2. ~Running(c)
      BY <2>1, <3>1 DEF Running, Quiet
    <3>3. QED
      BY <2>1, <3>2 DEF KInv, Linked
  <2>2. ASSUME NEW p \in Handlers, HeadIs(p, "publish"), req[p].method \in {"PUT", "POST"},
               NEW iri, iri = req[p].iri, NEW parent, parent = ParentOf(record[iri])
        PROVE  (IF parent = Nil THEN Nil ELSE record[parent]) = Nil \/ iri \in record[parent].members
    <3>1. queue[p] # << >> /\ Head(queue[p]).do = "publish"
      BY <2>2 DEF HeadIs
    <3>2. phase[p] \in {"run", "undo"}
      BY <3>1, InHand
    <3>3. phase[p] = "run"
      BY <3>2 DEF AInv
    <3>4. queue[p] \in Seq(Call) /\ SavesFirst(queue[p])
      BY <3>3 DEF KInv, Links, XInv, IInv, TypeOK
    <3>5. \A d \in Pending(p) : d.do = "publish"
      <4>1. \A d \in CallsOf(Tail(queue[p])) : d.do = "publish"
        BY <3>1, <3>4, SavesRest
      <4>2. Pending(p) = {Head(queue[p])} \cup CallsOf(Tail(queue[p]))
        BY <3>1, <3>4, FirstAndRest DEF Pending
      <4>3. QED
        BY <3>1, <4>1, <4>2
    <3>6. Home(p) = parent
      BY <2>2, <3>1 DEF Home, After, OwnWrite, HeadIs
    <3>7. iri \in Records /\ parent \in Records \cup {Nil}
      <4>1. iri \in Records /\ record[iri] \in Graph \cup {Nil}
        BY <2>2, <3>3, Serving DEF XInv, IInv, TypeOK
      <4>2. QED
        BY <2>2, <4>1, GraphTypes
    <3>8. SUFFICES ASSUME parent \in Records, record[parent] # Nil, ~Linked(parent, iri) PROVE FALSE
      BY <3>7 DEF Linked
    <3>9. PICK d \in Pending(p) : Adds(d, parent, iri)
      BY <2>2, <3>3, <3>6, <3>8 DEF KInv, Links
    <3>10. QED
      BY <3>5, <3>9 DEF Adds
  <2>3. QED
    BY <2>1, <2>2 DEF NoDanglingLinks, AnnouncedMembersLinked
<1>5. Spec => []XInv
  BY HandlersUndisturbed
<1>6. QED
  BY <1>1, <1>2, <1>3, <1>4, <1>5, FirstTells, PTL DEF Spec
====

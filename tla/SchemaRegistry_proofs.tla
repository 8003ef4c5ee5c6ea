------------------------ MODULE SchemaRegistry_proofs ------------------------
(***************************************************************************)
(* What is proved of SchemaRegistry, for any schemas, shapes, processes    *)
(* and bounds, in three layers: types and resolving artifacts; then the    *)
(* coherence of the server's cache; then, with what a write that is alone  *)
(* finds of its schema, that versions, profiles, stamps and references     *)
(* agree and that snapshots stay as they are.                              *)
(***************************************************************************)
EXTENDS SchemaRegistry, TLAPS

\* What a process holds at the step it is about to take: a put has a shape to
\* write, a snapshot a version to be written under, and a profile is provisioned
\* for a version whose snapshot is there.
Fits(r, versions) ==
  /\ r.pc \in {"compare", "replace", "prior", "meta", "version", "snapshot"} => r.body \in Bodies
  /\ r.pc \in {"artifact", "wrap", "snapshot"} => r.v # 0
  /\ r.pc \in {"profile", "profsnap"} => r.v \in DOMAIN versions[r.s]

RegistersFit == \A p \in Procs : Fits(proc[p], snap)

\* The inductive invariant.
IInv == TypeOK /\ RegistersFit /\ ArtifactsResolve

\* A process that is free has nothing to hold.
LEMMA IdleFits ==
  /\ Idle \in Registers
  /\ \A versions : Fits(Idle, versions)
  /\ Idle.pc = "idle"
BY SMT DEF Idle, Registers, Fits, Steps, Ops, Writes, Closures

\* The registry begins with what the migrations seeded, and with idle processes.
LEMMA InitHolds == Init => IInv
<1> SUFFICES ASSUME Init PROVE IInv
  OBVIOUS
<1> USE SchemaAssumption
<1>1. TypeOK
  <2>1. /\ shape \in [Schemas -> Bodies \cup {Nil}]
        /\ meta \in [Schemas -> Nat] /\ prof \in [Schemas -> Nat]
    BY DEF Init
  <2>2. /\ DOMAIN snap = Schemas /\ DOMAIN profSnap = Schemas
        /\ \A s \in Schemas : DOMAIN snap[s] = {} /\ profSnap[s] = {}
    BY DEF Init
  <2>3. proc \in [Procs -> Registers] /\ \A p \in Procs : ~ Busy(p)
    BY IdleFits DEF Init, Busy
  <2>4. cache \in [Schemas -> Closures]
    BY DEF Init, Closures
  <2>5. QED
    BY <2>1, <2>2, <2>3, <2>4 DEF Init, TypeOK
<1>2. RegistersFit
  BY IdleFits DEF Init, RegistersFit
<1>3. ArtifactsResolve
  BY DEF Init, ArtifactsResolve
<1>4. QED
  BY <1>1, <1>2, <1>3 DEF IInv


\* The part of the invariant that speaks of registers, snapshots and profiles.
Core ==
  /\ proc \in [Procs -> Registers]
  /\ \A p \in Procs : Busy(p) => proc[p].s \in Schemas
  /\ RegistersFit /\ ArtifactsResolve

\* A process takes a step that leaves the snapshots and profiles alone.
LEMMA RegisterStep ==
  ASSUME IInv, NEW p \in Procs, NEW r \in Registers,
         r.pc = "idle" \/ r.s \in Schemas, Fits(r, snap),
         proc' = [proc EXCEPT ![p] = r], UNCHANGED <<snap, prof, profSnap>>
  PROVE  Core'
<1>1. proc' \in [Procs -> Registers]
  BY DEF IInv, TypeOK
<1>2. \A q \in Procs : Busy(q)' => proc'[q].s \in Schemas
  BY DEF IInv, TypeOK, Busy
<1>3. RegistersFit'
  BY DEF IInv, TypeOK, RegistersFit, Fits
<1>4. ArtifactsResolve'
  BY DEF IInv, ArtifactsResolve
<1>5. QED
  BY <1>1, <1>2, <1>3, <1>4 DEF Core

\* A process that ends holds nothing.
LEMMA DoneStep ==
  ASSUME IInv, NEW p \in Procs, Done(p), UNCHANGED <<snap, prof, profSnap>>
  PROVE  Core'
BY IdleFits, RegisterStep DEF Done

\* A process that goes on with the registers it has.
LEMMA GoStep ==
  ASSUME IInv, NEW p \in Procs, Busy(p), NEW pc \in Steps, Go(p, pc),
         Fits([proc[p] EXCEPT !.pc = pc], snap), UNCHANGED <<snap, prof, profSnap>>
  PROVE  Core'
<1> DEFINE r == [proc[p] EXCEPT !.pc = pc]
<1>1. r \in Registers /\ r.s \in Schemas
  BY DEF IInv, TypeOK, Registers
<1>2. proc' = [proc EXCEPT ![p] = r]
  BY DEF Go
<1>3. QED
  BY <1>1, <1>2, RegisterStep

\* What the registers of a busy process are.
LEMMA BusyRegisters ==
  ASSUME IInv, NEW p \in Procs, NEW pc \in Steps \ {"idle"}, At(p, pc)
  PROVE  /\ Busy(p) /\ proc[p] \in Registers /\ proc[p].s \in Schemas
         /\ proc[p].pc = pc /\ Fits(proc[p], snap)
BY DEF IInv, TypeOK, RegistersFit, At, Busy, Steps

\* Steps that read the store, or write no snapshot and no profile.
LEMMA ReadingStep ==
  ASSUME IInv, NEW p \in Procs,
         \/ Compare(p) \/ ReplaceShape(p) \/ ReadPrior(p) \/ WriteMeta(p) \/ ReadVersion(p)
         \/ Referenced(p) \/ Present(p) \/ DropShape(p) \/ DropMeta(p)
         \/ SchemaExists(p) \/ DropType(p) \/ Artifact(p) \/ EndSync(p)
  PROVE  Core'
<1> USE BusyRegisters DEF store
<1>1. CASE Compare(p)
  BY <1>1, DoneStep, GoStep DEF Compare, Fits, Steps, Registers
<1>2. CASE ReplaceShape(p)
  BY <1>2, GoStep DEF ReplaceShape, Fits, Steps, Registers
<1>3. CASE ReadPrior(p)
  <2> DEFINE r == [proc[p] EXCEPT !.pc = "meta", !.v = meta[proc[p].s]]
  <2>0. proc[p] \in Registers /\ proc[p].s \in Schemas /\ proc[p].body \in Bodies
    BY <1>3 DEF ReadPrior, At, Fits, Steps
  <2>1. r \in Registers /\ r.s \in Schemas /\ Fits(r, snap)
    BY <2>0 DEF IInv, TypeOK, Fits, Steps, Registers
  <2>2. proc' = [proc EXCEPT ![p] = r] /\ UNCHANGED <<snap, prof, profSnap>>
    BY <1>3 DEF ReadPrior
  <2>3. QED
    BY <2>1, <2>2, RegisterStep
<1>4. CASE WriteMeta(p)
  BY <1>4, GoStep DEF WriteMeta, Fits, Steps, Registers
<1>5. CASE ReadVersion(p)
  <2> DEFINE v == meta[proc[p].s]
             r == [proc[p] EXCEPT !.v = v, !.pc = IF v = 0 THEN "invalidate" ELSE "snapshot"]
  <2>1. r \in Registers /\ r.s \in Schemas /\ Fits(r, snap)
    BY <1>5 DEF ReadVersion, IInv, TypeOK, Fits, Steps, Registers
  <2>2. proc' = [proc EXCEPT ![p] = r] /\ UNCHANGED <<snap, prof, profSnap>>
    BY <1>5 DEF ReadVersion
  <2>3. QED
    BY <2>1, <2>2, RegisterStep
<1>6. CASE Referenced(p)
  BY <1>6, DoneStep, GoStep DEF Referenced, Fits, Steps, Registers
<1>7. CASE Present(p)
  BY <1>7, DoneStep, GoStep DEF Present, Fits, Steps, Registers
<1>8. CASE DropShape(p)
  BY <1>8, GoStep DEF DropShape, Fits, Steps, Registers
<1>9. CASE DropMeta(p)
  BY <1>9, GoStep DEF DropMeta, Fits, Steps, Registers
<1>10. CASE SchemaExists(p)
  BY <1>10, DoneStep, GoStep DEF SchemaExists, Fits, Steps, Registers
<1>11. CASE DropType(p)
  BY <1>11, DoneStep DEF DropType
<1>12. CASE Artifact(p)
  BY <1>12, GoStep DEF Artifact, Fits, Steps, Registers
<1>13. CASE EndSync(p)
  BY <1>13, DoneStep DEF EndSync
<1>14. QED
  BY <1>1, <1>2, <1>3, <1>4, <1>5, <1>6, <1>7, <1>8, <1>9, <1>10, <1>11, <1>12, <1>13

\* Steps of a load, of a validation and of the invalidation.
LEMMA LoadingStep ==
  ASSUME IInv, NEW p \in Procs,
         \/ Invalidate(p) \/ Fetch(p) \/ Store(p) \/ Validate(p) \/ Conform(p)
         \/ CurrentVersion(p) \/ Wrap(p) \/ Stamp(p) \/ SetType(p)
  PROVE  Core'
<1> USE BusyRegisters DEF store
<1> DEFINE load == BeginLoad(proc[p])
<1>0. ASSUME proc[p] \in Registers, proc[p].s \in Schemas
      PROVE  load \in Registers /\ load.s \in Schemas /\ Fits(load, snap)
  <2>1. load \in Registers /\ load.s \in Schemas /\ load.pc = "load"
    BY <1>0 DEF Steps, Registers, Closures, BeginLoad
  <2>2. QED
    BY <2>1 DEF Fits
<1>1. CASE Invalidate(p)
  <2>0. load \in Registers /\ load.s \in Schemas /\ Fits(load, snap)
    BY <1>0, <1>1 DEF Invalidate, At, Steps
  <2>1. CASE proc' = [proc EXCEPT ![p] = load]
    BY <1>1, <2>0, <2>1, RegisterStep DEF Invalidate
  <2>2. CASE Done(p)
    BY <1>1, <2>2, DoneStep DEF Invalidate
  <2>3. QED
    BY <1>1, <2>1, <2>2 DEF Invalidate
<1>2. CASE Fetch(p)
  <2>1. PICK m \in proc[p].pending :
          IF m = proc[p].s /\ shape[m] = Nil
          THEN Done(p)
          ELSE proc' = [proc EXCEPT ![p].pending = Pull(p, m),
                                    ![p].frags = @ \cup {<<m, shape[m]>>}]
    BY <1>2 DEF Fetch
  <2>2. CASE Done(p)
    BY <1>2, <2>2, DoneStep DEF Fetch
  <2>3. CASE proc' = [proc EXCEPT ![p].pending = Pull(p, m),
                                  ![p].frags = @ \cup {<<m, shape[m]>>}]
    <3> DEFINE r == [proc[p] EXCEPT !.pending = Pull(p, m), !.frags = @ \cup {<<m, shape[m]>>}]
    <3>1. proc[p] \in Registers /\ proc[p].s \in Schemas /\ proc[p].pc = "load"
      BY <1>2 DEF Fetch, Loading, At, Steps
    <3>2. m \in Schemas /\ shape[m] \in Bodies \cup {Nil}
      BY <3>1 DEF Registers, IInv, TypeOK
    <3>3. Pull(p, m) \in SUBSET Schemas
      BY <3>1, <3>2, SchemaAssumption DEF Pull, Refs, Registers
    <3>4. proc[p].frags \cup {<<m, shape[m]>>} \in Closures
      BY <3>1, <3>2 DEF Registers, Closures
    <3>5. r \in Registers /\ r.s \in Schemas /\ Fits(r, snap)
      BY <3>1, <3>3, <3>4 DEF Registers, Fits
    <3>6. proc' = [proc EXCEPT ![p] = r] /\ UNCHANGED <<snap, prof, profSnap>>
      BY <1>2, <2>3 DEF Fetch
    <3>7. QED
      BY <3>5, <3>6, RegisterStep
  <2>4. QED
    BY <2>1, <2>2, <2>3
<1>3. CASE Store(p)
  BY <1>3, DoneStep, GoStep DEF Store, Loading, Fits, Steps, Registers
<1>4. CASE Validate(p)
  <2> DEFINE r == [proc[p] EXCEPT !.pc = "conform", !.frags = cache[proc[p].s]]
  <2>0. proc[p] \in Registers /\ proc[p].s \in Schemas
    BY <1>4 DEF Validate, At, Steps
  <2>1. r \in Registers /\ r.s \in Schemas /\ Fits(r, snap)
    BY <2>0, ZenonT(40) DEF IInv, TypeOK, Fits, Steps, Registers
  <2>2. CASE proc' = [proc EXCEPT ![p] = r]
    <3>1. UNCHANGED <<snap, prof, profSnap>>
      BY <1>4 DEF Validate
    <3>2. QED
      BY <2>1, <2>2, <3>1, RegisterStep
  <2>3. CASE proc' = [proc EXCEPT ![p] = load]
    <3>1. load \in Registers /\ load.s \in Schemas /\ Fits(load, snap)
      BY <1>0, <2>0
    <3>2. UNCHANGED <<snap, prof, profSnap>>
      BY <1>4 DEF Validate
    <3>3. QED
      BY <2>3, <3>1, <3>2, RegisterStep
  <2>4. \/ cache[proc[p].s] # {} /\ proc' = [proc EXCEPT ![p] = r]
        \/ cache[proc[p].s] = {} /\ proc' = [proc EXCEPT ![p] = load]
    <3>1. CASE cache[proc[p].s] # {}
      BY <1>4, <3>1 DEF Validate
    <3>2. CASE cache[proc[p].s] = {}
      BY <1>4, <3>2 DEF Validate
    <3>3. QED
      BY <3>1, <3>2
  <2>5. QED
    BY <2>2, <2>3, <2>4
<1>5. CASE Conform(p)
  <2> DEFINE r == [proc[p] EXCEPT !.pc = "stamp", !.v = prof[proc[p].s]]
  <2>0. proc[p] \in Registers /\ proc[p].s \in Schemas
    BY <1>5 DEF Conform, At, Steps
  <2>1. r \in Registers /\ r.s \in Schemas /\ Fits(r, snap)
    BY <2>0 DEF IInv, TypeOK, Fits, Steps, Registers
  <2>2. CASE proc' = [proc EXCEPT ![p] = r]
    <3>1. UNCHANGED <<snap, prof, profSnap>>
      BY <1>5 DEF Conform
    <3>2. QED
      BY <2>1, <2>2, <3>1, RegisterStep
  <2>3. CASE Done(p)
    BY <1>5, <2>3, DoneStep DEF Conform
  <2>4. CASE Go(p, "current")
    BY <1>5, <2>4, GoStep DEF Conform, Fits, Steps, Registers
  <2>5. Done(p) \/ proc' = [proc EXCEPT ![p] = r] \/ Go(p, "current")
    <3>1. CASE prof[proc[p].s] # 0
      BY <1>5, <3>1 DEF Conform
    <3>2. CASE prof[proc[p].s] = 0
      BY <1>5, <3>2 DEF Conform, Go
    <3>3. QED
      BY <3>1, <3>2
  <2>6. QED
    BY <2>2, <2>3, <2>4, <2>5
<1>6. CASE CurrentVersion(p)
  <2> DEFINE r == [proc[p] EXCEPT !.pc = "artifact",
                                  !.v = IF meta[proc[p].s] = 0 THEN 1 ELSE meta[proc[p].s]]
  <2>0. proc[p] \in Registers /\ proc[p].s \in Schemas
    BY <1>6 DEF CurrentVersion, At, Steps
  <2>1. r.v \in Nat /\ r.v # 0 /\ r.pc = "artifact"
    BY <2>0 DEF IInv, TypeOK, Registers
  <2>2. r \in Registers /\ r.s \in Schemas
    BY <2>0, <2>1 DEF Steps, Registers
  <2>3. Fits(r, snap)
    BY <2>1 DEF Fits
  <2>4. proc' = [proc EXCEPT ![p] = r]
    BY <1>6 DEF CurrentVersion
  <2>5. QED
    BY <1>6, <2>2, <2>3, <2>4, RegisterStep DEF CurrentVersion
<1>7. CASE Wrap(p)
  <2> DEFINE r == [proc[p] EXCEPT !.pc = "snapshot", !.body = shape[proc[p].s]]
  <2>0. proc[p] \in Registers /\ proc[p].s \in Schemas /\ proc[p].v # 0
    BY <1>7 DEF Wrap, At, Fits, Steps
  <2>1. CASE Done(p)
    BY <1>7, <2>1, DoneStep DEF Wrap
  <2>2. CASE shape[proc[p].s] # Nil /\ proc' = [proc EXCEPT ![p] = r]
    <3>1. r \in Registers /\ r.s \in Schemas /\ Fits(r, snap)
      BY <2>0, <2>2 DEF IInv, TypeOK, Fits, Steps, Registers
    <3>2. QED
      BY <1>7, <2>2, <3>1, RegisterStep DEF Wrap
  <2>3. QED
    BY <1>7, <2>1, <2>2 DEF Wrap
<1>8. CASE Stamp(p)
  BY <1>8, DoneStep DEF Stamp
<1>9. CASE SetType(p)
  <2>0. load \in Registers /\ load.s \in Schemas /\ Fits(load, snap)
    BY <1>0, <1>9 DEF SetType, At, Steps
  <2>1. CASE Done(p)
    BY <1>9, <2>1, DoneStep DEF SetType
  <2>2. CASE proc' = [proc EXCEPT ![p] = load]
    BY <1>9, <2>0, <2>2, RegisterStep DEF SetType
  <2>3. Done(p) \/ proc' = [proc EXCEPT ![p] = load]
    <3>1. CASE cache[proc[p].s] # {}
      BY <1>9, <3>1 DEF SetType
    <3>2. CASE cache[proc[p].s] = {}
      BY <1>9, <3>2 DEF SetType
    <3>3. QED
      BY <3>1, <3>2
  <2>4. QED
    BY <2>1, <2>2, <2>3
<1>10. QED
  BY <1>1, <1>2, <1>3, <1>4, <1>5, <1>6, <1>7, <1>8, <1>9

\* Steps that write a snapshot, the stable profile or a profile snapshot.
LEMMA WritingStep ==
  ASSUME IInv, NEW p \in Procs,
         WriteSnapshot(p) \/ ProvisionProfile(p) \/ SnapshotProfile(p)
  PROVE  /\ Core'
         /\ prof' \in [Schemas -> Nat] /\ DOMAIN snap' = Schemas /\ DOMAIN profSnap' = Schemas
         /\ \A s \in Schemas :
              /\ DOMAIN snap'[s] \subseteq Nat \ {0}
              /\ \A v \in DOMAIN snap'[s] : snap'[s][v] \in Bodies
              /\ profSnap'[s] \subseteq Nat \ {0}
<1> DEFINE t == proc[p].s
           v == proc[p].v
<1>0. /\ proc[p] \in Registers /\ t \in Schemas /\ v \in Nat
      /\ At(p, "snapshot") => v # 0 /\ proc[p].body \in Bodies
      /\ At(p, "profile") \/ At(p, "profsnap") => v \in DOMAIN snap[t]
  BY BusyRegisters DEF WriteSnapshot, ProvisionProfile, SnapshotProfile, At, Fits, Steps, Registers
<1>1. ASSUME NEW pc \in Steps, Go(p, pc),
             \A s \in Schemas : DOMAIN snap[s] \subseteq DOMAIN snap'[s],
             pc \in {"profile", "profsnap"} => v \in DOMAIN snap'[t],
             pc \in {"profile", "profsnap", "stamp", "invalidate"}
      PROVE  /\ proc' \in [Procs -> Registers]
             /\ \A q \in Procs : Busy(q)' => proc'[q].s \in Schemas
             /\ RegistersFit'
  <2>1. proc' \in [Procs -> Registers]
    BY <1>0, <1>1 DEF Go, IInv, TypeOK, Registers
  <2>2. \A q \in Procs : /\ Busy(q)' => proc'[q].s \in Schemas
                         /\ q # p => proc'[q] = proc[q]
    BY <1>0, <1>1 DEF Go, IInv, TypeOK, Busy
  <2>3. Fits(proc'[p], snap')
    BY <1>0, <1>1 DEF Go, Fits, IInv, TypeOK, Registers
  <2>4. ASSUME NEW q \in Procs, q # p PROVE Fits(proc'[q], snap')
    <3>1. proc'[q] = proc[q] /\ Fits(proc[q], snap)
      BY <2>2, <2>4 DEF IInv, RegistersFit
    <3>2. proc[q].pc \in {"profile", "profsnap"} => proc[q].s \in Schemas
      BY DEF IInv, TypeOK, Busy
    <3>3. QED
      BY <1>1, <3>1, <3>2 DEF Fits
  <2>5. QED
    BY <2>1, <2>2, <2>3, <2>4 DEF RegistersFit
<1>2. CASE WriteSnapshot(p)
  <2>1. /\ snap' = [snap EXCEPT ![t] = With(snap[t], v, proc[p].body)]
        /\ v # 0 /\ proc[p].body \in Bodies
    BY <1>0, <1>2 DEF WriteSnapshot
  <2>2. /\ DOMAIN snap' = Schemas /\ t \in Schemas
        /\ snap'[t] = With(snap[t], v, proc[p].body)
        /\ \A s \in Schemas \ {t} : snap'[s] = snap[s]
    <3>1. DOMAIN snap = Schemas
      BY DEF IInv, TypeOK
    <3>2. QED
      BY <1>0, <2>1, <3>1
  <2>3. /\ DOMAIN snap'[t] = DOMAIN snap[t] \cup {v}
        /\ \A w \in DOMAIN snap'[t] : snap'[t][w] \in Bodies
    <3>1. /\ DOMAIN With(snap[t], v, proc[p].body) = DOMAIN snap[t] \cup {v}
          /\ With(snap[t], v, proc[p].body)[v] = proc[p].body
          /\ \A w \in DOMAIN snap[t] \ {v} : With(snap[t], v, proc[p].body)[w] = snap[t][w]
      BY DEF With
    <3>2. \A w \in DOMAIN snap[t] : snap[t][w] \in Bodies
      BY <1>0 DEF IInv, TypeOK
    <3>3. QED
      BY <2>1, <2>2, <3>1, <3>2
  <2>4. ArtifactsResolve'
    BY <1>0, <1>2, <2>2, <2>3 DEF WriteSnapshot, IInv, ArtifactsResolve
  <2>5. QED
    BY <1>0, <1>1, <1>2, <2>1, <2>2, <2>3, <2>4 DEF WriteSnapshot, Core, IInv, TypeOK, Steps
<1>3. CASE ProvisionProfile(p)
  <2>1. ArtifactsResolve' /\ prof' \in [Schemas -> Nat]
    BY <1>0, <1>3 DEF ProvisionProfile, IInv, TypeOK, ArtifactsResolve
  <2>2. QED
    BY <1>0, <1>1, <1>3, <2>1 DEF ProvisionProfile, Core, IInv, TypeOK, Steps
<1>4. CASE SnapshotProfile(p)
  <2>1. /\ ArtifactsResolve' /\ DOMAIN profSnap' = Schemas
        /\ \A s \in Schemas : profSnap'[s] \subseteq Nat \ {0}
    BY <1>0, <1>4 DEF SnapshotProfile, IInv, TypeOK, ArtifactsResolve
  <2>2. QED
    BY <1>0, <1>1, <1>4, <2>1 DEF SnapshotProfile, Core, IInv, TypeOK, Steps
<1>5. QED
  BY <1>2, <1>3, <1>4

\* A request arrives; the others keep all but what the history says of them.
LEMMA ArriveStep ==
  ASSUME IInv, NEW p \in Procs, NEW op \in Ops, NEW s \in Schemas, NEW body \in Bodies \cup {Nil},
         op \in {"put", "sync"} => body \in Bodies, Arrive(p, op, s, body)
  PROVE  Core'
<1> DEFINE rivals == {q \in Procs : Busy(q) /\ proc[q].s = s /\ {op, proc[q].op} \cap Writes # {}}
           new == [Idle EXCEPT !.pc = FirstStep(op), !.op = op, !.s = s, !.body = body,
                               !.alone = (rivals = {})]
           kept(q) == [proc[q] EXCEPT !.alone = @ /\ q \notin rivals]
<1>1. /\ proc' = [q \in Procs |-> IF q = p THEN new ELSE kept(q)]
      /\ UNCHANGED <<snap, prof, profSnap>>
  BY DEF Arrive, store
<1>2. new \in Registers /\ new.s \in Schemas /\ Fits(new, snap)
  <2>1. FirstStep(op) \in {"replace", "compare", "referenced", "validate", "exists", "untype"}
        /\ (FirstStep(op) \in {"replace", "compare"} => op \in {"put", "sync"})
    BY DEF FirstStep, Ops, Writes
  <2>2. new \in Registers /\ new.s = s /\ new.pc = FirstStep(op) /\ new.body = body
    BY <2>1, IdleFits, ZenonT(40) DEF Registers, Steps, Idle
  <2>3. QED
    BY <2>1, <2>2 DEF Fits
<1>3. ASSUME NEW q \in Procs
      PROVE  /\ kept(q) \in Registers /\ Fits(kept(q), snap)
             /\ kept(q).s = proc[q].s /\ kept(q).pc = proc[q].pc
  <2>1. proc[q] \in Registers /\ Fits(proc[q], snap)
    BY DEF IInv, TypeOK, RegistersFit
  <2>2. /\ kept(q) \in Registers /\ kept(q).s = proc[q].s /\ kept(q).pc = proc[q].pc
        /\ kept(q).v = proc[q].v /\ kept(q).body = proc[q].body
    BY <2>1 DEF Registers
  <2>3. QED
    BY <2>1, <2>2 DEF Fits
<1>4. proc' \in [Procs -> Registers] /\ RegistersFit'
  BY <1>1, <1>2, <1>3 DEF RegistersFit
<1>5. \A q \in Procs : Busy(q)' => proc'[q].s \in Schemas
  BY <1>1, <1>2, <1>3 DEF Busy, IInv, TypeOK
<1>6. ArtifactsResolve'
  BY <1>1 DEF IInv, ArtifactsResolve
<1>7. QED
  BY <1>4, <1>5, <1>6 DEF Core

\* Processes end.
LEMMA RestartStep ==
  ASSUME IInv, Restart
  PROVE  Core'
<1>1. /\ \A q \in Procs : proc'[q] \in {Idle, proc[q]}
      /\ proc' = [q \in Procs |-> proc'[q]] /\ UNCHANGED <<snap, prof, profSnap>>
  BY DEF Restart, store
<1>2. \A q \in Procs : proc'[q] \in Registers /\ Fits(proc'[q], snap)
  BY <1>1, IdleFits DEF IInv, TypeOK, RegistersFit
<1>3. proc' \in [Procs -> Registers] /\ RegistersFit'
  BY <1>1, <1>2 DEF RegistersFit
<1>4. \A q \in Procs : Busy(q)' => proc'[q].s \in Schemas
  BY <1>1, IdleFits DEF Busy, IInv, TypeOK
<1>5. ArtifactsResolve'
  BY <1>1 DEF IInv, ArtifactsResolve
<1>6. QED
  BY <1>3, <1>4, <1>5 DEF Core

\* The variables that Core does not speak of.
Rest ==
  /\ shape \in [Schemas -> Bodies \cup {Nil}]
  /\ meta \in [Schemas -> Nat]
  /\ typed \subseteq Schemas /\ cache \in [Schemas -> Closures]
  /\ stamps \subseteq [s : Schemas, v : Nat, body : Bodies \cup {Nil}]
  /\ torn \subseteq Schemas /\ missed \subseteq Schemas
  /\ deleted \subseteq Schemas /\ setBack \subseteq Schemas
  /\ requests \in Nat /\ faults \in Nat

\* A step keeps the shapes of what Core leaves out.
LEMMA RestStep ==
  ASSUME IInv, NEW p \in Procs, Step(p)
  PROVE  Rest'
<1> USE BusyRegisters DEF store, history
<1>1. Rest /\ proc[p] \in Registers /\ (Busy(p) => proc[p].s \in Schemas)
  BY DEF IInv, TypeOK, Rest
<1>2. Busy(p) => Mended(p) \subseteq Schemas /\ MadeGood(p) \subseteq Schemas
  BY <1>1 DEF Rest, Mended, MadeGood
<1>3. CASE Compare(p) \/ ReadPrior(p) \/ ReadVersion(p) \/ WriteSnapshot(p) \/ ProvisionProfile(p)
           \/ SnapshotProfile(p) \/ Fetch(p) \/ Referenced(p) \/ Present(p) \/ Validate(p)
           \/ Conform(p) \/ CurrentVersion(p) \/ Artifact(p) \/ Wrap(p) \/ SchemaExists(p)
  <2>1. UNCHANGED <<shape, meta, typed, cache, stamps, torn, missed, deleted, setBack, requests, faults>>
    BY <1>3 DEF Compare, ReadPrior, ReadVersion, WriteSnapshot, ProvisionProfile, SnapshotProfile,
                Fetch, Referenced, Present, Validate, Conform, CurrentVersion, Artifact, Wrap,
                SchemaExists
  <2>2. QED
    BY <1>1, <2>1 DEF Rest
<1>4. CASE ReplaceShape(p)
  <2>1. proc[p].s \in Schemas /\ proc[p].body \in Bodies
    BY <1>4 DEF ReplaceShape, At, Steps, Fits
  <2>2. QED
    BY <1>1, <1>4, <2>1 DEF ReplaceShape, Rest
<1>5. CASE WriteMeta(p)
  <2>0. meta \in [Schemas -> Nat] /\ proc[p].v + 1 \in Nat
    BY <1>1 DEF Rest, Registers
  <2>1. meta' \in [Schemas -> Nat]
    BY <1>5, <2>0 DEF WriteMeta
  <2>2. /\ UNCHANGED <<shape, typed, cache, stamps, torn, missed, deleted, requests, faults>>
        /\ setBack' \in {setBack, setBack \cup {proc[p].s}}
    BY <1>5 DEF WriteMeta, NoteVersion
  <2>a. proc[p].s \in Schemas
    BY <1>5 DEF WriteMeta, At, Steps
  <2>3. QED
    BY <1>1, <2>1, <2>2, <2>a DEF Rest
<1>6. CASE DropShape(p)
  <2>1. proc[p].s \in Schemas
    BY <1>6 DEF DropShape, At, Steps
  <2>2. QED
    BY <1>1, <1>6, <2>1 DEF DropShape, Rest
<1>7. CASE DropMeta(p)
  <2>1. proc[p].s \in Schemas
    BY <1>7 DEF DropMeta, At, Steps
  <2>2. QED
    BY <1>1, <1>7, <2>1 DEF DropMeta, NoteVersion, Rest
<1>8. CASE Invalidate(p)
  <2>1. Dropped(proc[p].s) \in [Schemas -> Closures]
    BY <1>1 DEF Dropped, Rest, Closures
  <2>2. Busy(p)
    BY <1>8 DEF Invalidate, At, Busy
  <2>3. QED
    BY <1>1, <1>2, <1>8, <2>1, <2>2 DEF Invalidate, Rest
<1>9. CASE EndSync(p)
  <2>1. Busy(p)
    BY <1>9 DEF EndSync, At, Busy
  <2>2. QED
    BY <1>1, <1>2, <1>9, <2>1 DEF EndSync, Rest
<1>10. CASE Store(p)
  BY <1>1, <1>10 DEF Store, Rest, Registers
<1>11. CASE Stamp(p)
  <2>1. proc[p].s \in Schemas
    BY <1>1, <1>11 DEF Stamp, At, Busy
  <2>2. \A pair \in proc[p].frags : pair[2] \in Bodies \cup {Nil}
    BY <1>1 DEF Registers, Closures
  <2>3. stamps' \subseteq [s : Schemas, v : Nat, body : Bodies \cup {Nil}]
    BY <1>1, <1>11, <2>1, <2>2 DEF Stamp, Rest, Registers
  <2>4. QED
    BY <1>1, <1>11, <2>3 DEF Stamp, Rest
<1>12. CASE SetType(p)
  <2>1. typed' \subseteq Schemas
    BY <1>1, <1>12 DEF SetType, At, Busy, Rest
  <2>2. UNCHANGED <<shape, meta, cache, stamps, torn, missed, deleted, setBack, requests, faults>>
    BY <1>12 DEF SetType
  <2>3. QED
    BY <1>1, <2>1, <2>2 DEF Rest
<1>13. CASE DropType(p)
  <2>1. typed' \subseteq Schemas
    BY <1>1, <1>13 DEF DropType, Rest
  <2>2. UNCHANGED <<shape, meta, cache, stamps, torn, missed, deleted, setBack, requests, faults>>
    BY <1>13 DEF DropType
  <2>3. QED
    BY <1>1, <2>1, <2>2 DEF Rest
<1>14. QED
  BY <1>3, <1>4, <1>5, <1>6, <1>7, <1>8, <1>9, <1>10, <1>11, <1>12, <1>13 DEF Step

\* The snapshots keep their type when they are not written.
LEMMA Assemble ==
  ASSUME IInv, Core', Rest', UNCHANGED <<snap, prof, profSnap>>
  PROVE  IInv'
BY DEF IInv, TypeOK, Core, Rest

\* Tearing a schema forgets stamps.
LEMMA TearTypes ==
  ASSUME IInv, NEW schemas \in SUBSET Schemas, Tear(schemas)
  PROVE  /\ torn' \subseteq Schemas
         /\ stamps' \subseteq [s : Schemas, v : Nat, body : Bodies \cup {Nil}]
BY DEF Tear, IInv, TypeOK

\* Every step keeps the invariant.
LEMMA NextHolds == IInv /\ [Next]_vars => IInv'
<1> SUFFICES ASSUME IInv, [Next]_vars PROVE IInv'
  OBVIOUS
<1> USE DEF store, history
<1>1. ASSUME NEW p \in Procs, Step(p) PROVE IInv'
  <2>1. Rest'
    BY <1>1, RestStep
  <2>2. CASE WriteSnapshot(p) \/ ProvisionProfile(p) \/ SnapshotProfile(p)
    BY <2>1, <2>2, WritingStep DEF IInv, TypeOK, Core, Rest
  <2>3. CASE \/ Compare(p) \/ ReplaceShape(p) \/ ReadPrior(p) \/ WriteMeta(p) \/ ReadVersion(p)
             \/ Referenced(p) \/ Present(p) \/ DropShape(p) \/ DropMeta(p)
             \/ SchemaExists(p) \/ DropType(p) \/ Artifact(p) \/ EndSync(p)
    <3>1. UNCHANGED <<snap, prof, profSnap>>
      BY <2>3 DEF Compare, ReplaceShape, ReadPrior, WriteMeta, ReadVersion, Referenced, Present,
                  DropShape, DropMeta, SchemaExists, DropType, Artifact, EndSync
    <3>2. QED
      BY <2>1, <2>3, <3>1, ReadingStep, Assemble
  <2>4. CASE \/ Invalidate(p) \/ Fetch(p) \/ Store(p) \/ Validate(p) \/ Conform(p)
             \/ CurrentVersion(p) \/ Wrap(p) \/ Stamp(p) \/ SetType(p)
    <3>1. UNCHANGED <<snap, prof, profSnap>>
      BY <2>4 DEF Invalidate, Fetch, Store, Validate, Conform, CurrentVersion, Wrap, Stamp, SetType
    <3>2. QED
      BY <2>1, <2>4, <3>1, LoadingStep, Assemble
  <2>5. QED
    BY <1>1, <2>2, <2>3, <2>4 DEF Step
<1>2. ASSUME NEW p \in Procs, Fail(p) PROVE IInv'
  <2>1. Core' /\ UNCHANGED <<snap, prof, profSnap>>
    BY <1>2, DoneStep DEF Fail
  <2>2. Broken({p}) \subseteq Schemas /\ Unseen({p}) \subseteq Schemas
    BY DEF Broken, Unseen, Midway, MidwaySteps, WillInvalidate, Busy, IInv, TypeOK
  <2>3. /\ torn' \subseteq Schemas
        /\ stamps' \subseteq [s : Schemas, v : Nat, body : Bodies \cup {Nil}]
    BY <1>2, <2>2, TearTypes DEF Fail
  <2>4. missed' \subseteq Schemas /\ faults' \in Nat
        /\ UNCHANGED <<shape, meta, typed, cache, deleted, setBack, requests>>
    <3>1. missed \subseteq Schemas /\ faults + 1 \in Nat
      BY DEF IInv, TypeOK
    <3>2. QED
      BY <1>2, <2>2, <3>1 DEF Fail
  <2>5. Rest'
    BY <2>3, <2>4 DEF IInv, TypeOK, Rest
  <2>6. QED
    BY <2>1, <2>5, Assemble
<1>3. ASSUME NEW p \in Procs, NEW op \in Ops, NEW s \in Schemas, NEW body \in Bodies \cup {Nil},
             op \in {"put", "sync"} => body \in Bodies, Arrive(p, op, s, body)
      PROVE  IInv'
  <2>1. Core'
    BY <1>3, ArriveStep
  <2>2. PICK schemas \in SUBSET Schemas : Tear(schemas)
    BY <1>3 DEF Arrive
  <2>3. /\ torn' \subseteq Schemas
        /\ stamps' \subseteq [s : Schemas, v : Nat, body : Bodies \cup {Nil}]
    BY <2>2, TearTypes
  <2>4. requests' \in Nat
        /\ UNCHANGED <<shape, meta, snap, prof, profSnap, typed, cache, missed, deleted, setBack, faults>>
    <3>1. requests + 1 \in Nat
      BY DEF IInv, TypeOK
    <3>2. QED
      BY <1>3, <3>1 DEF Arrive
  <2>5. Rest'
    BY <2>3, <2>4 DEF IInv, TypeOK, Rest
  <2>6. QED
    BY <2>1, <2>4, <2>5, Assemble
<1>4. CASE Restart
  <2>1. Core'
    BY <1>4, RestartStep
  <2>2. \A ps \in SUBSET Procs : Broken(ps) \subseteq Schemas
    BY DEF Broken, Midway, MidwaySteps, Busy, IInv, TypeOK
  <2>3. {} \in Closures
    BY DEF Closures
  <2>4. Rest' /\ UNCHANGED <<snap, prof, profSnap>>
    BY <1>4, <2>2, <2>3 DEF Restart, Tear, IInv, TypeOK, Rest
  <2>5. QED
    BY <2>1, <2>4, Assemble
<1>5. CASE UNCHANGED vars
  <2>1. UNCHANGED <<shape, meta, snap, prof, profSnap, typed, cache, proc, stamps, torn, missed,
                    deleted, setBack, requests, faults>>
    BY <1>5 DEF vars
  <2>2. QED
    BY <2>1 DEF IInv, TypeOK, RegistersFit, ArtifactsResolve, Busy
<1>6. QED
  <2>1. ASSUME NEW p \in Procs, NEW s \in Schemas,
               \/ \E op \in {"put", "sync"}, body \in Bodies : Arrive(p, op, s, body)
               \/ \E op \in Ops \ {"put", "sync"} : Arrive(p, op, s, Nil)
        PROVE  IInv'
    BY <1>3, <2>1 DEF Ops, Writes
  <2>2. QED
    BY <1>1, <1>2, <1>4, <1>5, <2>1 DEF Next

\* The registers of every process fit the store, and artifacts resolve, in every
\* reachable state: any processes, schemas and bodies.
THEOREM InvariantHolds == Spec => []IInv
<1>1. QED
  BY InitHolds, NextHolds, PTL DEF Spec

\* Type correctness.
THEOREM TypeCorrect == Spec => []TypeOK
<1>1. IInv => TypeOK
  BY DEF IInv
<1>2. QED
  BY <1>1, InvariantHolds, PTL

\* Whatever requests overlap, fail or are cut off by a restart, the artifact that a
\* profile or a profile snapshot names is there.
THEOREM ArtifactsAlwaysResolve == Spec => []ArtifactsResolve
<1>1. IInv => ArtifactsResolve
  BY DEF IInv
<1>2. QED
  BY <1>1, InvariantHolds, PTL

-----------------------------------------------------------------------------
(* The cache.                                                              *)

\* A shape is as it was fetched, or the history knows that it was overlooked.
Fresh(pair) == shape[pair[1]] = pair[2] \/ pair[1] \in missed

\* Which request may be at which step; a sync does not use the server's validator.
OpFits(r) ==
  /\ r.pc \in {"validate", "exists", "settype", "load"} => r.op # "sync"
  /\ r.pc \in {"compare", "replace"} => r.op \in {"put", "sync"}
  /\ r.pc \in {"referenced", "present", "drop"} => r.op = "delete"

\* What a load has fetched so far is fresh.
LoadsFresh ==
  \A p \in Procs : /\ OpFits(proc[p])
                   /\ Loading(p) => \A pair \in proc[p].frags : Fresh(pair)

CInv == IInv /\ CacheCoherent /\ LoadsFresh

\* A step that changes no shape: what enters the cache is fresh, and a write that
\* will invalidate its schema goes on to do so.
LEMMA QuietStep ==
  ASSUME CInv, NEW p \in Procs, NEW r, proc' = [proc EXCEPT ![p] = r],
         UNCHANGED <<shape, missed>>, OpFits(r),
         r.pc = "load" => \A pair \in r.frags : Fresh(pair),
         \A root \in Schemas : \A pair \in cache'[root] : pair \in cache[root] \/ Fresh(pair),
         Midway(p) /\ proc[p].op \in {"put", "delete"}
           => r.pc \in MidwaySteps /\ r.s = proc[p].s /\ r.op = proc[p].op
  PROVE  CacheCoherent' /\ LoadsFresh'
<1>1. /\ proc'[p] = r
      /\ \A q \in Procs \ {p} : proc'[q] = proc[q]
  BY DEF CInv, IInv, TypeOK
<1>2. \A q \in Procs : \A s : WillInvalidate(q, s) => WillInvalidate(q, s)'
  BY <1>1 DEF WillInvalidate, Midway
<1>3. CacheCoherent'
  BY <1>2 DEF CInv, CacheCoherent, Fresh
<1>4. LoadsFresh'
  BY <1>1 DEF CInv, LoadsFresh, Loading, At, Fresh
<1>5. QED
  BY <1>3, <1>4

\* A process that ends, and will invalidate nothing.
LEMMA QuietDone ==
  ASSUME CInv, NEW p \in Procs, Done(p), UNCHANGED <<shape, missed>>,
         \A root \in Schemas : \A pair \in cache'[root] : pair \in cache[root] \/ Fresh(pair),
         Midway(p) => proc[p].op \notin {"put", "delete"}
  PROVE  CacheCoherent' /\ LoadsFresh'
<1>1. OpFits(Idle) /\ Idle.pc # "load"
  BY DEF OpFits, Idle
<1>2. QED
  BY <1>1, QuietStep DEF Done

\* A process that goes on to a step which is no load.
LEMMA QuietGo ==
  ASSUME CInv, NEW p \in Procs, NEW pc, Go(p, pc), UNCHANGED <<shape, missed>>, pc # "load",
         OpFits([proc[p] EXCEPT !.pc = pc]),
         \A root \in Schemas : \A pair \in cache'[root] : pair \in cache[root] \/ Fresh(pair),
         Midway(p) /\ proc[p].op \in {"put", "delete"} => pc \in MidwaySteps
  PROVE  CacheCoherent' /\ LoadsFresh'
<1> DEFINE r == [proc[p] EXCEPT !.pc = pc]
<1>1. proc[p] \in Registers
  BY DEF CInv, IInv, TypeOK
<1>2. r.pc = pc /\ r.s = proc[p].s /\ r.op = proc[p].op
  BY <1>1 DEF Registers
<1>3. proc' = [proc EXCEPT ![p] = r]
  BY DEF Go
<1>4. QED
  BY <1>2, <1>3, QuietStep

\* Steps of a write between its first store call and its invalidation, and steps
\* that decide whether there is a write.
LEMMA WritesStayFresh ==
  ASSUME CInv, NEW p \in Procs,
         \/ Compare(p) \/ ReadPrior(p) \/ WriteMeta(p) \/ ReadVersion(p) \/ WriteSnapshot(p)
         \/ ProvisionProfile(p) \/ SnapshotProfile(p) \/ EndSync(p) \/ Referenced(p) \/ Present(p)
         \/ DropMeta(p) \/ SchemaExists(p) \/ DropType(p) \/ Artifact(p)
  PROVE  CacheCoherent' /\ LoadsFresh'
<1> USE DEF store, history
<1>0. proc[p] \in Registers /\ OpFits(proc[p])
  BY DEF CInv, IInv, TypeOK, LoadsFresh
<1>1. CASE Compare(p)
  BY <1>0, <1>1, QuietDone, QuietGo DEF Compare, At, Midway, MidwaySteps, OpFits, Registers
<1>2. CASE ReadPrior(p)
  <2> DEFINE r == [proc[p] EXCEPT !.pc = "meta", !.v = meta[proc[p].s]]
  <2>1. r.pc = "meta" /\ r.s = proc[p].s /\ r.op = proc[p].op
    BY <1>0 DEF Registers
  <2>2. OpFits(r)
    BY <2>1 DEF OpFits
  <2>3. proc' = [proc EXCEPT ![p] = r] /\ UNCHANGED <<shape, missed, cache>>
    BY <1>2 DEF ReadPrior
  <2>4. QED
    BY <2>1, <2>2, <2>3, QuietStep DEF MidwaySteps
<1>3. CASE WriteMeta(p)
  BY <1>0, <1>3, QuietGo DEF WriteMeta, NoteVersion, At, Midway, MidwaySteps, OpFits, Registers
<1>4. CASE ReadVersion(p)
  <2> DEFINE v == meta[proc[p].s]
             r == [proc[p] EXCEPT !.v = v, !.pc = IF v = 0 THEN "invalidate" ELSE "snapshot"]
  <2>1. r.pc \in {"invalidate", "snapshot"} /\ r.s = proc[p].s /\ r.op = proc[p].op
    BY <1>0 DEF Registers
  <2>2. OpFits(r)
    BY <2>1 DEF OpFits
  <2>3. proc' = [proc EXCEPT ![p] = r] /\ UNCHANGED <<shape, missed, cache>>
    BY <1>4 DEF ReadVersion
  <2>4. QED
    BY <2>1, <2>2, <2>3, QuietStep DEF MidwaySteps
<1>5. CASE WriteSnapshot(p)
  BY <1>0, <1>5, QuietGo DEF WriteSnapshot, At, Midway, MidwaySteps, OpFits, Registers
<1>6. CASE ProvisionProfile(p)
  BY <1>0, <1>6, QuietGo DEF ProvisionProfile, At, Midway, MidwaySteps, OpFits, Registers
<1>7. CASE SnapshotProfile(p)
  BY <1>0, <1>7, QuietGo DEF SnapshotProfile, At, Midway, MidwaySteps, OpFits, Registers
<1>8. CASE EndSync(p)
  BY <1>8, QuietDone DEF EndSync
<1>9. CASE Referenced(p)
  BY <1>0, <1>9, QuietDone, QuietGo DEF Referenced, At, Midway, MidwaySteps, OpFits, Registers
<1>10. CASE Present(p)
  BY <1>0, <1>10, QuietDone, QuietGo DEF Present, At, Midway, MidwaySteps, OpFits, Registers
<1>11. CASE DropMeta(p)
  BY <1>0, <1>11, QuietGo DEF DropMeta, NoteVersion, At, Midway, MidwaySteps, OpFits, Registers
<1>12. CASE SchemaExists(p)
  BY <1>0, <1>12, QuietDone, QuietGo DEF SchemaExists, At, Midway, MidwaySteps, OpFits, Registers
<1>13. CASE DropType(p)
  BY <1>13, QuietDone DEF DropType, At, Midway, MidwaySteps
<1>14. CASE Artifact(p)
  BY <1>0, <1>14, QuietGo DEF Artifact, At, Midway, MidwaySteps, OpFits, Registers
<1>15. QED
  BY <1>1, <1>2, <1>3, <1>4, <1>5, <1>6, <1>7, <1>8, <1>9, <1>10, <1>11, <1>12, <1>13, <1>14

\* Steps of a load and of a record write.
LEMMA LoadsStayFresh ==
  ASSUME CInv, NEW p \in Procs,
         \/ Fetch(p) \/ Store(p) \/ Validate(p) \/ Conform(p)
         \/ CurrentVersion(p) \/ Wrap(p) \/ Stamp(p) \/ SetType(p)
  PROVE  CacheCoherent' /\ LoadsFresh'
<1> USE DEF store, history
<1>0. /\ proc[p] \in Registers /\ OpFits(proc[p])
      /\ Loading(p) => \A pair \in proc[p].frags : Fresh(pair)
  BY DEF CInv, IInv, TypeOK, LoadsFresh
<1> DEFINE load == BeginLoad(proc[p])
<1>a. /\ load.pc = "load" /\ load.frags = {} /\ load.op = proc[p].op
      /\ proc[p].op # "sync" => OpFits(load)
  <2>1. load.pc = "load" /\ load.frags = {} /\ load.op = proc[p].op
    BY <1>0 DEF BeginLoad, Registers
  <2>2. QED
    BY <2>1 DEF OpFits
<1>1. CASE Fetch(p)
  <2>1. PICK m \in proc[p].pending :
          IF m = proc[p].s /\ shape[m] = Nil
          THEN Done(p)
          ELSE proc' = [proc EXCEPT ![p].pending = Pull(p, m),
                                    ![p].frags = @ \cup {<<m, shape[m]>>}]
    BY <1>1 DEF Fetch
  <2>2. Loading(p) /\ ~ Midway(p) /\ UNCHANGED <<shape, missed, cache>>
    BY <1>1 DEF Fetch, Loading, At, Midway, MidwaySteps
  <2>3. CASE Done(p)
    BY <2>2, <2>3, QuietDone
  <2>4. CASE proc' = [proc EXCEPT ![p].pending = Pull(p, m),
                                  ![p].frags = @ \cup {<<m, shape[m]>>}]
    <3> DEFINE r == [proc[p] EXCEPT !.pending = Pull(p, m), !.frags = @ \cup {<<m, shape[m]>>}]
    <3>1. r.pc = proc[p].pc /\ r.op = proc[p].op
          /\ r.frags = proc[p].frags \cup {<<m, shape[m]>>}
      BY <1>0 DEF Registers
    <3>2. OpFits(r) /\ \A pair \in r.frags : Fresh(pair)
      BY <1>0, <2>2, <3>1 DEF OpFits, Fresh
    <3>3. proc' = [proc EXCEPT ![p] = r]
      BY <2>4
    <3>4. QED
      BY <2>2, <3>2, <3>3, QuietStep
  <2>5. QED
    BY <2>1, <2>3, <2>4
<1>2. CASE Store(p)
  <2>1. /\ Loading(p) /\ ~ Midway(p) /\ UNCHANGED <<shape, missed>>
        /\ \A root \in Schemas : \A pair \in cache'[root] : pair \in cache[root] \/ Fresh(pair)
    BY <1>0, <1>2 DEF Store, Loading, At, Midway, MidwaySteps, CInv, IInv, TypeOK
  <2>2. CASE Done(p)
    BY <2>1, <2>2, QuietDone
  <2>3. CASE Go(p, "conform")
    <3>1. OpFits([proc[p] EXCEPT !.pc = "conform"])
      BY <1>0 DEF OpFits, Registers
    <3>2. QED
      BY <2>1, <2>3, <3>1, QuietGo
  <2>4. QED
    BY <1>2, <2>2, <2>3 DEF Store
<1>3. CASE Validate(p)
  <2> DEFINE r == [proc[p] EXCEPT !.pc = "conform", !.frags = cache[proc[p].s]]
  <2>1. /\ ~ Midway(p) /\ proc[p].op # "sync" /\ UNCHANGED <<shape, missed, cache>>
    BY <1>0, <1>3 DEF Validate, At, Midway, MidwaySteps, OpFits
  <2>2. r.pc = "conform" /\ OpFits(r)
    BY <1>0 DEF OpFits, Registers
  <2>3. proc' = [proc EXCEPT ![p] = r] \/ proc' = [proc EXCEPT ![p] = load]
    <3>1. CASE cache[proc[p].s] # {}
      BY <1>3, <3>1 DEF Validate
    <3>2. CASE cache[proc[p].s] = {}
      BY <1>3, <3>2 DEF Validate
    <3>3. QED
      BY <3>1, <3>2
  <2>4. CASE proc' = [proc EXCEPT ![p] = r]
    BY <2>1, <2>2, <2>4, QuietStep
  <2>5. CASE proc' = [proc EXCEPT ![p] = load]
    BY <1>a, <2>1, <2>5, QuietStep
  <2>6. QED
    BY <2>3, <2>4, <2>5
<1>4. CASE Conform(p)
  <2> DEFINE r == [proc[p] EXCEPT !.pc = "stamp", !.v = prof[proc[p].s]]
  <2>1. ~ Midway(p) /\ UNCHANGED <<shape, missed, cache>>
    BY <1>4 DEF Conform, At, Midway, MidwaySteps
  <2>2. r.pc = "stamp" /\ OpFits(r) /\ OpFits([proc[p] EXCEPT !.pc = "current"])
    BY <1>0 DEF OpFits, Registers
  <2>3. Done(p) \/ proc' = [proc EXCEPT ![p] = r] \/ Go(p, "current")
    <3>1. CASE prof[proc[p].s] # 0
      BY <1>4, <3>1 DEF Conform
    <3>2. CASE prof[proc[p].s] = 0
      BY <1>4, <3>2 DEF Conform, Go
    <3>3. QED
      BY <3>1, <3>2
  <2>4. CASE proc' = [proc EXCEPT ![p] = r]
    BY <2>1, <2>2, <2>4, QuietStep
  <2>5. CASE Done(p)
    BY <2>1, <2>5, QuietDone
  <2>6. CASE Go(p, "current")
    BY <2>1, <2>2, <2>6, QuietGo
  <2>7. QED
    BY <2>3, <2>4, <2>5, <2>6
<1>5. CASE CurrentVersion(p)
  <2> DEFINE r == [proc[p] EXCEPT !.pc = "artifact",
                                  !.v = IF meta[proc[p].s] = 0 THEN 1 ELSE meta[proc[p].s]]
  <2>1. ~ Midway(p) /\ proc' = [proc EXCEPT ![p] = r] /\ UNCHANGED <<shape, missed, cache>>
    BY <1>5 DEF CurrentVersion, At, Midway, MidwaySteps
  <2>2. r.pc = "artifact" /\ OpFits(r)
    BY <1>0 DEF OpFits, Registers
  <2>3. QED
    BY <2>1, <2>2, QuietStep
<1>6. CASE Wrap(p)
  <2> DEFINE r == [proc[p] EXCEPT !.pc = "snapshot", !.body = shape[proc[p].s]]
  <2>1. ~ Midway(p) /\ UNCHANGED <<shape, missed, cache>>
    BY <1>6 DEF Wrap, At, Midway, MidwaySteps
  <2>2. r.pc = "snapshot" /\ OpFits(r)
    BY <1>0 DEF OpFits, Registers
  <2>3. CASE Done(p)
    BY <2>1, <2>3, QuietDone
  <2>4. CASE proc' = [proc EXCEPT ![p] = r]
    BY <2>1, <2>2, <2>4, QuietStep
  <2>5. QED
    BY <1>6, <2>3, <2>4 DEF Wrap
<1>7. CASE Stamp(p)
  BY <1>7, QuietDone DEF Stamp, At, Midway, MidwaySteps
<1>8. CASE SetType(p)
  <2>1. ~ Midway(p) /\ proc[p].op # "sync" /\ UNCHANGED <<shape, missed, cache>>
    BY <1>0, <1>8 DEF SetType, At, Midway, MidwaySteps, OpFits
  <2>2. CASE Done(p)
    BY <2>1, <2>2, QuietDone
  <2>3. CASE proc' = [proc EXCEPT ![p] = load]
    BY <1>a, <2>1, <2>3, QuietStep
  <2>4. Done(p) \/ proc' = [proc EXCEPT ![p] = load]
    <3>1. CASE cache[proc[p].s] # {}
      BY <1>8, <3>1 DEF SetType
    <3>2. CASE cache[proc[p].s] = {}
      BY <1>8, <3>2 DEF SetType
    <3>3. QED
      BY <3>1, <3>2
  <2>5. QED
    BY <2>2, <2>3, <2>4
<1>9. QED
  BY <1>1, <1>2, <1>3, <1>4, <1>5, <1>6, <1>7, <1>8

\* A write begins by changing its shape: what holds the old one is going to be
\* dropped, or is known to be overlooked.
LEMMA ChangeStaysFresh ==
  ASSUME CInv, NEW p \in Procs, ReplaceShape(p) \/ DropShape(p)
  PROVE  CacheCoherent' /\ LoadsFresh'
<1> DEFINE s == proc[p].s
<1>1. /\ proc[p] \in Registers /\ OpFits(proc[p]) /\ s \in Schemas
      /\ ~ Midway(p) /\ proc[p].op \in Writes
  BY DEF CInv, IInv, TypeOK, LoadsFresh, ReplaceShape, DropShape, At, Busy, Midway, MidwaySteps,
         OpFits, Writes
<1>2. PICK pc \in {"prior", "dropmeta"} : Go(p, pc)
  BY DEF ReplaceShape, DropShape
<1>3. /\ proc'[p].pc \in {"prior", "dropmeta"} /\ proc'[p].s = s /\ proc'[p].op = proc[p].op
      /\ \A q \in Procs \ {p} : proc'[q] = proc[q]
  BY <1>1, <1>2 DEF Go, CInv, IInv, TypeOK, Registers
<1>4. /\ \A m \in Schemas \ {s} : shape'[m] = shape[m]
      /\ missed \subseteq missed' /\ (Overlooked(p) => s \in missed')
      /\ UNCHANGED cache
  BY <1>1 DEF ReplaceShape, DropShape, CInv, IInv, TypeOK
<1>5. CacheCoherent'
  <2> SUFFICES ASSUME NEW root \in Schemas, NEW pair \in cache[root]
               PROVE  \/ shape'[pair[1]] = pair[2]
                      \/ pair[1] \in missed'
                      \/ \E q \in Procs : WillInvalidate(q, pair[1])'
    BY <1>4 DEF CacheCoherent
  <2>1. pair[1] \in Schemas
    BY DEF CInv, IInv, TypeOK, Closures
  <2>2. CASE pair[1] = s
    <3>1. CASE proc[p].op = "sync"
      BY <1>4, <2>2, <3>1 DEF Overlooked
    <3>2. CASE proc[p].op # "sync"
      BY <1>1, <1>3, <2>2, <3>2 DEF WillInvalidate, Midway, MidwaySteps, Writes
    <3>3. QED
      BY <3>1, <3>2
  <2>3. CASE pair[1] # s
    <3>1. \A q \in Procs : WillInvalidate(q, pair[1]) => WillInvalidate(q, pair[1])'
      BY <1>1, <1>3 DEF WillInvalidate, Midway
    <3>2. QED
      BY <1>4, <2>1, <2>3, <3>1 DEF CInv, CacheCoherent
  <2>4. QED
    BY <2>2, <2>3
<1>6. LoadsFresh'
  <2>1. OpFits(proc'[p]) /\ ~ Loading(p)'
    BY <1>3 DEF OpFits, Loading, At
  <2>2. ASSUME NEW q \in Procs \ {p}, Loading(q), NEW pair \in proc[q].frags
        PROVE  Fresh(pair)'
    <3>1. s \in missed' /\ pair[1] \in Schemas
      BY <1>4, <2>2 DEF Overlooked, CInv, IInv, TypeOK, Registers, Closures
    <3>2. QED
      BY <1>4, <2>2, <3>1 DEF Fresh, CInv, LoadsFresh
  <2>3. QED
    BY <1>3, <2>1, <2>2 DEF LoadsFresh, CInv, Loading, At
<1>7. QED
  BY <1>5, <1>6

\* A write ends by dropping what holds its schema; a load in flight keeps what the
\* history says of it.
LEMMA InvalidationStaysFresh ==
  ASSUME CInv, NEW p \in Procs, Invalidate(p)
  PROVE  CacheCoherent' /\ LoadsFresh'
<1> USE DEF store, history
<1> DEFINE s == proc[p].s
           load == BeginLoad(proc[p])
<1>1. /\ proc[p] \in Registers /\ OpFits(proc[p]) /\ s \in Schemas
      /\ ~ Loading(p) /\ proc[p].op \in {"put", "delete"}
  BY DEF CInv, IInv, TypeOK, LoadsFresh, Invalidate, At, Busy, Loading
<1>2. /\ UNCHANGED shape /\ cache' = Dropped(s)
      /\ missed \ {s} \subseteq missed'
      /\ \A q \in Procs : Loading(q) => missed' = missed
  BY DEF Invalidate, MadeGood
<1>3. /\ OpFits(proc'[p]) /\ (Loading(p)' => proc'[p].frags = {})
      /\ \A q \in Procs \ {p} : proc'[q] = proc[q]
  <2>1. CASE proc' = [proc EXCEPT ![p] = load]
    <3>1. load.pc = "load" /\ load.frags = {} /\ load.op = proc[p].op
      BY <1>1 DEF BeginLoad, Registers
    <3>2. proc'[p] = load /\ \A q \in Procs \ {p} : proc'[q] = proc[q]
      BY <2>1 DEF CInv, IInv, TypeOK
    <3>3. OpFits(load)
      BY <1>1, <3>1 DEF OpFits
    <3>4. QED
      BY <3>1, <3>2, <3>3
  <2>2. CASE Done(p)
    <3>1. proc'[p] = Idle /\ \A q \in Procs \ {p} : proc'[q] = proc[q]
      BY <2>2 DEF Done, CInv, IInv, TypeOK
    <3>2. OpFits(Idle) /\ Idle.pc # "load"
      BY DEF OpFits, Idle
    <3>3. QED
      BY <3>1, <3>2 DEF Loading, At
  <2>3. QED
    BY <2>1, <2>2 DEF Invalidate
<1>4. CacheCoherent'
  <2> SUFFICES ASSUME NEW root \in Schemas, NEW pair \in cache'[root]
               PROVE  \/ shape'[pair[1]] = pair[2]
                      \/ pair[1] \in missed'
                      \/ \E q \in Procs : WillInvalidate(q, pair[1])'
    BY DEF CacheCoherent
  <2>1. pair \in cache[root] /\ pair[1] # s
    BY <1>2 DEF Dropped, Members
  <2>2. \A q \in Procs : WillInvalidate(q, pair[1]) => WillInvalidate(q, pair[1])'
    BY <1>3, <2>1 DEF WillInvalidate, Midway
  <2>3. QED
    BY <1>2, <2>1, <2>2 DEF CInv, CacheCoherent
<1>5. LoadsFresh'
  BY <1>2, <1>3 DEF LoadsFresh, CInv, Loading, At, Fresh
<1>6. QED
  BY <1>4, <1>5

\* An arrival touches no shape and no closure, and begins no load.
LEMMA ArrivalStaysFresh ==
  ASSUME CInv, NEW p \in Procs, NEW op \in Ops, NEW s \in Schemas, NEW body, Arrive(p, op, s, body)
  PROVE  CacheCoherent' /\ LoadsFresh'
<1>1. UNCHANGED <<shape, cache, missed>> /\ ~ Busy(p)
  BY DEF Arrive, store
<1>2. \A q \in Procs \ {p} :
        /\ proc'[q].pc = proc[q].pc /\ proc'[q].op = proc[q].op /\ proc'[q].s = proc[q].s
        /\ proc'[q].frags = proc[q].frags
  <2> SUFFICES ASSUME NEW q \in Procs \ {p}
               PROVE  /\ proc'[q].pc = proc[q].pc /\ proc'[q].op = proc[q].op
                      /\ proc'[q].s = proc[q].s /\ proc'[q].frags = proc[q].frags
    OBVIOUS
  <2>1. \E alone : proc'[q] = [proc[q] EXCEPT !.alone = alone]
    BY DEF Arrive
  <2>2. proc[q] \in Registers
    BY DEF CInv, IInv, TypeOK
  <2>3. QED
    BY <2>1, <2>2 DEF Registers
<1>3. proc'[p].pc = FirstStep(op) /\ proc'[p].op = op
  BY DEF Arrive, Idle
<1>4. OpFits(proc'[p]) /\ proc'[p].pc # "load"
  BY <1>3 DEF FirstStep, OpFits, Ops, Writes
<1>5. CacheCoherent'
  <2>1. ~ Midway(p)
    BY <1>1 DEF Busy, Midway, MidwaySteps
  <2>2. \A q \in Procs : \A m : WillInvalidate(q, m) => WillInvalidate(q, m)'
    BY <1>2, <2>1 DEF WillInvalidate, Midway
  <2>3. QED
    BY <1>1, <2>2 DEF CInv, CacheCoherent
<1>6. LoadsFresh'
  <2>1. ASSUME NEW q \in Procs \ {p}
        PROVE  OpFits(proc'[q]) /\ (Loading(q)' => \A pair \in proc'[q].frags : Fresh(pair)')
    BY <1>1, <1>2 DEF CInv, LoadsFresh, OpFits, Loading, At, Fresh
  <2>2. QED
    BY <1>4, <2>1 DEF LoadsFresh, Loading, At
<1>7. QED
  BY <1>5, <1>6

\* A write that fails before its invalidation is known to be overlooked.
LEMMA FailureStaysFresh ==
  ASSUME CInv, NEW p \in Procs, Fail(p)
  PROVE  CacheCoherent' /\ LoadsFresh'
<1>1. /\ UNCHANGED <<shape, cache>> /\ missed \subseteq missed'
      /\ \A m : WillInvalidate(p, m) => m \in missed'
  BY DEF Fail, store, Unseen, WillInvalidate
<1>2. proc'[p] = Idle /\ \A q \in Procs \ {p} : proc'[q] = proc[q]
  BY DEF Fail, Done, CInv, IInv, TypeOK
<1>3. OpFits(Idle) /\ Idle.pc # "load"
  BY DEF OpFits, Idle
<1>4. CacheCoherent'
  <2>1. \A q \in Procs : \A m : WillInvalidate(q, m) => m \in missed' \/ WillInvalidate(q, m)'
    BY <1>1, <1>2 DEF WillInvalidate, Midway
  <2>2. QED
    BY <1>1, <2>1 DEF CInv, CacheCoherent
<1>5. LoadsFresh'
  BY <1>1, <1>2, <1>3 DEF LoadsFresh, CInv, Loading, At, Fresh
<1>6. QED
  BY <1>4, <1>5

\* The server restarts with an empty cache, and without the loads it had begun.
LEMMA RestartStaysFresh ==
  ASSUME CInv, Restart
  PROVE  CacheCoherent' /\ LoadsFresh'
<1>1. CacheCoherent'
  BY DEF Restart, CacheCoherent
<1>2. OpFits(Idle) /\ Idle.pc # "load"
  BY DEF OpFits, Idle
<1>3. \A p \in Procs : proc'[p] = Idle \/ (proc'[p] = proc[p] /\ ~ Loading(p))
  BY DEF Restart, CInv, LoadsFresh, OpFits, Busy, Loading, At
<1>4. LoadsFresh'
  BY <1>2, <1>3 DEF LoadsFresh, CInv, Loading, At
<1>5. QED
  BY <1>1, <1>4

\* The closure cache starts empty.
LEMMA CacheInitHolds == Init => CInv
<1> SUFFICES ASSUME Init PROVE CInv
  OBVIOUS
<1>1. OpFits(Idle) /\ Idle.pc # "load"
  BY DEF OpFits, Idle
<1>2. CacheCoherent /\ LoadsFresh
  BY <1>1 DEF Init, CacheCoherent, LoadsFresh, Loading, At
<1>3. QED
  BY <1>2, InitHolds DEF CInv

\* Every step keeps the cache coherent.
LEMMA CacheNextHolds == CInv /\ [Next]_vars => CInv'
<1> SUFFICES ASSUME CInv, [Next]_vars PROVE CInv'
  OBVIOUS
<1>1. IInv'
  BY NextHolds DEF CInv
<1>2. ASSUME NEW p \in Procs, Step(p) PROVE CacheCoherent' /\ LoadsFresh'
  BY <1>2, WritesStayFresh, LoadsStayFresh, ChangeStaysFresh, InvalidationStaysFresh DEF Step
<1>3. ASSUME NEW p \in Procs, NEW s \in Schemas,
             \/ \E op \in {"put", "sync"}, body \in Bodies : Arrive(p, op, s, body)
             \/ \E op \in Ops \ {"put", "sync"} : Arrive(p, op, s, Nil)
      PROVE  CacheCoherent' /\ LoadsFresh'
  BY <1>3, ArrivalStaysFresh DEF Ops, Writes
<1>4. ASSUME UNCHANGED vars PROVE CacheCoherent' /\ LoadsFresh'
  <2>1. UNCHANGED <<shape, cache, proc, missed>>
    BY <1>4 DEF vars, store, history
  <2>2. CacheCoherent'
    BY <2>1 DEF CInv, CacheCoherent, WillInvalidate, Midway
  <2>3. LoadsFresh'
    BY <2>1 DEF CInv, LoadsFresh, OpFits, Loading, At, Fresh
  <2>4. QED
    BY <2>2, <2>3
<1>5. CacheCoherent' /\ LoadsFresh'
  <2>1. ASSUME NEW p \in Procs, Step(p) \/ Fail(p) PROVE CacheCoherent' /\ LoadsFresh'
    BY <1>2, <2>1, FailureStaysFresh
  <2>2. QED
    BY <1>3, <1>4, <2>1, RestartStaysFresh DEF Next
<1>6. QED
  BY <1>1, <1>5 DEF CInv

\* However puts, deletes, loads, failures and restarts interleave, a closure in the
\* cache shows a shape as it is, unless a write of that shape is about to drop the
\* closure, or went past a load in flight, past the server, or failed midway.
THEOREM CacheAlwaysCoherent == Spec => []CacheCoherent
<1>1. Spec => []CInv
  BY CacheInitHolds, CacheNextHolds, PTL DEF Spec
<1>2. CInv => CacheCoherent
  BY DEF CInv
<1>3. QED
  BY <1>1, <1>2, PTL

-----------------------------------------------------------------------------
(* Versions, profiles and stamps.                                          *)

\* Which request may be at which step.
OpSteps(r) ==
  /\ r.pc \in {"prior", "meta", "version"} => r.op \in {"put", "sync"}
  /\ r.pc \in {"snapshot", "profile", "profsnap"} => r.op \in {"put", "sync", "record"}
  /\ r.pc \in {"validate", "conform", "current", "artifact", "wrap", "stamp"} => r.op = "record"
  /\ r.pc = "dropmeta" => r.op = "delete"
  /\ r.pc = "invalidate" => r.op \in Writes
  /\ r.pc \in {"exists", "settype"} => r.op = "settype"
  /\ r.pc = "load" => r.op \in {"put", "record", "settype"}
  /\ r.pc = "untype" => r.op = "droptype"

On(p, s) == Busy(p) /\ proc[p].s = s
Writing(p) == proc[p].op \in Writes

\* A write that shares its schema with anything, and what shares its schema with a
\* write, is not alone, and the schema of a process that is not alone is torn.
Orderly ==
  /\ \A p \in Procs : /\ OpSteps(proc[p])
                      /\ Busy(p) /\ ~ proc[p].alone => proc[p].s \in torn
                      /\ At(p, "dropmeta") => proc[p].s \in deleted
  /\ \A p, q \in Procs :
       p # q /\ Busy(p) /\ On(q, proc[p].s) /\ (Writing(p) \/ Writing(q)) => ~ proc[p].alone

\* What a write that is alone finds of its schema, between its first and its last
\* store call: what it has written itself.
LoneWrite(p) ==
  LET s == proc[p].s
      v == proc[p].v
      pc == proc[p].pc
  IN Midway(p) /\ proc[p].alone =>
       /\ proc[p].op \in {"put", "sync"} =>
            /\ proc[p].body \in Bodies /\ shape[s] = proc[p].body
            /\ pc = "meta" => v = meta[s]
            /\ pc = "version" => meta[s] # 0
            /\ pc \in {"snapshot", "profile", "profsnap", "invalidate"} => v = meta[s] /\ v # 0
            /\ pc \in {"profile", "profsnap", "invalidate"}
                 => v \in DOMAIN snap[s] /\ snap[s][v] = shape[s]
            /\ pc \in {"profsnap", "invalidate"} => prof[s] = v
            /\ pc = "invalidate" => v \in profSnap[s]
       /\ proc[p].op = "delete" => shape[s] = Nil

LoneWrites(s) == \A p \in Procs : On(p, s) => LoneWrite(p)

\* The profile snapshot is there, or a process is about to write it.
Pending(s, v) == \E p \in Procs : At(p, "profsnap") /\ proc[p].s = s /\ proc[p].v = v
Provided(s, v) == v \in profSnap[s] \/ Pending(s, v)

\* No write of the schema is under way.
Settled(s) == \A p \in Procs : On(p, s) /\ Writing(p) => ~ Midway(p)

\* The version, its snapshot and its profile say the same.
Whole(s) ==
  s \notin torn /\ shape[s] # Nil /\ Settled(s) =>
    /\ meta[s] # 0
    /\ meta[s] \in DOMAIN snap[s] => snap[s][meta[s]] = shape[s]
    /\ prof[s] # 0 => prof[s] = meta[s] /\ Provided(s, prof[s])

\* What a record write knows of its schema.
RecordFits(p) ==
  LET s == proc[p].s
      v == proc[p].v
      pc == proc[p].pc
  IN /\ shape[s] # Nil
     /\ pc \in {"artifact", "wrap", "snapshot", "profile", "profsnap", "stamp"} => v = meta[s]
     /\ pc = "snapshot" => proc[p].body = shape[s]
     /\ pc \in {"profile", "profsnap", "stamp"} => v \in DOMAIN snap[s] /\ snap[s][v] = shape[s]
     /\ pc = "stamp" => Provided(s, v)
     /\ pc # "validate" => \A pair \in proc[p].frags : pair[1] = s => Fresh(pair)

Recorded(s) ==
  s \notin torn => \A p \in Procs : On(p, s) /\ proc[p].op = "record" => RecordFits(p)

\* A version that was given out, or the one that stands in for a missing version.
UpTo(s, v) == v <= meta[s] \/ (v = 1 /\ meta[s] = 0)

\* A write of its own snapshot is ahead.
Versioning(p, s) == proc[p].s = s /\ proc[p].op \in {"put", "sync"} /\ proc[p].pc \in {"version", "snapshot"}

\* Version numbers are given out once.
Numbered(s) ==
  s \notin setBack =>
    /\ \A w \in DOMAIN snap[s] : UpTo(s, w) /\ (s \notin torn => w <= meta[s])
    /\ \A p \in Procs :
         proc[p].s = s /\ proc[p].pc \in {"artifact", "wrap", "snapshot"} => UpTo(s, proc[p].v)
    /\ \A p \in Procs : s \notin torn /\ Versioning(p, s) => \A w \in DOMAIN snap[s] : w < meta[s]

\* What a record was stamped with is there, and is not written again.
Stamped(s) ==
  \A st \in stamps : st.s = s =>
    /\ s \notin torn
    /\ s \notin deleted =>
         /\ st.v \in DOMAIN snap[s] /\ snap[s][st.v] = st.body
         /\ Provided(s, st.v)
         /\ st.v <= meta[s]
         /\ \A p \in Procs : Versioning(p, s) => st.v < meta[s]

\* A definition refers to a schema that is there.
Referred(s) ==
  s \notin torn =>
    /\ s \in typed => shape[s] # Nil
    /\ \A p \in Procs : proc[p].s = s =>
         /\ proc[p].pc \in {"present", "drop"} => s \notin typed
         /\ At(p, "settype") => shape[s] # Nil

Sound(s) ==
  LoneWrites(s) /\ Whole(s) /\ Recorded(s) /\ Numbered(s) /\ Stamped(s) /\ Referred(s)

\* The inductive invariant of all of them.
UInv == CInv /\ Orderly /\ \A s \in Schemas : Sound(s)

\* What a process does to the schemas that are not its own: nothing.
Elsewhere(t) ==
  /\ \A s \in Schemas \ {t} :
       /\ shape'[s] = shape[s] /\ meta'[s] = meta[s] /\ snap'[s] = snap[s]
       /\ prof'[s] = prof[s] /\ profSnap'[s] = profSnap[s]
       /\ s \in typed' <=> s \in typed
       /\ s \in torn' <=> s \in torn
       /\ s \in missed => s \in missed'
       /\ s \in deleted' <=> s \in deleted
       /\ s \in setBack' <=> s \in setBack
  /\ \A st : st.s # t => (st \in stamps' <=> st \in stamps)

\* A step of a process touches the schema of its request only.
LEMMA StepsElsewhere ==
  ASSUME IInv, NEW p \in Procs, Step(p)
  PROVE  Elsewhere(proc[p].s)
<1> USE DEF store, history
<1> DEFINE t == proc[p].s
<1>0. /\ DOMAIN shape = Schemas /\ DOMAIN meta = Schemas /\ DOMAIN snap = Schemas
      /\ DOMAIN prof = Schemas /\ DOMAIN profSnap = Schemas
  BY DEF IInv, TypeOK
<1>1. CASE Compare(p) \/ ReadPrior(p) \/ ReadVersion(p) \/ Fetch(p) \/ Store(p) \/ Referenced(p)
           \/ Present(p) \/ Validate(p) \/ Conform(p) \/ CurrentVersion(p) \/ Artifact(p)
           \/ Wrap(p) \/ SchemaExists(p)
  <2>1. UNCHANGED <<shape, meta, snap, prof, profSnap, typed, stamps, torn, missed, deleted, setBack>>
    BY <1>1 DEF Compare, ReadPrior, ReadVersion, Fetch, Store, Referenced, Present, Validate,
                Conform, CurrentVersion, Artifact, Wrap, SchemaExists
  <2>2. QED
    BY <2>1 DEF Elsewhere
<1>2. CASE ReplaceShape(p)
  BY <1>0, <1>2 DEF ReplaceShape, Elsewhere
<1>3. CASE WriteMeta(p) \/ DropMeta(p)
  BY <1>0, <1>3 DEF WriteMeta, DropMeta, NoteVersion, Elsewhere
<1>4. CASE WriteSnapshot(p) \/ ProvisionProfile(p) \/ SnapshotProfile(p)
  BY <1>0, <1>4 DEF WriteSnapshot, ProvisionProfile, SnapshotProfile, Elsewhere
<1>5. CASE DropShape(p)
  BY <1>0, <1>5 DEF DropShape, Elsewhere
<1>6. CASE Invalidate(p) \/ EndSync(p)
  <2>1. /\ UNCHANGED <<shape, meta, snap, prof, profSnap, typed, stamps, deleted, setBack>>
        /\ torn' \in {torn, torn \ {t}} /\ missed' \in {missed, missed \ {t}}
    BY <1>6 DEF Invalidate, EndSync, Mended, MadeGood
  <2>2. QED
    BY <2>1 DEF Elsewhere
<1>7. CASE Stamp(p)
  <2>1. /\ UNCHANGED <<shape, meta, snap, prof, profSnap, typed, torn, missed, deleted, setBack>>
        /\ \A st : st.s # t => (st \in stamps' <=> st \in stamps)
    BY <1>7 DEF Stamp
  <2>2. QED
    BY <2>1 DEF Elsewhere
<1>8. CASE SetType(p) \/ DropType(p)
  <2>1. /\ UNCHANGED <<shape, meta, snap, prof, profSnap, stamps, torn, missed, deleted, setBack>>
        /\ typed' \in {typed, typed \cup {t}, typed \ {t}}
    BY <1>8 DEF SetType, DropType
  <2>2. QED
    BY <2>1 DEF Elsewhere
<1>9. QED
  BY <1>1, <1>2, <1>3, <1>4, <1>5, <1>6, <1>7, <1>8 DEF Step

\* The registers of the process that takes a step: it is done, or it goes on with
\* the same request.
Moves(p) ==
  /\ Busy(p) /\ proc[p] \in Registers /\ proc[p].s \in Schemas
  /\ \A q \in Procs \ {p} : proc'[q] = proc[q]
  /\ proc' \in [Procs -> Registers]
  /\ \/ proc'[p] = Idle
     \/ /\ proc'[p].pc # "idle" /\ proc'[p].s = proc[p].s
        /\ proc'[p].op = proc[p].op /\ proc'[p].alone = proc[p].alone

\* A step moves its own process only, and keeps it to its request.
LEMMA StepsMove ==
  ASSUME IInv, NEW p \in Procs, Step(p)
  PROVE  Moves(p)
<1> DEFINE r == proc[p]
<1>0. proc \in [Procs -> Registers] /\ r \in Registers
  BY DEF IInv, TypeOK
<1>1. Busy(p) /\ r.s \in Schemas
  <2>1. Busy(p)
    BY DEF Step, Busy, At, Loading, Compare, ReplaceShape, ReadPrior, WriteMeta, ReadVersion,
           WriteSnapshot, ProvisionProfile, SnapshotProfile, Invalidate, EndSync, Fetch, Store,
           Referenced, Present, DropShape, DropMeta, Validate, Conform, CurrentVersion, Artifact,
           Wrap, Stamp, SchemaExists, SetType, DropType
  <2>2. QED
    BY <2>1 DEF IInv, TypeOK
<1>2. proc' \in [Procs -> Registers]
  BY NextHolds DEF Next, IInv, TypeOK
<1>3. ASSUME NEW n, proc' = [proc EXCEPT ![p] = n],
             n = Idle \/ (n.pc # "idle" /\ n.s = r.s /\ n.op = r.op /\ n.alone = r.alone)
      PROVE  Moves(p)
  BY <1>0, <1>1, <1>2, <1>3 DEF Moves
<1>4. ASSUME Done(p) PROVE Moves(p)
  BY <1>3, <1>4 DEF Done
<1>5. ASSUME NEW pc, pc # "idle", Go(p, pc) PROVE Moves(p)
  <2> DEFINE n == [r EXCEPT !.pc = pc]
  <2>1. n.pc = pc /\ n.s = r.s /\ n.op = r.op /\ n.alone = r.alone
    BY <1>0 DEF Registers
  <2>2. proc' = [proc EXCEPT ![p] = n]
    BY <1>5 DEF Go
  <2>3. QED
    BY <1>3, <1>5, <2>1, <2>2
<1>6. ASSUME NEW pc, NEW v, pc # "idle", proc' = [proc EXCEPT ![p].pc = pc, ![p].v = v] PROVE Moves(p)
  <2> DEFINE n == [r EXCEPT !.pc = pc, !.v = v]
  <2>1. n.pc = pc /\ n.s = r.s /\ n.op = r.op /\ n.alone = r.alone
    BY <1>0 DEF Registers
  <2>2. proc' = [proc EXCEPT ![p] = n]
    BY <1>6
  <2>3. QED
    BY <1>3, <1>6, <2>1, <2>2
<1>7. ASSUME proc' = [proc EXCEPT ![p] = BeginLoad(@)] PROVE Moves(p)
  <2> DEFINE n == BeginLoad(r)
  <2>1. n.pc = "load" /\ n.s = r.s /\ n.op = r.op /\ n.alone = r.alone
    BY <1>0 DEF Registers, BeginLoad
  <2>2. proc' = [proc EXCEPT ![p] = n]
    BY <1>7
  <2>3. QED
    BY <1>3, <2>1, <2>2
<1>8. CASE \/ Compare(p) \/ ReplaceShape(p) \/ WriteMeta(p) \/ WriteSnapshot(p)
           \/ ProvisionProfile(p) \/ SnapshotProfile(p) \/ EndSync(p) \/ Store(p) \/ Referenced(p)
           \/ Present(p) \/ DropShape(p) \/ DropMeta(p) \/ Artifact(p) \/ Stamp(p)
           \/ SchemaExists(p) \/ DropType(p)
  BY <1>4, <1>5, <1>8 DEF Compare, ReplaceShape, WriteMeta, WriteSnapshot, ProvisionProfile,
     SnapshotProfile, EndSync, Store, Referenced, Present, DropShape, DropMeta, Artifact, Stamp,
     SchemaExists, DropType
<1>9. CASE ReadPrior(p)
  <2>1. \E v : proc' = [proc EXCEPT ![p].pc = "meta", ![p].v = v]
    BY <1>9 DEF ReadPrior
  <2>2. QED
    BY <1>6, <2>1
<1>10. CASE ReadVersion(p)
  <2> DEFINE v == meta[r.s]
             n == [r EXCEPT !.v = v, !.pc = IF v = 0 THEN "invalidate" ELSE "snapshot"]
  <2>1. n.pc # "idle" /\ n.s = r.s /\ n.op = r.op /\ n.alone = r.alone
    BY <1>0 DEF Registers
  <2>2. proc' = [proc EXCEPT ![p] = n]
    BY <1>10 DEF ReadVersion
  <2>3. QED
    BY <1>3, <2>1, <2>2
<1>11. CASE Invalidate(p)
  BY <1>4, <1>7, <1>11 DEF Invalidate
<1>12. CASE Fetch(p)
  <2>1. PICK m \in r.pending :
          Done(p) \/ proc' = [proc EXCEPT ![p].pending = Pull(p, m),
                                          ![p].frags = @ \cup {<<m, shape[m]>>}]
    BY <1>12 DEF Fetch
  <2>2. CASE Done(p)
    BY <1>4, <2>2
  <2>3. CASE proc' = [proc EXCEPT ![p].pending = Pull(p, m), ![p].frags = @ \cup {<<m, shape[m]>>}]
    <3> DEFINE n == [r EXCEPT !.pending = Pull(p, m), !.frags = @ \cup {<<m, shape[m]>>}]
    <3>1. n.pc = r.pc /\ n.s = r.s /\ n.op = r.op /\ n.alone = r.alone
      BY <1>0 DEF Registers
    <3>2. proc' = [proc EXCEPT ![p] = n]
      BY <2>3
    <3>3. r.pc # "idle"
      BY <1>1 DEF Busy
    <3>4. QED
      BY <1>3, <3>1, <3>2, <3>3
  <2>4. QED
    BY <2>1, <2>2, <2>3
<1>13. CASE Validate(p)
  <2> DEFINE n == [r EXCEPT !.pc = "conform", !.frags = cache[r.s]]
  <2>1. n.pc # "idle" /\ n.s = r.s /\ n.op = r.op /\ n.alone = r.alone
    BY <1>0 DEF Registers
  <2>2. CASE cache[r.s] # {}
    <3>1. proc' = [proc EXCEPT ![p] = n]
      BY <1>13, <2>2 DEF Validate
    <3>2. QED
      BY <1>3, <2>1, <3>1
  <2>3. CASE cache[r.s] = {}
    BY <1>7, <1>13, <2>3 DEF Validate
  <2>4. QED
    BY <2>2, <2>3
<1>14. CASE Conform(p)
  <2>1. CASE Done(p)
    BY <1>4, <2>1
  <2>2. CASE ~ Done(p) /\ prof[r.s] # 0
    BY <1>6, <1>14, <2>2 DEF Conform
  <2>3. CASE ~ Done(p) /\ prof[r.s] = 0
    BY <1>5, <1>14, <2>3 DEF Conform, Go
  <2>4. QED
    BY <2>1, <2>2, <2>3
<1>15. CASE CurrentVersion(p)
  <2>1. \E v : proc' = [proc EXCEPT ![p].pc = "artifact", ![p].v = v]
    BY <1>15 DEF CurrentVersion
  <2>2. QED
    BY <1>6, <2>1
<1>16. CASE Wrap(p)
  <2> DEFINE n == [r EXCEPT !.pc = "snapshot", !.body = shape[r.s]]
  <2>1. n.pc # "idle" /\ n.s = r.s /\ n.op = r.op /\ n.alone = r.alone
    BY <1>0 DEF Registers
  <2>2. Done(p) \/ proc' = [proc EXCEPT ![p] = n]
    BY <1>16 DEF Wrap
  <2>3. QED
    BY <1>3, <1>4, <2>1, <2>2
<1>17. CASE SetType(p)
  <2>1. CASE cache[r.s] # {}
    BY <1>4, <1>17, <2>1 DEF SetType
  <2>2. CASE cache[r.s] = {}
    BY <1>7, <1>17, <2>2 DEF SetType
  <2>3. QED
    BY <2>1, <2>2
<1>18. QED
  BY <1>8, <1>9, <1>10, <1>11, <1>12, <1>13, <1>14, <1>15, <1>16, <1>17 DEF Step

\* Nothing happens to a schema but that processes leave it; a write that leaves it
\* midway tears it.
KeptStore(s) ==
  /\ shape'[s] = shape[s] /\ meta'[s] = meta[s] /\ snap'[s] = snap[s]
  /\ prof'[s] = prof[s] /\ profSnap'[s] = profSnap[s]
  /\ s \in typed' <=> s \in typed
  /\ s \in deleted' <=> s \in deleted
  /\ s \in setBack' <=> s \in setBack
KeptHistory(s) ==
  /\ s \in torn => s \in torn'
  /\ \A st \in stamps' : st.s = s => st \in stamps /\ s \notin torn'
  /\ (s \in missed => s \in missed') \/ \A q \in Procs : On(q, s)' => proc'[q].op # "record"
KeptProcs(s) ==
  \A q \in Procs : \/ proc'[q] = proc[q]
                   \/ ~ On(q, s)' /\ (On(q, s) /\ Midway(q) => s \in torn')

\* A schema that keeps its graphs, its history and the processes on it stays sound.
LEMMA KeptSound ==
  ASSUME NEW s \in Schemas, Sound(s), KeptStore(s), KeptHistory(s), KeptProcs(s)
  PROVE  Sound(s)'
<1> USE DEF KeptStore
<1>a. s \notin torn' => s \notin torn
  BY DEF KeptHistory
<1>b. \A q \in Procs : On(q, s)' => proc'[q] = proc[q] /\ On(q, s)
  BY DEF KeptProcs, On, Busy
<1>c. \A q \in Procs : s \notin torn' /\ On(q, s) /\ Midway(q) => proc'[q] = proc[q]
  BY DEF KeptProcs
<1>d. \A v : s \notin torn' /\ Provided(s, v) => Provided(s, v)'
  <2>1. \A q \in Procs : At(q, "profsnap") /\ proc[q].s = s => On(q, s) /\ Midway(q)
    BY DEF At, On, Busy, Midway, MidwaySteps
  <2>2. QED
    BY <1>c, <2>1 DEF Provided, Pending, At
<1>1. LoneWrites(s)'
  BY <1>b DEF Sound, LoneWrites, LoneWrite, Midway, On
<1>2. Whole(s)'
  <2>1. s \notin torn' /\ Settled(s)' => Settled(s)
    BY <1>b, <1>c DEF Settled, On, Writing, Midway, Busy
  <2>2. QED
    BY <1>a, <1>d, <2>1 DEF Sound, Whole
<1>3. Recorded(s)'
  <2> SUFFICES ASSUME s \notin torn', NEW q \in Procs, On(q, s)', proc'[q].op = "record"
               PROVE  RecordFits(q)'
    BY DEF Recorded
  <2>1. proc'[q] = proc[q] /\ On(q, s) /\ RecordFits(q) /\ proc[q].s = s
    BY <1>a, <1>b DEF Sound, Recorded, On
  <2>2. s \in missed => s \in missed'
    BY DEF KeptHistory
  <2>3. \A pair : pair[1] = s /\ Fresh(pair) => Fresh(pair)'
    BY <2>2 DEF Fresh
  <2>4. QED
    BY <1>d, <2>1, <2>3 DEF RecordFits
<1>4. Numbered(s)'
  <2>1. \A q \in Procs : proc'[q].s = s /\ proc'[q].pc \in {"artifact", "wrap", "snapshot", "version"}
                           => proc'[q] = proc[q]
    BY <1>b DEF On, Busy
  <2>2. QED
    BY <1>a, <2>1 DEF Sound, Numbered, UpTo, Versioning
<1>5. Stamped(s)'
  <2>1. \A q \in Procs : Versioning(q, s)' => Versioning(q, s)
    BY <1>b DEF Versioning, On, Busy
  <2>2. QED
    BY <1>d, <2>1 DEF Sound, Stamped, KeptHistory
<1>6. Referred(s)'
  <2>1. \A q \in Procs : proc'[q].s = s /\ proc'[q].pc \in {"present", "drop", "settype"}
                           => proc'[q] = proc[q]
    BY <1>b DEF On, Busy
  <2>2. QED
    BY <1>a, <2>1 DEF Sound, Referred, At
<1>7. QED
  BY <1>1, <1>2, <1>3, <1>4, <1>5, <1>6 DEF Sound

\* A step is nothing to the schemas that are not its own.
LEMMA OthersSound ==
  ASSUME UInv, NEW p \in Procs, Moves(p), Elsewhere(proc[p].s), NEW s \in Schemas \ {proc[p].s}
  PROVE  Sound(s)'
<1>1. Sound(s)
  BY DEF UInv
<1>2. KeptStore(s)
  BY DEF KeptStore, Elsewhere
<1>3. KeptHistory(s)
  BY <1>1 DEF KeptHistory, Elsewhere, Sound, Stamped
<1>4. KeptProcs(s)
  BY DEF KeptProcs, Moves, On, Busy, Idle
<1>5. QED
  BY <1>1, <1>2, <1>3, <1>4, KeptSound

\* A process goes on to a step of its own operation.
LEMMA OpStepsKept ==
  ASSUME UInv, NEW p \in Procs, Step(p)
  PROVE  /\ OpSteps(proc'[p])
         /\ At(p, "dropmeta")' => proc[p].s \in deleted'
<1> DEFINE r == proc[p]
           Fine(n) == OpSteps(n) /\ (n.pc = "dropmeta" => r.s \in deleted')
<1> SUFFICES Fine(proc'[p])
  BY DEF At
<1>0. /\ proc \in [Procs -> Registers] /\ r \in Registers /\ r.op \in Ops
      /\ OpSteps(r) /\ OpFits(r) /\ Fine(Idle)
  BY DEF UInv, CInv, IInv, TypeOK, LoadsFresh, Orderly, OpSteps, Idle, Registers
<1>1. ASSUME Done(p) PROVE Fine(proc'[p])
  BY <1>0, <1>1 DEF Done
<1>2. ASSUME NEW pc, Go(p, pc), Fine([r EXCEPT !.pc = pc]) PROVE Fine(proc'[p])
  BY <1>0, <1>2 DEF Go
<1>3. ASSUME NEW pc PROVE [r EXCEPT !.pc = pc].pc = pc /\ [r EXCEPT !.pc = pc].op = r.op
  BY <1>0 DEF Registers
<1>4. CASE \/ Compare(p) \/ Referenced(p) \/ Present(p) \/ SchemaExists(p) \/ Stamp(p)
           \/ DropType(p) \/ Store(p) \/ EndSync(p)
  <2>1. Done(p) \/ Go(p, "replace") \/ Go(p, "present") \/ Go(p, "drop")
        \/ (Go(p, "settype") /\ r.op = "settype") \/ (Go(p, "conform") /\ r.op = "record")
    BY <1>0, <1>4 DEF Compare, Referenced, Present, SchemaExists, Stamp, DropType, Store, EndSync,
       OpSteps, At
  <2>2. QED
    BY <1>1, <1>2, <1>3, <2>1 DEF OpSteps
<1>5. CASE ReplaceShape(p) \/ WriteMeta(p) \/ WriteSnapshot(p) \/ ProvisionProfile(p)
           \/ SnapshotProfile(p) \/ DropShape(p) \/ DropMeta(p) \/ Artifact(p)
  <2>1. \/ Go(p, "prior") /\ r.op \in {"put", "sync"}
        \/ Go(p, "version") /\ r.op \in {"put", "sync"}
        \/ Go(p, "profile") /\ r.op \in {"put", "sync", "record"}
        \/ Go(p, "profsnap") /\ r.op \in {"put", "sync", "record"}
        \/ Go(p, "stamp") /\ r.op = "record"
        \/ Go(p, "invalidate") /\ r.op \in Writes
        \/ Go(p, "dropmeta") /\ r.op = "delete" /\ r.s \in deleted'
        \/ Go(p, "wrap") /\ r.op = "record"
    BY <1>0, <1>5 DEF ReplaceShape, WriteMeta, WriteSnapshot, ProvisionProfile, SnapshotProfile,
       DropShape, DropMeta, Artifact, OpSteps, OpFits, At, Writes
  <2>2. QED
    BY <1>2, <1>3, <2>1 DEF OpSteps, Writes
<1>6. ASSUME NEW n, proc' = [proc EXCEPT ![p] = n], Fine(n) PROVE Fine(proc'[p])
  BY <1>0, <1>6
<1>7. ASSUME proc' = [proc EXCEPT ![p] = BeginLoad(@)], r.op \in {"put", "record", "settype"}
      PROVE  Fine(proc'[p])
  <2> DEFINE n == BeginLoad(r)
  <2>1. n.pc = "load" /\ n.op = r.op
    BY <1>0 DEF Registers, BeginLoad
  <2>2. proc' = [proc EXCEPT ![p] = n]
    BY <1>7
  <2>3. Fine(n)
    BY <1>7, <2>1 DEF OpSteps
  <2>4. QED
    BY <1>6, <2>2, <2>3
<1>8. CASE ReadPrior(p) \/ ReadVersion(p) \/ CurrentVersion(p)
  <2>1. PICK pc \in {"meta", "invalidate", "snapshot", "artifact"} : \E v :
          /\ proc' = [proc EXCEPT ![p].pc = pc, ![p].v = v]
          /\ r.op \in {"put", "sync"} \/ (r.op = "record" /\ pc = "artifact")
          /\ pc = "artifact" => r.op = "record"
    <3>1. CASE ReadPrior(p)
      BY <1>0, <3>1 DEF ReadPrior, OpSteps, At
    <3>2. CASE ReadVersion(p)
      <4> DEFINE pc == IF meta[proc[p].s] = 0 THEN "invalidate" ELSE "snapshot"
      <4>1. pc \in {"invalidate", "snapshot"}
        OBVIOUS
      <4>2. proc' = [proc EXCEPT ![p].pc = pc, ![p].v = meta[proc[p].s]] /\ r.op \in {"put", "sync"}
        BY <1>0, <3>2 DEF ReadVersion, OpSteps, At
      <4>3. QED
        BY <4>1, <4>2
    <3>3. CASE CurrentVersion(p)
      BY <1>0, <3>3 DEF CurrentVersion, OpSteps, At
    <3>4. QED
      BY <1>8, <3>1, <3>2, <3>3
  <2>a. PICK v :
          /\ proc' = [proc EXCEPT ![p].pc = pc, ![p].v = v]
          /\ r.op \in {"put", "sync"} \/ (r.op = "record" /\ pc = "artifact")
          /\ pc = "artifact" => r.op = "record"
    BY <2>1
  <2> DEFINE n == [r EXCEPT !.pc = pc, !.v = v]
  <2>2. n.pc = pc /\ n.op = r.op
    BY <1>0 DEF Registers
  <2>3. Fine(n)
    BY <2>a, <2>2 DEF OpSteps, Writes
  <2>4. proc' = [proc EXCEPT ![p] = n]
    BY <2>a
  <2>5. QED
    BY <1>6, <2>3, <2>4
<1>9. CASE Invalidate(p)
  <2>1. Done(p) \/ (proc' = [proc EXCEPT ![p] = BeginLoad(@)] /\ r.op = "put")
    BY <1>9 DEF Invalidate
  <2>2. QED
    BY <1>1, <1>7, <2>1
<1>10. CASE Fetch(p)
  <2>1. PICK m \in r.pending :
          Done(p) \/ proc' = [proc EXCEPT ![p].pending = Pull(p, m),
                                          ![p].frags = @ \cup {<<m, shape[m]>>}]
    BY <1>10 DEF Fetch
  <2> DEFINE n == [r EXCEPT !.pending = Pull(p, m), !.frags = @ \cup {<<m, shape[m]>>}]
  <2>2. n.pc = r.pc /\ n.op = r.op
    BY <1>0 DEF Registers
  <2>3. Fine(n)
    BY <1>0, <1>10, <2>2 DEF OpSteps, Fetch, Loading, At
  <2>4. Done(p) \/ proc' = [proc EXCEPT ![p] = n]
    BY <2>1
  <2>5. QED
    BY <1>1, <1>6, <2>3, <2>4
<1>11. CASE Validate(p)
  <2> DEFINE n == [r EXCEPT !.pc = "conform", !.frags = cache[r.s]]
  <2>1. n.pc = "conform" /\ n.op = r.op /\ r.op = "record"
    BY <1>0, <1>11 DEF Registers, Validate, At, OpSteps
  <2>2. Fine(n)
    BY <2>1 DEF OpSteps
  <2>3. proc' = [proc EXCEPT ![p] = n] \/ proc' = [proc EXCEPT ![p] = BeginLoad(@)]
    <3>1. CASE cache[r.s] # {}
      BY <1>11, <3>1 DEF Validate
    <3>2. CASE cache[r.s] = {}
      BY <1>11, <3>2 DEF Validate
    <3>3. QED
      BY <3>1, <3>2
  <2>4. QED
    BY <1>6, <1>7, <2>1, <2>2, <2>3
<1>12. CASE Conform(p)
  <2> DEFINE n == [r EXCEPT !.pc = "stamp", !.v = prof[r.s]]
  <2>1. n.pc = "stamp" /\ n.op = r.op /\ r.op = "record"
    BY <1>0, <1>12 DEF Registers, Conform, At, OpSteps
  <2>2. Fine(n)
    BY <2>1 DEF OpSteps
  <2>3. Done(p) \/ proc' = [proc EXCEPT ![p] = n] \/ Go(p, "current")
    <3>1. CASE prof[r.s] # 0
      BY <1>12, <3>1 DEF Conform
    <3>2. CASE prof[r.s] = 0
      BY <1>12, <3>2 DEF Conform, Go
    <3>3. QED
      BY <3>1, <3>2
  <2>4. Fine([r EXCEPT !.pc = "current"])
    BY <1>3, <2>1 DEF OpSteps
  <2>5. QED
    BY <1>1, <1>2, <1>6, <2>2, <2>3, <2>4
<1>13. CASE Wrap(p)
  <2> DEFINE n == [r EXCEPT !.pc = "snapshot", !.body = shape[r.s]]
  <2>1. n.pc = "snapshot" /\ n.op = r.op /\ r.op = "record"
    BY <1>0, <1>13 DEF Registers, Wrap, At, OpSteps
  <2>2. Fine(n)
    BY <2>1 DEF OpSteps
  <2>3. Done(p) \/ proc' = [proc EXCEPT ![p] = n]
    BY <1>13 DEF Wrap
  <2>4. QED
    BY <1>1, <1>6, <2>2, <2>3
<1>14. CASE SetType(p)
  <2>1. r.op = "settype"
    BY <1>0, <1>14 DEF SetType, At, OpSteps
  <2>2. Done(p) \/ proc' = [proc EXCEPT ![p] = BeginLoad(@)]
    <3>1. CASE cache[r.s] # {}
      BY <1>14, <3>1 DEF SetType
    <3>2. CASE cache[r.s] = {}
      BY <1>14, <3>2 DEF SetType
    <3>3. QED
      BY <3>1, <3>2
  <2>3. QED
    BY <1>1, <1>7, <2>1, <2>2
<1>15. QED
  BY <1>4, <1>5, <1>8, <1>9, <1>10, <1>11, <1>12, <1>13, <1>14 DEF Step

\* A process on a schema stays in order with what is torn and what is deleted.
LEMMA OrderKept ==
  ASSUME UInv, NEW p \in Procs, Step(p), Moves(p)
  PROVE  Orderly'
<1> DEFINE t == proc[p].s
<1>0. Orderly /\ OpSteps(Idle) /\ Idle.pc = "idle"
  BY DEF UInv, OpSteps, Idle
<1>1. /\ \A s : s \in torn => s \in torn' \/ (s = t /\ proc[p].alone /\ Writing(p))
      /\ deleted \subseteq deleted'
  <2>1. CASE Invalidate(p) \/ EndSync(p)
    BY <2>1 DEF Invalidate, EndSync, Mended, Writing, Writes
  <2>2. CASE ~ (Invalidate(p) \/ EndSync(p))
    BY <2>2 DEF Step, Compare, ReplaceShape, ReadPrior, WriteMeta, ReadVersion,
           WriteSnapshot, ProvisionProfile, SnapshotProfile, Fetch, Store, Referenced, Present,
           DropShape, DropMeta, Validate, Conform, CurrentVersion, Artifact, Wrap, Stamp,
           SchemaExists, SetType, DropType, store, history, NoteVersion
  <2>3. QED
    BY <2>1, <2>2
<1>2. OpSteps(proc'[p])
  BY OpStepsKept
<1>3. At(p, "dropmeta")' => proc'[p].s \in deleted'
  BY <1>0, OpStepsKept DEF Moves, At
<1>4. ASSUME NEW q \in Procs
      PROVE  /\ OpSteps(proc'[q])
             /\ Busy(q)' /\ ~ proc'[q].alone => proc'[q].s \in torn'
             /\ At(q, "dropmeta")' => proc'[q].s \in deleted'
  <2>1. CASE q = p
    <3>1. Busy(p)' /\ ~ proc'[p].alone => t \in torn /\ ~ proc[p].alone /\ proc'[p].s = t
      BY <1>0 DEF Moves, Busy, Orderly
    <3>2. QED
      BY <1>1, <1>2, <1>3, <2>1, <3>1
  <2>2. CASE q # p
    <3>1. proc'[q] = proc[q]
      BY <2>2 DEF Moves
    <3>2. Busy(q) /\ proc[q].s = t /\ Writing(p) => ~ proc[p].alone
      BY <1>0, <2>2 DEF Moves, Orderly, On
    <3>3. QED
      BY <1>0, <1>1, <3>1, <3>2 DEF Orderly, Busy, At
  <2>3. QED
    BY <2>1, <2>2
<1>5. ASSUME NEW a \in Procs, NEW b \in Procs, a # b, Busy(a)', On(b, proc[a].s)',
             proc'[a].s = proc[a].s, Writing(a)' \/ Writing(b)'
      PROVE  ~ proc'[a].alone
  <2>1. \A q \in Procs : Busy(q)' => /\ Busy(q) /\ proc'[q].s = proc[q].s /\ proc'[q].op = proc[q].op
                                     /\ proc'[q].alone = proc[q].alone
    BY <1>0 DEF Moves, Busy
  <2>2. Busy(a) /\ On(b, proc[a].s) /\ (Writing(a) \/ Writing(b))
    BY <1>5, <2>1 DEF On, Writing
  <2>3. QED
    BY <1>0, <1>5, <2>1, <2>2 DEF Orderly
<1>6. QED
  <2>1. \A q \in Procs : Busy(q)' => proc'[q].s = proc[q].s
    BY <1>0 DEF Moves, Busy
  <2>2. QED
    BY <1>4, <1>5, <2>1 DEF Orderly, On
\* Where each step leads, and what the process keeps on the way.
Leads(p) ==
  LET r == proc[p]
      n == proc'[p]
      kept == n.v = r.v /\ n.body = r.body /\ n.frags = r.frags
  IN /\ Compare(p) => n.pc \in {"idle", "replace"}
     /\ ReplaceShape(p) => n.pc = "prior" /\ kept
     /\ ReadPrior(p) => n.pc = "meta" /\ n.v = meta[r.s] /\ n.body = r.body
     /\ WriteMeta(p) => n.pc = "version" /\ kept
     /\ ReadVersion(p) => /\ n.v = meta[r.s] /\ n.body = r.body
                          /\ n.pc = IF meta[r.s] = 0 THEN "invalidate" ELSE "snapshot"
     /\ WriteSnapshot(p) => n.pc = "profile" /\ kept
     /\ ProvisionProfile(p) => n.pc = "profsnap" /\ kept
     /\ SnapshotProfile(p) => n.pc = (IF r.op = "record" THEN "stamp" ELSE "invalidate") /\ kept
     /\ Invalidate(p) \/ EndSync(p) => n.pc \in {"idle", "load"}
     /\ Fetch(p) => n.pc \in {"idle", "load"}
     /\ Store(p) => n.pc = "idle" \/ (n.pc = "conform" /\ kept)
     /\ Referenced(p) => n.pc = "idle" \/ (n.pc = "present" /\ r.s \notin typed)
     /\ Present(p) => n.pc \in {"idle", "drop"}
     /\ DropShape(p) => n.pc = "dropmeta"
     /\ DropMeta(p) => n.pc = "invalidate"
     /\ Validate(p) => \/ n.pc = "conform" /\ n.frags = cache[r.s]
                       \/ n.pc = "load" /\ n.frags = {}
     /\ Conform(p) => \/ n.pc = "idle"
                      \/ n.pc = "stamp" /\ prof[r.s] # 0 /\ n.v = prof[r.s] /\ n.frags = r.frags
                      \/ n.pc = "current" /\ kept
     /\ CurrentVersion(p) => /\ n.pc = "artifact" /\ n.frags = r.frags
                             /\ n.v = IF meta[r.s] = 0 THEN 1 ELSE meta[r.s]
     /\ Artifact(p) => /\ n.pc = IF r.v \in DOMAIN snap[r.s] THEN "profile" ELSE "wrap"
                       /\ kept
     /\ Wrap(p) => \/ n.pc = "idle"
                   \/ n.pc = "snapshot" /\ n.body = shape[r.s] /\ n.v = r.v /\ n.frags = r.frags
     /\ Stamp(p) \/ DropType(p) => n.pc = "idle"
     /\ SchemaExists(p) => n.pc = "idle" \/ (n.pc = "settype" /\ shape[r.s] # Nil)
     /\ SetType(p) => n.pc \in {"idle", "load"}

\* What each step leads to.
LEMMA StepsLead ==
  ASSUME IInv, NEW p \in Procs, Step(p)
  PROVE  Leads(p)
<1> DEFINE r == proc[p]
           n == proc'[p]
           kept == n.v = r.v /\ n.body = r.body /\ n.frags = r.frags
           load == BeginLoad(r)
<1>0. proc \in [Procs -> Registers] /\ r \in Registers /\ Idle.pc = "idle"
  BY DEF IInv, TypeOK, Idle
<1>1. Done(p) => n.pc = "idle"
  BY <1>0 DEF Done
<1>2. ASSUME NEW pc, Go(p, pc) PROVE n.pc = pc /\ kept
  BY <1>0, <1>2 DEF Go, Registers
<1>3. ASSUME NEW pc, NEW v, proc' = [proc EXCEPT ![p].pc = pc, ![p].v = v]
      PROVE  n.pc = pc /\ n.v = v /\ n.body = r.body /\ n.frags = r.frags
  BY <1>0, <1>3 DEF Registers
<1>4. ASSUME proc' = [proc EXCEPT ![p] = BeginLoad(@)] PROVE n.pc = "load" /\ n.frags = {}
  <2>1. load.pc = "load" /\ load.frags = {}
    BY <1>0 DEF BeginLoad, Registers
  <2>2. n = load
    BY <1>0, <1>4
  <2>3. QED
    BY <2>1, <2>2
<1>5. /\ Compare(p) => n.pc \in {"idle", "replace"}
      /\ ReplaceShape(p) => n.pc = "prior" /\ kept
      /\ WriteMeta(p) => n.pc = "version" /\ kept
      /\ WriteSnapshot(p) => n.pc = "profile" /\ kept
      /\ ProvisionProfile(p) => n.pc = "profsnap" /\ kept
      /\ EndSync(p) => n.pc \in {"idle", "load"}
      /\ Store(p) => n.pc = "idle" \/ (n.pc = "conform" /\ kept)
      /\ Referenced(p) => n.pc = "idle" \/ (n.pc = "present" /\ r.s \notin typed)
      /\ Present(p) => n.pc \in {"idle", "drop"}
      /\ DropShape(p) => n.pc = "dropmeta"
      /\ DropMeta(p) => n.pc = "invalidate"
      /\ Stamp(p) \/ DropType(p) => n.pc = "idle"
  BY <1>1, <1>2 DEF Compare, ReplaceShape, WriteMeta, WriteSnapshot, ProvisionProfile, EndSync,
     Store, Referenced, Present, DropShape, DropMeta, Stamp, DropType
<1>6. /\ SnapshotProfile(p) => n.pc = (IF r.op = "record" THEN "stamp" ELSE "invalidate") /\ kept
      /\ Artifact(p) => n.pc = (IF r.v \in DOMAIN snap[r.s] THEN "profile" ELSE "wrap") /\ kept
  <2>1. ASSUME SnapshotProfile(p)
        PROVE  n.pc = (IF r.op = "record" THEN "stamp" ELSE "invalidate") /\ kept
    <3>1. CASE r.op = "record"
      BY <1>2, <2>1, <3>1 DEF SnapshotProfile
    <3>2. CASE r.op # "record"
      BY <1>2, <2>1, <3>2 DEF SnapshotProfile
    <3>3. QED
      BY <3>1, <3>2
  <2>2. ASSUME Artifact(p)
        PROVE  n.pc = (IF r.v \in DOMAIN snap[r.s] THEN "profile" ELSE "wrap") /\ kept
    <3>1. CASE r.v \in DOMAIN snap[r.s]
      BY <1>2, <2>2, <3>1 DEF Artifact
    <3>2. CASE r.v \notin DOMAIN snap[r.s]
      BY <1>2, <2>2, <3>2 DEF Artifact
    <3>3. QED
      BY <3>1, <3>2
  <2>3. QED
    BY <2>1, <2>2
<1>7. SchemaExists(p) => n.pc = "idle" \/ (n.pc = "settype" /\ shape[r.s] # Nil)
  BY <1>1, <1>2 DEF SchemaExists
<1>8. ReadPrior(p) => n.pc = "meta" /\ n.v = meta[r.s] /\ n.body = r.body
  BY <1>3 DEF ReadPrior
<1>9. ReadVersion(p) => /\ n.v = meta[r.s] /\ n.body = r.body
                        /\ n.pc = IF meta[r.s] = 0 THEN "invalidate" ELSE "snapshot"
  BY <1>0 DEF ReadVersion, Registers
<1>10. CurrentVersion(p) => /\ n.pc = "artifact" /\ n.frags = r.frags
                            /\ n.v = IF meta[r.s] = 0 THEN 1 ELSE meta[r.s]
  BY <1>0 DEF CurrentVersion, Registers
<1>11. /\ Invalidate(p) => n.pc \in {"idle", "load"}
       /\ SetType(p) => n.pc \in {"idle", "load"}
  <2>1. Invalidate(p) => n.pc \in {"idle", "load"}
    BY <1>1, <1>4 DEF Invalidate
  <2>2. SetType(p) => Done(p) \/ proc' = [proc EXCEPT ![p] = BeginLoad(@)]
    <3>1. CASE cache[r.s] # {}
      BY <3>1 DEF SetType
    <3>2. CASE cache[r.s] = {}
      BY <3>2 DEF SetType
    <3>3. QED
      BY <3>1, <3>2
  <2>3. QED
    BY <1>1, <1>4, <2>1, <2>2
<1>12. Fetch(p) => n.pc \in {"idle", "load"}
  <2> SUFFICES ASSUME Fetch(p) PROVE n.pc \in {"idle", "load"}
    OBVIOUS
  <2>1. PICK m \in r.pending :
          Done(p) \/ proc' = [proc EXCEPT ![p].pending = Pull(p, m),
                                          ![p].frags = @ \cup {<<m, shape[m]>>}]
    BY DEF Fetch
  <2>2. r.pc = "load"
    BY DEF Fetch, Loading, At
  <2>3. ASSUME proc' = [proc EXCEPT ![p].pending = Pull(p, m),
                                    ![p].frags = @ \cup {<<m, shape[m]>>}]
        PROVE  n.pc = r.pc
    BY <1>0, <2>3 DEF Registers
  <2>4. QED
    BY <1>1, <2>1, <2>2, <2>3
<1>13. Validate(p) => \/ n.pc = "conform" /\ n.frags = cache[r.s]
                      \/ n.pc = "load" /\ n.frags = {}
  <2>1. CASE cache[r.s] # {}
    BY <1>0, <2>1 DEF Validate, Registers
  <2>2. CASE cache[r.s] = {}
    BY <1>4, <2>2 DEF Validate
  <2>3. QED
    BY <2>1, <2>2
<1>14. Conform(p) => \/ n.pc = "idle"
                     \/ n.pc = "stamp" /\ prof[r.s] # 0 /\ n.v = prof[r.s] /\ n.frags = r.frags
                     \/ n.pc = "current" /\ kept
  <2>1. CASE prof[r.s] # 0
    BY <1>1, <1>3, <2>1 DEF Conform
  <2>2. CASE prof[r.s] = 0
    BY <1>1, <1>2, <2>2 DEF Conform, Go
  <2>3. QED
    BY <2>1, <2>2
<1>15. Wrap(p) => \/ n.pc = "idle"
                  \/ n.pc = "snapshot" /\ n.body = shape[r.s] /\ n.v = r.v /\ n.frags = r.frags
  BY <1>0, <1>1 DEF Wrap, Registers
<1>16. QED
  BY <1>5, <1>6, <1>7, <1>8, <1>9, <1>10, <1>11, <1>12, <1>13, <1>14, <1>15 DEF Leads

\* The steps that begin and end a version number.
LEMMA NumberedKept ==
  ASSUME UInv, NEW p \in Procs, Step(p), Moves(p), Leads(p),
         NEW t \in Schemas, t = proc[p].s
  PROVE  Numbered(t)'
<1> USE DEF store, history
<1> DEFINE n == proc'[p]
<1>0. /\ Numbered(t) /\ LoneWrites(t) /\ Recorded(t) /\ Orderly
      /\ proc[p] \in Registers /\ t \in Schemas /\ Busy(p) /\ proc[p].v \in Nat
      /\ meta \in [Schemas -> Nat] /\ DOMAIN snap = Schemas
      /\ \A s \in Schemas : DOMAIN snap[s] \subseteq Nat \ {0}
      /\ \A q \in Procs : proc[q].v \in Nat
  BY DEF UInv, Sound, Moves, CInv, IInv, TypeOK, Registers
<1>a. n.pc # "idle" => n.s = t /\ n.op = proc[p].op
  BY DEF Moves, Idle
<1>b. ASSUME Writing(p), t \notin torn
      PROVE  /\ proc[p].alone
             /\ \A q \in Procs \ {p} : ~ On(q, t)
  BY <1>0, <1>b DEF Orderly, On, Busy
<1>c. ASSUME Writing(p), proc[p].alone
      PROVE  LoneWrite(p) /\ \A q \in Procs \ {p} : ~ On(q, t)
  BY <1>0, <1>c DEF Orderly, On, LoneWrites
<1>1. ASSUME meta'[t] = meta[t], DOMAIN snap'[t] = DOMAIN snap[t], t \notin setBack' => t \notin setBack,
             \/ t \notin torn' => t \notin torn
             \/ meta[t] # 0 /\ \A q \in Procs \ {p} : ~ On(q, t),
             n.pc \in {"artifact", "wrap", "snapshot"} => UpTo(t, n.v),
             n.pc \in {"version", "snapshot"} /\ n.op \in {"put", "sync"} => At(p, "version")
      PROVE  Numbered(t)'
  <2> SUFFICES ASSUME t \notin setBack' PROVE Numbered(t)'
    BY DEF Numbered
  <2>1. \A w \in DOMAIN snap'[t] : UpTo(t, w)' /\ (t \notin torn' => w <= meta'[t])
    BY <1>0, <1>1 DEF Numbered, UpTo
  <2>2. ASSUME NEW q \in Procs, proc'[q].s = t, proc'[q].pc \in {"artifact", "wrap", "snapshot"}
        PROVE  UpTo(t, proc[q].v)'
    <3>1. CASE q = p
      BY <1>1, <2>2, <3>1 DEF UpTo
    <3>2. CASE q # p
      BY <1>0, <1>1, <2>2, <3>2 DEF UpTo, Moves, Numbered
    <3>3. QED
      BY <3>1, <3>2
  <2>3. ASSUME NEW q \in Procs, t \notin torn', Versioning(q, t)'
        PROVE  \A w \in DOMAIN snap'[t] : w < meta'[t]
    <3>1. CASE q = p
      <4>1. At(p, "version") /\ Versioning(p, t) /\ Writing(p)
        BY <1>1, <1>a, <2>3, <3>1 DEF Versioning, At, Writing, Writes
      <4>2. t \notin torn
        BY <1>0, <1>1, <2>3, <3>1, <4>1 DEF Step, At, Compare, ReplaceShape, ReadPrior, WriteMeta, ReadVersion,
           WriteSnapshot, ProvisionProfile, SnapshotProfile, Invalidate, EndSync, Fetch, Store,
           Referenced, Present, DropShape, DropMeta, Validate, Conform, CurrentVersion, Artifact,
           Wrap, Stamp, SchemaExists, SetType, DropType, Loading
      <4>3. QED
        BY <1>0, <1>1, <4>1, <4>2 DEF Numbered
    <3>2. CASE q # p
      <4>1. proc'[q] = proc[q] /\ On(q, t) /\ Versioning(q, t)
        BY <2>3, <3>2 DEF Moves, Versioning, On, Busy
      <4>2. QED
        BY <1>0, <1>1, <2>3, <3>2, <4>1 DEF Numbered
    <3>3. QED
      BY <3>1, <3>2
  <2>4. QED
    BY <2>1, <2>2, <2>3 DEF Numbered
<1>2. CASE WriteMeta(p)
  <2> SUFFICES ASSUME t \notin setBack' PROVE Numbered(t)'
    BY DEF Numbered
  <2> DEFINE m == proc[p].v + 1
  <2>1. /\ meta'[t] = m /\ m \in Nat /\ meta[t] \in Nat /\ meta[t] <= m /\ m >= 1
        /\ t \notin setBack /\ UNCHANGED <<snap, torn>>
    BY <1>0, <1>2 DEF WriteMeta, NoteVersion
  <2>2. \A w \in Nat : UpTo(t, w) => w <= m
    BY <2>1 DEF UpTo
  <2>3. Writing(p) /\ Midway(p)
    BY <1>0, <1>2 DEF WriteMeta, Orderly, OpSteps, At, Writing, Writes, Midway, MidwaySteps
  <2>4. t \notin torn => meta[t] < m
    BY <1>2, <1>b, <1>c, <2>1, <2>3, <1>0 DEF LoneWrite, WriteMeta, At, Orderly, OpSteps
  <2>5. \A w \in DOMAIN snap'[t] : /\ UpTo(t, w)' /\ w <= meta'[t]
                                   /\ t \notin torn' => w < meta'[t]
    BY <1>0, <2>1, <2>2, <2>4 DEF Numbered, UpTo
  <2>6. ASSUME NEW q \in Procs, proc'[q].s = t, proc'[q].pc \in {"artifact", "wrap", "snapshot"}
        PROVE  UpTo(t, proc[q].v)'
    <3>1. q # p
      BY <1>2, <2>6 DEF Leads
    <3>2. UpTo(t, proc[q].v) /\ proc'[q] = proc[q] /\ proc[q].v \in Nat
      BY <1>0, <2>1, <2>6, <3>1 DEF Moves, Numbered
    <3>3. QED
      BY <2>1, <2>2, <3>2 DEF UpTo
  <2>7. QED
    BY <2>5, <2>6 DEF Numbered
<1>3. CASE DropMeta(p)
  <2> SUFFICES ASSUME t \notin setBack' PROVE Numbered(t)'
    BY DEF Numbered
  <2>1. /\ meta'[t] = meta[t] /\ t \notin setBack /\ UNCHANGED <<snap, torn>>
    BY <1>0, <1>3 DEF DropMeta, NoteVersion
  <2>2. n.pc = "invalidate"
    BY <1>3 DEF Leads
  <2>3. QED
    BY <1>1, <2>1, <2>2
<1>4. CASE WriteSnapshot(p)
  <2> SUFFICES ASSUME t \notin setBack' PROVE Numbered(t)'
    BY DEF Numbered
  <2> DEFINE v == proc[p].v
  <2>1. /\ UNCHANGED <<meta, torn, setBack>> /\ n.pc = "profile"
        /\ DOMAIN snap'[t] = DOMAIN snap[t] \cup {v}
    BY <1>0, <1>4 DEF WriteSnapshot, Leads, With
  <2>2. UpTo(t, v)
    BY <1>0, <1>4, <2>1 DEF WriteSnapshot, At, Numbered
  <2>3. t \notin torn => v <= meta[t]
    <3>1. CASE Writing(p)
      BY <1>0, <1>4, <1>b, <1>c, <3>1 DEF LoneWrite, WriteSnapshot, At, Orderly, OpSteps, Writing, Writes,
                                Midway, MidwaySteps
    <3>2. CASE ~ Writing(p)
      BY <1>0, <1>4, <3>2 DEF WriteSnapshot, At, Orderly, OpSteps, Writing, Writes, Recorded, RecordFits, On
    <3>3. QED
      BY <3>1, <3>2
  <2>4. ASSUME NEW q \in Procs, t \notin torn', Versioning(q, t)' PROVE FALSE
    <3>1. q # p
      BY <2>1, <2>4 DEF Versioning
    <3>2. On(q, t) /\ Writing(q)
      BY <2>4, <3>1 DEF Moves, Versioning, On, Busy, Writing, Writes
    <3>3. QED
      BY <1>0, <2>1, <2>4, <3>1, <3>2 DEF Orderly, On, Writing
  <2>5. \A w \in DOMAIN snap'[t] : UpTo(t, w)' /\ (t \notin torn' => w <= meta'[t])
    BY <1>0, <2>1, <2>2, <2>3 DEF Numbered, UpTo
  <2>6. ASSUME NEW q \in Procs, proc'[q].s = t, proc'[q].pc \in {"artifact", "wrap", "snapshot"}
        PROVE  UpTo(t, proc[q].v)'
    <3>1. q # p
      BY <2>1, <2>6
    <3>2. UpTo(t, proc[q].v) /\ proc'[q] = proc[q]
      BY <1>0, <2>1, <2>6, <3>1 DEF Moves, Numbered
    <3>3. QED
      BY <2>1, <3>2 DEF UpTo
  <2>7. QED
    BY <2>4, <2>5, <2>6 DEF Numbered
<1>5. CASE Invalidate(p) \/ EndSync(p)
  <2>1. UNCHANGED <<meta, snap, setBack>> /\ n.pc \in {"idle", "load"}
    BY <1>5 DEF Invalidate, EndSync, Leads
  <2>2. \/ t \notin torn' => t \notin torn
        \/ meta[t] # 0 /\ \A q \in Procs \ {p} : ~ On(q, t)
    <3>1. CASE proc[p].alone /\ proc[p].op \in {"put", "sync"}
      <4>1. meta[t] # 0
        BY <1>0, <1>5, <1>c, <3>1 DEF LoneWrite, Invalidate, EndSync, At, Midway, MidwaySteps, Writing, Writes
      <4>2. QED
        BY <1>c, <3>1, <4>1 DEF Writing, Writes
    <3>2. CASE ~ (proc[p].alone /\ proc[p].op \in {"put", "sync"})
      BY <1>5, <3>2 DEF Invalidate, EndSync, Mended
    <3>3. QED
      BY <3>1, <3>2
  <2>3. QED
    BY <1>1, <2>1, <2>2
<1>6. CASE ReadVersion(p)
  <2>1. UNCHANGED <<meta, snap, setBack, torn>> /\ At(p, "version")
    BY <1>6 DEF ReadVersion
  <2>2. UpTo(t, n.v) /\ n.pc # "wrap"
    BY <1>0, <1>6 DEF Leads, UpTo
  <2>3. QED
    BY <1>1, <2>1, <2>2
<1>7. CASE CurrentVersion(p) \/ Artifact(p) \/ Wrap(p)
  <2>1. UNCHANGED <<meta, snap, setBack, torn>> /\ proc[p].op = "record"
    BY <1>0, <1>7 DEF CurrentVersion, Artifact, Wrap, Orderly, OpSteps, At
  <2>2. t \notin setBack /\ n.pc \in {"artifact", "wrap", "snapshot"} => UpTo(t, n.v)
    <3>1. CASE CurrentVersion(p)
      BY <1>0, <3>1 DEF Leads, UpTo
    <3>2. CASE Artifact(p) \/ Wrap(p)
      <4>1. n.pc \in {"artifact", "wrap", "snapshot"} => n.v = proc[p].v
        BY <3>2 DEF Leads
      <4>2. t \notin setBack => UpTo(t, proc[p].v)
        BY <1>0, <3>2 DEF Artifact, Wrap, At, Numbered
      <4>3. QED
        BY <4>1, <4>2
    <3>3. QED
      BY <1>7, <3>1, <3>2
  <2>3. n.op \in {"put", "sync"} => n.pc = "idle"
    BY <1>a, <2>1
  <2>4. CASE t \in setBack
    BY <2>1, <2>4 DEF Numbered
  <2>5. QED
    BY <1>1, <2>1, <2>2, <2>3, <2>4
<1>8. CASE ~ (WriteMeta(p) \/ DropMeta(p) \/ WriteSnapshot(p) \/ Invalidate(p) \/ EndSync(p)
              \/ ReadVersion(p) \/ CurrentVersion(p) \/ Artifact(p) \/ Wrap(p))
  <2>1. UNCHANGED <<meta, snap, setBack, torn>>
    BY <1>8 DEF Step, Compare, ReplaceShape, ReadPrior, ProvisionProfile, SnapshotProfile, Fetch, Store,
           Referenced, Present, DropShape, Validate, Conform, Stamp, SchemaExists, SetType, DropType
  <2>2. n.pc \notin {"artifact", "wrap", "snapshot", "version"}
    BY <1>8 DEF Leads, Step
  <2>3. QED
    BY <1>1, <2>1, <2>2
<1>9. QED
  BY <1>2, <1>3, <1>4, <1>5, <1>6, <1>7, <1>8

\* Which step writes what.
Touches(p) ==
  /\ shape' = shape \/ ReplaceShape(p) \/ DropShape(p)
  /\ meta' = meta \/ WriteMeta(p) \/ DropMeta(p)
  /\ snap' = snap \/ WriteSnapshot(p)
  /\ prof' = prof \/ ProvisionProfile(p)
  /\ profSnap' = profSnap \/ SnapshotProfile(p)
  /\ typed' = typed \/ SetType(p) \/ DropType(p)
  /\ stamps' = stamps \/ Stamp(p)
  /\ torn' = torn \/ Invalidate(p) \/ EndSync(p)
  /\ missed' = missed \/ ReplaceShape(p) \/ DropShape(p) \/ Invalidate(p)
  /\ deleted' = deleted \/ DropShape(p)
  /\ setBack' = setBack \/ WriteMeta(p) \/ DropMeta(p)

\* Which step writes which variable.
LEMMA StepsTouch ==
  ASSUME NEW p \in Procs, Step(p)
  PROVE  Touches(p)
<1> USE DEF store, history, Touches
<1>1. CASE Compare(p) \/ ReadPrior(p) \/ ReadVersion(p) \/ Fetch(p) \/ Store(p) \/ Referenced(p)
           \/ Present(p) \/ Validate(p) \/ Conform(p) \/ CurrentVersion(p) \/ Artifact(p)
           \/ Wrap(p) \/ SchemaExists(p)
  BY <1>1 DEF Compare, ReadPrior, ReadVersion, Fetch, Store, Referenced, Present, Validate,
              Conform, CurrentVersion, Artifact, Wrap, SchemaExists
<1>2. CASE ReplaceShape(p) \/ WriteMeta(p) \/ WriteSnapshot(p) \/ ProvisionProfile(p)
           \/ SnapshotProfile(p) \/ DropShape(p) \/ DropMeta(p)
  BY <1>2 DEF ReplaceShape, WriteMeta, WriteSnapshot, ProvisionProfile, SnapshotProfile, DropShape,
              DropMeta, NoteVersion
<1>3. CASE Invalidate(p) \/ EndSync(p) \/ Stamp(p) \/ SetType(p) \/ DropType(p)
  BY <1>3 DEF Invalidate, EndSync, Stamp, SetType, DropType
<1>4. QED
  BY <1>1, <1>2, <1>3 DEF Step

\* A write that is not alone: nothing is claimed of its schema.
LEMMA TornWrite ==
  ASSUME UInv, NEW p \in Procs, Step(p), Moves(p), Leads(p), Touches(p),
         NEW t \in Schemas, t = proc[p].s, Writing(p), ~ proc[p].alone
  PROVE  Sound(t)'
<1>0. Orderly /\ Busy(p) /\ t \in torn /\ Stamped(t)
  BY DEF UInv, Sound, Moves, Orderly
<1>1. t \in torn'
  BY <1>0 DEF Touches, Invalidate, EndSync, Mended
<1>2. stamps' = stamps
  BY <1>0 DEF Touches, Stamp, At, Orderly, OpSteps, Writing, Writes
<1>3. LoneWrites(t)'
  <2> SUFFICES ASSUME NEW q \in Procs, On(q, t)' PROVE ~ proc'[q].alone
    BY DEF LoneWrites, LoneWrite
  <2>1. CASE q = p
    BY <2>1 DEF Moves, On, Busy, Idle
  <2>2. CASE q # p
    BY <1>0, <2>2 DEF Moves, On, Busy, Orderly
  <2>3. QED
    BY <2>1, <2>2
<1>4. QED
  BY <1>0, <1>1, <1>2, <1>3, NumberedKept DEF Sound, Whole, Recorded, Stamped, Referred

\* A write that is alone.
LEMMA LoneStep ==
  ASSUME UInv, NEW p \in Procs, Step(p), Moves(p), Leads(p), Touches(p),
         NEW t \in Schemas, t = proc[p].s, Writing(p), proc[p].alone
  PROVE  Sound(t)'
<1> USE DEF Writing, Writes
<1> DEFINE n == proc'[p]
           v == proc[p].v
           pc == proc[p].pc
           op == proc[p].op
<1>0. /\ Orderly /\ Busy(p) /\ proc[p] \in Registers /\ v \in Nat /\ Fits(proc[p], snap)
      /\ OpSteps(proc[p]) /\ OpFits(proc[p]) /\ op \in Writes
      /\ LoneWrite(p) /\ Whole(t) /\ Stamped(t) /\ Referred(t) /\ On(p, t)
      /\ DOMAIN shape = Schemas /\ DOMAIN meta = Schemas /\ DOMAIN snap = Schemas
      /\ DOMAIN prof = Schemas /\ DOMAIN profSnap = Schemas /\ meta[t] \in Nat
  BY DEF UInv, Sound, LoneWrites, Moves, CInv, IInv, TypeOK, RegistersFit, LoadsFresh, Orderly, Registers, On
<1>a. \A q \in Procs \ {p} : ~ On(q, t)
  BY <1>0 DEF Orderly, On
<1>b. /\ \A q \in Procs \ {p} : ~ On(q, t)'
      /\ n.pc = "idle" \/ (n.s = t /\ n.op = op /\ n.alone)
  <2>1. \A q \in Procs \ {p} : ~ On(q, t)'
    BY <1>a DEF Moves, On, Busy
  <2>2. n.pc = "idle" \/ (n.s = t /\ n.op = op /\ n.alone)
    BY IdleFits DEF Moves
  <2>3. QED
    BY <2>1, <2>2
<1>c. UNCHANGED <<stamps, typed>>
  BY <1>0 DEF Touches, Stamp, SetType, DropType, At, OpSteps
<1>d. /\ ~ SetType(p) /\ ~ DropType(p) /\ ~ Stamp(p) /\ ~ SchemaExists(p) /\ ~ Validate(p)
      /\ ~ Conform(p) /\ ~ CurrentVersion(p) /\ ~ Artifact(p) /\ ~ Wrap(p)
  BY <1>0 DEF SetType, DropType, Stamp, SchemaExists, Validate, Conform, CurrentVersion, Artifact,
              Wrap, At, OpSteps
<1>1. Recorded(t)'
  BY <1>0, <1>b DEF Recorded, On, Busy
<1>2. Referred(t)'
  <2> SUFFICES ASSUME t \notin torn'
               PROVE  /\ t \in typed => shape'[t] # Nil
                      /\ n.pc \in {"present", "drop"} => t \notin typed
                      /\ n.pc # "settype"
    BY <1>b, <1>c DEF Referred, On, Busy, At
  <2>1. n.pc # "settype"
    BY <1>d DEF Leads, Step
  <2>2. n.pc \in {"present", "drop"} => t \notin typed
    <3>1. n.pc \in {"present", "drop"} => Referenced(p) \/ Present(p)
      BY <1>d DEF Leads, Step
    <3>2. CASE Referenced(p)
      BY <3>2 DEF Leads
    <3>3. CASE Present(p)
      <4>1. t \notin torn
        BY <3>3 DEF Present, history
      <4>2. QED
        BY <1>0, <3>3, <4>1 DEF Present, At, Referred
    <3>4. QED
      BY <3>1, <3>2, <3>3
  <2>3. t \in typed => shape'[t] # Nil
    <3>1. CASE ReplaceShape(p)
      BY <1>0, <3>1, SchemaAssumption DEF ReplaceShape, At, Fits
    <3>2. CASE DropShape(p)
      BY <1>0, <3>2 DEF DropShape, At, Referred
    <3>3. CASE Invalidate(p) \/ EndSync(p)
      <4>1. pc = "invalidate" /\ UNCHANGED shape
        BY <3>3 DEF Invalidate, EndSync, At, store
      <4>2. CASE op \in {"put", "sync"}
        BY <1>0, <4>1, <4>2, SchemaAssumption DEF LoneWrite, Midway, MidwaySteps
      <4>3. CASE op \notin {"put", "sync"}
        BY <1>0, <3>3, <4>1, <4>3 DEF Invalidate, EndSync, Referred
      <4>4. QED
        BY <4>2, <4>3
    <3>4. CASE ~ (ReplaceShape(p) \/ DropShape(p) \/ Invalidate(p) \/ EndSync(p))
      BY <1>0, <3>4 DEF Touches, Referred
    <3>5. QED
      BY <3>1, <3>2, <3>3, <3>4
  <2>4. QED
    BY <2>1, <2>2, <2>3
<1>3. LoneWrites(t)'
  <2> SUFFICES ASSUME n.pc \in MidwaySteps, n.s = t, n.op = op
               PROVE  LoneWrite(p)'
    BY <1>b DEF LoneWrites, LoneWrite, Midway, On, Busy
  <2>0. /\ ReplaceShape(p) \/ ReadPrior(p) \/ WriteMeta(p) \/ ReadVersion(p) \/ WriteSnapshot(p)
           \/ ProvisionProfile(p) \/ SnapshotProfile(p) \/ DropShape(p) \/ DropMeta(p)
    BY <1>d DEF Leads, Step, MidwaySteps
  <2>1. CASE ReplaceShape(p)
    <3>1. shape'[t] = proc[p].body /\ n.pc = "prior" /\ n.body = proc[p].body /\ n.body \in Bodies
          /\ op # "delete"
      BY <1>0, <2>1 DEF ReplaceShape, Leads, At, Fits, OpFits
    <3>2. QED
      BY <3>1 DEF LoneWrite
  <2>2. CASE ReadPrior(p)
    <3>1. /\ UNCHANGED <<shape, meta>> /\ n.pc = "meta" /\ n.v = meta[t] /\ n.body = proc[p].body
          /\ pc = "prior" /\ op \in {"put", "sync"}
      BY <1>0, <2>2 DEF ReadPrior, Leads, At, OpSteps, store
    <3>2. QED
      BY <1>0, <3>1 DEF LoneWrite, Midway, MidwaySteps
  <2>3. CASE WriteMeta(p)
    <3>1. /\ UNCHANGED shape /\ n.pc = "version" /\ n.body = proc[p].body
          /\ pc = "meta" /\ op \in {"put", "sync"} /\ meta'[t] # 0
      BY <1>0, <2>3 DEF WriteMeta, Leads, At, OpSteps
    <3>2. QED
      BY <1>0, <3>1 DEF LoneWrite, Midway, MidwaySteps
  <2>4. CASE ReadVersion(p)
    <3>1. /\ UNCHANGED <<shape, meta>> /\ n.v = meta[t] /\ n.body = proc[p].body
          /\ pc = "version" /\ op \in {"put", "sync"}
          /\ n.pc = IF meta[t] = 0 THEN "invalidate" ELSE "snapshot"
      BY <1>0, <2>4 DEF ReadVersion, Leads, At, OpSteps, store
    <3>2. meta[t] # 0
      BY <1>0, <3>1 DEF LoneWrite, Midway, MidwaySteps
    <3>3. QED
      BY <1>0, <3>1, <3>2 DEF LoneWrite, Midway, MidwaySteps
  <2>5. CASE WriteSnapshot(p)
    <3>1. /\ UNCHANGED <<shape, meta>> /\ n.pc = "profile" /\ n.v = v /\ n.body = proc[p].body
          /\ pc = "snapshot" /\ op \in {"put", "sync"}
      BY <1>0, <2>5 DEF WriteSnapshot, Leads, At, OpSteps
    <3>2. v \in DOMAIN snap'[t] /\ snap'[t][v] = proc[p].body
      BY <1>0, <2>5 DEF WriteSnapshot, With
    <3>3. QED
      BY <1>0, <3>1, <3>2 DEF LoneWrite, Midway, MidwaySteps
  <2>6. CASE ProvisionProfile(p)
    <3>1. /\ UNCHANGED <<shape, meta, snap>> /\ n.pc = "profsnap" /\ n.v = v /\ n.body = proc[p].body
          /\ pc = "profile" /\ op \in {"put", "sync"} /\ prof'[t] = v
      BY <1>0, <2>6 DEF ProvisionProfile, Leads, At, OpSteps
    <3>2. QED
      BY <1>0, <3>1 DEF LoneWrite, Midway, MidwaySteps
  <2>7. CASE SnapshotProfile(p)
    <3>1. /\ UNCHANGED <<shape, meta, snap, prof>> /\ n.pc = "invalidate" /\ n.v = v
          /\ n.body = proc[p].body /\ pc = "profsnap" /\ op \in {"put", "sync"} /\ v \in profSnap'[t]
      BY <1>0, <2>7 DEF SnapshotProfile, Leads, At, OpSteps
    <3>2. QED
      BY <1>0, <3>1 DEF LoneWrite, Midway, MidwaySteps
  <2>8. CASE DropShape(p)
    <3>1. shape'[t] = Nil /\ op = "delete"
      BY <1>0, <2>8 DEF DropShape, At, OpFits
    <3>2. QED
      BY <3>1 DEF LoneWrite
  <2>9. CASE DropMeta(p)
    <3>1. UNCHANGED shape /\ op = "delete" /\ pc = "dropmeta"
      BY <1>0, <2>9 DEF DropMeta, At, OpSteps
    <3>2. QED
      BY <1>0, <3>1 DEF LoneWrite, Midway, MidwaySteps
  <2>10. QED
    BY <2>0, <2>1, <2>2, <2>3, <2>4, <2>5, <2>6, <2>7, <2>8, <2>9
<1>4. Whole(t)'
  <2> SUFFICES ASSUME t \notin torn', shape'[t] # Nil, Settled(t)'
               PROVE  /\ meta'[t] # 0
                      /\ meta'[t] \in DOMAIN snap'[t] => snap'[t][meta'[t]] = shape'[t]
                      /\ prof'[t] # 0 => prof'[t] = meta'[t] /\ prof'[t] \in profSnap'[t]
    BY DEF Whole, Provided
  <2>0. n.pc \notin MidwaySteps
    BY <1>b DEF Settled, On, Busy, Midway, MidwaySteps
  <2>1. CASE Invalidate(p) \/ EndSync(p)
    <3>1. pc = "invalidate" /\ UNCHANGED <<shape, meta, snap, prof, profSnap>>
      BY <2>1 DEF Invalidate, EndSync, At, store
    <3>2. QED
      BY <1>0, <3>1 DEF LoneWrite, Midway, MidwaySteps
  <2>2. CASE ~ (Invalidate(p) \/ EndSync(p))
    <3>1. Compare(p) \/ Fetch(p) \/ Store(p) \/ Referenced(p) \/ Present(p)
      BY <1>d, <2>0, <2>2 DEF Leads, Step, MidwaySteps
    <3>2. UNCHANGED <<shape, meta, snap, prof, profSnap, torn>> /\ ~ Midway(p)
      BY <3>1 DEF Compare, Fetch, Store, Referenced, Present, store, history, At, Loading, Midway, MidwaySteps
    <3>3. Settled(t) /\ \A w : ~ Pending(t, w)
      BY <1>a, <3>2 DEF Settled, Pending, On, At, Busy, Midway, MidwaySteps
    <3>4. QED
      BY <1>0, <3>2, <3>3 DEF Whole, Provided
  <2>3. QED
    BY <2>1, <2>2
<1>5. Stamped(t)'
  <2> SUFFICES ASSUME NEW st \in stamps, st.s = t, t \notin torn
               PROVE  /\ t \notin torn'
                      /\ t \notin deleted' =>
                           /\ st.v \in DOMAIN snap'[t] /\ snap'[t][st.v] = st.body
                           /\ Provided(t, st.v)'
                           /\ st.v <= meta'[t]
                           /\ n.pc \in {"version", "snapshot"} /\ op \in {"put", "sync"} => st.v < meta'[t]
    BY <1>0, <1>b, <1>c DEF Stamped, Versioning, On, Busy
  <2>0. t \notin torn' /\ deleted \subseteq deleted' /\ st.v \in Nat
    BY <1>c DEF Touches, Invalidate, EndSync, Mended, DropShape, UInv, CInv, IInv, TypeOK
  <2> SUFFICES ASSUME t \notin deleted'
               PROVE  /\ st.v \in DOMAIN snap'[t] /\ snap'[t][st.v] = st.body
                      /\ Provided(t, st.v)'
                      /\ st.v <= meta'[t]
                      /\ n.pc \in {"version", "snapshot"} /\ op \in {"put", "sync"} => st.v < meta'[t]
    BY <2>0
  <2>1. /\ st.v \in DOMAIN snap[t] /\ snap[t][st.v] = st.body
        /\ Provided(t, st.v) /\ st.v <= meta[t]
        /\ pc \in {"version", "snapshot"} /\ op \in {"put", "sync"} => st.v < meta[t]
    BY <1>0, <2>0 DEF Stamped, Versioning, On
  <2>2. Provided(t, st.v)'
    <3>1. CASE SnapshotProfile(p)
      <4>1. profSnap'[t] = profSnap[t] \cup {v}
        BY <1>0, <3>1 DEF SnapshotProfile
      <4>2. Pending(t, st.v) => v = st.v
        BY <1>a DEF Pending, On, At, Busy
      <4>3. QED
        BY <2>1, <4>1, <4>2 DEF Provided
    <3>2. CASE ~ SnapshotProfile(p)
      <4>1. profSnap' = profSnap
        BY <3>2 DEF Touches
      <4>2. pc # "profsnap"
        BY <3>2 DEF Step, At, Loading, Compare, ReplaceShape, ReadPrior, WriteMeta, ReadVersion,
           WriteSnapshot, ProvisionProfile, Invalidate, EndSync, Fetch, Store,
           Referenced, Present, DropShape, DropMeta, Validate, Conform, CurrentVersion, Artifact,
           Wrap, Stamp, SchemaExists, SetType, DropType
      <4>3. ~ Pending(t, st.v)
        BY <1>a, <4>2 DEF Pending, On, At, Busy
      <4>4. QED
        BY <2>1, <4>1, <4>3 DEF Provided
    <3>3. QED
      BY <3>1, <3>2
  <2>3. st.v \in DOMAIN snap'[t] /\ snap'[t][st.v] = st.body
    <3>1. CASE WriteSnapshot(p)
      <4>1. pc = "snapshot" /\ op \in {"put", "sync"} /\ v = meta[t]
        BY <1>0, <3>1 DEF WriteSnapshot, At, OpSteps, LoneWrite, Midway, MidwaySteps
      <4>2. st.v # v
        BY <1>0, <2>0, <2>1, <4>1
      <4>3. QED
        BY <1>0, <2>1, <3>1, <4>2 DEF WriteSnapshot, With
    <3>2. CASE ~ WriteSnapshot(p)
      BY <2>1, <3>2 DEF Touches
    <3>3. QED
      BY <3>1, <3>2
  <2>4. /\ st.v <= meta'[t]
        /\ n.pc \in {"version", "snapshot"} /\ op \in {"put", "sync"} => st.v < meta'[t]
    <3>1. CASE WriteMeta(p)
      <4>1. pc = "meta" /\ op \in {"put", "sync"} /\ v = meta[t] /\ meta'[t] = v + 1
        BY <1>0, <3>1 DEF WriteMeta, At, OpSteps, LoneWrite, Midway, MidwaySteps
      <4>2. QED
        BY <1>0, <2>0, <2>1, <4>1
    <3>2. CASE DropMeta(p)
      BY <1>0, <2>0, <3>2 DEF DropMeta, Orderly
    <3>3. CASE ReadVersion(p)
      BY <2>1, <3>3 DEF ReadVersion, At, store
    <3>4. CASE ~ (WriteMeta(p) \/ DropMeta(p) \/ ReadVersion(p))
      <4>1. n.pc \notin {"version", "snapshot"} /\ UNCHANGED meta
        BY <1>d, <3>4 DEF Touches, Leads, Step
      <4>2. QED
        BY <2>1, <4>1
    <3>5. QED
      BY <3>1, <3>2, <3>3, <3>4
  <2>5. QED
    BY <2>2, <2>3, <2>4
<1>6. QED
  BY <1>1, <1>2, <1>3, <1>4, <1>5, NumberedKept DEF Sound

\* A record write, or a registration, on a schema that no write disturbs: the
\* versions that are there stay as they are, and what is provisioned stays so.
LEMMA UndisturbedStore ==
  ASSUME UInv, NEW p \in Procs, Step(p), Moves(p), Leads(p), Touches(p),
         NEW t \in Schemas, t = proc[p].s, ~ Writing(p), t \notin torn
  PROVE  /\ \A q \in Procs : On(q, t) => ~ Writing(q)
         /\ proc[p].op = "record" => RecordFits(p)
         /\ shape[t] # Nil =>
              /\ meta[t] # 0
              /\ meta[t] \in DOMAIN snap[t] => snap[t][meta[t]] = shape[t]
              /\ prof[t] # 0 => prof[t] = meta[t] /\ Provided(t, prof[t])
         /\ \A w \in DOMAIN snap[t] : w \in DOMAIN snap'[t] /\ snap'[t][w] = snap[t][w]
         /\ shape[t] # Nil /\ meta[t] \in DOMAIN snap'[t] => snap'[t][meta[t]] = shape[t]
         /\ prof'[t] = prof[t] \/ (prof'[t] = meta[t] /\ Pending(t, meta[t])')
         /\ \A w : Provided(t, w) => Provided(t, w)'
<1> DEFINE v == proc[p].v
<1>0. /\ Orderly /\ Busy(p) /\ On(p, t) /\ OpSteps(proc[p]) /\ Whole(t) /\ Recorded(t)
      /\ DOMAIN snap = Schemas /\ DOMAIN prof = Schemas /\ DOMAIN profSnap = Schemas
  BY DEF UInv, Sound, Moves, CInv, IInv, TypeOK, Orderly, On
<1>1. \A q \in Procs : On(q, t) => ~ Writing(q)
  BY <1>0 DEF Orderly, On
<1>2. proc[p].op = "record" => RecordFits(p)
  BY <1>0 DEF Recorded
<1>3. shape[t] # Nil =>
              /\ meta[t] # 0
              /\ meta[t] \in DOMAIN snap[t] => snap[t][meta[t]] = shape[t]
              /\ prof[t] # 0 => prof[t] = meta[t] /\ Provided(t, prof[t])
  BY <1>0, <1>1 DEF Whole, Settled
<1>4. \/ snap'[t] = snap[t]
      \/ shape[t] # Nil /\ snap'[t] = With(snap[t], meta[t], shape[t])
  <2>1. CASE WriteSnapshot(p)
    <3>1. proc[p].op = "record" /\ proc[p].pc = "snapshot"
      BY <1>0, <2>1 DEF WriteSnapshot, At, OpSteps, Writing, Writes
    <3>2. v = meta[t] /\ proc[p].body = shape[t] /\ shape[t] # Nil
      BY <1>2, <3>1 DEF RecordFits
    <3>3. snap'[t] = With(snap[t], v, proc[p].body)
      BY <1>0, <2>1 DEF WriteSnapshot
    <3>4. QED
      BY <3>2, <3>3
  <2>2. QED
    BY <2>1 DEF Touches
<1>5. /\ \A w \in DOMAIN snap[t] : w \in DOMAIN snap'[t] /\ snap'[t][w] = snap[t][w]
      /\ shape[t] # Nil /\ meta[t] \in DOMAIN snap'[t] => snap'[t][meta[t]] = shape[t]
  BY <1>3, <1>4 DEF With
<1>6. prof'[t] = prof[t] \/ (prof'[t] = meta[t] /\ Pending(t, meta[t])')
  <2>1. CASE ProvisionProfile(p)
    <3>1. proc[p].op = "record" /\ proc[p].pc = "profile"
      BY <1>0, <2>1 DEF ProvisionProfile, At, OpSteps, Writing, Writes
    <3>2. v = meta[t]
      BY <1>2, <3>1 DEF RecordFits
    <3>3. prof'[t] = v /\ proc'[p].pc = "profsnap" /\ proc'[p].v = v /\ meta' = meta
      BY <1>0, <2>1 DEF ProvisionProfile, Leads
    <3>4. proc'[p].s = t
      BY <3>3, IdleFits DEF Moves
    <3>5. QED
      BY <3>2, <3>3, <3>4 DEF Pending, At
  <2>2. QED
    BY <2>1 DEF Touches
<1>7. ASSUME NEW w, Provided(t, w) PROVE Provided(t, w)'
  <2>1. CASE SnapshotProfile(p)
    <3>1. profSnap'[t] = profSnap[t] \cup {v}
      BY <1>0, <2>1 DEF SnapshotProfile
    <3>2. QED
      BY <1>7, <3>1 DEF Provided, Pending, Moves, At
  <2>2. CASE ~ SnapshotProfile(p)
    <3>1. profSnap' = profSnap
      BY <2>2 DEF Touches
    <3>2. proc[p].pc # "profsnap"
      BY <2>2 DEF Step, At, Loading, Compare, ReplaceShape, ReadPrior, WriteMeta, ReadVersion,
           WriteSnapshot, ProvisionProfile, Invalidate, EndSync, Fetch, Store,
           Referenced, Present, DropShape, DropMeta, Validate, Conform, CurrentVersion, Artifact,
           Wrap, Stamp, SchemaExists, SetType, DropType
    <3>3. QED
      BY <1>7, <3>1, <3>2 DEF Provided, Pending, Moves, At
  <2>3. QED
    BY <2>1, <2>2
<1>8. QED
  BY <1>1, <1>2, <1>3, <1>5, <1>6, <1>7

\* What a record write knows is still so after its step.
LEMMA RecordStep ==
  ASSUME UInv, NEW p \in Procs, Step(p), Moves(p), Leads(p), Touches(p), CInv',
         NEW t \in Schemas, t = proc[p].s, proc[p].op = "record", t \notin torn,
         UNCHANGED <<shape, meta, missed>>, proc'[p].pc # "idle"
  PROVE  RecordFits(p)'
<1> DEFINE n == proc'[p]
           v == proc[p].v
           pc == proc[p].pc
<1>0. /\ Orderly /\ OpSteps(proc[p]) /\ OpFits(proc[p]) /\ ~ Writing(p) /\ n.s = t
      /\ DOMAIN snap = Schemas /\ DOMAIN profSnap = Schemas /\ ArtifactsResolve
      /\ CacheCoherent /\ Fits(proc[p], snap)
  BY IdleFits DEF UInv, Moves, CInv, IInv, TypeOK, LoadsFresh, Orderly, Writing, Writes, RegistersFit
<1>1. /\ RecordFits(p)
      /\ \A q \in Procs : On(q, t) => ~ Writing(q)
      /\ shape[t] # Nil /\ meta[t] # 0
      /\ meta[t] \in DOMAIN snap[t] => snap[t][meta[t]] = shape[t]
      /\ prof[t] # 0 => prof[t] = meta[t] /\ Provided(t, prof[t])
      /\ \A w \in DOMAIN snap[t] : w \in DOMAIN snap'[t] /\ snap'[t][w] = snap[t][w]
      /\ \A w : Provided(t, w) => Provided(t, w)'
  <2>1. shape[t] # Nil
    BY <1>0, UndisturbedStore DEF RecordFits
  <2>2. QED
    BY <1>0, <2>1, UndisturbedStore
<1>2. /\ ~ Compare(p) /\ ~ ReplaceShape(p) /\ ~ ReadPrior(p) /\ ~ WriteMeta(p) /\ ~ ReadVersion(p)
      /\ ~ Invalidate(p) /\ ~ EndSync(p) /\ ~ Referenced(p) /\ ~ Present(p) /\ ~ DropShape(p)
      /\ ~ DropMeta(p) /\ ~ SchemaExists(p) /\ ~ SetType(p) /\ ~ DropType(p)
  BY <1>0 DEF Compare, ReplaceShape, ReadPrior, WriteMeta, ReadVersion, Invalidate, EndSync, Referenced,
     Present, DropShape, DropMeta, SchemaExists, SetType, DropType, At, OpSteps, OpFits
<1>3. \A pair : Fresh(pair) => Fresh(pair)'
  BY DEF Fresh
<1>4. n.pc \in {"artifact", "wrap", "snapshot", "profile", "profsnap", "stamp"} => n.v = meta[t]
  <2>1. CASE CurrentVersion(p)
    BY <1>1, <2>1 DEF Leads
  <2>2. CASE Artifact(p) \/ Wrap(p) \/ WriteSnapshot(p) \/ ProvisionProfile(p) \/ SnapshotProfile(p)
    <3>1. pc \in {"artifact", "wrap", "snapshot", "profile", "profsnap"} /\ (n.pc = "idle" \/ n.v = v)
      BY <2>2 DEF Leads, Artifact, Wrap, WriteSnapshot, ProvisionProfile, SnapshotProfile, At
    <3>2. QED
      BY <1>1, <3>1 DEF RecordFits
  <2>3. CASE Conform(p)
    BY <1>1, <2>3 DEF Leads
  <2>4. CASE Fetch(p) \/ Store(p) \/ Validate(p) \/ Stamp(p)
    BY <2>4 DEF Leads
  <2>5. QED
    BY <1>2, <2>1, <2>2, <2>3, <2>4 DEF Step
<1>5. n.pc = "snapshot" => n.body = shape[t]
  BY <1>2 DEF Leads, Step
<1>6. n.pc \in {"profile", "profsnap", "stamp"} => n.v \in DOMAIN snap'[t] /\ snap'[t][n.v] = shape[t]
  <2>1. CASE WriteSnapshot(p)
    <3>1. n.v = v /\ pc = "snapshot" /\ snap'[t] = With(snap[t], v, proc[p].body)
      BY <1>0, <2>1 DEF WriteSnapshot, Leads, At
    <3>2. proc[p].body = shape[t]
      BY <1>1, <3>1 DEF RecordFits
    <3>3. QED
      BY <3>1, <3>2 DEF With
  <2>2. CASE Artifact(p)
    <3>1. n.pc = "profile" => v \in DOMAIN snap[t]
      BY <2>2 DEF Leads
    <3>2. v = meta[t] /\ n.v = v /\ n.pc \in {"profile", "wrap"}
      BY <1>1, <2>2 DEF RecordFits, Artifact, At, Leads
    <3>3. QED
      BY <1>1, <3>1, <3>2
  <2>3. CASE ProvisionProfile(p) \/ SnapshotProfile(p)
    <3>1. n.v = v /\ pc \in {"profile", "profsnap"}
      BY <2>3 DEF ProvisionProfile, SnapshotProfile, Leads, At
    <3>2. v \in DOMAIN snap[t] /\ snap[t][v] = shape[t]
      BY <1>1, <3>1 DEF RecordFits
    <3>3. QED
      BY <1>1, <3>1, <3>2
  <2>4. CASE Conform(p)
    <3>1. n.pc = "stamp" => n.v = prof[t] /\ prof[t] # 0
      BY <2>4 DEF Leads
    <3>2. prof[t] # 0 => prof[t] \in DOMAIN snap[t] /\ snap[t][prof[t]] = shape[t]
      BY <1>0, <1>1 DEF ArtifactsResolve
    <3>3. n.pc \notin {"profile", "profsnap"}
      BY <2>4 DEF Leads
    <3>4. QED
      BY <1>1, <3>1, <3>2, <3>3
  <2>5. CASE Fetch(p) \/ Store(p) \/ Validate(p) \/ Stamp(p) \/ CurrentVersion(p) \/ Wrap(p)
    BY <2>5 DEF Leads
  <2>6. QED
    BY <1>2, <2>1, <2>2, <2>3, <2>4, <2>5 DEF Step
<1>7. ASSUME n.pc = "stamp", NEW w, w = n.v PROVE Provided(t, w)'
  <2>1. CASE SnapshotProfile(p)
    <3>1. v \in profSnap'[t] /\ n.v = v
      BY <1>0, <2>1 DEF SnapshotProfile, Leads
    <3>2. QED
      BY <1>7, <3>1 DEF Provided
  <2>2. CASE Conform(p)
    BY <1>1, <1>7, <2>2 DEF Leads
  <2>3. CASE ~ (SnapshotProfile(p) \/ Conform(p))
    BY <1>2, <1>7, <2>3 DEF Leads, Step
  <2>4. QED
    BY <2>1, <2>2, <2>3
<1>8. \A pair \in n.frags : pair[1] = t => Fresh(pair)'
  <2>1. CASE n.pc = "load"
    BY <2>1 DEF CInv, LoadsFresh, Loading, At
  <2>2. CASE Validate(p) /\ n.pc # "load"
    <3>1. n.frags = cache[t]
      BY <2>2 DEF Leads
    <3>2. \A q \in Procs : ~ WillInvalidate(q, t)
      BY <1>1 DEF WillInvalidate, On, Writing, Writes, Midway, MidwaySteps, Busy
    <3>3. QED
      BY <1>0, <1>3, <3>1, <3>2 DEF CacheCoherent, Fresh
  <2>3. CASE ~ Validate(p) /\ n.pc # "load"
    <3>1. n.frags = proc[p].frags
      BY <1>2, <2>3 DEF Leads, Step
    <3>2. pc # "validate"
      BY <1>2, <2>3 DEF Step, At, Fetch, Loading, Store, Conform, CurrentVersion, Artifact, Wrap,
         WriteSnapshot, ProvisionProfile, SnapshotProfile, Stamp
    <3>3. QED
      BY <1>1, <1>3, <3>1, <3>2 DEF RecordFits
  <2>4. QED
    BY <2>1, <2>2, <2>3
<1>9. QED
  BY <1>0, <1>1, <1>4, <1>5, <1>6, <1>7, <1>8 DEF RecordFits

\* A step of a request that writes no schema.
LEMMA OtherStep ==
  ASSUME UInv, NEW p \in Procs, Step(p), Moves(p), Leads(p), Touches(p), CInv',
         NEW t \in Schemas, t = proc[p].s, ~ Writing(p)
  PROVE  Sound(t)'
<1> DEFINE n == proc'[p]
           v == proc[p].v
           op == proc[p].op
<1>0. /\ Orderly /\ OpSteps(proc[p]) /\ OpFits(proc[p]) /\ Busy(p) /\ On(p, t) /\ op \notin Writes
      /\ Sound(t) /\ meta[t] \in Nat /\ proc[p] \in Registers
      /\ n.pc = "idle" \/ (n.s = t /\ n.op = op)
      /\ \A q \in Procs : OpSteps(proc[q]) /\ OpFits(proc[q])
  BY IdleFits DEF UInv, Moves, CInv, IInv, TypeOK, LoadsFresh, Orderly, Writing, Registers, On
<1>a. /\ ~ ReplaceShape(p) /\ ~ ReadPrior(p) /\ ~ WriteMeta(p) /\ ~ ReadVersion(p) /\ ~ Compare(p)
      /\ ~ Invalidate(p) /\ ~ EndSync(p) /\ ~ Referenced(p) /\ ~ Present(p) /\ ~ DropShape(p) /\ ~ DropMeta(p)
  BY <1>0 DEF ReplaceShape, ReadPrior, WriteMeta, ReadVersion, Compare, Invalidate, EndSync,
     Referenced, Present, DropShape, DropMeta, At, OpSteps, OpFits, Writes
<1>b. UNCHANGED <<shape, meta, deleted, setBack, torn, missed>>
  BY <1>a DEF Touches
<1>1. LoneWrites(t)'
  <2> SUFFICES ASSUME NEW q \in Procs, On(q, t)', proc'[q].alone, Midway(q)'
               PROVE  proc'[q].op \notin {"put", "sync", "delete"}
    BY DEF LoneWrites, LoneWrite
  <2>1. CASE q = p
    BY <1>0, <2>1 DEF On, Busy, Writes
  <2>2. CASE q # p
    BY <1>0, <2>2 DEF Moves, On, Busy, Orderly, Writing, Writes
  <2>3. QED
    BY <2>1, <2>2
<1>2. Numbered(t)'
  BY NumberedKept
<1>3. CASE t \in torn
  <2>1. stamps' = stamps
    BY <1>3 DEF Touches, Stamp
  <2>2. QED
    BY <1>0, <1>1, <1>2, <1>3, <1>b, <2>1 DEF Sound, Whole, Recorded, Stamped, Referred
<1>4. CASE t \notin torn
  <2>1. /\ \A q \in Procs : On(q, t) => ~ Writing(q)
        /\ op = "record" => RecordFits(p)
        /\ shape[t] # Nil =>
              /\ meta[t] # 0
              /\ meta[t] \in DOMAIN snap[t] => snap[t][meta[t]] = shape[t]
              /\ prof[t] # 0 => prof[t] = meta[t] /\ Provided(t, prof[t])
        /\ \A w \in DOMAIN snap[t] : w \in DOMAIN snap'[t] /\ snap'[t][w] = snap[t][w]
        /\ shape[t] # Nil /\ meta[t] \in DOMAIN snap'[t] => snap'[t][meta[t]] = shape[t]
        /\ prof'[t] = prof[t] \/ (prof'[t] = meta[t] /\ Pending(t, meta[t])')
        /\ \A w : Provided(t, w) => Provided(t, w)'
    BY <1>4, UndisturbedStore
  <2>2. Whole(t)'
    <3> SUFFICES ASSUME shape[t] # Nil, NEW w, w = prof'[t]
                 PROVE  /\ meta[t] # 0
                        /\ meta[t] \in DOMAIN snap'[t] => snap'[t][meta[t]] = shape[t]
                        /\ w # 0 => w = meta[t] /\ Provided(t, w)'
      BY <1>b DEF Whole
    <3>1. w # 0 => w = meta[t] /\ Provided(t, w)'
      <4>1. CASE w = prof[t]
        BY <2>1, <4>1
      <4>2. CASE w = meta[t] /\ Pending(t, meta[t])'
        BY <1>b, <4>2 DEF Provided
      <4>3. QED
        BY <2>1, <4>1, <4>2
    <3>2. QED
      BY <2>1, <3>1
  <2>3. Recorded(t)'
    <3> SUFFICES ASSUME NEW q \in Procs, On(q, t)', proc'[q].op = "record"
                 PROVE  RecordFits(q)'
      BY DEF Recorded
    <3>1. CASE q = p
      BY <1>0, <1>4, <1>b, <3>1, RecordStep DEF On, Busy
    <3>2. CASE q # p
      <4>1. proc'[q] = proc[q] /\ proc[q].s = t /\ RecordFits(q)
        BY <1>0, <1>4, <3>2 DEF Moves, On, Busy, Sound, Recorded
      <4>2. \A pair : Fresh(pair) => Fresh(pair)'
        BY <1>b DEF Fresh
      <4>3. QED
        BY <1>b, <2>1, <4>1, <4>2 DEF RecordFits
    <3>3. QED
      BY <3>1, <3>2
  <2>4. \A q \in Procs : ~ Versioning(q, t)'
    <3>1. ASSUME NEW q \in Procs, Versioning(q, t)' PROVE FALSE
      <4>1. q # p
        BY <1>0, <3>1 DEF Versioning, Writes
      <4>2. proc'[q] = proc[q] /\ On(q, t) /\ Writing(q)
        BY <3>1, <4>1 DEF Moves, Versioning, On, Busy, Writing, Writes
      <4>3. QED
        BY <2>1, <4>2
    <3>2. QED
      BY <3>1
  <2>5. Stamped(t)'
    <3> SUFFICES ASSUME NEW st \in stamps', st.s = t, t \notin deleted
                 PROVE  /\ st.v \in DOMAIN snap'[t] /\ snap'[t][st.v] = st.body
                        /\ Provided(t, st.v)'
                        /\ st.v <= meta[t]
      BY <1>4, <1>b, <2>4 DEF Stamped
    <3>1. CASE st \in stamps
      BY <1>0, <2>1, <3>1 DEF Sound, Stamped
    <3>2. CASE st \notin stamps
      <4>1. /\ Stamp(p) /\ t \notin missed
            /\ \E pair \in proc[p].frags : pair[1] = t /\ st = [s |-> t, v |-> v, body |-> pair[2]]
        BY <3>2 DEF Touches, Stamp
      <4>2. PICK pair \in proc[p].frags : pair[1] = t /\ st = [s |-> t, v |-> v, body |-> pair[2]]
        BY <4>1
      <4>3. proc[p].pc = "stamp" /\ op = "record"
        BY <1>0, <4>1 DEF Stamp, At, OpSteps
      <4>4. v = meta[t] /\ v \in DOMAIN snap[t] /\ snap[t][v] = shape[t] /\ Provided(t, v) /\ Fresh(pair)
        BY <2>1, <4>2, <4>3 DEF RecordFits
      <4>5. st.v = v /\ st.body = shape[t]
        BY <4>1, <4>2, <4>4 DEF Fresh
      <4>6. QED
        BY <1>0, <2>1, <4>4, <4>5
    <3>3. QED
      BY <3>1, <3>2
  <2>6. Referred(t)'
    <3>1. t \in typed' => shape[t] # Nil
      <4>1. CASE SetType(p)
        BY <1>0, <1>4, <4>1 DEF SetType, At, Sound, Referred
      <4>2. CASE ~ SetType(p)
        BY <1>0, <1>4, <4>2 DEF Touches, DropType, Sound, Referred
      <4>3. QED
        BY <4>1, <4>2
    <3>2. ASSUME NEW q \in Procs, proc'[q].s = t
          PROVE  /\ proc'[q].pc \notin {"present", "drop"}
                 /\ At(q, "settype")' => shape[t] # Nil
      <4>1. CASE q = p
        BY <1>a, <4>1 DEF Leads, Step, At
      <4>2. CASE q # p
        <5>1. proc'[q] = proc[q] /\ proc[q].s = t
          BY <3>2, <4>2 DEF Moves
        <5>2. proc[q].pc \notin {"present", "drop"}
          BY <1>0, <2>1, <5>1 DEF OpFits, On, Busy, Writing, Writes
        <5>3. QED
          BY <1>0, <1>4, <5>1, <5>2 DEF Sound, Referred, At
      <4>3. QED
        BY <4>1, <4>2
    <3>3. QED
      BY <1>b, <3>1, <3>2 DEF Referred
  <2>7. QED
    BY <1>1, <1>2, <2>2, <2>3, <2>5, <2>6 DEF Sound
<1>5. QED
  BY <1>3, <1>4

\* A request arrives: it is alone, or it tears its schema.
LEMMA ArrivalIsSound ==
  ASSUME UInv, NEW p \in Procs, NEW op \in Ops, NEW t \in Schemas, NEW body \in Bodies \cup {Nil},
         op \in {"put", "sync"} => body \in Bodies, Arrive(p, op, t, body)
  PROVE  Orderly' /\ \A s \in Schemas : Sound(s)'
<1> DEFINE rivals == {q \in Procs : Busy(q) /\ proc[q].s = t /\ {op, proc[q].op} \cap Writes # {}}
           n == proc'[p]
<1> USE DEF store
<1>0. Orderly /\ ~ Busy(p) /\ proc \in [Procs -> Registers] /\ \A s \in Schemas : Sound(s)
  BY DEF UInv, CInv, IInv, TypeOK, Arrive
<1>1. /\ UNCHANGED <<shape, meta, snap, prof, profSnap, typed, cache, missed, deleted, setBack>>
      /\ torn \subseteq torn' /\ (rivals # {} => t \in torn')
      /\ \A s \in Schemas \ {t} : s \in torn' => s \in torn
      /\ stamps' = {st \in stamps : st.s \notin torn' \ torn}
      /\ rivals = {} => torn' = torn
  <2>1. Tear(IF rivals = {} THEN {} ELSE {t})
    BY DEF Arrive
  <2>2. stamps' = {st \in stamps : st.s \notin torn' \ torn}
    <3>1. \A st \in stamps : st.s \notin torn
      BY <1>0 DEF Sound, Stamped, UInv, CInv, IInv, TypeOK
    <3>2. QED
      BY <2>1, <3>1 DEF Tear
  <2>3. QED
    BY <2>1, <2>2 DEF Arrive, Tear
<1>2. /\ n.pc = FirstStep(op) /\ n.op = op /\ n.s = t /\ n.frags = {} /\ n.v = 0
      /\ n.alone = (rivals = {})
  BY DEF Arrive, Idle
<1>3. n.pc \in {"replace", "compare", "referenced", "validate", "exists", "untype"} /\ OpSteps(n)
  BY <1>2 DEF FirstStep, OpSteps, Ops, Writes
<1>d. ASSUME NEW q \in Procs \ {p}
      PROVE  proc'[q] = [proc[q] EXCEPT !.alone = proc[q].alone /\ q \notin rivals]
  BY DEF Arrive
<1>4. ASSUME NEW q \in Procs \ {p}
      PROVE  /\ proc'[q].pc = proc[q].pc /\ proc'[q].op = proc[q].op /\ proc'[q].s = proc[q].s
             /\ proc'[q].v = proc[q].v /\ proc'[q].body = proc[q].body
             /\ proc'[q].frags = proc[q].frags
             /\ proc'[q].alone <=> proc[q].alone /\ q \notin rivals
  <2>1. proc[q] \in Registers
    BY <1>0
  <2>2. QED
    BY <1>d, <2>1 DEF Registers
<1>5. Orderly'
  <2>1. ASSUME NEW q \in Procs
        PROVE  /\ OpSteps(proc'[q])
               /\ Busy(q)' /\ ~ proc'[q].alone => proc'[q].s \in torn'
               /\ At(q, "dropmeta")' => proc'[q].s \in deleted'
    <3>1. CASE q = p
      BY <1>1, <1>2, <1>3, <3>1 DEF At
    <3>2. CASE q # p
      <4>1. OpSteps(proc'[q])
        BY <1>0, <1>4, <3>2 DEF Orderly, OpSteps
      <4>2. Busy(q)' /\ ~ proc'[q].alone => proc'[q].s \in torn'
        <5>1. q \in rivals => proc[q].s = t /\ t \in torn'
          BY <1>1
        <5>2. Busy(q) /\ ~ proc[q].alone => proc[q].s \in torn'
          BY <1>0, <1>1 DEF Orderly
        <5>3. QED
          BY <1>4, <3>2, <5>1, <5>2 DEF Busy
      <4>3. QED
        BY <1>0, <1>1, <1>4, <3>2, <4>1, <4>2 DEF Orderly, At
    <3>3. QED
      BY <3>1, <3>2
  <2>2. ASSUME NEW a \in Procs, NEW b \in Procs, a # b, Busy(a)', Busy(b)', proc'[b].s = proc'[a].s,
               proc'[a].op \in Writes \/ proc'[b].op \in Writes
        PROVE  ~ proc'[a].alone
    <3>1. CASE a # p /\ b # p
      <4>1. Busy(a) /\ On(b, proc[a].s) /\ (Writing(a) \/ Writing(b))
        BY <1>4, <2>2, <3>1 DEF On, Busy, Writing
      <4>2. ~ proc[a].alone
        BY <1>0, <2>2, <4>1 DEF Orderly
      <4>3. QED
        BY <1>4, <3>1, <4>2
    <3>2. CASE a = p
      <4>1. b \in rivals
        BY <1>2, <1>4, <2>2, <3>2 DEF Busy
      <4>2. QED
        BY <1>2, <3>2, <4>1
    <3>3. CASE b = p
      <4>1. a \in rivals
        BY <1>2, <1>4, <2>2, <3>3 DEF Busy
      <4>2. QED
        BY <1>4, <2>2, <3>3, <4>1
    <3>4. QED
      BY <3>1, <3>2, <3>3
  <2>3. QED
    BY <2>1, <2>2 DEF Orderly, On, Writing
<1>6. ASSUME NEW s \in Schemas \ {t} PROVE Sound(s)'
  <2>1. KeptStore(s)
    BY <1>1 DEF KeptStore
  <2>2. KeptHistory(s)
    BY <1>0, <1>1 DEF KeptHistory, Sound, Stamped
  <2>3. KeptProcs(s)
    <3> SUFFICES ASSUME NEW q \in Procs, On(q, s) \/ On(q, s)' PROVE proc'[q] = proc[q]
      BY DEF KeptProcs
    <3>1. q # p /\ q \notin rivals
      BY <1>0, <1>2, <1>4 DEF On, Busy
    <3>2. proc'[q] = [proc[q] EXCEPT !.alone = proc[q].alone] /\ proc[q] \in Registers
      BY <1>0, <1>d, <3>1 DEF Registers
    <3>3. QED
      BY <3>2 DEF Registers
  <2>4. QED
    BY <1>0, <2>1, <2>2, <2>3, KeptSound
<1>7. Sound(t)'
  <2>0. Sound(t)
    BY <1>0
  <2>1. LoneWrites(t)'
    <3> SUFFICES ASSUME NEW q \in Procs, On(q, t)', Midway(q)', proc'[q].alone,
                        proc'[q].op \in Writes
                 PROVE  LoneWrite(q)'
      BY DEF LoneWrites, LoneWrite, Writes
    <3>1. q # p
      BY <1>2, <1>3 DEF Midway, MidwaySteps
    <3>2. q \in rivals
      BY <1>4, <3>1 DEF On, Busy
    <3>3. QED
      BY <1>4, <3>1, <3>2
  <2>2. \A w : Provided(t, w) => Provided(t, w)'
    <3>1. ~ At(p, "profsnap")
      BY <1>0 DEF Busy, At
    <3>2. QED
      BY <1>1, <1>4, <3>1 DEF Provided, Pending, At
  <2>3. Settled(t)' => Settled(t)
    BY <1>0, <1>4 DEF Settled, On, Busy, Writing, Midway
  <2>4. Whole(t)'
    BY <1>1, <2>0, <2>2, <2>3 DEF Sound, Whole
  <2>5. Recorded(t)'
    <3> SUFFICES ASSUME t \notin torn', NEW q \in Procs, On(q, t)', proc'[q].op = "record"
                 PROVE  RecordFits(q)'
      BY DEF Recorded
    <3>0. t \notin torn /\ \A pair : Fresh(pair) => Fresh(pair)'
      BY <1>1 DEF Fresh
    <3>1. CASE q = p
      <4>1. t \in typed /\ n.pc = "validate"
        BY <1>2, <3>1 DEF Arrive, FirstStep
      <4>2. shape[t] # Nil
        BY <2>0, <3>0, <4>1 DEF Sound, Referred
      <4>3. QED
        BY <1>1, <1>2, <3>1, <4>1, <4>2 DEF RecordFits
    <3>2. CASE q # p
      <4>1. RecordFits(q) /\ proc[q].s = t
        BY <1>4, <2>0, <3>0, <3>2 DEF Sound, Recorded, On, Busy
      <4>2. QED
        BY <1>1, <1>4, <2>2, <3>0, <3>2, <4>1 DEF RecordFits
    <3>3. QED
      BY <3>1, <3>2
  <2>6. Numbered(t)'
    <3>1. n.pc \notin {"artifact", "wrap", "snapshot", "version"}
      BY <1>3
    <3>2. QED
      BY <1>1, <1>4, <2>0, <3>1 DEF Sound, Numbered, UpTo, Versioning
  <2>7. Stamped(t)'
    <3>1. \A q \in Procs : Versioning(q, t)' => Versioning(q, t)
      BY <1>3, <1>4 DEF Versioning
    <3>2. QED
      BY <1>1, <2>0, <2>2, <3>1 DEF Sound, Stamped
  <2>8. Referred(t)'
    <3>1. n.pc \notin {"present", "drop", "settype"}
      BY <1>3
    <3>2. QED
      BY <1>1, <1>4, <2>0, <3>1 DEF Sound, Referred, At
  <2>9. QED
    BY <2>1, <2>4, <2>5, <2>6, <2>7, <2>8 DEF Sound
<1>8. QED
  BY <1>5, <1>6, <1>7

\* Processes leave: what is left of the requests is as orderly as it was.
LEMMA LeavingIsOrderly ==
  ASSUME Orderly, \A q \in Procs : proc'[q] = proc[q] \/ proc'[q] = Idle,
         torn \subseteq torn', deleted \subseteq deleted'
  PROVE  Orderly'
<1>0. OpSteps(Idle) /\ Idle.pc = "idle"
  BY DEF OpSteps, Idle
<1>1. \A q \in Procs : proc'[q].pc # "idle" => proc'[q] = proc[q]
  BY <1>0
<1>2. ASSUME NEW q \in Procs
      PROVE  /\ OpSteps(proc'[q])
             /\ Busy(q)' /\ ~ proc'[q].alone => proc'[q].s \in torn'
             /\ At(q, "dropmeta")' => proc'[q].s \in deleted'
  <2>1. CASE proc'[q] = Idle
    BY <1>0, <2>1 DEF Busy, At
  <2>2. CASE proc'[q] = proc[q]
    BY <2>2 DEF Orderly, Busy, At
  <2>3. QED
    BY <2>1, <2>2
<1>3. ASSUME NEW a \in Procs, NEW b \in Procs, a # b, Busy(a)', On(b, proc[a].s)',
             Writing(a)' \/ Writing(b)'
      PROVE  ~ proc'[a].alone
  <2>1. proc'[a] = proc[a] /\ proc'[b] = proc[b]
    BY <1>1, <1>3 DEF Busy, On
  <2>2. QED
    BY <1>3, <2>1 DEF Orderly, Busy, On, Writing
<1>4. QED
  BY <1>2, <1>3 DEF Orderly, On

\* A request that fails midway tears its schema.
LEMMA FailureIsSound ==
  ASSUME UInv, NEW p \in Procs, Fail(p)
  PROVE  Orderly' /\ \A s \in Schemas : Sound(s)'
<1> USE DEF store
<1>0. Orderly /\ proc \in [Procs -> Registers] /\ \A s \in Schemas : Sound(s)
  BY DEF UInv, CInv, IInv, TypeOK
<1>1. proc'[p] = Idle /\ Idle.pc = "idle" /\ \A q \in Procs \ {p} : proc'[q] = proc[q]
  BY <1>0 DEF Fail, Done, Idle
<1>2. /\ UNCHANGED <<shape, meta, snap, prof, profSnap, typed, deleted, setBack>>
      /\ torn' = torn \cup Broken({p}) /\ stamps' = {st \in stamps : st.s \notin Broken({p})}
      /\ missed \subseteq missed'
  BY DEF Fail, Tear
<1>3. Orderly'
  BY <1>0, <1>1, <1>2, LeavingIsOrderly
<1>4. ASSUME NEW s \in Schemas PROVE Sound(s)'
  <2>1. KeptStore(s)
    BY <1>2 DEF KeptStore
  <2>2. KeptHistory(s)
    BY <1>0, <1>2 DEF KeptHistory, Sound, Stamped
  <2>3. KeptProcs(s)
    BY <1>1, <1>2 DEF KeptProcs, On, Busy, Broken
  <2>4. QED
    BY <1>0, <2>1, <2>2, <2>3, KeptSound
<1>5. QED
  BY <1>3, <1>4

\* A restart tears the schemas that the server was about to write.
LEMMA RestartIsSound ==
  ASSUME UInv, Restart
  PROVE  Orderly' /\ \A s \in Schemas : Sound(s)'
<1> DEFINE server == {p \in Procs : Busy(p) /\ proc[p].op # "sync"}
<1> USE DEF store
<1>0. Orderly /\ proc \in [Procs -> Registers] /\ \A s \in Schemas : Sound(s)
  BY DEF UInv, CInv, IInv, TypeOK
<1>1. /\ \A q \in Procs : proc'[q] = IF q \in server THEN Idle ELSE proc[q]
      /\ Idle.pc = "idle"
  BY DEF Restart, Idle
<1>2. /\ UNCHANGED <<shape, meta, snap, prof, profSnap, typed, deleted, setBack>>
      /\ torn' = torn \cup Broken(server) /\ stamps' = {st \in stamps : st.s \notin Broken(server)}
  BY DEF Restart, Tear
<1>3. Orderly'
  BY <1>0, <1>1, <1>2, LeavingIsOrderly
<1>4. ASSUME NEW s \in Schemas PROVE Sound(s)'
  <2>1. KeptStore(s)
    BY <1>2 DEF KeptStore
  <2>2. KeptHistory(s)
    <3>1. \A q \in Procs : On(q, s)' => proc'[q].op # "record"
      BY <1>1 DEF On, Busy
    <3>2. QED
      BY <1>0, <1>2, <3>1 DEF KeptHistory, Sound, Stamped
  <2>3. KeptProcs(s)
    BY <1>1, <1>2 DEF KeptProcs, On, Busy, Broken
  <2>4. QED
    BY <1>0, <2>1, <2>2, <2>3, KeptSound
<1>5. QED
  BY <1>3, <1>4

\* Seeded schemas are sound.
LEMMA SoundInitHolds == Init => UInv
<1> SUFFICES ASSUME Init PROVE UInv
  OBVIOUS
<1>0. OpSteps(Idle) /\ Idle.pc = "idle"
  BY DEF OpSteps, Idle
<1>1. /\ \A p \in Procs : proc[p] = Idle
      /\ \A p \in Procs : ~ Busy(p) /\ ~ Midway(p)
  BY <1>0 DEF Init, Busy, Midway, MidwaySteps
<1>2. Orderly
  BY <1>0, <1>1 DEF Orderly, On, Busy, At
<1>3. ASSUME NEW s \in Schemas PROVE Sound(s)
  <2>1. LoneWrites(s) /\ Recorded(s) /\ Stamped(s)
    BY <1>1 DEF LoneWrites, On, Recorded, Stamped, Init
  <2>2. Whole(s)
    BY DEF Whole, Init
  <2>3. Numbered(s)
    <3>1. DOMAIN snap[s] = {} /\ meta[s] \in Nat
      BY DEF Init
    <3>2. QED
      BY <1>0, <1>1, <3>1 DEF Numbered, Versioning
  <2>4. Referred(s)
    <3>1. s \in typed => shape[s] # Nil
      BY SchemaAssumption DEF Init
    <3>2. QED
      BY <1>0, <1>1, <3>1 DEF Referred, At
  <2>5. QED
    BY <2>1, <2>2, <2>3, <2>4 DEF Sound
<1>4. QED
  BY <1>2, <1>3, CacheInitHolds DEF UInv

\* Every step keeps every schema sound.
LEMMA SoundNextHolds == UInv /\ [Next]_vars => UInv'
<1> SUFFICES ASSUME UInv, [Next]_vars PROVE UInv'
  OBVIOUS
<1>1. CInv'
  BY CacheNextHolds DEF UInv
<1>2. ASSUME NEW p \in Procs, Step(p) PROVE Orderly' /\ \A s \in Schemas : Sound(s)'
  <2>0. IInv
    BY DEF UInv, CInv
  <2>1. Moves(p) /\ Leads(p) /\ Touches(p) /\ Elsewhere(proc[p].s)
    BY <1>2, <2>0, StepsMove, StepsLead, StepsTouch, StepsElsewhere
  <2>2. Orderly'
    BY <1>2, <2>1, OrderKept
  <2>3. ASSUME NEW s \in Schemas PROVE Sound(s)'
    <3>1. CASE s # proc[p].s
      BY <2>1, <3>1, OthersSound
    <3>2. CASE s = proc[p].s /\ Writing(p)
      BY <1>2, <2>1, <3>2, TornWrite, LoneStep
    <3>3. CASE s = proc[p].s /\ ~ Writing(p)
      BY <1>1, <1>2, <2>1, <3>3, OtherStep
    <3>4. QED
      BY <3>1, <3>2, <3>3
  <2>4. QED
    BY <2>2, <2>3
<1>3. ASSUME NEW p \in Procs, NEW s \in Schemas,
             \/ \E op \in {"put", "sync"}, body \in Bodies : Arrive(p, op, s, body)
             \/ \E op \in Ops \ {"put", "sync"} : Arrive(p, op, s, Nil)
      PROVE  Orderly' /\ \A m \in Schemas : Sound(m)'
  <2>1. PICK op \in Ops, body \in Bodies \cup {Nil} :
          (op \in {"put", "sync"} => body \in Bodies) /\ Arrive(p, op, s, body)
    BY <1>3 DEF Ops, Writes
  <2>2. QED
    BY <2>1, ArrivalIsSound
<1>4. ASSUME UNCHANGED vars PROVE Orderly' /\ \A s \in Schemas : Sound(s)'
  <2>1. UNCHANGED <<shape, meta, snap, prof, profSnap, typed, proc, stamps, torn, missed, deleted, setBack>>
    BY <1>4 DEF vars, store, history
  <2>2. Orderly /\ \A s \in Schemas : Sound(s)
    BY DEF UInv
  <2>3. Orderly'
    BY <2>1, <2>2, LeavingIsOrderly
  <2>4. ASSUME NEW s \in Schemas PROVE Sound(s)'
    BY <2>1, <2>2, KeptSound DEF KeptStore, KeptHistory, KeptProcs, Sound, Stamped
  <2>5. QED
    BY <2>3, <2>4
<1>5. ASSUME NEW p \in Procs, Fail(p) PROVE Orderly' /\ \A s \in Schemas : Sound(s)'
  BY <1>5, FailureIsSound
<1>6. Orderly' /\ \A s \in Schemas : Sound(s)'
  BY <1>2, <1>3, <1>4, <1>5, RestartIsSound DEF Next
<1>7. QED
  BY <1>1, <1>6 DEF UInv

\* The inductive invariant of the properties below: the order of the requests on a
\* schema, and what a schema without an overlap is.
THEOREM SchemasSound == Spec => []UInv
<1>1. QED
  BY SoundInitHolds, SoundNextHolds, PTL DEF Spec

\* However requests interleave, fail or are cut off: at rest the stable profile
\* names the current version, its snapshot is the shape and its profile snapshot
\* is there, unless an overlap or a broken off write has not been mended.
THEOREM ProfileAlwaysCurrent == Spec => []ProfileCurrent
<1>1. ASSUME UInv PROVE ProfileCurrent
  <2> SUFFICES ASSUME NEW s \in Schemas \ torn, AtRest(s), prof[s] # 0, shape[s] # Nil
               PROVE  /\ prof[s] = meta[s] /\ prof[s] \in profSnap[s]
                      /\ snap[s][prof[s]] = shape[s]
    BY DEF ProfileCurrent
  <2>1. Whole(s) /\ ArtifactsResolve
    BY <1>1 DEF UInv, Sound, CInv, IInv
  <2>2. Settled(s) /\ \A v : ~ Pending(s, v)
    BY DEF AtRest, Settled, On, Pending, At, Busy
  <2>3. QED
    BY <2>1, <2>2 DEF Whole, Provided, ArtifactsResolve
<1>2. QED
  BY <1>1, SchemasSound, PTL

\* What a record was stamped with is a version whose snapshot is exactly the shape
\* it was validated with, for as long as its schema is neither torn nor deleted.
THEOREM StampsAlwaysTrue == Spec => []StampsTrue
<1>1. ASSUME UInv PROVE StampsTrue
  <2> SUFFICES ASSUME NEW st \in stamps, st.s \notin deleted
               PROVE  /\ st.v \in DOMAIN snap[st.s] /\ snap[st.s][st.v] = st.body
                      /\ AtRest(st.s) => st.v \in profSnap[st.s]
    BY DEF StampsTrue
  <2>1. Stamped(st.s)
    BY <1>1 DEF UInv, Sound, CInv, IInv, TypeOK
  <2>2. AtRest(st.s) => ~ Pending(st.s, st.v)
    BY DEF AtRest, Pending, At, Busy
  <2>3. QED
    BY <2>1, <2>2 DEF Stamped, Provided
<1>2. QED
  BY <1>1, SchemasSound, PTL

\* A resource definition refers to a schema that has a shape, unless a write of the
\* schema overlapped: the checks of a registration and of a delete are enough.
THEOREM TypesAlwaysResolve == Spec => []TypesResolve
<1>1. UInv => TypesResolve
  BY DEF UInv, Sound, Referred, TypesResolve, CInv, IInv, TypeOK
<1>2. QED
  BY <1>1, SchemasSound, PTL

\* A step changes a snapshot only of a torn schema, or of one whose version number
\* was set back.
LEMMA SnapshotsStay ==
  ASSUME UInv, Next, NEW s \in Schemas \ (setBack \cup torn), NEW w \in DOMAIN snap[s]
  PROVE  w \in DOMAIN snap'[s] /\ snap'[s][w] = snap[s][w]
<1> USE DEF store, history
<1>1. ASSUME NEW p \in Procs, Step(p)
      PROVE  w \in DOMAIN snap'[s] /\ snap'[s][w] = snap[s][w]
  <2>0. IInv /\ Orderly /\ Sound(s) /\ DOMAIN snap = Schemas
    BY DEF UInv, CInv, IInv, TypeOK
  <2>1. Moves(p) /\ Leads(p) /\ Touches(p) /\ Elsewhere(proc[p].s)
    BY <1>1, <2>0, StepsMove, StepsLead, StepsTouch, StepsElsewhere
  <2>2. CASE s # proc[p].s
    BY <2>1, <2>2 DEF Elsewhere
  <2>3. CASE s = proc[p].s /\ ~ Writing(p)
    BY <1>1, <2>1, <2>3, UndisturbedStore
  <2>4. CASE s = proc[p].s /\ Writing(p) /\ ~ WriteSnapshot(p)
    BY <2>1, <2>4 DEF Touches
  <2>5. CASE s = proc[p].s /\ Writing(p) /\ WriteSnapshot(p)
    <3>1. /\ Versioning(p, s) /\ Midway(p) /\ Busy(p) /\ At(p, "snapshot")
          /\ proc[p].op \in {"put", "sync"}
      BY <2>0, <2>5 DEF WriteSnapshot, Orderly, OpSteps, Versioning, At, Busy, Midway, MidwaySteps,
                        Writing, Writes
    <3>2. proc[p].alone
      BY <2>0, <2>5, <3>1 DEF Orderly
    <3>3. proc[p].v = meta[s] /\ w < meta[s]
      BY <2>0, <2>5, <3>1, <3>2 DEF Sound, LoneWrites, LoneWrite, On, Numbered, At
    <3>4. snap'[s] = With(snap[s], proc[p].v, proc[p].body)
      BY <2>0, <2>5 DEF WriteSnapshot
    <3>5. w \in Nat /\ meta[s] \in Nat
      BY <2>0 DEF IInv, TypeOK
    <3>6. QED
      BY <3>3, <3>4, <3>5 DEF With
  <2>6. QED
    BY <2>2, <2>3, <2>4, <2>5
<1>2. ASSUME Restart \/ \E p \in Procs : Fail(p) \/ \E op, m, body : Arrive(p, op, m, body)
      PROVE  w \in DOMAIN snap'[s] /\ snap'[s][w] = snap[s][w]
  <2>1. snap' = snap
    BY <1>2 DEF Restart, Fail, Arrive
  <2>2. QED
    BY <2>1
<1>3. QED
  BY <1>1, <1>2 DEF Next

\* No step changes a version snapshot, unless writes of its schema have overlapped
\* or the version number of the schema was set back.
THEOREM SnapshotsNeverChange == Spec => SnapshotsImmutable
<1> DEFINE Kept == \A s \in Schemas \ (setBack \cup torn) : \A v \in DOMAIN snap[s] :
                     v \in DOMAIN snap'[s] /\ snap'[s][v] = snap[s][v]
<1>1. UInv /\ [Next]_vars => [Kept]_vars
  BY SnapshotsStay
<1>2. QED
  BY <1>1, SchemasSound, PTL DEF Spec, SnapshotsImmutable
=============================================================================

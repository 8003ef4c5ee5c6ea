---------------------------- MODULE SchemaRegistry ----------------------------
(***************************************************************************)
(* The SHACL shapes that records are validated against: the shape graphs   *)
(* with their immutable version snapshots (metadata/schemas.py), the       *)
(* conformance profiles derived from them (prof.py), the server's cache of *)
(* shape closures (shacl.py), the resource definitions that refer to a     *)
(* shape (rd_api.py), the remote sync (schema_sync.py), which runs as a    *)
(* process of its own, and the stamping of a record write (ldp/router.py). *)
(*                                                                         *)
(* Every store call is a step; what Python runs between two awaits is one  *)
(* step.  The record itself is LdpService's: here a record write ends with *)
(* the version it is stamped with.                                         *)
(***************************************************************************)
EXTENDS Naturals

CONSTANTS
  Schemas,      \* slugs of managed schemas
  Bodies,       \* what a shape graph says
  Composes,     \* Composes[b]: the schemas a body refers to by sh:node and the like
  Seeded,       \* the schemas a bootstrap stored, without profiles
  SeedBody,     \* and their body
  Procs,        \* requests in flight, and runs of the sync command
  MaxRequests,  \* bound: requests and sync runs of a behaviour
  MaxFaults,    \* bound: raising store calls and restarts
  Nil

ASSUME SchemaAssumption ==
  /\ Composes \in [Bodies -> SUBSET Schemas]
  /\ Seeded \subseteq Schemas /\ SeedBody \in Bodies
  /\ MaxRequests \in Nat /\ MaxFaults \in Nat
  /\ Nil \notin Bodies \cup Schemas

VARIABLES
  shape,        \* the stable graph of each schema, or Nil
  meta,         \* owl:versionInfo in its meta graph; 0: no meta graph
  snap,         \* its version snapshots: a function from versions to bodies
  prof,         \* the version its stable profile names; 0: no profile
  profSnap,     \* the versions that have a profile snapshot
  typed,        \* the schemas a resource definition refers to
  cache,        \* the closure cached under each schema, as pairs <<member, body>>; {}: none
  proc,         \* the registers of each process
  stamps,       \* history: what undisturbed record writes were stamped with and judged by,
                \* on schemas that are not torn
  torn,         \* history: schemas with an overlapped or broken off write, until a whole one
  missed,       \* history: schemas replaced in a way an invalidation cannot make good
  deleted,      \* history: schemas that a delete has dropped
  setBack,      \* history: schemas whose version number a write has set back: a delete,
                \* or an overlapped write that had read an older one
  requests, faults

store   == <<shape, meta, snap, prof, profSnap, typed>>
history == <<stamps, torn, missed, deleted, setBack>>
vars    == <<store, cache, proc, history, requests, faults>>

Writes == {"put", "sync", "delete"}
Ops    == Writes \cup {"record", "settype", "droptype"}

Idle == [pc |-> "idle", op |-> "record", s |-> Nil, body |-> Nil, v |-> 0,
         pending |-> {}, frags |-> {}, alone |-> TRUE]

Members(closure) == {pair[1] : pair \in closure}
Refs(body) == IF body = Nil THEN {} ELSE Composes[body]

With(versions, v, body) ==
  [w \in DOMAIN versions \cup {v} |-> IF w = v THEN body ELSE versions[w]]

Busy(p) == proc[p].pc # "idle"
At(p, pc) == proc[p].pc = pc
Go(p, pc) == proc' = [proc EXCEPT ![p].pc = pc]
Done(p)   == proc' = [proc EXCEPT ![p] = Idle]

\* Past the first and before the last store call of a write on its schema.
MidwaySteps == {"prior", "meta", "version", "snapshot", "profile", "profsnap",
                "dropmeta", "invalidate"}
Midway(p) == proc[p].pc \in MidwaySteps
\* A write of the server that will invalidate its schema.
WillInvalidate(p, s) ==
  Midway(p) /\ proc[p].s = s /\ proc[p].op \in {"put", "delete"}

Loading(p) == At(p, "load")

\* _load before its first await: an empty closure, and the requested shape pending.
BeginLoad(r) == [r EXCEPT !.pc = "load", !.pending = {r.s}, !.frags = {}]

-----------------------------------------------------------------------------
(* Requests.                                                               *)

FirstStep(op) ==
  CASE op = "put"     -> "replace"
    [] op = "sync"    -> "compare"
    [] op = "delete"  -> "referenced"
    [] op = "record"  -> "validate"
    [] op = "settype" -> "exists"
    [] OTHER          -> "untype"

\* From here on nothing is claimed of these schemas, until they are mended.
Tear(schemas) ==
  /\ torn' = torn \cup schemas
  /\ stamps' = {st \in stamps : st.s \notin schemas}

\* A record write is of a type whose definition refers to the schema.
\* A sync may be of any slug: discover also finds version snapshots, by the last part
\* of their IRI.
Arrive(p, op, s, body) ==
  LET rivals == {q \in Procs : Busy(q) /\ proc[q].s = s /\ {op, proc[q].op} \cap Writes # {}}
  IN /\ ~ Busy(p) /\ requests < MaxRequests
     /\ op = "record" => s \in typed
     /\ requests' = requests + 1
     /\ proc' = [q \in Procs |->
          IF q = p
          THEN [Idle EXCEPT !.pc = FirstStep(op), !.op = op, !.s = s, !.body = body,
                            !.alone = (rivals = {})]
          ELSE [proc[q] EXCEPT !.alone = @ /\ q \notin rivals]]
     /\ Tear(IF rivals = {} THEN {} ELSE {s})
     /\ UNCHANGED <<store, cache, missed, deleted, setBack, faults>>

-----------------------------------------------------------------------------
(* SchemaService.put, and the sync that goes through it.                   *)

\* sync_one: what was fetched says what is stored, or is republished.
Compare(p) ==
  /\ At(p, "compare")
  /\ IF shape[proc[p].s] = proc[p].body THEN Done(p) ELSE Go(p, "replace")
  /\ UNCHANGED <<store, cache, history, requests, faults>>

\* The shape changes under a load in flight, or under the cache of another process.
Overlooked(p) == proc[p].op = "sync" \/ \E q \in Procs : Loading(q)

ReplaceShape(p) ==
  /\ At(p, "replace") /\ Go(p, "prior")
  /\ shape' = [shape EXCEPT ![proc[p].s] = proc[p].body]
  /\ missed' = IF Overlooked(p) THEN missed \cup {proc[p].s} ELSE missed
  /\ UNCHANGED <<meta, snap, prof, profSnap, typed, cache, stamps, torn, deleted, setBack,
                 requests, faults>>

\* _refresh_meta reads the prior meta graph ...
ReadPrior(p) ==
  /\ At(p, "prior")
  /\ proc' = [proc EXCEPT ![p].pc = "meta", ![p].v = meta[proc[p].s]]
  /\ UNCHANGED <<store, cache, history, requests, faults>>

\* The history of a version number that is written.
NoteVersion(s, version) ==
  /\ setBack' = IF version < meta[s] THEN setBack \cup {s} ELSE setBack
  /\ UNCHANGED <<stamps, torn, missed, deleted>>

\* A variant of WriteMeta that leaves the version as it is.
WriteMetaKeepsVersion(p) ==
  /\ At(p, "meta") /\ Go(p, "version")
  /\ meta' = [meta EXCEPT ![proc[p].s] = IF proc[p].v = 0 THEN 1 ELSE proc[p].v]
  /\ NoteVersion(proc[p].s, IF proc[p].v = 0 THEN 1 ELSE proc[p].v)
  /\ UNCHANGED <<shape, snap, prof, profSnap, typed, cache, requests, faults>>

\* ... and writes the next one.
WriteMeta(p) ==
  /\ At(p, "meta") /\ Go(p, "version")
  /\ meta' = [meta EXCEPT ![proc[p].s] = proc[p].v + 1]
  /\ NoteVersion(proc[p].s, proc[p].v + 1)
  /\ UNCHANGED <<shape, snap, prof, profSnap, typed, cache, requests, faults>>

\* A variant of ReadVersion that provisions the profile before the snapshot is there.
ReadVersionToProfile(p) ==
  /\ At(p, "version")
  /\ proc' = [proc EXCEPT ![p].v = meta[proc[p].s],
                          ![p].pc = IF meta[proc[p].s] = 0 THEN "invalidate" ELSE "profile"]
  /\ UNCHANGED <<store, cache, history, requests, faults>>

\* A variant of ReadVersion that snapshots under whatever version it has read.
ReadVersionUnchecked(p) ==
  /\ At(p, "version")
  /\ proc' = [proc EXCEPT ![p].v = meta[proc[p].s], ![p].pc = "snapshot"]
  /\ UNCHANGED <<store, cache, history, requests, faults>>

\* The version is read back from the store; without one there is nothing to snapshot.
ReadVersion(p) ==
  /\ At(p, "version")
  /\ proc' = [proc EXCEPT ![p].v = meta[proc[p].s],
                          ![p].pc = IF meta[proc[p].s] = 0 THEN "invalidate" ELSE "snapshot"]
  /\ UNCHANGED <<store, cache, history, requests, faults>>

WriteSnapshot(p) ==
  /\ At(p, "snapshot") /\ Go(p, "profile")
  /\ snap' = [snap EXCEPT ![proc[p].s] = With(@, proc[p].v, proc[p].body)]
  /\ UNCHANGED <<shape, meta, prof, profSnap, typed, cache, history, requests, faults>>

\* A variant of ProvisionProfile that leaves an existing profile alone.
ProvisionOnce(p) ==
  /\ At(p, "profile") /\ Go(p, "profsnap")
  /\ prof' = [prof EXCEPT ![proc[p].s] = IF @ = 0 THEN proc[p].v ELSE @]
  /\ UNCHANGED <<shape, meta, snap, profSnap, typed, cache, history, requests, faults>>

\* provision_profile: the stable profile ...
ProvisionProfile(p) ==
  /\ At(p, "profile") /\ Go(p, "profsnap")
  /\ prof' = [prof EXCEPT ![proc[p].s] = proc[p].v]
  /\ UNCHANGED <<shape, meta, snap, profSnap, typed, cache, history, requests, faults>>

\* ... and the profile snapshot.
SnapshotProfile(p) ==
  /\ At(p, "profsnap") /\ Go(p, IF proc[p].op = "record" THEN "stamp" ELSE "invalidate")
  /\ profSnap' = [profSnap EXCEPT ![proc[p].s] = @ \cup {proc[p].v}]
  /\ UNCHANGED <<shape, meta, snap, prof, typed, cache, history, requests, faults>>

\* The history after a whole write: an undisturbed one mends the schema, and an
\* invalidation makes good what no load in flight can bring back.
Mended(p) == IF proc[p].alone THEN torn \ {proc[p].s} ELSE torn
MadeGood(p) ==
  IF \E q \in Procs : Loading(q) THEN missed ELSE missed \ {proc[p].s}

\* A variant of Dropped that drops the closure of the schema only.
DroppedRoot(s) == [r \in Schemas |-> IF r = s THEN {} ELSE cache[r]]

\* ShaclValidator.invalidate: every closure the schema is a member of.
Dropped(s) == [r \in Schemas |-> IF s \in Members(cache[r]) THEN {} ELSE cache[r]]

\* A variant of Invalidate that reports the write and keeps the closures.
InvalidateNothing(p) ==
  /\ At(p, "invalidate") /\ proc[p].op \in {"put", "delete"} /\ Done(p)
  /\ torn' = Mended(p) /\ missed' = MadeGood(p)
  /\ UNCHANGED <<store, cache, stamps, deleted, setBack, requests, faults>>

\* invalidate, and the load of bootstrap up to its first await.
Invalidate(p) ==
  /\ At(p, "invalidate") /\ proc[p].op \in {"put", "delete"}
  /\ cache' = Dropped(proc[p].s)
  /\ missed' = MadeGood(p)
  /\ \/ /\ proc[p].op = "put"
        /\ torn' = Mended(p)
        /\ proc' = [proc EXCEPT ![p] = BeginLoad(@)]
     \/ proc[p].op = "delete" /\ Done(p) /\ UNCHANGED torn
  /\ UNCHANGED <<store, stamps, deleted, setBack, requests, faults>>

\* The sync invalidates the validator of its own process.
EndSync(p) ==
  /\ At(p, "invalidate") /\ proc[p].op = "sync" /\ Done(p)
  /\ torn' = Mended(p)
  /\ UNCHANGED <<store, cache, stamps, missed, deleted, setBack, requests, faults>>

-----------------------------------------------------------------------------
(* ShaclValidator._load.                                                   *)

\* What is pending after m is fetched.
Pull(p, m) ==
  (proc[p].pending \cup Refs(shape[m])) \ (Members(proc[p].frags) \cup {m})

\* One shape is fetched.  The requested one must be there; a put warns and a
\* record write fails.  A composed one that is absent is a member all the same.
Fetch(p) ==
  /\ Loading(p)
  /\ \E m \in proc[p].pending :
       IF m = proc[p].s /\ shape[m] = Nil
       THEN Done(p)
       ELSE proc' = [proc EXCEPT ![p].pending = Pull(p, m),
                                 ![p].frags = @ \cup {<<m, shape[m]>>}]
  /\ UNCHANGED <<store, cache, history, requests, faults>>

\* The closure is cached after the last fetch has returned.
Store(p) ==
  /\ Loading(p) /\ proc[p].pending = {}
  /\ cache' = [cache EXCEPT ![proc[p].s] = proc[p].frags]
  /\ IF proc[p].op = "record" THEN Go(p, "conform") ELSE Done(p)
  /\ UNCHANGED <<store, history, requests, faults>>

-----------------------------------------------------------------------------
(* SchemaService.delete.                                                   *)

\* A variant of Referenced that does not ask.
ReferencedNoMatter(p) ==
  /\ At(p, "referenced") /\ Go(p, "present")
  /\ UNCHANGED <<store, cache, history, requests, faults>>

\* _is_protected and _is_referenced: a definition, the root's too, keeps its schema.
Referenced(p) ==
  /\ At(p, "referenced")
  /\ IF proc[p].s \in typed THEN Done(p) ELSE Go(p, "present")
  /\ UNCHANGED <<store, cache, history, requests, faults>>

Present(p) ==
  /\ At(p, "present")
  /\ IF shape[proc[p].s] = Nil THEN Done(p) ELSE Go(p, "drop")
  /\ UNCHANGED <<store, cache, history, requests, faults>>

\* delete_graph: the shape graph, the meta graph, and an audit graph no schema has.
\* Snapshots and profiles stay.
DropShape(p) ==
  /\ At(p, "drop") /\ Go(p, "dropmeta")
  /\ shape' = [shape EXCEPT ![proc[p].s] = Nil]
  /\ missed' = IF Overlooked(p) THEN missed \cup {proc[p].s} ELSE missed
  /\ deleted' = deleted \cup {proc[p].s}
  /\ UNCHANGED <<meta, snap, prof, profSnap, typed, cache, stamps, torn, setBack, requests, faults>>

DropMeta(p) ==
  /\ At(p, "dropmeta") /\ Go(p, "invalidate")
  /\ meta' = [meta EXCEPT ![proc[p].s] = 0]
  /\ NoteVersion(proc[p].s, 0)
  /\ UNCHANGED <<shape, snap, prof, profSnap, typed, cache, requests, faults>>

-----------------------------------------------------------------------------
(* A record write: validation and stamping.                                *)

\* validate_against: the cached closure, or a load.
Validate(p) ==
  LET s == proc[p].s
  IN /\ At(p, "validate")
     /\ proc' = IF cache[s] # {}
                THEN [proc EXCEPT ![p].pc = "conform", ![p].frags = cache[s]]
                ELSE [proc EXCEPT ![p] = BeginLoad(@)]
     /\ UNCHANGED <<store, cache, history, requests, faults>>

\* The report refuses the record, or ensure_conformance reads the stable profile.
Conform(p) ==
  LET s == proc[p].s
  IN /\ At(p, "conform")
     /\ \/ Done(p)
        \/ proc' = IF prof[s] # 0
                   THEN [proc EXCEPT ![p].pc = "stamp", ![p].v = prof[s]]
                   ELSE [proc EXCEPT ![p].pc = "current"]
     /\ UNCHANGED <<store, cache, history, requests, faults>>

\* _current_schema_version, or "1".
CurrentVersion(p) ==
  /\ At(p, "current")
  /\ proc' = [proc EXCEPT ![p].pc = "artifact",
                          ![p].v = IF meta[proc[p].s] = 0 THEN 1 ELSE meta[proc[p].s]]
  /\ UNCHANGED <<store, cache, history, requests, faults>>

Artifact(p) ==
  /\ At(p, "artifact")
  /\ Go(p, IF proc[p].v \in DOMAIN snap[proc[p].s] THEN "profile" ELSE "wrap")
  /\ UNCHANGED <<store, cache, history, requests, faults>>

\* The shape to snapshot.  Without one the record is written unstamped.
Wrap(p) ==
  LET s == proc[p].s
  IN /\ At(p, "wrap")
     /\ IF shape[s] = Nil
        THEN Done(p)
        ELSE proc' = [proc EXCEPT ![p].pc = "snapshot", ![p].body = shape[s]]
     /\ UNCHANGED <<store, cache, history, requests, faults>>

\* The record is written, with dct:conformsTo and fdp-o:validatedAgainst.
Stamp(p) ==
  LET s == proc[p].s
  IN /\ At(p, "stamp") /\ Done(p)
     /\ stamps' = IF proc[p].alone /\ s \notin torn \cup missed
                  THEN stamps \cup {[s |-> s, v |-> proc[p].v, body |-> pair[2]] :
                                      pair \in {x \in proc[p].frags : x[1] = s}}
                  ELSE stamps
     /\ UNCHANGED <<store, cache, torn, missed, deleted, setBack, requests, faults>>

-----------------------------------------------------------------------------
(* Resource definitions.                                                   *)

\* _validate_writable: the schema of a definition has to be published.
SchemaExists(p) ==
  /\ At(p, "exists")
  /\ IF shape[proc[p].s] = Nil THEN Done(p) ELSE Go(p, "settype")
  /\ UNCHANGED <<store, cache, history, requests, faults>>

\* ResourceDefinitionService.put; publishing the definitions warms the validator.
SetType(p) ==
  LET s == proc[p].s
  IN /\ At(p, "settype")
     /\ typed' = typed \cup {s}
     /\ IF cache[s] # {} THEN Done(p)
        ELSE proc' = [proc EXCEPT ![p] = BeginLoad(@)]
     /\ UNCHANGED <<shape, meta, snap, prof, profSnap, cache, history, requests, faults>>

\* The last definition that refers to the schema is deleted.
DropType(p) ==
  /\ At(p, "untype") /\ Done(p)
  /\ typed' = typed \ {proc[p].s}
  /\ UNCHANGED <<shape, meta, snap, prof, profSnap, cache, history, requests, faults>>

-----------------------------------------------------------------------------
(* Faults.                                                                 *)

\* What a write that ends midway leaves behind.
Broken(ps) == {proc[p].s : p \in {q \in ps : Midway(q)}}
Unseen(ps) == {proc[p].s : p \in {q \in ps : WillInvalidate(q, proc[q].s)}}

\* A store call raises: the request is answered with an error, the sync goes on
\* to its next schema.  A put survives a failing load.
Fail(p) ==
  /\ Busy(p) /\ faults < MaxFaults /\ faults' = faults + 1 /\ Done(p)
  /\ Tear(Broken({p}))
  /\ missed' = missed \cup Unseen({p})
  /\ UNCHANGED <<store, cache, deleted, setBack, requests>>

\* The server restarts with an empty cache; a sync is a process of its own.
Restart ==
  LET server == {p \in Procs : Busy(p) /\ proc[p].op # "sync"}
  IN /\ faults < MaxFaults /\ faults' = faults + 1
     /\ proc' = [p \in Procs |-> IF p \in server THEN Idle ELSE proc[p]]
     /\ cache' = [r \in Schemas |-> {}]
     /\ Tear(Broken(server)) /\ missed' = {}
     /\ UNCHANGED <<store, deleted, setBack, requests>>

-----------------------------------------------------------------------------

Init ==
  /\ shape = [s \in Schemas |-> IF s \in Seeded THEN SeedBody ELSE Nil]
  /\ meta = [s \in Schemas |-> IF s \in Seeded THEN 1 ELSE 0]
  /\ snap = [s \in Schemas |-> [v \in {} |-> Nil]]
  /\ prof = [s \in Schemas |-> 0]
  /\ profSnap = [s \in Schemas |-> {}]
  /\ typed = Seeded
  /\ cache = [s \in Schemas |-> {}]
  /\ proc = [p \in Procs |-> Idle]
  /\ stamps = {} /\ torn = {} /\ missed = {} /\ deleted = {} /\ setBack = {}
  /\ requests = 0 /\ faults = 0

Step(p) ==
  \/ Compare(p) \/ ReplaceShape(p) \/ ReadPrior(p) \/ WriteMeta(p) \/ ReadVersion(p)
  \/ WriteSnapshot(p) \/ ProvisionProfile(p) \/ SnapshotProfile(p)
  \/ Invalidate(p) \/ EndSync(p) \/ Fetch(p) \/ Store(p)
  \/ Referenced(p) \/ Present(p) \/ DropShape(p) \/ DropMeta(p)
  \/ Validate(p) \/ Conform(p) \/ CurrentVersion(p) \/ Artifact(p) \/ Wrap(p) \/ Stamp(p)
  \/ SchemaExists(p) \/ SetType(p) \/ DropType(p)

Next ==
  \/ \E p \in Procs : Step(p) \/ Fail(p)
  \/ \E p \in Procs, s \in Schemas :
       \/ \E op \in {"put", "sync"}, body \in Bodies : Arrive(p, op, s, body)
       \/ \E op \in Ops \ {"put", "sync"} : Arrive(p, op, s, Nil)
  \/ Restart

Spec == Init /\ [][Next]_vars

-----------------------------------------------------------------------------
(* Properties.                                                             *)

Closures == SUBSET (Schemas \X (Bodies \cup {Nil}))
Steps == {"idle", "compare", "replace", "prior", "meta", "version", "snapshot", "profile",
          "profsnap", "invalidate", "load", "referenced", "present", "drop", "dropmeta",
          "validate", "conform", "current", "artifact", "wrap", "stamp", "exists",
          "settype", "untype"}

Registers == [pc : Steps, op : Ops, s : Schemas \cup {Nil}, body : Bodies \cup {Nil}, v : Nat,
              pending : SUBSET Schemas, frags : Closures, alone : BOOLEAN]

\* Every variable has its type; a snapshot is a body under a positive version.
TypeOK ==
  /\ shape \in [Schemas -> Bodies \cup {Nil}]
  /\ meta \in [Schemas -> Nat] /\ prof \in [Schemas -> Nat]
  /\ DOMAIN snap = Schemas /\ DOMAIN profSnap = Schemas
  /\ \A s \in Schemas :
       /\ DOMAIN snap[s] \subseteq Nat \ {0} /\ \A v \in DOMAIN snap[s] : snap[s][v] \in Bodies
       /\ profSnap[s] \subseteq Nat \ {0}
  /\ typed \subseteq Schemas /\ cache \in [Schemas -> Closures]
  /\ proc \in [Procs -> Registers]
  /\ \A p \in Procs : Busy(p) => proc[p].s \in Schemas
  /\ stamps \subseteq [s : Schemas, v : Nat, body : Bodies \cup {Nil}]
  /\ torn \subseteq Schemas /\ missed \subseteq Schemas
  /\ deleted \subseteq Schemas /\ setBack \subseteq Schemas
  /\ requests \in Nat /\ faults \in Nat

\* With any interleaving and any failure, the validation artifact that a stable
\* profile or a profile snapshot names is there: prof:hasArtifact dereferences.
ArtifactsResolve ==
  \A s \in Schemas :
    /\ prof[s] # 0 => prof[s] \in DOMAIN snap[s]
    /\ profSnap[s] \subseteq DOMAIN snap[s]

AtRest(s) == \A p \in Procs : Busy(p) => proc[p].s # s

\* At rest, a profile names the current version, that version is the current
\* shape, and the profile snapshot is there too, unless a write of the schema
\* was overlapped or broken off after which no whole write came.
ProfileCurrent ==
  \A s \in Schemas \ torn :
    AtRest(s) /\ prof[s] # 0 /\ shape[s] # Nil
      => /\ prof[s] = meta[s] /\ prof[s] \in profSnap[s]
         /\ snap[s][prof[s]] = shape[s]

\* ADR-0019: fdp-o:validatedAgainst names exactly the shape the record was
\* validated with, then and later: of a write that no write of the schema
\* overlapped, on a schema that was never deleted and not torn since.  At rest its
\* profile snapshot is there.
StampsTrue ==
  \A st \in stamps : st.s \notin deleted =>
    /\ st.v \in DOMAIN snap[st.s] /\ snap[st.s][st.v] = st.body
    /\ AtRest(st.s) => st.v \in profSnap[st.s]

\* A closure in the cache holds the shapes as they are, those of all its members,
\* also when a member it did not find is published, when a put fails or when the
\* server restarts: unless a shape was replaced during a load or by a sync.
CacheCoherent ==
  \A r \in Schemas : \A pair \in cache[r] :
    \/ shape[pair[1]] = pair[2]
    \/ pair[1] \in missed
    \/ \E p \in Procs : WillInvalidate(p, pair[1])

\* A resource definition refers to a schema that has a shape (the checks of both
\* sides), unless a write of the schema overlapped.
TypesResolve == \A s \in typed \ torn : AtRest(s) => shape[s] # Nil

\* ADR-0019: a version snapshot is never changed, unless writes of the schema
\* overlapped, or one has set its version number back: a delete did, or an overlapped
\* write that had read an older one, after which the numbers are given out again.
SnapshotsImmutable ==
  [][\A s \in Schemas \ (setBack \cup torn) : \A v \in DOMAIN snap[s] :
       v \in DOMAIN snap'[s] /\ snap'[s][v] = snap[s][v]]_vars
=============================================================================

-------------------------- MODULE ProfileBootstrap --------------------------
(***************************************************************************)
(* Deployment profiles (metadata/profiles/, main.py's lifespan): a profile *)
(* is applied graph by graph with compensation, by the starting server, a  *)
(* command of the CLI or a factory reset; the server then publishes the    *)
(* cache of resource definitions, migrates the vocabulary and serves, and  *)
(* administrators change definitions while it does.  Other commands        *)
(* migrate the vocabulary, relocate schemas, or reconcile the store with   *)
(* another profile.                                                        *)
(*                                                                         *)
(* A graph's content is its revision: the number of the profile it is      *)
(* from, or a number of its own for an administrator's definition; 0 when  *)
(* the graph is empty.  A process goes from call to call; at is its next.  *)
(***************************************************************************)
EXTENDS Naturals, Sequences, FiniteSets

CONSTANTS
  Bundles,    \* the profile bundles; the first is the configured one
  Licenses,   \* the license shape and documents of the server, in the order they are written
  RdShape,    \* the shape of resource definitions
  Slugs,      \* the graphs of resource definitions
  RootSlugs,  \* those whose URL prefix is empty
  Children,   \* of each definition: the definitions its child links target
  SchemaOf,   \* of each definition: its schema
  Names,      \* every graph name
  Legacy,     \* of each server-owned shape's name before 0.16: its name since
  Moved,      \* of each schema's class IRI: its place in the schemas namespace
  AutoApply,  \* does the server apply the configured profile
  Requests,   \* the administrators' requests
  MaxEvents   \* bound: commands, requests, calls that raise and crashes, together

Server == "server"
Cli    == "cli"
Procs  == {Server, Cli} \union Requests

Revs    == 0 .. Len(Bundles) + MaxEvents
Graphs  == [rev : Revs, old : BOOLEAN]
Absent  == [rev |-> 0, old |-> FALSE]

\* Names come from the store in no particular order; First is the one taken next.
First(S) == CHOOSE n \in S : TRUE
Elems(s) == {s[i] : i \in DOMAIN s}
Distinct(s) == \A i, j \in DOMAIN s : s[i] = s[j] => i = j

\* The graphs of a bundle in the order the applier writes them.
WriteOrder(b) ==
  b.meta \o b.schemas \o b.offers \o Licenses
    \o (IF b.defs = <<>> THEN <<>> ELSE <<RdShape>> \o b.defs \o b.root) \o b.seeds

\* What the validator asks of a bundle before anything is written.
UniqueIds(b) == Distinct(b.schemas) /\ Distinct(b.offers)
SoundDefinitions(b) ==
  /\ Distinct(b.defs)
  /\ b.defs # <<>> => Cardinality(Elems(b.defs) \intersect RootSlugs) = 1
  /\ \A d \in Elems(b.defs) : SchemaOf[d] \in Elems(b.schemas) /\ Children[d] \subseteq Elems(b.defs)
\* What is wrong with a document itself is given with the bundle: bad.
ShapesParse(b)   == b.bad \intersect (Elems(b.schemas) \union Elems(b.meta)) = {}
OffersConform(b) == b.bad \intersect Elems(b.offers) = {}
SeedsConform(b)  == b.bad \intersect Elems(b.seeds) = {}
ValidBundle(b) ==
  UniqueIds(b) /\ ShapesParse(b) /\ OffersConform(b) /\ SoundDefinitions(b) /\ SeedsConform(b)

\* The definitions of a bundle, and what a set of definitions resolves to.
Manifest(i) == [s \in Slugs |-> IF s \in Elems(Bundles[i].defs) THEN i ELSE 0]
Resolve(recs) ==
  {[slug |-> s, rev |-> recs[s], children |-> [c \in Children[s] |-> recs[c]]] : s \in {t \in Slugs : recs[t] # 0}}

Documents(b) == Elems(b.meta) \union Elems(b.schemas) \union Elems(b.offers) \union Elems(b.root)
                  \union Elems(b.seeds) \union Elems(Licenses) \union {RdShape}

\* A bundle has graphs; definitions have graphs of their own.
Bundled(b) ==
  /\ {b.meta, b.schemas, b.offers, b.root, b.seeds, Licenses} \subseteq Seq(Names) /\ RdShape \in Names
  /\ b.defs \in Seq(Slugs) /\ WriteOrder(b) # <<>>
  /\ Documents(b) \intersect Slugs = {}

\* The names of before, and those they became.
Older    == DOMAIN Legacy \union DOMAIN Moved
Renamed  == {Legacy[m] : m \in DOMAIN Legacy} \union {Moved[m] : m \in DOMAIN Moved}

ASSUME ProfileAssumption ==
  /\ DOMAIN Bundles = 1 .. Len(Bundles) /\ Len(Bundles) \in Nat \ {0} /\ ValidBundle(Bundles[1])
  /\ \A i \in DOMAIN Bundles : Bundled(Bundles[i])
  /\ RootSlugs \subseteq Slugs /\ Slugs \subseteq Names /\ SchemaOf \in [Slugs -> Names]
  /\ Older \subseteq Names /\ Renamed \subseteq Names /\ DOMAIN Legacy \intersect DOMAIN Moved = {}
  /\ Older \intersect Renamed = {} /\ (Older \union Renamed) \intersect Slugs = {}
  /\ \A i \in DOMAIN Bundles : Elems(WriteOrder(Bundles[i])) \intersect Older = {}
  /\ AutoApply \in BOOLEAN /\ MaxEvents \in Nat /\ {Server, Cli} \intersect Requests = {}

VARIABLES
  graph,    \* the triple store
  applied,  \* the row of profile_applied: which bundle, 0 for none
  cache,    \* the published definitions, {} before any
  proc,     \* of each process: what it does, its next call, and what it has read
  alone,    \* history: no other process was under way since it began
  spoiled,  \* history: what happened to the store since it was last wiped
  behind,   \* history: something other than a rebuild that ran alone decided the cache
  edited,   \* history: definitions deleted on purpose
  events

vars == <<graph, applied, cache, proc, alone, spoiled, behind, edited, events>>

-----------------------------------------------------------------------------
Resting   == {"down", "serving", "idle"}
Ops       == {"none", "boot", "apply", "force", "vocab", "relocate", "modular",
              "reset", "create", "replace", "delete"}
Calls     == {"check", "put", "record", "undo", "wipe", "clear", "backfill", "list", "read", "publish", "advertise",
              "affected", "copy", "replace", "drop", "migrated", "repoint", "invalidate", "reindex", "warm",
              "reconcile", "orphans", "unlink", "retype", "ask", "change"}
At(p)     == proc[p].at
Op(p)     == proc[p].op
Active(p) == At(p) \notin Resting
Quiet     == \A p \in Procs : ~Active(p)
Own(p)    == Bundles[proc[p].b]
Order(p)  == WriteOrder(Own(p))
Up        == At(Server) # "down"

Present(n)  == graph[n].rev # 0
Definitions == [s \in Slugs |-> IF graph[s].old THEN 0 ELSE graph[s].rev]
Listed      == {n \in Slugs : Definitions[n] # 0}

Idle == [op |-> "none", at |-> "idle", b |-> 1, n |-> 1, todo |-> {}, recs |-> [s \in Slugs |-> 0],
         mem |-> Absent, rev |-> 0]
Becomes(p, r) == proc' = [proc EXCEPT ![p] = r]
Goto(p, call) == Becomes(p, [proc[p] EXCEPT !.at = call])
Rest(p, call) == Becomes(p, [Idle EXCEPT !.at = call])
Done(p)       == Rest(p, IF p = Server THEN "down" ELSE "idle")
Event         == events < MaxEvents /\ events' = events + 1

\* Process p begins; others that are under way are no longer alone, nor is p.
Begin(p, op, b, call) ==
  /\ Becomes(p, [Idle EXCEPT !.op = op, !.at = call, !.b = b])
  /\ LET others == {q \in Procs \ {p} : Active(q)}
     IN /\ alone' = [q \in Procs |-> q = p /\ others = {}]
        /\ spoiled' = IF others = {} THEN spoiled ELSE spoiled \union {"mixed"}
        /\ behind' = (others # {} \/ IF p = Server THEN ~AutoApply ELSE behind)

\* What p is at of what it goes through; it goes on with the rest, or with what comes after.
Current(p) == First(proc[p].todo)
Further(p, call, after) ==
  [proc[p] EXCEPT !.todo = proc[p].todo \ {Current(p)},
                  !.at = IF proc[p].todo = {Current(p)} THEN after ELSE call]

\* A change of graphs by p: the server's cache cannot know of a command's.
Store(p, g) ==
  /\ graph' = g
  /\ behind' = (behind \/ (p = Cli /\ Up /\ \E s \in Slugs : g[s] # graph[s]))

\* The store of a bundle: empty, as applied, or as an older release left it, with one type more.
Fresh    == [n \in Names |-> Absent]
AsApplied == [n \in Names |-> IF n \in Elems(WriteOrder(Bundles[1])) THEN [rev |-> 1, old |-> FALSE] ELSE Absent]
OlderRelease ==
  [n \in Names |->
     IF n \in Older THEN [rev |-> 1, old |-> TRUE]
     ELSE IF n \in Renamed THEN Absent
     ELSE IF n \in (Slugs \ RootSlugs) \union Elems(WriteOrder(Bundles[1])) THEN [rev |-> 1, old |-> TRUE]
     ELSE Absent]

Init ==
  /\ \/ graph = Fresh /\ applied = 0
     \/ graph \in {AsApplied, OlderRelease} /\ applied = 1
  /\ cache = {}
  /\ proc = [p \in Procs |-> IF p = Server THEN [Idle EXCEPT !.at = "down"] ELSE Idle]
  /\ alone = [p \in Procs |-> FALSE] /\ spoiled = {} /\ behind = FALSE /\ edited = {}
  /\ events = 0

-----------------------------------------------------------------------------
(* Applying a bundle.  Refused when one is applied, unless forced; then graph
   by graph, the row last.  A call that raises starts the compensation, which
   drops in reverse what was written and swallows what a drop raises. *)

RefusedWhenPresent(p) == applied # 0 \/ \E n \in Elems(Order(p)) : Present(n)
Refused(p) == applied # 0

\* How many of its graphs an apply has written; the one that raises is not among them.
WrittenButLast(p) == IF proc[p].n < 2 THEN 0 ELSE proc[p].n - 2
Written(p) == proc[p].n - 1

CheckApplied(p) ==
  /\ At(p) = "check"
  /\ IF p = Server /\ applied # 0 THEN Goto(p, "list")
     ELSE IF Refused(p) \/ ~ValidBundle(Own(p)) THEN Done(p)
     ELSE Goto(p, "put")
  /\ UNCHANGED <<graph, applied, cache, alone, spoiled, behind, edited, events>>

PutArtifact(p) == [graph EXCEPT ![Order(p)[proc[p].n]] = [rev |-> proc[p].b, old |-> FALSE]]

Put(p) ==
  /\ At(p) = "put"
  /\ Store(p, PutArtifact(p))
  /\ Becomes(p, [proc[p] EXCEPT !.n = proc[p].n + 1,
                                !.at = IF proc[p].n = Len(Order(p)) THEN "record" ELSE "put"])
  /\ UNCHANGED <<applied, cache, alone, spoiled, edited, events>>

\* The row is a singleton: a second insert raises.  The manifest's definitions are published
\* by the server; a reset has the same hook, a command has none.
AfterRecord(p) == IF p = Server THEN "backfill" ELSE "publish"

Compensate(p, written) == Becomes(p, [proc[p] EXCEPT !.n = written, !.at = "undo"])

Record(p) ==
  /\ At(p) = "record"
  /\ IF applied = 0
       THEN /\ applied' = proc[p].b
            /\ IF p = Cli THEN Done(p)
               ELSE Becomes(p, [proc[p] EXCEPT !.recs = Manifest(proc[p].b), !.at = AfterRecord(p)])
       ELSE UNCHANGED applied /\ Compensate(p, Written(p))
  /\ behind' = (behind \/ \E s \in Slugs : Manifest(proc[p].b)[s] = 0 /\ Present(s))
  /\ UNCHANGED <<graph, cache, alone, spoiled, edited, events>>

Undo(p) ==
  /\ At(p) = "undo"
  /\ IF proc[p].n = 0 THEN Done(p) /\ UNCHANGED <<graph, behind>>
     ELSE /\ Store(p, [graph EXCEPT ![Order(p)[proc[p].n]] = Absent])
          /\ Becomes(p, [proc[p] EXCEPT !.n = proc[p].n - 1])
  /\ UNCHANGED <<applied, cache, alone, spoiled, edited, events>>

\* A forced apply and a reset first drop every graph, then delete the row.
Wipe(p) ==
  /\ At(p) = "wipe"
  /\ Store(p, Fresh) /\ Goto(p, "clear")
  /\ spoiled' = spoiled \intersect {"mixed"} /\ edited' = {}
  /\ UNCHANGED <<applied, cache, alone, events>>

Clear(p) ==
  /\ At(p) = "clear"
  /\ applied' = 0
  /\ IF ValidBundle(Own(p)) THEN Goto(p, "put") ELSE Done(p)
  /\ behind' = (behind \/ (~ValidBundle(Own(p)) /\ Up))
  /\ UNCHANGED <<graph, cache, alone, spoiled, edited, events>>

-----------------------------------------------------------------------------
(* The cache of definitions: rebuilt from the store, one query for the names
   and one per definition, then swapped in.  What follows the swap, warming
   validator and decisions, swallows what it raises. *)

AfterRead(p) == IF Op(p) = "relocate" THEN "repoint" ELSE "publish"

List(p) ==
  /\ At(p) = "list"
  /\ Becomes(p, [proc[p] EXCEPT !.todo = Listed, !.recs = [s \in Slugs |-> 0],
                                !.at = IF Listed = {} THEN AfterRead(p) ELSE "read"])
  /\ behind' = (behind \/ (\E s \in Slugs : graph[s].old) \/ (p = Server /\ Listed = {}))
  /\ UNCHANGED <<graph, applied, cache, alone, spoiled, edited, events>>

\* A definition that has gone in between does not parse, and the rebuild raises.
Read(p) ==
  /\ At(p) = "read"
  /\ LET s == Current(p)
     IN IF Definitions[s] = 0 THEN Done(p) /\ behind' = (behind \/ p # Server)
        ELSE /\ Becomes(p, [Further(p, "read", AfterRead(p)) EXCEPT !.recs = [proc[p].recs EXCEPT ![s] = Definitions[s]]])
             /\ UNCHANGED behind
  /\ UNCHANGED <<graph, applied, cache, alone, spoiled, edited, events>>

\* The server that found no definition in the store falls back to its manifest.
Rebuilt(p) == IF p = Server /\ \A s \in Slugs : proc[p].recs[s] = 0 THEN Manifest(1) ELSE proc[p].recs

Publish(p) ==
  /\ At(p) = "publish"
  /\ cache' = Resolve(Rebuilt(p))
  /\ behind' = (behind /\ (p = Server \/ ~alone[p]))
  /\ IF p = Server \/ Op(p) = "reset" THEN Goto(p, "advertise") ELSE Done(p)
  /\ UNCHANGED <<graph, applied, alone, spoiled, edited, events>>

\* The root gains what it lacks of the advertisement of the query endpoints.
Advertise(p) ==
  /\ At(p) = "advertise"
  /\ IF p = Server THEN Goto(p, "affected") ELSE Done(p)
  /\ UNCHANGED <<graph, applied, cache, alone, spoiled, behind, edited, events>>

-----------------------------------------------------------------------------
(* The server starts: its container is restarted until stopped.  A start
   applies the profile or rebuilds the cache, migrates the vocabulary, and
   serves; an exception is the end of it, except in the migration. *)

Boot ==
  /\ At(Server) = "down"
  /\ Begin(Server, "boot", 1, IF AutoApply THEN "check" ELSE "affected")
  /\ cache' = {}
  /\ UNCHANGED <<graph, applied, edited, events>>

\* A profile applied by the start itself has its records stamped with their conformance.
BackfillConformance ==
  /\ At(Server) = "backfill" /\ Goto(Server, "publish")
  /\ UNCHANGED <<graph, applied, cache, alone, spoiled, behind, edited, events>>

\* Decisions and the search index are computed again after a migration that changed something.
RebuildDerived ==
  /\ At(Server) \in {"invalidate", "reindex"}
  /\ Goto(Server, IF At(Server) = "invalidate" THEN "reindex" ELSE "warm")
  /\ UNCHANGED <<graph, applied, cache, alone, spoiled, behind, edited, events>>

Serve ==
  /\ At(Server) = "warm" /\ Rest(Server, "serving")
  /\ UNCHANGED <<graph, applied, cache, alone, spoiled, behind, edited, events>>

-----------------------------------------------------------------------------
(* Migrations rewrite graphs one by one: the names are asked for first, then
   each graph is read, written to its place, and dropped where it was. *)

Target(p, n) ==
  IF Op(p) = "relocate" THEN Moved[n] ELSE IF n \in DOMAIN Legacy THEN Legacy[n] ELSE n

\* The names that a migration goes through: a relocation all that it moves.
ToMigrate(p) == IF Op(p) = "relocate" THEN DOMAIN Moved ELSE {n \in Names : graph[n].old}

AfterMigration(p) == IF Op(p) = "relocate" THEN "list" ELSE "migrated"

Affected(p) ==
  /\ At(p) = "affected"
  /\ Becomes(p, [proc[p] EXCEPT !.todo = ToMigrate(p), !.n = IF ToMigrate(p) = {} THEN 0 ELSE 1,
                                !.at = IF ToMigrate(p) = {} THEN AfterMigration(p) ELSE "copy"])
  /\ UNCHANGED <<graph, applied, cache, alone, spoiled, behind, edited, events>>

NextGraph(p) == Becomes(p, Further(p, "copy", AfterMigration(p)))

\* A relocation passes over what is not there.
Copy(p) ==
  /\ At(p) = "copy"
  /\ IF Op(p) = "relocate" /\ ~Present(Current(p)) THEN NextGraph(p)
     ELSE Becomes(p, [proc[p] EXCEPT !.mem = graph[Current(p)], !.at = "replace"])
  /\ UNCHANGED <<graph, applied, cache, alone, spoiled, behind, edited, events>>

Rewritten(p) == IF Op(p) = "relocate" THEN proc[p].mem ELSE [proc[p].mem EXCEPT !.old = FALSE]
ReplacedAfterDrop(p) ==
  [graph EXCEPT ![Current(p)] = IF Target(p, Current(p)) = Current(p) THEN Rewritten(p) ELSE Absent]
Replaced(p) == [graph EXCEPT ![Target(p, Current(p))] = Rewritten(p)]

Replace(p) ==
  /\ At(p) = "replace"
  /\ Store(p, Replaced(p))
  /\ IF Target(p, Current(p)) = Current(p) THEN NextGraph(p) ELSE Goto(p, "drop")
  /\ UNCHANGED <<applied, cache, alone, spoiled, edited, events>>

DropOld(p) ==
  /\ At(p) = "drop"
  /\ Store(p, [graph EXCEPT ![Current(p)] = Absent])
  /\ NextGraph(p)
  /\ UNCHANGED <<applied, cache, alone, spoiled, edited, events>>

\* The start computes derived state again only if this pass has changed a graph.
EndMigration(p) ==
  /\ At(p) = "migrated"
  /\ IF p = Server THEN Goto(p, IF proc[p].n = 0 THEN "warm" ELSE "invalidate") ELSE Done(p)
  /\ UNCHANGED <<graph, applied, cache, alone, spoiled, behind, edited, events>>

\* A relocation ends by writing back the definitions it has read, with their new schema.
Repoint(p) ==
  /\ At(p) = "repoint"
  /\ LET todo == {s \in Slugs : proc[p].recs[s] # 0}
     IN IF todo = {} THEN Done(p) /\ UNCHANGED <<graph, behind>>
        ELSE /\ Store(p, [graph EXCEPT ![First(todo)] = [rev |-> proc[p].recs[First(todo)], old |-> FALSE]])
             /\ Becomes(p, [proc[p] EXCEPT !.recs = [proc[p].recs EXCEPT ![First(todo)] = 0]])
  /\ UNCHANGED <<applied, cache, alone, spoiled, edited, events>>

-----------------------------------------------------------------------------
(* Reconciling the store with another bundle: schemas and definitions that
   differ are written, definitions it does not have are deleted, and the
   root record takes the type of the new root definition. *)

ReconcileOrder(b) == b.schemas \o b.defs
Reconciled(p)     == ReconcileOrder(Own(p))

\* What the store holds is what the bundle says.
Identical(p, s) == graph[s] = [rev |-> proc[p].b, old |-> FALSE]

Reconcile(p) ==
  /\ At(p) = "reconcile"
  /\ LET s == Reconciled(p)[proc[p].n]
     IN Store(p, IF Identical(p, s) THEN graph
                 ELSE [graph EXCEPT ![s] = [rev |-> proc[p].b, old |-> FALSE]])
  /\ Becomes(p, [proc[p] EXCEPT !.n = proc[p].n + 1,
                                !.at = IF proc[p].n = Len(Reconciled(p)) THEN "orphans" ELSE "reconcile"])
  /\ spoiled' = IF applied = 0 THEN spoiled \union {"unapplied"} ELSE spoiled
  /\ UNCHANGED <<applied, cache, alone, edited, events>>

ListOrphans(p) ==
  /\ At(p) = "orphans"
  /\ LET orphans == Listed \ Elems(Own(p).defs)
     IN Becomes(p, [proc[p] EXCEPT !.todo = orphans, !.at = IF orphans = {} THEN "retype" ELSE "unlink"])
  /\ UNCHANGED <<graph, applied, cache, alone, spoiled, behind, edited, events>>

Unlink(p) ==
  /\ At(p) = "unlink"
  /\ Store(p, [graph EXCEPT ![Current(p)] = Absent])
  /\ edited' = edited \union {Current(p)}
  /\ Becomes(p, Further(p, "unlink", "retype"))
  /\ UNCHANGED <<applied, cache, alone, spoiled, events>>

RetypeRoot(p) ==
  /\ At(p) = "retype"
  /\ Store(p, [n \in Names |-> IF n \in Elems(Own(p).root) /\ Present(n)
                                   THEN [graph[n] EXCEPT !.rev = proc[p].b] ELSE graph[n]])
  /\ Done(p)
  /\ UNCHANGED <<applied, cache, alone, spoiled, edited, events>>

-----------------------------------------------------------------------------
(* Commands and requests.  What a command is asked to do; an administrator
   resets the server, or creates, replaces or deletes a definition. *)

Commanded == At(Cli) = "idle" /\ Event /\ UNCHANGED <<graph, applied, cache, edited>>

\* `fdp profile apply`: --force wipes first, whatever is applied.
Apply ==
  /\ Commanded
  /\ \E b \in DOMAIN Bundles :
       Begin(Cli, "apply", b, "check") \/ Begin(Cli, "force", b, "wipe")

\* `fdp vocab migrate`, also without a profile.
MigrateVocabulary == Commanded /\ Begin(Cli, "vocab", 1, "affected")

\* `fdp schema migrate-namespace`.
MigrateNamespace == Commanded /\ Begin(Cli, "relocate", 1, "affected")

\* `fdp profile migrate-modular`, which validates the bundle.
MigrateModular ==
  /\ Commanded
  /\ \E b \in DOMAIN Bundles :
       /\ ValidBundle(Bundles[b])
       /\ Begin(Cli, "modular", b, IF ReconcileOrder(Bundles[b]) = <<>> THEN "orphans" ELSE "reconcile")

Command == Apply \/ MigrateVocabulary \/ MigrateNamespace \/ MigrateModular

Reset(r) ==
  /\ At(Server) = "serving" /\ At(r) = "idle" /\ Event
  /\ \E b \in DOMAIN Bundles : Begin(r, "reset", b, "wipe")
  /\ UNCHANGED <<graph, applied, cache, edited>>

\* Creating needs a slug that the published cache does not have, the others one that it has.
Cached == {d.slug : d \in cache}
Admissible(op, s) ==
  CASE op = "create"  -> s \notin Cached /\ cache # {}
    [] op = "replace" -> s \in Cached
    [] op = "delete"  -> s \in Cached \ RootSlugs

Administer(r) ==
  /\ At(Server) = "serving" /\ At(r) = "idle" /\ Event
  /\ \E op \in {"create", "replace", "delete"}, s \in Slugs :
       /\ Admissible(op, s)
       /\ LET first == IF op = "delete" THEN "change" ELSE "ask"
          IN /\ Becomes(r, [Idle EXCEPT !.op = op, !.at = first, !.todo = {s}, !.rev = Len(Bundles) + events'])
             /\ LET others == {q \in Procs \ {r} : Active(q)}
                IN /\ alone' = [q \in Procs |-> q = r /\ others = {}]
                   /\ spoiled' = IF others = {} THEN spoiled ELSE spoiled \union {"mixed"}
                   /\ behind' = (behind \/ others # {})
  /\ UNCHANGED <<graph, applied, cache, edited>>

\* The schema must have been published before the definition is written.
AskSchema(r) ==
  /\ At(r) = "ask"
  /\ IF Present(SchemaOf[Current(r)]) THEN Goto(r, "change") ELSE Done(r)
  /\ UNCHANGED <<graph, applied, cache, alone, spoiled, behind, edited, events>>

Changed(r) == [graph EXCEPT ![Current(r)] =
                 IF Op(r) = "delete" THEN Absent ELSE [rev |-> proc[r].rev, old |-> FALSE]]

AfterDeleteNothing(r) == IF Op(r) = "delete" THEN "idle" ELSE "list"
AfterChange(r) == "list"

Change(r) ==
  /\ At(r) = "change"
  /\ Store(r, Changed(r)) /\ Goto(r, AfterChange(r))
  /\ edited' = IF Op(r) = "delete" THEN edited \union {Current(r)} ELSE edited
  /\ UNCHANGED <<applied, cache, alone, spoiled, events>>

-----------------------------------------------------------------------------
(* Faults.  A call raises, before or after it took effect.  A process dies. *)

\* What the call that p is about to make does to the store.
Effect(p) ==
  CASE At(p) = "put"     -> PutArtifact(p)
    [] At(p) = "wipe"    -> Fresh
    [] At(p) = "replace" -> Replaced(p)
    [] At(p) = "drop"    -> [graph EXCEPT ![Current(p)] = Absent]
    [] At(p) = "undo" /\ proc[p].n > 0 -> [graph EXCEPT ![Order(p)[proc[p].n]] = Absent]
    [] At(p) = "change"  -> Changed(p)
    [] OTHER -> graph

Migrating(p) == At(p) \in {"affected", "copy", "replace", "drop"}

Caught(p) ==
  IF At(p) \in {"put", "record"} THEN Compensate(p, Written(p))
  ELSE IF At(p) = "undo" THEN Becomes(p, [proc[p] EXCEPT !.n = proc[p].n - 1])
  ELSE IF p = Server /\ Migrating(p) THEN Goto(p, "warm")
  ELSE Done(p)

\* What an exception leaves behind, of an apply or of a rebuild.
Left(p, took) ==
  (IF At(p) = "put" /\ took THEN {"torn"} ELSE {}) \union
  (IF At(p) = "undo" /\ ~took THEN {"drop"} ELSE {}) \union
  (IF At(p) = "record" /\ took /\ applied = 0 THEN {"ack"} ELSE {}) \union
  (IF At(p) = "clear" \/ (At(p) = "wipe" /\ took) THEN {"wiped"} ELSE {})

Raise(p) ==
  /\ Active(p) /\ At(p) \notin {"publish", "warm"} /\ (At(p) = "undo" => proc[p].n > 0)
  /\ Event
  /\ \E took \in BOOLEAN :
       /\ graph' = IF took THEN Effect(p) ELSE graph
       /\ applied' = IF took /\ At(p) = "clear" THEN 0
                     ELSE IF took /\ At(p) = "record" /\ applied = 0 THEN proc[p].b ELSE applied
       /\ spoiled' = spoiled \union Left(p, took)
       /\ edited' = IF took /\ At(p) = "change" /\ Op(p) = "delete" THEN edited \union {Current(p)} ELSE edited
  /\ behind' = (behind \/ p \in Requests \/ (p = Cli /\ Up /\ \E s \in Slugs : graph'[s] # graph[s]))
  /\ Caught(p)
  /\ UNCHANGED <<cache, alone>>

\* The row is cleared only after the store is, and a process that dies there leaves it.
Died(P) == (IF \E p \in P : Active(p) THEN {"crash"} ELSE {}) \union
           (IF \E p \in P : At(p) = "clear" THEN {"wiped"} ELSE {})

CrashServer ==
  /\ Up /\ Event
  /\ spoiled' = spoiled \union Died(Procs \ {Cli})
  /\ proc' = [p \in Procs |-> IF p = Server THEN [Idle EXCEPT !.at = "down"] ELSE IF p = Cli THEN proc[p] ELSE Idle]
  /\ cache' = {}
  /\ UNCHANGED <<graph, applied, alone, behind, edited>>

CrashCli ==
  /\ Active(Cli) /\ Event
  /\ spoiled' = spoiled \union Died({Cli})
  /\ proc' = [proc EXCEPT ![Cli] = Idle]
  /\ UNCHANGED <<graph, applied, cache, alone, behind, edited>>

-----------------------------------------------------------------------------
Step(p) ==
  \/ CheckApplied(p) \/ Put(p) \/ Record(p) \/ Undo(p) \/ Wipe(p) \/ Clear(p)
  \/ List(p) \/ Read(p) \/ Publish(p) \/ Advertise(p)
  \/ Affected(p) \/ Copy(p) \/ Replace(p) \/ DropOld(p) \/ EndMigration(p) \/ Repoint(p)
  \/ Reconcile(p) \/ ListOrphans(p) \/ Unlink(p) \/ RetypeRoot(p)
  \/ AskSchema(p) \/ Change(p)

Start == Boot \/ BackfillConformance \/ RebuildDerived \/ Serve \/ Step(Server)

Next ==
  \/ Start \/ Command \/ Step(Cli)
  \/ \E r \in Requests : Reset(r) \/ Administer(r) \/ Step(r)
  \/ \E p \in Procs : Raise(p)
  \/ CrashServer \/ CrashCli

Spec == Init /\ [][Next]_vars
\* The container of the server is restarted unless stopped, and its start runs on.
FairSpec == Spec /\ WF_vars(Start)
-----------------------------------------------------------------------------
(* Properties. *)

\* Every variable has its type, and no process is past the end of what it goes through.
Process == [op : Ops, at : Resting \union Calls, b : DOMAIN Bundles, n : Nat, todo : SUBSET Names,
            recs : [Slugs -> Revs], mem : Graphs, rev : Revs]
TypeOK ==
  /\ graph \in [Names -> Graphs] /\ \A n \in Names : ~Present(n) => graph[n] = Absent
  /\ applied \in 0 .. Len(Bundles) /\ events \in 0 .. MaxEvents
  /\ alone \in [Procs -> BOOLEAN] /\ behind \in BOOLEAN
  /\ proc \in [Procs -> Process]
  /\ \A p \in Procs :
       /\ At(p) = "put" => proc[p].n \in 1 .. Len(Order(p))
       /\ At(p) = "undo" => proc[p].n \in 0 .. Len(Order(p))
       /\ At(p) \in {"read", "copy", "replace", "drop", "unlink"} => proc[p].todo # {}

\* Names under which an older release kept what is n now.
Formerly(n) == {m \in DOMAIN Legacy : Legacy[m] = n} \union {m \in DOMAIN Moved : Moved[m] = n}
Revisions(n) == {graph[m].rev : m \in {n} \union Formerly(n)} \ {0}

\* A profile is applied entirely or not at all (applier.py: the row last, the compensation): when
\* nothing is under way, a recorded profile has every graph of it, but for definitions deleted
\* on purpose, and without a record no graph of it is left.  Processes that overlapped, a commit
\* that took effect and raised, and a wipe that died before the row was deleted are excused; for
\* the second half so are a crash, a put that raised half way and a drop that raised.
AllOrNothing ==
  Quiet =>
    /\ applied # 0 /\ spoiled \intersect {"mixed", "ack", "wiped"} = {} =>
         \A n \in Elems(WriteOrder(Bundles[applied])) \ edited : Revisions(n) # {}
    /\ applied = 0 /\ spoiled = {} => \A n \in Names : ~Present(n)

\* The definitions the server works with are those of the store (rd_service.py: the store is the
\* source of truth), once requests are over, unless the last rebuild overlapped with something,
\* a request raised or a command changed them since, the start found an older vocabulary, or
\* (main.py:1048, profile_auto_apply off) the start builds no cache.
CacheCurrent == At(Server) = "serving" /\ Quiet /\ ~behind => cache = Resolve(Definitions)

\* A migration that nothing overlaps leaves every graph with a content that it had, under its
\* older or its newer name, at any of its steps, a crash or an exception included, and a
\* migration of the vocabulary that runs to its end leaves no older term
\* (vocab_migration.py: written to its new name before the old one is dropped; idempotent).
MigrationKeeps ==
  [][\A p \in Procs :
       Migrating(p) /\ alone[p] /\ alone'[p] =>
         /\ \A n \in Names \ Older :
              Revisions(n)' \subseteq Revisions(n) /\ (Revisions(n)' = {} => Revisions(n) = {})
         /\ At(p)' = "migrated" => \A n \in Names : ~graph[n].old']_vars

\* A server that is down serves in the end (main.py: a failed start is fatal, the container is
\* restarted; a next start takes up what an earlier one left).
Served == At(Server) = "down" ~> At(Server) = "serving"
=============================================================================

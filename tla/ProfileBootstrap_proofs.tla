----------------------- MODULE ProfileBootstrap_proofs -----------------------
(***************************************************************************)
(* TInv, what each process holds at each call, is inductive, and type      *)
(* correctness follows.  IInv adds who is alone and that what a process    *)
(* that is alone has seen still holds: what it has put is there, what it   *)
(* is moving is there, what it has read is what the store has.  From it,   *)
(* for any bundles, names, requests and faults: migrations keep what they  *)
(* move (MigrationKeeps); with AInv, which says of every graph that no row *)
(* accounts for which apply still has to record or to drop it, a profile   *)
(* is applied entirely or not at all (AllOrNothing); with CInv, which      *)
(* follows what the server has read up to its publication, the cache of    *)
(* definitions is the store's (CacheCurrent).                              *)
(***************************************************************************)
EXTENDS ProfileBootstrap, SequenceTheorems, TLAPS

-----------------------------------------------------------------------------
(* Bundles and their order.                                                *)

\* What the assumption says of the constants.
LEMMA Constants ==
  /\ DOMAIN Bundles = 1 .. Len(Bundles) /\ Len(Bundles) \in Nat \ {0} /\ 1 \in DOMAIN Bundles
  /\ \A i \in DOMAIN Bundles : i \in Nat \ {0} /\ i \in Revs /\ i \in 0 .. Len(Bundles)
  /\ MaxEvents \in Nat /\ 0 \in Revs /\ Revs \subseteq Nat
  /\ AutoApply \in BOOLEAN /\ ValidBundle(Bundles[1])
  BY ProfileAssumption DEF ProfileAssumption, Revs

\* What it says of names.
LEMMA NamesApart ==
  /\ Slugs \subseteq Names /\ Older \subseteq Names /\ Renamed \subseteq Names
  /\ Older \intersect Slugs = {} /\ Renamed \intersect Slugs = {} /\ Older \intersect Renamed = {}
  BY ProfileAssumption DEF ProfileAssumption

\* Who the processes are.
LEMMA Who ==
  /\ Server \in Procs /\ Cli \in Procs /\ Server # Cli /\ Requests \subseteq Procs
  /\ Server \notin Requests /\ Cli \notin Requests
  /\ \A p \in Procs : p = Server \/ p = Cli \/ p \in Requests
  BY ProfileAssumption DEF ProfileAssumption, Procs, Server, Cli

\* What is in a sequence that is put together is in its parts.
LEMMA ElemsOfConcat ==
  ASSUME NEW s \in Seq(Names), NEW t \in Seq(Names)
  PROVE  s \o t \in Seq(Names) /\ Elems(s \o t) = Elems(s) \union Elems(t)
  <1>1. /\ s \o t \in Seq(Names) /\ Len(s \o t) = Len(s) + Len(t)
        /\ \A i \in 1 .. Len(s) + Len(t) : (s \o t)[i] = IF i <= Len(s) THEN s[i] ELSE t[i - Len(s)]
    BY ConcatProperties
  <1>2. Len(s) \in Nat /\ Len(t) \in Nat /\ DOMAIN s = 1 .. Len(s) /\ DOMAIN t = 1 .. Len(t)
        /\ DOMAIN (s \o t) = 1 .. Len(s) + Len(t)
    BY <1>1
  <1>3. Elems(s \o t) \subseteq Elems(s) \union Elems(t)
    <2> SUFFICES ASSUME NEW i \in 1 .. Len(s) + Len(t)
                 PROVE  (s \o t)[i] \in Elems(s) \union Elems(t)
      BY <1>2 DEF Elems
    <2>1. CASE i <= Len(s)
      BY <1>1, <1>2, <2>1 DEF Elems
    <2>2. CASE ~(i <= Len(s))
      <3>1. i - Len(s) \in 1 .. Len(t)
        BY <1>2, <2>2
      <3> QED
        BY <1>1, <1>2, <2>2, <3>1 DEF Elems
    <2> QED
      BY <2>1, <2>2
  <1>4. ASSUME NEW i \in 1 .. Len(s) PROVE s[i] \in Elems(s \o t)
    <2>1. i \in 1 .. Len(s) + Len(t) /\ i <= Len(s)
      BY <1>2
    <2> QED
      BY <1>1, <1>2, <2>1 DEF Elems
  <1>5. ASSUME NEW i \in 1 .. Len(t) PROVE t[i] \in Elems(s \o t)
    <2>1. /\ i + Len(s) \in 1 .. Len(s) + Len(t) /\ ~(i + Len(s) <= Len(s))
          /\ i + Len(s) - Len(s) = i
      BY <1>2
    <2>2. (s \o t)[i + Len(s)] = t[i]
      BY <1>1, <2>1
    <2> QED
      BY <1>2, <2>1, <2>2 DEF Elems
  <1> QED
    BY <1>1, <1>2, <1>3, <1>4, <1>5 DEF Elems

\* A sequence of one name.
LEMMA ElemsOfOne ==
  ASSUME NEW n \in Names
  PROVE  <<n>> \in Seq(Names) /\ Elems(<<n>>) = {n}
  BY DEF Elems

\* A bundle's graphs in the order they are written: definitions are the graphs of definitions
\* among them, and none has an older name.
LEMMA OrderOf ==
  ASSUME NEW i \in DOMAIN Bundles
  PROVE  /\ WriteOrder(Bundles[i]) \in Seq(Names) /\ WriteOrder(Bundles[i]) # <<>>
         /\ Elems(WriteOrder(Bundles[i])) \intersect Slugs = Elems(Bundles[i].defs)
         /\ Elems(WriteOrder(Bundles[i])) \intersect Older = {}
  <1> DEFINE b == Bundles[i]
  <1>1. Bundled(b) /\ Elems(WriteOrder(b)) \intersect Older = {}
    BY ProfileAssumption DEF ProfileAssumption
  <1>2. /\ b.meta \in Seq(Names) /\ b.schemas \in Seq(Names) /\ b.offers \in Seq(Names)
        /\ b.root \in Seq(Names) /\ b.seeds \in Seq(Names) /\ Licenses \in Seq(Names)
        /\ RdShape \in Names /\ b.defs \in Seq(Slugs) /\ WriteOrder(b) # <<>>
        /\ (Elems(b.meta) \union Elems(b.schemas) \union Elems(b.offers) \union Elems(b.root)
             \union Elems(b.seeds) \union Elems(Licenses) \union {RdShape}) \intersect Slugs = {}
    BY <1>1 DEF Bundled, Documents
  <1> HIDE DEF b
  <1>3. b.defs \in Seq(Names) /\ Elems(b.defs) \subseteq Slugs
    <2>1. b.defs \in Seq(Names)
      BY <1>2, NamesApart, SeqMonotonic
    <2>2. Elems(b.defs) \subseteq Slugs
      BY <1>2, ElementOfSeq DEF Elems
    <2> QED
      BY <2>1, <2>2
  <1> DEFINE D == <<RdShape>> \o b.defs \o b.root
  <1> DEFINE E == IF b.defs = <<>> THEN <<>> ELSE D
  <1>4. D \in Seq(Names) /\ Elems(D) = {RdShape} \union Elems(b.defs) \union Elems(b.root)
    <2>1. <<RdShape>> \in Seq(Names) /\ Elems(<<RdShape>>) = {RdShape}
      BY <1>2, ElemsOfOne
    <2>2. <<RdShape>> \o b.defs \in Seq(Names)
          /\ Elems(<<RdShape>> \o b.defs) = Elems(<<RdShape>>) \union Elems(b.defs)
      BY <1>3, <2>1, ElemsOfConcat
    <2>3. D \in Seq(Names) /\ Elems(D) = Elems(<<RdShape>> \o b.defs) \union Elems(b.root)
      BY <1>2, <2>2, ElemsOfConcat
    <2> QED
      BY <2>1, <2>2, <2>3
  <1>5. E \in Seq(Names) /\ Elems(E) \intersect Slugs = Elems(b.defs)
    <2>1. CASE b.defs = <<>>
      <3>1. Elems(<<>>) = {} /\ <<>> \in Seq(Names)
        BY DEF Elems
      <3> QED
        BY <2>1, <3>1
    <2>2. CASE b.defs # <<>>
      BY <1>2, <1>3, <1>4, <2>2
    <2> QED
      BY <2>1, <2>2
  <1>6. WriteOrder(b) = b.meta \o b.schemas \o b.offers \o Licenses \o E \o b.seeds
    BY DEF WriteOrder
  <1> HIDE DEF E, D
  <1> DEFINE A1 == b.meta \o b.schemas
             A2 == A1 \o b.offers
             A3 == A2 \o Licenses
             A4 == A3 \o E
             A5 == A4 \o b.seeds
  <1>7. A1 \in Seq(Names) /\ Elems(A1) = Elems(b.meta) \union Elems(b.schemas)
    BY <1>2, ElemsOfConcat
  <1>8. A2 \in Seq(Names) /\ Elems(A2) = Elems(A1) \union Elems(b.offers)
    BY <1>2, <1>7, ElemsOfConcat
  <1>9. A3 \in Seq(Names) /\ Elems(A3) = Elems(A2) \union Elems(Licenses)
    BY <1>2, <1>8, ElemsOfConcat
  <1>10. A4 \in Seq(Names) /\ Elems(A4) = Elems(A3) \union Elems(E)
    BY <1>5, <1>9, ElemsOfConcat
  <1>11. A5 \in Seq(Names) /\ Elems(A5) = Elems(A4) \union Elems(b.seeds)
    BY <1>2, <1>10, ElemsOfConcat
  <1>12. WriteOrder(b) = A5
    BY <1>6
  <1> HIDE DEF A1, A2, A3, A4, A5
  <1>13. WriteOrder(b) \in Seq(Names) /\ Elems(WriteOrder(b)) \intersect Slugs = Elems(b.defs)
    BY <1>2, <1>5, <1>7, <1>8, <1>9, <1>10, <1>11, <1>12
  <1> QED
    BY <1>1, <1>2, <1>13 DEF b

\* The names of an order by their number.
LEMMA Numbered ==
  ASSUME NEW i \in DOMAIN Bundles
  PROVE  LET O == WriteOrder(Bundles[i])
         IN /\ Len(O) \in Nat \ {0} /\ \A k \in 1 .. Len(O) : O[k] \in Names
            /\ Elems(O) = {O[k] : k \in 1 .. Len(O)}
  <1> DEFINE O == WriteOrder(Bundles[i])
  <1>1. O \in Seq(Names) /\ O # <<>>
    BY OrderOf
  <1> HIDE DEF O
  <1>2. Len(O) \in Nat \ {0} /\ DOMAIN O = 1 .. Len(O) /\ \A k \in 1 .. Len(O) : O[k] \in Names
    BY <1>1, EmptySeq, LenProperties, ElementOfSeq
  <1> QED
    BY <1>2 DEF O, Elems

\* The one taken of a set is in it.
LEMMA OneOf == \A S : S # {} => First(S) \in S
  BY DEF First
-----------------------------------------------------------------------------
(* Where a process may be, and with what.                                  *)

Moving   == {"affected", "copy", "replace", "drop"}
Warming  == Moving \union {"advertise", "migrated", "invalidate", "reindex", "warm"}
Applying == {"put", "record", "undo"}

OpsOf(p) ==
  IF p = Server THEN {"boot"}
  ELSE IF p = Cli THEN {"apply", "force", "vocab", "relocate", "modular"}
  ELSE {"reset", "create", "replace", "delete"}

\* The calls that each operation makes.
On(op, call) ==
  \/ op = "boot"     /\ call \in Applying \union Warming \union {"check", "list", "read", "backfill", "publish"}
  \/ op = "apply"    /\ call \in Applying \union {"check"}
  \/ op = "force"    /\ call \in Applying \union {"wipe", "clear"}
  \/ op = "vocab"    /\ call \in Moving \union {"migrated"}
  \/ op = "relocate" /\ call \in Moving \union {"list", "read", "repoint"}
  \/ op = "modular"  /\ call \in {"reconcile", "orphans", "unlink", "retype"}
  \/ op = "reset"    /\ call \in Applying \union {"wipe", "clear", "publish", "advertise"}
  \/ op \in {"create", "replace"} /\ call \in {"ask", "change", "list", "read", "publish"}
  \/ op = "delete"   /\ call \in {"change", "list", "read", "publish"}

\* A graph that is empty is absent.
Solid(g) == g \in Graphs /\ (g.rev = 0 => g = Absent)

LengthOf(r) == Len(WriteOrder(Bundles[r.b]))

\* What a process holds at each call, of what it goes through.
Sized(r) ==
  /\ r.at \in {"check", "wipe", "clear"} => r.n = 1
  /\ r.at = "put"    => r.n \in 1 .. LengthOf(r)
  /\ r.at = "record" => r.n = LengthOf(r) + 1
  /\ r.at = "undo"   => r.n \in 0 .. LengthOf(r)
  /\ r.at \in {"read", "copy", "replace", "drop", "unlink", "ask", "change"} => r.todo # {}
  /\ r.at \in {"read", "unlink", "ask", "change"} => r.todo \subseteq Slugs

\* A process that is under way is at a call of its operation.
Routed(p, r) ==
  IF r.at \in Resting THEN r.op = "none" /\ (r.at = "idle" <=> p # Server)
  ELSE r.op \in OpsOf(p) /\ On(r.op, r.at) /\ (p = Server => r.b = 1)

Fits(p, r) ==
  /\ r \in Process /\ Solid(r.mem) /\ Sized(r) /\ Routed(p, r)
  /\ r.op \in {"create", "replace"} => r.rev # 0

StoreFits ==
  /\ graph \in [Names -> Graphs] /\ (\A n \in Names : Solid(graph[n]))
  /\ applied \in 0 .. Len(Bundles) /\ events \in 0 .. MaxEvents
  /\ alone \in [Procs -> BOOLEAN] /\ behind \in BOOLEAN

ProcsFit == proc \in [Procs -> Process] /\ \A p \in Procs : Fits(p, proc[p])

TInv == StoreFits /\ ProcsFit

\* What is typed so has its type.
LEMMA Typed == TInv => TypeOK
  BY DEF TInv, StoreFits, ProcsFit, Fits, Sized, LengthOf, Solid, TypeOK, Present, At, Order, Own,
         Process

\* No graph, and a process at rest.
LEMMA AtRest ==
  /\ Absent \in Graphs /\ Absent.rev = 0 /\ Absent.old = FALSE /\ Solid(Absent)
  /\ Idle \in Process /\ Idle.op = "none" /\ Idle.at = "idle" /\ Idle.b = 1 /\ Idle.n = 1
  /\ Idle.todo = {} /\ Idle.recs = [s \in Slugs |-> 0] /\ Idle.mem = Absent
  <1>1. Absent \in Graphs /\ Absent.rev = 0 /\ Absent.old = FALSE /\ Solid(Absent)
    BY Constants DEF Absent, Graphs, Solid
  <1>2. [s \in Slugs |-> 0] \in [Slugs -> Revs]
    BY Constants
  <1> QED
    BY <1>1, <1>2, Constants DEF Idle, Process, Resting, Calls, Ops

\* A process that ends, or is where it does not count, fits.
LEMMA RestFits ==
  ASSUME NEW p \in Procs, NEW call \in Resting, call = "idle" <=> p # Server
  PROVE  Fits(p, [Idle EXCEPT !.at = call])
  <1> DEFINE r == [Idle EXCEPT !.at = call]
  <1>1. r \in Process /\ r.at = call /\ r.op = "none" /\ r.mem = Absent
    BY AtRest DEF Process
  <1> HIDE DEF r
  <1>2. Fits(p, r)
    BY <1>1, AtRest DEF Fits, Sized, Routed, Resting
  <1> QED
    BY <1>2 DEF r

\* One that goes on to another call of its operation, with what it has.
LEMMA CallFits ==
  ASSUME NEW p \in Procs, NEW r, Fits(p, r), r.at \notin Resting,
         NEW call \in Calls, On(r.op, call),
         call \notin {"check", "wipe", "clear", "put", "record", "undo",
                       "read", "copy", "replace", "drop", "unlink", "ask", "change"}
           \/ Sized([r EXCEPT !.at = call])
  PROVE  Fits(p, [r EXCEPT !.at = call])
  <1> DEFINE t == [r EXCEPT !.at = call]
  <1>1. r \in Process
    BY DEF Fits
  <1>2. t \in Process /\ t.at = call /\ t.op = r.op /\ t.b = r.b /\ t.mem = r.mem /\ t.rev = r.rev
    BY <1>1 DEF Process
  <1>3. Sized(t)
    <2>1. CASE Sized(t)
      BY <2>1
    <2>2. CASE call \notin {"check", "wipe", "clear", "put", "record", "undo",
                                "read", "copy", "replace", "drop", "unlink", "ask", "change"}
      <3> HIDE DEF t
      <3> QED
        BY <1>2, <2>2 DEF Sized
    <2> QED
      BY <2>1, <2>2
  <1>4. call \notin Resting
    BY DEF Resting, Calls
  <1> HIDE DEF t
  <1>5. Fits(p, t)
    BY <1>2, <1>3, <1>4 DEF Fits, Routed
  <1> QED
    BY <1>5 DEF t

\* One process moves.
LEMMA Moves ==
  ASSUME ProcsFit, NEW p \in Procs, NEW r, Fits(p, r), Becomes(p, r)
  PROVE  /\ ProcsFit' /\ proc'[p] = r
         /\ \A q \in Procs : q # p => proc'[q] = proc[q]
  <1>1. r \in Process
    BY DEF Fits
  <1>2. proc' = [proc EXCEPT ![p] = r]
    BY DEF Becomes
  <1>3. /\ proc' \in [Procs -> Process] /\ proc'[p] = r
        /\ \A q \in Procs : q # p => proc'[q] = proc[q]
    BY <1>1, <1>2 DEF ProcsFit
  <1>4. \A q \in Procs : Fits(q, proc'[q])
    BY <1>3 DEF ProcsFit
  <1>5. \A q, t : Fits(q, t)' <=> Fits(q, t)
    BY DEF Fits, Sized, Routed, LengthOf, Solid
  <1> QED
    BY <1>3, <1>4, <1>5 DEF ProcsFit

\* A process goes on with the rest of its set.
LEMMA Onward ==
  ASSUME NEW p \in Procs, proc[p] \in Process, proc[p].todo # {}, NEW call \in Calls, NEW after \in Calls,
         NEW t, t = Further(p, call, after)
  PROVE  /\ Current(p) \in proc[p].todo /\ Current(p) \in Names
         /\ t \in Process /\ t.todo = proc[p].todo \ {Current(p)}
         /\ t.at = (IF t.todo = {} THEN after ELSE call)
         /\ t.op = Op(p) /\ t.b = proc[p].b /\ t.n = proc[p].n /\ t.recs = proc[p].recs
         /\ t.mem = proc[p].mem /\ t.rev = proc[p].rev
  <1> DEFINE r    == proc[p]
             S    == r.todo \ {Current(p)}
             next == IF r.todo = {Current(p)} THEN after ELSE call
  <1>1. Current(p) \in r.todo
    BY OneOf DEF Current
  <1>2. r.todo \in SUBSET Names
    BY DEF Process
  <1>3. S \in SUBSET Names /\ next \in Resting \union Calls /\ next = IF S = {} THEN after ELSE call
    BY <1>1, <1>2
  <1>4. t = [r EXCEPT !.todo = S, !.at = next]
    BY DEF Further
  <1>5. r \in Process
    OBVIOUS
  <1>6. r.op = Op(p)
    BY DEF Op
  <1> HIDE DEF next, S, r
  <1>7. /\ t \in Process /\ t.todo = S /\ t.at = next
        /\ t.op = r.op /\ t.b = r.b /\ t.n = r.n /\ t.recs = r.recs /\ t.mem = r.mem
        /\ t.rev = r.rev
    BY <1>3, <1>4, <1>5 DEF Process
  <1> QED
    BY <1>1, <1>2, <1>3, <1>6, <1>7 DEF r, S
-----------------------------------------------------------------------------
(* Each action keeps the shapes.                                           *)

\* A process ends.
LEMMA DoneFits == ASSUME NEW p \in Procs, Done(p) PROVE \E r : Fits(p, r) /\ Becomes(p, r)
  <1> DEFINE call == IF p = Server THEN "down" ELSE "idle"
  <1>1. call \in Resting /\ (call = "idle" <=> p # Server)
    BY DEF Resting
  <1>2. Becomes(p, [Idle EXCEPT !.at = call])
    BY DEF Done, Rest
  <1> HIDE DEF call
  <1> QED
    BY <1>1, <1>2, RestFits

\* A process goes on with what it has.
LEMMA GotoFits ==
  ASSUME NEW p \in Procs, Fits(p, proc[p]), Active(p), NEW call \in Calls, On(Op(p), call), Goto(p, call),
         call \notin {"check", "wipe", "clear", "put", "record", "undo",
                       "read", "copy", "replace", "drop", "unlink", "ask", "change"}
           \/ Sized([proc[p] EXCEPT !.at = call])
  PROVE  \E r : Fits(p, r) /\ Becomes(p, r)
  <1>1. Fits(p, [proc[p] EXCEPT !.at = call])
    BY CallFits DEF Active, At, Op
  <1> QED
    BY <1>1 DEF Goto

\* A graph is written, or dropped.
LEMMA PutGraph ==
  ASSUME StoreFits, NEW n, NEW v, Solid(v), graph' = [graph EXCEPT ![n] = v]
  PROVE  graph' \in [Names -> Graphs] /\ \A m \in Names : Solid(graph'[m])
  BY DEF StoreFits, Solid

\* Nothing but processes changes, and what is remembered.
LEMMA StaysFit ==
  ASSUME StoreFits, UNCHANGED <<graph, applied, alone, events>>, behind' \in BOOLEAN
  PROVE  StoreFits'
  BY DEF StoreFits, Solid

\* A graph of a bundle is solid.
LEMMA BundleSolid ==
  ASSUME NEW i \in DOMAIN Bundles
  PROVE  Solid([rev |-> i, old |-> FALSE])
  BY Constants DEF Solid, Graphs

\* What a process that is under way is.
LEMMA Doing ==
  ASSUME TInv, NEW p \in Procs
  PROVE  /\ StoreFits /\ ProcsFit /\ Fits(p, proc[p]) /\ proc[p] \in Process /\ Sized(proc[p])
         /\ proc[p].b \in DOMAIN Bundles /\ LengthOf(proc[p]) = Len(Order(p))
         /\ LengthOf(proc[p]) \in Nat \ {0}
         /\ Active(p) => Op(p) \in OpsOf(p) /\ On(Op(p), At(p)) /\ (p = Server => proc[p].b = 1)
  <1>1. StoreFits /\ ProcsFit /\ Fits(p, proc[p])
    BY DEF TInv, ProcsFit
  <1>2. proc[p] \in Process /\ Sized(proc[p]) /\ Routed(p, proc[p])
    BY <1>1 DEF Fits
  <1>3. proc[p].b \in DOMAIN Bundles
    BY <1>2 DEF Process
  <1>4. LengthOf(proc[p]) = Len(Order(p)) /\ LengthOf(proc[p]) \in Nat \ {0}
    BY <1>3, Numbered DEF LengthOf, Order, Own
  <1> QED
    BY <1>1, <1>2, <1>3, <1>4 DEF Routed, Active, At, Op

\* The check of an apply.
LEMMA CheckFits ==
  ASSUME TInv, NEW p \in Procs, CheckApplied(p)
  PROVE  StoreFits' /\ \E r : Fits(p, r) /\ Becomes(p, r)
  <1>1. At(p) = "check" /\ UNCHANGED <<graph, applied, alone, events, behind>>
    BY DEF CheckApplied
  <1>2. StoreFits'
    BY <1>1, Doing, StaysFit DEF StoreFits
  <1>3. Active(p) /\ Op(p) \in OpsOf(p) /\ On(Op(p), "check")
    BY <1>1, Doing DEF Active, Resting
  <1>4. On(Op(p), "put") /\ (p = Server => On(Op(p), "list"))
    BY <1>3 DEF On, Applying, Warming, Moving, OpsOf
  <1>5. CASE Goto(p, "list") /\ p = Server
    BY <1>2, <1>3, <1>4, <1>5, Doing, GotoFits DEF Calls
  <1>6. CASE Done(p)
    BY <1>2, <1>6, DoneFits
  <1>7. CASE Goto(p, "put")
    <2> DEFINE r == [proc[p] EXCEPT !.at = "put"]
    <2>1. proc[p].n = 1 /\ proc[p] \in Process
      BY <1>1, Doing DEF At, Sized
    <2>2. r.at = "put" /\ r.n = 1 /\ r.b = proc[p].b
      BY <2>1 DEF Process
    <2>3. 1 \in 1 .. LengthOf(proc[p])
      BY Doing
    <2> HIDE DEF r
    <2>4. Sized(r)
      BY <2>2, <2>3 DEF Sized, LengthOf
    <2> QED
      BY <1>2, <1>3, <1>4, <1>7, <2>4, Doing, GotoFits DEF Calls, r
  <1> QED
    BY <1>1, <1>2, <1>5, <1>6, <1>7 DEF CheckApplied

\* A process goes on with something more, of the same operation.
LEMMA GoesOn ==
  ASSUME TInv, NEW p \in Procs, Active(p), NEW r \in Process, Solid(r.mem), Sized(r),
         r.op = Op(p), r.b = proc[p].b, r.rev = proc[p].rev, r.at \in Calls, On(Op(p), r.at)
  PROVE  Fits(p, r)
  BY Doing DEF Fits, Routed, Op, Resting, Calls

\* A graph is put, and the next one is its turn, or the row.
LEMMA PutFits ==
  ASSUME TInv, NEW p \in Procs, Put(p)
  PROVE  StoreFits' /\ \E r : Fits(p, r) /\ Becomes(p, r)
  <1> DEFINE r == [proc[p] EXCEPT !.n = proc[p].n + 1,
                                  !.at = IF proc[p].n = Len(Order(p)) THEN "record" ELSE "put"]
  <1>1. /\ At(p) = "put" /\ Store(p, PutArtifact(p)) /\ UNCHANGED <<applied, alone, events>>
        /\ Becomes(p, r)
    BY DEF Put
  <1>2. /\ proc[p] \in Process /\ proc[p].n \in 1 .. Len(Order(p)) /\ Len(Order(p)) \in Nat
        /\ LengthOf(proc[p]) = Len(Order(p)) /\ Solid(proc[p].mem)
    BY <1>1, Doing DEF At, Sized, Fits
  <1>3. r \in Process /\ r.n = proc[p].n + 1 /\ r.b = proc[p].b /\ r.mem = proc[p].mem /\ r.op = Op(p)
        /\ r.rev = proc[p].rev /\ r.at = IF proc[p].n = Len(Order(p)) THEN "record" ELSE "put"
    <2> DEFINE k == proc[p].n + 1
               call == IF proc[p].n = Len(Order(p)) THEN "record" ELSE "put"
    <2>1. k \in Nat /\ call \in Resting \union Calls /\ proc[p] \in Process
      BY <1>2 DEF Calls
    <2>2. r = [proc[p] EXCEPT !.n = k, !.at = call]
      OBVIOUS
    <2> HIDE DEF k, call, r
    <2>3. /\ r \in Process /\ r.n = k /\ r.at = call
          /\ r.op = proc[p].op /\ r.b = proc[p].b /\ r.mem = proc[p].mem /\ r.rev = proc[p].rev
      BY <2>1, <2>2 DEF Process
    <2> QED
      BY <2>3 DEF k, call, Op
  <1>4. Active(p) /\ On(Op(p), "put") /\ On(Op(p), "record")
    BY <1>1, Doing DEF Active, Resting, On, Applying, Warming, Moving
  <1>5. StoreFits'
    <2>1. Solid([rev |-> proc[p].b, old |-> FALSE])
      BY Doing, BundleSolid
    <2>2. graph' \in [Names -> Graphs] /\ \A m \in Names : Solid(graph'[m])
      BY <1>1, <2>1, Doing, PutGraph DEF Store, PutArtifact
    <2> QED
      BY <1>1, <2>2, Doing DEF StoreFits, Store
  <1> HIDE DEF r
  <1>6. LengthOf(r) = LengthOf(proc[p])
    BY <1>3 DEF LengthOf
  <1>7. Sized(r)
    BY <1>2, <1>3, <1>6 DEF Sized
  <1>8. Fits(p, r)
    BY <1>2, <1>3, <1>4, <1>7, GoesOn DEF Calls
  <1> QED
    BY <1>1, <1>5, <1>8

\* The row is inserted, or the graphs are dropped again.
LEMMA RecordFits ==
  ASSUME TInv, NEW p \in Procs, Record(p)
  PROVE  StoreFits' /\ \E r : Fits(p, r) /\ Becomes(p, r)
  <1>1. At(p) = "record" /\ UNCHANGED <<graph, alone, events>> /\ applied' \in {applied, proc[p].b}
        /\ behind' \in BOOLEAN
    BY Doing DEF Record, StoreFits
  <1>2. /\ proc[p] \in Process /\ proc[p].n = Len(Order(p)) + 1 /\ Len(Order(p)) \in Nat
        /\ LengthOf(proc[p]) = Len(Order(p)) /\ Solid(proc[p].mem) /\ proc[p].b \in DOMAIN Bundles
    BY <1>1, Doing DEF At, Sized, Fits
  <1>3. StoreFits'
    BY <1>1, <1>2, Constants, Doing DEF StoreFits, Solid
  <1>4. Active(p) /\ On(Op(p), "undo") /\ Op(p) \in OpsOf(p) /\ On(Op(p), "record")
    BY <1>1, Doing DEF Active, Resting, On, Applying, Warming, Moving
  <1>5. CASE Done(p)
    BY <1>3, <1>5, DoneFits
  <1>6. CASE /\ p # Cli
             /\ Becomes(p, [proc[p] EXCEPT !.recs = Manifest(proc[p].b), !.at = AfterRecord(p)])
    <2> DEFINE r == [proc[p] EXCEPT !.recs = Manifest(proc[p].b), !.at = AfterRecord(p)]
    <2>1. Manifest(proc[p].b) \in [Slugs -> Revs] /\ AfterRecord(p) \in {"backfill", "publish"}
      BY <1>2, Constants DEF Manifest, AfterRecord
    <2>2. r \in Process /\ r.n = proc[p].n /\ r.b = proc[p].b /\ r.mem = proc[p].mem /\ r.op = Op(p)
          /\ r.rev = proc[p].rev /\ r.at = AfterRecord(p)
      BY <1>2, <2>1 DEF Process, Calls, Op
    <2>3. On(Op(p), AfterRecord(p))
      BY <1>4, <1>6, Who DEF On, AfterRecord, OpsOf, Applying, Warming, Moving
    <2> HIDE DEF r
    <2>4. Sized(r)
      BY <2>1, <2>2 DEF Sized
    <2>5. Fits(p, r)
      BY <1>2, <1>4, <2>1, <2>2, <2>3, <2>4, GoesOn DEF Calls
    <2> QED
      BY <1>3, <1>6, <2>5 DEF r
  <1>7. CASE Compensate(p, Written(p))
    <2> DEFINE r == [proc[p] EXCEPT !.n = Written(p), !.at = "undo"]
    <2>1. Written(p) \in 0 .. Len(Order(p)) /\ Becomes(p, r)
      BY <1>2, <1>7 DEF Written, Compensate
    <2>2. r \in Process /\ r.n = Written(p) /\ r.b = proc[p].b /\ r.mem = proc[p].mem /\ r.op = Op(p)
          /\ r.rev = proc[p].rev /\ r.at = "undo"
      <3>1. /\ Written(p) \in Nat /\ "undo" \in Resting \union Calls
            /\ r = [proc[p] EXCEPT !.n = Written(p), !.at = "undo"]
        BY <1>2, <2>1 DEF Calls
      <3> HIDE DEF r
      <3>2. /\ r \in Process /\ r.n = Written(p) /\ r.at = "undo"
            /\ r.op = proc[p].op /\ r.b = proc[p].b /\ r.mem = proc[p].mem /\ r.rev = proc[p].rev
        BY <1>2, <3>1 DEF Process
      <3> QED
        BY <3>2 DEF Op
    <2> HIDE DEF r
    <2>3. Sized(r)
      BY <1>2, <2>1, <2>2 DEF Sized, LengthOf
    <2>4. Fits(p, r)
      BY <1>2, <1>4, <2>2, <2>3, GoesOn DEF Calls
    <2> QED
      BY <1>3, <2>1, <2>4
  <1> QED
    BY <1>3, <1>5, <1>6, <1>7 DEF Record

\* A graph is dropped in reverse.
LEMMA UndoFits ==
  ASSUME TInv, NEW p \in Procs, Undo(p)
  PROVE  StoreFits' /\ \E r : Fits(p, r) /\ Becomes(p, r)
  <1>1. At(p) = "undo" /\ UNCHANGED <<applied, alone, events>>
    BY DEF Undo
  <1>2. /\ proc[p] \in Process /\ proc[p].n \in 0 .. Len(Order(p)) /\ Len(Order(p)) \in Nat
        /\ LengthOf(proc[p]) = Len(Order(p)) /\ Solid(proc[p].mem)
    BY <1>1, Doing DEF At, Sized, Fits
  <1>3. CASE proc[p].n = 0
    <2>1. Done(p) /\ UNCHANGED <<graph, behind>>
      BY <1>3 DEF Undo
    <2>2. StoreFits'
      BY <1>1, <2>1, Doing, StaysFit DEF StoreFits
    <2> QED
      BY <2>1, <2>2, DoneFits
  <1>4. CASE proc[p].n # 0
    <2> DEFINE r == [proc[p] EXCEPT !.n = proc[p].n - 1]
    <2>1. Store(p, [graph EXCEPT ![Order(p)[proc[p].n]] = Absent]) /\ Becomes(p, r)
      BY <1>4 DEF Undo
    <2>2. StoreFits'
      <3>1. graph' \in [Names -> Graphs] /\ \A m \in Names : Solid(graph'[m])
        BY <2>1, AtRest, Doing, PutGraph DEF Store
      <3> QED
        BY <1>1, <2>1, <3>1, Doing DEF StoreFits, Store
    <2>3. r \in Process /\ r.n = proc[p].n - 1 /\ r.b = proc[p].b /\ r.mem = proc[p].mem /\ r.op = Op(p)
          /\ r.rev = proc[p].rev /\ r.at = "undo"
      BY <1>1, <1>2, <1>4 DEF Process, Calls, Op, At
    <2> HIDE DEF r
    <2>4. Sized(r)
      BY <1>2, <1>4, <2>3 DEF Sized, LengthOf
    <2>5. Active(p) /\ On(Op(p), "undo")
      BY <1>1, Doing DEF Active, Resting
    <2>6. Fits(p, r)
      BY <1>2, <2>3, <2>4, <2>5, GoesOn DEF Calls
    <2> QED
      BY <2>1, <2>2, <2>6
  <1> QED
    BY <1>3, <1>4

\* Everything is dropped, and the row is.
LEMMA WipeFits ==
  ASSUME TInv, NEW p \in Procs, Wipe(p) \/ Clear(p)
  PROVE  StoreFits' /\ \E r : Fits(p, r) /\ Becomes(p, r)
  <1>1. At(p) \in {"wipe", "clear"} /\ UNCHANGED <<alone, events>> /\ applied' \in {0, applied}
        /\ graph' \in {Fresh, graph} /\ behind' \in BOOLEAN
    BY Doing DEF Wipe, Clear, Store, StoreFits
  <1>2. StoreFits'
    BY <1>1, AtRest, Constants, Doing DEF StoreFits, Fresh, Solid
  <1>3. /\ Active(p) /\ On(Op(p), "clear") /\ On(Op(p), "put") /\ proc[p].n = 1
        /\ proc[p] \in Process
    BY <1>1, Doing DEF Active, Resting, On, Applying, Warming, Moving, Sized, At
  <1>4. ASSUME NEW call \in {"clear", "put"} PROVE Sized([proc[p] EXCEPT !.at = call])
    <2> DEFINE r == [proc[p] EXCEPT !.at = call]
    <2>1. r.at = call /\ r.n = 1 /\ r.b = proc[p].b
      BY <1>3 DEF Process
    <2>2. 1 \in 1 .. LengthOf(proc[p])
      BY Doing
    <2> HIDE DEF r
    <2>3. Sized(r)
      BY <2>1, <2>2 DEF Sized, LengthOf
    <2> QED
      BY <2>3 DEF r
  <1>5. CASE Goto(p, "clear")
    BY <1>2, <1>3, <1>4, <1>5, Doing, GotoFits DEF Calls
  <1>6. CASE Goto(p, "put")
    BY <1>2, <1>3, <1>4, <1>6, Doing, GotoFits DEF Calls
  <1>7. CASE Done(p)
    BY <1>2, <1>7, DoneFits
  <1> QED
    BY <1>5, <1>6, <1>7 DEF Wipe, Clear

\* The definitions that the store lists, and their revisions.
LEMMA Defining ==
  ASSUME StoreFits
  PROVE  /\ Listed \subseteq Slugs /\ Listed \subseteq Names
         /\ \A s \in Slugs : Definitions[s] \in Revs /\ (Definitions[s] # 0 => graph[s].rev = Definitions[s] /\ ~graph[s].old)
  BY NamesApart, Constants DEF StoreFits, Graphs, Listed, Definitions

\* The definitions are listed.
LEMMA ListFits ==
  ASSUME TInv, NEW p \in Procs, List(p)
  PROVE  StoreFits' /\ \E r : Fits(p, r) /\ Becomes(p, r)
  <1> DEFINE none == [s \in Slugs |-> 0]
             call == IF Listed = {} THEN AfterRead(p) ELSE "read"
             r == [proc[p] EXCEPT !.todo = Listed, !.recs = none, !.at = call]
  <1>1. /\ At(p) = "list" /\ UNCHANGED <<graph, applied, alone, events>> /\ behind' \in BOOLEAN
        /\ Becomes(p, r)
    BY Doing DEF List, StoreFits
  <1>2. /\ Active(p) /\ On(Op(p), "list") /\ Op(p) \in OpsOf(p) /\ proc[p] \in Process
        /\ Solid(proc[p].mem)
    BY <1>1, Doing DEF Active, Resting, Fits
  <1>3. none \in [Slugs -> Revs] /\ Listed \in SUBSET Names /\ Listed \subseteq Slugs
    BY Constants, Doing, Defining
  <1>4. /\ call \in Calls /\ (call = "read" <=> Listed # {})
        /\ call \in {"read", "repoint", "publish"}
    BY DEF AfterRead, Calls
  <1>5. On(Op(p), call)
    BY <1>2 DEF On, AfterRead, Applying, Warming, Moving
  <1> HIDE DEF none, call
  <1>6. r \in Process /\ r.todo = Listed /\ r.at = call /\ r.op = Op(p) /\ r.b = proc[p].b /\ r.mem = proc[p].mem
        /\ r.rev = proc[p].rev
    BY <1>2, <1>3, <1>4 DEF Process, Op
  <1> HIDE DEF r
  <1>7. Sized(r)
    BY <1>3, <1>4, <1>6 DEF Sized
  <1>8. Fits(p, r)
    BY <1>2, <1>4, <1>5, <1>6, <1>7, GoesOn
  <1>9. StoreFits'
    BY <1>1, Doing, StaysFit
  <1> QED
    BY <1>1, <1>8, <1>9

\* A definition is read.
LEMMA ReadFits ==
  ASSUME TInv, NEW p \in Procs, Read(p)
  PROVE  StoreFits' /\ \E r : Fits(p, r) /\ Becomes(p, r)
  <1>1. At(p) = "read" /\ UNCHANGED <<graph, applied, alone, events>> /\ behind' \in BOOLEAN
    BY Doing DEF Read, StoreFits
  <1>2. StoreFits'
    BY <1>1, Doing, StaysFit
  <1>3. /\ Active(p) /\ On(Op(p), "read") /\ proc[p] \in Process /\ Solid(proc[p].mem)
        /\ proc[p].todo # {} /\ proc[p].todo \subseteq Slugs
    BY <1>1, Doing DEF Active, Resting, Fits, Sized, At
  <1>4. CASE Done(p)
    BY <1>2, <1>4, DoneFits
  <1>5. CASE ~Done(p)
    <2> DEFINE f == Further(p, "read", AfterRead(p))
               d == [proc[p].recs EXCEPT ![Current(p)] = Definitions[Current(p)]]
               r == [f EXCEPT !.recs = d]
    <2>1. Becomes(p, r)
      BY <1>5 DEF Read
    <2>2. AfterRead(p) \in {"repoint", "publish"} /\ AfterRead(p) \in Calls /\ "read" \in Calls
          /\ On(Op(p), AfterRead(p))
      BY <1>3 DEF AfterRead, Calls, On, Applying, Warming, Moving
    <2>3. /\ Current(p) \in proc[p].todo /\ f \in Process /\ f.todo = proc[p].todo \ {Current(p)}
          /\ f.at = (IF f.todo = {} THEN AfterRead(p) ELSE "read")
          /\ f.op = Op(p) /\ f.b = proc[p].b /\ f.mem = proc[p].mem /\ f.rev = proc[p].rev
      BY <1>3, <2>2, Onward
    <2>4. d \in [Slugs -> Revs]
      <3>1. proc[p].recs \in [Slugs -> Revs]
        BY <1>3 DEF Process
      <3>2. Definitions[Current(p)] \in Revs
        BY <1>3, <2>3, Doing, Defining
      <3> QED
        BY <3>1, <3>2
    <2> HIDE DEF f, d
    <2>5. /\ r \in Process /\ r.todo = f.todo /\ r.at = f.at /\ r.op = f.op /\ r.b = f.b
          /\ r.mem = f.mem /\ r.rev = f.rev
      BY <2>3, <2>4 DEF Process
    <2> HIDE DEF r
    <2>6. Sized(r)
      BY <1>3, <2>2, <2>3, <2>5 DEF Sized
    <2>7. Fits(p, r)
      BY <1>3, <2>2, <2>3, <2>5, <2>6, GoesOn
    <2> QED
      BY <1>2, <2>1, <2>7
  <1> QED
    BY <1>4, <1>5

\* The cache is published, and the root record has its advertisement.
LEMMA PublishFits ==
  ASSUME TInv, NEW p \in Procs, Publish(p) \/ Advertise(p)
  PROVE  StoreFits' /\ \E r : Fits(p, r) /\ Becomes(p, r)
  <1>1. /\ At(p) \in {"publish", "advertise"} /\ UNCHANGED <<graph, applied, alone, events>>
        /\ behind' \in BOOLEAN
        /\ \/ Done(p)
           \/ Goto(p, "advertise") /\ (p = Server \/ Op(p) = "reset")
           \/ Goto(p, "affected") /\ p = Server
    BY Doing DEF Publish, Advertise, StoreFits
  <1>2. StoreFits'
    BY <1>1, Doing, StaysFit
  <1>3. Active(p) /\ Op(p) \in OpsOf(p) /\ Fits(p, proc[p])
    BY <1>1, Doing DEF Active, Resting
  <1>4. CASE Done(p)
    BY <1>2, <1>4, DoneFits
  <1>5. CASE Goto(p, "advertise") /\ (p = Server \/ Op(p) = "reset")
    <2>1. On(Op(p), "advertise")
      BY <1>3, <1>5 DEF On, OpsOf, Warming
    <2> QED
      BY <1>2, <1>3, <1>5, <2>1, GotoFits DEF Calls
  <1>6. CASE Goto(p, "affected") /\ p = Server
    <2>1. On(Op(p), "affected")
      BY <1>3, <1>6 DEF On, OpsOf, Warming, Moving
    <2> QED
      BY <1>2, <1>3, <1>6, <2>1, GotoFits DEF Calls
  <1> QED
    BY <1>1, <1>4, <1>5, <1>6

\* What only the start of the server does.
LEMMA StartFits ==
  ASSUME TInv, BackfillConformance \/ RebuildDerived \/ Serve
  PROVE  StoreFits' /\ \E r : Fits(Server, r) /\ Becomes(Server, r)
  <1>1. /\ At(Server) \in {"backfill", "invalidate", "reindex", "warm"}
        /\ UNCHANGED <<graph, applied, alone, events, behind>>
        /\ Rest(Server, "serving") \/ \E call \in {"publish", "reindex", "warm"} : Goto(Server, call)
    BY DEF BackfillConformance, RebuildDerived, Serve
  <1>2. StoreFits'
    BY <1>1, Doing, StaysFit, Who DEF StoreFits
  <1>3. /\ Active(Server) /\ Op(Server) \in OpsOf(Server) /\ Fits(Server, proc[Server])
        /\ Server \in Procs
    BY <1>1, Doing, Who DEF Active, Resting
  <1>4. ASSUME NEW call \in {"publish", "reindex", "warm"}, Goto(Server, call)
        PROVE  \E r : Fits(Server, r) /\ Becomes(Server, r)
    <2>1. On(Op(Server), call) /\ call \in Calls
          /\ call \notin {"check", "wipe", "clear", "put", "record", "undo",
                          "read", "copy", "replace", "drop", "unlink", "ask", "change"}
      BY <1>3 DEF On, OpsOf, Warming, Calls
    <2> QED
      BY <1>3, <1>4, <2>1, GotoFits
  <1>5. ASSUME Rest(Server, "serving") PROVE \E r : Fits(Server, r) /\ Becomes(Server, r)
    BY <1>3, <1>5, RestFits DEF Rest, Resting
  <1> QED
    BY <1>1, <1>2, <1>4, <1>5

\* Where a migration may go: from graph to graph, and on.
LEMMA MovesOn ==
  ASSUME TInv, NEW p \in Procs, At(p) \in Moving
  PROVE  /\ Active(p) /\ proc[p] \in Process /\ Solid(proc[p].mem) /\ Sized(proc[p])
         /\ Op(p) \in OpsOf(p)
         /\ \A call \in Moving : On(Op(p), call) /\ call \in Calls
         /\ On(Op(p), AfterMigration(p)) /\ AfterMigration(p) \in Calls
         /\ AfterMigration(p) \in {"list", "migrated"}
  BY Doing DEF Moving, Active, Resting, Calls, On, Applying, Warming, AfterMigration, OpsOf, Fits

\* What a migration goes through is asked for.
LEMMA AffectedFits ==
  ASSUME TInv, NEW p \in Procs, Affected(p)
  PROVE  StoreFits' /\ \E r : Fits(p, r) /\ Becomes(p, r)
  <1> DEFINE S == ToMigrate(p)
             k == IF S = {} THEN 0 ELSE 1
             call == IF S = {} THEN AfterMigration(p) ELSE "copy"
             r == [proc[p] EXCEPT !.todo = S, !.n = k, !.at = call]
  <1>1. At(p) = "affected" /\ UNCHANGED <<graph, applied, alone, events, behind>> /\ Becomes(p, r)
    BY DEF Affected
  <1>2. StoreFits'
    BY <1>1, Doing, StaysFit DEF StoreFits
  <1>3. /\ S \in SUBSET Names /\ k \in Nat /\ call \in Calls /\ (call = "copy" <=> S # {})
        /\ call \in {"copy", "list", "migrated"}
    <2>1. S \in SUBSET Names
      BY NamesApart DEF ToMigrate, Older
    <2> QED
      BY <2>1 DEF AfterMigration, Calls
  <1>4. Active(p) /\ proc[p] \in Process /\ Solid(proc[p].mem) /\ On(Op(p), call)
    BY <1>1, MovesOn DEF Moving
  <1> HIDE DEF S, k, call
  <1>5. r \in Process /\ r.todo = S /\ r.at = call /\ r.op = Op(p) /\ r.b = proc[p].b /\ r.mem = proc[p].mem
        /\ r.rev = proc[p].rev
    BY <1>3, <1>4 DEF Process, Op
  <1> HIDE DEF r
  <1>6. Sized(r)
    BY <1>3, <1>5 DEF Sized
  <1>7. Fits(p, r)
    BY <1>3, <1>4, <1>5, <1>6, GoesOn
  <1> QED
    BY <1>1, <1>2, <1>7

\* A migration goes on with the next graph.
LEMMA NextFits ==
  ASSUME TInv, NEW p \in Procs, At(p) \in {"copy", "replace", "drop"}, NextGraph(p)
  PROVE  \E r : Fits(p, r) /\ Becomes(p, r)
  <1> DEFINE r == Further(p, "copy", AfterMigration(p))
  <1>1. At(p) \in Moving /\ Becomes(p, r)
    BY DEF Moving, NextGraph
  <1>2. Active(p) /\ proc[p] \in Process /\ Solid(proc[p].mem) /\ proc[p].todo # {}
        /\ On(Op(p), AfterMigration(p)) /\ AfterMigration(p) \in Calls
        /\ AfterMigration(p) \in {"list", "migrated"}
        /\ On(Op(p), "copy") /\ "copy" \in Calls
    BY <1>1, MovesOn DEF Sized, At, Moving
  <1>3. r \in Process /\ r.at = (IF r.todo = {} THEN AfterMigration(p) ELSE "copy")
        /\ r.op = Op(p) /\ r.b = proc[p].b /\ r.mem = proc[p].mem /\ r.rev = proc[p].rev
    BY <1>2, Onward
  <1> HIDE DEF r
  <1>4. Sized(r)
    BY <1>2, <1>3 DEF Sized
  <1>5. Fits(p, r)
    BY <1>2, <1>3, <1>4, GoesOn
  <1> QED
    BY <1>1, <1>5

\* A graph is read, or passed over.
LEMMA CopyFits ==
  ASSUME TInv, NEW p \in Procs, Copy(p)
  PROVE  StoreFits' /\ \E r : Fits(p, r) /\ Becomes(p, r)
  <1>1. At(p) = "copy" /\ UNCHANGED <<graph, applied, alone, events, behind>>
    BY DEF Copy
  <1>2. StoreFits'
    BY <1>1, Doing, StaysFit DEF StoreFits
  <1>3. CASE NextGraph(p)
    BY <1>1, <1>2, <1>3, NextFits
  <1>4. CASE ~NextGraph(p)
    <2> DEFINE g == graph[Current(p)]
               r == [proc[p] EXCEPT !.mem = g, !.at = "replace"]
    <2>1. Becomes(p, r)
      BY <1>4 DEF Copy
    <2>2. /\ Active(p) /\ proc[p] \in Process /\ proc[p].todo # {} /\ On(Op(p), "replace")
          /\ "replace" \in Calls
      BY <1>1, MovesOn DEF Moving, Sized, At
    <2>3. Current(p) \in Names /\ Solid(g)
      <3>1. Current(p) \in Names
        BY <2>2, OneOf DEF Current, Process
      <3> QED
        BY <3>1, Doing DEF StoreFits
    <2> HIDE DEF g
    <2>4. r \in Process /\ r.todo = proc[p].todo /\ r.at = "replace" /\ r.op = Op(p) /\ r.b = proc[p].b /\ r.mem = g
          /\ r.rev = proc[p].rev
      BY <2>2, <2>3 DEF Process, Op, Solid
    <2> HIDE DEF r
    <2>5. Sized(r)
      BY <2>2, <2>4 DEF Sized
    <2>6. Fits(p, r)
      BY <2>2, <2>3, <2>4, <2>5, GoesOn
    <2> QED
      BY <1>2, <2>1, <2>6
  <1> QED
    BY <1>3, <1>4

\* What is written in a graph's place.
LEMMA RewrittenSolid ==
  ASSUME NEW p \in Procs, Solid(proc[p].mem)
  PROVE  /\ Solid(Rewritten(p)) /\ Rewritten(p).rev = proc[p].mem.rev
         /\ Op(p) # "relocate" => Rewritten(p).old = FALSE
  <1> DEFINE m == proc[p].mem
  <1>1. m \in Graphs /\ (m.rev = 0 => m = Absent)
    BY DEF Solid
  <1> HIDE DEF m
  <1>2. /\ [m EXCEPT !.old = FALSE] \in Graphs /\ [m EXCEPT !.old = FALSE].rev = m.rev
        /\ [m EXCEPT !.old = FALSE].old = FALSE
    BY <1>1 DEF Graphs
  <1> DEFINE w == [m EXCEPT !.old = FALSE]
  <1> HIDE DEF w
  <1>3. w \in Graphs /\ w.rev = m.rev /\ w.old = FALSE
    BY <1>2 DEF w
  <1>4. m.rev = 0 => w = Absent
    <2>1. w = [rev |-> w.rev, old |-> w.old]
      BY <1>3 DEF Graphs
    <2> QED
      BY <1>3, <2>1 DEF Absent
  <1>5. Rewritten(p) = IF Op(p) = "relocate" THEN m ELSE w
    BY DEF Rewritten, m, w
  <1> QED
    BY <1>1, <1>3, <1>4, <1>5 DEF Solid, m

\* A graph is written to its place, or dropped where it was.
LEMMA ReplaceFits ==
  ASSUME TInv, NEW p \in Procs, Replace(p) \/ DropOld(p)
  PROVE  StoreFits' /\ \E r : Fits(p, r) /\ Becomes(p, r)
  <1>1. /\ At(p) \in {"replace", "drop"} /\ UNCHANGED <<applied, alone, events>>
        /\ Store(p, Replaced(p)) \/ Store(p, [graph EXCEPT ![Current(p)] = Absent])
        /\ NextGraph(p) \/ Goto(p, "drop")
    BY DEF Replace, DropOld
  <1>2. Active(p) /\ proc[p] \in Process /\ Solid(proc[p].mem) /\ Sized(proc[p]) /\ On(Op(p), "drop") /\ "drop" \in Calls
        /\ proc[p].todo # {} /\ Fits(p, proc[p])
    BY <1>1, MovesOn, Doing DEF Moving, Sized, At
  <1>3. StoreFits'
    <2>1. Solid(Rewritten(p)) /\ Solid(Absent)
      BY <1>2, RewrittenSolid, AtRest
    <2>2. graph' \in [Names -> Graphs] /\ \A m \in Names : Solid(graph'[m])
      <3>1. CASE Store(p, Replaced(p))
        BY <2>1, <3>1, Doing, PutGraph DEF Store, Replaced
      <3>2. CASE Store(p, [graph EXCEPT ![Current(p)] = Absent])
        BY <2>1, <3>2, Doing, PutGraph DEF Store
      <3> QED
        BY <1>1, <3>1, <3>2
    <2> QED
      BY <1>1, <2>2, Doing DEF StoreFits, Store
  <1>4. CASE NextGraph(p)
    BY <1>1, <1>3, <1>4, NextFits
  <1>5. CASE Goto(p, "drop")
    <2> DEFINE r == [proc[p] EXCEPT !.at = "drop"]
    <2>1. r.at = "drop" /\ r.todo # {}
      BY <1>2 DEF Process
    <2> HIDE DEF r
    <2>2. Sized(r)
      BY <2>1 DEF Sized
    <2> QED
      BY <1>2, <1>3, <1>5, <2>2, GotoFits DEF r
  <1> QED
    BY <1>1, <1>4, <1>5

\* A migration ends.
LEMMA EndFits ==
  ASSUME TInv, NEW p \in Procs, EndMigration(p)
  PROVE  StoreFits' /\ \E r : Fits(p, r) /\ Becomes(p, r)
  <1>1. /\ At(p) = "migrated" /\ UNCHANGED <<graph, applied, alone, events, behind>>
        /\ Done(p) \/ (p = Server /\ (Goto(p, "warm") \/ Goto(p, "invalidate")))
    BY DEF EndMigration
  <1>2. StoreFits'
    BY <1>1, Doing, StaysFit DEF StoreFits
  <1>3. Active(p) /\ Op(p) \in OpsOf(p) /\ Fits(p, proc[p])
    BY <1>1, Doing DEF Active, Resting
  <1>4. CASE Done(p)
    BY <1>2, <1>4, DoneFits
  <1>5. CASE p = Server /\ (Goto(p, "warm") \/ Goto(p, "invalidate"))
    <2>1. On(Op(p), "warm") /\ On(Op(p), "invalidate")
      BY <1>3, <1>5 DEF On, OpsOf, Warming
    <2> QED
      BY <1>2, <1>3, <1>5, <2>1, GotoFits DEF Calls
  <1> QED
    BY <1>1, <1>4, <1>5

\* A definition is written back.
LEMMA RepointFits ==
  ASSUME TInv, NEW p \in Procs, Repoint(p)
  PROVE  StoreFits' /\ \E r : Fits(p, r) /\ Becomes(p, r)
  <1> DEFINE todo == {s \in Slugs : proc[p].recs[s] # 0}
  <1>1. At(p) = "repoint" /\ UNCHANGED <<applied, alone, events>>
    BY DEF Repoint
  <1>2. Active(p) /\ On(Op(p), "repoint") /\ proc[p] \in Process /\ Solid(proc[p].mem)
    BY <1>1, Doing DEF Active, Resting, Fits
  <1>3. CASE todo = {}
    <2>1. Done(p) /\ UNCHANGED <<graph, behind>>
      BY <1>3 DEF Repoint
    <2>2. StoreFits'
      BY <1>1, <2>1, Doing, StaysFit DEF StoreFits
    <2> QED
      BY <2>1, <2>2, DoneFits
  <1>4. CASE todo # {}
    <2> DEFINE s == First(todo)
               d == [proc[p].recs EXCEPT ![s] = 0]
               v == [rev |-> proc[p].recs[s], old |-> FALSE]
               r == [proc[p] EXCEPT !.recs = d]
    <2>1. Store(p, [graph EXCEPT ![s] = v]) /\ Becomes(p, r)
      BY <1>4 DEF Repoint
    <2>2. s \in Slugs /\ proc[p].recs[s] # 0
      <3>1. s \in todo
        BY <1>4, OneOf
      <3> HIDE DEF s
      <3> QED
        BY <3>1
    <2>3. proc[p].recs \in [Slugs -> Revs]
      BY <1>2 DEF Process
    <2>4. d \in [Slugs -> Revs] /\ Solid(v)
      <3> HIDE DEF s
      <3> QED
        BY <2>2, <2>3, Constants DEF Solid, Graphs
    <2> HIDE DEF s, d, v
    <2>5. r \in Process /\ r.at = "repoint" /\ r.op = Op(p) /\ r.b = proc[p].b /\ r.mem = proc[p].mem
          /\ r.rev = proc[p].rev
      BY <1>1, <1>2, <2>4 DEF Process, Op, At
    <2> HIDE DEF r
    <2>6. Sized(r)
      BY <2>5 DEF Sized
    <2>7. Fits(p, r)
      BY <1>2, <2>5, <2>6, GoesOn DEF Calls
    <2>8. graph' \in [Names -> Graphs] /\ \A m \in Names : Solid(graph'[m])
      BY <2>1, <2>4, Doing, PutGraph DEF Store
    <2>9. StoreFits'
      BY <1>1, <2>1, <2>8, Doing DEF StoreFits, Store
    <2> QED
      BY <2>1, <2>7, <2>9
  <1> QED
    BY <1>3, <1>4

\* A definition, or a schema, is written as the bundle has it, and the next one is its turn.
LEMMA ReconcileFits ==
  ASSUME TInv, NEW p \in Procs, Reconcile(p)
  PROVE  StoreFits' /\ \E r : Fits(p, r) /\ Becomes(p, r)
  <1> DEFINE k == proc[p].n + 1
             call == IF proc[p].n = Len(Reconciled(p)) THEN "orphans" ELSE "reconcile"
             r == [proc[p] EXCEPT !.n = k, !.at = call]
             v == [rev |-> proc[p].b, old |-> FALSE]
  <1>1. At(p) = "reconcile" /\ UNCHANGED <<applied, alone, events>> /\ Becomes(p, r)
        /\ (graph' = graph \/ \E n : graph' = [graph EXCEPT ![n] = v])
    BY DEF Reconcile, Store
  <1>2. behind' \in BOOLEAN
    BY Doing DEF Reconcile, Store, StoreFits
  <1>3. /\ Active(p) /\ On(Op(p), "reconcile") /\ On(Op(p), "orphans") /\ proc[p] \in Process
        /\ Solid(proc[p].mem)
    BY <1>1, Doing DEF Active, Resting, Fits, On, Applying, Warming, Moving
  <1>4. /\ k \in Nat /\ call \in Calls /\ call \in {"orphans", "reconcile"} /\ On(Op(p), call)
        /\ Solid(v)
    BY <1>3, Doing, BundleSolid DEF Process, Calls
  <1> HIDE DEF k, call, v
  <1>5. /\ r \in Process /\ r.at = call /\ r.op = Op(p) /\ r.b = proc[p].b /\ r.mem = proc[p].mem
        /\ r.rev = proc[p].rev
    BY <1>3, <1>4 DEF Process, Op
  <1> HIDE DEF r
  <1>6. Sized(r)
    BY <1>4, <1>5 DEF Sized
  <1>7. Fits(p, r)
    BY <1>3, <1>4, <1>5, <1>6, GoesOn
  <1>8. graph' \in [Names -> Graphs] /\ \A m \in Names : Solid(graph'[m])
    <2>1. CASE graph' = graph
      BY <2>1, Doing DEF StoreFits
    <2>2. ASSUME NEW n, graph' = [graph EXCEPT ![n] = v]
          PROVE  graph' \in [Names -> Graphs] /\ \A m \in Names : Solid(graph'[m])
      BY <1>4, <2>2, Doing, PutGraph
    <2> QED
      BY <1>1, <2>1, <2>2
  <1>9. StoreFits'
    BY <1>1, <1>2, <1>8, Doing DEF StoreFits
  <1> QED
    BY <1>1, <1>7, <1>9

\* The definitions that the bundle does not have are listed.
LEMMA OrphansFits ==
  ASSUME TInv, NEW p \in Procs, ListOrphans(p)
  PROVE  StoreFits' /\ \E r : Fits(p, r) /\ Becomes(p, r)
  <1> DEFINE S == Listed \ Elems(Own(p).defs)
             call == IF S = {} THEN "retype" ELSE "unlink"
             r == [proc[p] EXCEPT !.todo = S, !.at = call]
  <1>1. At(p) = "orphans" /\ UNCHANGED <<graph, applied, alone, events, behind>> /\ Becomes(p, r)
    BY DEF ListOrphans
  <1>2. StoreFits'
    BY <1>1, Doing, StaysFit DEF StoreFits
  <1>3. /\ Active(p) /\ On(Op(p), "retype") /\ On(Op(p), "unlink") /\ proc[p] \in Process
        /\ Solid(proc[p].mem)
    BY <1>1, Doing DEF Active, Resting, Fits, On, Applying, Warming, Moving
  <1>4. S \in SUBSET Names /\ S \subseteq Slugs /\ call \in Calls /\ call \in {"retype", "unlink"} /\ (call = "unlink" => S # {})
        /\ On(Op(p), call)
    BY <1>3, Doing, Defining DEF Calls
  <1> HIDE DEF S, call
  <1>5. r \in Process /\ r.todo = S /\ r.at = call /\ r.op = Op(p) /\ r.b = proc[p].b /\ r.mem = proc[p].mem
        /\ r.rev = proc[p].rev
    BY <1>3, <1>4 DEF Process, Op
  <1> HIDE DEF r
  <1>6. Sized(r)
    BY <1>4, <1>5 DEF Sized
  <1>7. Fits(p, r)
    BY <1>3, <1>4, <1>5, <1>6, GoesOn
  <1> QED
    BY <1>1, <1>2, <1>7

\* A definition that the bundle does not have is deleted.
LEMMA UnlinkFits ==
  ASSUME TInv, NEW p \in Procs, Unlink(p)
  PROVE  StoreFits' /\ \E r : Fits(p, r) /\ Becomes(p, r)
  <1> DEFINE r == Further(p, "unlink", "retype")
  <1>1. At(p) = "unlink" /\ UNCHANGED <<applied, alone, events>> /\ Becomes(p, r)
        /\ Store(p, [graph EXCEPT ![Current(p)] = Absent])
    BY DEF Unlink
  <1>2. /\ Active(p) /\ On(Op(p), "retype") /\ On(Op(p), "unlink") /\ proc[p] \in Process
        /\ Solid(proc[p].mem)
        /\ proc[p].todo # {} /\ proc[p].todo \subseteq Slugs
    BY <1>1, Doing DEF Active, Resting, Fits, On, Applying, Warming, Moving, Sized, At
  <1>3. StoreFits'
    <2>1. graph' \in [Names -> Graphs] /\ \A m \in Names : Solid(graph'[m])
      BY <1>1, AtRest, Doing, PutGraph DEF Store
    <2> QED
      BY <1>1, <2>1, Doing DEF StoreFits, Store
  <1>4. r \in Process /\ r.todo = proc[p].todo \ {Current(p)} /\ r.at = (IF r.todo = {} THEN "retype" ELSE "unlink")
        /\ r.op = Op(p) /\ r.b = proc[p].b /\ r.mem = proc[p].mem /\ r.rev = proc[p].rev
    <2>1. "unlink" \in Calls /\ "retype" \in Calls
      BY DEF Calls
    <2> QED
      BY <1>2, <2>1, Onward
  <1> HIDE DEF r
  <1>5. Sized(r)
    BY <1>2, <1>4 DEF Sized
  <1>6. Fits(p, r)
    BY <1>2, <1>4, <1>5, GoesOn DEF Calls
  <1> QED
    BY <1>1, <1>3, <1>6

\* The root record takes the type of the new root definition.
LEMMA RetypeFits ==
  ASSUME TInv, NEW p \in Procs, RetypeRoot(p)
  PROVE  StoreFits' /\ \E r : Fits(p, r) /\ Becomes(p, r)
  <1> DEFINE b == proc[p].b
             here(n) == n \in Elems(Own(p).root) /\ Present(n)
  <1>1. /\ UNCHANGED <<applied, alone, events>> /\ Done(p) /\ behind' \in BOOLEAN
        /\ graph' = [n \in Names |-> IF here(n) THEN [graph[n] EXCEPT !.rev = b] ELSE graph[n]]
    BY Doing DEF RetypeRoot, Store, StoreFits
  <1>2. b \in Revs /\ b # 0
    BY Doing, Constants
  <1> HIDE DEF here, b
  <1>3. graph \in [Names -> Graphs] /\ \A n \in Names : Solid(graph[n])
    BY Doing DEF StoreFits
  <1>4. ASSUME NEW n \in Names PROVE graph'[n] \in Graphs /\ Solid(graph'[n])
    <2> DEFINE g == graph[n]
    <2>1. g \in Graphs /\ Solid(g)
      BY <1>3
    <2> HIDE DEF g
    <2> DEFINE w == [g EXCEPT !.rev = b]
    <2>2. w \in Graphs /\ w.rev = b
      BY <1>2, <2>1 DEF Graphs
    <2> HIDE DEF w
    <2>3. Solid(w)
      BY <1>2, <2>2 DEF Solid
    <2>4. graph'[n] = IF here(n) THEN w ELSE g
      BY <1>1 DEF w, g
    <2> QED
      BY <2>1, <2>2, <2>3, <2>4
  <1>5. graph' \in [Names -> Graphs]
    <2>1. DOMAIN graph' = Names /\ graph' = [n \in Names |-> graph'[n]]
      BY <1>1
    <2> QED
      BY <1>4, <2>1
  <1>6. StoreFits'
    BY <1>1, <1>4, <1>5, Doing DEF StoreFits
  <1> QED
    BY <1>1, <1>6, DoneFits

\* The schema of a definition is asked for.
LEMMA AskFits ==
  ASSUME TInv, NEW p \in Procs, AskSchema(p)
  PROVE  StoreFits' /\ \E r : Fits(p, r) /\ Becomes(p, r)
  <1>1. /\ At(p) = "ask" /\ UNCHANGED <<graph, applied, alone, events, behind>>
        /\ (Goto(p, "change") \/ Done(p))
    BY DEF AskSchema
  <1>2. StoreFits'
    BY <1>1, Doing, StaysFit DEF StoreFits
  <1>3. Active(p) /\ On(Op(p), "change") /\ Fits(p, proc[p]) /\ proc[p] \in Process
        /\ proc[p].todo # {} /\ proc[p].todo \subseteq Slugs
    BY <1>1, Doing DEF Active, Resting, On, Applying, Warming, Moving, Sized, At
  <1>4. CASE Done(p)
    BY <1>2, <1>4, DoneFits
  <1>5. CASE Goto(p, "change")
    <2> DEFINE r == [proc[p] EXCEPT !.at = "change"]
    <2>1. r.at = "change" /\ r.todo = proc[p].todo
      BY <1>3 DEF Process
    <2> HIDE DEF r
    <2>2. Sized(r)
      BY <1>3, <2>1 DEF Sized
    <2> QED
      BY <1>2, <1>3, <1>5, <2>2, GotoFits DEF Calls, r
  <1> QED
    BY <1>1, <1>4, <1>5

\* What an administrator writes.
LEMMA ChangeOf ==
  ASSUME TInv, NEW p \in Procs, At(p) = "change"
  PROVE  /\ Current(p) \in Slugs /\ Current(p) \in Names /\ Active(p)
         /\ Op(p) \in {"create", "replace", "delete"}
         /\ Solid(IF Op(p) = "delete" THEN Absent ELSE [rev |-> proc[p].rev, old |-> FALSE])
         /\ Op(p) # "delete" => proc[p].rev # 0
  <1>1. /\ proc[p] \in Process /\ proc[p].todo # {} /\ proc[p].todo \subseteq Slugs /\ Active(p)
        /\ On(Op(p), "change") /\ (Op(p) \in {"create", "replace"} => proc[p].rev # 0)
    BY Doing DEF Active, Resting, Sized, At, Fits, Op
  <1>2. Current(p) \in Slugs /\ Current(p) \in Names
    BY <1>1, OneOf, NamesApart DEF Current
  <1>3. Op(p) \in {"create", "replace", "delete"}
    BY <1>1 DEF On, Applying, Warming, Moving
  <1>4. Op(p) # "delete" => Solid([rev |-> proc[p].rev, old |-> FALSE])
    <2>1. proc[p].rev \in Revs
      BY <1>1 DEF Process
    <2> QED
      BY <1>1, <1>3, <2>1 DEF Solid, Graphs
  <1> QED
    BY <1>1, <1>2, <1>3, <1>4, AtRest

\* A definition is created, replaced or deleted.
LEMMA ChangeFits ==
  ASSUME TInv, NEW p \in Procs, Change(p)
  PROVE  StoreFits' /\ \E r : Fits(p, r) /\ Becomes(p, r)
  <1>1. /\ At(p) = "change" /\ UNCHANGED <<applied, alone, events>> /\ Store(p, Changed(p))
        /\ Goto(p, "list")
    BY DEF Change, AfterChange
  <1>2. StoreFits'
    <2>1. graph' \in [Names -> Graphs] /\ \A m \in Names : Solid(graph'[m])
      BY <1>1, ChangeOf, Doing, PutGraph DEF Store, Changed
    <2> QED
      BY <1>1, <2>1, Doing DEF StoreFits, Store
  <1>3. Active(p) /\ On(Op(p), "list") /\ Fits(p, proc[p])
    BY <1>1, ChangeOf, Doing DEF On
  <1> QED
    BY <1>1, <1>2, <1>3, GotoFits DEF Calls

\* A process that begins an operation.
LEMMA BeginFits ==
  ASSUME NEW p \in Procs, NEW op \in OpsOf(p), NEW b \in DOMAIN Bundles, NEW call \in Calls,
         NEW S \in SUBSET Slugs, NEW v \in Revs,
         On(op, call), call \notin {"put", "record", "undo", "read", "copy", "replace", "drop", "unlink"},
         call \in {"ask", "change"} => S # {}, op \in {"create", "replace"} => v # 0, p = Server => b = 1,
         NEW r, r.op = op, r.at = call, r.b = b, r.n = 1, r.todo = S, r.mem = Absent, r.rev = v, r \in Process
  PROVE  Fits(p, r)
  <1>1. call \notin Resting
    BY DEF Calls, Resting
  <1> QED
    BY <1>1, AtRest DEF Fits, Sized, Routed

\* The idle process, at a call of its own.
LEMMA Begun ==
  ASSUME NEW op \in Ops, NEW b \in DOMAIN Bundles, NEW call \in Calls
  PROVE  LET r == [Idle EXCEPT !.op = op, !.at = call, !.b = b]
         IN /\ r \in Process /\ r.op = op /\ r.at = call /\ r.b = b /\ r.n = 1 /\ r.todo = {} /\ r.mem = Absent
            /\ r.rev = Idle.rev /\ r.recs = [s \in Slugs |-> 0]
  BY AtRest DEF Process

\* What is remembered of who was alone has its type.
LEMMA BeginFrame ==
  ASSUME StoreFits, NEW p \in Procs, NEW op, NEW b, NEW call, Begin(p, op, b, call),
         UNCHANGED <<graph, applied>>, events' \in 0 .. MaxEvents
  PROVE  StoreFits'
  <1>1. alone' \in [Procs -> BOOLEAN] /\ behind' \in BOOLEAN
    BY Constants DEF Begin, StoreFits
  <1> QED
    BY <1>1 DEF StoreFits, Solid

\* A process begins.
LEMMA BeginsFit ==
  ASSUME TInv, NEW p \in Procs, NEW op, NEW b, NEW call, Begin(p, op, b, call),
         op \in OpsOf(p), b \in DOMAIN Bundles, call \in {"check", "wipe", "affected", "reconcile", "orphans"},
         On(op, call), p = Server => b = 1, op \notin {"create", "replace"}
  PROVE  \E r : Fits(p, r) /\ Becomes(p, r)
  <1> DEFINE r == [Idle EXCEPT !.op = op, !.at = call, !.b = b]
  <1>1. Becomes(p, r)
    BY DEF Begin
  <1>2. op \in Ops /\ call \in Calls
    BY DEF OpsOf, Ops, Calls
  <1>3. r \in Process /\ r.op = op /\ r.at = call /\ r.b = b /\ r.n = 1 /\ r.todo = {} /\ r.mem = Absent
        /\ r.rev \in Revs
    BY <1>2, Begun, AtRest DEF Process
  <1> HIDE DEF r
  <1>4. Fits(p, r)
    BY <1>2, <1>3, BeginFits
  <1> QED
    BY <1>1, <1>4

\* Counting an event.
LEMMA Counted == ASSUME StoreFits, Event PROVE events' \in 0 .. MaxEvents /\ events' \in 1 .. MaxEvents
  BY Constants DEF StoreFits, Event

\* The server, a command or a reset begins.
LEMMA StartsFit ==
  ASSUME TInv, NEW p \in Procs,
         \/ p = Server /\ Boot
         \/ p = Cli /\ Command
         \/ p \in Requests /\ Reset(p)
  PROVE  StoreFits' /\ \E r : Fits(p, r) /\ Becomes(p, r)
  <1>1. /\ UNCHANGED <<graph, applied>> /\ events' \in 0 .. MaxEvents
        /\ \E op, b, call : /\ Begin(p, op, b, call) /\ op \in OpsOf(p) /\ b \in DOMAIN Bundles
                            /\ call \in {"check", "wipe", "affected", "reconcile", "orphans"}
                            /\ On(op, call) /\ (p = Server => b = 1)
                            /\ op \notin {"create", "replace"}
    <2>1. CASE p = Server /\ Boot
      <3>1. /\ Begin(p, "boot", 1, IF AutoApply THEN "check" ELSE "affected")
            /\ UNCHANGED <<graph, applied, events>>
        BY <2>1 DEF Boot
      <3>2. /\ On("boot", "check") /\ On("boot", "affected") /\ "boot" \in OpsOf(p)
            /\ 1 \in DOMAIN Bundles
        BY <2>1, Constants DEF On, OpsOf, Warming, Moving
      <3>3. events' \in 0 .. MaxEvents
        BY <3>1, Doing DEF StoreFits
      <3> QED
        BY <2>1, <3>1, <3>2, <3>3
    <2>2. CASE p = Cli /\ Command
      <3>1. Event /\ UNCHANGED <<graph, applied>>
        BY <2>2 DEF Command, Apply, MigrateVocabulary, MigrateNamespace, MigrateModular, Commanded
      <3>2. \/ \E b \in DOMAIN Bundles : Begin(p, "apply", b, "check") \/ Begin(p, "force", b, "wipe")
            \/ Begin(p, "vocab", 1, "affected") \/ Begin(p, "relocate", 1, "affected")
            \/ \E b \in DOMAIN Bundles : Begin(p, "modular", b, "orphans") \/ Begin(p, "modular", b, "reconcile")
        BY <2>2 DEF Command, Apply, MigrateVocabulary, MigrateNamespace, MigrateModular
      <3>3. On("apply", "check") /\ On("force", "wipe") /\ On("vocab", "affected") /\ On("relocate", "affected")
            /\ On("modular", "orphans") /\ On("modular", "reconcile")
            /\ {"apply", "force", "vocab", "relocate", "modular"} \subseteq OpsOf(p)
            /\ 1 \in DOMAIN Bundles /\ p # Server
        BY <2>2, Constants, Who DEF On, OpsOf, Moving
      <3>4. events' \in 0 .. MaxEvents
        BY <3>1, Counted, Doing
      <3> QED
        BY <3>1, <3>2, <3>3, <3>4
    <2>3. CASE p \in Requests /\ Reset(p)
      <3>1. /\ Event /\ UNCHANGED <<graph, applied>>
            /\ \E b \in DOMAIN Bundles : Begin(p, "reset", b, "wipe")
        BY <2>3 DEF Reset
      <3>2. On("reset", "wipe") /\ "reset" \in OpsOf(p) /\ p # Server
        BY <2>3, Who DEF On, OpsOf
      <3>3. events' \in 0 .. MaxEvents
        BY <3>1, Counted, Doing
      <3> QED
        BY <3>1, <3>2, <3>3
    <2> QED
      BY <2>1, <2>2, <2>3
  <1>2. PICK op, b, call : /\ Begin(p, op, b, call) /\ op \in OpsOf(p) /\ b \in DOMAIN Bundles
                            /\ call \in {"check", "wipe", "affected", "reconcile", "orphans"}
                            /\ On(op, call) /\ (p = Server => b = 1)
                            /\ op \notin {"create", "replace"}
    BY <1>1
  <1>3. StoreFits'
    BY <1>1, <1>2, Doing, BeginFrame
  <1>4. \E r : Fits(p, r) /\ Becomes(p, r)
    BY <1>2, BeginsFit
  <1> QED
    BY <1>3, <1>4

\* An administrator begins.
LEMMA AdministerFits ==
  ASSUME TInv, NEW p \in Requests, Administer(p)
  PROVE  StoreFits' /\ \E r : Fits(p, r) /\ Becomes(p, r)
  <1>1. Event /\ UNCHANGED <<graph, applied>>
    BY DEF Administer
  <1>2. PICK op \in {"create", "replace", "delete"}, s \in Slugs :
          LET first == IF op = "delete" THEN "change" ELSE "ask"
          IN /\ Becomes(p, [Idle EXCEPT !.op = op, !.at = first, !.todo = {s}, !.rev = Len(Bundles) + events'])
             /\ LET others == {q \in Procs \ {p} : Active(q)}
                IN /\ alone' = [q \in Procs |-> q = p /\ others = {}]
                   /\ behind' = (behind \/ others # {})
    BY DEF Administer
  <1> DEFINE first == IF op = "delete" THEN "change" ELSE "ask"
             v == Len(Bundles) + events'
             S == {s}
             r == [Idle EXCEPT !.op = op, !.at = first, !.todo = S, !.rev = v]
  <1>3. Becomes(p, r) /\ alone' \in [Procs -> BOOLEAN] /\ behind' \in BOOLEAN
    BY <1>2, Doing, Who DEF StoreFits
  <1>4. events' \in 1 .. MaxEvents
    BY <1>1, Counted, Doing, Who
  <1>5. StoreFits'
    BY <1>1, <1>3, <1>4, Doing, Who DEF StoreFits, Solid
  <1>6. v \in Revs /\ v # 0
    BY <1>4, Constants DEF Revs
  <1>7. first \in Calls /\ op \in Ops /\ op \in OpsOf(p) /\ On(op, first) /\ p # Server /\ first \in {"change", "ask"}
        /\ S \in SUBSET Slugs /\ S \in SUBSET Names /\ S # {} /\ 1 \in DOMAIN Bundles
    BY Who, NamesApart, Constants DEF Calls, Ops, OpsOf, On
  <1> HIDE DEF first, v, S
  <1>8. /\ r \in Process /\ r.op = op /\ r.at = first /\ r.b = 1 /\ r.n = 1 /\ r.todo = S
        /\ r.mem = Absent /\ r.rev = v
    BY <1>6, <1>7, AtRest DEF Process
  <1> HIDE DEF r
  <1>9. Fits(p, r)
    BY <1>6, <1>7, <1>8, Who, BeginFits
  <1> QED
    BY <1>3, <1>5, <1>9

\* What a call does to the store, fits.
LEMMA EffectFits ==
  ASSUME TInv, NEW p \in Procs
  PROVE  Effect(p) \in [Names -> Graphs] /\ \A m \in Names : Solid(Effect(p)[m])
  <1> DEFINE Ok(g) == g \in [Names -> Graphs] /\ \A m \in Names : Solid(g[m])
  <1>1. StoreFits /\ Ok(graph) /\ Solid(Absent)
    BY Doing, AtRest DEF StoreFits
  <1>2. ASSUME NEW n, NEW v, Solid(v) PROVE Ok([graph EXCEPT ![n] = v])
    BY <1>1, <1>2 DEF Solid
  <1>3. Ok(Fresh)
    BY AtRest DEF Fresh
  <1>4. Ok(PutArtifact(p))
    <2>1. Solid([rev |-> proc[p].b, old |-> FALSE])
      BY Doing, BundleSolid
    <2> QED
      BY <1>2, <2>1 DEF PutArtifact
  <1>5. Ok(Replaced(p))
    <2>1. Solid(Rewritten(p))
      BY Doing, RewrittenSolid DEF Fits
    <2> QED
      BY <1>2, <2>1 DEF Replaced
  <1>6. At(p) = "change" => Ok(Changed(p))
    BY <1>2, ChangeOf DEF Changed
  <1>7. /\ Ok([graph EXCEPT ![Current(p)] = Absent])
        /\ Ok([graph EXCEPT ![Order(p)[proc[p].n]] = Absent])
    BY <1>1, <1>2
  <1> HIDE DEF Ok
  <1>8. Ok(Effect(p))
    BY <1>1, <1>3, <1>4, <1>5, <1>6, <1>7 DEF Effect
  <1> QED
    BY <1>8 DEF Ok

\* An exception is caught.
LEMMA CaughtFits ==
  ASSUME TInv, NEW p \in Procs, Active(p), At(p) = "undo" => proc[p].n > 0, Caught(p)
  PROVE  \E r : Fits(p, r) /\ Becomes(p, r)
  <1>1. Fits(p, proc[p]) /\ proc[p] \in Process /\ Solid(proc[p].mem) /\ Sized(proc[p]) /\ Op(p) \in OpsOf(p) /\ On(Op(p), At(p))
        /\ LengthOf(proc[p]) = Len(Order(p)) /\ LengthOf(proc[p]) \in Nat \ {0}
    BY Doing DEF Fits
  <1>2. CASE Done(p)
    BY <1>2, DoneFits
  <1>3. CASE At(p) \in {"put", "record"}
    <2> DEFINE k == Written(p)
               r == [proc[p] EXCEPT !.n = k, !.at = "undo"]
    <2>1. Becomes(p, r)
      BY <1>3 DEF Caught, Compensate
    <2>2. k \in 0 .. LengthOf(proc[p]) /\ k \in Nat
      BY <1>1, <1>3 DEF Written, Sized, At
    <2>3. On(Op(p), "undo")
      BY <1>1, <1>3 DEF On, Applying, Warming, Moving
    <2> HIDE DEF k
    <2>4. r \in Process /\ r.n = k /\ r.b = proc[p].b /\ r.mem = proc[p].mem /\ r.op = Op(p)
          /\ r.rev = proc[p].rev /\ r.at = "undo"
      BY <1>1, <2>2 DEF Process, Calls, Op
    <2> HIDE DEF r
    <2>5. Sized(r)
      BY <2>2, <2>4 DEF Sized, LengthOf
    <2>6. Fits(p, r)
      BY <1>1, <2>3, <2>4, <2>5, GoesOn DEF Calls
    <2> QED
      BY <2>1, <2>6
  <1>4. CASE At(p) = "undo"
    <2> DEFINE k == proc[p].n - 1
               r == [proc[p] EXCEPT !.n = k]
    <2>1. Becomes(p, r)
      BY <1>4 DEF Caught
    <2>2. k \in 0 .. LengthOf(proc[p]) /\ k \in Nat
      BY <1>1, <1>4 DEF Sized, At
    <2> HIDE DEF k
    <2>3. r \in Process /\ r.n = k /\ r.b = proc[p].b /\ r.mem = proc[p].mem /\ r.op = Op(p)
          /\ r.rev = proc[p].rev /\ r.at = "undo"
      BY <1>1, <1>4, <2>2 DEF Process, Op, At
    <2> HIDE DEF r
    <2>4. Sized(r)
      BY <2>2, <2>3 DEF Sized, LengthOf
    <2>5. Fits(p, r)
      BY <1>1, <1>4, <2>3, <2>4, GoesOn DEF Calls
    <2> QED
      BY <2>1, <2>5
  <1>5. CASE p = Server /\ Goto(p, "warm")
    <2>1. On(Op(p), "warm")
      BY <1>1, <1>5 DEF On, OpsOf, Warming
    <2> QED
      BY <1>1, <1>5, <2>1, GotoFits DEF Calls
  <1> QED
    BY <1>2, <1>3, <1>4, <1>5 DEF Caught

\* A call raises.
LEMMA RaiseFits ==
  ASSUME TInv, NEW p \in Procs, Raise(p)
  PROVE  StoreFits' /\ \E r : Fits(p, r) /\ Becomes(p, r)
  <1>1. /\ graph' \in {graph, Effect(p)} /\ applied' \in {applied, 0, proc[p].b}
        /\ UNCHANGED alone /\ behind' \in BOOLEAN
        /\ Event /\ Active(p) /\ (At(p) = "undo" => proc[p].n > 0) /\ Caught(p)
    BY Doing DEF Raise, StoreFits
  <1>2. graph' \in [Names -> Graphs] /\ \A m \in Names : Solid(graph'[m])
    BY <1>1, EffectFits, Doing DEF StoreFits
  <1>3. StoreFits'
    BY <1>1, <1>2, Constants, Counted, Doing DEF StoreFits
  <1>4. \E r : Fits(p, r) /\ Becomes(p, r)
    BY <1>1, CaughtFits
  <1> QED
    BY <1>3, <1>4

\* Whatever a process does next, it fits.
LEMMA StepFits ==
  ASSUME TInv, NEW p \in Procs, Step(p)
  PROVE  StoreFits' /\ \E r : Fits(p, r) /\ Becomes(p, r)
  BY CheckFits, PutFits, RecordFits, UndoFits, WipeFits, ListFits, ReadFits, PublishFits,
     AffectedFits, CopyFits, ReplaceFits, EndFits, RepointFits, ReconcileFits, OrphansFits,
     UnlinkFits, RetypeFits, AskFits, ChangeFits DEF Step

\* A crash leaves processes at rest.
LEMMA CrashFits ==
  ASSUME TInv, CrashServer \/ CrashCli
  PROVE  TInv'
  <1>1. UNCHANGED <<graph, applied, alone, behind>> /\ Event
    BY DEF CrashServer, CrashCli
  <1>2. StoreFits'
    BY <1>1, Counted, Doing, Who DEF StoreFits, Solid
  <1>3. \A p, r : Fits(p, r)' <=> Fits(p, r)
    BY DEF Fits, Sized, Routed, LengthOf, Solid
  <1> DEFINE down == [Idle EXCEPT !.at = "down"]
  <1>4. Fits(Server, down) /\ down \in Process
    BY Who, RestFits DEF Resting, Fits
  <1>5. ASSUME NEW p \in Procs \ {Server} PROVE Fits(p, Idle) /\ Idle \in Process
    BY AtRest, <1>5 DEF Fits, Sized, Routed, Resting
  <1> HIDE DEF down
  <1>6. CASE CrashServer
    <2>1. proc' = [p \in Procs |-> IF p = Server THEN down ELSE IF p = Cli THEN proc[p] ELSE Idle]
      BY <1>6 DEF CrashServer, down
    <2>2. ASSUME NEW p \in Procs PROVE proc'[p] \in Process /\ Fits(p, proc'[p])
      BY <1>4, <1>5, <2>1, Doing
    <2>3. proc' \in [Procs -> Process]
      BY <2>1, <2>2
    <2> QED
      BY <1>2, <1>3, <2>2, <2>3 DEF TInv, ProcsFit
  <1>7. CASE CrashCli
    <2>1. proc' = [proc EXCEPT ![Cli] = Idle]
      BY <1>7 DEF CrashCli
    <2>2. Becomes(Cli, Idle) /\ Fits(Cli, Idle) /\ ProcsFit
      BY <1>5, <2>1, Doing, Who DEF Becomes
    <2>3. ProcsFit'
      BY <2>2, Moves, Who
    <2> QED
      BY <1>2, <2>3 DEF TInv
  <1> QED
    BY <1>6, <1>7

\* A step of the program is one process's, or a crash: what it was like before still tells
\* where the others are.
Mover(p) ==
  \/ p = Server /\ (Boot \/ BackfillConformance \/ RebuildDerived \/ Serve)
  \/ p = Cli /\ Command
  \/ p \in Requests /\ (Reset(p) \/ Administer(p))
  \/ Step(p)
  \/ Raise(p)

\* Who it may be.
LEMMA Movers == ASSUME Next PROVE CrashServer \/ CrashCli \/ \E p \in Procs : Mover(p)
  BY Who DEF Next, Start, Mover

\* It keeps the shapes, and moves no other.
LEMMA MoverFits ==
  ASSUME TInv, NEW p \in Procs, Mover(p)
  PROVE  /\ TInv' /\ Fits(p, proc'[p]) /\ \A q \in Procs : q # p => proc'[q] = proc[q]
  <1>1. StoreFits' /\ \E r : Fits(p, r) /\ Becomes(p, r)
    BY StepFits, RaiseFits, StartsFit, StartFits, AdministerFits, Who DEF Mover
  <1>2. PICK r : Fits(p, r) /\ Becomes(p, r)
    BY <1>1
  <1>3. ProcsFit' /\ proc'[p] = r /\ \A q \in Procs : q # p => proc'[q] = proc[q]
    BY <1>2, Doing, Moves
  <1> QED
    BY <1>1, <1>2, <1>3 DEF TInv

\* The shapes at the start.
LEMMA InitFits == Init => TInv
  <1> SUFFICES ASSUME Init PROVE TInv
    OBVIOUS
  <1>1. /\ applied \in 0 .. Len(Bundles) /\ events \in 0 .. MaxEvents
        /\ alone \in [Procs -> BOOLEAN] /\ behind \in BOOLEAN
    <2>1. applied \in {0, 1} /\ events = 0 /\ behind = FALSE
      BY DEF Init
    <2>2. alone \in [Procs -> BOOLEAN]
      <3>1. alone = [p \in Procs |-> FALSE]
        BY DEF Init
      <3> QED
        BY <3>1
    <2>3. 0 \in 0 .. Len(Bundles) /\ 1 \in 0 .. Len(Bundles) /\ 0 \in 0 .. MaxEvents
      BY Constants
    <2>4. applied \in 0 .. Len(Bundles) /\ events \in 0 .. MaxEvents
      BY <2>1, <2>3
    <2> QED
      BY <2>1, <2>2, <2>4, Zenon
  <1>2. graph \in [Names -> Graphs] /\ \A n \in Names : Solid(graph[n])
    <2>1. [rev |-> 1, old |-> TRUE] \in Graphs /\ [rev |-> 1, old |-> FALSE] \in Graphs /\ Absent \in Graphs
          /\ Solid([rev |-> 1, old |-> TRUE]) /\ Solid([rev |-> 1, old |-> FALSE])
          /\ Solid(Absent)
      BY AtRest, Constants, BundleSolid DEF Graphs, Solid
    <2>2. graph \in {Fresh, AsApplied, OlderRelease}
      BY DEF Init
    <2> QED
      BY <2>1, <2>2 DEF Fresh, AsApplied, OlderRelease
  <1>3. ProcsFit
    <2> DEFINE down == [Idle EXCEPT !.at = "down"]
    <2>1. Fits(Server, down) /\ down \in Process
      BY Who, RestFits DEF Resting, Fits
    <2>2. ASSUME NEW p \in Procs \ {Server} PROVE Fits(p, Idle) /\ Idle \in Process
      BY AtRest, <2>2 DEF Fits, Sized, Routed, Resting
    <2> HIDE DEF down
    <2>3. proc = [p \in Procs |-> IF p = Server THEN down ELSE Idle]
      BY DEF Init, down
    <2>4. ASSUME NEW p \in Procs PROVE proc[p] \in Process /\ Fits(p, proc[p])
      BY <2>1, <2>2, <2>3
    <2> QED
      BY <2>3, <2>4 DEF ProcsFit
  <1> QED
    BY <1>1, <1>2, <1>3 DEF TInv, StoreFits

\* Nothing happens.
LEMMA StutterFits == ASSUME TInv, UNCHANGED vars PROVE TInv'
  BY DEF TInv, StoreFits, ProcsFit, Fits, Sized, Routed, LengthOf, Solid, vars

\* The shapes at each step.
LEMMA TKept == ASSUME TInv, [Next]_vars PROVE TInv'
  BY Movers, MoverFits, CrashFits, StutterFits

\* Every variable keeps its type: graphs have revisions of the bundles or of an administrator, an
\* empty graph is absent, and a process is never past the end of what it goes through.
THEOREM TypeCorrect == Spec => []TypeOK
  <1>1. Spec => []TInv
    BY InitFits, TKept, PTL DEF Spec
  <1> QED
    BY <1>1, Typed, PTL
-----------------------------------------------------------------------------
(* Processes that are alone, and what they have seen still holds.          *)

\* No other is under way beside one that is alone.
Apart   == \A p, q \in Procs : Active(p) /\ alone[p] /\ Active(q) => p = q
Unmixed == \A p \in Procs : Active(p) /\ ("mixed" \notin spoiled \/ ~behind) => alone[p]

\* The first k graphs of a bundle.
Prefix(b, k) == {WriteOrder(Bundles[b])[i] : i \in 1 .. k}

\* The graphs written so far are there; after a reset's wipe there are no others.
PutStage(p) ==
  /\ At(p) \in {"put", "record"} =>
       /\ applied = 0
       /\ \A n \in Prefix(proc[p].b, Written(p)) : graph[n] = [rev |-> proc[p].b, old |-> FALSE]
       /\ Op(p) = "reset" => \A n \in Names : Present(n) => n \in Prefix(proc[p].b, Written(p))
  /\ At(p) = "clear" => \A n \in Names : ~Present(n)

\* What is left to migrate is all that is old, and what is being moved is still there.
MoveStage(p) ==
  /\ At(p) \in {"copy", "replace", "drop"} /\ Op(p) = "relocate" =>
       proc[p].todo \subseteq DOMAIN Moved
  /\ At(p) \in {"copy", "replace", "drop"} /\ Op(p) # "relocate" =>
       \A n \in Names : (graph[n].old => n \in proc[p].todo) /\ (n \in proc[p].todo => Present(n))
  /\ At(p) = "replace" => Present(Current(p)) /\ proc[p].mem = graph[Current(p)]
  /\ At(p) = "drop" => Target(p, Current(p)) # Current(p) /\ graph[Target(p, Current(p))].rev = graph[Current(p)].rev

\* What has been read is what the store has.
ReadStage(p) ==
  /\ At(p) = "read" =>
       /\ proc[p].todo \subseteq Listed
       /\ \A s \in Slugs : proc[p].recs[s] = IF s \in proc[p].todo THEN 0 ELSE Definitions[s]
  /\ At(p) = "repoint" => \A s \in Slugs : proc[p].recs[s] # 0 => Present(s)
  /\ At(p) = "publish" /\ p # Server => proc[p].recs = Definitions

\* A definition is written when its schema is there.
AskStage(p) == At(p) = "change" /\ Op(p) # "delete" => Present(SchemaOf[Current(p)])

Stage(p) == PutStage(p) /\ MoveStage(p) /\ ReadStage(p) /\ AskStage(p)
Staged   == \A p \in Procs : Active(p) /\ alone[p] => Stage(p)

IInv == TInv /\ Apart /\ Unmixed /\ Staged

\* A process that goes on, and one that ends.
LEMMA Went ==
  ASSUME TInv, NEW p \in Procs, NEW call, Goto(p, call)
  PROVE  /\ proc'[p].at = call /\ proc'[p].op = Op(p) /\ proc'[p].b = proc[p].b
         /\ proc'[p].n = proc[p].n
         /\ proc'[p].todo = proc[p].todo /\ proc'[p].recs = proc[p].recs
         /\ proc'[p].mem = proc[p].mem
         /\ proc'[p].rev = proc[p].rev
  BY Doing DEF ProcsFit, Process, Goto, Becomes, Op

\* One that ends is not under way.
LEMMA Ended ==
  ASSUME TInv, NEW p \in Procs, Done(p)
  PROVE  /\ proc'[p].at \in Resting /\ ~Active(p)'
         /\ proc'[p].at = (IF p = Server THEN "down" ELSE "idle")
  <1> DEFINE call == IF p = Server THEN "down" ELSE "idle"
             r == [Idle EXCEPT !.at = call]
  <1>1. proc' = [proc EXCEPT ![p] = r] /\ call \in Resting
    BY DEF Done, Rest, Becomes, Resting
  <1>2. r.at = call
    BY AtRest DEF Process
  <1> HIDE DEF r, call
  <1>3. proc'[p] = r
    BY <1>1, Doing DEF ProcsFit
  <1> QED
    BY <1>1, <1>2, <1>3 DEF Active, At, call

\* One that is alone is the only one under way, and its stage is what it was.
LEMMA OnlyOne ==
  ASSUME IInv, NEW p \in Procs, Active(p), alone[p]
  PROVE  Stage(p) /\ \A q \in Procs : q # p => ~Active(q)
  BY DEF IInv, Apart, Staged

\* Nobody overlapped.
LEMMA AloneWhen ==
  ASSUME IInv, NEW p \in Procs, Active(p), "mixed" \notin spoiled \/ ~behind
  PROVE  alone[p]
  BY DEF IInv, Unmixed

\* A step of a process that is under way: the others stay, and what it has seen still holds.
LEMMA Within ==
  ASSUME IInv, TInv', NEW p \in Procs, Active(p), \A q \in Procs : q # p => proc'[q] = proc[q],
         alone' = alone, "mixed" \in spoiled => "mixed" \in spoiled', ~behind' => ~behind \/ alone[p],
         alone[p] /\ Active(p)' => Stage(p)'
  PROVE  IInv'
  <1>1. \A q \in Procs : q # p => Active(q)' = Active(q)
    BY DEF Active, At
  <1>2. Apart'
    BY <1>1 DEF IInv, Apart
  <1>3. Unmixed'
    <2> SUFFICES ASSUME NEW q \in Procs, Active(q)', "mixed" \notin spoiled' \/ ~behind'
                 PROVE  alone[q]
      BY DEF Unmixed
    <2>1. Active(q)
      BY <1>1
    <2>2. CASE "mixed" \notin spoiled \/ ~behind
      BY <2>1, <2>2 DEF IInv, Unmixed
    <2>3. CASE alone[p]
      BY <2>1, <2>3 DEF IInv, Apart
    <2> QED
      BY <2>2, <2>3
  <1>4. Staged'
    <2> SUFFICES ASSUME NEW q \in Procs, Active(q)', alone[q] PROVE Stage(q)'
      BY DEF Staged
    <2>1. Active(q)
      BY <1>1
    <2>2. q = p
      BY <2>1 DEF IInv, Apart
    <2> QED
      BY <2>2
  <1> QED
    BY <1>2, <1>3, <1>4 DEF IInv

\* Calls at which nothing is to be remembered.
Staging == {"put", "record", "clear", "copy", "replace", "drop", "read", "repoint", "publish", "change"}

\* There, nothing is.
LEMMA Unstaged == ASSUME NEW p \in Procs, At(p)' \notin Staging PROVE Stage(p)'
  BY DEF Staging, Stage, PutStage, MoveStage, ReadStage, AskStage

\* The first graphs of a bundle, one more, and all of them.
LEMMA Prefixes ==
  ASSUME NEW b \in DOMAIN Bundles
  PROVE  /\ Prefix(b, 0) = {}
         /\ Prefix(b, Len(WriteOrder(Bundles[b]))) = Elems(WriteOrder(Bundles[b]))
         /\ \A k \in Nat : Prefix(b, k + 1) = Prefix(b, k) \union {WriteOrder(Bundles[b])[k + 1]}
         /\ \A k \in Nat : k <= Len(WriteOrder(Bundles[b])) => Prefix(b, k) \subseteq Names
  <1>1. Prefix(b, 0) = {}
    BY DEF Prefix
  <1>2. Prefix(b, Len(WriteOrder(Bundles[b]))) = Elems(WriteOrder(Bundles[b]))
    BY Numbered DEF Prefix
  <1>3. ASSUME NEW k \in Nat
        PROVE  Prefix(b, k + 1) = Prefix(b, k) \union {WriteOrder(Bundles[b])[k + 1]}
    BY DEF Prefix
  <1>4. ASSUME NEW k \in Nat, k <= Len(WriteOrder(Bundles[b])) PROVE Prefix(b, k) \subseteq Names
    BY <1>4, Numbered DEF Prefix
  <1> QED
    BY <1>1, <1>2, <1>3, <1>4
-----------------------------------------------------------------------------
(* Each action keeps what a process that is alone has seen.                *)

\* Before anything is put.
LEMMA FirstPut ==
  ASSUME TInv, NEW p \in Procs, Goto(p, "put"), proc[p].n = 1, applied' = 0,
         Op(p) # "reset" \/ \A n \in Names : ~Present(n)'
  PROVE  Stage(p)'
  <1>1. proc'[p].at = "put" /\ proc'[p].op = Op(p) /\ proc'[p].b = proc[p].b /\ proc'[p].n = 1
    BY Went
  <1>2. Prefix(proc[p].b, 0) = {}
    BY Doing, Prefixes
  <1>3. Written(p)' = 0
    BY <1>1 DEF Written
  <1>4. PutStage(p)'
    BY <1>1, <1>2, <1>3 DEF PutStage, At, Op
  <1> QED
    BY <1>1, <1>4 DEF Stage, MoveStage, ReadStage, AskStage, At

\* The check of an apply: nothing is written yet.
LEMMA CheckStage ==
  ASSUME IInv, NEW p \in Procs, CheckApplied(p), Active(p)'
  PROVE  Stage(p)'
  <1>1. /\ TInv /\ At(p) = "check" /\ UNCHANGED <<graph, applied>> /\ proc[p].n = 1
        /\ On(Op(p), "check")
    BY Doing DEF IInv, CheckApplied, Sized, At, Active, Resting
  <1>2. CASE Goto(p, "list")
    BY <1>1, <1>2, Went, Unstaged DEF At, Staging
  <1>3. CASE Done(p)
    BY <1>1, <1>3, Ended
  <1>4. CASE Goto(p, "put") /\ ~Refused(p)
    <2>1. Op(p) # "reset"
      BY <1>1 DEF On, Applying
    <2> QED
      BY <1>1, <1>4, <2>1, FirstPut DEF Refused
  <1> QED
    BY <1>2, <1>3, <1>4 DEF CheckApplied

\* What a put does.
LEMMA PutDoes ==
  ASSUME TInv, NEW p \in Procs, Put(p)
  PROVE  /\ proc'[p].at \in {"put", "record"} /\ proc'[p].n = proc[p].n + 1
         /\ proc'[p].b = proc[p].b
         /\ proc'[p].op = Op(p) /\ proc[p].n \in 1 .. Len(Order(p)) /\ proc[p].n \in Nat
         /\ Len(Order(p)) \in Nat
         /\ Written(p) \in Nat /\ Written(p)' = Written(p) + 1 /\ Written(p) + 1 = proc[p].n
         /\ Order(p) = WriteOrder(Bundles[proc[p].b]) /\ proc[p].b \in DOMAIN Bundles
         /\ Order(p)[proc[p].n] \in Names
         /\ Prefix(proc[p].b, Written(p) + 1) = Prefix(proc[p].b, Written(p)) \union {Order(p)[proc[p].n]}
         /\ Prefix(proc[p].b, Written(p)) \subseteq Names
         /\ graph' = [graph EXCEPT ![Order(p)[proc[p].n]] = [rev |-> proc[p].b, old |-> FALSE]]
         /\ applied' = applied /\ graph \in [Names -> Graphs]
  <1> DEFINE k == proc[p].n + 1
             call == IF proc[p].n = Len(Order(p)) THEN "record" ELSE "put"
             r == [proc[p] EXCEPT !.n = k, !.at = call]
  <1>1. At(p) = "put" /\ Becomes(p, r) /\ graph' = PutArtifact(p) /\ applied' = applied
    BY DEF Put, Store
  <1>2. /\ proc[p] \in Process /\ proc[p].n \in 1 .. Len(Order(p)) /\ Len(Order(p)) \in Nat
        /\ proc[p].b \in DOMAIN Bundles
        /\ graph \in [Names -> Graphs] /\ proc \in [Procs -> Process]
    BY <1>1, Doing DEF At, Sized, StoreFits, ProcsFit
  <1>3. k \in Nat /\ call \in {"put", "record"}
    BY <1>2
  <1> HIDE DEF k, call
  <1>4. proc'[p].at = call /\ proc'[p].n = k /\ proc'[p].b = proc[p].b /\ proc'[p].op = Op(p)
    BY <1>1, <1>2, <1>3 DEF Process, Becomes, Op
  <1>5. Written(p) \in Nat /\ Written(p)' = Written(p) + 1 /\ Written(p) + 1 = proc[p].n
    BY <1>2, <1>4 DEF Written, k
  <1>6. Order(p) = WriteOrder(Bundles[proc[p].b])
    BY DEF Order, Own
  <1>7. Prefix(proc[p].b, Written(p) + 1) = Prefix(proc[p].b, Written(p)) \union {Order(p)[proc[p].n]}
    BY <1>2, <1>5, <1>6, Prefixes
  <1>8. Order(p)[proc[p].n] \in Names /\ Prefix(proc[p].b, Written(p)) \subseteq Names
    BY <1>2, <1>5, <1>6, Numbered, Prefixes
  <1> QED
    BY <1>1, <1>2, <1>3, <1>4, <1>5, <1>6, <1>7, <1>8 DEF k, PutArtifact

\* A put adds its graph to those that are there.
LEMMA PutKeepsStage ==
  ASSUME IInv, NEW p \in Procs, Put(p), Stage(p)
  PROVE  Stage(p)'
  <1> DEFINE w == Order(p)[proc[p].n]
             v == [rev |-> proc[p].b, old |-> FALSE]
             P == Prefix(proc[p].b, Written(p))
  <1>1. TInv /\ At(p) = "put"
    BY DEF IInv, Put
  <1>2. /\ applied = 0 /\ \A n \in P : graph[n] = v
        /\ Op(p) = "reset" => \A n \in Names : Present(n) => n \in P
    BY <1>1 DEF Stage, PutStage
  <1>3. /\ proc'[p].at \in {"put", "record"} /\ proc'[p].b = proc[p].b /\ proc'[p].op = Op(p)
        /\ w \in Names /\ P \subseteq Names /\ graph' = [graph EXCEPT ![w] = v]
        /\ applied' = applied
        /\ Prefix(proc'[p].b, Written(p)') = P \union {w} /\ graph \in [Names -> Graphs]
    BY <1>1, PutDoes
  <1> HIDE DEF w, P
  <1>4. \A n \in P \union {w} : graph'[n] = v
    BY <1>2, <1>3
  <1>5. Op(p) = "reset" => \A n \in Names : graph'[n].rev # 0 => n \in P \union {w}
    BY <1>2, <1>3 DEF Present
  <1>6. PutStage(p)'
    BY <1>2, <1>3, <1>4, <1>5 DEF PutStage, At, Op, Present, v
  <1> QED
    BY <1>3, <1>6 DEF Stage, MoveStage, ReadStage, AskStage, At

\* What a record does.
LEMMA RecordDoes ==
  ASSUME TInv, NEW p \in Procs, Record(p)
  PROVE  /\ graph' = graph /\ proc[p].b \in DOMAIN Bundles /\ Written(p) = Len(Order(p))
         /\ Len(Order(p)) \in Nat
         /\ Prefix(proc[p].b, Written(p)) = Elems(Order(p))
         /\ Order(p) = WriteOrder(Bundles[proc[p].b])
         /\ \/ applied = 0 /\ applied' = proc[p].b /\ p = Cli /\ Done(p)
            \/ /\ applied = 0 /\ applied' = proc[p].b /\ p # Cli
               /\ proc'[p].at = AfterRecord(p) /\ proc'[p].recs = Manifest(proc[p].b)
               /\ proc'[p].b = proc[p].b
               /\ proc'[p].op = Op(p)
            \/ /\ applied # 0 /\ applied' = applied /\ proc'[p].at = "undo" /\ proc'[p].n = Written(p) /\ proc'[p].b = proc[p].b
  <1>1. /\ proc[p] \in Process /\ At(p) = "record" /\ graph' = graph
        /\ proc[p].b \in DOMAIN Bundles
        /\ proc \in [Procs -> Process]
    BY Doing DEF Record, ProcsFit
  <1>2. Written(p) = Len(Order(p)) /\ Len(Order(p)) \in Nat /\ Written(p) \in Nat
    BY <1>1, Doing DEF Sized, At, Written
  <1>3. /\ Prefix(proc[p].b, Written(p)) = Elems(Order(p))
        /\ Order(p) = WriteOrder(Bundles[proc[p].b])
    BY <1>1, <1>2, Prefixes DEF Order, Own
  <1>4. CASE applied = 0 /\ p = Cli
    BY <1>1, <1>2, <1>3, <1>4 DEF Record
  <1>5. CASE applied = 0 /\ p # Cli
    <2> DEFINE d == Manifest(proc[p].b)
               call == AfterRecord(p)
    <2>1. Becomes(p, [proc[p] EXCEPT !.recs = d, !.at = call]) /\ applied' = proc[p].b
      BY <1>5 DEF Record
    <2> HIDE DEF d, call
    <2>2. proc'[p].at = call /\ proc'[p].recs = d /\ proc'[p].b = proc[p].b /\ proc'[p].op = Op(p)
      BY <1>1, <2>1 DEF Becomes, Process, Op
    <2> QED
      BY <1>1, <1>2, <1>3, <1>5, <2>1, <2>2 DEF d, call
  <1>6. CASE applied # 0
    <2> DEFINE k == Written(p)
    <2>1. Becomes(p, [proc[p] EXCEPT !.n = k, !.at = "undo"]) /\ applied' = applied
      BY <1>6 DEF Record, Compensate
    <2> HIDE DEF k
    <2>2. proc'[p].at = "undo" /\ proc'[p].n = k /\ proc'[p].b = proc[p].b
      BY <1>1, <2>1 DEF Becomes, Process
    <2> QED
      BY <1>1, <1>2, <1>3, <1>6, <2>1, <2>2 DEF k
  <1> QED
    BY <1>4, <1>5, <1>6

\* A bundle that is there, with no other definition, is what the store defines.
LEMMA ManifestIs ==
  ASSUME StoreFits, NEW b \in DOMAIN Bundles,
         \A n \in Elems(WriteOrder(Bundles[b])) : graph[n] = [rev |-> b, old |-> FALSE],
         \A s \in Slugs : Manifest(b)[s] = 0 => ~Present(s)
  PROVE  Manifest(b) = Definitions /\ \A s \in Slugs : ~graph[s].old
  <1>1. ASSUME NEW s \in Slugs PROVE Manifest(b)[s] = Definitions[s] /\ ~graph[s].old
    <2>1. CASE s \in Elems(Bundles[b].defs)
      <3>1. s \in Elems(WriteOrder(Bundles[b]))
        BY <2>1, OrderOf
      <3>2. graph[s].rev = b /\ ~graph[s].old
        BY <3>1
      <3> QED
        BY <2>1, <3>2 DEF Manifest, Definitions
    <2>2. CASE s \notin Elems(Bundles[b].defs)
      <3>1. Manifest(b)[s] = 0 /\ ~Present(s)
        BY <2>2 DEF Manifest
      <3>2. Solid(graph[s]) /\ graph[s].rev = 0
        BY <3>1, NamesApart DEF StoreFits, Present
      <3>3. graph[s] = Absent
        BY <3>2 DEF Solid
      <3> QED
        BY <3>1, <3>2, <3>3, AtRest DEF Definitions
    <2> QED
      BY <2>1, <2>2
  <1> QED
    BY <1>1 DEF Manifest, Definitions

\* The row: what a reset then publishes is what the store defines.
LEMMA RecordStage ==
  ASSUME IInv, NEW p \in Procs, Record(p), Stage(p), Active(p)'
  PROVE  Stage(p)'
  <1>1. TInv /\ At(p) = "record" /\ StoreFits /\ On(Op(p), "record") /\ Op(p) \in OpsOf(p)
    BY Doing DEF IInv, Record, Active, Resting, TInv
  <1>2. CASE Done(p)
    BY <1>1, <1>2, Ended
  <1>3. CASE proc'[p].at = "undo" \/ proc'[p].at = "backfill"
    BY <1>3, Unstaged DEF At, Staging
  <1>4. CASE /\ proc'[p].at = "publish" /\ proc'[p].recs = Manifest(proc[p].b) /\ p # Cli
             /\ p # Server /\ graph' = graph
    <2>1. Op(p) = "reset"
      BY <1>1, <1>4, Who DEF On, OpsOf, Applying, Warming, Moving
    <2>2. /\ \A n \in Elems(Order(p)) : graph[n] = [rev |-> proc[p].b, old |-> FALSE]
          /\ \A n \in Names : Present(n) => n \in Elems(Order(p))
      BY <1>1, <2>1, RecordDoes DEF Stage, PutStage
    <2>3. ASSUME NEW s \in Slugs, Manifest(proc[p].b)[s] = 0 PROVE ~Present(s)
      <3>1. s \notin Elems(Bundles[proc[p].b].defs)
        BY <1>1, <2>3, Constants, Doing DEF Manifest
      <3>2. s \notin Elems(Order(p))
        BY <1>1, <3>1, Doing, OrderOf DEF Order, Own
      <3> QED
        BY <2>2, <3>2, NamesApart
    <2>4. Manifest(proc[p].b) = Definitions
      BY <1>1, <2>2, <2>3, Doing, ManifestIs DEF Order, Own
    <2>5. Definitions' = Definitions
      BY <1>4 DEF Definitions
    <2> QED
      BY <1>4, <2>4, <2>5 DEF Stage, PutStage, MoveStage, ReadStage, AskStage, At
  <1> QED
    BY <1>1, <1>2, <1>3, <1>4, RecordDoes DEF AfterRecord

\* Nothing is there once everything was dropped.
LEMMA WipeStage ==
  ASSUME IInv, NEW p \in Procs, Wipe(p)
  PROVE  Stage(p)'
  <1>1. TInv /\ graph' = Fresh /\ Goto(p, "clear")
    BY DEF IInv, Wipe, Store
  <1>2. proc'[p].at = "clear"
    BY <1>1, Went
  <1>3. \A n \in Names : graph'[n].rev = 0
    BY <1>1, AtRest DEF Fresh
  <1> QED
    BY <1>2, <1>3 DEF Stage, PutStage, MoveStage, ReadStage, AskStage, At, Present

\* The row of a wiped store is deleted, and the first graph is next.
LEMMA ClearStage ==
  ASSUME IInv, NEW p \in Procs, Clear(p), Stage(p), Active(p)'
  PROVE  Stage(p)'
  <1>1. TInv /\ At(p) = "clear" /\ applied' = 0 /\ graph' = graph /\ (Goto(p, "put") \/ Done(p))
    BY DEF IInv, Clear
  <1>2. proc[p].n = 1
    BY <1>1, Doing DEF Sized, At
  <1>3. \A n \in Names : ~Present(n)'
    BY <1>1 DEF Stage, PutStage, Present
  <1> QED
    BY <1>1, <1>2, <1>3, Ended, FirstPut

\* What a list does.
LEMMA ListDoes ==
  ASSUME TInv, NEW p \in Procs, List(p)
  PROVE  /\ proc'[p].at = (IF Listed = {} THEN AfterRead(p) ELSE "read") /\ proc'[p].todo = Listed
         /\ proc'[p].recs = [s \in Slugs |-> 0] /\ proc'[p].op = Op(p) /\ graph' = graph
  <1> DEFINE S    == Listed
             none == [s \in Slugs |-> 0]
             call == IF S = {} THEN AfterRead(p) ELSE "read"
  <1>1. Becomes(p, [proc[p] EXCEPT !.todo = S, !.recs = none, !.at = call]) /\ graph' = graph
    BY DEF List
  <1>2. proc \in [Procs -> Process] /\ proc[p] \in Process
    BY Doing DEF ProcsFit
  <1> HIDE DEF S, none, call
  <1>3. proc'[p].at = call /\ proc'[p].todo = S /\ proc'[p].recs = none /\ proc'[p].op = Op(p)
    BY <1>1, <1>2 DEF Becomes, Process, Op
  <1> QED
    BY <1>1, <1>3 DEF S, none, call

\* What is read does not change with a graph that stays.
LEMMA SameDefinitions == ASSUME graph' = graph PROVE Definitions' = Definitions /\ Listed' = Listed
  BY DEF Definitions, Listed

\* The names of the definitions are asked for, and none is read.
LEMMA ListStage ==
  ASSUME IInv, NEW p \in Procs, List(p)
  PROVE  Stage(p)'
  <1>1. TInv /\ StoreFits
    BY Doing DEF IInv
  <1>2. proc'[p].at = (IF Listed = {} THEN AfterRead(p) ELSE "read") /\ proc'[p].todo = Listed
        /\ proc'[p].recs = [s \in Slugs |-> 0] /\ graph' = graph
    BY <1>1, ListDoes
  <1>3. Definitions' = Definitions /\ Listed' = Listed
    BY <1>2, SameDefinitions
  <1>4. \A s \in Slugs : s \notin Listed => Definitions[s] = 0
    BY DEF Listed
  <1>5. CASE Listed = {}
    <2>1. Definitions = [s \in Slugs |-> 0]
      BY <1>4, <1>5 DEF Definitions
    <2> QED
      BY <1>2, <1>3, <1>5, <2>1 DEF AfterRead, Stage, PutStage, MoveStage, ReadStage, AskStage, At
  <1>6. CASE Listed # {}
    BY <1>2, <1>3, <1>4, <1>6 DEF Stage, PutStage, MoveStage, ReadStage, AskStage, At
  <1> QED
    BY <1>5, <1>6

\* What a read does.
LEMMA ReadDoes ==
  ASSUME TInv, NEW p \in Procs, Read(p), ~Done(p)
  PROVE  /\ Current(p) \in proc[p].todo /\ Current(p) \in Slugs
         /\ proc'[p].todo = proc[p].todo \ {Current(p)}
         /\ proc'[p].at = (IF proc'[p].todo = {} THEN AfterRead(p) ELSE "read")
         /\ proc[p].recs \in [Slugs -> Revs]
         /\ proc'[p].recs = [proc[p].recs EXCEPT ![Current(p)] = Definitions[Current(p)]]
         /\ Definitions[Current(p)] # 0 /\ graph' = graph /\ proc'[p].op = Op(p)
  <1> DEFINE f == Further(p, "read", AfterRead(p))
             d == [proc[p].recs EXCEPT ![Current(p)] = Definitions[Current(p)]]
  <1>1. /\ Becomes(p, [f EXCEPT !.recs = d]) /\ graph' = graph /\ Definitions[Current(p)] # 0
        /\ At(p) = "read"
    BY DEF Read
  <1>2. /\ proc \in [Procs -> Process] /\ proc[p] \in Process /\ proc[p].todo # {}
        /\ proc[p].todo \subseteq Slugs
        /\ AfterRead(p) \in Calls /\ "read" \in Calls
    BY <1>1, Doing DEF ProcsFit, Sized, At, AfterRead, Calls
  <1>3. /\ Current(p) \in proc[p].todo /\ f \in Process /\ f.todo = proc[p].todo \ {Current(p)}
        /\ f.at = (IF f.todo = {} THEN AfterRead(p) ELSE "read") /\ f.op = Op(p)
    BY <1>2, Onward
  <1>4. proc[p].recs \in [Slugs -> Revs]
    BY <1>2 DEF Process
  <1> HIDE DEF f, d
  <1>5. proc'[p].at = f.at /\ proc'[p].todo = f.todo /\ proc'[p].recs = d /\ proc'[p].op = f.op
    BY <1>1, <1>2, <1>3 DEF Becomes, Process
  <1> QED
    BY <1>1, <1>2, <1>3, <1>4, <1>5 DEF d

\* A definition that is read is the one that is there.
LEMMA ReadKeepsStage ==
  ASSUME IInv, NEW p \in Procs, Read(p), Stage(p), Active(p)'
  PROVE  Stage(p)'
  <1>1. TInv /\ StoreFits /\ At(p) = "read"
    BY Doing DEF IInv, Read
  <1>2. CASE Done(p)
    BY <1>1, <1>2, Ended
  <1>3. CASE ~Done(p)
    <2> DEFINE c == Current(p)
               T == proc[p].todo
    <2>1. /\ c \in T /\ c \in Slugs /\ proc'[p].todo = T \ {c}
          /\ proc'[p].at = (IF proc'[p].todo = {} THEN AfterRead(p) ELSE "read")
          /\ proc[p].recs \in [Slugs -> Revs]
          /\ proc'[p].recs = [proc[p].recs EXCEPT ![c] = Definitions[c]]
          /\ Definitions[c] # 0 /\ graph' = graph
      BY <1>1, <1>3, ReadDoes
    <2>2. /\ T \subseteq Listed
          /\ \A s \in Slugs : proc[p].recs[s] = IF s \in T THEN 0 ELSE Definitions[s]
      BY <1>1 DEF Stage, ReadStage
    <2>3. Definitions' = Definitions /\ Listed' = Listed
      BY <2>1, SameDefinitions
    <2> HIDE DEF c, T
    <2>4. \A s \in Slugs : proc'[p].recs[s] = IF s \in T \ {c} THEN 0 ELSE Definitions[s]
      BY <2>1, <2>2
    <2>5. CASE proc'[p].todo # {}
      BY <2>1, <2>2, <2>3, <2>4, <2>5 DEF Stage, PutStage, MoveStage, ReadStage, AskStage, At
    <2>6. CASE proc'[p].todo = {}
      <3>1. \A s \in Slugs : proc'[p].recs[s] = Definitions[s]
        BY <2>1, <2>4, <2>6
      <3>2. proc'[p].recs = Definitions
        BY <2>1, <3>1 DEF Definitions
      <3>3. \A s \in Slugs : Definitions[s] # 0 => graph'[s].rev # 0
        BY <1>1, <2>1, Defining
      <3>4. proc'[p].at \in {"repoint", "publish"}
        BY <2>1, <2>6 DEF AfterRead
      <3> QED
        BY <2>3, <3>2, <3>3, <3>4 DEF Stage, PutStage, MoveStage, ReadStage, AskStage, At, Present
    <2> QED
      BY <2>5, <2>6
  <1> QED
    BY <1>2, <1>3

\* Calls that go on to one that needs nothing.
LEMMA PassStage ==
  ASSUME IInv, NEW p \in Procs, Active(p)',
         \/ Publish(p) \/ Advertise(p) \/ EndMigration(p)
         \/ p = Server /\ (BackfillConformance \/ RebuildDerived \/ Serve)
  PROVE  Stage(p)'
  <1>1. TInv
    BY DEF IInv
  <1>2. ASSUME NEW call \in {"advertise", "affected", "warm", "invalidate", "reindex"}, Goto(p, call) PROVE Stage(p)'
    BY <1>1, <1>2, Went, Unstaged DEF At, Staging
  <1>3. ASSUME Goto(p, "publish"), p = Server PROVE Stage(p)'
    <2>1. proc'[p].at = "publish"
      BY <1>1, <1>3, Went
    <2> QED
      BY <1>3, <2>1 DEF Stage, PutStage, MoveStage, ReadStage, AskStage, At
  <1>4. ~Done(p)
    BY <1>1, Ended
  <1>5. ~(p = Server /\ Serve)
    <2> SUFFICES ASSUME p = Server, Serve PROVE FALSE
      OBVIOUS
    <2>1. proc' = [proc EXCEPT ![p] = [Idle EXCEPT !.at = "serving"]]
      BY DEF Serve, Rest, Becomes
    <2>2. proc'[p].at = "serving"
      BY <1>1, <2>1, AtRest, Doing DEF ProcsFit, Process
    <2> QED
      BY <2>2 DEF Active, At, Resting
  <1> QED
    BY <1>2, <1>3, <1>4, <1>5
       DEF Publish, Advertise, EndMigration, BackfillConformance, RebuildDerived

\* What is an older name of something is one of the names of before.
LEMMA Formers == ASSUME NEW n PROVE Formerly(n) \subseteq Older /\ (n \notin Renamed => Formerly(n) = {})
  BY DEF Formerly, Older, Renamed

\* The place of a graph that a migration takes up: its own, or the only one that it was before.
LEMMA Places ==
  ASSUME NEW p \in Procs, NEW c \in Names, Op(p) = "relocate" => c \in DOMAIN Moved
  PROVE  LET t == Target(p, c)
         IN /\ t \in Names /\ (Op(p) = "relocate" => t # c)
            /\ t # c => /\ c \in Older /\ c \in Formerly(t) /\ c \notin Slugs
                        /\ t \in Renamed /\ t \notin Older /\ t \notin Slugs
                        /\ \A n : c \in Formerly(n) => n = t
  <1> DEFINE t == Target(p, c)
  <1>1. /\ Older \subseteq Names /\ Renamed \subseteq Names /\ Older \intersect Slugs = {}
        /\ Renamed \intersect Slugs = {} /\ Older \intersect Renamed = {}
        /\ DOMAIN Legacy \intersect DOMAIN Moved = {}
    BY NamesApart, ProfileAssumption DEF ProfileAssumption
  <1>2. CASE Op(p) = "relocate"
    <2>1. t = Moved[c] /\ c \in DOMAIN Moved
      BY <1>2 DEF Target
    <2>2. c \in Older /\ t \in Renamed /\ c \in Formerly(t)
      BY <2>1 DEF Older, Renamed, Formerly
    <2>3. \A n : c \in Formerly(n) => n = t
      BY <1>1, <2>1 DEF Formerly
    <2> QED
      BY <1>1, <2>2, <2>3
  <1>3. CASE Op(p) # "relocate" /\ c \in DOMAIN Legacy
    <2>1. t = Legacy[c]
      BY <1>3 DEF Target
    <2>2. c \in Older /\ t \in Renamed /\ c \in Formerly(t)
      BY <1>3, <2>1 DEF Older, Renamed, Formerly
    <2>3. \A n : c \in Formerly(n) => n = t
      BY <1>1, <1>3, <2>1 DEF Formerly
    <2> QED
      BY <1>1, <1>3, <2>2, <2>3
  <1>4. CASE Op(p) # "relocate" /\ c \notin DOMAIN Legacy
    BY <1>4 DEF Target
  <1> QED
    BY <1>2, <1>3, <1>4

\* What a migration asks for.
LEMMA AffectedDoes ==
  ASSUME TInv, NEW p \in Procs, Affected(p)
  PROVE  /\ proc'[p].todo = ToMigrate(p) /\ proc'[p].op = Op(p) /\ graph' = graph
         /\ proc'[p].b = proc[p].b
         /\ proc'[p].at = (IF ToMigrate(p) = {} THEN AfterMigration(p) ELSE "copy")
  <1> DEFINE S    == ToMigrate(p)
             k    == IF S = {} THEN 0 ELSE 1
             call == IF S = {} THEN AfterMigration(p) ELSE "copy"
  <1>1. Becomes(p, [proc[p] EXCEPT !.todo = S, !.n = k, !.at = call]) /\ graph' = graph
    BY DEF Affected
  <1>2. proc \in [Procs -> Process] /\ proc[p] \in Process
    BY Doing DEF ProcsFit
  <1> HIDE DEF S, k, call
  <1>3. proc'[p].at = call /\ proc'[p].todo = S /\ proc'[p].op = Op(p) /\ proc'[p].b = proc[p].b
    BY <1>1, <1>2 DEF Becomes, Process, Op
  <1> QED
    BY <1>1, <1>3 DEF S, call

\* How it goes on.
LEMMA NextDoes ==
  ASSUME TInv, NEW p \in Procs, At(p) \in {"copy", "replace", "drop"}, NextGraph(p)
  PROVE  /\ Current(p) \in proc[p].todo /\ Current(p) \in Names
         /\ proc'[p].todo = proc[p].todo \ {Current(p)}
         /\ proc'[p].op = Op(p) /\ proc'[p].b = proc[p].b
         /\ proc'[p].at = (IF proc'[p].todo = {} THEN AfterMigration(p) ELSE "copy")
  <1> DEFINE f == Further(p, "copy", AfterMigration(p))
  <1>1. /\ proc \in [Procs -> Process] /\ proc[p] \in Process /\ proc[p].todo # {}
        /\ AfterMigration(p) \in Calls /\ "copy" \in Calls
    BY Doing, MovesOn DEF ProcsFit, Sized, At, Moving
  <1>2. /\ Current(p) \in proc[p].todo /\ Current(p) \in Names
        /\ f.todo = proc[p].todo \ {Current(p)}
        /\ f.at = (IF f.todo = {} THEN AfterMigration(p) ELSE "copy") /\ f.op = Op(p)
        /\ f.b = proc[p].b
    BY <1>1, Onward
  <1> HIDE DEF f
  <1>3. proc'[p] = f
    BY <1>1 DEF NextGraph, Becomes, f
  <1> QED
    BY <1>2, <1>3

\* What a copy does.
LEMMA CopyDoes ==
  ASSUME TInv, NEW p \in Procs, Copy(p)
  PROVE  /\ graph' = graph /\ proc[p].todo # {} /\ Current(p) \in proc[p].todo
         /\ Current(p) \in Names
         /\ \/ NextGraph(p) /\ Op(p) = "relocate"
            \/ /\ Op(p) = "relocate" => Present(Current(p))
               /\ proc'[p].at = "replace" /\ proc'[p].mem = graph[Current(p)]
               /\ proc'[p].todo = proc[p].todo /\ proc'[p].op = Op(p) /\ proc'[p].b = proc[p].b
  <1>1. /\ proc \in [Procs -> Process] /\ proc[p] \in Process /\ proc[p].todo # {}
        /\ graph' = graph
    BY Doing, MovesOn DEF Copy, ProcsFit, Sized, At
  <1>2. Current(p) \in proc[p].todo /\ Current(p) \in Names
    BY <1>1, OneOf DEF Current, Process
  <1>3. CASE Op(p) = "relocate" /\ ~Present(Current(p))
    BY <1>1, <1>2, <1>3 DEF Copy
  <1>4. CASE ~(Op(p) = "relocate" /\ ~Present(Current(p)))
    <2> DEFINE g == graph[Current(p)]
    <2>1. Becomes(p, [proc[p] EXCEPT !.mem = g, !.at = "replace"])
      BY <1>4 DEF Copy
    <2> HIDE DEF g
    <2>2. proc'[p].at = "replace" /\ proc'[p].mem = g /\ proc'[p].todo = proc[p].todo /\ proc'[p].op = Op(p)
          /\ proc'[p].b = proc[p].b
      BY <1>1, <2>1 DEF Becomes, Process, Op
    <2> QED
      BY <1>1, <1>2, <1>4, <2>2 DEF g
  <1> QED
    BY <1>3, <1>4

\* A migration that goes on with the next graph: what is old is still to do.
LEMMA NextStage ==
  ASSUME TInv, TInv', NEW p \in Procs, At(p) \in {"copy", "replace", "drop"}, NextGraph(p),
         Op(p) = "relocate" => proc[p].todo \subseteq DOMAIN Moved,
         Op(p) # "relocate" =>
           \A n \in Names : (graph'[n].old => n \in proc[p].todo \ {Current(p)})
                              /\ (n \in proc[p].todo \ {Current(p)} => graph'[n].rev # 0)
  PROVE  Stage(p)'
  <1>1. /\ proc'[p].todo = proc[p].todo \ {Current(p)} /\ proc'[p].op = Op(p)
        /\ proc'[p].at = (IF proc'[p].todo = {} THEN AfterMigration(p) ELSE "copy")
    BY NextDoes
  <1>2. proc'[p].at \in {"copy", "list", "migrated"}
    BY <1>1 DEF AfterMigration
  <1>3. MoveStage(p)'
    BY <1>1, <1>2 DEF MoveStage, At, Op, Present
  <1> QED
    BY <1>2, <1>3 DEF Stage, PutStage, ReadStage, AskStage, At

\* All that is old is to be migrated.
LEMMA AffectedStage ==
  ASSUME IInv, NEW p \in Procs, Affected(p)
  PROVE  Stage(p)'
  <1>1. TInv /\ StoreFits
    BY Doing DEF IInv
  <1>2. /\ proc'[p].todo = ToMigrate(p) /\ proc'[p].op = Op(p) /\ graph' = graph
        /\ proc'[p].at = (IF ToMigrate(p) = {} THEN AfterMigration(p) ELSE "copy")
    BY <1>1, AffectedDoes
  <1>3. proc'[p].at \in {"copy", "list", "migrated"}
    BY <1>2 DEF AfterMigration
  <1>4. ASSUME NEW n \in Names, graph[n].old PROVE graph[n].rev # 0
    <2>1. Solid(graph[n])
      BY <1>1 DEF StoreFits
    <2> QED
      BY <1>4, <2>1, AtRest DEF Solid
  <1>5. MoveStage(p)'
    BY <1>2, <1>3, <1>4 DEF MoveStage, At, Op, Present, ToMigrate
  <1> QED
    BY <1>3, <1>5 DEF Stage, PutStage, ReadStage, AskStage, At

\* What is copied is what is there.
LEMMA CopyStage ==
  ASSUME IInv, TInv', NEW p \in Procs, Copy(p), Stage(p)
  PROVE  Stage(p)'
  <1>1. TInv /\ At(p) = "copy"
    BY DEF IInv, Copy
  <1>2. /\ Op(p) = "relocate" => proc[p].todo \subseteq DOMAIN Moved
        /\ Op(p) # "relocate" =>
             \A n \in Names : (graph[n].old => n \in proc[p].todo) /\ (n \in proc[p].todo => Present(n))
    BY <1>1 DEF Stage, MoveStage
  <1>3. CASE NextGraph(p) /\ Op(p) = "relocate"
    BY <1>1, <1>2, <1>3, NextStage
  <1>4. CASE /\ Op(p) = "relocate" => Present(Current(p))
             /\ proc'[p].at = "replace" /\ proc'[p].mem = graph[Current(p)]
             /\ proc'[p].todo = proc[p].todo /\ proc'[p].op = Op(p) /\ proc'[p].b = proc[p].b
    <2>1. graph' = graph /\ Current(p) \in proc[p].todo /\ Current(p) \in Names
      BY <1>1, CopyDoes
    <2>2. Current(p)' = Current(p)
      BY <1>4 DEF Current
    <2>3. MoveStage(p)'
      BY <1>2, <1>4, <2>1, <2>2 DEF MoveStage, At, Op, Present
    <2> QED
      BY <1>4, <2>3 DEF Stage, PutStage, ReadStage, AskStage, At
  <1> QED
    BY <1>1, <1>3, <1>4, CopyDoes

\* What a replacement of a graph by one that is alone does.
LEMMA ReplaceDoes ==
  ASSUME TInv, NEW p \in Procs, At(p) = "replace", Stage(p)
  PROVE  /\ Current(p) \in proc[p].todo /\ Current(p) \in Names
         /\ (Op(p) = "relocate" => Current(p) \in DOMAIN Moved)
         /\ graph \in [Names -> Graphs] /\ Rewritten(p).rev = graph[Current(p)].rev
         /\ graph[Current(p)].rev # 0
         /\ Op(p) # "relocate" => Rewritten(p).old = FALSE
  <1>1. /\ proc[p].todo # {} /\ proc[p] \in Process /\ Solid(proc[p].mem)
        /\ graph \in [Names -> Graphs]
    BY Doing DEF Sized, At, Fits, StoreFits
  <1>2. Current(p) \in proc[p].todo /\ Current(p) \in Names
    BY <1>1, OneOf DEF Current, Process
  <1>3. Present(Current(p)) /\ proc[p].mem = graph[Current(p)]
        /\ (Op(p) = "relocate" => proc[p].todo \subseteq DOMAIN Moved)
    BY DEF Stage, MoveStage
  <1> QED
    BY <1>1, <1>2, <1>3, RewrittenSolid DEF Present

\* Once a graph is in its place and no longer where it was, what is old is among the rest.
LEMMA RestIsOld ==
  ASSUME TInv, NEW p \in Procs, Stage(p), Op(p) # "relocate",
         \/ Replace(p) /\ Target(p, Current(p)) = Current(p)
         \/ DropOld(p)
  PROVE  \A n \in Names : (graph'[n].old => n \in proc[p].todo \ {Current(p)})
                            /\ (n \in proc[p].todo \ {Current(p)} => graph'[n].rev # 0)
  <1> DEFINE c == Current(p)
             T == proc[p].todo
             w == Rewritten(p)
  <1>1. At(p) \in {"replace", "drop"}
    BY DEF Replace, DropOld
  <1>2. \A n \in Names : (graph[n].old => n \in T) /\ (n \in T => graph[n].rev # 0)
    BY <1>1 DEF Stage, MoveStage, Present
  <1>3. c \in T /\ c \in Names /\ graph \in [Names -> Graphs]
    <2>1. proc[p].todo # {} /\ proc[p] \in Process /\ graph \in [Names -> Graphs]
      BY <1>1, Doing DEF Sized, At, StoreFits
    <2> QED
      BY <2>1, OneOf DEF Current, Process
  <1>4. CASE Replace(p) /\ Target(p, c) = c
    <2>1. graph' = [graph EXCEPT ![c] = w] /\ At(p) = "replace"
      BY <1>4 DEF Replace, Store, Replaced
    <2>2. w.old = FALSE
      BY <2>1, ReplaceDoes
    <2> HIDE DEF c, T, w
    <2>3. \A n \in Names : (graph'[n].old => n \in T \ {c}) /\ (n \in T \ {c} => graph'[n].rev # 0)
      BY <1>2, <1>3, <2>1, <2>2
    <2> QED
      BY <2>3 DEF c, T
  <1>5. CASE DropOld(p)
    <2>1. graph' = [graph EXCEPT ![c] = Absent]
      BY <1>5 DEF DropOld, Store
    <2> HIDE DEF c, T
    <2>2. \A n \in Names : (graph'[n].old => n \in T \ {c}) /\ (n \in T \ {c} => graph'[n].rev # 0)
      BY <1>2, <1>3, <2>1, AtRest
    <2> QED
      BY <2>2 DEF c, T
  <1> QED
    BY <1>4, <1>5

\* What was copied is in its place before it is dropped where it was.
LEMMA ReplaceStage ==
  ASSUME IInv, TInv', NEW p \in Procs, Replace(p), Stage(p)
  PROVE  Stage(p)'
  <1> DEFINE c == Current(p)
             t == Target(p, c)
             T == proc[p].todo
             w == Rewritten(p)
  <1>1. TInv /\ At(p) = "replace" /\ graph' = [graph EXCEPT ![t] = w]
        /\ (IF t = c THEN NextGraph(p) ELSE Goto(p, "drop"))
    BY DEF IInv, Replace, Store, Replaced
  <1>2. /\ c \in T /\ c \in Names /\ (Op(p) = "relocate" => c \in DOMAIN Moved)
        /\ graph \in [Names -> Graphs] /\ w.rev = graph[c].rev /\ graph[c].rev # 0
        /\ (Op(p) # "relocate" => w.old = FALSE)
    BY <1>1, ReplaceDoes
  <1>3. t \in Names /\ (Op(p) = "relocate" => t # c)
    BY <1>2, Places
  <1>4. /\ Op(p) = "relocate" => T \subseteq DOMAIN Moved
        /\ Op(p) # "relocate" =>
             \A n \in Names : (graph[n].old => n \in T) /\ (n \in T => graph[n].rev # 0)
    BY <1>1 DEF Stage, MoveStage, Present
  <1>5. CASE t = c
    <2>1. NextGraph(p) /\ Op(p) # "relocate"
      BY <1>1, <1>3, <1>5
    <2>2. \A n \in Names : (graph'[n].old => n \in T \ {c}) /\ (n \in T \ {c} => graph'[n].rev # 0)
      BY <1>1, <1>5, <2>1, RestIsOld
    <2> QED
      BY <1>1, <1>4, <2>1, <2>2, NextStage
  <1>6. CASE t # c
    <2>1. proc'[p].at = "drop" /\ proc'[p].op = Op(p) /\ proc'[p].todo = T
      BY <1>1, <1>6, Went
    <2>2. Current(p)' = c /\ Target(p, c)' = t
      BY <2>1 DEF Current, Target, Op
    <2> HIDE DEF c, t, T, w
    <2>3. graph'[t].rev = graph'[c].rev
      BY <1>1, <1>2, <1>3, <1>6
    <2>4. Op(p) # "relocate" =>
            \A n \in Names : (graph'[n].old => n \in T) /\ (n \in T => graph'[n].rev # 0)
      BY <1>1, <1>2, <1>3, <1>4, <1>6
    <2>5. Target(p, Current(p))' = t
      BY <2>1, <2>2 DEF Target, Op, t
    <2>6. MoveStage(p)'
      BY <1>4, <1>6, <2>1, <2>2, <2>3, <2>4, <2>5 DEF MoveStage, At, Op, Present
    <2> QED
      BY <2>1, <2>6 DEF Stage, PutStage, ReadStage, AskStage, At
  <1> QED
    BY <1>5, <1>6

\* What is dropped where it was is done.
LEMMA DropStage ==
  ASSUME IInv, TInv', NEW p \in Procs, DropOld(p), Stage(p)
  PROVE  Stage(p)'
  <1>1. TInv /\ At(p) = "drop" /\ NextGraph(p)
    BY DEF IInv, DropOld
  <1>2. Op(p) = "relocate" => proc[p].todo \subseteq DOMAIN Moved
    BY <1>1 DEF Stage, MoveStage
  <1> QED
    BY <1>1, <1>2, RestIsOld, NextStage

\* What writing back a definition does.
LEMMA RepointDoes ==
  ASSUME TInv, NEW p \in Procs, Repoint(p), ~Done(p)
  PROVE  LET s == First({t \in Slugs : proc[p].recs[t] # 0})
         IN /\ s \in Slugs /\ s \in Names /\ proc[p].recs[s] # 0 /\ proc[p].recs \in [Slugs -> Revs]
            /\ graph' = [graph EXCEPT ![s] = [rev |-> proc[p].recs[s], old |-> FALSE]]
            /\ proc'[p].recs = [proc[p].recs EXCEPT ![s] = 0] /\ proc'[p].at = "repoint"
            /\ graph \in [Names -> Graphs]
  <1> DEFINE todo == {t \in Slugs : proc[p].recs[t] # 0}
             s == First(todo)
             d == [proc[p].recs EXCEPT ![s] = 0]
  <1>1. todo # {} /\ At(p) = "repoint" /\ Becomes(p, [proc[p] EXCEPT !.recs = d])
        /\ graph' = [graph EXCEPT ![s] = [rev |-> proc[p].recs[s], old |-> FALSE]]
    BY DEF Repoint, Store
  <1>2. proc \in [Procs -> Process] /\ proc[p] \in Process /\ graph \in [Names -> Graphs]
    BY Doing DEF ProcsFit, StoreFits
  <1>3. s \in Slugs /\ proc[p].recs[s] # 0
    <2>1. s \in todo
      BY <1>1, OneOf
    <2> HIDE DEF s
    <2> QED
      BY <2>1
  <1>4. proc[p].recs \in [Slugs -> Revs]
    BY <1>2 DEF Process
  <1> HIDE DEF d, todo, s
  <1>5. proc'[p].recs = d /\ proc'[p].at = "repoint"
    BY <1>1, <1>2 DEF Becomes, Process, At
  <1>6. s \in Names
    BY <1>3, NamesApart
  <1> QED
    BY <1>1, <1>2, <1>3, <1>4, <1>5, <1>6 DEF d, s, todo

\* A definition that is written back was there.
LEMMA RepointStage ==
  ASSUME IInv, NEW p \in Procs, Repoint(p), Stage(p), Active(p)'
  PROVE  Stage(p)'
  <1> DEFINE s == First({t \in Slugs : proc[p].recs[t] # 0})
  <1>1. TInv /\ At(p) = "repoint"
    BY DEF IInv, Repoint
  <1>2. ~Done(p)
    BY <1>1, Ended
  <1>3. /\ s \in Slugs /\ s \in Names /\ proc[p].recs[s] # 0 /\ proc[p].recs \in [Slugs -> Revs]
        /\ graph' = [graph EXCEPT ![s] = [rev |-> proc[p].recs[s], old |-> FALSE]]
        /\ proc'[p].recs = [proc[p].recs EXCEPT ![s] = 0] /\ proc'[p].at = "repoint"
        /\ graph \in [Names -> Graphs]
    BY <1>1, <1>2, RepointDoes
  <1>4. \A t \in Slugs : proc[p].recs[t] # 0 => graph[t].rev # 0
    BY <1>1 DEF Stage, ReadStage, Present
  <1> HIDE DEF s
  <1>5. \A t \in Slugs : proc'[p].recs[t] # 0 => graph'[t].rev # 0
    BY <1>3, <1>4, NamesApart
  <1> QED
    BY <1>3, <1>5 DEF Stage, PutStage, MoveStage, ReadStage, AskStage, At, Present

\* A definition is written only when its schema was found.
LEMMA AskKeepsStage ==
  ASSUME IInv, NEW p \in Procs, AskSchema(p), Active(p)'
  PROVE  Stage(p)'
  <1>1. TInv /\ graph' = graph
    BY DEF IInv, AskSchema
  <1>2. Present(SchemaOf[Current(p)]) /\ Goto(p, "change")
    BY <1>1, Ended DEF AskSchema
  <1>3. proc'[p].at = "change" /\ proc'[p].todo = proc[p].todo
    BY <1>1, <1>2, Went
  <1>4. Current(p)' = Current(p)
    BY <1>3 DEF Current
  <1> QED
    BY <1>1, <1>2, <1>3, <1>4 DEF Stage, PutStage, MoveStage, ReadStage, AskStage, At, Present

\* Reconciling, and what an administrator changed, has nothing to remember.
LEMMA OtherStage ==
  ASSUME IInv, NEW p \in Procs, Active(p)',
         Undo(p) \/ Reconcile(p) \/ ListOrphans(p) \/ Unlink(p) \/ RetypeRoot(p) \/ Change(p)
  PROVE  Stage(p)'
  <1>1. TInv /\ ~Done(p) /\ proc \in [Procs -> Process] /\ proc[p] \in Process
    BY Ended, Doing DEF IInv, ProcsFit
  <1>2. CASE Undo(p)
    <2>1. Becomes(p, [proc[p] EXCEPT !.n = proc[p].n - 1]) /\ At(p) = "undo"
      BY <1>1, <1>2 DEF Undo
    <2>2. proc'[p].at = "undo"
      BY <1>1, <2>1 DEF Becomes, Process, At
    <2> QED
      BY <2>2, Unstaged DEF At, Staging
  <1>3. CASE Reconcile(p)
    <2> DEFINE call == IF proc[p].n = Len(Reconciled(p)) THEN "orphans" ELSE "reconcile"
               k == proc[p].n + 1
    <2>1. Becomes(p, [proc[p] EXCEPT !.n = k, !.at = call]) /\ call \in {"orphans", "reconcile"}
      BY <1>3 DEF Reconcile
    <2> HIDE DEF call, k
    <2>2. proc'[p].at = call
      BY <1>1, <2>1 DEF Becomes, Process
    <2> QED
      BY <2>1, <2>2, Unstaged DEF At, Staging
  <1>4. CASE ListOrphans(p)
    <2> DEFINE S == Listed \ Elems(Own(p).defs)
               call == IF S = {} THEN "retype" ELSE "unlink"
    <2>1. Becomes(p, [proc[p] EXCEPT !.todo = S, !.at = call]) /\ call \in {"retype", "unlink"}
      BY <1>4 DEF ListOrphans
    <2> HIDE DEF call, S
    <2>2. proc'[p].at = call
      BY <1>1, <2>1 DEF Becomes, Process
    <2> QED
      BY <2>1, <2>2, Unstaged DEF At, Staging
  <1>5. CASE Unlink(p)
    <2> DEFINE f == Further(p, "unlink", "retype")
    <2>1. Becomes(p, f) /\ proc[p].todo # {}
      BY <1>1, <1>5, Doing DEF Unlink, Sized, At
    <2>2. f.at \in {"unlink", "retype"}
      <3>1. "unlink" \in Calls /\ "retype" \in Calls
        BY DEF Calls
      <3>2. f.at = (IF f.todo = {} THEN "retype" ELSE "unlink")
        BY <1>1, <2>1, <3>1, Onward
      <3> QED
        BY <3>2
    <2> HIDE DEF f
    <2>3. proc'[p].at \in {"unlink", "retype"}
      BY <1>1, <2>1, <2>2 DEF Becomes
    <2> QED
      BY <2>3, Unstaged DEF At, Staging
  <1>6. ~RetypeRoot(p)
    BY <1>1 DEF RetypeRoot
  <1>7. CASE Change(p)
    <2>1. proc'[p].at = "list"
      BY <1>1, <1>7, Went DEF Change, AfterChange
    <2> QED
      BY <2>1, Unstaged DEF At, Staging
  <1> QED
    BY <1>2, <1>3, <1>4, <1>5, <1>6, <1>7

\* What catching an exception does.
LEMMA CaughtDoes ==
  ASSUME TInv, NEW p \in Procs, Caught(p), Active(p)
  PROVE  \/ Done(p) /\ At(p) \notin {"put", "record", "undo"}
         \/ At(p) \in {"put", "record"} /\ proc'[p].at = "undo" /\ proc'[p].n = Written(p) /\ proc'[p].b = proc[p].b
         \/ At(p) = "undo" /\ proc'[p].at = "undo" /\ proc'[p].n = proc[p].n - 1 /\ proc'[p].b = proc[p].b
         \/ p = Server /\ Migrating(p) /\ proc'[p].at = "warm"
  <1>1. proc \in [Procs -> Process] /\ proc[p] \in Process
    BY Doing DEF ProcsFit
  <1>2. CASE At(p) \in {"put", "record"}
    <2> DEFINE k == Written(p)
    <2>1. Becomes(p, [proc[p] EXCEPT !.n = k, !.at = "undo"])
      BY <1>2 DEF Caught, Compensate
    <2> HIDE DEF k
    <2>2. proc'[p].at = "undo" /\ proc'[p].n = k /\ proc'[p].b = proc[p].b
      BY <1>1, <2>1 DEF Becomes, Process
    <2> QED
      BY <1>2, <2>2 DEF k
  <1>3. CASE At(p) = "undo"
    <2> DEFINE k == proc[p].n - 1
    <2>1. Becomes(p, [proc[p] EXCEPT !.n = k])
      BY <1>3 DEF Caught
    <2> HIDE DEF k
    <2>2. proc'[p].at = "undo" /\ proc'[p].n = k /\ proc'[p].b = proc[p].b
      BY <1>1, <1>3, <2>1 DEF Becomes, Process, At
    <2> QED
      BY <1>3, <2>2 DEF k
  <1>4. CASE At(p) \notin {"put", "record", "undo"} /\ p = Server /\ Migrating(p)
    <2>1. Goto(p, "warm")
      BY <1>4 DEF Caught
    <2> QED
      BY <1>4, <2>1, Went
  <1>5. CASE At(p) \notin {"put", "record", "undo"} /\ ~(p = Server /\ Migrating(p))
    BY <1>5 DEF Caught
  <1> QED
    BY <1>2, <1>3, <1>4, <1>5

\* An exception leaves nothing to remember.
LEMMA RaiseStage ==
  ASSUME IInv, NEW p \in Procs, Raise(p), Active(p)'
  PROVE  Stage(p)'
  <1>1. TInv /\ Caught(p) /\ Active(p)
    BY DEF IInv, Raise
  <1>2. proc'[p].at \in {"undo", "warm"}
    BY <1>1, CaughtDoes, Ended
  <1> QED
    BY <1>2, Unstaged DEF At, Staging

\* What a process that goes on leaves of who is alone.
LEMMA StepLeaves ==
  ASSUME IInv, NEW p \in Procs, Step(p) \/ Raise(p) \/ (p = Server /\ (BackfillConformance \/ RebuildDerived \/ Serve))
  PROVE  /\ Active(p) /\ alone' = alone /\ ("mixed" \in spoiled => "mixed" \in spoiled')
         /\ ~behind' => ~behind \/ alone[p]
  <1>1. CASE Step(p)
    <2>1. Active(p)
      BY <1>1
         DEF Step, CheckApplied, Put, Record, Undo, Wipe, Clear, List, Read, Publish, Advertise,
             Affected, Copy, Replace, DropOld, EndMigration, Repoint, Reconcile, ListOrphans,
             Unlink, RetypeRoot, AskSchema, Change, Active, Resting
    <2>2. alone' = alone
      BY <1>1
         DEF Step, CheckApplied, Put, Record, Undo, Wipe, Clear, List, Read, Publish, Advertise,
             Affected, Copy, Replace, DropOld, EndMigration, Repoint, Reconcile, ListOrphans,
             Unlink, RetypeRoot, AskSchema, Change
    <2>3. "mixed" \in spoiled => "mixed" \in spoiled'
      BY <1>1
         DEF Step, CheckApplied, Put, Record, Undo, Wipe, Clear, List, Read, Publish, Advertise,
             Affected, Copy, Replace, DropOld, EndMigration, Repoint, Reconcile, ListOrphans,
             Unlink, RetypeRoot, AskSchema, Change
    <2>4. ~behind' => ~behind \/ alone[p]
      BY <1>1
         DEF Step, CheckApplied, Put, Record, Undo, Wipe, Clear, List, Read, Publish, Advertise,
             Affected, Copy, Replace, DropOld, EndMigration, Repoint, Reconcile, ListOrphans,
             Unlink, RetypeRoot, AskSchema, Change, Store
    <2> QED
      BY <2>1, <2>2, <2>3, <2>4
  <1>2. CASE Raise(p)
    BY <1>2 DEF Raise
  <1>3. CASE p = Server /\ (BackfillConformance \/ RebuildDerived \/ Serve)
    BY <1>3 DEF BackfillConformance, RebuildDerived, Serve, Active, Resting
  <1> QED
    BY <1>1, <1>2, <1>3

\* A process that goes on keeps what is known of processes that are alone.
LEMMA StepKeeps ==
  ASSUME IInv, NEW p \in Procs, Step(p) \/ Raise(p) \/ (p = Server /\ (BackfillConformance \/ RebuildDerived \/ Serve))
  PROVE  IInv'
  <1>1. TInv /\ Mover(p)
    BY DEF IInv, Mover
  <1>2. TInv' /\ \A q \in Procs : q # p => proc'[q] = proc[q]
    BY <1>1, MoverFits
  <1>3. /\ Active(p) /\ alone' = alone /\ ("mixed" \in spoiled => "mixed" \in spoiled')
        /\ ~behind' => ~behind \/ alone[p]
    BY StepLeaves
  <1>4. ASSUME alone[p], Active(p)' PROVE Stage(p)'
    <2>1. Stage(p)
      BY <1>3, <1>4, OnlyOne
    <2> QED
      BY <1>2, <1>4, <2>1, CheckStage, PutKeepsStage, RecordStage, WipeStage, ClearStage,
         ListStage, ReadKeepsStage, PassStage, AffectedStage, CopyStage, ReplaceStage, DropStage,
         RepointStage, AskKeepsStage, OtherStage, RaiseStage DEF Step
  <1> QED
    BY <1>2, <1>3, <1>4, Within

\* Who begins.
Begins(p) == \/ p = Server /\ Boot
             \/ p = Cli /\ Command
             \/ p \in Requests /\ (Reset(p) \/ Administer(p))

\* What beginning leaves: who begins beside others is not alone, nor are they.
LEMMA BeginDoes ==
  ASSUME TInv, NEW p \in Procs, NEW op, NEW b, NEW call, Begin(p, op, b, call),
         op \in Ops, b \in DOMAIN Bundles, call \in Calls
  PROVE  /\ proc'[p].at = call /\ proc'[p].op = op
         /\ \/ /\ \A q \in Procs : q # p => ~Active(q)
               /\ alone' = [q \in Procs |-> q = p] /\ spoiled' = spoiled
               /\ ~behind' => IF p = Server THEN AutoApply ELSE ~behind
            \/ /\ alone' = [q \in Procs |-> FALSE] /\ "mixed" \in spoiled' /\ behind'
  <1> DEFINE r == [Idle EXCEPT !.op = op, !.at = call, !.b = b]
             others == {q \in Procs \ {p} : Active(q)}
  <1>1. /\ proc' = [proc EXCEPT ![p] = r] /\ alone' = [q \in Procs |-> q = p /\ others = {}]
        /\ spoiled' = IF others = {} THEN spoiled ELSE spoiled \union {"mixed"}
        /\ behind' = (others # {} \/ IF p = Server THEN ~AutoApply ELSE behind)
    BY DEF Begin, Becomes
  <1>2. r.at = call /\ r.op = op
    BY AtRest DEF Process
  <1>3. proc'[p] = r
    BY <1>1, Doing DEF ProcsFit
  <1>4. CASE others = {}
    <2>1. \A q \in Procs : q # p => ~Active(q)
      BY <1>4
    <2>2. alone' = [q \in Procs |-> q = p]
      BY <1>1, <1>4, Zenon
    <2>3. spoiled' = spoiled /\ (~behind' => IF p = Server THEN AutoApply ELSE ~behind)
      BY <1>1, <1>4
    <2> QED
      BY <1>2, <1>3, <2>1, <2>2, <2>3, Zenon
  <1>5. CASE others # {}
    <2>1. alone' = [q \in Procs |-> FALSE]
      BY <1>1, <1>5, Zenon
    <2>2. "mixed" \in spoiled' /\ behind'
      BY <1>1, <1>5
    <2> QED
      BY <1>2, <1>3, <2>1, <2>2, Zenon
  <1> QED
    BY <1>4, <1>5

\* An administrator's beginning.
LEMMA AdministerDoes ==
  ASSUME TInv, NEW p \in Requests, Administer(p)
  PROVE  /\ \/ proc'[p].at = "ask"
            \/ proc'[p].at = "change" /\ proc'[p].op = "delete"
         /\ \/ /\ \A q \in Procs : q # p => ~Active(q)
               /\ alone' = [q \in Procs |-> q = p] /\ spoiled' = spoiled
               /\ ~behind' => ~behind
            \/ /\ alone' = [q \in Procs |-> FALSE] /\ "mixed" \in spoiled' /\ behind'
  <1>1. PICK op \in {"create", "replace", "delete"}, s \in Slugs :
          LET first == IF op = "delete" THEN "change" ELSE "ask"
          IN /\ Becomes(p, [Idle EXCEPT !.op = op, !.at = first, !.todo = {s}, !.rev = Len(Bundles) + events'])
             /\ LET others == {q \in Procs \ {p} : Active(q)}
                IN /\ alone' = [q \in Procs |-> q = p /\ others = {}]
                   /\ spoiled' = IF others = {} THEN spoiled ELSE spoiled \union {"mixed"}
                   /\ behind' = (behind \/ others # {})
    BY DEF Administer
  <1> DEFINE first == IF op = "delete" THEN "change" ELSE "ask"
             v == Len(Bundles) + events'
             S == {s}
             r == [Idle EXCEPT !.op = op, !.at = first, !.todo = S, !.rev = v]
             others == {q \in Procs \ {p} : Active(q)}
  <1>2. /\ proc' = [proc EXCEPT ![p] = r] /\ alone' = [q \in Procs |-> q = p /\ others = {}]
        /\ spoiled' = IF others = {} THEN spoiled ELSE spoiled \union {"mixed"}
        /\ behind' = (behind \/ others # {})
    BY <1>1 DEF Becomes
  <1>3. proc'[p] = r
    BY <1>2, Doing, Who DEF ProcsFit
  <1>4. r.at = first /\ r.op = op
    <2> HIDE DEF first, v, S
    <2> QED
      BY AtRest DEF Process
  <1>5. r.at = "ask" \/ (r.at = "change" /\ r.op = "delete")
    BY <1>4
  <1> HIDE DEF r
  <1>6. CASE others = {}
    <2>1. \A q \in Procs : q # p => ~Active(q)
      BY <1>6
    <2>2. alone' = [q \in Procs |-> q = p]
      BY <1>2, <1>6, Zenon
    <2>3. spoiled' = spoiled /\ (~behind' => ~behind)
      BY <1>2, <1>6
    <2> QED
      BY <1>3, <1>5, <2>1, <2>2, <2>3, Zenon
  <1>7. CASE others # {}
    <2>1. alone' = [q \in Procs |-> FALSE]
      BY <1>2, <1>7, Zenon
    <2>2. "mixed" \in spoiled' /\ behind'
      BY <1>2, <1>7
    <2> QED
      BY <1>3, <1>5, <2>1, <2>2, Zenon
  <1> QED
    BY <1>6, <1>7

\* Whoever begins: where it starts, and who is alone then.
LEMMA BeginsDo ==
  ASSUME TInv, NEW p \in Procs, Begins(p)
  PROVE  /\ ~Active(p) /\ graph' = graph /\ applied' = applied /\ edited' = edited
         /\ cache' = (IF p = Server THEN {} ELSE cache)
         /\ proc'[p].at \in {"check", "wipe", "affected", "reconcile", "orphans", "ask", "change"}
         /\ proc'[p].at = "change" => proc'[p].op = "delete"
         /\ \/ /\ \A q \in Procs : q # p => ~Active(q)
               /\ alone' = [q \in Procs |-> q = p] /\ spoiled' = spoiled
               /\ ~behind' => IF p = Server THEN proc'[p].at = "check" ELSE ~behind
            \/ /\ alone' = [q \in Procs |-> FALSE] /\ "mixed" \in spoiled' /\ behind'
         /\ p # Server => At(Server) = "serving" \/ p = Cli
  <1>1. CASE p = Server /\ Boot
    <2>1. /\ ~Active(p) /\ graph' = graph /\ applied' = applied /\ edited' = edited /\ cache' = {}
          /\ Begin(p, "boot", 1, IF AutoApply THEN "check" ELSE "affected")
      BY <1>1 DEF Boot, Active, Resting
    <2>2. /\ "boot" \in Ops /\ 1 \in DOMAIN Bundles
          /\ (IF AutoApply THEN "check" ELSE "affected") \in Calls
      BY Constants DEF Ops, Calls
    <2>3. /\ proc'[p].at = (IF AutoApply THEN "check" ELSE "affected")
          /\ \/ /\ \A q \in Procs : q # p => ~Active(q)
                /\ alone' = [q \in Procs |-> q = p] /\ spoiled' = spoiled
                /\ ~behind' => IF p = Server THEN AutoApply ELSE ~behind
             \/ /\ alone' = [q \in Procs |-> FALSE] /\ "mixed" \in spoiled' /\ behind'
      BY <2>1, <2>2, BeginDoes
    <2>4. /\ proc'[p].at \in {"check", "wipe", "affected", "reconcile", "orphans", "ask", "change"}
          /\ proc'[p].at # "change" /\ (AutoApply => proc'[p].at = "check")
      BY <2>3
    <2> QED
      BY <1>1, <2>1, <2>3, <2>4, Zenon
  <1>2. CASE (p = Cli /\ Command) \/ (p \in Requests /\ Reset(p))
    <2>1. /\ ~Active(p) /\ graph' = graph /\ applied' = applied /\ edited' = edited
          /\ cache' = cache
          /\ (At(Server) = "serving" \/ p = Cli) /\ p # Server
      BY <1>2, Who
         DEF Command, Apply, MigrateVocabulary, MigrateNamespace, MigrateModular, Commanded,
             Reset, Active, Resting
    <2>2. \E op \in Ops, b \in DOMAIN Bundles, call \in {"check", "wipe", "affected", "reconcile", "orphans"} :
            Begin(p, op, b, call)
      <3>1. \/ \E b \in DOMAIN Bundles :
                 Begin(p, "apply", b, "check") \/ Begin(p, "force", b, "wipe") \/ Begin(p, "reset", b, "wipe")
            \/ Begin(p, "vocab", 1, "affected") \/ Begin(p, "relocate", 1, "affected")
            \/ \E b \in DOMAIN Bundles : Begin(p, "modular", b, "orphans") \/ Begin(p, "modular", b, "reconcile")
        BY <1>2 DEF Command, Apply, MigrateVocabulary, MigrateNamespace, MigrateModular, Reset
      <3>2. /\ {"apply", "force", "reset", "vocab", "relocate", "modular"} \subseteq Ops
            /\ 1 \in DOMAIN Bundles
        BY Constants DEF Ops
      <3> QED
        BY <3>1, <3>2
    <2>3. PICK op \in Ops, b \in DOMAIN Bundles, call \in {"check", "wipe", "affected", "reconcile", "orphans"} :
            Begin(p, op, b, call)
      BY <2>2
    <2>4. call \in Calls
      BY DEF Calls
    <2>5. /\ proc'[p].at = call
          /\ \/ /\ \A q \in Procs : q # p => ~Active(q)
                /\ alone' = [q \in Procs |-> q = p] /\ spoiled' = spoiled
                /\ ~behind' => IF p = Server THEN AutoApply ELSE ~behind
             \/ /\ alone' = [q \in Procs |-> FALSE] /\ "mixed" \in spoiled' /\ behind'
      BY <2>3, <2>4, BeginDoes
    <2>6. /\ proc'[p].at \in {"check", "wipe", "affected", "reconcile", "orphans", "ask", "change"}
          /\ proc'[p].at # "change"
      BY <2>5
    <2> QED
      BY <1>2, <2>1, <2>5, <2>6, Zenon
  <1>3. CASE p \in Requests /\ Administer(p)
    <2>1. /\ ~Active(p) /\ graph' = graph /\ applied' = applied /\ edited' = edited
          /\ cache' = cache
          /\ At(Server) = "serving" /\ p # Server
      BY <1>3, Who DEF Administer, Active, Resting
    <2>2. /\ \/ proc'[p].at = "ask"
             \/ proc'[p].at = "change" /\ proc'[p].op = "delete"
          /\ \/ /\ \A q \in Procs : q # p => ~Active(q)
                /\ alone' = [q \in Procs |-> q = p] /\ spoiled' = spoiled
                /\ ~behind' => ~behind
             \/ /\ alone' = [q \in Procs |-> FALSE] /\ "mixed" \in spoiled' /\ behind'
      BY <1>3, AdministerDoes
    <2>3. /\ proc'[p].at \in {"check", "wipe", "affected", "reconcile", "orphans", "ask", "change"}
          /\ proc'[p].at = "change" => proc'[p].op = "delete"
      BY <2>2
    <2> QED
      BY <2>1, <2>2, <2>3, Zenon
  <1> QED
    BY <1>1, <1>2, <1>3, Who DEF Begins

\* A process that begins keeps what is known of processes that are alone.
LEMMA BeginKeeps ==
  ASSUME IInv, NEW p \in Procs, Begins(p)
  PROVE  IInv'
  <1>1. TInv /\ TInv' /\ \A q \in Procs : q # p => proc'[q] = proc[q]
    BY MoverFits DEF IInv, Mover, Begins
  <1>2. \A q \in Procs : q # p => Active(q)' = Active(q)
    BY <1>1 DEF Active, At
  <1>3. CASE alone' = [q \in Procs |-> FALSE] /\ "mixed" \in spoiled' /\ behind'
    BY <1>1, <1>3 DEF IInv, Apart, Unmixed, Staged
  <1>4. CASE (\A q \in Procs : q # p => ~Active(q)) /\ alone' = [q \in Procs |-> q = p]
    <2>1. \A q \in Procs : Active(q)' => q = p
      BY <1>2, <1>4
    <2>2. Stage(p)'
      <3>1. proc'[p].at \in {"check", "wipe", "affected", "reconcile", "orphans", "ask", "change"}
            /\ (proc'[p].at = "change" => proc'[p].op = "delete")
        BY <1>1, BeginsDo
      <3>2. CASE proc'[p].at # "change"
        BY <3>1, <3>2, Unstaged DEF At, Staging
      <3>3. CASE proc'[p].at = "change"
        BY <3>1, <3>3 DEF Stage, PutStage, MoveStage, ReadStage, AskStage, At, Op
      <3> QED
        BY <3>2, <3>3
    <2>3. alone'[p]
      BY <1>4
    <2> QED
      BY <1>1, <2>1, <2>2, <2>3 DEF IInv, Apart, Unmixed, Staged
  <1> QED
    BY <1>1, <1>3, <1>4, BeginsDo

\* What crashes leave.
LEMMA CrashDoes ==
  ASSUME TInv, CrashServer \/ CrashCli
  PROVE  /\ UNCHANGED <<graph, applied, alone, behind, edited>> /\ spoiled \subseteq spoiled'
         /\ \A q \in Procs : \/ proc'[q] = proc[q] /\ (CrashServer => q = Cli) /\ (CrashCli => q # Cli)
                             \/ proc'[q].at \in {"idle", "down"} /\ (CrashServer => q # Cli) /\ (CrashCli => q = Cli)
  <1>1. UNCHANGED <<graph, applied, alone, behind, edited>> /\ spoiled \subseteq spoiled'
    BY DEF CrashServer, CrashCli
  <1> DEFINE down == [Idle EXCEPT !.at = "down"]
  <1>2. down.at = "down" /\ Idle.at = "idle"
    BY AtRest DEF Process
  <1> HIDE DEF down
  <1>3. CASE CrashServer
    <2>1. proc' = [p \in Procs |-> IF p = Server THEN down ELSE IF p = Cli THEN proc[p] ELSE Idle]
      BY <1>3 DEF CrashServer, down
    <2>2. ~CrashCli
      <3> SUFFICES ASSUME CrashCli PROVE FALSE
        OBVIOUS
      <3>1. proc' = [proc EXCEPT ![Cli] = Idle] /\ Active(Cli)
        BY DEF CrashCli
      <3>2. proc'[Cli] = proc[Cli] /\ proc'[Cli] = Idle
        BY <2>1, <3>1, Who, Doing DEF ProcsFit
      <3> QED
        BY <1>2, <3>1, <3>2 DEF Active, At, Resting
    <2> QED
      BY <1>1, <1>2, <1>3, <2>1, <2>2, Who
  <1>4. CASE CrashCli /\ ~CrashServer
    <2>1. proc' = [proc EXCEPT ![Cli] = Idle] /\ proc \in [Procs -> Process]
      BY <1>4, Doing, Who DEF CrashCli, ProcsFit
    <2> QED
      BY <1>1, <1>2, <1>4, <2>1, Who
  <1> QED
    BY <1>3, <1>4

\* A process that stays, in a store that stays.
LEMMA SameStage ==
  ASSUME NEW p \in Procs, proc'[p] = proc[p], graph' = graph, applied' = applied
  PROVE  Stage(p)' = Stage(p)
  <1>1. At(p)' = At(p) /\ Op(p)' = Op(p) /\ Current(p)' = Current(p) /\ Written(p)' = Written(p)
    BY DEF At, Op, Current, Written
  <1>2. \A c : Target(p, c)' = Target(p, c)
    BY <1>1 DEF Target
  <1>3. \A n : Present(n)' = Present(n)
    BY DEF Present
  <1>4. PutStage(p)' = PutStage(p)
    BY <1>1, <1>3 DEF PutStage
  <1>5. MoveStage(p)' = MoveStage(p)
    BY <1>1, <1>2, <1>3 DEF MoveStage, Target, Op
  <1>6. ReadStage(p)' = ReadStage(p)
    BY <1>1, <1>3, SameDefinitions DEF ReadStage
  <1>7. AskStage(p)' = AskStage(p)
    BY <1>1, <1>3 DEF AskStage
  <1> QED
    BY <1>4, <1>5, <1>6, <1>7 DEF Stage

\* A crash keeps what is known of processes that are alone.
LEMMA CrashKeeps ==
  ASSUME IInv, CrashServer \/ CrashCli
  PROVE  IInv'
  <1>1. TInv /\ TInv'
    BY CrashFits DEF IInv
  <1>2. /\ UNCHANGED <<graph, applied, alone, behind, edited>> /\ spoiled \subseteq spoiled'
        /\ \A q \in Procs : proc'[q] = proc[q] \/ proc'[q].at \in {"idle", "down"}
    BY <1>1, CrashDoes
  <1>3. \A q \in Procs : Active(q)' => Active(q) /\ proc'[q] = proc[q]
    BY <1>2 DEF Active, At, Resting
  <1>4. Apart' /\ Unmixed'
    BY <1>2, <1>3 DEF IInv, Apart, Unmixed
  <1>5. ASSUME NEW q \in Procs, Active(q)', alone'[q] PROVE Stage(q)'
    <2>1. proc'[q] = proc[q] /\ Stage(q)
      BY <1>2, <1>3, <1>5 DEF IInv, Staged
    <2> QED
      BY <1>2, <2>1, SameStage
  <1> QED
    BY <1>1, <1>4, <1>5 DEF IInv, Staged

\* Nothing happens.
LEMMA StutterKeeps == ASSUME IInv, UNCHANGED vars PROVE IInv'
  <1>1. /\ TInv' /\ proc' = proc /\ graph' = graph /\ applied' = applied /\ alone' = alone
        /\ spoiled' = spoiled /\ behind' = behind
    BY StutterFits DEF IInv, vars
  <1>2. \A q \in Procs : Active(q)' = Active(q)
    BY <1>1 DEF Active, At
  <1>3. Apart' /\ Unmixed'
    BY <1>1, <1>2 DEF IInv, Apart, Unmixed
  <1>4. \A q \in Procs : Stage(q)' = Stage(q)
    BY <1>1, SameStage
  <1> QED
    BY <1>1, <1>2, <1>3, <1>4 DEF IInv, Staged

\* What is known of processes that are alone, at the start and at each step.
LEMMA InitKnows == Init => IInv
  <1> SUFFICES ASSUME Init PROVE IInv
    OBVIOUS
  <1>1. TInv
    BY InitFits
  <1>2. \A p \in Procs : ~Active(p)
    <2> DEFINE down == [Idle EXCEPT !.at = "down"]
    <2>1. down.at = "down" /\ Idle.at = "idle"
      BY AtRest DEF Process
    <2> HIDE DEF down
    <2>2. proc = [p \in Procs |-> IF p = Server THEN down ELSE Idle]
      BY DEF Init, down
    <2> QED
      BY <2>1, <2>2 DEF Active, At, Resting
  <1> QED
    BY <1>1, <1>2 DEF IInv, Apart, Unmixed, Staged

\* It is kept at each step.
LEMMA Kept == ASSUME IInv, [Next]_vars PROVE IInv'
  <1>1. CASE UNCHANGED vars
    BY <1>1, StutterKeeps
  <1>2. CASE CrashServer \/ CrashCli
    BY <1>2, CrashKeeps
  <1>3. ASSUME NEW p \in Procs, Mover(p) PROVE IInv'
    BY <1>3, StepKeeps, BeginKeeps DEF Mover, Begins
  <1> QED
    BY <1>1, <1>2, <1>3, Movers
-----------------------------------------------------------------------------
(* Migrations.                                                             *)

\* A graph that a migration puts in its place, or drops where it was, has under its two names
\* the contents that it had.
LEMMA PlacedKeeps ==
  ASSUME TInv, NEW p \in Procs, Stage(p),
         \/ At(p) = "replace" /\ graph' = Replaced(p)
         \/ At(p) = "drop" /\ graph' = [graph EXCEPT ![Current(p)] = Absent],
         NEW n \in Names \ Older
  PROVE  Revisions(n)' \subseteq Revisions(n) /\ (Revisions(n)' = {} => Revisions(n) = {})
  <1> DEFINE c == Current(p)
             t == Target(p, c)
             w == Rewritten(p)
             F == {n} \union Formerly(n)
  <1>1. /\ c \in Names /\ (Op(p) = "relocate" => c \in DOMAIN Moved)
        /\ graph \in [Names -> Graphs]
    <2>1. proc[p].todo # {} /\ proc[p] \in Process /\ graph \in [Names -> Graphs]
      BY Doing DEF Sized, At, StoreFits
    <2>2. c \in proc[p].todo
      BY <2>1, OneOf DEF Current
    <2>3. Op(p) = "relocate" => proc[p].todo \subseteq DOMAIN Moved
      BY DEF Stage, MoveStage
    <2> QED
      BY <2>1, <2>2, <2>3 DEF Process
  <1>2. /\ t \in Names
        /\ t # c => /\ c \in Older /\ c \in Formerly(t) /\ t \notin Older
                    /\ (c \in Formerly(n) => n = t)
    BY <1>1, Places
  <1>3. F \subseteq Names /\ \A m \in F : m \in Older \/ m = n
    BY Formers, NamesApart
  <1>4. /\ Revisions(n) = {graph[m].rev : m \in F} \ {0}
        /\ Revisions(n)' = {graph'[m].rev : m \in F} \ {0}
    BY DEF Revisions, F, Formerly
  <1>5. CASE At(p) = "replace" /\ graph' = Replaced(p)
    <2>1. graph' = [graph EXCEPT ![t] = w] /\ w.rev = graph[c].rev /\ graph[c].rev # 0
      BY <1>5, ReplaceDoes DEF Replaced
    <2>2. t \in F => c \in F
      BY <1>2, <1>3
    <2> HIDE DEF c, t, w, F
    <2>3. ASSUME NEW m \in F PROVE \E k \in F : graph'[m].rev = graph[k].rev
      BY <1>1, <1>2, <1>3, <2>1, <2>2
    <2>4. ASSUME NEW m \in F, graph[m].rev # 0 PROVE graph'[m].rev # 0
      BY <1>1, <1>2, <1>3, <2>1, <2>4
    <2>5. ASSUME NEW x \in Revisions(n)' PROVE x \in Revisions(n)
      <3>1. PICK m \in F : x = graph'[m].rev /\ x # 0
        BY <1>4, <2>5
      <3>2. PICK k \in F : graph'[m].rev = graph[k].rev
        BY <2>3
      <3> QED
        BY <1>4, <3>1, <3>2
    <2>6. ASSUME NEW x \in Revisions(n) PROVE Revisions(n)' # {}
      <3>1. PICK m \in F : x = graph[m].rev /\ x # 0
        BY <1>4, <2>6
      <3> QED
        BY <1>4, <2>4, <3>1
    <2> QED
      BY <2>5, <2>6
  <1>6. CASE At(p) = "drop" /\ graph' = [graph EXCEPT ![c] = Absent]
    <2>1. t # c /\ graph[t].rev = graph[c].rev
      BY <1>6 DEF Stage, MoveStage
    <2>2. c \in F => t = n
      BY <1>2, <1>3, <2>1
    <2> HIDE DEF c, t, F
    <2>3. ASSUME NEW m \in F, graph'[m].rev # 0 PROVE graph'[m].rev = graph[m].rev
      BY <1>1, <1>3, <1>6, <2>3, AtRest
    <2>4. ASSUME NEW m \in F, graph[m].rev # 0 PROVE \E k \in F : graph'[k].rev # 0
      <3>1. CASE m # c
        BY <1>1, <1>3, <1>6, <2>4, <3>1
      <3>2. CASE m = c
        <4>1. n \in F /\ graph'[n].rev = graph[m].rev
          BY <1>1, <1>2, <1>3, <1>6, <2>1, <2>2, <3>2 DEF F
        <4> QED
          BY <2>4, <4>1
      <3> QED
        BY <3>1, <3>2
    <2> QED
      BY <1>4, <2>3, <2>4
  <1> QED
    BY <1>5, <1>6

\* The steps of a migration.
LEMMA MigrationSteps ==
  ASSUME NEW p \in Procs, Mover(p), Migrating(p)
  PROVE  Affected(p) \/ Copy(p) \/ Replace(p) \/ DropOld(p) \/ Raise(p)
  <1>1. ~(CheckApplied(p) \/ Put(p) \/ Record(p) \/ Undo(p) \/ Wipe(p) \/ Clear(p)
          \/ List(p) \/ Read(p) \/ Publish(p) \/ Advertise(p))
    BY DEF Migrating, CheckApplied, Put, Record, Undo, Wipe, Clear, List, Read, Publish, Advertise
  <1>2. ~(EndMigration(p) \/ Repoint(p) \/ Reconcile(p) \/ ListOrphans(p)
          \/ Unlink(p) \/ RetypeRoot(p) \/ AskSchema(p) \/ Change(p))
    BY DEF Migrating, EndMigration, Repoint, Reconcile, ListOrphans, Unlink, RetypeRoot,
           AskSchema, Change
  <1>3. ~(p = Server /\ (Boot \/ BackfillConformance \/ RebuildDerived \/ Serve))
    BY DEF Migrating, Boot, BackfillConformance, RebuildDerived, Serve
  <1>4. ~(p = Cli /\ Command)
    BY DEF Migrating, Command, Apply, MigrateVocabulary, MigrateNamespace, MigrateModular,
           Commanded
  <1>5. ~(p \in Requests /\ (Reset(p) \/ Administer(p)))
    BY DEF Migrating, Reset, Administer
  <1> QED
    BY <1>1, <1>2, <1>3, <1>4, <1>5 DEF Mover, Step

\* A migration that is alone keeps the contents of graphs, and one of the vocabulary that is done has left
\* nothing old.
LEMMA MigrationStep ==
  ASSUME IInv, NEW p \in Procs, Mover(p), Migrating(p), alone[p]
  PROVE  /\ \A n \in Names \ Older : Revisions(n)' \subseteq Revisions(n) /\ (Revisions(n)' = {} => Revisions(n) = {})
         /\ At(p)' = "migrated" => \A n \in Names : ~graph'[n].old
  <1>1. TInv /\ Active(p) /\ Stage(p) /\ At(p) \in Moving
    BY OnlyOne DEF IInv, Migrating, Active, Resting, Moving
  <1>2. ASSUME graph' = graph
        PROVE  \A n \in Names \ Older : Revisions(n)' \subseteq Revisions(n) /\ (Revisions(n)' = {} => Revisions(n) = {})
    BY <1>2 DEF Revisions
  <1>3. CASE Affected(p)
    <2>1. /\ proc'[p].at = (IF ToMigrate(p) = {} THEN AfterMigration(p) ELSE "copy")
          /\ graph' = graph
      BY <1>1, <1>3, AffectedDoes
    <2>2. proc'[p].at = "migrated" => \A n \in Names : ~graph[n].old
      BY <2>1 DEF AfterMigration, ToMigrate
    <2> QED
      BY <1>2, <2>1, <2>2 DEF At
  <1>4. CASE Copy(p)
    <2>1. graph' = graph /\ At(p) = "copy"
      BY <1>4 DEF Copy
    <2>2. proc'[p].at # "migrated"
      BY <1>1, <1>4, <2>1, CopyDoes, NextDoes DEF AfterMigration
    <2> QED
      BY <1>2, <2>1, <2>2 DEF At
  <1>5. CASE Replace(p) \/ DropOld(p)
    <2>1. \A n \in Names \ Older : Revisions(n)' \subseteq Revisions(n) /\ (Revisions(n)' = {} => Revisions(n) = {})
      BY <1>1, <1>5, PlacedKeeps DEF Replace, DropOld, Store
    <2>2. ASSUME proc'[p].at = "migrated" PROVE \A n \in Names : ~graph'[n].old
      <3>1. ~Goto(p, "drop")
        BY <1>1, <2>2, Went
      <3>2. /\ NextGraph(p) /\ (Replace(p) => Target(p, Current(p)) = Current(p))
            /\ At(p) \in {"replace", "drop"}
        BY <1>5, <3>1 DEF Replace, DropOld
      <3>3. /\ proc'[p].todo = {} /\ proc'[p].todo = proc[p].todo \ {Current(p)}
            /\ Op(p) # "relocate"
        BY <1>1, <2>2, <3>2, NextDoes DEF AfterMigration
      <3> QED
        BY <1>1, <1>5, <3>2, <3>3, RestIsOld
    <2> QED
      BY <2>1, <2>2 DEF At
  <1>6. CASE Raise(p)
    <2>1. graph' \in {graph, Effect(p)} /\ Caught(p)
      BY <1>6 DEF Raise
    <2>2. \/ graph' = graph
          \/ At(p) = "replace" /\ graph' = Replaced(p)
          \/ At(p) = "drop" /\ graph' = [graph EXCEPT ![Current(p)] = Absent]
      BY <1>1, <2>1 DEF Effect, Moving
    <2>3. \A n \in Names \ Older : Revisions(n)' \subseteq Revisions(n) /\ (Revisions(n)' = {} => Revisions(n) = {})
      BY <1>1, <1>2, <2>2, PlacedKeeps
    <2>4. proc'[p].at # "migrated"
      BY <1>1, <2>1, CaughtDoes, Ended DEF Resting
    <2> QED
      BY <2>3, <2>4 DEF At
  <1> QED
    BY <1>3, <1>4, <1>5, <1>6, MigrationSteps

\* Whatever happens, one process that is alone and is not stopped is the one that moves.
LEMMA MigrationsKept ==
  ASSUME IInv, Next, NEW p \in Procs, Migrating(p), alone[p], alone'[p]
  PROVE  /\ \A n \in Names \ Older : Revisions(n)' \subseteq Revisions(n) /\ (Revisions(n)' = {} => Revisions(n) = {})
         /\ At(p)' = "migrated" => \A n \in Names : ~graph'[n].old
  <1>1. TInv /\ Active(p) /\ At(p) # "migrated"
    BY DEF IInv, Migrating, Active, Resting
  <1>2. CASE CrashServer \/ CrashCli
    <2>1. graph' = graph /\ (proc'[p] = proc[p] \/ proc'[p].at \in {"idle", "down"})
      BY <1>1, <1>2, CrashDoes
    <2> QED
      BY <1>1, <2>1 DEF Revisions, At
  <1>3. ASSUME NEW q \in Procs, Mover(q) PROVE q = p
    <2>1. CASE Begins(q)
      <3>1. /\ ~Active(q)
            /\ ((\A x \in Procs : x # q => ~Active(x)) \/ alone' = [x \in Procs |-> FALSE])
        BY <1>1, <2>1, BeginsDo
      <3>2. alone' # [x \in Procs |-> FALSE]
        OBVIOUS
      <3> QED
        BY <1>1, <3>1, <3>2
    <2>2. CASE ~Begins(q)
      <3>1. Active(q)
        BY <1>3, <2>2, StepLeaves DEF Mover, Begins
      <3> QED
        BY <1>1, <3>1, OnlyOne
    <2> QED
      BY <2>1, <2>2
  <1> QED
    BY <1>2, <1>3, Movers, MigrationStep

\* A migration that nothing overlaps leaves every graph with a content that it had, under its
\* older or its newer name, and one of the vocabulary that runs to its end leaves no older term.
THEOREM MigrationsKeep == Spec => MigrationKeeps
  <1>1. IInv /\ [Next]_vars =>
          [\A p \in Procs :
             Migrating(p) /\ alone[p] /\ alone'[p] =>
               /\ \A n \in Names \ Older :
                    Revisions(n)' \subseteq Revisions(n) /\ (Revisions(n)' = {} => Revisions(n) = {})
               /\ At(p)' = "migrated" => \A n \in Names : ~graph[n].old']_vars
    BY MigrationsKept
  <1> QED
    BY <1>1, InitKnows, Kept, PTL DEF Spec, MigrationKeeps
-----------------------------------------------------------------------------
(* All or nothing.                                                         *)

\* A recorded profile has every graph of it, but for definitions deleted on purpose.
Whole == \A n \in Elems(WriteOrder(Bundles[applied])) \ edited : Revisions(n) # {}

\* The graphs that an apply under way has written, or has still to drop.
Owes(p) ==
  IF At(p) \in {"put", "record"} THEN Prefix(proc[p].b, Written(p))
  ELSE IF At(p) = "undo" THEN Prefix(proc[p].b, proc[p].n) ELSE {}

\* What is recorded is whole, unless its row is about to go, and what is not is owed by an apply.
Recorded  == applied # 0 /\ spoiled \intersect {"ack", "wiped"} = {}
Unclaimed == applied = 0 /\ spoiled = {}
Applied ==
  /\ Recorded => /\ \A p \in Procs : At(p) # "undo"
                 /\ (\A p \in Procs : At(p) # "clear") => Whole
  /\ Unclaimed => \A n \in Names : Present(n) => \E p \in Procs : n \in Owes(p)
AInv == "mixed" \notin spoiled => Applied

\* The same when p is the only one under way.
AppliedBy(p) ==
  /\ Recorded => At(p) # "undo" /\ (At(p) # "clear" => Whole)
  /\ Unclaimed => \A n \in Names : Present(n) => n \in Owes(p)

\* Beside those at rest, it is the same.
LEMMA AppliedAlone ==
  ASSUME NEW p \in Procs, \A q \in Procs : q # p => ~Active(q)
  PROVE  Applied => AppliedBy(p)
  <1>1. \A q \in Procs : q # p => At(q) \notin {"undo", "clear"} /\ Owes(q) = {}
    BY DEF Active, Resting, Owes
  <1> QED
    BY <1>1 DEF Applied, AppliedBy

\* And back.
LEMMA AppliedAgain ==
  ASSUME NEW p \in Procs, \A q \in Procs : q # p => ~Active(q)', AppliedBy(p)'
  PROVE  Applied'
  <1>1. \A q \in Procs : q # p => At(q)' \notin {"undo", "clear"}
    BY DEF Active, Resting
  <1> QED
    BY <1>1 DEF Applied, AppliedBy

\* Graphs that stay, but for definitions deleted on purpose, keep a profile whole.
LEMMA WholeStays ==
  ASSUME TInv, applied' = applied, applied # 0, edited \subseteq edited', Whole,
         \A m \in Names : Present(m) => Present(m)' \/ (m \in Slugs /\ m \in edited')
  PROVE  Whole'
  <1> SUFFICES ASSUME NEW n \in Elems(WriteOrder(Bundles[applied])), n \notin edited' PROVE Revisions(n)' # {}
    BY DEF Whole
  <1>1. PICK m \in {n} \union Formerly(n) : graph[m].rev # 0
    BY DEF Whole, Revisions
  <1>2. n \in Names
    <2>1. applied \in DOMAIN Bundles
      BY Constants DEF TInv, StoreFits
    <2> QED
      BY <2>1, Numbered
  <1>3. m \in Names /\ (m \in Slugs => m = n)
    BY <1>2, Formers, NamesApart
  <1>4. graph'[m].rev # 0
    BY <1>1, <1>3 DEF Present
  <1>5. Formerly(n)' = Formerly(n)
    BY DEF Formerly
  <1> QED
    BY <1>1, <1>4, <1>5 DEF Revisions

\* A process that neither applies nor clears leaves it so when it keeps a profile whole, and an
\* empty store empty.
LEMMA Goes ==
  ASSUME NEW p \in Procs, AppliedBy(p), applied' = applied, spoiled \subseteq spoiled',
         At(p) \notin {"put", "record", "undo", "clear"}, proc'[p].at # "undo",
         applied # 0 /\ Whole => Whole',
         applied = 0 /\ spoiled' = {} /\ (\A n \in Names : ~Present(n)) => \A n \in Names : ~Present(n)'
  PROVE  AppliedBy(p)'
  <1>1. Recorded' => Recorded
    BY DEF Recorded
  <1>2. Unclaimed' => Unclaimed
    BY DEF Unclaimed
  <1>3. Unclaimed => \A n \in Names : ~Present(n)
    BY DEF AppliedBy, Owes
  <1>4. Recorded => Whole /\ applied # 0
    BY DEF AppliedBy, Recorded
  <1> QED
    BY <1>1, <1>2, <1>3, <1>4 DEF AppliedBy, At, Unclaimed

\* Leaving the store as it is.
LEMMA Steady ==
  ASSUME TInv, NEW p \in Procs, AppliedBy(p), graph' = graph, applied' = applied, edited' = edited, spoiled \subseteq spoiled',
         At(p) \notin {"put", "record", "undo", "clear"}, proc'[p].at # "undo"
  PROVE  AppliedBy(p)'
  <1>1. \A n : Present(n)' = Present(n)
    BY DEF Present
  <1>2. applied # 0 /\ Whole => Whole'
    BY <1>1, WholeStays
  <1> QED
    BY <1>1, <1>2, Goes

\* The calls that change neither graph nor row nor what is remembered of them.
LEMMA SteadySteps ==
  ASSUME TInv, NEW p \in Procs,
         \/ CheckApplied(p) \/ List(p) \/ Read(p) \/ Publish(p) \/ Advertise(p) \/ Affected(p) \/ Copy(p)
         \/ EndMigration(p) \/ ListOrphans(p) \/ AskSchema(p)
         \/ p = Server /\ (BackfillConformance \/ RebuildDerived \/ Serve)
  PROVE  /\ UNCHANGED <<graph, applied, edited, spoiled>>
         /\ At(p) \notin {"put", "record", "undo", "clear"} /\ proc'[p].at # "undo"
  <1>1. /\ UNCHANGED <<graph, applied, edited, spoiled>>
        /\ At(p) \notin {"put", "record", "undo", "clear"}
    BY DEF CheckApplied, List, Read, Publish, Advertise, Affected, Copy, EndMigration,
           ListOrphans, AskSchema, BackfillConformance, RebuildDerived, Serve
  <1> SUFFICES proc'[p].at # "undo"
    BY <1>1
  <1>2. ASSUME Done(p) PROVE proc'[p].at # "undo"
    BY <1>2, Ended
  <1>3. ASSUME NEW call, Goto(p, call), call # "undo" PROVE proc'[p].at # "undo"
    BY <1>3, Went
  <1>4. CASE CheckApplied(p) \/ Publish(p) \/ Advertise(p) \/ EndMigration(p) \/ AskSchema(p)
    BY <1>2, <1>3, <1>4 DEF CheckApplied, Publish, Advertise, EndMigration, AskSchema
  <1>5. CASE List(p)
    BY <1>5, ListDoes DEF AfterRead
  <1>6. CASE Read(p)
    BY <1>2, <1>6, ReadDoes DEF AfterRead
  <1>7. CASE Affected(p)
    BY <1>7, AffectedDoes DEF AfterMigration
  <1>8. CASE Copy(p)
    <2>1. At(p) = "copy"
      BY <1>8 DEF Copy
    <2> QED
      BY <1>8, <2>1, CopyDoes, NextDoes DEF AfterMigration
  <1>9. CASE ListOrphans(p)
    <2> DEFINE S == Listed \ Elems(Own(p).defs)
               call == IF S = {} THEN "retype" ELSE "unlink"
    <2>1. Becomes(p, [proc[p] EXCEPT !.todo = S, !.at = call]) /\ call # "undo"
      BY <1>9 DEF ListOrphans
    <2>2. proc \in [Procs -> Process] /\ proc[p] \in Process
      BY Doing DEF ProcsFit
    <2> HIDE DEF call, S
    <2> QED
      BY <2>1, <2>2 DEF Becomes, Process
  <1>10. CASE p = Server /\ (BackfillConformance \/ RebuildDerived)
    BY <1>3, <1>10 DEF BackfillConformance, RebuildDerived
  <1>11. CASE p = Server /\ Serve
    <2>1. proc' = [proc EXCEPT ![p] = [Idle EXCEPT !.at = "serving"]]
      BY <1>11 DEF Serve, Rest, Becomes
    <2>2. proc'[p].at = "serving"
      BY <2>1, AtRest, Doing DEF ProcsFit, Process
    <2> QED
      BY <2>2
  <1> QED
    BY <1>1, <1>4, <1>5, <1>6, <1>7, <1>8, <1>9, <1>10, <1>11

\* Graphs that a migration moves.
LEMMA MoveApplied ==
  ASSUME TInv, NEW p \in Procs, Stage(p), AppliedBy(p), applied' = applied, edited' = edited, spoiled \subseteq spoiled',
         proc'[p].at # "undo",
         \/ At(p) = "replace" /\ graph' = Replaced(p)
         \/ At(p) = "drop" /\ graph' = [graph EXCEPT ![Current(p)] = Absent]
  PROVE  AppliedBy(p)'
  <1>1. ASSUME applied # 0, Whole PROVE Whole'
    <2> SUFFICES ASSUME NEW n \in Elems(WriteOrder(Bundles[applied])), n \notin edited PROVE Revisions(n)' # {}
      BY DEF Whole
    <2>1. applied \in DOMAIN Bundles
      BY <1>1, Constants DEF TInv, StoreFits
    <2>2. n \in Names \ Older
      <3>1. n \in Names
        BY <2>1, Numbered
      <3>2. n \notin Older
        BY <2>1, OrderOf
      <3> QED
        BY <3>1, <3>2
    <2>3. Revisions(n)' = {} => Revisions(n) = {}
      BY <2>2, PlacedKeeps
    <2> QED
      BY <1>1, <2>3 DEF Whole
  <1>2. ASSUME \A n \in Names : ~Present(n) PROVE \A n \in Names : ~Present(n)'
    <2>1. CASE At(p) = "replace"
      <3>1. Current(p) \in Names /\ graph[Current(p)].rev # 0
        BY <2>1, ReplaceDoes
      <3> QED
        BY <1>2, <3>1 DEF Present
    <2>2. CASE At(p) = "drop" /\ graph' = [graph EXCEPT ![Current(p)] = Absent]
      <3>1. graph \in [Names -> Graphs]
        BY DEF TInv, StoreFits
      <3> QED
        BY <1>2, <2>2, <3>1, AtRest DEF Present
    <2> QED
      BY <2>1, <2>2
  <1> QED
    BY <1>1, <1>2, Goes

\* A graph that is written where a profile is applied, or where there is one.
LEMMA WriteApplied ==
  ASSUME TInv, NEW p \in Procs, AppliedBy(p), applied' = applied, edited \subseteq edited', spoiled \subseteq spoiled',
         At(p) \notin {"put", "record", "undo", "clear"}, proc'[p].at # "undo",
         \A m \in Names : Present(m) => Present(m)' \/ (m \in Slugs /\ m \in edited'),
         \/ applied # 0 \/ spoiled' # {}
         \/ \E m \in Names : Present(m)
         \/ \A m \in Names : Present(m)' => Present(m)
  PROVE  AppliedBy(p)'
  <1>1. applied # 0 /\ Whole => Whole'
    BY WholeStays
  <1> QED
    BY <1>1, Goes

\* What a change of an administrator leaves.
LEMMA ChangedApplied ==
  ASSUME TInv, NEW p \in Procs, Stage(p), AppliedBy(p), At(p) = "change", graph' = Changed(p), applied' = applied,
         spoiled \subseteq spoiled', proc'[p].at # "undo",
         edited' = IF Op(p) = "delete" THEN edited \union {Current(p)} ELSE edited
  PROVE  AppliedBy(p)'
  <1> DEFINE s == Current(p)
             v == IF Op(p) = "delete" THEN Absent ELSE [rev |-> proc[p].rev, old |-> FALSE]
  <1>1. /\ s \in Slugs /\ s \in Names /\ (Op(p) # "delete" => proc[p].rev # 0)
        /\ graph \in [Names -> Graphs]
    BY ChangeOf DEF TInv, StoreFits
  <1>2. graph' = [graph EXCEPT ![s] = v]
    BY DEF Changed
  <1>3. v.rev = 0 <=> Op(p) = "delete"
    BY <1>1, AtRest
  <1>4. Op(p) # "delete" => SchemaOf[s] \in Names /\ Present(SchemaOf[s])
    BY <1>1, ProfileAssumption DEF ProfileAssumption, Stage, AskStage
  <1> HIDE DEF s, v
  <1>5. \A m \in Names : m # s => graph'[m] = graph[m]
    BY <1>1, <1>2
  <1>6. graph'[s] = v
    BY <1>1, <1>2
  <1>7. CASE Op(p) = "delete"
    <2>1. s \in edited' /\ edited \subseteq edited'
      BY <1>7 DEF s
    <2>2. graph'[s].rev = 0
      BY <1>3, <1>6, <1>7
    <2>3. \A m \in Names : Present(m) => Present(m)' \/ (m \in Slugs /\ m \in edited')
      BY <1>1, <1>5, <2>1 DEF Present
    <2>4. \A m \in Names : Present(m)' => Present(m)
      BY <1>5, <2>2 DEF Present
    <2> QED
      BY <2>1, <2>3, <2>4, WriteApplied
  <1>8. CASE Op(p) # "delete"
    <2>1. edited \subseteq edited'
      BY <1>8
    <2>2. graph'[s].rev # 0
      BY <1>3, <1>6, <1>8
    <2>3. \A m \in Names : Present(m) => Present(m)'
      BY <1>5, <2>2 DEF Present
    <2>4. \E m \in Names : Present(m)
      BY <1>4, <1>8
    <2> QED
      BY <2>1, <2>3, <2>4, WriteApplied
  <1> QED
    BY <1>7, <1>8

\* A put, and an exception of one.
LEMMA PutApplied ==
  ASSUME TInv, NEW p \in Procs, Put(p), Stage(p), AppliedBy(p)
  PROVE  AppliedBy(p)'
  <1> DEFINE w == Order(p)[proc[p].n]
             v == [rev |-> proc[p].b, old |-> FALSE]
             P == Prefix(proc[p].b, Written(p))
  <1>1. At(p) = "put" /\ spoiled' = spoiled
    BY DEF Put
  <1>2. /\ proc'[p].at \in {"put", "record"} /\ w \in Names /\ graph' = [graph EXCEPT ![w] = v]
        /\ applied' = applied
        /\ Prefix(proc'[p].b, Written(p)') = P \union {w} /\ graph \in [Names -> Graphs]
    BY PutDoes
  <1>3. applied = 0
    BY <1>1 DEF Stage, PutStage
  <1>4. Owes(p)' = P \union {w} /\ Owes(p) = P
    BY <1>1, <1>2 DEF Owes, At
  <1> HIDE DEF w, v, P
  <1>5. \A n \in Names : n # w => graph'[n] = graph[n]
    BY <1>2
  <1>6. ASSUME Unclaimed', NEW n \in Names, Present(n)' PROVE n \in P \union {w}
    <2>1. Unclaimed
      BY <1>1, <1>2, <1>6 DEF Unclaimed
    <2> QED
      BY <1>4, <1>5, <1>6, <2>1 DEF AppliedBy, Present
  <1>7. ~Recorded'
    BY <1>2, <1>3 DEF Recorded
  <1> QED
    BY <1>4, <1>6, <1>7 DEF AppliedBy

\* The row: every graph has been written.
LEMMA RecordApplied ==
  ASSUME TInv, NEW p \in Procs, Record(p), Stage(p), AppliedBy(p)
  PROVE  AppliedBy(p)'
  <1>1. At(p) = "record" /\ spoiled' = spoiled /\ edited' = edited
    BY DEF Record
  <1>2. /\ applied = 0
        /\ \A n \in Prefix(proc[p].b, Written(p)) : graph[n] = [rev |-> proc[p].b, old |-> FALSE]
    BY <1>1 DEF Stage, PutStage
  <1>3. /\ graph' = graph /\ applied' = proc[p].b /\ applied' # 0 /\ proc'[p].at # "undo"
        /\ Prefix(proc[p].b, Written(p)) = Elems(WriteOrder(Bundles[proc[p].b])) /\ proc[p].b # 0
    <2>1. proc[p].b # 0
      BY Doing, Constants
    <2> QED
      BY <1>2, <2>1, RecordDoes, Ended DEF AfterRecord
  <1>4. \A n \in Elems(WriteOrder(Bundles[applied'])) : graph'[n].rev # 0
    BY <1>2, <1>3
  <1>5. Whole'
    BY <1>4 DEF Whole, Revisions
  <1> QED
    BY <1>3, <1>5 DEF AppliedBy, Unclaimed, At

\* A drop of the compensation.
LEMMA UndoneApplied ==
  ASSUME TInv, NEW p \in Procs, At(p) = "undo", proc[p].n > 0, AppliedBy(p), applied' = applied, spoiled \subseteq spoiled',
         graph' = [graph EXCEPT ![Order(p)[proc[p].n]] = Absent] \/ spoiled' # {},
         proc'[p].at = "undo" /\ proc'[p].n = proc[p].n - 1 /\ proc'[p].b = proc[p].b
  PROVE  AppliedBy(p)'
  <1> DEFINE k == proc[p].n
             O == WriteOrder(Bundles[proc[p].b])
             b == proc[p].b
  <1>1. /\ k \in 1 .. Len(O) /\ k - 1 \in Nat /\ Len(O) \in Nat /\ graph \in [Names -> Graphs]
        /\ b \in DOMAIN Bundles
    BY Doing DEF Sized, LengthOf, At, StoreFits
  <1>2. Prefix(b, (k - 1) + 1) = Prefix(b, k - 1) \union {O[(k - 1) + 1]}
    BY <1>1, Prefixes
  <1>3. Prefix(b, k) = Prefix(b, k - 1) \union {O[k]} /\ O[k] \in Names
    <2>1. (k - 1) + 1 = k
      BY <1>1
    <2>2. O[k] \in Names
      BY <1>1, Numbered
    <2> QED
      BY <1>2, <2>1, <2>2
  <1>4. Owes(p) = Prefix(b, k) /\ Owes(p)' = Prefix(b, k - 1) /\ Order(p) = O
    BY DEF Owes, At, Order, Own
  <1> HIDE DEF k, b, O
  <1>5. ~Recorded'
    <2>1. ~Recorded
      BY DEF AppliedBy
    <2> QED
      BY <2>1 DEF Recorded
  <1>6. ASSUME Unclaimed', NEW n \in Names, Present(n)' PROVE n \in Owes(p)'
    <2>1. Unclaimed /\ graph' = [graph EXCEPT ![O[k]] = Absent]
      BY <1>4, <1>6 DEF Unclaimed, k
    <2>2. n # O[k] /\ graph[n].rev # 0
      BY <1>1, <1>3, <1>6, <2>1, AtRest DEF Present
    <2>3. n \in Owes(p)
      BY <2>1, <2>2 DEF AppliedBy, Present
    <2> QED
      BY <1>3, <1>4, <2>2, <2>3
  <1> QED
    BY <1>5, <1>6 DEF AppliedBy

\* The compensation, to its end.
LEMMA UndoApplied ==
  ASSUME TInv, NEW p \in Procs, Undo(p), AppliedBy(p)
  PROVE  AppliedBy(p)'
  <1>1. At(p) = "undo" /\ UNCHANGED <<applied, spoiled, edited>>
    BY DEF Undo
  <1>2. proc[p] \in Process /\ proc \in [Procs -> Process] /\ proc[p].n \in Nat
    BY Doing DEF ProcsFit, Process
  <1>3. CASE proc[p].n = 0
    <2>1. Done(p) /\ graph' = graph
      BY <1>3 DEF Undo
    <2>2. proc'[p].at # "undo" /\ ~Recorded
      BY <1>1, <2>1, Ended DEF AppliedBy
    <2>3. Owes(p) = {}
      BY <1>1, <1>3, Doing, Prefixes DEF Owes
    <2>4. Unclaimed => \A n \in Names : ~Present(n)
      BY <2>3 DEF AppliedBy
    <2>5. Recorded' = Recorded /\ Unclaimed' = Unclaimed
      BY <1>1 DEF Recorded, Unclaimed
    <2> QED
      BY <2>1, <2>2, <2>4, <2>5 DEF AppliedBy, Present
  <1>4. CASE proc[p].n # 0
    <2> DEFINE k == proc[p].n - 1
    <2>1. /\ Becomes(p, [proc[p] EXCEPT !.n = k])
          /\ graph' = [graph EXCEPT ![Order(p)[proc[p].n]] = Absent]
      BY <1>4 DEF Undo, Store
    <2> HIDE DEF k
    <2>2. proc'[p].at = "undo" /\ proc'[p].n = k /\ proc'[p].b = proc[p].b
      BY <1>1, <1>2, <2>1 DEF Becomes, Process, At
    <2>3. proc[p].n > 0
      BY <1>2, <1>4
    <2> QED
      BY <1>1, <2>1, <2>2, <2>3, UndoneApplied DEF k
  <1> QED
    BY <1>3, <1>4

\* Everything is dropped, and then the row.
LEMMA WipeApplied ==
  ASSUME TInv, NEW p \in Procs, Stage(p), Wipe(p) \/ Clear(p)
  PROVE  AppliedBy(p)'
  <1>1. CASE Wipe(p)
    <2>1. graph' = Fresh /\ Goto(p, "clear")
      BY <1>1 DEF Wipe, Store
    <2>2. \A n \in Names : ~Present(n)'
      BY <2>1, AtRest DEF Fresh, Present
    <2>3. proc'[p].at = "clear"
      BY <2>1, Went
    <2> QED
      BY <2>2, <2>3 DEF AppliedBy, At
  <1>2. CASE Clear(p)
    <2>1. applied' = 0 /\ graph' = graph /\ At(p) = "clear"
      BY <1>2 DEF Clear
    <2>2. \A n \in Names : ~Present(n)'
      BY <2>1 DEF Stage, PutStage, Present
    <2> QED
      BY <2>1, <2>2 DEF AppliedBy, Recorded
  <1> QED
    BY <1>1, <1>2

\* Definitions that a relocation writes back.
LEMMA RepointApplied ==
  ASSUME TInv, NEW p \in Procs, Repoint(p), Stage(p), AppliedBy(p)
  PROVE  AppliedBy(p)'
  <1> DEFINE s == First({t \in Slugs : proc[p].recs[t] # 0})
             x == proc[p].recs[s]
  <1>1. At(p) = "repoint" /\ UNCHANGED <<applied, spoiled, edited>>
    BY DEF Repoint
  <1>2. CASE Done(p)
    <2>1. graph' = graph
      <3>1. proc'[p].at # "repoint"
        BY <1>2, Ended DEF Resting
      <3> DEFINE todo == {t \in Slugs : proc[p].recs[t] # 0}
                 d == [proc[p].recs EXCEPT ![s] = 0]
      <3>2. CASE todo = {}
        BY <3>2 DEF Repoint
      <3>3. CASE todo # {}
        <4>1. Becomes(p, [proc[p] EXCEPT !.recs = d])
          BY <3>3 DEF Repoint
        <4>2. proc[p] \in Process /\ proc \in [Procs -> Process]
          BY Doing DEF ProcsFit
        <4> HIDE DEF d
        <4>3. proc'[p].at = "repoint"
          BY <1>1, <4>1, <4>2 DEF Becomes, Process, At
        <4> QED
          BY <3>1, <4>3
      <3> QED
        BY <3>2, <3>3
    <2> QED
      BY <1>1, <1>2, <2>1, Ended, Steady
  <1>3. CASE ~Done(p)
    <2>1. /\ s \in Slugs /\ s \in Names /\ x # 0 /\ proc'[p].at = "repoint"
          /\ graph \in [Names -> Graphs]
          /\ graph' = [graph EXCEPT ![s] = [rev |-> x, old |-> FALSE]]
      BY <1>3, RepointDoes
    <2>2. Present(s)
      BY <1>1, <2>1 DEF Stage, ReadStage
    <2> HIDE DEF s, x
    <2>3. \A m \in Names : Present(m) => Present(m)'
      BY <2>1 DEF Present
    <2> QED
      BY <1>1, <2>1, <2>2, <2>3, WriteApplied
  <1> QED
    BY <1>2, <1>3

\* Reconciling with another bundle.
LEMMA ReconcileApplied ==
  ASSUME TInv, NEW p \in Procs, Reconcile(p), AppliedBy(p)
  PROVE  AppliedBy(p)'
  <1> DEFINE s == Reconciled(p)[proc[p].n]
             v == [rev |-> proc[p].b, old |-> FALSE]
             k == proc[p].n + 1
             call == IF proc[p].n = Len(Reconciled(p)) THEN "orphans" ELSE "reconcile"
  <1>1. /\ At(p) = "reconcile" /\ applied' = applied /\ edited' = edited /\ call # "undo"
        /\ spoiled' = IF applied = 0 THEN spoiled \union {"unapplied"} ELSE spoiled
        /\ Becomes(p, [proc[p] EXCEPT !.n = k, !.at = call])
        /\ graph' = graph \/ graph' = [graph EXCEPT ![s] = v]
    BY DEF Reconcile, Store
  <1>2. /\ proc[p] \in Process /\ proc \in [Procs -> Process] /\ graph \in [Names -> Graphs]
        /\ v.rev # 0
    BY Doing, Constants DEF ProcsFit, StoreFits
  <1> HIDE DEF s, v, k, call
  <1>3. proc'[p].at = call
    BY <1>1, <1>2 DEF Becomes, Process
  <1>4. \A m \in Names : Present(m) => Present(m)'
    BY <1>1, <1>2 DEF Present
  <1>5. spoiled \subseteq spoiled' /\ (applied # 0 \/ spoiled' # {})
    BY <1>1
  <1> QED
    BY <1>1, <1>3, <1>4, <1>5, WriteApplied

\* Deleting what the bundle does not have, on purpose.
LEMMA UnlinkApplied ==
  ASSUME TInv, NEW p \in Procs, Unlink(p), AppliedBy(p)
  PROVE  AppliedBy(p)'
  <1> DEFINE s == Current(p)
             f == Further(p, "unlink", "retype")
  <1>1. /\ At(p) = "unlink" /\ applied' = applied /\ spoiled' = spoiled
        /\ edited' = edited \union {s}
        /\ graph' = [graph EXCEPT ![s] = Absent] /\ Becomes(p, f)
    BY DEF Unlink, Store
  <1>2. /\ proc[p] \in Process /\ proc \in [Procs -> Process] /\ graph \in [Names -> Graphs]
        /\ proc[p].todo # {} /\ proc[p].todo \subseteq Slugs
    BY <1>1, Doing DEF ProcsFit, StoreFits, Sized, At
  <1>3. "unlink" \in Calls /\ "retype" \in Calls
    BY DEF Calls
  <1>4. s \in proc[p].todo /\ f.at \in {"unlink", "retype"}
    BY <1>2, <1>3, Onward
  <1>5. proc'[p].at # "undo"
    <2> HIDE DEF f
    <2> QED
      BY <1>1, <1>2, <1>4 DEF Becomes
  <1> HIDE DEF s, f
  <1>6. \A m \in Names : /\ Present(m) => Present(m)' \/ (m \in Slugs /\ m \in edited')
                         /\ Present(m)' => Present(m)
    BY <1>1, <1>2, <1>4, AtRest DEF Present
  <1> QED
    BY <1>1, <1>5, <1>6, WriteApplied

\* The root takes the type of the new root.
LEMMA RetypeApplied ==
  ASSUME TInv, NEW p \in Procs, RetypeRoot(p), AppliedBy(p)
  PROVE  AppliedBy(p)'
  <1> DEFINE b == proc[p].b
  <1>1. At(p) = "retype" /\ UNCHANGED <<applied, spoiled, edited>> /\ Done(p)
    BY DEF RetypeRoot
  <1>2. graph' = [n \in Names |-> IF n \in Elems(Own(p).root) /\ Present(n) THEN [graph[n] EXCEPT !.rev = b] ELSE graph[n]]
    BY DEF RetypeRoot, Store
  <1>3. b # 0 /\ graph \in [Names -> Graphs]
    BY Doing, Constants DEF StoreFits
  <1> HIDE DEF b
  <1>4. \A m \in Names : Present(m)' <=> Present(m)
    <2> SUFFICES ASSUME NEW m \in Names PROVE graph'[m].rev # 0 <=> graph[m].rev # 0
      BY DEF Present
    <2>1. graph[m] \in Graphs
      BY <1>3
    <2>2. [graph[m] EXCEPT !.rev = b].rev = b
      BY <2>1 DEF Graphs
    <2> QED
      BY <1>2, <1>3, <2>2 DEF Present
  <1>5. proc'[p].at # "undo"
    BY <1>1, Ended
  <1> QED
    BY <1>1, <1>4, <1>5, WriteApplied

\* An exception.
LEMMA RaiseApplied ==
  ASSUME TInv, NEW p \in Procs, Raise(p), Stage(p), AppliedBy(p), "mixed" \notin spoiled
  PROVE  AppliedBy(p)'
  <1>1. PICK took \in BOOLEAN :
          /\ graph' = IF took THEN Effect(p) ELSE graph
          /\ applied' = IF took /\ At(p) = "clear" THEN 0
                        ELSE IF took /\ At(p) = "record" /\ applied = 0 THEN proc[p].b ELSE applied
          /\ spoiled' = spoiled \union Left(p, took)
          /\ edited' = IF took /\ At(p) = "change" /\ Op(p) = "delete" THEN edited \union {Current(p)} ELSE edited
    BY DEF Raise
  <1>2. Active(p) /\ Caught(p) /\ spoiled \subseteq spoiled'
    BY <1>1 DEF Raise
  <1>3. CASE At(p) \in {"put", "record"}
    <2>1. applied = 0
      BY <1>3 DEF Stage, PutStage
    <2>2. proc'[p].at = "undo" /\ proc'[p].n = Written(p) /\ proc'[p].b = proc[p].b
      BY <1>2, <1>3, CaughtDoes DEF Migrating
    <2>3. Owes(p)' = Owes(p)
      BY <1>3, <2>2 DEF Owes, At
    <2>4. ASSUME Unclaimed' PROVE graph' = graph /\ Unclaimed
      BY <1>1, <1>3, <2>1, <2>4, Constants, Doing DEF Unclaimed, Left, Effect
    <2>5. ~Recorded'
      BY <1>1, <1>3, <2>1 DEF Recorded, Left
    <2> QED
      BY <2>3, <2>4, <2>5 DEF AppliedBy, Present
  <1>4. CASE At(p) = "undo"
    <2>1. /\ proc'[p].at = "undo" /\ proc'[p].n = proc[p].n - 1 /\ proc'[p].b = proc[p].b
          /\ proc[p].n > 0
      BY <1>2, <1>4, CaughtDoes DEF Migrating, Raise
    <2>2. graph' = [graph EXCEPT ![Order(p)[proc[p].n]] = Absent] \/ spoiled' # {}
      BY <1>1, <1>4, <2>1 DEF Effect, Left
    <2>3. applied' = applied
      BY <1>1, <1>4
    <2> QED
      BY <1>2, <1>4, <2>1, <2>2, <2>3, UndoneApplied
  <1>5. CASE At(p) = "clear" \/ (At(p) = "wipe" /\ took)
    <2>1. "wiped" \in spoiled'
      BY <1>1, <1>5 DEF Left
    <2> QED
      BY <2>1 DEF AppliedBy, Recorded, Unclaimed
  <1>6. CASE At(p) \notin {"put", "record", "undo", "clear"} /\ (At(p) = "wipe" => ~took)
    <2>1. proc'[p].at # "undo" /\ applied' = applied
      BY <1>1, <1>2, <1>6, CaughtDoes, Ended DEF Resting
    <2>2. CASE took /\ At(p) = "change"
      <3>1. graph' = Changed(p) /\ edited' = IF Op(p) = "delete" THEN edited \union {Current(p)} ELSE edited
        BY <1>1, <2>2 DEF Effect
      <3> QED
        BY <1>2, <2>1, <2>2, <3>1, ChangedApplied
    <2>3. CASE ~(took /\ At(p) = "change")
      <3>1. edited' = edited
        BY <1>1, <2>3
      <3>2. \/ graph' = graph
            \/ At(p) = "replace" /\ graph' = Replaced(p)
            \/ At(p) = "drop" /\ graph' = [graph EXCEPT ![Current(p)] = Absent]
        BY <1>1, <1>6, <2>3 DEF Effect
      <3> QED
        BY <1>2, <1>6, <2>1, <3>1, <3>2, Steady, MoveApplied
    <2> QED
      BY <2>2, <2>3
  <1> QED
    BY <1>3, <1>4, <1>5, <1>6

\* Whatever a process that is alone does next.
LEMMA StepApplied ==
  ASSUME TInv, NEW p \in Procs, Stage(p), AppliedBy(p), "mixed" \notin spoiled,
         Step(p) \/ Raise(p) \/ (p = Server /\ (BackfillConformance \/ RebuildDerived \/ Serve))
  PROVE  AppliedBy(p)'
  <1>1. CASE \/ CheckApplied(p) \/ List(p) \/ Read(p) \/ Publish(p) \/ Advertise(p) \/ Affected(p) \/ Copy(p)
             \/ EndMigration(p) \/ ListOrphans(p) \/ AskSchema(p)
             \/ p = Server /\ (BackfillConformance \/ RebuildDerived \/ Serve)
    BY <1>1, SteadySteps, Steady
  <1>2. CASE Replace(p) \/ DropOld(p)
    <2>1. /\ UNCHANGED <<applied, spoiled, edited>>
          /\ \/ At(p) = "replace" /\ graph' = Replaced(p)
             \/ At(p) = "drop" /\ graph' = [graph EXCEPT ![Current(p)] = Absent]
          /\ NextGraph(p) \/ Goto(p, "drop")
      BY <1>2 DEF Replace, DropOld, Store
    <2>2. proc'[p].at # "undo"
      BY <2>1, Went, NextDoes DEF AfterMigration
    <2> QED
      BY <2>1, <2>2, MoveApplied
  <1>3. CASE Change(p)
    <2>1. /\ At(p) = "change" /\ graph' = Changed(p) /\ applied' = applied /\ spoiled' = spoiled
          /\ Goto(p, "list")
          /\ edited' = IF Op(p) = "delete" THEN edited \union {Current(p)} ELSE edited
      BY <1>3 DEF Change, Store, AfterChange
    <2>2. proc'[p].at # "undo"
      BY <2>1, Went
    <2> QED
      BY <2>1, <2>2, ChangedApplied
  <1> QED
    BY <1>1, <1>2, <1>3, PutApplied, RecordApplied, UndoApplied, WipeApplied, RepointApplied,
       ReconcileApplied, UnlinkApplied, RetypeApplied, RaiseApplied DEF Step

\* A process that dies leaves the row of a wiped store, or a part of what it was to apply.
LEMMA CrashApplied ==
  ASSUME TInv, CrashServer \/ CrashCli, Applied
  PROVE  Applied'
  <1> DEFINE Dead == IF CrashServer THEN Procs \ {Cli} ELSE {Cli}
  <1>1. /\ UNCHANGED <<graph, applied, edited>> /\ spoiled \subseteq spoiled'
        /\ \A q \in Procs : IF q \in Dead THEN proc'[q].at \in {"idle", "down"} ELSE proc'[q] = proc[q]
    BY CrashDoes, Who
  <1>2. /\ (\E q \in Dead : Active(q)) => spoiled' # {}
        /\ (\E q \in Dead : At(q) = "clear") => "wiped" \in spoiled'
    BY DEF CrashServer, CrashCli, Died
  <1>3. Dead \subseteq Procs
    BY Who
  <1> HIDE DEF Dead
  <1>4. ASSUME Recorded'
        PROVE  /\ (\A q \in Procs : At(q)' # "undo")
               /\ ((\A q \in Procs : At(q)' # "clear") => Whole')
    <2>1. Recorded
      BY <1>1, <1>4 DEF Recorded
    <2>2. \A q \in Procs : At(q)' # "undo"
      BY <1>1, <2>1 DEF Applied, At
    <2>3. ASSUME \A q \in Procs : At(q)' # "clear" PROVE Whole'
      <3>1. \A q \in Procs : At(q) # "clear"
        BY <1>1, <1>2, <1>4, <2>3 DEF Recorded, At
      <3>2. Whole
        BY <2>1, <3>1 DEF Applied
      <3> QED
        BY <1>1, <3>2 DEF Whole, Revisions, Formerly
    <2> QED
      BY <2>2, <2>3
  <1>5. ASSUME Unclaimed', NEW n \in Names, Present(n)' PROVE \E q \in Procs : n \in Owes(q)'
    <2>1. Unclaimed
      BY <1>1, <1>5 DEF Unclaimed
    <2>2. PICK q \in Procs : n \in Owes(q)
      BY <1>1, <1>5, <2>1 DEF Applied, Present
    <2>3. Active(q)
      BY <2>2 DEF Owes, Active, Resting
    <2>4. proc'[q] = proc[q]
      BY <1>1, <1>2, <1>5, <2>3 DEF Unclaimed
    <2>5. Owes(q)' = Owes(q)
      BY <2>4 DEF Owes, At, Written
    <2> QED
      BY <2>2, <2>5
  <1> QED
    BY <1>4, <1>5 DEF Applied

\* It is kept at each step.
LEMMA AppliedKept == ASSUME IInv, AInv, [Next]_vars PROVE AInv'
  <1> SUFFICES ASSUME "mixed" \notin spoiled' PROVE Applied'
    BY DEF AInv
  <1>1. TInv
    BY DEF IInv
  <1>2. CASE UNCHANGED vars
    <2>1. UNCHANGED <<graph, applied, proc, spoiled, edited>>
      BY <1>2 DEF vars
    <2>2. Applied
      BY <2>1 DEF AInv
    <2>3. Whole' = Whole /\ Recorded' = Recorded /\ Unclaimed' = Unclaimed
      BY <2>1 DEF Whole, Recorded, Unclaimed, Revisions, Formerly
    <2>4. \A q : At(q)' = At(q) /\ Owes(q)' = Owes(q)
      BY <2>1 DEF At, Owes, Written
    <2>5. \A n : Present(n)' = Present(n)
      BY <2>1 DEF Present
    <2> QED
      BY <2>2, <2>3, <2>4, <2>5 DEF Applied
  <1>3. CASE CrashServer \/ CrashCli
    BY <1>1, <1>3, CrashApplied, CrashDoes DEF AInv
  <1>4. ASSUME NEW p \in Procs, Mover(p) PROVE Applied'
    <2>1. \A q \in Procs : q # p => proc'[q] = proc[q]
      BY <1>1, <1>4, MoverFits
    <2>2. \A q \in Procs : q # p => Active(q)' = Active(q)
      BY <2>1 DEF Active, At
    <2>3. CASE Begins(p)
      <3>1. /\ ~Active(p) /\ UNCHANGED <<graph, applied, edited>> /\ proc'[p].at # "undo"
            /\ (\A q \in Procs : q # p => ~Active(q)) /\ spoiled' = spoiled
        BY <1>1, <2>3, BeginsDo
      <3>2. AppliedBy(p)
        BY <3>1, AppliedAlone DEF AInv
      <3>3. At(p) \notin {"put", "record", "undo", "clear"}
        BY <3>1 DEF Active, Resting
      <3>4. AppliedBy(p)'
        BY <1>1, <3>1, <3>2, <3>3, Steady
      <3> QED
        BY <2>2, <3>1, <3>4, AppliedAgain
    <2>4. CASE ~Begins(p)
      <3>1. Step(p) \/ Raise(p) \/ (p = Server /\ (BackfillConformance \/ RebuildDerived \/ Serve))
        BY <1>4, <2>4 DEF Mover, Begins
      <3>2. Active(p) /\ "mixed" \notin spoiled
        BY <3>1, StepLeaves
      <3>3. Stage(p) /\ \A q \in Procs : q # p => ~Active(q)
        BY <3>2, AloneWhen, OnlyOne
      <3>4. AppliedBy(p)
        BY <3>2, <3>3, AppliedAlone DEF AInv
      <3>5. AppliedBy(p)'
        BY <1>1, <3>1, <3>2, <3>3, <3>4, StepApplied
      <3> QED
        BY <2>2, <3>3, <3>5, AppliedAgain
    <2> QED
      BY <2>3, <2>4
  <1> QED
    BY <1>2, <1>3, <1>4, Movers

\* What an earlier deployment left is whole.
LEMMA InitApplied == Init => AInv
  <1> SUFFICES ASSUME Init PROVE Applied
    BY DEF AInv
  <1>1. \A p \in Procs : At(p) \notin {"undo", "clear"}
    <2> DEFINE down == [Idle EXCEPT !.at = "down"]
    <2>1. down.at = "down" /\ Idle.at = "idle"
      BY AtRest DEF Process
    <2> HIDE DEF down
    <2>2. proc = [p \in Procs |-> IF p = Server THEN down ELSE Idle]
      BY DEF Init, down
    <2> QED
      BY <2>1, <2>2 DEF At
  <1>2. Absent.rev = 0
    BY AtRest
  <1>3. CASE graph = Fresh /\ applied = 0
    BY <1>1, <1>2, <1>3 DEF Applied, Recorded, Fresh, Present
  <1>4. CASE graph \in {AsApplied, OlderRelease} /\ applied = 1
    <2> SUFFICES ASSUME NEW n \in Elems(WriteOrder(Bundles[1])) PROVE Revisions(n) # {}
      BY <1>1, <1>4 DEF Applied, Whole, Unclaimed
    <2>1. n \in Names /\ n \notin Older
      <3>1. n \in Names
        BY Constants, Numbered
      <3>2. n \notin Older
        BY Constants, OrderOf
      <3> QED
        BY <3>1, <3>2
    <2>2. \E m \in {n} \union Formerly(n) : graph[m].rev = 1
      <3>1. CASE graph = AsApplied
        BY <2>1, <3>1 DEF AsApplied
      <3>2. CASE graph = OlderRelease /\ n \notin Renamed
        BY <2>1, <3>2 DEF OlderRelease
      <3>3. CASE graph = OlderRelease /\ n \in Renamed
        <4>1. PICK m \in Older : m \in Formerly(n)
          BY <3>3 DEF Renamed, Older, Formerly
        <4>2. graph[m].rev = 1
          BY <3>3, <4>1, NamesApart DEF OlderRelease
        <4> QED
          BY <4>1, <4>2
      <3> QED
        BY <1>4, <3>1, <3>2, <3>3
    <2> QED
      BY <2>2 DEF Revisions
  <1> QED
    BY <1>3, <1>4 DEF Init

\* A profile is applied entirely or not at all, whatever overlaps, raises or dies, but for what
\* the property excuses.
THEOREM AlwaysAllOrNothing == Spec => []AllOrNothing
  <1>1. IInv /\ AInv => AllOrNothing
    <2> SUFFICES ASSUME IInv, AInv, Quiet PROVE AllOrNothing
      BY DEF AllOrNothing
    <2>1. \A p \in Procs : At(p) \notin {"undo", "clear"} /\ Owes(p) = {}
      BY DEF Quiet, Active, Resting, Owes
    <2>2. "mixed" \notin spoiled =>
            (Recorded => Whole) /\ (Unclaimed => \A n \in Names : ~Present(n))
      BY <2>1 DEF AInv, Applied
    <2> QED
      BY <2>2 DEF AllOrNothing, Recorded, Unclaimed, Whole
  <1> QED
    BY <1>1, InitKnows, InitApplied, Kept, AppliedKept, PTL DEF Spec
-----------------------------------------------------------------------------
(* The cache of definitions.                                               *)

NoOldSlugs == \A s \in Slugs : ~graph[s].old
Synced     == cache = Resolve(Definitions)

\* Calls at which a request has changed the definitions and not yet published them.
Dirty == {"clear", "put", "record", "list", "read", "publish"}

\* What the starting server has read is what is there, and then what it has published.
Booting ==
  /\ At(Server) = "read" => NoOldSlugs
  /\ At(Server) \in {"backfill", "publish"} =>
       NoOldSlugs /\ proc[Server].recs = Definitions /\ Rebuilt(Server) = Definitions
  /\ At(Server) \in Warming => NoOldSlugs /\ Synced
  /\ At(Server) \in {"copy", "replace", "drop"} => proc[Server].todo \intersect Slugs = {}

Serving == At(Server) = "serving" /\ (\A r \in Requests : At(r) \notin Dirty) => Synced
CInv    == ~behind => Booting /\ (\A r \in Requests : At(r) # "undo") /\ Serving

\* Definitions that stay.
LEMMA SameSlugs ==
  ASSUME \A s \in Slugs : graph'[s] = graph[s]
  PROVE  Definitions' = Definitions /\ (NoOldSlugs' <=> NoOldSlugs)
  BY DEF Definitions, NoOldSlugs

\* Calls of the server at which nothing is asked of the cache.
Watched == {"read", "backfill", "publish", "serving"} \union Warming

\* There, whatever the store is.
LEMMA Unwatched == ASSUME proc'[Server].at \notin Watched PROVE Booting' /\ Serving'
  BY DEF Watched, Booting, Serving, Warming, Moving, At

\* The server goes on with a cache that is current, and definitions that stay.
LEMMA StaysSynced ==
  ASSUME NoOldSlugs, Synced, cache' = cache, \A s \in Slugs : graph'[s] = graph[s],
         proc'[Server].at \in Warming \union {"serving"},
         proc'[Server].at \in {"copy", "replace", "drop"} => proc'[Server].todo \intersect Slugs = {}
  PROVE  Booting' /\ Serving'
  <1>1. NoOldSlugs' /\ Synced'
    BY SameSlugs DEF Synced
  <1> QED
    BY <1>1 DEF Booting, Serving, Warming, Moving, At

\* Only a rebuild that ran alone decides the cache again.
LEMMA BehindStays ==
  ASSUME NEW p \in Procs, p = Server \/ ~Publish(p), behind,
         Step(p) \/ Raise(p) \/ (p = Server /\ (BackfillConformance \/ RebuildDerived \/ Serve))
  PROVE  behind'
  BY DEF Step, CheckApplied, Put, Record, Undo, Wipe, Clear, List, Read, Publish, Advertise,
         Affected, Copy, Replace, DropOld, EndMigration, Repoint, Reconcile, ListOrphans, Unlink,
         RetypeRoot, AskSchema, Change, Store, Raise, BackfillConformance, RebuildDerived, Serve

\* Only a publication, and a start, change the cache.
LEMMA CacheStays ==
  ASSUME NEW p \in Procs, ~Publish(p),
         Step(p) \/ Raise(p) \/ (p = Server /\ (BackfillConformance \/ RebuildDerived \/ Serve))
  PROVE  cache' = cache
  BY DEF Step, CheckApplied, Put, Record, Undo, Wipe, Clear, List, Read, Publish, Advertise,
         Affected, Copy, Replace, DropOld, EndMigration, Repoint, Reconcile, ListOrphans, Unlink,
         RetypeRoot, AskSchema, Change, Raise, BackfillConformance, RebuildDerived, Serve

\* What a process has read when there is nothing left to read.
LEMMA ReadAll ==
  ASSUME TInv, NEW p \in Procs, Read(p), ~Done(p), Stage(p), proc'[p].todo = {}
  PROVE  proc'[p].recs = Definitions /\ \E s \in Slugs : Definitions[s] # 0
  <1> DEFINE c == Current(p)
             T == proc[p].todo
  <1>1. /\ c \in T /\ c \in Slugs /\ proc'[p].todo = T \ {c}
        /\ proc[p].recs \in [Slugs -> Revs]
        /\ proc'[p].recs = [proc[p].recs EXCEPT ![c] = Definitions[c]]
        /\ Definitions[c] # 0
    BY ReadDoes
  <1>2. \A s \in Slugs : proc[p].recs[s] = IF s \in T THEN 0 ELSE Definitions[s]
    BY DEF Stage, ReadStage, Read
  <1> HIDE DEF c, T
  <1>3. \A s \in Slugs : proc'[p].recs[s] = Definitions[s]
    BY <1>1, <1>2
  <1> QED
    BY <1>1, <1>3 DEF Definitions

\* The server reads, or applies.
LEMMA BootReads ==
  ASSUME IInv, CInv, Stage(Server), ~behind, ~behind',
         \/ CheckApplied(Server) \/ Put(Server) \/ Record(Server) \/ Undo(Server) \/ List(Server) \/ Read(Server)
         \/ BackfillConformance
  PROVE  Booting' /\ Serving'
  <1> DEFINE p == Server
  <1>1. /\ TInv /\ StoreFits /\ p \in Procs /\ proc \in [Procs -> Process] /\ proc[p] \in Process
        /\ Booting
        /\ proc[p].b = 1 /\ Op(p) = "boot"
    <2>1. TInv /\ p \in Procs /\ Booting
      BY Who DEF IInv, CInv
    <2>2. Active(p)
      BY DEF CheckApplied, Put, Record, Undo, List, Read, BackfillConformance, Active, Resting
    <2> QED
      BY <2>1, <2>2, Doing DEF OpsOf, ProcsFit
  <1>2. CASE Done(p)
    <2>1. proc'[p].at = "down"
      BY <1>1, <1>2, Ended
    <2> QED
      BY <2>1, Unwatched DEF Watched, Warming, Moving
  <1>3. CASE CheckApplied(p) /\ ~Done(p)
    <2>1. Goto(p, "list") \/ Goto(p, "put")
      BY <1>3 DEF CheckApplied
    <2>2. proc'[p].at \in {"list", "put"}
      BY <1>1, <2>1, Went
    <2> QED
      BY <2>2, Unwatched DEF Watched, Warming, Moving
  <1>4. CASE Put(p)
    <2>1. proc'[p].at \in {"put", "record"}
      BY <1>1, <1>4, PutDoes
    <2> QED
      BY <2>1, Unwatched DEF Watched, Warming, Moving
  <1>5. CASE Undo(p) /\ ~Done(p)
    <2> DEFINE k == proc[p].n - 1
    <2>1. Becomes(p, [proc[p] EXCEPT !.n = k]) /\ At(p) = "undo"
      BY <1>5 DEF Undo
    <2> HIDE DEF k
    <2>2. proc'[p].at = "undo"
      BY <1>1, <2>1 DEF Becomes, Process, At
    <2> QED
      BY <2>2, Unwatched DEF Watched, Warming, Moving
  <1>6. CASE Record(p) /\ ~Done(p)
    <2>1. At(p) = "record" /\ applied = 0
          /\ \A n \in Prefix(proc[p].b, Written(p)) : graph[n] = [rev |-> proc[p].b, old |-> FALSE]
      BY <1>6 DEF Stage, PutStage, Record
    <2>2. /\ proc'[p].at = "backfill" /\ proc'[p].recs = Manifest(1) /\ graph' = graph
          /\ Prefix(proc[p].b, Written(p)) = Elems(WriteOrder(Bundles[1]))
      BY <1>1, <1>6, <2>1, RecordDoes DEF AfterRecord
    <2>3. \A s \in Slugs : Manifest(1)[s] = 0 => ~Present(s)
      BY <1>1, <1>6 DEF Record
    <2>4. Manifest(1) = Definitions /\ NoOldSlugs
      BY <1>1, <2>1, <2>2, <2>3, Constants, ManifestIs DEF NoOldSlugs
    <2>5. Definitions' = Definitions /\ NoOldSlugs'
      BY <2>2, <2>4, SameSlugs
    <2>6. Rebuilt(p)' = Manifest(1)
      BY <2>2 DEF Rebuilt
    <2> QED
      BY <2>2, <2>4, <2>5, <2>6 DEF Booting, Serving, Warming, Moving, At
  <1>7. CASE List(p)
    <2>1. NoOldSlugs /\ Listed # {} /\ graph' = graph
      BY <1>7 DEF List, NoOldSlugs
    <2>2. proc'[p].at = "read" /\ NoOldSlugs'
      BY <1>1, <1>7, <2>1, ListDoes, SameSlugs
    <2> QED
      BY <2>2 DEF Booting, Serving, Warming, Moving, At
  <1>8. CASE Read(p) /\ ~Done(p)
    <2>1. /\ proc'[p].at = (IF proc'[p].todo = {} THEN "publish" ELSE "read") /\ graph' = graph
      BY <1>1, <1>8, ReadDoes DEF AfterRead
    <2>2. NoOldSlugs /\ NoOldSlugs' /\ Definitions' = Definitions
      BY <1>1, <1>8, <2>1, SameSlugs DEF Booting, Read
    <2>3. CASE proc'[p].todo # {}
      BY <2>1, <2>2, <2>3 DEF Booting, Serving, Warming, Moving, At
    <2>4. CASE proc'[p].todo = {}
      <3>1. proc'[p].recs = Definitions /\ \E s \in Slugs : Definitions[s] # 0
        BY <1>1, <1>8, <2>4, ReadAll
      <3>2. Rebuilt(p)' = Definitions
        BY <3>1 DEF Rebuilt
      <3> QED
        BY <2>1, <2>2, <2>4, <3>1, <3>2 DEF Booting, Serving, Warming, Moving, At
    <2> QED
      BY <2>3, <2>4
  <1>9. CASE BackfillConformance
    <2>1. At(p) = "backfill" /\ graph' = graph /\ Goto(p, "publish")
      BY <1>9 DEF BackfillConformance
    <2>2. proc'[p].at = "publish" /\ proc'[p].recs = proc[p].recs
      BY <1>1, <2>1, Went
    <2>3. Definitions' = Definitions /\ (NoOldSlugs' <=> NoOldSlugs)
      BY <2>1, SameSlugs
    <2>4. NoOldSlugs /\ proc[p].recs = Definitions /\ Rebuilt(p) = Definitions
      BY <1>1, <2>1 DEF Booting
    <2>5. Rebuilt(p)' = Rebuilt(p)
      BY <2>2 DEF Rebuilt
    <2> QED
      BY <2>2, <2>3, <2>4, <2>5 DEF Booting, Serving, Warming, Moving, At
  <1> QED
    BY <1>2, <1>3, <1>4, <1>5, <1>6, <1>7, <1>8, <1>9

\* The graphs that a start's migration moves are not those of definitions.
LEMMA MovesNoSlug ==
  ASSUME TInv, NEW p \in Procs, At(p) \in {"replace", "drop"}, Stage(p), proc[p].todo \intersect Slugs = {},
         graph' \in {graph, Replaced(p), [graph EXCEPT ![Current(p)] = Absent]}
  PROVE  \A s \in Slugs : graph'[s] = graph[s]
  <1> DEFINE c == Current(p)
             t == Target(p, c)
             w == Rewritten(p)
  <1>1. /\ c \in proc[p].todo /\ c \in Names /\ (Op(p) = "relocate" => c \in DOMAIN Moved)
        /\ graph \in [Names -> Graphs]
    <2>1. proc[p].todo # {} /\ proc[p] \in Process /\ graph \in [Names -> Graphs]
      BY Doing DEF Sized, At, StoreFits
    <2>2. c \in proc[p].todo
      BY <2>1, OneOf DEF Current
    <2>3. Op(p) = "relocate" => proc[p].todo \subseteq DOMAIN Moved
      BY DEF Stage, MoveStage
    <2> QED
      BY <2>1, <2>2, <2>3 DEF Process
  <1>2. c \notin Slugs /\ t \notin Slugs
    BY <1>1, Places
  <1>3. graph' \in {graph, [graph EXCEPT ![t] = w], [graph EXCEPT ![c] = Absent]}
    BY DEF Replaced
  <1> HIDE DEF c, t, w
  <1> QED
    BY <1>1, <1>2, <1>3, NamesApart

\* The server publishes what it has read, warms what depends on it and serves.
LEMMA BootWarms ==
  ASSUME IInv, CInv, Stage(Server), ~behind, ~behind',
         \/ Publish(Server) \/ Advertise(Server) \/ Affected(Server) \/ Copy(Server) \/ Replace(Server) \/ DropOld(Server)
         \/ EndMigration(Server) \/ RebuildDerived \/ Serve
  PROVE  Booting' /\ Serving'
  <1> DEFINE p == Server
             Warm == Warming \union {"serving"}
  <1>1. /\ TInv /\ p \in Procs /\ proc \in [Procs -> Process] /\ proc[p] \in Process /\ Booting
        /\ Op(p) = "boot"
    <2>1. TInv /\ p \in Procs /\ Booting
      BY Who DEF IInv, CInv
    <2>2. Active(p)
      BY DEF Publish, Advertise, Affected, Copy, Replace, DropOld, EndMigration, RebuildDerived,
             Serve, Active, Resting
    <2> QED
      BY <2>1, <2>2, Doing DEF OpsOf, ProcsFit
  <1>2. CASE Publish(p)
    <2>1. /\ cache' = Resolve(Rebuilt(p)) /\ graph' = graph /\ Goto(p, "advertise")
          /\ At(p) = "publish"
      BY <1>2 DEF Publish
    <2>2. NoOldSlugs /\ Rebuilt(p) = Definitions
      BY <1>1, <2>1 DEF Booting
    <2>3. Definitions' = Definitions /\ (NoOldSlugs' <=> NoOldSlugs)
      BY <2>1, SameSlugs
    <2>4. NoOldSlugs' /\ Synced'
      BY <2>1, <2>2, <2>3 DEF Synced
    <2>5. proc'[p].at = "advertise"
      BY <1>1, <2>1, Went
    <2> QED
      BY <2>4, <2>5 DEF Booting, Serving, Warming, Moving, At
  <1>3. ASSUME ~Publish(p) PROVE cache' = cache /\ NoOldSlugs /\ Synced
    <2>1. cache' = cache
      BY <1>3 DEF Advertise, Affected, Copy, Replace, DropOld, EndMigration, RebuildDerived, Serve
    <2>2. At(p) \in Warming
      BY <1>3
         DEF Advertise, Affected, Copy, Replace, DropOld, EndMigration, RebuildDerived, Serve,
             Warming, Moving
    <2> QED
      BY <1>1, <2>1, <2>2 DEF Booting
  <1>4. CASE Advertise(p) \/ EndMigration(p) \/ RebuildDerived
    <2>1. /\ graph' = graph /\ ~Publish(p)
          /\ \E call \in {"affected", "warm", "invalidate", "reindex"} : Goto(p, call)
      BY <1>4 DEF Advertise, EndMigration, RebuildDerived, Publish
    <2>2. proc'[p].at \in {"affected", "warm", "invalidate", "reindex"}
      BY <1>1, <2>1, Went
    <2> QED
      BY <1>3, <2>1, <2>2, StaysSynced DEF Warming, Moving
  <1>5. CASE Serve
    <2>1. /\ graph' = graph /\ ~Publish(p)
          /\ proc' = [proc EXCEPT ![p] = [Idle EXCEPT !.at = "serving"]]
      BY <1>5 DEF Serve, Rest, Becomes, Publish
    <2>2. proc'[p].at = "serving"
      BY <1>1, <2>1, AtRest DEF Process
    <2> QED
      BY <1>3, <2>1, <2>2, StaysSynced DEF Warming, Moving
  <1>6. CASE Affected(p)
    <2>1. /\ graph' = graph /\ ~Publish(p) /\ proc'[p].todo = {n \in Names : graph[n].old}
          /\ proc'[p].at \in {"migrated", "copy"}
      BY <1>1, <1>6, AffectedDoes DEF ToMigrate, AfterMigration, Affected, Publish
    <2>2. proc'[p].todo \intersect Slugs = {}
      BY <1>3, <2>1 DEF NoOldSlugs
    <2> QED
      BY <1>3, <2>1, <2>2, StaysSynced DEF Warming, Moving
  <1>7. CASE Copy(p)
    <2>1. /\ graph' = graph /\ ~Publish(p) /\ proc'[p].at = "replace"
          /\ proc'[p].todo = proc[p].todo /\ At(p) = "copy"
      BY <1>1, <1>7, CopyDoes DEF Copy, Publish
    <2>2. proc'[p].todo \intersect Slugs = {}
      BY <1>1, <2>1 DEF Booting
    <2> QED
      BY <1>3, <2>1, <2>2, StaysSynced DEF Warming, Moving
  <1>8. CASE Replace(p) \/ DropOld(p)
    <2>1. /\ At(p) \in {"replace", "drop"} /\ ~Publish(p) /\ (NextGraph(p) \/ Goto(p, "drop"))
          /\ graph' \in {Replaced(p), [graph EXCEPT ![Current(p)] = Absent]}
      BY <1>8 DEF Replace, DropOld, Store, Publish
    <2>2. proc[p].todo \intersect Slugs = {}
      BY <1>1, <2>1 DEF Booting
    <2>3. proc'[p].at \in {"drop", "copy", "migrated"} /\ proc'[p].todo \subseteq proc[p].todo
      BY <1>1, <2>1, Went, NextDoes DEF AfterMigration
    <2>4. \A s \in Slugs : graph'[s] = graph[s]
      BY <1>1, <2>1, <2>2, MovesNoSlug
    <2>5. proc'[p].todo \intersect Slugs = {}
      BY <2>2, <2>3
    <2> QED
      BY <1>3, <2>1, <2>3, <2>4, <2>5, StaysSynced DEF Warming, Moving
  <1> QED
    BY <1>2, <1>4, <1>5, <1>6, <1>7, <1>8

\* The server raises.
LEMMA BootRaises ==
  ASSUME IInv, CInv, Stage(Server), ~behind, Raise(Server)
  PROVE  Booting' /\ Serving'
  <1> DEFINE p == Server
  <1>1. /\ TInv /\ p \in Procs /\ Booting /\ Active(p) /\ Caught(p) /\ cache' = cache
        /\ graph' \in {graph, Effect(p)}
    BY Who DEF IInv, CInv, Raise
  <1>2. CASE ~(Migrating(p) /\ proc'[p].at = "warm")
    <2>1. proc'[p].at \in {"down", "undo"}
      BY <1>1, <1>2, CaughtDoes, Ended
    <2> QED
      BY <2>1, Unwatched DEF Watched, Warming, Moving
  <1>3. CASE Migrating(p) /\ proc'[p].at = "warm"
    <2>1. /\ NoOldSlugs /\ Synced
          /\ (At(p) \in {"replace", "drop"} => proc[p].todo \intersect Slugs = {})
      BY <1>1, <1>3 DEF Booting, Migrating, Warming, Moving
    <2>2. graph' # graph => /\ At(p) \in {"replace", "drop"}
                            /\ graph' \in {graph, Replaced(p), [graph EXCEPT ![Current(p)] = Absent]}
      BY <1>1, <1>3 DEF Effect, Migrating
    <2>3. \A s \in Slugs : graph'[s] = graph[s]
      BY <1>1, <2>1, <2>2, MovesNoSlug
    <2> QED
      BY <1>1, <1>3, <2>1, <2>3, StaysSynced DEF Warming, Moving
  <1> QED
    BY <1>2, <1>3

\* What the cache asks for, of processes and of a store that stay.
LEMMA Unmoved ==
  ASSUME CInv, ~behind, cache' = cache, proc'[Server] = proc[Server], \A r \in Requests : proc'[r] = proc[r],
         ~Active(Server), At(Server) = "down" \/ \A s \in Slugs : graph'[s] = graph[s]
  PROVE  CInv'
  <1>1. At(Server) \in Resting /\ At(Server)' = At(Server) /\ \A r \in Requests : At(r)' = At(r)
    BY DEF Active, At
  <1>2. Booting'
    BY <1>1 DEF Booting, Resting, Warming, Moving
  <1>3. Serving'
    <2> SUFFICES ASSUME At(Server) = "serving", \A r \in Requests : At(r) \notin Dirty PROVE Synced'
      BY <1>1 DEF Serving
    <2>1. Synced /\ Definitions' = Definitions
      BY SameSlugs DEF CInv, Serving
    <2> QED
      BY <2>1 DEF Synced
  <1> QED
    BY <1>1, <1>2, <1>3 DEF CInv

\* A command changes no definition that the server has.
LEMMA CliSynced ==
  ASSUME IInv, CInv, Step(Cli) \/ Raise(Cli), ~behind'
  PROVE  CInv'
  <1>1. TInv /\ Cli \in Procs /\ Active(Cli) /\ Server \in Procs /\ Server # Cli
        /\ Requests \subseteq Procs /\ Cli \notin Requests
    BY Who, StepLeaves DEF IInv
  <1>2. ~Publish(Cli)
    BY <1>1, Doing DEF Publish, OpsOf, On, Applying, Warming, Moving
  <1>3. ~behind /\ cache' = cache
    BY <1>1, <1>2, BehindStays, CacheStays
  <1>4. Up => \A s \in Slugs : graph'[s] = graph[s]
    BY <1>1
       DEF Step, CheckApplied, Put, Record, Undo, Wipe, Clear, List, Read, Publish, Advertise,
           Affected, Copy, Replace, DropOld, EndMigration, Repoint, Reconcile, ListOrphans,
           Unlink, RetypeRoot, AskSchema, Change, Store, Raise
  <1>5. ~Active(Server)
    BY <1>1, <1>3, AloneWhen, OnlyOne
  <1>6. \A q \in Procs : q # Cli => proc'[q] = proc[q]
    BY <1>1, MoverFits DEF Mover
  <1> QED
    BY <1>1, <1>3, <1>4, <1>5, <1>6, Unmoved DEF Up

\* What a request does to the cache, and where it goes.
LEMMA RequestGoes ==
  ASSUME IInv, CInv, NEW r \in Requests, Step(r) \/ Raise(r), ~behind', alone[r], ~Publish(r)
  PROVE  /\ proc'[r].at # "undo"
         /\ proc'[r].at \in Dirty \/ (At(r) \notin Dirty /\ graph' = graph) \/ ~Up
  <1>1. /\ TInv /\ r \in Procs /\ r # Server /\ r # Cli /\ Active(r)
        /\ Op(r) \in {"reset", "create", "replace", "delete"}
        /\ On(Op(r), At(r)) /\ Stage(r) /\ proc \in [Procs -> Process] /\ proc[r] \in Process
    <2>1. TInv /\ r \in Procs /\ r # Server /\ r # Cli /\ Active(r)
      BY Who, StepLeaves DEF IInv
    <2> QED
      BY <2>1, Doing, OnlyOne DEF OpsOf, ProcsFit
  <1>2. ~behind /\ At(r) # "undo"
    BY <1>1, BehindStays DEF CInv
  <1>3. At(r) \in Applying \union {"wipe", "clear", "advertise", "ask", "change", "list", "read", "publish"}
    BY <1>1 DEF On, Applying
  <1>4. ~Raise(r)
    BY DEF Raise
  <1>5. Put(r) \/ Record(r) \/ Wipe(r) \/ Clear(r) \/ List(r) \/ Read(r) \/ Advertise(r) \/ AskSchema(r) \/ Change(r)
    BY <1>2, <1>3, <1>4
       DEF Step, CheckApplied, Undo, Affected, Copy, Replace, DropOld, EndMigration, Repoint,
           Reconcile, ListOrphans, Unlink, RetypeRoot, Applying
  <1>6. CASE Put(r)
    BY <1>1, <1>6, PutDoes DEF Dirty
  <1>7. CASE Record(r)
    <2>1. applied = 0
      BY <1>1, <1>7 DEF Stage, PutStage, Record
    <2>2. proc'[r].at = "publish"
      BY <1>1, <1>7, <2>1, RecordDoes DEF AfterRecord
    <2> QED
      BY <2>2 DEF Dirty
  <1>8. CASE Wipe(r) \/ Clear(r) \/ Change(r)
    <2>1. Goto(r, "clear") \/ Goto(r, "put") \/ Goto(r, "list") \/ (Done(r) /\ ~Up)
      BY <1>8 DEF Wipe, Clear, Change, AfterChange
    <2>2. proc'[r].at \in {"clear", "put", "list"} \/ (proc'[r].at # "undo" /\ ~Up)
      BY <1>1, <2>1, Went, Ended
    <2> QED
      BY <2>2 DEF Dirty
  <1>9. CASE List(r)
    <2>1. proc'[r].at \in {"read", "publish"}
      BY <1>1, <1>9, ListDoes DEF AfterRead
    <2> QED
      BY <2>1 DEF Dirty
  <1>10. CASE Read(r)
    <2>1. ~Done(r)
      <3> SUFFICES ASSUME Done(r) PROVE FALSE
        OBVIOUS
      <3>1. Definitions[Current(r)] # 0
        BY <1>1, <1>10 DEF Read
      <3>2. TInv /\ At(r) = "read" /\ Becomes(r, [Further(r, "read", AfterRead(r)) EXCEPT
                         !.recs = [proc[r].recs EXCEPT ![Current(r)] = Definitions[Current(r)]]])
        BY <1>1, <1>10, <3>1 DEF Read
      <3> DEFINE f == Further(r, "read", AfterRead(r))
                 d == [proc[r].recs EXCEPT ![Current(r)] = Definitions[Current(r)]]
      <3>3. /\ proc[r].todo # {} /\ "read" \in Calls /\ AfterRead(r) \in Calls
            /\ AfterRead(r) \in {"repoint", "publish"}
        BY <1>1, <3>2, Doing DEF Sized, At, Calls, AfterRead
      <3>4. f \in Process /\ f.at \in {"read", "repoint", "publish"}
        BY <1>1, <3>3, Onward
      <3> HIDE DEF f, d
      <3>5. proc'[r].at = f.at
        BY <1>1, <3>2, <3>4 DEF Becomes, Process, f, d
      <3> QED
        BY <1>1, <3>4, <3>5, Ended DEF Resting
    <2>2. proc'[r].at \in {"read", "publish"}
      BY <1>1, <1>10, <2>1, ReadDoes DEF AfterRead
    <2> QED
      BY <2>2 DEF Dirty
  <1>11. CASE Advertise(r) \/ AskSchema(r)
    <2>1. graph' = graph /\ At(r) \in {"advertise", "ask"} /\ (Done(r) \/ Goto(r, "change"))
      BY <1>1, <1>11 DEF Advertise, AskSchema
    <2>2. proc'[r].at # "undo"
      BY <1>1, <2>1, Ended, Went
    <2> QED
      BY <2>1, <2>2 DEF Dirty
  <1> QED
    BY <1>5, <1>6, <1>7, <1>8, <1>9, <1>10, <1>11

\* A request that publishes has read what is there.
LEMMA RequestSynced ==
  ASSUME IInv, CInv, NEW r \in Requests, Step(r) \/ Raise(r), ~behind'
  PROVE  CInv'
  <1>1. /\ TInv /\ r \in Procs /\ r # Server /\ Server \in Procs /\ Active(r)
        /\ Requests \subseteq Procs /\ Cli \notin Requests
    BY Who, StepLeaves DEF IInv
  <1>2. alone[r]
    <2>1. ~behind \/ alone[r]
      BY <1>1, StepLeaves
    <2> QED
      BY <1>1, <2>1, AloneWhen
  <1>3. Stage(r) /\ \A q \in Procs : q # r => ~Active(q)
    BY <1>1, <1>2, OnlyOne
  <1>4. \A q \in Procs : q # r => proc'[q] = proc[q]
    BY <1>1, MoverFits DEF Mover
  <1>5. Booting' /\ \A q \in Requests : q # r => At(q)' \notin Dirty \union {"undo"}
    BY <1>1, <1>3, <1>4 DEF Booting, Warming, Moving, Active, At, Resting, Dirty
  <1>6. CASE Publish(r)
    <2>1. /\ At(r) = "publish" /\ graph' = graph /\ cache' = Resolve(proc[r].recs)
          /\ (Goto(r, "advertise") \/ Done(r))
      BY <1>1, <1>6 DEF Publish, Rebuilt
    <2>2. proc[r].recs = Definitions /\ Definitions' = Definitions
      BY <1>1, <1>3, <2>1, SameSlugs DEF Stage, ReadStage
    <2>3. proc'[r].at # "undo"
      BY <1>1, <2>1, Went, Ended
    <2>4. Synced'
      BY <2>1, <2>2 DEF Synced
    <2> QED
      BY <1>5, <2>3, <2>4 DEF CInv, Serving, At
  <1>7. CASE ~Publish(r)
    <2>1. ~behind /\ cache' = cache
      BY <1>1, <1>7, BehindStays, CacheStays
    <2>2. /\ proc'[r].at # "undo"
          /\ proc'[r].at \in Dirty \/ (At(r) \notin Dirty /\ graph' = graph) \/ ~Up
      BY <1>2, <1>7, RequestGoes
    <2>3. CASE proc'[r].at \in Dirty \/ ~Up
      <3>1. At(Server)' = At(Server)
        BY <1>1, <1>4 DEF At
      <3> QED
        BY <1>5, <2>2, <2>3, <3>1 DEF CInv, Serving, At, Up
    <2>4. CASE At(r) \notin Dirty /\ graph' = graph
      <3>1. At(Server) = "serving" => Synced
        <4>1. \A q \in Requests : At(q) \notin Dirty
          BY <1>1, <1>3, <2>4 DEF Active, Resting, Dirty
        <4> QED
          BY <2>1, <4>1 DEF CInv, Serving
      <3>2. At(Server)' = At(Server) /\ (Synced' <=> Synced)
        BY <1>1, <1>4, <2>1, <2>4, SameSlugs DEF At, Synced
      <3> QED
        BY <1>5, <2>2, <3>1, <3>2 DEF CInv, Serving, At
    <2> QED
      BY <2>2, <2>3, <2>4
  <1> QED
    BY <1>6, <1>7

\* The server goes on.
LEMMA ServerSynced ==
  ASSUME IInv, CInv, Step(Server) \/ Raise(Server) \/ BackfillConformance \/ RebuildDerived \/ Serve, ~behind'
  PROVE  CInv'
  <1>1. /\ TInv /\ Server \in Procs /\ Active(Server) /\ Requests \subseteq Procs
        /\ Server \notin Requests
    BY Who, StepLeaves DEF IInv
  <1>2. ~behind
    BY <1>1, BehindStays
  <1>3. Stage(Server) /\ \A q \in Procs : q # Server => ~Active(q)
    BY <1>1, <1>2, AloneWhen, OnlyOne
  <1>4. \A r \in Requests : proc'[r] = proc[r] /\ At(r) # "undo"
    BY <1>1, <1>3, MoverFits DEF Mover, Active, Resting
  <1>5. Booting' /\ Serving'
    <2>1. On("boot", At(Server))
      BY <1>1, Doing DEF OpsOf
    <2>2. CASE Step(Server)
      <3>1. ~(Wipe(Server) \/ Clear(Server) \/ Repoint(Server) \/ Reconcile(Server) \/ ListOrphans(Server) \/ Unlink(Server)
                \/ RetypeRoot(Server) \/ AskSchema(Server) \/ Change(Server))
        BY <2>1
           DEF Wipe, Clear, Repoint, Reconcile, ListOrphans, Unlink, RetypeRoot, AskSchema,
               Change, On, Applying, Warming, Moving
      <3>2. \/ CheckApplied(Server) \/ Put(Server) \/ Record(Server) \/ Undo(Server) \/ List(Server) \/ Read(Server)
            \/ Publish(Server) \/ Advertise(Server) \/ Affected(Server) \/ Copy(Server) \/ Replace(Server) \/ DropOld(Server)
            \/ EndMigration(Server)
        BY <2>2, <3>1 DEF Step
      <3> QED
        BY <1>2, <1>3, <3>2, BootReads, BootWarms
    <2> QED
      BY <1>2, <1>3, <2>2, BootReads, BootWarms, BootRaises
  <1> QED
    BY <1>4, <1>5 DEF CInv, At

\* A process begins.
LEMMA BeginSynced ==
  ASSUME IInv, CInv, NEW p \in Procs, Begins(p), ~behind'
  PROVE  CInv'
  <1>1. TInv /\ Server \in Procs /\ Requests \subseteq Procs /\ Server \notin Requests
    BY Who DEF IInv
  <1>2. \A q \in Procs : q # p => proc'[q] = proc[q]
    BY <1>1, MoverFits DEF Mover, Begins
  <1>3. /\ ~Active(p) /\ graph' = graph /\ cache' = (IF p = Server THEN {} ELSE cache)
        /\ proc'[p].at \in {"check", "wipe", "affected", "reconcile", "orphans", "ask", "change"}
        /\ \A q \in Procs : q # p => ~Active(q)
        /\ IF p = Server THEN proc'[p].at = "check" ELSE ~behind
    BY <1>1, BeginsDo
  <1>4. \A r \in Requests : At(r) \in Resting /\ (At(r)' \in Resting \/ r = p)
    BY <1>1, <1>2, <1>3 DEF Active, At
  <1>5. \A r \in Requests : At(r) \notin Dirty /\ At(r)' # "undo"
    BY <1>3, <1>4 DEF Resting, Dirty, At
  <1>6. CASE p = Server
    <2>1. Booting' /\ Serving'
      BY <1>3, <1>6, Unwatched DEF Watched, Warming, Moving
    <2> QED
      BY <1>5, <2>1 DEF CInv
  <1>7. CASE p # Server
    <2>1. At(Server)' = At(Server) /\ At(Server) \in Resting
      BY <1>1, <1>2, <1>3, <1>7 DEF At, Active
    <2>2. Booting'
      BY <2>1 DEF Booting, Resting, Warming, Moving
    <2>3. At(Server) = "serving" => Synced
      BY <1>3, <1>5, <1>7 DEF CInv, Serving
    <2>4. Definitions' = Definitions /\ cache' = cache
      BY <1>3, <1>7, SameSlugs
    <2> QED
      BY <1>5, <2>1, <2>2, <2>3, <2>4 DEF CInv, Serving, Synced
  <1> QED
    BY <1>6, <1>7

\* A process dies.
LEMMA CrashSynced ==
  ASSUME IInv, CInv, CrashServer \/ CrashCli, ~behind'
  PROVE  CInv'
  <1>1. /\ TInv /\ Server \in Procs /\ Requests \subseteq Procs /\ Cli \notin Requests
        /\ Server # Cli /\ Server \notin Requests
    BY Who DEF IInv
  <1>2. /\ UNCHANGED <<graph, behind>>
        /\ \A q \in Procs : \/ proc'[q] = proc[q] /\ (CrashServer => q = Cli) /\ (CrashCli => q # Cli)
                            \/ proc'[q].at \in {"idle", "down"} /\ (CrashServer => q # Cli) /\ (CrashCli => q = Cli)
    BY <1>1, CrashDoes
  <1>3. CASE CrashServer
    <2>1. proc'[Server].at \in {"idle", "down"} /\ \A r \in Requests : At(r)' # "undo"
      BY <1>1, <1>2, <1>3 DEF At
    <2>2. Booting' /\ Serving'
      BY <2>1, Unwatched DEF Watched, Warming, Moving
    <2> QED
      BY <2>1, <2>2 DEF CInv
  <1>4. CASE CrashCli
    <2>1. /\ proc'[Server] = proc[Server] /\ (\A r \in Requests : proc'[r] = proc[r])
          /\ cache' = cache /\ ~behind
      BY <1>1, <1>2, <1>4 DEF CrashCli
    <2>2. Definitions' = Definitions /\ (NoOldSlugs' <=> NoOldSlugs)
      BY <1>2, SameSlugs
    <2>3. /\ At(Server)' = At(Server) /\ proc'[Server].todo = proc[Server].todo
          /\ proc'[Server].recs = proc[Server].recs
          /\ Rebuilt(Server)' = Rebuilt(Server) /\ \A r \in Requests : At(r)' = At(r)
      BY <2>1 DEF At, Rebuilt
    <2>4. (Synced' <=> Synced)
      BY <2>1, <2>2 DEF Synced
    <2>5. Booting'
      BY <2>1, <2>2, <2>3, <2>4 DEF CInv, Booting
    <2> QED
      BY <2>1, <2>3, <2>4, <2>5 DEF CInv, Serving
  <1> QED
    BY <1>3, <1>4

\* At each step.
LEMMA SyncedKept == ASSUME IInv, CInv, [Next]_vars PROVE CInv'
  <1> SUFFICES ASSUME ~behind' PROVE CInv'
    BY DEF CInv
  <1>1. CASE UNCHANGED vars
    BY <1>1 DEF vars, CInv, Booting, Serving, Synced, NoOldSlugs, Definitions, Rebuilt, At
  <1>2. CASE CrashServer \/ CrashCli
    BY <1>2, CrashSynced
  <1>3. ASSUME NEW p \in Procs, Mover(p) PROVE CInv'
    BY <1>3, ServerSynced, CliSynced, RequestSynced, BeginSynced, Who DEF Mover, Begins
  <1> QED
    BY <1>1, <1>2, <1>3, Movers

\* Before the first start.
LEMMA InitSynced == Init => CInv
  <1> SUFFICES ASSUME Init PROVE CInv
    OBVIOUS
  <1> DEFINE down == [Idle EXCEPT !.at = "down"]
  <1>1. down.at = "down" /\ Idle.at = "idle"
    BY AtRest DEF Process
  <1> HIDE DEF down
  <1>2. proc = [p \in Procs |-> IF p = Server THEN down ELSE Idle]
    BY DEF Init, down
  <1>3. At(Server) = "down" /\ \A r \in Requests : At(r) = "idle"
    BY <1>1, <1>2, Who DEF At
  <1> QED
    BY <1>3 DEF CInv, Booting, Serving, Warming, Moving

\* A server that serves works with the definitions of the store, once requests are over, but for
\* what the property excuses.
THEOREM CacheAlwaysCurrent == Spec => []CacheCurrent
  <1>1. IInv /\ CInv => CacheCurrent
    BY Who DEF CInv, Serving, CacheCurrent, Synced, Quiet, Active, Resting, Dirty
  <1> QED
    BY <1>1, InitKnows, InitSynced, Kept, SyncedKept, PTL DEF Spec
==============================================================================

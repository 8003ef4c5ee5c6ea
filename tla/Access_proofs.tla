---------------------------- MODULE Access_proofs ----------------------------
(***************************************************************************)
(* Who may see what, for every value of the constants.                     *)
(*                                                                         *)
(* Decisions: no interleaving of decisions, policy writes, deletes, edits  *)
(* and rebuilds caches or answers a permit that no version of the store    *)
(* granted, until a record is edited while a decision is on its way; and   *)
(* as long as nothing overlaps, what is cached is what the store gives,    *)
(* but for the rows an edit outdates.                                      *)
(* KeyTells is assumed: contexts that share a subject key (cache.py's      *)
(* compute_subject_key) are told apart by no offer.                        *)
(*                                                                         *)
(* Reads, copies of a setting, signing keys, documents and saved searches: *)
(* an inductive invariant for each, under AccessAssumption alone.          *)
(*                                                                         *)
(* At the end the composition: each part's steps leave the other parts as  *)
(* they are, so every part's invariant holds in every behaviour.           *)
(***************************************************************************)
EXTENDS Access, Sequences, FiniteSetTheorems, WellFoundedInduction, TLAPS

KeyTells ==
  \A c, d \in Contexts : Key[c] = Key[d] =>
    \A s \in Offers \cup {SeedOffer[p] : p \in Policies} : s # Nil => (c \in s <=> d \in s)

-----------------------------------------------------------------------------
(* The walk as an equation.  EffectiveOffer is a recursive function over    *)
(* all visits; that one exists is shown for the visits of each rank, by     *)
(* the least rank for which it would not.                                   *)

\* What the walk gives at the record r, past those seen, if up is what it gives further up.
Onward(lk, up, r, seen) ==
  IF lk[r].rights # Nil THEN lk[r].rights
  ELSE IF lk[r].parent \in seen \cup {r, Nil} \/ Cardinality(seen) + 1 >= MaxDepth
       THEN SystemDefault ELSE up[<<lk[r].parent, seen \cup {r}>>]

IsWalk(lk, up, S) == up = [v \in S |-> Onward(lk, up, v[1], v[2])]

Walk(lk) == CHOOSE up : IsWalk(lk, up, Visits)

\* EffectiveOffer is the walk from the record itself.
LEMMA OfferIsWalk ==
  ASSUME NEW lk, NEW r
  PROVE  EffectiveOffer(lk, r) = Walk(lk)[<<r, {}>>]
BY DEF EffectiveOffer, Walk, IsWalk, Onward

\* Of a set of numbers that is not empty one is the least.
LEMMA LeastNat ==
  ASSUME NEW T, T \subseteq Nat, T # {}
  PROVE  \E n \in T : \A m \in T : ~(m < n)
<1> DEFINE R == OpToRel(<, Nat)
<1>1. IsWellFoundedOn(R, Nat)
  BY NatLessThanWellFounded
<1>2. R = {ss \in Nat \X Nat : ss[1] < ss[2]}
  BY DEF OpToRel
<1> HIDE DEF R
<1>3. \E n \in T : \A m \in T : ~(<<m, n>> \in R)
  BY <1>1, WFMin
<1>4. QED
  BY <1>2, <1>3

\* How far the walk can still get: each step leaves one record fewer to see.
Rank(v) == 2 * Cardinality(Records \ v[2]) + (IF v[1] \in v[2] THEN 1 ELSE 0)
Near(n) == {v \in Visits : Rank(v) < n}

\* The walk goes to a record it has not seen, which ranks lower.
LEMMA RankFalls ==
  ASSUME NEW v \in Visits, NEW r \in Records, r \notin v[2] \cup {v[1]}
  PROVE  /\ <<r, v[2] \cup {v[1]}>> \in Visits
         /\ Rank(v) \in Nat /\ Rank(<<r, v[2] \cup {v[1]}>>) \in Nat
         /\ Rank(<<r, v[2] \cup {v[1]}>>) < Rank(v)
<1>1. v[1] \in Records /\ v[2] \subseteq Records
  BY DEF Visits
<1>2. PICK S : S = Records \ v[2]
  OBVIOUS
<1>3. IsFiniteSet(S) /\ Cardinality(S) \in Nat
  BY <1>2, FS_Difference, FS_CardinalityType, AuthzAssumption
<1>4. PICK U : U = Records \ (v[2] \cup {v[1]})
  OBVIOUS
<1>5. PICK w : w = <<r, v[2] \cup {v[1]}>>
  OBVIOUS
<1>6. w \in Visits /\ w[1] = r /\ w[2] = v[2] \cup {v[1]} /\ r \notin w[2]
  BY <1>1, <1>5 DEF Visits
<1>7. Rank(w) = 2 * Cardinality(U)
  <2>1. Cardinality(U) \in Nat
    BY <1>4, FS_Difference, FS_CardinalityType, AuthzAssumption
  <2>2. Rank(w) = 2 * Cardinality(U) + 0
    BY <1>4, <1>6 DEF Rank
  <2>3. QED
    BY <2>1, <2>2
<1>8. CASE v[1] \in v[2]
  <2>1. U = S
    BY <1>2, <1>4, <1>8
  <2>2. Rank(v) = 2 * Cardinality(S) + 1
    BY <1>2, <1>8 DEF Rank
  <2>3. QED
    BY <1>3, <1>5, <1>6, <1>7, <2>1, <2>2
<1>9. CASE v[1] \notin v[2]
  <2>1. v[1] \in S /\ U = S \ {v[1]}
    BY <1>1, <1>2, <1>4, <1>9
  <2>2. Cardinality(U) = Cardinality(S) - 1
    BY <1>3, <2>1, FS_RemoveElement
  <2>3. Cardinality(U) \in Nat
    BY <1>4, FS_Difference, FS_CardinalityType, AuthzAssumption
  <2>4. Rank(v) = 2 * Cardinality(S) + 0
    BY <1>2, <1>9 DEF Rank
  <2>5. QED
    BY <1>3, <1>5, <1>6, <1>7, <2>2, <2>3, <2>4
<1>10. QED
  BY <1>8, <1>9

\* For every rank there is a function that is the walk for the visits below it.
LEMMA WalksBelow ==
  ASSUME NEW lk \in [Records -> Link]
  PROVE  \A n \in Nat : \E up : IsWalk(lk, up, Near(n))
<1> DEFINE T == {n \in Nat : ~(\E up : IsWalk(lk, up, Near(n)))}
<1> SUFFICES T = {}
  OBVIOUS
<1> SUFFICES ASSUME T # {} PROVE FALSE
  OBVIOUS
<1>1. PICK n \in T : \A m \in T : ~(m < n)
  BY LeastNat
<1>2. \A v \in Visits : Rank(v) \in Nat
  <2> SUFFICES ASSUME NEW v \in Visits PROVE Rank(v) \in Nat
    OBVIOUS
  <2>1. IsFiniteSet(Records \ v[2])
    BY FS_Difference, AuthzAssumption
  <2>2. Cardinality(Records \ v[2]) \in Nat
    BY <2>1, FS_CardinalityType
  <2>3. QED
    BY <2>2 DEF Rank
<1>3. n # 0
  <2>1. Near(0) = {}
    BY <1>2 DEF Near
  <2>2. PICK e : e = [v \in {} |-> Nil]
    OBVIOUS
  <2>3. IsWalk(lk, e, {})
    BY <2>2 DEF IsWalk
  <2>4. QED
    BY <1>1, <2>1, <2>3
<1>4. PICK m \in Nat : n = m + 1
  BY <1>1, <1>3
<1>5. m \notin T
  BY <1>1, <1>4
<1>6. PICK up : IsWalk(lk, up, Near(m))
  BY <1>5
<1>7. PICK on : on = [v \in Near(n) |-> Onward(lk, up, v[1], v[2])]
  OBVIOUS
<1>8. ASSUME NEW v \in Near(n) PROVE Onward(lk, on, v[1], v[2]) = Onward(lk, up, v[1], v[2])
  <2>1. v \in Visits /\ Rank(v) < m + 1 /\ v[1] \in Records /\ v[2] \subseteq Records
    BY <1>4 DEF Near, Visits
  <2>2. lk[v[1]].parent \in Records \cup {Nil}
    BY <2>1 DEF Link
  <2>3. PICK r : r = lk[v[1]].parent
    OBVIOUS
  <2>4. CASE r \in v[2] \cup {v[1], Nil}
    BY <2>3, <2>4 DEF Onward
  <2>5. CASE r \notin v[2] \cup {v[1], Nil}
    <3>1. PICK w : w = <<r, v[2] \cup {v[1]}>>
      OBVIOUS
    <3>2. w \in Visits /\ Rank(w) < Rank(v)
      BY <2>1, <2>2, <2>3, <2>5, <3>1, RankFalls
    <3>3. w \in Near(m) /\ w \in Near(n)
      BY <1>2, <1>4, <2>1, <3>2 DEF Near
    <3>4. on[w] = Onward(lk, up, w[1], w[2]) /\ up[w] = Onward(lk, up, w[1], w[2])
      BY <1>6, <1>7, <3>3 DEF IsWalk
    <3>5. on[w] = up[w]
      BY <3>4
    <3>6. QED
      BY <2>3, <3>1, <3>5 DEF Onward
  <2>6. QED
    BY <2>4, <2>5
<1>9. on = [v \in Near(n) |-> Onward(lk, on, v[1], v[2])]
  BY <1>7, <1>8
<1>10. QED
  BY <1>1, <1>9 DEF IsWalk

\* The walk at a record: its rights, the system default where it ends, or the walk at its parent.
LEMMA WalkStep ==
  ASSUME NEW lk \in [Records -> Link], NEW r \in Records, NEW seen \in SUBSET Records
  PROVE  Walk(lk)[<<r, seen>>] = Onward(lk, Walk(lk), r, seen)
<1>1. PICK n \in Nat : n = 2 * Cardinality(Records) + 2
  BY FS_CardinalityType, AuthzAssumption
<1>2. ASSUME NEW v \in Visits PROVE v \in Near(n)
  <2>1. IsFiniteSet(Records \ v[2]) /\ Cardinality(Records \ v[2]) <= Cardinality(Records)
    BY FS_Difference, FS_Subset, AuthzAssumption
  <2>2. Cardinality(Records \ v[2]) \in Nat /\ Cardinality(Records) \in Nat
    BY <2>1, FS_CardinalityType, AuthzAssumption
  <2>3. QED
    BY <1>1, <1>2, <2>1, <2>2 DEF Near, Rank
<1>3. Near(n) = Visits
  BY <1>2 DEF Near
<1>4. \E up : IsWalk(lk, up, Visits)
  BY <1>3, WalksBelow
<1>5. IsWalk(lk, Walk(lk), Visits)
  BY <1>4 DEF Walk
<1>6. PICK v : v = <<r, seen>>
  OBVIOUS
<1>7. v \in Visits /\ v[1] = r /\ v[2] = seen
  BY <1>6 DEF Visits
<1>8. Walk(lk)[v] = Onward(lk, Walk(lk), v[1], v[2])
  BY <1>5, <1>7 DEF IsWalk
<1>9. QED
  BY <1>6, <1>7, <1>8

-----------------------------------------------------------------------------
(* The inductive invariant.                                                *)

\* The offer in force for r.
InForce(r) == EffectiveOffer(link, r)

\* Contexts of one key are treated alike by the offers and by what was granted.
Alike(of) ==
  \A p \in Policies : of[p] # Nil =>
    \A c, d \in Contexts : Key[c] = Key[d] => (c \in of[p] <=> d \in of[p])

StoreInv ==
  /\ Alike(offer)
  /\ GrantedNow(link, offer) \subseteq granted
  /\ \A c, d \in Contexts, r \in Records :
       Key[c] = Key[d] /\ <<c, r>> \in granted => <<d, r>> \in granted

\* A process that is not deciding, or that decides for the indexer and is not about to commit,
\* has no rows in its transaction; one that is idle was answering, if anything.
PendInv ==
  \A p \in Procs :
    /\ pc[p] = "idle" => task[p] = "answer"
    /\ pc[p] = "idle" \/ (task[p] # "answer" /\ pc[p] # "commit") => pend[p] = NoPend

\* What a walk is at.
PlaceInv ==
  \A p \in Procs :
    /\ pc[p] = "walk" => item[p] \in Records /\ at[p] \in Records
    /\ pc[p] # "walk" => path[p] = {}
    /\ pc[p] = "offer" => item[p] \in Records

\* From there it ends at the offer in force for its record, unless the record's ancestors
\* were edited under it.
WalkInv ==
  ~mixed => \A p \in Procs :
    /\ pc[p] = "walk" => Walk(link)[<<at[p], path[p]>>] = InForce(item[p])
    /\ pc[p] = "offer" => pol[p] = InForce(item[p])

\* A permit that is cached, or will be, was granted; so was every one that was answered.
RowInv ==
  ~mixed =>
    /\ ~invented
    /\ \A c \in Contexts, r \in Records : index[Key[c]][r] = "permit" => <<c, r>> \in granted
    /\ \A p \in Procs, r \in Records : pend[p][r] = "permit" => <<ctx[p], r>> \in granted

\* What the offer in force says now.
Says(c, r) == Evaluate(offer, c, InForce(r))

\* A row is what the offer in force says, or an edit has outdated it; one of a transaction is.
Coherent ==
  /\ \A c \in Contexts, r \in Records :
       <<Key[c], r>> \in outdated \/ index[Key[c]][r] \in {Nil, Says(c, r)}
  /\ \A p \in Procs, r \in Records : pend[p][r] \in {Nil, Says(ctx[p], r)}

\* An edit under a decision overlaps with it.  As long as nothing overlapped with a write, a
\* write is alone; and until it has stored, the rows are coherent.
CalmInv ==
  /\ mixed => raced
  /\ ~raced =>
       /\ \A w \in Writers : writer[w] # Idle =>
            ~Busy /\ \A v \in Writers \ {w} : writer[v] = Idle
       /\ (\A w \in Writers : writer[w].pc # "invalidate") => Coherent

AInv == TypeOK /\ StoreInv /\ PendInv /\ PlaceInv /\ WalkInv /\ RowInv /\ CalmInv

-----------------------------------------------------------------------------
(* Shapes.                                                                 *)

\* What stands for itself, and how keys and rows look.
LEMMA Basics ==
  /\ Nil \notin Records /\ Nil \notin Policies /\ Nil \notin Decisions /\ Nil # "permit"
  /\ \A c \in Contexts : Key[c] \in Keys
  /\ NoPend \in [Records -> Option(Decisions)] /\ NoRows \in [Keys -> [Records -> Option(Decisions)]]
  /\ \A r \in Records : NoPend[r] = Nil
  /\ \A k \in Keys, r \in Records : NoRows[k][r] = Nil
  /\ \A of, c, p : Evaluate(of, c, p) \in Decisions
BY AuthzAssumption DEF Keys, NoPend, NoRows, Option, Decisions, Evaluate

\* The registers of a process keep their shapes.
Registers ==
  /\ pc \in [Procs -> {"idle", "next", "walk", "offer", "commit", "flag", "drop", "clear"}]
  /\ task \in [Procs -> {"answer", "event", "rebuild"}]
  /\ ctx \in [Procs -> Contexts] /\ todo \in [Procs -> SUBSET Records]
  /\ item \in [Procs -> Option(Records)] /\ at \in [Procs -> Option(Records)]
  /\ path \in [Procs -> SUBSET Records]
  /\ pol \in [Procs -> Option(Policies)] /\ verdict \in [Procs -> Option(Decisions)]
  /\ pend \in [Procs -> [Records -> Option(Decisions)]]

Stores ==
  /\ link \in [Records -> Link] /\ offer \in [Policies -> Option(SUBSET Contexts)]
  /\ mode \in {"open", "odrl"}
  /\ index \in [Keys -> [Records -> Option(Decisions)]]
  /\ flag \in [Records -> Option(BOOLEAN)]
  /\ writer \in [Writers -> [pc : {"idle", "drop", "invalidate"}, pol : Option(Policies)]]
  /\ granted \subseteq Contexts \X Records /\ invented \in BOOLEAN
  /\ raced \in BOOLEAN /\ mixed \in BOOLEAN /\ outdated \subseteq Keys \X Records /\ writes \in Nat

LEMMA Parts == TypeOK <=> Registers /\ Stores /\ \A p \in Procs : pc[p] = "idle" => pend[p] = NoPend
BY DEF TypeOK, Registers, Stores

LEMMA RegistersStep ==
  ASSUME AInv, NEW p \in Procs, Begin(p) \/ Step(p) \/ EditRecord(p) \/ SwitchMode(p)
  PROVE  Registers'
<1>1. Registers
  BY Parts DEF AInv
<1>2. Anonymous \in Contexts
  BY AuthzAssumption
<1>3. CASE Begin(p)
  BY <1>1, <1>3 DEF Begin, Goto, Start, walk, Registers
<1>4. CASE LookupHit(p)
  <2>1. \A r \in Records : Known(p, r) \in Option(Decisions)
    BY <1>1, Basics DEF Known, Registers, AInv, TypeOK
  <2>2. PICK r \in todo[p] : /\ Known(p, r) # Nil /\ Decided(p, r, Known(p, r))
                             /\ todo' = [todo EXCEPT ![p] = @ \ {r}]
    BY <1>4 DEF LookupHit
  <2>3. r \in Records
    BY <1>1, <2>2 DEF Registers
  <2>4. item' \in [Procs -> Option(Records)] /\ verdict' \in [Procs -> Option(Decisions)]
    BY <1>1, <2>1, <2>2, <2>3 DEF Decided, Registers, Option
  <2>5. QED
    BY <1>1, <1>4, <2>2, <2>4 DEF LookupHit, Goto, Registers
<1>5. CASE LookupMiss(p)
  BY <1>1, <1>5 DEF LookupMiss, Goto, Registers, Option
<1>6. CASE WalkUp(p)
  <2>1. at[p] \in Records /\ link \in [Records -> Link]
    BY <1>6 DEF WalkUp, AInv, PlaceInv, TypeOK
  <2>2. link[at[p]].parent \in Option(Records)
    BY <2>1 DEF Link, Option
  <2>3. QED
    BY <1>1, <1>6, <2>1, <2>2 DEF WalkUp, Registers
<1>7. CASE WalkEnds(p)
  <2>1. at[p] \in Records /\ link \in [Records -> Link]
    BY <1>7 DEF WalkEnds, AInv, PlaceInv, TypeOK
  <2>2. link[at[p]].rights \in Option(Policies) /\ SystemDefault \in Option(Policies)
    BY <2>1, AuthzAssumption DEF Link, Option
  <2>3. pol' \in [Procs -> Option(Policies)]
    BY <1>1, <1>7, <2>2 DEF WalkEnds, Registers
  <2>4. UNCHANGED <<task, ctx, todo, item, verdict, pend>>
    BY <1>7 DEF WalkEnds
  <2>5. /\ at' = [at EXCEPT ![p] = Nil] /\ path' = [path EXCEPT ![p] = {}]
        /\ pc' = [pc EXCEPT ![p] = "offer"]
    BY <1>7 DEF WalkEnds, Goto
  <2>6. QED
    BY <1>1, <2>3, <2>4, <2>5 DEF Registers, Option
<1>8. CASE Decide(p)
  <2>1. item[p] \in Records
    BY <1>8 DEF Decide, AInv, PlaceInv
  <2>2. PICK d \in Decisions : d = Evaluate(offer, ctx[p], pol[p])
    BY Basics
  <2>3. Decided(p, item[p], d) /\ pend' = [pend EXCEPT ![p][item[p]] = d]
    BY <1>8, <2>2 DEF Decide
  <2>4. item' \in [Procs -> Option(Records)] /\ verdict' \in [Procs -> Option(Decisions)]
    BY <1>1, <2>1, <2>3 DEF Decided, Registers, Option
  <2>5. pend' \in [Procs -> [Records -> Option(Decisions)]]
    BY <1>1, <2>1, <2>3 DEF Registers, Option
  <2>6. QED
    BY <1>1, <1>8, <2>4, <2>5 DEF Decide, Goto, Registers, Option
<1>9. CASE Aborted(p)
  BY <1>1, <1>2, <1>9, Basics DEF Aborted, Leave, Goto, Registers, Option
<1>10. CASE Commit(p)
  <2>1. pend' \in [Procs -> [Records -> Option(Decisions)]]
    BY <1>1, <1>10, Basics DEF Commit, Registers
  <2>2. UNCHANGED <<todo, item, at, path, pol, verdict>>
    BY <1>10 DEF Commit, walk
  <2>3. CASE task[p] = "answer"
    <3>1. Leave(p)
      BY <1>10, <2>3 DEF Commit
    <3>2. QED
      BY <1>1, <1>2, <2>1, <2>2, <3>1 DEF Leave, Goto, Registers
  <2>4. CASE task[p] # "answer"
    <3>1. Goto(p, "flag") /\ UNCHANGED <<task, ctx>>
      BY <1>10, <2>4 DEF Commit
    <3>2. QED
      BY <1>1, <2>1, <2>2, <3>1 DEF Goto, Registers
  <2>5. QED
    BY <2>3, <2>4
<1>11. CASE DecideOpen(p)
  BY <1>1, <1>11 DEF DecideOpen, Goto, Registers, Option, Decisions
<1>12. CASE UpsertFlag(p)
  BY <1>1, <1>12 DEF UpsertFlag, Goto, Registers, Option
<1>13. CASE IndexingEnds(p)
  BY <1>1, <1>2, <1>13 DEF IndexingEnds, Leave, Goto, walk, Registers
<1>14. CASE RebuildDrops(p) \/ RebuildClears(p)
  <2>1. CASE RebuildDrops(p)
    BY <1>1, <2>1 DEF RebuildDrops, Goto, walk, Registers
  <2>2. CASE RebuildClears(p)
    BY <1>1, <2>2 DEF RebuildClears, Goto, walk, Registers
  <2>3. QED
    BY <1>14, <2>1, <2>2
<1>15. CASE EditRecord(p) \/ SwitchMode(p)
  <2>1. CASE EditRecord(p)
    BY <1>1, <1>2, <2>1 DEF EditRecord, Start, Goto, walk, Registers
  <2>2. CASE SwitchMode(p)
    BY <1>1, <1>2, <2>2 DEF SwitchMode, Start, Goto, walk, Registers
  <2>3. QED
    BY <1>15, <2>1, <2>2
<1>16. QED
  BY <1>3, <1>4, <1>5, <1>6, <1>7, <1>8, <1>9, <1>10, <1>11, <1>12, <1>13, <1>14, <1>15 DEF Step

\* The stores keep theirs.
LEMMA StoresStep ==
  ASSUME AInv, [Next]_vars
  PROVE  Stores'
<1>1. Stores /\ Registers
  BY Parts DEF AInv
<1>2. \A lk, of : GrantedNow(lk, of) \subseteq Contexts \X Records
  BY DEF GrantedNow
<1>3. ASSUME NEW p \in Procs, Begin(p)
      PROVE  Stores'
  BY <1>1, <1>3 DEF Begin, store, table, overlaps, Stores
<1>4. ASSUME NEW p \in Procs, Step(p)
      PROVE  Stores'
  <2>1. CASE LookupHit(p)
    BY <1>1, <2>1 DEF LookupHit, Decided, store, table, overlaps, Stores
  <2>2. CASE LookupMiss(p) \/ WalkUp(p) \/ WalkEnds(p) \/ Aborted(p) \/ DecideOpen(p) \/ IndexingEnds(p)
    BY <1>1, <2>2
       DEF LookupMiss, WalkUp, WalkEnds, Aborted, DecideOpen, IndexingEnds, store, table, hist, overlaps, Stores
  <2>3. CASE Decide(p)
    BY <1>1, <2>3 DEF Decide, Decided, store, table, overlaps, Stores
  <2>4. CASE Commit(p)
    <3>1. ctx[p] \in Contexts /\ Key[ctx[p]] \in Keys /\ pend[p] \in [Records -> Option(Decisions)]
      BY <1>1, Basics DEF Registers
    <3>2. index' \in [Keys -> [Records -> Option(Decisions)]]
      BY <1>1, <2>4, <3>1 DEF Commit, Stores
    <3>3. QED
      BY <1>1, <2>4, <3>2 DEF Commit, store, table, hist, overlaps, Stores
  <2>5. CASE UpsertFlag(p)
    BY <1>1, <2>5 DEF UpsertFlag, store, table, hist, overlaps, Stores, Option
  <2>6. CASE RebuildDrops(p)
    BY <1>1, <2>6, Basics DEF RebuildDrops, store, table, hist, overlaps, Stores
  <2>7. CASE RebuildClears(p)
    BY <1>1, <2>7 DEF RebuildClears, NoPend, store, table, hist, overlaps, Stores, Option
  <2>8. QED
    BY <1>4, <2>1, <2>2, <2>3, <2>4, <2>5, <2>6, <2>7 DEF Step
<1>5. ASSUME NEW p \in Procs, EditRecord(p)
      PROVE  Stores'
  <2>1. PICK r \in Records, l \in Links : /\ Stored([link EXCEPT ![r] = l], offer)
                                         /\ outdated' = outdated \cup Outdates([link EXCEPT ![r] = l])
    BY <1>5 DEF EditRecord
  <2>2. link' \in [Records -> Link] /\ offer' = offer
    BY <1>1, <2>1, AuthzAssumption DEF Stored, Stores
  <2>3. granted' \subseteq Contexts \X Records
    BY <1>1, <1>2, <2>1 DEF Stored, Stores
  <2>4. outdated' \subseteq Keys \X Records
    BY <1>1, <2>1 DEF Outdates, Stores
  <2>5. raced' \in BOOLEAN /\ mixed' \in BOOLEAN /\ writes' \in Nat
    BY <1>1, <1>5 DEF EditRecord, Alters, Write, Writing, Busy, Stores
  <2>6. QED
    BY <1>1, <1>5, <2>2, <2>3, <2>4, <2>5 DEF EditRecord, Stores
<1>6. ASSUME NEW p \in Procs, SwitchMode(p)
      PROVE  Stores'
  <2>1. raced' \in BOOLEAN /\ writes' \in Nat
    BY <1>1, <1>6 DEF SwitchMode, Alters, Write, Writing, Busy, Stores
  <2>2. mode' \in {"open", "odrl"}
    BY <1>6, AuthzAssumption DEF SwitchMode
  <2>3. QED
    BY <1>1, <1>6, <2>1, <2>2 DEF SwitchMode, table, hist, Stores
<1>7. ASSUME NEW w \in Writers, PutPolicy(w)
      PROVE  Stores'
  <2>1. offer' \in [Policies -> Option(SUBSET Contexts)]
    BY <1>1, <1>7, AuthzAssumption DEF PutPolicy, Stored, Stores, Option
  <2>2. granted' \subseteq Contexts \X Records
    BY <1>1, <1>2, <1>7 DEF PutPolicy, Stored, Stores
  <2>3. writer' \in [Writers -> [pc : {"idle", "drop", "invalidate"}, pol : Option(Policies)]]
    BY <1>1, <1>7 DEF PutPolicy, Stores, Option
  <2>4. link' \in [Records -> Link] /\ raced' \in BOOLEAN /\ writes' \in Nat
    BY <1>1, <1>7 DEF PutPolicy, Stored, Alters, Write, Writing, Busy, Stores
  <2>5. QED
    BY <1>1, <1>7, <2>1, <2>2, <2>3, <2>4 DEF PutPolicy, table, Stores
<1>8. ASSUME NEW w \in Writers, CheckUnreferenced(w)
      PROVE  Stores'
  <2>1. writer' \in [Writers -> [pc : {"idle", "drop", "invalidate"}, pol : Option(Policies)]]
    BY <1>1, <1>8 DEF CheckUnreferenced, Stores, Option
  <2>2. raced' \in BOOLEAN /\ writes' \in Nat
    BY <1>1, <1>8 DEF CheckUnreferenced, Alters, Write, Writing, Busy, Stores
  <2>3. QED
    BY <1>1, <1>8, <2>1, <2>2 DEF CheckUnreferenced, store, table, hist, overlaps, Stores
<1>9. ASSUME NEW w \in Writers, DropPolicy(w)
      PROVE  Stores'
  <2>1. offer' \in [Policies -> Option(SUBSET Contexts)]
    BY <1>1, <1>9 DEF DropPolicy, Stored, Stores, Option
  <2>2. granted' \subseteq Contexts \X Records
    BY <1>1, <1>2, <1>9 DEF DropPolicy, Stored, Stores
  <2>3. writer' \in [Writers -> [pc : {"idle", "drop", "invalidate"}, pol : Option(Policies)]]
    BY <1>1, <1>9 DEF DropPolicy, Stores, Option
  <2>4. QED
    BY <1>1, <1>9, <2>1, <2>2, <2>3 DEF DropPolicy, Stored, table, overlaps, Stores
<1>10. ASSUME NEW w \in Writers, Invalidate(w)
      PROVE  Stores'
  <2>1. writer' \in [Writers -> [pc : {"idle", "drop", "invalidate"}, pol : Option(Policies)]]
    BY <1>1, <1>10 DEF Invalidate, Idle, Stores, Option
  <2>2. QED
    BY <1>1, <1>10, <2>1, Basics DEF Invalidate, store, table, hist, overlaps, Stores
<1>11. CASE UNCHANGED vars
  BY <1>1, <1>11 DEF vars, store, table, hist, overlaps, Stores
<1>12. QED
  BY <1>3, <1>4, <1>5, <1>6, <1>7, <1>8, <1>9, <1>10, <1>11 DEF Next, PolicyStep

-----------------------------------------------------------------------------
(* The registers.                                                          *)

\* A process changes no other's registers.
LEMMA OnlyOwn ==
  ASSUME AInv, NEW p \in Procs, Begin(p) \/ Step(p) \/ EditRecord(p) \/ SwitchMode(p),
         NEW q \in Procs \ {p}
  PROVE  /\ pc'[q] = pc[q] /\ task'[q] = task[q] /\ ctx'[q] = ctx[q] /\ pend'[q] = pend[q]
         /\ item'[q] = item[q] /\ at'[q] = at[q] /\ path'[q] = path[q] /\ pol'[q] = pol[q]
<1>1. Registers
  BY Parts DEF AInv
<1>2. CASE Begin(p)
  BY <1>1, <1>2 DEF Begin, Start, Goto, walk, Registers
<1>3. CASE EditRecord(p) \/ SwitchMode(p)
  BY <1>1, <1>3 DEF EditRecord, SwitchMode, Start, Goto, walk, Registers
<1>4. CASE LookupHit(p)
  BY <1>1, <1>4 DEF LookupHit, Decided, Goto, Registers
<1>5. CASE LookupMiss(p) \/ WalkUp(p) \/ WalkEnds(p)
  BY <1>1, <1>5 DEF LookupMiss, WalkUp, WalkEnds, Goto, Registers
<1>6. CASE Decide(p)
  BY <1>1, <1>6 DEF Decide, Decided, Goto, Registers
<1>7. CASE Aborted(p)
  BY <1>1, <1>7 DEF Aborted, Leave, Goto, Registers
<1>8. CASE Commit(p)
  <2>1. UNCHANGED <<item, at, path, pol>> /\ pend'[q] = pend[q]
    BY <1>1, <1>8 DEF Commit, walk, Registers
  <2>2. Leave(p) \/ (Goto(p, "flag") /\ UNCHANGED <<task, ctx>>)
    BY <1>8 DEF Commit
  <2>3. QED
    BY <1>1, <2>1, <2>2 DEF Leave, Goto, Registers
<1>9. CASE DecideOpen(p) \/ UpsertFlag(p) \/ RebuildDrops(p) \/ RebuildClears(p)
  BY <1>1, <1>9 DEF DecideOpen, UpsertFlag, RebuildDrops, RebuildClears, Goto, walk, Registers
<1>10. CASE IndexingEnds(p)
  BY <1>1, <1>10 DEF IndexingEnds, Leave, Goto, walk, Registers
<1>11. QED
  BY <1>2, <1>3, <1>4, <1>5, <1>6, <1>7, <1>8, <1>9, <1>10 DEF Step

\* The transactions are empty where they should be.
LEMMA PendStep ==
  ASSUME AInv, [Next]_vars
  PROVE  PendInv'
<1>1. Registers /\ PendInv
  BY Parts DEF AInv
<1>2. ASSUME NEW p \in Procs, Begin(p) \/ Step(p) \/ EditRecord(p) \/ SwitchMode(p)
      PROVE  PendInv'
  <2> SUFFICES /\ pc'[p] = "idle" => task'[p] = "answer"
               /\ pc'[p] = "idle" \/ (task'[p] # "answer" /\ pc'[p] # "commit") => pend'[p] = NoPend
    BY <1>1, <1>2, OnlyOwn DEF PendInv
  <2>1. CASE Begin(p) \/ EditRecord(p) \/ SwitchMode(p)
    BY <1>1, <2>1 DEF Begin, EditRecord, SwitchMode, Start, Goto, Registers, PendInv
  <2>2. CASE LookupHit(p) \/ LookupMiss(p) \/ WalkUp(p) \/ WalkEnds(p)
    BY <1>1, <2>2 DEF LookupHit, LookupMiss, WalkUp, WalkEnds, Goto, Registers, PendInv
  <2>3. CASE Decide(p)
    BY <1>1, <2>3 DEF Decide, Goto, Registers, PendInv
  <2>4. CASE Aborted(p)
    BY <1>1, <2>4 DEF Aborted, Leave, Goto, Registers, PendInv
  <2>5. CASE Commit(p)
    <3>1. pend'[p] = NoPend
      BY <1>1, <2>5 DEF Commit, Registers
    <3>2. Leave(p) \/ (Goto(p, "flag") /\ UNCHANGED <<task, ctx>>)
      BY <2>5 DEF Commit
    <3>3. QED
      BY <1>1, <3>1, <3>2 DEF Leave, Goto, Registers
  <2>6. CASE DecideOpen(p) \/ UpsertFlag(p) \/ RebuildDrops(p) \/ RebuildClears(p)
    BY <1>1, <2>6
       DEF DecideOpen, UpsertFlag, RebuildDrops, RebuildClears, Goto, Registers, PendInv
  <2>7. CASE IndexingEnds(p)
    BY <1>1, <2>7 DEF IndexingEnds, Leave, Goto, Registers, PendInv
  <2>8. QED
    BY <1>2, <2>1, <2>2, <2>3, <2>4, <2>5, <2>6, <2>7 DEF Step
<1>3. CASE (\E w \in Writers : PutPolicy(w) \/ CheckUnreferenced(w) \/ PolicyStep(w)) \/ UNCHANGED vars
  BY <1>1, <1>3
     DEF PutPolicy, CheckUnreferenced, PolicyStep, DropPolicy, Invalidate, proc, vars, PendInv
<1>4. QED
  BY <1>2, <1>3 DEF Next

\* Where a walk is.
LEMMA PlaceStep ==
  ASSUME AInv, [Next]_vars
  PROVE  PlaceInv'
<1>1. Registers /\ PlaceInv /\ link \in [Records -> Link]
  BY Parts DEF AInv, Stores
<1>2. ASSUME NEW p \in Procs, Begin(p) \/ Step(p) \/ EditRecord(p) \/ SwitchMode(p)
      PROVE  PlaceInv'
  <2> SUFFICES /\ pc'[p] = "walk" => item'[p] \in Records /\ at'[p] \in Records
               /\ pc'[p] # "walk" => path'[p] = {}
               /\ pc'[p] = "offer" => item'[p] \in Records
    BY <1>1, <1>2, OnlyOwn DEF PlaceInv
  <2>1. CASE Begin(p) \/ EditRecord(p) \/ SwitchMode(p)
    BY <1>1, <2>1 DEF Begin, EditRecord, SwitchMode, Start, Goto, walk, Registers, PlaceInv
  <2>2. CASE LookupHit(p)
    BY <1>1, <2>2 DEF LookupHit, Goto, Registers, PlaceInv
  <2>3. CASE LookupMiss(p)
    BY <1>1, <2>3 DEF LookupMiss, Goto, Registers, PlaceInv
  <2>4. CASE WalkUp(p)
    <3>1. pc[p] = "walk" /\ at[p] \in Records /\ item[p] \in Records /\ link[at[p]].parent # Nil
      BY <1>1, <2>4 DEF WalkUp, EndsWalk, PlaceInv
    <3>2. link[at[p]] \in Link
      BY <1>1, <3>1
    <3>3. link[at[p]].parent \in Records
      BY <3>1, <3>2 DEF Link
    <3>4. QED
      BY <1>1, <2>4, <3>1, <3>3 DEF WalkUp, Registers
  <2>5. CASE WalkEnds(p)
    BY <1>1, <2>5 DEF WalkEnds, Goto, Registers, PlaceInv
  <2>6. CASE Decide(p)
    BY <1>1, <2>6 DEF Decide, Goto, Registers, PlaceInv
  <2>7. CASE Aborted(p)
    BY <1>1, <2>7 DEF Aborted, WaitsFor, Leave, Goto, Registers, PlaceInv
  <2>8. CASE Commit(p)
    <3>1. path' = path /\ pc[p] # "walk"
      BY <2>8 DEF Commit, walk
    <3>2. Leave(p) \/ (Goto(p, "flag") /\ UNCHANGED <<task, ctx>>)
      BY <2>8 DEF Commit
    <3>3. QED
      BY <1>1, <3>1, <3>2 DEF Leave, Goto, Registers, PlaceInv
  <2>9. CASE DecideOpen(p) \/ UpsertFlag(p) \/ RebuildDrops(p) \/ RebuildClears(p)
    BY <1>1, <2>9
       DEF DecideOpen, UpsertFlag, RebuildDrops, RebuildClears, Goto, walk, Registers, PlaceInv
  <2>10. CASE IndexingEnds(p)
    BY <1>1, <2>10 DEF IndexingEnds, Leave, Goto, walk, Registers, PlaceInv
  <2>11. QED
    BY <1>2, <2>1, <2>2, <2>3, <2>4, <2>5, <2>6, <2>7, <2>8, <2>9, <2>10 DEF Step
<1>3. CASE (\E w \in Writers : PutPolicy(w) \/ CheckUnreferenced(w) \/ PolicyStep(w)) \/ UNCHANGED vars
  BY <1>1, <1>3
     DEF PutPolicy, CheckUnreferenced, PolicyStep, DropPolicy, Invalidate, proc, walk, vars, PlaceInv
<1>4. QED
  BY <1>2, <1>3 DEF Next

\* A process changes the hierarchy only by an edit.
LEMMA LinkStays ==
  ASSUME NEW p \in Procs, Begin(p) \/ Step(p) \/ SwitchMode(p)
  PROVE  link' = link /\ mixed' = mixed
BY DEF Begin, SwitchMode, Step, LookupHit, LookupMiss, WalkUp, WalkEnds, Decide, Aborted, Commit,
       DecideOpen, UpsertFlag, IndexingEnds, RebuildDrops, RebuildClears, store, overlaps

\* The walk stays on its way to the offer in force.
LEMMA WalkStays ==
  ASSUME AInv, [Next]_vars
  PROVE  WalkInv'
<1> SUFFICES ASSUME ~mixed' PROVE WalkInv'
  BY DEF WalkInv
<1>1. Registers /\ PlaceInv /\ link \in [Records -> Link]
  BY Parts DEF AInv, Stores
<1>2. ASSUME NEW p \in Procs, Begin(p) \/ Step(p) \/ SwitchMode(p)
      PROVE  WalkInv'
  <2>1. link' = link /\ ~mixed
    BY <1>2, LinkStays
  <2>2. \A q \in Procs : /\ pc[q] = "walk" => Walk(link)[<<at[q], path[q]>>] = InForce(item[q])
                         /\ pc[q] = "offer" => pol[q] = InForce(item[q])
    BY <2>1 DEF AInv, WalkInv
  <2>3. \A r : InForce(r)' = InForce(r)
    BY <2>1 DEF InForce
  <2> SUFFICES /\ pc'[p] = "walk" => Walk(link)[<<at'[p], path'[p]>>] = InForce(item'[p])
               /\ pc'[p] = "offer" => pol'[p] = InForce(item'[p])
    BY <1>1, <1>2, <2>1, <2>2, OnlyOwn DEF WalkInv, InForce
  <2>4. CASE Begin(p) \/ SwitchMode(p)
    BY <1>1, <2>4 DEF Begin, SwitchMode, Start, Goto, Registers
  <2>5. CASE LookupHit(p)
    BY <1>1, <2>5 DEF LookupHit, Goto, Registers
  <2>6. CASE LookupMiss(p)
    <3>1. PICK r \in Records : item'[p] = r /\ at'[p] = r
      BY <1>1, <2>6 DEF LookupMiss, Registers
    <3>2. path'[p] = {} /\ pc'[p] = "walk"
      BY <1>1, <2>6 DEF LookupMiss, Goto, Registers, PlaceInv
    <3>3. Walk(link)[<<r, {}>>] = InForce(r)
      BY OfferIsWalk DEF InForce
    <3>4. QED
      BY <3>1, <3>2, <3>3
  <2>7. ASSUME pc[p] = "walk"
        PROVE  /\ at[p] \in Records /\ path[p] \in SUBSET Records
               /\ InForce(item[p]) = Onward(link, Walk(link), at[p], path[p])
               /\ link[at[p]].parent \in Records \cup {Nil}
    <3>1. at[p] \in Records /\ path[p] \in SUBSET Records
      BY <1>1, <2>7 DEF Registers, PlaceInv
    <3>2. InForce(item[p]) = Walk(link)[<<at[p], path[p]>>]
      BY <2>2, <2>7
    <3>3. Walk(link)[<<at[p], path[p]>>] = Onward(link, Walk(link), at[p], path[p])
      BY <1>1, <3>1, WalkStep
    <3>4. link[at[p]] \in Link
      BY <1>1, <3>1
    <3>5. link[at[p]].parent \in Records \cup {Nil}
      BY <3>4 DEF Link
    <3>6. QED
      BY <3>1, <3>2, <3>3, <3>5
  <2>8. CASE WalkUp(p)
    <3>1. /\ pc[p] = "walk" /\ link[at[p]].rights = Nil
          /\ link[at[p]].parent # Nil /\ link[at[p]].parent \notin path[p] \cup {at[p]}
          /\ ~(Cardinality(path[p]) + 1 >= MaxDepth)
      BY <2>8 DEF WalkUp, EndsWalk
    <3>2. InForce(item[p]) = Walk(link)[<<link[at[p]].parent, path[p] \cup {at[p]}>>]
      BY <2>7, <3>1 DEF Onward
    <3>3. /\ at'[p] = link[at[p]].parent /\ path'[p] = path[p] \cup {at[p]}
          /\ item'[p] = item[p] /\ pc'[p] = "walk"
      BY <1>1, <2>8, <3>1 DEF WalkUp, Registers
    <3>4. QED
      BY <3>2, <3>3
  <2>9. CASE WalkEnds(p)
    <3>1. pc[p] = "walk"
      BY <2>9 DEF WalkEnds
    <3>2. pol'[p] = InForce(item[p])
      <4>1. CASE link[at[p]].rights # Nil
        BY <1>1, <2>7, <2>9, <3>1, <4>1 DEF WalkEnds, Registers, Onward
      <4>2. CASE link[at[p]].rights = Nil
        <5>1. pol'[p] = SystemDefault /\ EndsWalk(p, path[p])
          BY <1>1, <2>9, <4>2 DEF WalkEnds, Registers
        <5>2. link[at[p]].parent \in path[p] \cup {at[p], Nil} \/ Cardinality(path[p]) + 1 >= MaxDepth
          BY <5>1 DEF EndsWalk
        <5>3. QED
          BY <2>7, <3>1, <4>2, <5>1, <5>2 DEF Onward
      <4>3. QED
        BY <4>1, <4>2
    <3>3. item'[p] = item[p] /\ pc'[p] = "offer"
      BY <1>1, <2>9 DEF WalkEnds, Goto, Registers
    <3>4. QED
      BY <3>2, <3>3
  <2>10. CASE Decide(p)
    BY <1>1, <2>10 DEF Decide, Goto, Registers
  <2>11. CASE Aborted(p)
    BY <1>1, <2>11 DEF Aborted, Leave, Goto, Registers
  <2>12. CASE Commit(p)
    <3>1. Leave(p) \/ Goto(p, "flag")
      BY <2>12 DEF Commit
    <3>2. QED
      BY <1>1, <3>1 DEF Leave, Goto, Registers
  <2>13. CASE DecideOpen(p) \/ UpsertFlag(p) \/ RebuildDrops(p) \/ RebuildClears(p)
    BY <1>1, <2>13 DEF DecideOpen, UpsertFlag, RebuildDrops, RebuildClears, Goto, Registers
  <2>14. CASE IndexingEnds(p)
    BY <1>1, <2>14 DEF IndexingEnds, Leave, Goto, Registers
  <2>15. QED
    BY <1>2, <2>4, <2>5, <2>6, <2>8, <2>9, <2>10, <2>11, <2>12, <2>13, <2>14 DEF Step
<1>3. ASSUME NEW p \in Procs, EditRecord(p)
      PROVE  WalkInv'
  <2>1. \A q \in Procs : pc[q] \notin {"walk", "offer"}
    BY <1>3 DEF EditRecord
  <2>2. pc'[p] = "next" /\ \A q \in Procs \ {p} : pc'[q] = pc[q]
    BY <1>1, <1>3 DEF EditRecord, Goto, Registers
  <2>3. \A q \in Procs : pc'[q] \notin {"walk", "offer"}
    BY <2>1, <2>2
  <2>4. QED
    BY <2>3 DEF WalkInv
<1>4. CASE (\E w \in Writers : PutPolicy(w) \/ CheckUnreferenced(w) \/ PolicyStep(w)) \/ UNCHANGED vars
  <2>1. link' = link /\ mixed' = mixed /\ UNCHANGED <<pc, item, at, path, pol>>
    BY <1>4
       DEF PutPolicy, CheckUnreferenced, PolicyStep, DropPolicy, Invalidate, Stored, store, overlaps,
           proc, walk, vars
  <2>2. QED
    BY <2>1 DEF AInv, WalkInv, InForce
<1>5. QED
  BY <1>2, <1>3, <1>4 DEF Next

-----------------------------------------------------------------------------
(* The store and what it granted.                                          *)

\* A walk ends at a policy or nowhere.
LEMMA WalkEndsAtPolicy ==
  ASSUME NEW lk \in [Records -> Link], NEW v \in Visits
  PROVE  Walk(lk)[v] \in Policies \cup {Nil}
<1> DEFINE lost == {u \in Visits : Walk(lk)[u] \notin Policies \cup {Nil}}
           T == {Rank(u) : u \in lost}
<1> SUFFICES ASSUME lost # {} PROVE FALSE
  OBVIOUS
<1>2. \A u \in Visits : Rank(u) \in Nat
  <2> SUFFICES ASSUME NEW u \in Visits PROVE Rank(u) \in Nat
    OBVIOUS
  <2>1. IsFiniteSet(Records \ u[2])
    BY FS_Difference, AuthzAssumption
  <2>2. Cardinality(Records \ u[2]) \in Nat
    BY <2>1, FS_CardinalityType
  <2>3. QED
    BY <2>2 DEF Rank
<1>3. T \subseteq Nat /\ T # {}
  BY <1>2
<1>4. PICK n \in T : \A m \in T : ~(m < n)
  BY <1>3, LeastNat
<1>5. PICK u \in lost : n = Rank(u)
  OBVIOUS
<1>6. PICK r, seen : r = u[1] /\ seen = u[2]
  OBVIOUS
<1>7. r \in Records /\ seen \in SUBSET Records /\ u = <<r, seen>>
  BY <1>5, <1>6 DEF Visits
<1>8. Walk(lk)[u] = Onward(lk, Walk(lk), r, seen)
  BY <1>7, WalkStep
<1>9. /\ lk[r].rights \in Policies \cup {Nil} /\ lk[r].parent \in Records \cup {Nil}
      /\ SystemDefault \in Policies \cup {Nil}
  BY <1>7, AuthzAssumption DEF Link
<1>10. PICK next : next = lk[r].parent
  OBVIOUS
<1>11. Walk(lk)[u] = Walk(lk)[<<next, seen \cup {r}>>] /\ next \notin seen \cup {r, Nil}
  BY <1>5, <1>8, <1>9, <1>10 DEF Onward
<1>12. PICK w : w = <<next, seen \cup {r}>>
  OBVIOUS
<1>13. w \in Visits /\ Rank(w) < Rank(u)
  BY <1>6, <1>7, <1>9, <1>10, <1>11, <1>12, RankFalls
<1>14. w \in lost
  BY <1>5, <1>11, <1>12, <1>13
<1>15. QED
  BY <1>4, <1>5, <1>13, <1>14

\* So the offer in force is one of the policies, or none.
LEMMA OfferType ==
  ASSUME NEW lk \in [Records -> Link], NEW r \in Records
  PROVE  EffectiveOffer(lk, r) \in Policies \cup {Nil}
BY WalkEndsAtPolicy, OfferIsWalk DEF Visits

\* Contexts of one key get the same decision.
LEMMA SameDecision ==
  ASSUME NEW lk \in [Records -> Link], NEW of, Alike(of), NEW c \in Contexts, NEW d \in Contexts,
         Key[c] = Key[d], NEW r \in Records
  PROVE  Evaluate(of, c, EffectiveOffer(lk, r)) = Evaluate(of, d, EffectiveOffer(lk, r))
BY OfferType DEF Evaluate, Alike

\* What is granted by a store is what its offers in force say.
LEMMA GrantsAreSaid ==
  ASSUME NEW lk, NEW of, NEW c \in Contexts, NEW r \in Records
  PROVE  <<c, r>> \in GrantedNow(lk, of) <=> Evaluate(of, c, EffectiveOffer(lk, r)) = "permit"
BY DEF GrantedNow, Permitted

\* A store of policies that are alike keeps the grants alike.
LEMMA StoredAlike ==
  ASSUME AInv, NEW lk \in [Records -> Link], NEW of, Alike(of), Stored(lk, of)
  PROVE  StoreInv'
<1>1. link' = lk /\ offer' = of /\ granted' = granted \cup GrantedNow(lk, of)
  BY DEF Stored
<1>2. ASSUME NEW c \in Contexts, NEW d \in Contexts, NEW r \in Records,
             Key[c] = Key[d], <<c, r>> \in granted'
      PROVE  <<d, r>> \in granted'
  <2>1. CASE <<c, r>> \in granted
    BY <1>1, <1>2, <2>1 DEF AInv, StoreInv
  <2>2. CASE <<c, r>> \in GrantedNow(lk, of)
    BY <1>1, <1>2, <2>2, SameDecision, GrantsAreSaid
  <2>3. QED
    BY <1>1, <1>2, <2>1, <2>2
<1>3. GrantedNow(link', offer') \subseteq granted'
  BY <1>1
<1>4. Alike(offer')
  BY <1>1
<1>5. QED
  BY <1>2, <1>3, <1>4 DEF StoreInv, Alike

LEMMA StoreStep ==
  ASSUME AInv, KeyTells, [Next]_vars
  PROVE  StoreInv'
<1>1. StoreInv
  BY DEF AInv
<1>2. CASE UNCHANGED <<link, offer, granted>>
  BY <1>1, <1>2 DEF StoreInv
<1>3. ASSUME NEW p \in Procs, Begin(p) \/ Step(p) \/ SwitchMode(p)
      PROVE  UNCHANGED <<link, offer, granted>>
  BY <1>3
     DEF Begin, SwitchMode, Step, LookupHit, LookupMiss, WalkUp, WalkEnds, Decide, Aborted,
         Commit, DecideOpen, UpsertFlag, IndexingEnds, RebuildDrops, RebuildClears, store, hist
<1>4. ASSUME NEW p \in Procs, EditRecord(p)
      PROVE  StoreInv'
  <2>1. PICK r \in Records, l \in Links : Stored([link EXCEPT ![r] = l], offer)
    BY <1>4 DEF EditRecord
  <2>2. [link EXCEPT ![r] = l] \in [Records -> Link]
    BY <2>1, AuthzAssumption DEF AInv, TypeOK
  <2>3. Alike(offer)
    BY <1>1 DEF StoreInv
  <2>4. QED
    BY <2>1, <2>2, <2>3, StoredAlike
<1>5. ASSUME NEW w \in Writers, PutPolicy(w)
      PROVE  StoreInv'
  <2>1. PICK pl \in Policies, s \in Offers : Stored(link, [offer EXCEPT ![pl] = s])
    BY <1>5 DEF PutPolicy
  <2>2. PICK of : of = [offer EXCEPT ![pl] = s]
    OBVIOUS
  <2>3. offer \in [Policies -> Option(SUBSET Contexts)] /\ link \in [Records -> Link]
    BY DEF AInv, TypeOK
  <2>4. Alike(of)
    BY <1>1, <2>2, <2>3 DEF StoreInv, Alike, KeyTells
  <2>5. QED
    BY <2>1, <2>2, <2>3, <2>4, StoredAlike
<1>6. ASSUME NEW w \in Writers, CheckUnreferenced(w) \/ Invalidate(w)
      PROVE  UNCHANGED <<link, offer, granted>>
  BY <1>6 DEF CheckUnreferenced, Invalidate, store, hist
<1>7. ASSUME NEW w \in Writers, DropPolicy(w)
      PROVE  StoreInv'
  <2>1. PICK of : of = [offer EXCEPT ![writer[w].pol] = Nil]
    OBVIOUS
  <2>2. offer \in [Policies -> Option(SUBSET Contexts)] /\ link \in [Records -> Link]
    BY DEF AInv, TypeOK
  <2>3. Alike(of)
    BY <1>1, <2>1, <2>2 DEF StoreInv, Alike
  <2>4. QED
    BY <1>7, <2>1, <2>2, <2>3, StoredAlike DEF DropPolicy
<1>8. CASE UNCHANGED vars
  BY <1>2, <1>8 DEF vars, store, hist
<1>9. QED
  BY <1>2, <1>3, <1>4, <1>5, <1>6, <1>7, <1>8 DEF Next, PolicyStep

-----------------------------------------------------------------------------
(* The rows.                                                               *)

\* Once a record was edited under a decision, that stays so.
LEMMA MixedStays ==
  ASSUME [Next]_vars, ~mixed'
  PROVE  ~mixed
<1>1. CASE \E p \in Procs : Begin(p) \/ Step(p) \/ SwitchMode(p)
  BY <1>1, LinkStays
<1>2. CASE \E p \in Procs : EditRecord(p)
  BY <1>2 DEF EditRecord
<1>3. CASE (\E w \in Writers : PutPolicy(w) \/ CheckUnreferenced(w) \/ PolicyStep(w)) \/ UNCHANGED vars
  BY <1>3 DEF PutPolicy, CheckUnreferenced, PolicyStep, DropPolicy, Invalidate, overlaps, vars
<1>4. QED
  BY <1>1, <1>2, <1>3 DEF Next

\* A permit that is known to a process was granted to its context.
LEMMA KnownGranted ==
  ASSUME AInv, ~mixed, NEW p \in Procs, NEW r \in Records, Known(p, r) = "permit"
  PROVE  <<ctx[p], r>> \in granted
<1>1. ctx[p] \in Contexts
  BY Parts DEF AInv, Registers
<1>2. QED
  BY <1>1 DEF Known, AInv, RowInv

\* A decision is a permit only if it is granted now, and is what the offer in force says.
LEMMA DecisionGranted ==
  ASSUME AInv, ~mixed, NEW p \in Procs, pc[p] = "offer"
  PROVE  /\ item[p] \in Records /\ ctx[p] \in Contexts
         /\ Evaluate(offer, ctx[p], pol[p]) = Says(ctx[p], item[p])
         /\ Says(ctx[p], item[p]) = "permit" => <<ctx[p], item[p]>> \in granted
<1>1. item[p] \in Records /\ pol[p] = InForce(item[p]) /\ ctx[p] \in Contexts
  BY Parts DEF AInv, PlaceInv, WalkInv, Registers
<1>2. GrantedNow(link, offer) \subseteq granted
  BY DEF AInv, StoreInv
<1>3. QED
  BY <1>1, <1>2, GrantsAreSaid DEF Says, InForce

\* What the transaction and the index hold after a decision and after a commit.
LEMMA RowsStep ==
  ASSUME AInv, ~mixed, NEW p \in Procs
  PROVE  /\ Decide(p) => /\ UNCHANGED <<index, outdated, ctx>>
                         /\ \A q \in Procs, r \in Records :
                              pend'[q][r] = IF q = p /\ r = item[p] THEN Says(ctx[p], item[p])
                                            ELSE pend[q][r]
         /\ Commit(p) => /\ pend'[p] = NoPend /\ outdated' = outdated
                         /\ \A c \in Contexts, r \in Records :
                              index'[Key[c]][r] = IF Key[c] = Key[ctx[p]] /\ pend[p][r] # Nil
                                                  THEN pend[p][r] ELSE index[Key[c]][r]
<1>1. Registers /\ index \in [Keys -> [Records -> Option(Decisions)]]
  BY Parts DEF AInv, Stores
<1>2. ASSUME Decide(p)
      PROVE  /\ UNCHANGED <<index, outdated, ctx>>
             /\ \A q \in Procs, r \in Records :
                  pend'[q][r] = IF q = p /\ r = item[p] THEN Says(ctx[p], item[p]) ELSE pend[q][r]
  <2>1. pc[p] = "offer" /\ pend' = [pend EXCEPT ![p][item[p]] = Evaluate(offer, ctx[p], pol[p])]
    BY <1>2 DEF Decide
  <2>2. pend' = [pend EXCEPT ![p][item[p]] = Says(ctx[p], item[p])]
    BY <2>1, DecisionGranted
  <2>3. QED
    BY <1>1, <1>2, <2>2 DEF Decide, table, Registers
<1>3. ASSUME Commit(p)
      PROVE  /\ pend'[p] = NoPend /\ outdated' = outdated
             /\ \A c \in Contexts, r \in Records :
                  index'[Key[c]][r] = IF Key[c] = Key[ctx[p]] /\ pend[p][r] # Nil
                                      THEN pend[p][r] ELSE index[Key[c]][r]
  <2>1. pend'[p] = NoPend /\ outdated' = outdated
    BY <1>1, <1>3 DEF Commit, Registers
  <2>2. index' = [index EXCEPT ![Key[ctx[p]]] =
                    [r \in Records |-> IF pend[p][r] # Nil THEN pend[p][r] ELSE index[Key[ctx[p]]][r]]]
    BY <1>3 DEF Commit
  <2>3. \A c \in Contexts : Key[c] \in Keys
    BY Basics
  <2>4. QED
    BY <1>1, <2>1, <2>2, <2>3
<1>4. QED
  BY <1>2, <1>3

\* Steps that leave the rows alone, but for those a process that starts or stops does not have.
LEMMA RowsAlone ==
  ASSUME AInv, NEW p \in Procs,
         \/ Begin(p) \/ SwitchMode(p) \/ LookupHit(p) \/ LookupMiss(p) \/ WalkUp(p) \/ WalkEnds(p)
         \/ Aborted(p) \/ DecideOpen(p) \/ UpsertFlag(p) \/ IndexingEnds(p) \/ RebuildClears(p)
  PROVE  /\ UNCHANGED <<index, outdated, offer, granted, writer>>
         /\ \A q \in Procs : pend'[q] = NoPend \/ (pend'[q] = pend[q] /\ ctx'[q] = ctx[q])
<1>1. Registers /\ PendInv
  BY Parts DEF AInv
<1>2. UNCHANGED <<index, outdated, offer, granted, writer>>
  BY DEF Begin, SwitchMode, LookupHit, LookupMiss, WalkUp, WalkEnds, Aborted, DecideOpen,
         UpsertFlag, IndexingEnds, RebuildClears, store, table, hist
<1>3. \A q \in Procs \ {p} : pend'[q] = pend[q] /\ ctx'[q] = ctx[q]
  BY OnlyOwn DEF Step
<1>4. pend'[p] = NoPend \/ (pend'[p] = pend[p] /\ ctx'[p] = ctx[p])
  <2>1. CASE Begin(p) \/ SwitchMode(p)
    BY <1>1, <2>1 DEF Begin, SwitchMode, Start, PendInv
  <2>2. CASE LookupHit(p) \/ LookupMiss(p) \/ WalkUp(p) \/ WalkEnds(p)
    BY <2>2 DEF LookupHit, LookupMiss, WalkUp, WalkEnds
  <2>3. CASE Aborted(p)
    BY <1>1, <2>3 DEF Aborted, Registers
  <2>4. CASE DecideOpen(p) \/ UpsertFlag(p) \/ RebuildClears(p)
    BY <2>4 DEF DecideOpen, UpsertFlag, RebuildClears
  <2>5. CASE IndexingEnds(p)
    BY <1>1, <2>5 DEF IndexingEnds, PendInv
  <2>6. QED
    BY <2>1, <2>2, <2>3, <2>4, <2>5
<1>5. QED
  BY <1>2, <1>3, <1>4

\* Every permit in a row was granted.
LEMMA RowStep ==
  ASSUME AInv, [Next]_vars
  PROVE  RowInv'
<1> SUFFICES ASSUME ~mixed' PROVE RowInv'
  BY DEF RowInv
<1>1. Registers /\ RowInv /\ PendInv /\ ~mixed
  BY Parts, MixedStays DEF AInv
<1>2. ASSUME UNCHANGED <<index, granted>>, ~invented',
             \A q \in Procs : pend'[q] = NoPend \/ (pend'[q] = pend[q] /\ ctx'[q] = ctx[q])
      PROVE  RowInv'
  BY <1>1, <1>2, Basics DEF RowInv
<1>3. ASSUME NEW p \in Procs, Begin(p)
      PROVE  RowInv'
  <2>1. PICK c \in Contexts, records \in SUBSET Records :
          invented' = (invented \/ ~({c} \X {r \in records : index[Key[c]][r] = "permit"} \subseteq granted))
    BY <1>3 DEF Begin
  <2>2. {c} \X {r \in records : index[Key[c]][r] = "permit"} \subseteq granted
    BY <1>1, <2>1 DEF RowInv
  <2>3. ~invented'
    BY <1>1, <2>1, <2>2 DEF RowInv
  <2>4. QED
    BY <1>2, <1>3, <2>3, RowsAlone
<1>4. ASSUME NEW p \in Procs, LookupHit(p)
      PROVE  RowInv'
  <2>1. PICK r \in todo[p] : Decided(p, r, Known(p, r))
    BY <1>4 DEF LookupHit
  <2>2. r \in Records
    BY <1>1, <2>1 DEF Registers
  <2>3. Known(p, r) = "permit" => <<ctx[p], r>> \in granted
    BY <1>1, <2>2, KnownGranted
  <2>4. ~invented'
    BY <1>1, <2>1, <2>3 DEF Decided, RowInv
  <2>5. QED
    BY <1>2, <1>4, <2>4, RowsAlone
<1>5. ASSUME NEW p \in Procs,
             \/ LookupMiss(p) \/ WalkUp(p) \/ WalkEnds(p) \/ Aborted(p) \/ DecideOpen(p)
             \/ UpsertFlag(p) \/ IndexingEnds(p) \/ RebuildClears(p) \/ SwitchMode(p)
      PROVE  RowInv'
  <2>1. invented' = invented /\ ~invented
    BY <1>1, <1>5 DEF LookupMiss, WalkUp, WalkEnds, Aborted, DecideOpen, UpsertFlag, IndexingEnds,
                      RebuildClears, SwitchMode, hist, RowInv
  <2>2. QED
    BY <1>2, <1>5, <2>1, RowsAlone
<1>6. ASSUME NEW p \in Procs, Decide(p)
      PROVE  RowInv'
  <2>1. pc[p] = "offer" /\ granted' = granted /\ Decided(p, item[p], Evaluate(offer, ctx[p], pol[p]))
    BY <1>6 DEF Decide
  <2>2. Decided(p, item[p], Says(ctx[p], item[p]))
    BY <1>1, <2>1, DecisionGranted
  <2>3. ~invented'
    BY <1>1, <2>1, <2>2, DecisionGranted DEF Decided, RowInv
  <2>4. QED
    BY <1>1, <1>6, <2>1, <2>3, RowsStep, DecisionGranted DEF RowInv
<1>7. ASSUME NEW p \in Procs, Commit(p)
      PROVE  RowInv'
  <2>1. granted' = granted /\ ~invented' /\ ctx[p] \in Contexts
    BY <1>1, <1>7 DEF Commit, hist, RowInv, Registers
  <2>2. \A c \in Contexts, r \in Records : index'[Key[c]][r] = "permit" => <<c, r>> \in granted
    <3> SUFFICES ASSUME NEW c \in Contexts, NEW r \in Records, index'[Key[c]][r] = "permit"
                 PROVE  <<c, r>> \in granted
      OBVIOUS
    <3>1. CASE Key[c] = Key[ctx[p]] /\ pend[p][r] # Nil
      <4>1. <<ctx[p], r>> \in granted
        BY <1>1, <1>7, <3>1, RowsStep DEF RowInv
      <4>2. QED
        BY <2>1, <3>1, <4>1 DEF AInv, StoreInv
    <3>2. CASE ~(Key[c] = Key[ctx[p]] /\ pend[p][r] # Nil)
      BY <1>1, <1>7, <3>2, RowsStep DEF RowInv
    <3>3. QED
      BY <3>1, <3>2
  <2>3. \A q \in Procs, r \in Records : pend'[q][r] = "permit" => <<ctx'[q], r>> \in granted
    <3>1. pend'[p] = NoPend
      BY <1>1, <1>7, RowsStep
    <3>2. \A q \in Procs \ {p} : pend'[q] = pend[q] /\ ctx'[q] = ctx[q]
      BY <1>7, OnlyOwn DEF Step
    <3>3. QED
      BY <1>1, <3>1, <3>2, Basics DEF RowInv
  <2>4. QED
    BY <2>1, <2>2, <2>3 DEF RowInv
<1>8. ASSUME index' = NoRows, UNCHANGED <<invented, granted, pend, ctx>>
      PROVE  RowInv'
  BY <1>1, <1>8, Basics DEF RowInv
<1>9. ASSUME NEW p \in Procs, RebuildDrops(p)
      PROVE  RowInv'
  BY <1>8, <1>9 DEF RebuildDrops, hist
<1>10. ASSUME NEW p \in Procs, EditRecord(p)
       PROVE  RowInv'
  <2>1. granted \subseteq granted' /\ UNCHANGED <<index, invented, pend>>
    BY <1>10 DEF EditRecord, Stored, Start
  <2>2. pend[p] = NoPend
    BY <1>1, <1>10 DEF EditRecord, PendInv
  <2>3. \A q \in Procs \ {p} : ctx'[q] = ctx[q]
    BY <1>10, OnlyOwn
  <2>4. QED
    BY <1>1, <2>1, <2>2, <2>3, Basics DEF RowInv
<1>11. ASSUME NEW w \in Writers, PutPolicy(w) \/ DropPolicy(w)
       PROVE  RowInv'
  <2>1. granted \subseteq granted' /\ UNCHANGED <<index, invented, pend, ctx>>
    BY <1>11 DEF PutPolicy, DropPolicy, Stored, table, proc
  <2>2. QED
    BY <1>1, <2>1 DEF RowInv
<1>12. ASSUME NEW w \in Writers, CheckUnreferenced(w)
       PROVE  RowInv'
  BY <1>1, <1>12 DEF CheckUnreferenced, table, proc, hist, RowInv
<1>13. ASSUME NEW w \in Writers, Invalidate(w)
       PROVE  RowInv'
  BY <1>8, <1>13 DEF Invalidate, proc, hist
<1>14. CASE UNCHANGED vars
  BY <1>1, <1>14 DEF vars, table, proc, hist, RowInv
<1>15. QED
  BY <1>3, <1>4, <1>5, <1>6, <1>7, <1>9, <1>10, <1>11, <1>12, <1>13, <1>14
     DEF Next, Step, PolicyStep

-----------------------------------------------------------------------------
(* What is cached while nothing overlaps with a write.                     *)

\* A step of a process leaves coherent rows so.
LEMMA CoherentStep ==
  ASSUME AInv, ~mixed, Coherent, NEW p \in Procs, Begin(p) \/ Step(p) \/ SwitchMode(p)
  PROVE  Coherent'
<1>1. Registers
  BY Parts DEF AInv
<1>2. offer' = offer => \A c, r : Says(c, r)' = Says(c, r)
  BY LinkStays DEF Says, InForce
<1>3. ASSUME UNCHANGED <<index, outdated, offer>>,
             \A q \in Procs : pend'[q] = NoPend \/ (pend'[q] = pend[q] /\ ctx'[q] = ctx[q])
      PROVE  Coherent'
  BY <1>2, <1>3, Basics DEF Coherent
<1>4. CASE \/ Begin(p) \/ SwitchMode(p) \/ LookupHit(p) \/ LookupMiss(p) \/ WalkUp(p) \/ WalkEnds(p)
           \/ Aborted(p) \/ DecideOpen(p) \/ UpsertFlag(p) \/ IndexingEnds(p) \/ RebuildClears(p)
  BY <1>3, <1>4, RowsAlone
<1>5. CASE Decide(p)
  <2>1. offer' = offer
    BY <1>5 DEF Decide, store
  <2>2. QED
    BY <1>2, <1>5, <2>1, RowsStep DEF Coherent
<1>6. CASE Commit(p)
  <2>1. offer' = offer /\ ctx[p] \in Contexts /\ Alike(offer) /\ link \in [Records -> Link]
    BY <1>1, <1>6, Parts DEF Commit, store, Registers, Stores, AInv, StoreInv
  <2>2. ASSUME NEW c \in Contexts, NEW r \in Records, <<Key[c], r>> \notin outdated
        PROVE  index'[Key[c]][r] \in {Nil, Says(c, r)}
    <3>1. CASE Key[c] = Key[ctx[p]] /\ pend[p][r] # Nil
      <4>1. Says(c, r) = Says(ctx[p], r)
        BY <2>1, <3>1, SameDecision DEF Says, InForce
      <4>2. index'[Key[c]][r] = pend[p][r]
        BY <1>6, <3>1, RowsStep
      <4>3. QED
        BY <4>1, <4>2 DEF Coherent
    <3>2. CASE ~(Key[c] = Key[ctx[p]] /\ pend[p][r] # Nil)
      BY <1>6, <2>2, <3>2, RowsStep DEF Coherent
    <3>3. QED
      BY <3>1, <3>2
  <2>3. pend'[p] = NoPend /\ outdated' = outdated
    BY <1>6, RowsStep
  <2>4. \A q \in Procs \ {p} : pend'[q] = pend[q] /\ ctx'[q] = ctx[q]
    BY <1>6, OnlyOwn DEF Step
  <2>5. QED
    BY <1>2, <2>1, <2>2, <2>3, <2>4, Basics DEF Coherent
<1>7. CASE RebuildDrops(p)
  <2>1. index' = NoRows /\ UNCHANGED <<offer, pend, ctx>>
    BY <1>7 DEF RebuildDrops, store
  <2>2. QED
    BY <1>2, <2>1, Basics DEF Coherent
<1>8. QED
  BY <1>4, <1>5, <1>6, <1>7 DEF Step

\* An edit under which nothing runs outdates the rows that do not stand for the store any more.
LEMMA CoherentEdit ==
  ASSUME AInv, Coherent, ~Busy, NEW p \in Procs, EditRecord(p)
  PROVE  Coherent'
<1>1. PICK r0 \in Records, l \in Links : /\ Stored([link EXCEPT ![r0] = l], offer)
                                        /\ outdated' = outdated \cup Outdates([link EXCEPT ![r0] = l])
  BY DEF EditRecord
<1>2. link' = [link EXCEPT ![r0] = l] /\ offer' = offer
  BY <1>1 DEF Stored
<1>3. index' = index /\ pend' = pend
  BY DEF EditRecord, Start
<1>4. outdated' = outdated \cup Outdates(link')
  BY <1>1, <1>2
<1>5. \A q \in Procs : pend[q] = NoPend
  BY DEF Busy, AInv, PendInv
<1>6. ASSUME NEW c \in Contexts, NEW r \in Records, <<Key[c], r>> \notin outdated'
      PROVE  index'[Key[c]][r] \in {Nil, Says(c, r)'}
  <2>1. index[Key[c]][r] \in {Nil, Says(c, r)}
    BY <1>4, <1>6 DEF Coherent
  <2>2. CASE index[Key[c]][r] = Nil
    BY <1>3, <2>2
  <2>3. CASE index[Key[c]][r] # Nil
    <3>1. EffectiveOffer(link', r) = EffectiveOffer(link, r)
      BY <1>4, <1>6, <2>3, Basics DEF Outdates
    <3>2. Says(c, r)' = Says(c, r)
      BY <1>2, <3>1 DEF Says, InForce
    <3>3. QED
      BY <1>3, <2>1, <3>2
  <2>4. QED
    BY <2>2, <2>3
<1>7. QED
  BY <1>3, <1>5, <1>6, Basics DEF Coherent

\* A write that overlaps with nothing is alone, and what is cached when none is under way is
\* what the store gives, but for the rows an edit has outdated.
LEMMA CalmStep ==
  ASSUME AInv, [Next]_vars
  PROVE  CalmInv'
<1>1. Registers /\ Stores /\ CalmInv /\ PendInv
  BY Parts DEF AInv
<1>2. SUFFICES ASSUME ~raced' PROVE CalmInv'
  BY DEF CalmInv
<1>3. ASSUME ~mixed', \A w \in Writers : writer'[w] = Idle, Coherent'
      PROVE  CalmInv'
  BY <1>3 DEF CalmInv
<1>4. ASSUME ~raced, \A w \in Writers : writer[w] = Idle
      PROVE  Coherent /\ ~mixed
  BY <1>1, <1>4 DEF CalmInv, Idle
<1>5. ASSUME NEW p \in Procs, Begin(p) \/ SwitchMode(p)
      PROVE  CalmInv'
  <2>1. ~raced /\ \A w \in Writers : writer[w] = Idle
    BY <1>2, <1>5 DEF Begin, SwitchMode, Alters, Writing
  <2>2. writer' = writer
    BY <1>5 DEF Begin, SwitchMode
  <2>3. ~mixed'
    BY <1>4, <1>5, <2>1, LinkStays
  <2>4. QED
    BY <1>3, <1>4, <1>5, <2>1, <2>2, <2>3, CoherentStep
<1>6. ASSUME NEW p \in Procs, Step(p)
      PROVE  CalmInv'
  <2>1. pc[p] # "idle" /\ raced' = raced /\ writer' = writer
    BY <1>6
       DEF Step, LookupHit, LookupMiss, WalkUp, WalkEnds, Decide, Aborted, WaitsFor, Commit,
           DecideOpen, UpsertFlag, IndexingEnds, RebuildDrops, RebuildClears, overlaps
  <2>2. ~raced
    BY <1>2, <2>1
  <2>3. \A w \in Writers : writer[w] = Idle
    BY <1>1, <2>1, <2>2 DEF CalmInv, Busy
  <2>4. Coherent /\ ~mixed
    BY <1>4, <2>2, <2>3
  <2>5. ~mixed'
    BY <1>6, <2>4, LinkStays
  <2>6. QED
    BY <1>3, <1>6, <2>1, <2>3, <2>4, <2>5, CoherentStep
<1>7. ASSUME NEW p \in Procs, EditRecord(p)
      PROVE  CalmInv'
  <2>1. ~raced /\ ~Busy /\ \A w \in Writers : writer[w] = Idle
    BY <1>2, <1>7 DEF EditRecord, Alters, Writing
  <2>2. Coherent /\ ~mixed
    BY <1>4, <2>1
  <2>3. mixed' = (mixed \/ \E q \in Procs : pc[q] \in {"walk", "offer"}) /\ writer' = writer
    BY <1>7 DEF EditRecord
  <2>4. ~mixed'
    BY <2>1, <2>2, <2>3 DEF Busy
  <2>5. Coherent'
    BY <1>7, <2>1, <2>2, CoherentEdit
  <2>6. QED
    BY <1>3, <2>1, <2>3, <2>4, <2>5
<1>8. ASSUME NEW w \in Writers, PutPolicy(w) \/ CheckUnreferenced(w)
      PROVE  /\ ~raced /\ ~Busy /\ ~Busy' /\ ~mixed'
             /\ \A v \in Writers : writer[v] = Idle
  <2>1. ~raced /\ ~Busy /\ \A v \in Writers : writer[v] = Idle
    BY <1>2, <1>8 DEF PutPolicy, CheckUnreferenced, Alters, Writing
  <2>2. pc' = pc /\ mixed' = mixed
    BY <1>8 DEF PutPolicy, CheckUnreferenced, proc
  <2>3. QED
    BY <1>4, <2>1, <2>2 DEF Busy
<1>9. ASSUME NEW w \in Writers, PutPolicy(w)
      PROVE  CalmInv'
  <2>1. writer' = [writer EXCEPT ![w] = [pc |-> "invalidate", pol |-> Nil]]
    BY <1>9 DEF PutPolicy
  <2>2. writer'[w].pc = "invalidate" /\ \A v \in Writers \ {w} : writer'[v] = Idle
    BY <1>1, <1>8, <1>9, <2>1 DEF Stores
  <2>3. QED
    BY <1>8, <1>9, <2>2 DEF CalmInv, Idle
<1>10. ASSUME NEW w \in Writers, CheckUnreferenced(w)
       PROVE  CalmInv'
  <2>1. UNCHANGED <<index, outdated, pend, ctx, link, offer>>
    BY <1>10 DEF CheckUnreferenced, proc, store, table
  <2>2. \A v \in Writers \ {w} : writer'[v] = Idle
    BY <1>1, <1>8, <1>10 DEF CheckUnreferenced, Stores
  <2>3. Coherent'
    BY <1>4, <1>8, <1>10, <2>1 DEF Coherent, Says, InForce
  <2>4. QED
    BY <1>8, <1>10, <2>2, <2>3 DEF CalmInv
<1>11. ASSUME NEW w \in Writers, DropPolicy(w) \/ Invalidate(w)
       PROVE  /\ ~raced /\ ~Busy /\ ~Busy' /\ ~mixed' /\ pend' = pend
              /\ \A v \in Writers \ {w} : writer'[v] = Idle
  <2>1. raced' = raced /\ mixed' = mixed /\ UNCHANGED proc /\ writer[w] # Idle
    BY <1>11 DEF DropPolicy, Invalidate, Idle, overlaps
  <2>2. ~raced
    BY <1>2, <2>1
  <2>3. ~Busy /\ ~mixed /\ \A v \in Writers \ {w} : writer[v] = Idle
    BY <1>1, <2>1, <2>2 DEF CalmInv
  <2>4. \A v \in Writers \ {w} : writer'[v] = writer[v]
    BY <1>1, <1>11 DEF DropPolicy, Invalidate, Stores
  <2>5. QED
    BY <2>1, <2>2, <2>3, <2>4 DEF proc, Busy
<1>12. ASSUME NEW w \in Writers, DropPolicy(w)
       PROVE  CalmInv'
  <2>1. writer'[w].pc = "invalidate"
    BY <1>1, <1>12 DEF DropPolicy, Stores
  <2>2. QED
    BY <1>11, <1>12, <2>1 DEF CalmInv, Idle
<1>13. ASSUME NEW w \in Writers, Invalidate(w)
       PROVE  CalmInv'
  <2>1. writer'[w] = Idle /\ index' = NoRows
    BY <1>1, <1>13 DEF Invalidate, Stores
  <2>2. \A p \in Procs : pend'[p] = NoPend
    BY <1>1, <1>11, <1>13 DEF PendInv, Busy
  <2>3. \A v \in Writers : writer'[v] = Idle
    BY <1>11, <1>13, <2>1
  <2>4. Coherent'
    BY <2>1, <2>2, Basics DEF Coherent
  <2>5. QED
    BY <1>3, <1>11, <1>13, <2>3, <2>4
<1>14. CASE UNCHANGED vars
  BY <1>1, <1>14
     DEF vars, proc, store, table, overlaps, CalmInv, Coherent, Busy, Says, InForce
<1>15. QED
  BY <1>5, <1>6, <1>7, <1>9, <1>10, <1>12, <1>13, <1>14 DEF Next, PolicyStep

-----------------------------------------------------------------------------
(* The theorems.                                                           *)

LEMMA Initially == KeyTells /\ Init => AInv
<1> SUFFICES ASSUME KeyTells, Init PROVE AInv
  OBVIOUS
<1>1. Registers
  BY AuthzAssumption DEF Init, Registers, Option, NoPend
<1>2. Stores
  <2>1. link \in [Records -> Link] /\ offer \in [Policies -> Option(SUBSET Contexts)]
    BY AuthzAssumption DEF Init, Option
  <2>2. granted \subseteq Contexts \X Records
    BY DEF Init, GrantedNow
  <2>3. writer \in [Writers -> [pc : {"idle", "drop", "invalidate"}, pol : Option(Policies)]]
    BY DEF Init, Idle, Option
  <2>4. flag \in [Records -> Option(BOOLEAN)]
    BY DEF Init, NoPend, Option
  <2>5. QED
    BY <2>1, <2>2, <2>3, <2>4, Basics, AuthzAssumption DEF Init, Stores
<1>3. PendInv
  BY DEF Init, PendInv
<1>4. TypeOK
  BY <1>1, <1>2, <1>3, Parts DEF PendInv
<1>5. WalkInv /\ PlaceInv
  BY DEF Init, WalkInv, PlaceInv
<1>6. StoreInv
  <2>1. link = SeedLink /\ offer = SeedOffer /\ granted = GrantedNow(SeedLink, SeedOffer)
    BY DEF Init
  <2>2. Alike(SeedOffer) /\ SeedLink \in [Records -> Link]
    BY AuthzAssumption DEF KeyTells, Alike
  <2>3. ASSUME NEW c \in Contexts, NEW d \in Contexts, NEW r \in Records,
               Key[c] = Key[d], <<c, r>> \in granted
        PROVE  <<d, r>> \in granted
    BY <2>1, <2>2, <2>3, SameDecision, GrantsAreSaid
  <2>4. QED
    BY <2>1, <2>2, <2>3 DEF StoreInv
<1>7. /\ \A c \in Contexts, r \in Records : index[Key[c]][r] = Nil
      /\ \A p \in Procs, r \in Records : pend[p][r] = Nil
  BY Basics DEF Init
<1>8. RowInv
  BY <1>7, Basics DEF Init, RowInv
<1>9. CalmInv
  BY <1>7 DEF Init, CalmInv, Coherent, Busy, Idle
<1>10. QED
  BY <1>4, <1>3, <1>5, <1>6, <1>8, <1>9 DEF AInv

LEMMA Inductive == KeyTells /\ AInv /\ [Next]_vars => AInv'
<1> SUFFICES ASSUME KeyTells, AInv, [Next]_vars PROVE AInv'
  OBVIOUS
<1>1. Stores' /\ PendInv'
  BY StoresStep, PendStep
<1>2. Registers'
  <2>1. CASE \E p \in Procs : Begin(p) \/ Step(p) \/ EditRecord(p) \/ SwitchMode(p)
    BY <2>1, RegistersStep
  <2>2. CASE (\E w \in Writers : PutPolicy(w) \/ CheckUnreferenced(w) \/ PolicyStep(w)) \/ UNCHANGED vars
    <3>1. UNCHANGED proc
      BY <2>2 DEF PutPolicy, CheckUnreferenced, PolicyStep, DropPolicy, Invalidate, vars
    <3>2. Registers
      BY Parts DEF AInv
    <3>3. QED
      BY <3>1, <3>2 DEF proc, walk, Registers
  <2>3. QED
    BY <2>1, <2>2 DEF Next
<1>3. TypeOK'
  BY <1>1, <1>2, Parts DEF PendInv, Registers, Stores, TypeOK
<1>4. QED
  BY <1>1, <1>3, StoreStep, PlaceStep, WalkStays, RowStep, CalmStep DEF AInv

LEMMA AlwaysAInv == ASSUME KeyTells PROVE Spec => []AInv
  BY Initially, Inductive, PTL DEF Spec

\* What the invariant says of decisions.
LEMMA DecisionsGive == AInv => PermitsWereGranted /\ IndexCoherent
<1> SUFFICES ASSUME AInv PROVE PermitsWereGranted /\ IndexCoherent
  OBVIOUS
<1>1. PermitsWereGranted
  BY DEF AInv, RowInv, PermitsWereGranted, Keys
<1>2. IndexCoherent
  <2> SUFFICES ASSUME ~raced, Quiet, NEW c \in Contexts, NEW r \in Records,
                      <<Key[c], r>> \notin outdated, index[Key[c]][r] # Nil
               PROVE  (index[Key[c]][r] = "permit") = Permitted(link, offer, c, r)
    BY DEF IndexCoherent, Agrees
  <2>1. \A w \in Writers : writer[w].pc # "invalidate"
    BY DEF Quiet, Writing, Idle
  <2>2. index[Key[c]][r] = Says(c, r)
    BY <2>1 DEF AInv, CalmInv, Coherent
  <2>3. QED
    BY <2>2 DEF Says, InForce, Permitted
<1>3. QED
  BY <1>1, <1>2

\* Until a record is edited while a decision is on its way, no permit is answered or cached
\* that no version of the store granted (pdp.py, cache.py, policies.py): decisions may be late,
\* never invented.
THEOREM PermitsWereAlwaysGranted == ASSUME KeyTells PROVE Spec => []PermitsWereGranted
  BY DecisionsGive, AlwaysAInv, PTL

\* Once everything has come to rest, and if no write, edit or switch overlapped with anything, a
\* cached decision is the one that the walk and the evaluation give on the store (resolver.py,
\* evaluator.py; policies.py's invalidate_all), unless an edit of the record or of one of its
\* ancestors has outdated it since (router.py's writes invalidate nothing).
THEOREM IndexAlwaysCoherent == ASSUME KeyTells PROVE Spec => []IndexCoherent
  BY DecisionsGive, AlwaysAInv, PTL

-----------------------------------------------------------------------------
(* The inductive invariant.                                                *)

\* The calls that may be left on each path.
Remaining(k, s) ==
  \/ k = "get" /\ s \in {<<"authorize", "fetch", "published", "curate">>,
                         <<"fetch", "published", "curate">>, <<"published", "curate">>, <<"curate">>}
  \/ k \in {"expanded", "page"}
     /\ s \in {<<"authorize", "published", "curate", "fetch">>,
               <<"published", "curate", "fetch">>, <<"curate", "fetch">>, <<"fetch">>}
  \/ k = "instances" /\ s \in {<<"authorize", "published", "curate">>, <<"published", "curate">>,
                               <<"curate">>}
  \/ k = "data" /\ s \in {<<"fetch", "authorize", "published">>, <<"authorize", "published">>,
                          <<"published">>}

\* Those of which "authorize" is not one any more.
Authorized == {<<"fetch", "published", "curate">>, <<"published", "curate">>, <<"curate">>,
               <<"published", "curate", "fetch">>, <<"curate", "fetch">>, <<"fetch">>,
               <<"published">>}

\* A walk has calls of its path left; past "authorize" the caller was permitted to read the
\* item; and where only the fetch is left the caller is entitled to it.
CourseInv ==
  stage = "walk" =>
    /\ kind \in Reading!Walks /\ Remaining(kind, steps)
    /\ steps \in Authorized => <<"read", record>> \in held
    /\ steps = <<"fetch">> => Reading!Entitled(record)

\* A query or an update has in its scope what its caller is entitled to; its candidates were
\* published or are the caller's to modify, where that is what they were chosen for.
QueryInv ==
  /\ stage \notin {"start", "walk", "done"} => kind \in {"sparql", "update"}
  /\ stage = "start" => scope = {} /\ unscoped = FALSE
  /\ stage \notin {"walk", "done"} => shown = {} /\ written = {} /\ \A r \in scope : Reading!Entitled(r)
  /\ stage = "readable" /\ kind = "sparql" /\ ~Reading!Admin => \A r \in base : <<"published", r>> \in held
  /\ stage = "drafts" => \A r \in base : <<"modify", r>> \in held
  /\ stage \in {"others", "curatable", "drafts"} => kind = "sparql"
  /\ stage \in {"modifiable", "scope"} => kind = "update"

\* An update past its check may modify its targets as they are listed.
UpdateInv ==
  kind = "update" /\ stage \in {"scope", "readable", "run"} =>
    \A r \in asked : Reading!Admin \/ <<"modify", r>> \in held

\* What holds now held during the request, unless it is over.
Remembers == stage # "done" => Reading!Facts(state, may) \subseteq held

ReadInv == Remembers /\ CourseInv /\ QueryInv /\ UpdateInv /\ Reading!ReadsEntitled

-----------------------------------------------------------------------------
(* Lemmas.                                                                 *)

\* A caller stays entitled to what it was entitled to.
LEMMA StaysEntitled ==
  ASSUME UNCHANGED Reading!request, held \subseteq held', NEW r, Reading!Entitled(r)
  PROVE  Reading!Entitled(r)'
  BY DEF Reading!Entitled, Reading!Admin, Reading!request

\* What is published or permitted now is remembered.
LEMMA Now ==
  ASSUME Remembers, stage # "done"
  PROVE  /\ \A r \in Reading!Published : <<"published", r>> \in held
         /\ \A a, r : <<a, r>> \in may => <<a, r>> \in held
  BY DEF Remembers, Reading!Facts, Reading!Published

\* What is left after a call is left on the same path, by the call that was made.
LEMMA Following ==
  ASSUME NEW k, NEW s, Remaining(k, s)
  PROVE  /\ Head(s) = "authorize" => Len(s) # 1 /\ Remaining(k, Tail(s)) /\ Tail(s) # <<"fetch">>
         /\ Head(s) = "published" => /\ s \in Authorized
                                     /\ k # "data" => /\ Len(s) # 1 /\ Remaining(k, Tail(s))
                                                      /\ Tail(s) # <<"fetch">>
         /\ Head(s) = "curate" => /\ s \in Authorized
                                  /\ Len(s) # 1 => Remaining(k, Tail(s))
         /\ Head(s) = "fetch" => \/ s = <<"fetch">>
                                 \/ /\ Len(s) # 1 /\ Remaining(k, Tail(s)) /\ Tail(s) # <<"fetch">>
                                    /\ Tail(s) \in Authorized => s \in Authorized
  <1>1. CASE s = <<"authorize", "fetch", "published", "curate">>
    <2>1. Tail(s) = <<"fetch", "published", "curate">> /\ Len(s) = 4 /\ Head(s) = "authorize"
      BY <1>1
    <2> QED
      BY <1>1, <2>1 DEF Remaining
  <1>2. CASE s = <<"fetch", "published", "curate">>
    <2>1. Tail(s) = <<"published", "curate">> /\ Len(s) = 3 /\ Head(s) = "fetch"
      BY <1>2
    <2> QED
      BY <1>2, <2>1 DEF Remaining, Authorized
  <1>3. CASE s = <<"published", "curate">>
    <2>1. Tail(s) = <<"curate">> /\ Len(s) = 2 /\ Head(s) = "published"
      BY <1>3
    <2> QED
      BY <1>3, <2>1 DEF Remaining, Authorized
  <1>4. CASE s = <<"curate">>
    BY <1>4 DEF Authorized
  <1>5. CASE s = <<"authorize", "published", "curate", "fetch">>
    <2>1. Tail(s) = <<"published", "curate", "fetch">> /\ Len(s) = 4 /\ Head(s) = "authorize"
      BY <1>5
    <2> QED
      BY <1>5, <2>1 DEF Remaining
  <1>6. CASE s = <<"published", "curate", "fetch">>
    <2>1. Tail(s) = <<"curate", "fetch">> /\ Len(s) = 3 /\ Head(s) = "published"
      BY <1>6
    <2> QED
      BY <1>6, <2>1 DEF Remaining, Authorized
  <1>7. CASE s = <<"curate", "fetch">>
    <2>1. Tail(s) = <<"fetch">> /\ Len(s) = 2 /\ Head(s) = "curate"
      BY <1>7
    <2> QED
      BY <1>7, <2>1 DEF Remaining, Authorized
  <1>8. CASE s = <<"fetch">>
    BY <1>8
  <1>9. CASE s = <<"authorize", "published", "curate">>
    <2>1. Tail(s) = <<"published", "curate">> /\ Len(s) = 3 /\ Head(s) = "authorize"
      BY <1>9
    <2> QED
      BY <1>9, <2>1 DEF Remaining
  <1>10. CASE s = <<"fetch", "authorize", "published">>
    <2>1. Tail(s) = <<"authorize", "published">> /\ Len(s) = 3 /\ Head(s) = "fetch"
      BY <1>10
    <2>2. <<"authorize", "published">> \notin Authorized
      BY DEF Authorized
    <2> QED
      BY <1>10, <2>1, <2>2 DEF Remaining
  <1>11. CASE s = <<"authorize", "published">>
    <2>1. Tail(s) = <<"published">> /\ Len(s) = 2 /\ Head(s) = "authorize"
      BY <1>11
    <2> QED
      BY <1>11, <2>1 DEF Remaining
  <1>12. CASE s = <<"published">>
    BY <1>12 DEF Remaining, Authorized
  <1> QED
    BY <1>1, <1>2, <1>3, <1>4, <1>5, <1>6, <1>7, <1>8, <1>9, <1>10, <1>11, <1>12 DEF Remaining

\* The next item starts at the first call of its path.
LEMMA Continues ==
  ASSUME kind \in Reading!Walks, stage = "walk", NEW rest, Reading!Continue(rest), kind' = kind
  PROVE  CourseInv' /\ stage' \in {"walk", "done"}
  <1>1. /\ Remaining(kind, Reading!Course[kind])
        /\ Reading!Course[kind] \notin Authorized /\ Reading!Course[kind] # <<"fetch">>
    BY DEF Reading!Course, Remaining, Authorized, Reading!Walks
  <1>2. CASE rest = {}
    BY <1>2 DEF Reading!Continue, CourseInv
  <1>3. CASE rest # {}
    <2>1. steps' = Reading!Course[kind] /\ stage' = "walk" /\ kind' = kind
      BY <1>3 DEF Reading!Continue
    <2> QED
      BY <1>1, <2>1 DEF CourseInv
  <1> QED
    BY <1>2, <1>3

\* Refusing shows nothing more.
LEMMA Refuses ==
  ASSUME kind \in Reading!Walks, stage = "walk", Reading!Refused, kind' = kind
  PROVE  CourseInv' /\ stage' \in {"walk", "done"}
         /\ (shown' = shown \/ (shown' = shown \cup {record} /\ Reading!Entitled(record)))
  <1>1. CASE Reading!Continue(left)
    BY <1>1, Continues DEF Reading!Refused
  <1>2. CASE stage' = "done"
    BY <1>2 DEF Reading!Refused, CourseInv
  <1> QED
    BY <1>1, <1>2 DEF Reading!Refused

\* Passing the last call shows the item; passing another goes on with the rest.
LEMMA Passes ==
  ASSUME kind \in Reading!Walks, stage = "walk", NEW rest, Reading!Passed(rest),
         UNCHANGED Reading!request, held' = held,
         Len(steps) = 1 => Reading!Entitled(record),
         Len(steps) # 1 => /\ Remaining(kind, Tail(steps))
                           /\ Tail(steps) \in Authorized => <<"read", record>> \in held
                           /\ Tail(steps) = <<"fetch">> => Reading!Entitled(record)
  PROVE  CourseInv' /\ stage' \in {"walk", "done"}
         /\ (shown' = shown \/ (shown' = shown \cup {record} /\ Reading!Entitled(record)))
  <1>1. CASE Len(steps) = 1
    <2>1. Reading!Continue(rest) /\ shown' = shown \cup {record} /\ kind' = kind
      BY <1>1 DEF Reading!Passed, Reading!request
    <2>2. CourseInv' /\ stage' \in {"walk", "done"}
      BY <2>1, Continues
    <2> QED
      BY <1>1, <2>1, <2>2
  <1>2. CASE Len(steps) # 1
    <2>1. steps' = Tail(steps) /\ stage' = stage /\ record' = record /\ shown' = shown /\ kind' = kind
          /\ held' = held
      BY <1>2 DEF Reading!Passed, Reading!request
    <2>2. Reading!Entitled(record) => Reading!Entitled(record)'
      BY <2>1 DEF Reading!Entitled, Reading!Admin, Reading!request
    <2>3. Remaining(kind, steps)'
      BY <1>2, <2>1 DEF Remaining
    <2>4. (kind \in Reading!Walks)' /\ ((steps \in Authorized)' => (<<"read", record>> \in held)')
          /\ ((steps = <<"fetch">>)' => Reading!Entitled(record)')
      <3>1. (steps \in Authorized)' <=> Tail(steps) \in Authorized
        BY <2>1 DEF Authorized
      <3> QED
        BY <1>2, <2>1, <2>2, <3>1
    <2>5. CourseInv'
      BY <2>3, <2>4 DEF CourseInv
    <2> QED
      BY <2>1, <2>5
  <1> QED
    BY <1>1, <1>2

\* A step of a walk keeps the rest of the invariant.
LEMMA CourseStep ==
  ASSUME ReadInv, stage = "walk", CourseInv', stage' \in {"walk", "done"},
         shown' = shown \/ (shown' = shown \cup {record} /\ Reading!Entitled(record)),
         UNCHANGED <<Reading!world, Reading!request, Reading!asking, Reading!effect, held>>
  PROVE  ReadInv'
  <1>1. \A r : Reading!Entitled(r)' <=> Reading!Entitled(r)
    BY DEF Reading!Entitled, Reading!Admin, Reading!request
  <1>2. Reading!ReadsEntitled'
    BY <1>1
       DEF ReadInv, Reading!ReadsEntitled, Reading!AnswersEntitled, Reading!UpdatesEntitled,
           Reading!Admin, Reading!request, Reading!effect
  <1>3. QueryInv'
    BY DEF QueryInv
  <1>4. UpdateInv'
    BY DEF ReadInv, UpdateInv, Reading!request
  <1>5. Remembers'
    BY DEF ReadInv, Remembers, Reading!world, Reading!Facts
  <1> QED
    BY <1>2, <1>3, <1>4, <1>5 DEF ReadInv

-----------------------------------------------------------------------------
(* The steps.                                                              *)

\* A request starts with nothing shown.
LEMMA ReadInitially == Reading!Init => ReadInv
  BY DEF Reading!Init, ReadInv, Remembers, CourseInv, QueryInv, UpdateInv, Reading!ReadsEntitled,
         Reading!AnswersEntitled, Reading!UpdatesEntitled, Reading!Walks, Reading!Course,
         Reading!Kinds

\* A change of the world adds to what is remembered.
LEMMA Edited ==
  ASSUME ReadInv, NEW st, NEW m, Reading!Edit(st, m)
  PROVE  ReadInv'
  <1>1. held \subseteq held' /\ UNCHANGED Reading!request
    BY DEF Reading!Edit
  <1>2. \A r : Reading!Entitled(r) => Reading!Entitled(r)'
    BY <1>1, StaysEntitled
  <1>3. Reading!ReadsEntitled'
    BY <1>1, <1>2
       DEF ReadInv, Reading!ReadsEntitled, Reading!AnswersEntitled, Reading!UpdatesEntitled,
           Reading!Edit, Reading!Admin, Reading!request, Reading!answer, Reading!effect
  <1>4. CourseInv'
    BY <1>1, <1>2 DEF ReadInv, CourseInv, Reading!Edit, Reading!request, Reading!walking
  <1>5. QueryInv'
    BY <1>1, <1>2
       DEF ReadInv, QueryInv, Reading!Edit, Reading!request, Reading!asking, Reading!answer, Reading!effect,
           Reading!Admin
  <1>6. UpdateInv'
    BY <1>1 DEF ReadInv, UpdateInv, Reading!Edit, Reading!request, Reading!Admin
  <1>7. Remembers'
    BY DEF Remembers, Reading!Edit
  <1> QED
    BY <1>3, <1>4, <1>5, <1>6, <1>7 DEF ReadInv

\* Start leaves all of the path's calls.
LEMMA Started == ASSUME ReadInv, Reading!Start PROVE ReadInv'
  <1>1. /\ Remaining(kind, Reading!Course[kind])
        /\ Reading!Course[kind] \notin Authorized /\ Reading!Course[kind] # <<"fetch">>
    BY DEF Reading!Start, Reading!Course, Remaining, Authorized, Reading!Walks
  <1>2. stage' \in {"walk", "done"} /\ (stage' = "walk" => steps' = Reading!Course[kind]) /\ kind' = kind
    BY DEF Reading!Start, Reading!request
  <1>3. CourseInv'
    BY <1>1, <1>2 DEF CourseInv, Reading!Start
  <1>4. QueryInv'
    BY <1>2 DEF QueryInv
  <1>5. Reading!ReadsEntitled'
    BY DEF Reading!Start, ReadInv, QueryInv, Reading!ReadsEntitled, Reading!AnswersEntitled,
           Reading!UpdatesEntitled, Reading!answer, Reading!effect
  <1>6. UpdateInv'
    BY <1>2 DEF ReadInv, UpdateInv, Reading!Start, Reading!world
  <1>7. Remembers'
    BY DEF ReadInv, Remembers, Reading!Start, Reading!world, Reading!Facts
  <1> QED
    BY <1>3, <1>4, <1>5, <1>6, <1>7 DEF ReadInv

\* authorize remembers that the caller may read the item.
LEMMA AuthorizeStep == ASSUME ReadInv, Reading!Authorize PROVE ReadInv'
  <1>1. stage = "walk" /\ kind \in Reading!Walks /\ Remaining(kind, steps) /\ Head(steps) = "authorize"
    BY DEF Reading!Authorize, Reading!At, ReadInv, CourseInv
  <1>2. UNCHANGED <<Reading!world, Reading!request, Reading!asking, Reading!effect, held>>
    BY DEF Reading!Authorize
  <1>3. UNCHANGED Reading!request /\ kind' = kind /\ held' = held
    BY <1>2 DEF Reading!request
  <1>4. CASE <<"read", record>> \in may
    <2>1. Reading!Passed(left) /\ <<"read", record>> \in held
      BY <1>1, <1>4, Now DEF Reading!Authorize, ReadInv
    <2>2. Len(steps) # 1 /\ Remaining(kind, Tail(steps)) /\ Tail(steps) # <<"fetch">>
      BY <1>1, Following
    <2>3. CourseInv' /\ stage' \in {"walk", "done"}
          /\ (shown' = shown \/ (shown' = shown \cup {record} /\ Reading!Entitled(record)))
      BY <1>1, <1>3, <2>1, <2>2, Passes
    <2> QED
      BY <1>1, <1>2, <2>3, CourseStep
  <1>5. CASE <<"read", record>> \notin may
    <2>1. CourseInv' /\ stage' \in {"walk", "done"}
          /\ (shown' = shown \/ (shown' = shown \cup {record} /\ Reading!Entitled(record)))
      BY <1>1, <1>3, <1>5, Refuses DEF Reading!Authorize
    <2> QED
      BY <1>1, <1>2, <2>1, CourseStep
  <1> QED
    BY <1>4, <1>5

\* A published item needs no further permission ...
LEMMA AskPublishedStep == ASSUME ReadInv, Reading!AskPublished PROVE ReadInv'
  <1>1. stage = "walk" /\ kind \in Reading!Walks /\ Remaining(kind, steps) /\ Head(steps) = "published"
    BY DEF Reading!AskPublished, Reading!At, ReadInv, CourseInv
  <1>2. UNCHANGED <<Reading!world, Reading!request, Reading!asking, Reading!effect, held>>
    BY DEF Reading!AskPublished
  <1>3. UNCHANGED Reading!request /\ kind' = kind /\ held' = held
    BY <1>2 DEF Reading!request
  <1>4. <<"read", record>> \in held
    BY <1>1, Following DEF ReadInv, CourseInv
  <1>5. CASE record \notin Reading!Published /\ (kind = "data" \/ who = "anonymous")
    <2>1. CourseInv' /\ stage' \in {"walk", "done"}
          /\ (shown' = shown \/ (shown' = shown \cup {record} /\ Reading!Entitled(record)))
      BY <1>1, <1>3, <1>5, Refuses DEF Reading!AskPublished
    <2> QED
      BY <1>1, <1>2, <2>1, CourseStep
  <1>6. CASE record \notin Reading!Published /\ ~(kind = "data" \/ who = "anonymous")
    <2>1. Reading!Passed(left)
      BY <1>6 DEF Reading!AskPublished
    <2>2. Len(steps) # 1 /\ Remaining(kind, Tail(steps)) /\ Tail(steps) # <<"fetch">>
      BY <1>1, <1>6, Following
    <2>3. CourseInv' /\ stage' \in {"walk", "done"}
          /\ (shown' = shown \/ (shown' = shown \cup {record} /\ Reading!Entitled(record)))
      BY <1>1, <1>3, <1>4, <2>1, <2>2, Passes
    <2> QED
      BY <1>1, <1>2, <2>3, CourseStep
  <1>7. CASE record \in Reading!Published
    <2>1. Reading!Entitled(record)
      BY <1>1, <1>4, <1>7, Now DEF ReadInv, Reading!Entitled
    <2>2. CASE steps = <<"published">> \/ Tail(steps) = <<"curate">>
      <3>1. shown' = shown \cup {record} /\ Reading!Continue(left)
        BY <1>7, <2>2 DEF Reading!AskPublished
      <3>2. CourseInv' /\ stage' \in {"walk", "done"}
        BY <1>1, <1>3, <3>1, Continues
      <3> QED
        BY <1>1, <1>2, <2>1, <3>1, <3>2, CourseStep
    <2>3. CASE ~(steps = <<"published">> \/ Tail(steps) = <<"curate">>)
      <3>1. steps = <<"published", "curate", "fetch">> /\ kind \in {"expanded", "page"}
        <4>1. steps # <<"published", "curate">>
          <5>1. Tail(<<"published", "curate">>) = <<"curate">>
            OBVIOUS
          <5> QED
            BY <2>3, <5>1
        <4> QED
          BY <1>1, <2>3, <4>1 DEF Remaining
      <3>2. steps[2] = "curate" /\ Tail(Tail(steps)) = <<"fetch">>
        BY <3>1
      <3>3. steps' = <<"fetch">> /\ stage' = stage /\ record' = record /\ shown' = shown
        BY <1>7, <2>3, <3>2 DEF Reading!AskPublished
      <3>4. Reading!Entitled(record)'
        BY <1>3, <2>1, <3>3 DEF Reading!Entitled, Reading!Admin, Reading!request
      <3>5. Remaining(kind, steps)'
        BY <1>3, <3>1, <3>3 DEF Remaining
      <3>6. CourseInv'
        <4>1. (kind \in Reading!Walks)' /\ (<<"read", record>> \in held)'
          BY <1>1, <1>3, <1>4, <3>3
        <4> QED
          BY <3>4, <3>5, <4>1 DEF CourseInv
      <3>7. stage' \in {"walk", "done"}
            /\ (shown' = shown \/ (shown' = shown \cup {record} /\ Reading!Entitled(record)))
        BY <1>1, <3>3
      <3> QED
        BY <1>1, <1>2, <3>6, <3>7, CourseStep
    <2> QED
      BY <2>2, <2>3
  <1> QED
    BY <1>5, <1>6, <1>7

\* ... and another one that of who may modify it.
LEMMA CurateStep == ASSUME ReadInv, Reading!Curate PROVE ReadInv'
  <1>1. stage = "walk" /\ kind \in Reading!Walks /\ Remaining(kind, steps) /\ Head(steps) = "curate"
    BY DEF Reading!Curate, Reading!At, ReadInv, CourseInv
  <1>2. UNCHANGED <<Reading!world, Reading!request, Reading!asking, Reading!effect, held>>
    BY DEF Reading!Curate
  <1>3. UNCHANGED Reading!request /\ kind' = kind /\ held' = held
    BY <1>2 DEF Reading!request
  <1>4. <<"read", record>> \in held
    BY <1>1, Following DEF ReadInv, CourseInv
  <1>5. CASE Reading!Admin \/ <<"modify", record>> \in may
    <2>1. Reading!Passed(left)
      BY <1>5 DEF Reading!Curate
    <2>2. Reading!Entitled(record)
      BY <1>1, <1>4, <1>5, Now DEF ReadInv, Reading!Entitled
    <2>3. Len(steps) # 1 => Remaining(kind, Tail(steps))
      BY <1>1, Following
    <2>4. CourseInv' /\ stage' \in {"walk", "done"}
          /\ (shown' = shown \/ (shown' = shown \cup {record} /\ Reading!Entitled(record)))
      BY <1>1, <1>3, <1>4, <2>1, <2>2, <2>3, Passes
    <2> QED
      BY <1>1, <1>2, <2>4, CourseStep
  <1>6. CASE ~(Reading!Admin \/ <<"modify", record>> \in may)
    <2>1. CourseInv' /\ stage' \in {"walk", "done"}
          /\ (shown' = shown \/ (shown' = shown \cup {record} /\ Reading!Entitled(record)))
      BY <1>1, <1>3, <1>6, Refuses DEF Reading!Curate
    <2> QED
      BY <1>1, <1>2, <2>1, CourseStep
  <1> QED
    BY <1>5, <1>6

\* The fetch comes where the path has it, and relatives are walked like the first item.
LEMMA FetchStep == ASSUME ReadInv, Reading!Fetch PROVE ReadInv'
  <1>1. stage = "walk" /\ kind \in Reading!Walks /\ Remaining(kind, steps) /\ Head(steps) = "fetch"
    BY DEF Reading!Fetch, Reading!At, ReadInv, CourseInv
  <1>2. UNCHANGED <<Reading!world, Reading!request, Reading!asking, Reading!effect, held>>
    BY DEF Reading!Fetch
  <1>3. UNCHANGED Reading!request /\ kind' = kind /\ held' = held
    BY <1>2 DEF Reading!request
  <1>4. CASE Reading!Refused
    <2>1. CourseInv' /\ stage' \in {"walk", "done"}
          /\ (shown' = shown \/ (shown' = shown \cup {record} /\ Reading!Entitled(record)))
      BY <1>1, <1>3, <1>4, Refuses
    <2> QED
      BY <1>1, <1>2, <2>1, CourseStep
  <1>5. CASE \E rest : Reading!Passed(rest)
    <2>1. PICK rest : Reading!Passed(rest)
      BY <1>5
    <2>2. Len(steps) = 1 => Reading!Entitled(record)
      BY <1>1, Following DEF ReadInv, CourseInv
    <2>3. Len(steps) # 1 => /\ Remaining(kind, Tail(steps))
                            /\ Tail(steps) \in Authorized => <<"read", record>> \in held
                            /\ Tail(steps) = <<"fetch">> => Reading!Entitled(record)
      <3>1. Len(<<"fetch">>) = 1
        OBVIOUS
      <3> QED
        BY <1>1, <3>1, Following DEF ReadInv, CourseInv
    <2>4. CourseInv' /\ stage' \in {"walk", "done"}
          /\ (shown' = shown \/ (shown' = shown \cup {record} /\ Reading!Entitled(record)))
      BY <1>1, <1>3, <2>1, <2>2, <2>3, Passes
    <2> QED
      BY <1>1, <1>2, <2>4, CourseStep
  <1> QED
    BY <1>4, <1>5 DEF Reading!Fetch

-----------------------------------------------------------------------------
(* The SPARQL endpoint.                                                    *)

\* A call before the last shows and writes nothing: what is left to prove of it is its scope,
\* its candidates and its targets.
LEMMA AskStep ==
  ASSUME ReadInv, stage \in {"start", "modifiable", "scope", "readable", "others", "curatable", "drafts"},
         stage' \notin {"start", "walk"}, kind \in {"sparql", "update"},
         UNCHANGED <<Reading!world, Reading!request, held, Reading!answer>>,
         stage' # "done" => \A r \in scope' : Reading!Entitled(r),
         stage' = "readable" /\ kind = "sparql" /\ ~Reading!Admin => \A r \in base' : <<"published", r>> \in held,
         stage' = "drafts" => \A r \in base' : <<"modify", r>> \in held,
         stage' \in {"others", "curatable", "drafts"} => kind = "sparql",
         stage' \in {"modifiable", "scope"} => kind = "update",
         kind = "update" /\ stage' \in {"scope", "readable", "run"} =>
           \A r \in asked : Reading!Admin \/ <<"modify", r>> \in held
  PROVE  ReadInv'
  <1>1. \A r : Reading!Entitled(r)' <=> Reading!Entitled(r)
    BY DEF Reading!Entitled, Reading!Admin, Reading!request
  <1>2. CourseInv'
    BY DEF CourseInv
  <1>3. shown = {} /\ written = {}
    BY DEF ReadInv, QueryInv
  <1>4. QueryInv'
    BY <1>1, <1>3 DEF QueryInv, Reading!request, Reading!answer, Reading!effect, Reading!Admin
  <1>5. UpdateInv'
    BY DEF ReadInv, UpdateInv, Reading!world, Reading!request, Reading!Admin
  <1>6. Reading!ReadsEntitled'
    BY <1>3
       DEF Reading!ReadsEntitled, Reading!AnswersEntitled, Reading!UpdatesEntitled, Reading!answer, Reading!effect
  <1>7. Remembers'
    BY DEF ReadInv, Remembers, Reading!world, Reading!Facts
  <1> QED
    BY <1>2, <1>4, <1>5, <1>6, <1>7 DEF ReadInv

\* The calls that gather targets, candidates and scope.
LEMMA Gathers ==
  ASSUME ReadInv, \/ Reading!StartUpdate \/ Reading!CheckTargets \/ Reading!UpdateScope
                  \/ Reading!StartQuery \/ Reading!Readable \/ Reading!Others
                  \/ Reading!Curatable \/ Reading!Drafts
  PROVE  ReadInv'
  <1> DEFINE modify(rs) == \A r \in rs : <<"modify", r>> \in held
  <1>1. Reading!Permitted("modify", base) \subseteq base /\ modify(Reading!Permitted("modify", base))
    <2>1. CASE stage # "done"
      BY <2>1, Now DEF Reading!Permitted, ReadInv
    <2>2. CASE stage = "done"
      BY <2>2
         DEF Reading!Ask, Reading!StartUpdate, Reading!CheckTargets, Reading!UpdateScope,
             Reading!StartQuery, Reading!Readable, Reading!Others, Reading!Curatable,
             Reading!Drafts
    <2> QED
      BY <2>1, <2>2
  <1>2. stage # "done" => \A r \in Reading!Permitted("read", base) : r \in base /\ <<"read", r>> \in held
    BY Now DEF Reading!Permitted, ReadInv
  <1>3. stage # "done" => \A r \in Reading!Published : <<"published", r>> \in held
    BY Now DEF ReadInv
  <1>4. CASE Reading!StartUpdate
    <2>1. /\ stage = "start" /\ kind = "update" /\ stage' \in {"modifiable", "done"} /\ scope' = {}
          /\ UNCHANGED <<Reading!world, Reading!request, held, Reading!answer>>
      BY <1>4
         DEF Reading!StartUpdate, Reading!Ask, Reading!Go, Reading!Keep, ReadInv, QueryInv,
             Reading!asking
    <2> QED
      BY <2>1, AskStep
  <1>5. CASE Reading!CheckTargets
    <2>1. /\ stage = "modifiable" /\ stage' \in {"scope", "done"} /\ scope' = scope
          /\ UNCHANGED <<Reading!world, Reading!request, held, Reading!answer>>
          /\ stage' = "scope" => asked \subseteq (IF Reading!Admin THEN base ELSE Reading!Permitted("modify", base))
      BY <1>5 DEF Reading!CheckTargets, Reading!Ask, Reading!Go, Reading!Keep, Reading!asking
    <2>2. kind = "update" /\ \A r \in scope : Reading!Entitled(r)
      BY <2>1 DEF ReadInv, QueryInv
    <2>3. stage' = "scope" => \A r \in asked : Reading!Admin \/ <<"modify", r>> \in held
      BY <1>1, <2>1
    <2> QED
      BY <2>1, <2>2, <2>3, AskStep
  <1>6. CASE Reading!UpdateScope
    <2>1. /\ stage = "scope" /\ stage' = "readable" /\ scope' = scope
          /\ UNCHANGED <<Reading!world, Reading!request, held, Reading!answer>>
      BY <1>6 DEF Reading!UpdateScope, Reading!Ask, Reading!Go, Reading!Keep
    <2>2. kind = "update" /\ \A r \in scope : Reading!Entitled(r)
      BY <2>1 DEF ReadInv, QueryInv
    <2> QED
      BY <2>1, <2>2, AskStep DEF ReadInv, UpdateInv
  <1>7. CASE Reading!StartQuery
    <2>1. /\ stage = "start" /\ kind = "sparql" /\ stage' = "readable" /\ scope' = {}
          /\ ~Reading!Admin => base' = Reading!Published
          /\ UNCHANGED <<Reading!world, Reading!request, held, Reading!answer>>
      BY <1>7 DEF Reading!StartQuery, Reading!Ask, Reading!Go, Reading!Keep, ReadInv, QueryInv
    <2> QED
      BY <1>3, <2>1, AskStep
  <1>8. CASE Reading!Readable
    <2>1. /\ stage = "readable" /\ stage' = (IF kind = "update" \/ who # "member" THEN "run" ELSE "others")
          /\ scope' = scope \cup (IF Reading!Admin THEN base ELSE Reading!Permitted("read", base))
          /\ UNCHANGED <<Reading!world, Reading!request, held, Reading!answer>>
      BY <1>8 DEF Reading!Readable, Reading!Ask, Reading!Go, Reading!Keep
    <2>2. kind \in {"sparql", "update"} /\ \A r \in scope : Reading!Entitled(r)
      BY <2>1 DEF ReadInv, QueryInv
    <2>3. \A r \in Reading!Permitted("read", base) : Reading!Admin \/ Reading!Entitled(r)
      BY <1>2, <2>1, <2>2 DEF ReadInv, QueryInv, Reading!Entitled
    <2>4. Reading!Admin => \A r \in scope' : Reading!Entitled(r)
      BY <2>2 DEF Reading!Entitled
    <2>5. \A r \in scope' : Reading!Entitled(r)
      BY <2>1, <2>2, <2>3, <2>4
    <2> QED
      BY <2>1, <2>2, <2>5, AskStep DEF ReadInv, UpdateInv
  <1>9. CASE Reading!Others
    <2>1. /\ stage = "others" /\ stage' = "curatable" /\ scope' = scope
          /\ UNCHANGED <<Reading!world, Reading!request, held, Reading!answer>>
      BY <1>9 DEF Reading!Others, Reading!Ask, Reading!Go, Reading!Keep
    <2> QED
      BY <2>1, AskStep DEF ReadInv, QueryInv
  <1>10. CASE Reading!Curatable
    <2>1. /\ stage = "curatable" /\ stage' = "drafts" /\ scope' = scope
          /\ base' = Reading!Permitted("modify", base)
          /\ UNCHANGED <<Reading!world, Reading!request, held, Reading!answer>>
      BY <1>10 DEF Reading!Curatable, Reading!Ask, Reading!Go, Reading!Keep
    <2> QED
      BY <1>1, <2>1, AskStep DEF ReadInv, QueryInv
  <1>11. CASE Reading!Drafts
    <2>1. /\ stage = "drafts" /\ stage' = "run" /\ scope' = scope \cup Reading!Permitted("read", base)
          /\ UNCHANGED <<Reading!world, Reading!request, held, Reading!answer>>
      BY <1>11 DEF Reading!Drafts, Reading!Ask, Reading!Go, Reading!Keep
    <2>2. kind = "sparql" /\ (\A r \in scope : Reading!Entitled(r)) /\ \A r \in base : <<"modify", r>> \in held
      BY <2>1 DEF ReadInv, QueryInv
    <2>3. \A r \in Reading!Permitted("read", base) : Reading!Entitled(r)
      BY <1>2, <2>1, <2>2 DEF Reading!Entitled
    <2> QED
      BY <2>1, <2>2, <2>3, AskStep
  <1> QED
    BY <1>4, <1>5, <1>6, <1>7, <1>8, <1>9, <1>10, <1>11

\* What is run is shown from the scope, unless its dataset is none or not the one it was sent;
\* and changes what its caller may modify, unless it names more than its targets.
LEMMA Runs == ASSUME ReadInv, Reading!Run PROVE ReadInv'
  <1>1. /\ stage = "run" /\ stage' = "done" /\ UNCHANGED <<Reading!world, Reading!request, held>>
        /\ kind \in {"sparql", "update"} /\ shown = {} /\ written = {}
        /\ \A r \in scope : Reading!Entitled(r)
    BY DEF Reading!Run, Reading!Ask, Reading!Go, ReadInv, QueryInv
  <1>2. \A r : Reading!Entitled(r)' <=> Reading!Entitled(r)
    BY <1>1 DEF Reading!Entitled, Reading!Admin, Reading!request
  <1>3. CASE UNCHANGED Reading!answer
    BY <1>1, <1>3
       DEF ReadInv, Remembers, CourseInv, QueryInv, UpdateInv, Reading!ReadsEntitled,
           Reading!AnswersEntitled, Reading!UpdatesEntitled, Reading!answer, Reading!effect, Reading!world,
           Reading!request
  <1>4. CASE ~UNCHANGED Reading!answer
    <2>1. PICK c \in Reading!Clauses :
            /\ Reading!Allowed /\ Reading!Safe(c) /\ clause' = c
            /\ shown' = Reading!Answer(c) /\ written' = Reading!Changes(c)
            /\ unscoped' = (Reading!Projection = {} \/ (kind = "update" /\ ~Reading!Confined(c)))
      BY <1>4 DEF Reading!Run, Reading!Keep
    <2>2. Reading!Projection \subseteq scope
      BY <2>1 DEF Reading!Projection, Reading!Allowed
    <2>3. unscoped' \/ Reading!Confined(c)
      BY <1>1, <2>1 DEF Reading!Clauses, Reading!Own, Reading!Safe, Reading!Confined
    <2>4. unscoped' \/ shown' \subseteq Reading!Projection
      BY <2>1, <2>3 DEF Reading!Answer
    <2>5. Reading!AnswersEntitled'
      BY <1>1, <1>2, <2>2, <2>4 DEF Reading!AnswersEntitled
    <2>6. \A r \in written' : (clause' = "with" => r \in asked) => kind = "update" /\ r \in asked
      BY <2>1 DEF Reading!Changes
    <2>7. Reading!UpdatesEntitled'
      BY <1>1, <2>6
         DEF ReadInv, UpdateInv, Reading!UpdatesEntitled, Reading!Admin, Reading!request
    <2> QED
      BY <1>1, <2>5, <2>7
         DEF ReadInv, Remembers, CourseInv, QueryInv, UpdateInv, Reading!ReadsEntitled,
             Reading!world, Reading!request
  <1> QED
    BY <1>3, <1>4

\* A request at rest holds nothing.
LEMMA ReadAtRest == NoRequest => ReadInv
  BY DEF NoRequest, ReadInv, Remembers, CourseInv, QueryInv, UpdateInv, Reading!ReadsEntitled,
         Reading!AnswersEntitled, Reading!UpdatesEntitled

\* No change of the world and no call of the request shows what its caller may not see.
LEMMA ReadInductive ==
  ASSUME ReadInv,
         \/ \E r, to : Reading!Moves(r, to)
         \/ \E a, r : Reading!Grants(a, r) \/ Reading!Revokes(a, r)
         \/ Reading!Step \/ UNCHANGED reading
  PROVE  ReadInv'
  <1>1. CASE \/ \E r, to : Reading!Moves(r, to)
             \/ \E a, r : Reading!Grants(a, r) \/ Reading!Revokes(a, r)
    BY <1>1, Edited DEF Reading!Moves, Reading!Grants, Reading!Revokes
  <1>2. CASE Reading!Step
    BY <1>2, Started, AuthorizeStep, AskPublishedStep, CurateStep, FetchStep, Gathers, Runs
       DEF Reading!Step
  <1>3. CASE UNCHANGED reading
    BY <1>3 DEF reading, ReadInv, Remembers, CourseInv, QueryInv, UpdateInv,
                Reading!ReadsEntitled, Reading!AnswersEntitled, Reading!UpdatesEntitled,
                Reading!Entitled, Reading!Admin, Reading!Facts
  <1> QED
    BY <1>1, <1>2, <1>3

-----------------------------------------------------------------------------
(* The copies of a setting.                                                *)

\* What rows, copies and calls look like.
SettingTypes ==
  /\ row \in Values \cup {Nil, Drifted} /\ ago \in [Values -> 0 .. CopyTTL]
  /\ copy \in [Servers -> [value : Values, age : 0 .. CopyTTL] \cup {Nil}]
  /\ fetching \in [Readers -> [pc : {"idle", "fetch", "store"}, age : 0 .. CopyTTL, value : Values \cup {Nil}]]
  /\ \A r \in Readers : fetching[r].pc = "idle" => fetching[r] = Settings!Idle

\* What is in force is so now; what a copy holds, or a call has fetched, was in force when it
\* was taken.
SettingAges ==
  /\ ago[Settings!Effective] = 0
  /\ \A s \in Servers : copy[s] # Nil => ago[copy[s].value] <= copy[s].age
  /\ \A r \in Readers : fetching[r].pc = "store" =>
       fetching[r].value \in Values /\ ago[fetching[r].value] <= fetching[r].age

\* Where no write is missed, what is kept and what was fetched is what is in force.
SettingKnown ==
  \A s \in Servers \ behind :
    /\ copy[s] # Nil => copy[s].value = Settings!Effective
    /\ \A r \in Readers : Home[r] = s /\ fetching[r].pc = "store" =>
         fetching[r].value = Settings!Effective

SettingInv == SettingTypes /\ SettingAges /\ SettingKnown

\* What is assumed of the constants of the settings.
LEMMA SettingConstants ==
  /\ Home \in [Readers -> Servers] /\ Default \in Values /\ Nil \notin Values /\ Drifted \notin Values
  /\ CopyTTL \in Nat /\ CopyTTL > 0
  BY AccessAssumption DEF Settings!SettingsAssumption

\* An age grows up to the lifetime of a copy, and of two the older stays the older.
LEMMA Ageing ==
  ASSUME NEW m \in 0 .. CopyTTL, NEW n \in 0 .. CopyTTL, m <= n
  PROVE  /\ Settings!Older(m) \in 0 .. CopyTTL /\ Settings!Older(n) \in 0 .. CopyTTL
         /\ Settings!Older(m) <= Settings!Older(n) /\ 0 <= Settings!Older(n)
  BY SettingConstants DEF Settings!Older

\* Before anything is read, no copy is older than what is in force.
LEMMA SettingInitially == Settings!Init => SettingInv
  <1> SUFFICES ASSUME Settings!Init PROVE SettingInv
    OBVIOUS
  <1>1. Settings!Effective = Default
    BY SettingConstants DEF Settings!Init, Settings!Effective
  <1>2. SettingTypes
    BY SettingConstants DEF Settings!Init, SettingTypes, Settings!Idle
  <1>3. SettingAges /\ SettingKnown
    BY <1>1, SettingConstants DEF Settings!Init, SettingAges, SettingKnown, Settings!Idle
  <1> QED
    BY <1>2, <1>3 DEF SettingInv

\* A call of a cached reader begins, fetches, fails or stores.
LEMMA SettingCall ==
  ASSUME SettingInv, NEW r \in Readers,
         Settings!Begin(r) \/ Settings!Fetch(r) \/ Settings!FetchRaises(r) \/ Settings!Store(r)
  PROVE  SettingInv'
  <1>1. SettingTypes /\ SettingAges /\ SettingKnown
    BY DEF SettingInv
  <1>2. UNCHANGED <<row, ago, behind>> /\ (Settings!Effective)' = Settings!Effective
    BY DEF Settings!Begin, Settings!Fetch, Settings!FetchRaises, Settings!Store,
           Settings!Effective
  <1>3. Settings!Effective \in Values /\ Home[r] \in Servers
    BY SettingConstants DEF Settings!Effective
  <1>4. CASE Settings!Begin(r)
    <2>1. /\ fetching' = [fetching EXCEPT ![r] = [fetching[r] EXCEPT !.pc = "fetch"]] /\ copy' = copy
      BY <1>4 DEF Settings!Begin
    <2>2. SettingTypes'
      BY <1>1, <1>2, <2>1 DEF SettingTypes
    <2>3. SettingAges' /\ SettingKnown'
      BY <1>1, <1>2, <2>1 DEF SettingTypes, SettingAges, SettingKnown
    <2> QED
      BY <2>2, <2>3 DEF SettingInv
  <1>5. CASE Settings!Fetch(r)
    <2>1. /\ fetching' = [fetching EXCEPT ![r] = [fetching[r] EXCEPT !.pc = "store", !.value = Settings!Effective]]
          /\ copy' = copy
      BY <1>5 DEF Settings!Fetch
    <2>2. SettingTypes'
      BY <1>1, <1>2, <1>3, <2>1 DEF SettingTypes
    <2>3. SettingAges' /\ SettingKnown'
      BY <1>1, <1>2, <1>3, <2>1 DEF SettingTypes, SettingAges, SettingKnown
    <2> QED
      BY <2>2, <2>3 DEF SettingInv
  <1>6. CASE Settings!FetchRaises(r)
    <2>1. fetching' = [fetching EXCEPT ![r] = Settings!Idle] /\ copy' = copy
      BY <1>6 DEF Settings!FetchRaises
    <2>2. SettingTypes'
      BY <1>1, <1>2, <2>1, SettingConstants DEF SettingTypes, Settings!Idle
    <2>3. SettingAges' /\ SettingKnown'
      BY <1>1, <1>2, <2>1 DEF SettingTypes, SettingAges, SettingKnown, Settings!Idle
    <2> QED
      BY <2>2, <2>3 DEF SettingInv
  <1>7. CASE Settings!Store(r)
    <2>1. /\ fetching[r].pc = "store" /\ fetching' = [fetching EXCEPT ![r] = Settings!Idle]
          /\ copy' = [copy EXCEPT ![Home[r]] = [value |-> fetching[r].value, age |-> fetching[r].age]]
      BY <1>7 DEF Settings!Store
    <2>2. SettingTypes'
      BY <1>1, <1>2, <1>3, <2>1, SettingConstants DEF SettingTypes, SettingAges, Settings!Idle
    <2>3. SettingAges' /\ SettingKnown'
      BY <1>1, <1>2, <1>3, <2>1 DEF SettingTypes, SettingAges, SettingKnown, Settings!Idle
    <2> QED
      BY <2>2, <2>3 DEF SettingInv
  <1> QED
    BY <1>4, <1>5, <1>6, <1>7

\* A write commits; every copy may be behind it.
LEMMA SettingCommit ==
  ASSUME SettingInv, NEW s \in Servers, NEW to \in Values \cup {Nil}, Settings!Commit(s, to)
  PROVE  SettingInv'
  <1>1. SettingTypes /\ SettingAges
    BY DEF SettingInv
  <1> DEFINE now == IF to \in Values THEN to ELSE Default
  <1>2. now \in Values /\ row' = to /\ ago' = [ago EXCEPT ![now] = 0] /\ behind' = Servers
        /\ UNCHANGED <<copy, fetching>>
    BY SettingConstants DEF Settings!Commit
  <1>3. (Settings!Effective)' = now
    BY <1>2 DEF Settings!Effective
  <1>4. SettingTypes'
    BY <1>1, <1>2, SettingConstants DEF SettingTypes
  <1> HIDE DEF now
  <1>5. \A v \in Values : ago'[v] = ago[v] \/ ago'[v] = 0
    BY <1>1, <1>2 DEF SettingTypes
  <1>6. SettingAges'
    <2>1. \A t \in Servers : (copy[t] # Nil => ago[copy[t].value] <= copy[t].age)'
      BY <1>1, <1>2, <1>5 DEF SettingTypes, SettingAges
    <2>2. \A r \in Readers : (fetching[r].pc = "store" =>
            fetching[r].value \in Values /\ ago[fetching[r].value] <= fetching[r].age)'
      BY <1>1, <1>2, <1>5 DEF SettingTypes, SettingAges
    <2>3. ago'[(Settings!Effective)'] = 0
      BY <1>1, <1>2, <1>3 DEF SettingTypes
    <2> QED
      BY <2>1, <2>2, <2>3 DEF SettingAges
  <1>7. SettingKnown'
    BY <1>2 DEF SettingKnown
  <1> QED
    BY <1>4, <1>6, <1>7 DEF SettingInv

\* The reader of a server is told; a call that has fetched may still store what it has.
LEMMA SettingNotify ==
  ASSUME SettingInv, NEW s \in Servers, Settings!Notify(s)
  PROVE  SettingInv'
  <1>1. SettingTypes /\ SettingAges /\ SettingKnown
    BY DEF SettingInv
  <1>2. copy' = [copy EXCEPT ![s] = Nil] /\ UNCHANGED <<row, ago, fetching>>
        /\ (Settings!Effective)' = Settings!Effective
    BY DEF Settings!Notify, Settings!Effective
  <1>3. SettingTypes'
    BY <1>1, <1>2 DEF SettingTypes
  <1>4. SettingAges'
    BY <1>1, <1>2 DEF SettingTypes, SettingAges
  <1>5. SettingKnown'
    <2>1. CASE \E r \in Readers : Home[r] = s /\ fetching[r].pc = "store"
      BY <1>1, <1>2, <2>1 DEF SettingTypes, SettingKnown, Settings!Notify
    <2>2. CASE ~(\E r \in Readers : Home[r] = s /\ fetching[r].pc = "store")
      BY <1>1, <1>2, <2>2 DEF SettingTypes, SettingKnown, Settings!Notify
    <2> QED
      BY <2>1, <2>2
  <1> QED
    BY <1>3, <1>4, <1>5 DEF SettingInv

\* Time passes for every value and every copy alike.
LEMMA SettingTick ==
  ASSUME SettingInv, Settings!Tick
  PROVE  SettingInv'
  <1>1. SettingTypes /\ SettingAges /\ SettingKnown
    BY DEF SettingInv
  <1>2. UNCHANGED <<row, behind>> /\ (Settings!Effective)' = Settings!Effective
    BY DEF Settings!Tick, Settings!Effective
  <1>3. Settings!Effective \in Values
    BY SettingConstants DEF Settings!Effective
  <1>4. \A v \in Values : /\ ago[v] \in 0 .. CopyTTL
                          /\ ago'[v] = IF v = Settings!Effective THEN 0 ELSE Settings!Older(ago[v])
    BY <1>1 DEF Settings!Tick, SettingTypes
  <1>5. \A s \in Servers :
          /\ copy[s] = Nil => copy'[s] = Nil
          /\ copy[s] # Nil => /\ copy[s] \in [value : Values, age : 0 .. CopyTTL]
                              /\ copy'[s] = [copy[s] EXCEPT !.age = Settings!Older(copy[s].age)]
    BY <1>1 DEF Settings!Tick, SettingTypes
  <1>6. \A r \in Readers :
          /\ fetching[r] \in [pc : {"idle", "fetch", "store"}, age : 0 .. CopyTTL, value : Values \cup {Nil}]
          /\ fetching'[r] = IF fetching[r] = Settings!Idle THEN Settings!Idle
                            ELSE [fetching[r] EXCEPT !.age = Settings!Older(fetching[r].age)]
    BY <1>1 DEF Settings!Tick, SettingTypes
  <1>7. \A m \in 0 .. CopyTTL : Settings!Older(m) \in 0 .. CopyTTL /\ 0 <= Settings!Older(m) /\ m <= m
    <2> TAKE m \in 0 .. CopyTTL
    <2>1. m <= m
      BY SettingConstants
    <2> QED
      BY <2>1, Ageing
  <1>8. 0 \in 0 .. CopyTTL
    BY SettingConstants
  <1>9. SettingTypes'
    <2>1. ago' \in [Values -> 0 .. CopyTTL]
      <3>1. DOMAIN ago' = Values /\ ago' = [v \in Values |-> ago'[v]]
        BY DEF Settings!Tick
      <3> QED
        BY <1>4, <1>7, <1>8, <3>1
    <2>2. copy' \in [Servers -> [value : Values, age : 0 .. CopyTTL] \cup {Nil}]
      <3>1. copy' = [s \in Servers |-> copy'[s]]
        BY DEF Settings!Tick
      <3>2. ASSUME NEW s \in Servers PROVE copy'[s] \in [value : Values, age : 0 .. CopyTTL] \cup {Nil}
        <4>1. CASE copy[s] = Nil
          BY <1>5, <4>1
        <4>2. CASE copy[s] # Nil
          <5>1. Settings!Older(copy[s].age) \in 0 .. CopyTTL
            BY <1>5, <1>7, <4>2
          <5> QED
            BY <1>5, <4>2, <5>1
        <4> QED
          BY <4>1, <4>2
      <3> QED
        BY <3>1, <3>2
    <2>3. /\ fetching' = [r \in Readers |-> fetching'[r]]
          /\ \A r \in Readers :
               /\ fetching'[r] \in [pc : {"idle", "fetch", "store"}, age : 0 .. CopyTTL, value : Values \cup {Nil}]
               /\ fetching'[r].pc = "idle" => fetching'[r] = Settings!Idle
      <3>1. fetching' = [r \in Readers |-> fetching'[r]]
        BY DEF Settings!Tick
      <3>2. ASSUME NEW r \in Readers
            PROVE  /\ fetching'[r] \in [pc : {"idle", "fetch", "store"}, age : 0 .. CopyTTL, value : Values \cup {Nil}]
                   /\ fetching'[r].pc = "idle" => fetching'[r] = Settings!Idle
        <4>1. CASE fetching[r] = Settings!Idle
          BY <1>6, <4>1
        <4>2. CASE fetching[r] # Settings!Idle
          <5>1. Settings!Older(fetching[r].age) \in 0 .. CopyTTL
            BY <1>6, <1>7
          <5>2. fetching'[r] = [fetching[r] EXCEPT !.age = Settings!Older(fetching[r].age)]
            BY <1>6, <4>2
          <5>3. fetching[r].pc # "idle"
            BY <1>1, <4>2 DEF SettingTypes
          <5> QED
            BY <1>6, <5>1, <5>2, <5>3
        <4> QED
          BY <4>1, <4>2
      <3> QED
        BY <3>1, <3>2
    <2> QED
      BY <1>1, <1>2, <2>1, <2>2, <2>3 DEF SettingTypes
  <1>10. SettingAges'
    <2>1. ASSUME NEW s \in Servers, copy'[s] # Nil
          PROVE  ago'[copy'[s].value] <= copy'[s].age
      <3>1. copy[s] # Nil /\ copy[s] \in [value : Values, age : 0 .. CopyTTL]
            /\ copy'[s] = [copy[s] EXCEPT !.age = Settings!Older(copy[s].age)]
        BY <1>5, <2>1
      <3>2. copy[s].value \in Values /\ copy[s].age \in 0 .. CopyTTL /\ ago[copy[s].value] <= copy[s].age
        BY <1>1, <3>1 DEF SettingAges
      <3>3. copy'[s].value = copy[s].value /\ copy'[s].age = Settings!Older(copy[s].age)
        BY <3>1
      <3>4. Settings!Older(ago[copy[s].value]) <= Settings!Older(copy[s].age) /\ 0 <= Settings!Older(copy[s].age)
        BY <1>4, <3>2, Ageing
      <3> QED
        BY <1>4, <3>2, <3>3, <3>4
    <2>2. ASSUME NEW r \in Readers, fetching'[r].pc = "store"
          PROVE  fetching'[r].value \in Values /\ ago'[fetching'[r].value] <= fetching'[r].age
      <3>1. fetching[r].pc = "store" /\ fetching'[r].value = fetching[r].value
            /\ fetching'[r].age = Settings!Older(fetching[r].age) /\ fetching[r].age \in 0 .. CopyTTL
        <4>1. fetching[r] # Settings!Idle
          <5>1. Settings!Idle.pc # "store"
            BY DEF Settings!Idle
          <5> QED
            BY <1>6, <2>2, <5>1
        <4>2. fetching'[r] = [fetching[r] EXCEPT !.age = Settings!Older(fetching[r].age)]
          BY <1>6, <4>1
        <4> QED
          BY <1>6, <2>2, <4>2
      <3>2. fetching[r].value \in Values /\ ago[fetching[r].value] <= fetching[r].age
        BY <1>1, <3>1 DEF SettingAges
      <3>3. /\ Settings!Older(ago[fetching[r].value]) <= Settings!Older(fetching[r].age)
            /\ 0 <= Settings!Older(fetching[r].age)
        BY <1>4, <3>1, <3>2, Ageing
      <3> QED
        BY <1>4, <3>1, <3>2, <3>3
    <2> QED
      BY <1>2, <1>3, <1>4, <2>1, <2>2 DEF SettingAges
  <1>11. SettingKnown'
    <2>1. ASSUME NEW s \in Servers, copy'[s] # Nil PROVE copy[s] # Nil /\ copy'[s].value = copy[s].value
      BY <1>5, <2>1
    <2>2. ASSUME NEW r \in Readers, fetching'[r].pc = "store"
          PROVE  fetching[r].pc = "store" /\ fetching'[r].value = fetching[r].value
      BY <1>6, <2>2 DEF Settings!Idle
    <2> QED
      BY <1>1, <1>2, <2>1, <2>2 DEF SettingKnown
  <1> QED
    BY <1>9, <1>10, <1>11 DEF SettingInv

\* No step of the settings makes a copy older than it looks.
LEMMA SettingInductive ==
  ASSUME SettingInv, Settings!Next \/ UNCHANGED setting
  PROVE  SettingInv'
  <1>1. CASE \E r \in Readers : \/ Settings!Begin(r) \/ Settings!Fetch(r) \/ Settings!FetchRaises(r)
                                \/ Settings!Store(r)
    BY <1>1, SettingCall
  <1>2. CASE \E s \in Servers : \/ \E v \in Values : Settings!Write(s, v)
                                \/ Settings!Delete(s) \/ Settings!ClearAll(s)
    BY <1>2, SettingCommit DEF Settings!Write, Settings!Delete, Settings!ClearAll
  <1>3. CASE \E s \in Servers : Settings!Notify(s)
    BY <1>3, SettingNotify
  <1>4. CASE Settings!Tick
    BY <1>4, SettingTick
  <1>5. CASE UNCHANGED setting
    BY <1>5 DEF setting, SettingInv, SettingTypes, SettingAges, SettingKnown, Settings!Effective
  <1> QED
    BY <1>1, <1>2, <1>3, <1>4, <1>5 DEF Settings!Next

\* What the invariant gives a caller.
LEMMA SettingGives == SettingInv => Settings!SettingsCurrent
  BY DEF SettingInv, SettingAges, SettingKnown, Settings!SettingsCurrent, Settings!CopiesRecent,
         Settings!OwnWritesSeen, Settings!Usable

-----------------------------------------------------------------------------
(* The copy of the signing keys.                                           *)

KeyCopies == [keys : SUBSET Kids, age : Nat, lag : Nat]

KeyTypes ==
  /\ published \subseteq Kids /\ gone \in [Kids -> Nat]
  /\ cached \in KeyCopies \cup {Nil}
  /\ call \in [Calls -> [pc : {"idle", "wait", "fetch", "again", "store", "last", "end"},
                         kid : Kids \cup {Nil}, got : SUBSET Kids, lag : Nat, valid : BOOLEAN]]

\* A call past the lock holds it.
KeyLock ==
  \A c \in Calls : call[c].pc \in {"fetch", "again", "store", "last", "end"} => lock = c

\* How long ago a key was published that the copy has, or a response.
KeyAges ==
  /\ \A k \in published : gone[k] = 0
  /\ \A c \in Calls : call[c].pc \in {"store", "last"} => \A k \in call[c].got : gone[k] <= call[c].lag
  /\ Keys_!Fresh => \A k \in cached.keys : gone[k] <= cached.age + cached.lag

\* The key of a call, if it was published all along, is in what the call fetched, and in the
\* copy at the end.
KeyServed ==
  /\ ~refused
  /\ \A c \in Calls : call[c].valid =>
       /\ call[c].pc # "idle" => call[c].kid \in published
       /\ call[c].pc \in {"store", "last"} => call[c].kid \in call[c].got
       /\ call[c].pc = "end" => cached \in KeyCopies /\ call[c].kid \in cached.keys

KeyInv == KeyTypes /\ KeyLock /\ KeyAges /\ KeyServed

LEMMA KeyConstants == KeyTTL \in Nat /\ KeyTTL > 0 /\ MaxLag \in Nat /\ Nil \notin Calls
  BY AccessAssumption DEF Keys_!KeysAssumption

\* At the start the provider has one key and nobody has it.
LEMMA KeyInitially == Keys_!Init => KeyInv
  <1> SUFFICES ASSUME Keys_!Init PROVE KeyInv
    OBVIOUS
  <1>1. KeyTypes
    BY KeyConstants DEF Keys_!Init, KeyTypes, Keys_!Oldest, Keys_!Idle
  <1>2. KeyLock /\ KeyAges /\ KeyServed
    BY DEF Keys_!Init, KeyLock, KeyAges, KeyServed, Keys_!Idle, Keys_!Fresh
  <1> QED
    BY <1>1, <1>2 DEF KeyInv

\* A call begins, or takes the lock and looks again.
LEMMA KeyLooks ==
  ASSUME KeyInv, NEW c \in Calls, Keys_!Begin(c) \/ Keys_!Locked(c)
  PROVE  KeyInv'
  <1>1. KeyTypes /\ KeyLock /\ KeyAges /\ KeyServed
    BY DEF KeyInv
  <1>2. UNCHANGED <<published, gone, cached, refused>> /\ (Keys_!Fresh <=> (Keys_!Fresh)')
    BY DEF Keys_!Begin, Keys_!Locked, Keys_!Fresh
  <1>3. CASE Keys_!Begin(c)
    <2>1. PICK k \in Kids :
            call' = [call EXCEPT ![c] = [Keys_!Idle EXCEPT !.pc = "wait", !.kid = k,
                                                           !.valid = k \in published]]
      BY <1>3, Zenon DEF Keys_!Begin
    <2>2. call[c].pc = "idle" /\ lock' = lock
      <3>1. call[c].pc = "idle" /\ UNCHANGED <<published, gone, cached, lock, rotations, refused>>
        BY <1>3, Zenon DEF Keys_!Begin
      <3> QED
        BY <3>1
    <2>3. PICK ok \in BOOLEAN : ok = (k \in published)
      <3>1. (k \in published) \in BOOLEAN
        OBVIOUS
      <3> WITNESS (k \in published) \in BOOLEAN
      <3> QED
        OBVIOUS
    <2>4. /\ call' = [call EXCEPT ![c] = [Keys_!Idle EXCEPT !.pc = "wait", !.kid = k, !.valid = ok]]
          /\ Keys_!Idle \in [pc : {"idle", "wait", "fetch", "again", "store", "last", "end"},
                             kid : Kids \cup {Nil}, got : SUBSET Kids, lag : Nat, valid : BOOLEAN]
      <3>1. call' = [call EXCEPT ![c] = [Keys_!Idle EXCEPT !.pc = "wait", !.kid = k, !.valid = ok]]
        BY <2>1, <2>3, Zenon
      <3> QED
        BY <3>1 DEF Keys_!Idle
    <2>5. KeyTypes'
      BY <1>1, <1>2, <2>4 DEF KeyTypes
    <2>6. KeyLock' /\ KeyAges'
      BY <1>1, <1>2, <2>2, <2>4 DEF KeyTypes, KeyLock, KeyAges
    <2>7. KeyServed'
      BY <1>1, <1>2, <2>3, <2>4 DEF KeyTypes, KeyServed
    <2> QED
      BY <2>5, <2>6, <2>7 DEF KeyInv
  <1>4. CASE Keys_!Locked(c)
    <2>1. PICK to \in {"fetch", "end", "again"} :
            /\ call' = [call EXCEPT ![c] = [call[c] EXCEPT !.pc = to]]
            /\ to = "end" => Keys_!Fresh /\ call[c].kid \in cached.keys
      BY <1>4 DEF Keys_!Locked, Keys_!Goto
    <2>2. call[c].pc = "wait" /\ lock = Nil /\ lock' = c
      BY <1>4 DEF Keys_!Locked
    <2>3. \A d \in Calls : call[d].pc \notin {"fetch", "again", "store", "last", "end"}
      BY <1>1, <2>2, KeyConstants DEF KeyLock
    <2>4. KeyTypes'
      BY <1>1, <1>2, <2>1 DEF KeyTypes
    <2>5. KeyLock' /\ KeyAges'
      BY <1>1, <1>2, <2>1, <2>2, <2>3 DEF KeyTypes, KeyLock, KeyAges
    <2>6. to = "end" => cached \in KeyCopies
      BY <1>1, <2>1 DEF KeyTypes, Keys_!Fresh
    <2>7. KeyServed'
      BY <1>1, <1>2, <2>1, <2>2, <2>6 DEF KeyTypes, KeyServed
    <2> QED
      BY <2>4, <2>5, <2>7 DEF KeyInv
  <1> QED
    BY <1>3, <1>4

\* The provider answers a call, or fails it.
LEMMA KeyFetched ==
  ASSUME KeyInv, NEW c \in Calls, Keys_!Answers(c) \/ Keys_!Fails(c)
  PROVE  KeyInv'
  <1>1. KeyTypes /\ KeyLock /\ KeyAges /\ KeyServed
    BY DEF KeyInv
  <1>2. UNCHANGED <<published, gone, cached, refused>> /\ (Keys_!Fresh <=> (Keys_!Fresh)')
        /\ call[c].pc \in {"fetch", "again"}
    BY DEF Keys_!Answers, Keys_!Fails, Keys_!Fresh
  <1>3. lock = c /\ \A d \in Calls \ {c} : call[d].pc \notin {"fetch", "again", "store", "last", "end"}
    BY <1>1, <1>2 DEF KeyLock
  <1>4. CASE Keys_!Answers(c)
    <2>1. PICK to \in {"store", "last"} :
            call' = [call EXCEPT ![c] = [call[c] EXCEPT !.pc = to, !.got = published, !.lag = 0]]
      <3>1. call' = [call EXCEPT ![c] = [call[c] EXCEPT !.pc = IF call[c].pc = "fetch" THEN "store" ELSE "last",
                                                        !.got = published, !.lag = 0]]
        BY <1>1, <1>4 DEF Keys_!Answers, KeyTypes
      <3> QED
        BY <3>1
    <2>2. lock' = lock
      BY <1>4 DEF Keys_!Answers
    <2>3. KeyTypes'
      BY <1>1, <1>2, <2>1 DEF KeyTypes
    <2>4. KeyLock'
      BY <1>1, <1>3, <2>1, <2>2 DEF KeyTypes, KeyLock
    <2>5. KeyAges'
      BY <1>1, <1>2, <2>1 DEF KeyTypes, KeyAges
    <2>6. KeyServed'
      BY <1>1, <1>2, <2>1 DEF KeyTypes, KeyServed
    <2> QED
      BY <2>3, <2>4, <2>5, <2>6 DEF KeyInv
  <1>5. CASE Keys_!Fails(c)
    <2>1. call' = [call EXCEPT ![c] = Keys_!Idle]
      BY <1>5 DEF Keys_!Fails
    <2>2. KeyTypes'
      BY <1>1, <1>2, <2>1 DEF KeyTypes, Keys_!Idle
    <2>3. KeyLock' /\ KeyAges'
      BY <1>1, <1>2, <1>3, <2>1 DEF KeyTypes, KeyLock, KeyAges, Keys_!Idle
    <2>4. KeyServed'
      BY <1>1, <1>2, <2>1 DEF KeyTypes, KeyServed, Keys_!Idle
    <2> QED
      BY <2>2, <2>3, <2>4 DEF KeyInv
  <1> QED
    BY <1>4, <1>5

\* What was fetched becomes the copy.
LEMMA KeyKept ==
  ASSUME KeyInv, NEW c \in Calls, Keys_!Keep(c)
  PROVE  KeyInv'
  <1>1. KeyTypes /\ KeyLock /\ KeyAges /\ KeyServed
    BY DEF KeyInv
  <1>2. UNCHANGED <<published, gone, lock, refused>> /\ call[c].pc \in {"store", "last"}
        /\ cached' = [keys |-> call[c].got, age |-> 0, lag |-> call[c].lag]
    BY DEF Keys_!Keep
  <1>3. lock = c /\ \A d \in Calls \ {c} : call[d].pc \notin {"fetch", "again", "store", "last", "end"}
    BY <1>1, <1>2 DEF KeyLock
  <1>4. PICK to \in {"end", "again"} : call' = [call EXCEPT ![c] = [call[c] EXCEPT !.pc = to]]
    BY DEF Keys_!Keep, Keys_!Goto
  <1>5. cached' \in KeyCopies /\ cached'.keys = call[c].got /\ cached'.age = 0 /\ cached'.lag = call[c].lag
        /\ call[c].lag \in Nat /\ call[c].got \subseteq Kids
    BY <1>1, <1>2 DEF KeyTypes, KeyCopies
  <1>6. to = "end" => call[c].pc = "last" \/ call[c].kid \in call[c].got
    BY <1>1, <1>4 DEF Keys_!Keep, Keys_!Goto, KeyTypes
  <1>7. KeyTypes'
    BY <1>1, <1>2, <1>4, <1>5 DEF KeyTypes
  <1>8. KeyLock'
    BY <1>1, <1>2, <1>3, <1>4 DEF KeyTypes, KeyLock
  <1>9. KeyAges'
    <2>1. \A k \in cached'.keys : gone'[k] <= cached'.age + cached'.lag
      BY <1>1, <1>2, <1>5 DEF KeyAges, KeyTypes
    <2> QED
      BY <1>1, <1>2, <1>3, <1>4, <2>1 DEF KeyTypes, KeyAges
  <1>10. KeyServed'
    BY <1>1, <1>2, <1>3, <1>4, <1>5, <1>6 DEF KeyTypes, KeyServed
  <1> QED
    BY <1>7, <1>8, <1>9, <1>10 DEF KeyInv

\* A call ends; with a key that was published all along it is not refused.
LEMMA KeyEnds ==
  ASSUME KeyInv, NEW c \in Calls, Keys_!End(c)
  PROVE  KeyInv'
  <1>1. KeyTypes /\ KeyLock /\ KeyAges /\ KeyServed
    BY DEF KeyInv
  <1>2. /\ UNCHANGED <<published, gone, cached>> /\ call[c].pc = "end"
        /\ refused' = (refused \/ (call[c].kid \notin cached.keys /\ call[c].valid))
        /\ call' = [call EXCEPT ![c] = Keys_!Idle]
    BY DEF Keys_!End
  <1>3. lock = c /\ (Keys_!Fresh <=> (Keys_!Fresh)')
        /\ \A d \in Calls \ {c} : call[d].pc \notin {"fetch", "again", "store", "last", "end"}
    BY <1>1, <1>2 DEF KeyLock, Keys_!Fresh
  <1>4. ~refused'
    BY <1>1, <1>2 DEF KeyServed
  <1>5. KeyTypes'
    BY <1>1, <1>2 DEF KeyTypes, Keys_!Idle
  <1>6. KeyLock' /\ KeyAges'
    BY <1>1, <1>2, <1>3 DEF KeyTypes, KeyLock, KeyAges, Keys_!Idle
  <1>7. KeyServed'
    BY <1>1, <1>2, <1>4 DEF KeyTypes, KeyServed, Keys_!Idle
  <1> QED
    BY <1>5, <1>6, <1>7 DEF KeyInv

\* The provider rotates: a key that goes is not valid any more for a call that waits for it.
LEMMA KeyRotates ==
  ASSUME KeyInv, Keys_!Rotate
  PROVE  KeyInv'
  <1>1. KeyTypes /\ KeyLock /\ KeyAges /\ KeyServed
    BY DEF KeyInv
  <1>2. UNCHANGED <<cached, lock, refused>> /\ published' \subseteq Kids
        /\ gone' = [k \in Kids |-> IF k \in published' THEN 0 ELSE gone[k]]
        /\ call' = [c \in Calls |-> [call[c] EXCEPT !.valid = call[c].valid /\ call[c].kid \in published']]
    BY <1>1 DEF Keys_!Rotate, KeyTypes
  <1>3. Keys_!Fresh <=> (Keys_!Fresh)'
    BY <1>2 DEF Keys_!Fresh
  <1>4. ASSUME NEW c \in Calls
        PROVE  \E ok \in BOOLEAN : /\ call'[c] = [call[c] EXCEPT !.valid = ok]
                                   /\ ok <=> call[c].valid /\ call[c].kid \in published'
    <2>1. PICK ok \in BOOLEAN : ok = (call[c].valid /\ call[c].kid \in published')
      OBVIOUS
    <2>2. call'[c] = [call[c] EXCEPT !.valid = ok]
      BY <1>2, <2>1
    <2> QED
      BY <2>1, <2>2
  <1>5. \A k \in Kids : gone[k] \in Nat /\ gone'[k] \in Nat /\ gone'[k] <= gone[k]
    BY <1>1, <1>2 DEF KeyTypes
  <1>6. \A c \in Calls : /\ call'[c].pc = call[c].pc /\ call'[c].kid = call[c].kid
                         /\ call'[c].got = call[c].got /\ call'[c].lag = call[c].lag
                         /\ call'[c].valid => call[c].valid /\ call[c].kid \in published'
    <2> TAKE c \in Calls
    <2>1. PICK ok \in BOOLEAN : /\ call'[c] = [call[c] EXCEPT !.valid = ok]
                                /\ ok <=> call[c].valid /\ call[c].kid \in published'
      BY <1>4
    <2> QED
      BY <1>1, <2>1 DEF KeyTypes
  <1>7. KeyTypes'
    <2>1. gone' \in [Kids -> Nat]
      BY <1>2, <1>5
    <2>2. call' = [c \in Calls |-> call'[c]]
      BY <1>2
    <2>3. ASSUME NEW c \in Calls
          PROVE  call'[c] \in [pc : {"idle", "wait", "fetch", "again", "store", "last", "end"},
                               kid : Kids \cup {Nil}, got : SUBSET Kids, lag : Nat, valid : BOOLEAN]
      <3>1. PICK ok \in BOOLEAN : call'[c] = [call[c] EXCEPT !.valid = ok]
        BY <1>4
      <3> QED
        BY <1>1, <3>1 DEF KeyTypes
    <2>4. call' \in [Calls -> [pc : {"idle", "wait", "fetch", "again", "store", "last", "end"},
                               kid : Kids \cup {Nil}, got : SUBSET Kids, lag : Nat, valid : BOOLEAN]]
      BY <2>2, <2>3
    <2> QED
      BY <1>1, <1>2, <2>1, <2>4 DEF KeyTypes
  <1>8. KeyLock'
    BY <1>1, <1>2, <1>6 DEF KeyLock
  <1>9. KeyAges'
    <2>1. \A k \in published' : gone'[k] = 0
      BY <1>2
    <2>2. ASSUME NEW c \in Calls, call'[c].pc \in {"store", "last"}, NEW k \in call'[c].got
          PROVE  gone'[k] <= call'[c].lag
      <3>1. call[c].lag \in Nat /\ k \in Kids /\ gone[k] <= call[c].lag
        BY <1>1, <1>6, <2>2 DEF KeyTypes, KeyAges
      <3>2. gone[k] \in Nat /\ gone'[k] \in Nat /\ gone'[k] <= gone[k] /\ call'[c].lag = call[c].lag
        BY <1>5, <1>6, <3>1
      <3> QED
        BY <3>1, <3>2
    <2>3. ASSUME Keys_!Fresh, NEW k \in cached.keys PROVE gone'[k] <= cached.age + cached.lag
      <3>1. cached.age \in Nat /\ cached.lag \in Nat /\ k \in Kids /\ gone[k] <= cached.age + cached.lag
        BY <1>1, <2>3 DEF KeyTypes, KeyAges, KeyCopies, Keys_!Fresh
      <3> QED
        BY <1>5, <3>1
    <2> QED
      BY <1>2, <1>3, <2>1, <2>2, <2>3 DEF KeyAges
  <1>10. KeyServed'
    BY <1>1, <1>2, <1>6 DEF KeyServed
  <1> QED
    BY <1>7, <1>8, <1>9, <1>10 DEF KeyInv

\* A tick ages the copy, the responses under way and the keys that are gone.
LEMMA KeyTick ==
  ASSUME KeyInv, Keys_!Tick
  PROVE  KeyInv'
  <1>1. KeyTypes /\ KeyLock /\ KeyAges /\ KeyServed
    BY DEF KeyInv
  <1>2. UNCHANGED <<published, lock, refused>>
        /\ gone' = [k \in Kids |-> IF k \in published \/ gone[k] = Keys_!Oldest THEN gone[k] ELSE gone[k] + 1]
        /\ cached' = (IF Keys_!Fresh THEN [cached EXCEPT !.age = cached.age + 1] ELSE cached)
        /\ call' = [c \in Calls |-> IF call[c].pc \in {"store", "last"}
                                    THEN [call[c] EXCEPT !.lag = call[c].lag + 1] ELSE call[c]]
    BY DEF Keys_!Tick
  <1>3. \A k \in Kids : /\ gone[k] \in Nat /\ gone'[k] \in Nat
                        /\ gone'[k] = gone[k] \/ gone'[k] = gone[k] + 1
                        /\ k \in published => gone'[k] = gone[k]
    BY <1>1, <1>2 DEF KeyTypes
  <1>4. \A c \in Calls : /\ call'[c].pc = call[c].pc /\ call'[c].kid = call[c].kid
                         /\ call'[c].got = call[c].got /\ (call'[c].valid <=> call[c].valid)
                         /\ call[c].lag \in Nat /\ call'[c].lag \in Nat
                         /\ call[c].pc \in {"store", "last"} => call'[c].lag = call[c].lag + 1
    BY <1>1, <1>2 DEF KeyTypes
  <1>5. Keys_!Fresh => cached \in KeyCopies
    BY <1>1 DEF KeyTypes, Keys_!Fresh
  <1>6. cached \in KeyCopies => cached' \in KeyCopies /\ cached'.keys = cached.keys
    BY <1>2 DEF KeyCopies
  <1>7. KeyTypes'
    <2>1. gone' \in [Kids -> Nat]
      BY <1>2, <1>3
    <2>2. cached' \in KeyCopies \cup {Nil}
      BY <1>1, <1>2, <1>5, <1>6 DEF KeyTypes
    <2>3. call' \in [Calls -> [pc : {"idle", "wait", "fetch", "again", "store", "last", "end"},
                               kid : Kids \cup {Nil}, got : SUBSET Kids, lag : Nat, valid : BOOLEAN]]
      BY <1>1, <1>2 DEF KeyTypes
    <2> QED
      BY <1>1, <1>2, <2>1, <2>2, <2>3 DEF KeyTypes
  <1>8. KeyLock'
    BY <1>1, <1>2, <1>4 DEF KeyLock
  <1>9. KeyAges'
    <2>1. \A k \in published' : gone'[k] = 0
      BY <1>1, <1>2, <1>3 DEF KeyAges, KeyTypes
    <2>2. ASSUME NEW c \in Calls, call'[c].pc \in {"store", "last"}, NEW k \in call'[c].got
          PROVE  gone'[k] <= call'[c].lag
      <3>1. k \in Kids /\ gone[k] <= call[c].lag /\ call[c].lag \in Nat /\ call'[c].lag = call[c].lag + 1
        BY <1>1, <1>4, <2>2 DEF KeyTypes, KeyAges
      <3>2. gone[k] \in Nat /\ (gone'[k] = gone[k] \/ gone'[k] = gone[k] + 1)
        BY <1>3, <3>1
      <3> QED
        BY <3>1, <3>2
    <2>3. ASSUME (Keys_!Fresh)', NEW k \in cached'.keys
          PROVE  gone'[k] <= cached'.age + cached'.lag
      <3>1. Keys_!Fresh
        BY <1>2, <2>3 DEF Keys_!Fresh
      <3>2. cached' = [cached EXCEPT !.age = cached.age + 1] /\ cached \in KeyCopies
        BY <1>2, <1>5, <3>1
      <3>3. cached'.keys = cached.keys /\ cached'.age = cached.age + 1 /\ cached'.lag = cached.lag
            /\ cached.age \in Nat /\ cached.lag \in Nat /\ cached.keys \subseteq Kids
        BY <3>2 DEF KeyCopies
      <3>4. k \in Kids /\ gone[k] <= cached.age + cached.lag
        BY <1>1, <2>3, <3>1, <3>3 DEF KeyAges
      <3>5. gone[k] \in Nat /\ (gone'[k] = gone[k] \/ gone'[k] = gone[k] + 1)
        BY <1>3, <3>4
      <3> QED
        BY <3>3, <3>4, <3>5
    <2> QED
      BY <2>1, <2>2, <2>3 DEF KeyAges
  <1>10. KeyServed'
    BY <1>1, <1>2, <1>4, <1>6 DEF KeyServed
  <1> QED
    BY <1>7, <1>8, <1>9, <1>10 DEF KeyInv

\* No step withdraws a key from the copy later than it should, or refuses one that it should not.
LEMMA KeyInductive ==
  ASSUME KeyInv, Keys_!Next \/ UNCHANGED signing
  PROVE  KeyInv'
  <1>1. CASE UNCHANGED signing
    BY <1>1 DEF signing, KeyInv, KeyTypes, KeyLock, KeyAges, KeyServed, Keys_!Fresh
  <1>2. CASE Keys_!Next
    BY <1>2, KeyLooks, KeyFetched, KeyKept, KeyEnds, KeyRotates, KeyTick DEF Keys_!Next
  <1> QED
    BY <1>1, <1>2

\* What the invariant gives a caller.
LEMMA KeyGives == KeyInv => Keys_!KeysCurrent
  BY DEF KeyInv, KeyAges, KeyServed, Keys_!KeysCurrent

-----------------------------------------------------------------------------
(* Policies and licences, the decisions cached of them, and who names them. *)

DocumentTypes ==
  /\ DOMAIN doc = Documents_!Documents
  /\ names \in [Resources \X Documents_!Kinds -> Documents_!Documents \cup {Nil}]
  /\ decided \in [Documents_!Keys \X Actions \X Resources -> {Nil, "permit", "deny", "raises"}]
  /\ editor \in [Editors -> [pc : {"idle", "drop", "clear"}, doc : Documents_!Documents \cup {Nil}]]
  /\ \A w \in Editors : editor[w].pc = "drop" => editor[w].doc \in Documents_!Documents
  /\ late \subseteq Resources \X Documents_!Kinds

\* What the store gives now is remembered, and so is what is cached.
DecisionsGiven ==
  /\ Documents_!Given(doc, names, moment) \subseteq given
  /\ Documents_!Governed

\* Whoever names a document that is about to be deleted came late.
ReferencesLate ==
  /\ Documents_!ReferencesKept
  /\ \A w \in Editors, r \in Resources, k \in Documents_!Kinds :
       editor[w].pc = "drop" /\ names[<<r, k>>] = editor[w].doc => <<r, k>> \in late

DocumentInv == DocumentTypes /\ DecisionsGiven /\ ReferencesLate

LEMMA DocumentConstants ==
  /\ Nil \notin Documents_!Documents /\ Nil \notin Bodies \cup Texts
  /\ SeedBodies \in [Managed -> Bodies \cup {Nil}]
  BY AccessAssumption DEF Documents_!DocumentsAssumption

\* Two callers that share a row of the index share subject and roles.
LEMMA SameRow ==
  ASSUME NEW c, NEW d, NEW a, NEW b, NEW r, NEW s,
         Documents_!Row(c, a, r) = Documents_!Row(d, b, s)
  PROVE  c.subject = d.subject /\ c.roles = d.roles /\ a = b /\ r = s
  BY DEF Documents_!Row, Documents_!SubjectKey

\* The rows of the index.
LEMMA RowOf ==
  ASSUME NEW c \in Callers, NEW a \in Actions, NEW r \in Resources
  PROVE  Documents_!Row(c, a, r) \in Documents_!Keys \X Actions \X Resources
  BY DEF Documents_!Row, Documents_!Keys

\* An evaluation permits, denies or raises.
LEMMA Outcomes ==
  ASSUME NEW d, NEW nm, NEW now, NEW c, NEW a, NEW r
  PROVE  Documents_!Decisions(d, nm, now, c, a, r) \subseteq {"permit", "deny", "raises"}
  <1>1. ASSUME NEW body
        PROVE  Documents_!Evaluations(body, c, a, now) \subseteq {"permit", "deny", "raises"}
    BY DEF Documents_!Evaluations, Documents_!Verdict
  <1> QED
    BY <1>1 DEF Documents_!Decisions

\* A decision that the store gives is one of the decisions given.
LEMMA IsGiven ==
  ASSUME NEW d, NEW nm, NEW now, NEW c \in Callers, NEW a \in Actions, NEW r \in Resources,
         NEW o \in Documents_!Decisions(d, nm, now, c, a, r)
  PROVE  <<c.subject, c.roles, a, r, o>> \in Documents_!Given(d, nm, now)
  <1> DEFINE G == {<<c.subject, c.roles, a, r, x>> : x \in Documents_!Decisions(d, nm, now, c, a, r)}
  <1> DEFINE X == {{<<e.subject, e.roles, b, s, x>> : x \in Documents_!Decisions(d, nm, now, e, b, s)} :
                     e \in Callers, b \in Actions, s \in Resources}
  <1>1. <<c.subject, c.roles, a, r, o>> \in G
    OBVIOUS
  <1>2. G \in X
    OBVIOUS
  <1>3. Documents_!Given(d, nm, now) = UNION X
    BY DEF Documents_!Given
  <1> HIDE DEF G, X
  <1> QED
    BY <1>1, <1>2, <1>3

\* An empty index tells nothing.
LEMMA EmptyTells ==
  ASSUME NEW c \in Callers, NEW a \in Actions, NEW r \in Resources
  PROVE  Documents_!Empty[Documents_!Row(c, a, r)] = Nil
  BY RowOf DEF Documents_!Empty

\* A profile's records name policies that are there.
LEMMA DocumentInitially == Documents_!Init => DocumentInv
  <1> SUFFICES ASSUME Documents_!Init PROVE DocumentInv
    OBVIOUS
  <1>1. DocumentTypes
    BY DocumentConstants DEF Documents_!Init, DocumentTypes, Documents_!Empty, Documents_!Idle
  <1>2. DecisionsGiven
    BY EmptyTells DEF Documents_!Init, DecisionsGiven, Documents_!Governed
  <1>3. ReferencesLate
    <2>1. ASSUME NEW r \in Resources, NEW k \in Documents_!Kinds, names[<<r, k>>] # Nil
          PROVE  doc[names[<<r, k>>]] # Nil
      <3>1. names[<<r, "license">>] = Nil /\ names[<<r, "policy">>] \in {p \in Managed : doc[p] # Nil}
        BY DEF Documents_!Init
      <3>2. k = "policy"
        BY <2>1, <3>1 DEF Documents_!Kinds
      <3> QED
        BY <3>1, <3>2
    <2> QED
      BY <2>1 DEF Documents_!Init, ReferencesLate, Documents_!ReferencesKept, Documents_!Idle
  <1> QED
    BY <1>1, <1>2, <1>3 DEF DocumentInv

\* A change of the store adds to what was given, and what was cached stays given.
LEMMA StoreGives ==
  ASSUME DecisionsGiven, NEW d, NEW nm, Documents_!Stored(d, nm), UNCHANGED <<decided, moment>>
  PROVE  DecisionsGiven'
  <1>1. /\ given' = given \cup Documents_!Given(d, nm, moment)
        /\ doc' = d /\ names' = nm
    BY DEF Documents_!Stored
  <1> QED
    BY <1>1 DEF DecisionsGiven, Documents_!Governed

\* A put stores a body; nobody loses a document.
LEMMA DocumentPut ==
  ASSUME DocumentInv, NEW w \in Editors, Documents_!Put(w)
  PROVE  DocumentInv'
  <1>1. DocumentTypes /\ DecisionsGiven /\ ReferencesLate
    BY DEF DocumentInv
  <1>2. PICK d \in Documents_!Documents, body \in Bodies \cup Texts :
          /\ Documents_!Stored([doc EXCEPT ![d] = body], names) /\ Documents_!Then(w, d)
    BY DEF Documents_!Put
  <1>3. UNCHANGED <<decided, moment, late, names>> /\ doc' = [doc EXCEPT ![d] = body] /\ body # Nil
        /\ editor[w] = Documents_!Idle
    BY <1>2, DocumentConstants DEF Documents_!Put, Documents_!Stored
  <1>4. PICK to \in {"clear", "idle"}, x \in Documents_!Documents \cup {Nil} :
          editor' = [editor EXCEPT ![w] = [pc |-> to, doc |-> x]]
    BY <1>2 DEF Documents_!Then, Documents_!Goto
  <1>5. DocumentTypes'
    BY <1>1, <1>3, <1>4 DEF DocumentTypes
  <1>6. DecisionsGiven'
    BY <1>1, <1>2, <1>3, StoreGives
  <1>7. ReferencesLate'
    BY <1>1, <1>3, <1>4 DEF DocumentTypes, ReferencesLate, Documents_!ReferencesKept
  <1> QED
    BY <1>5, <1>6, <1>7 DEF DocumentInv

\* What nobody names is marked for deletion ...
LEMMA DocumentCheck ==
  ASSUME DocumentInv, NEW w \in Editors, Documents_!CheckDelete(w)
  PROVE  DocumentInv'
  <1>1. DocumentTypes /\ DecisionsGiven /\ ReferencesLate
    BY DEF DocumentInv
  <1>2. PICK d \in Documents_!Documents :
          ~Documents_!Referenced(d) /\ editor' = [editor EXCEPT ![w] = [pc |-> "drop", doc |-> d]]
    BY DEF Documents_!CheckDelete, Documents_!Goto
  <1>3. UNCHANGED <<doc, names, decided, moment, given, late>>
    BY DEF Documents_!CheckDelete
  <1>4. DocumentTypes'
    BY <1>1, <1>2, <1>3 DEF DocumentTypes
  <1>5. DecisionsGiven'
    BY <1>1, <1>3 DEF DecisionsGiven, Documents_!Governed
  <1>6. ReferencesLate'
    BY <1>1, <1>2, <1>3
       DEF DocumentTypes, ReferencesLate, Documents_!ReferencesKept, Documents_!Referenced
  <1> QED
    BY <1>4, <1>5, <1>6 DEF DocumentInv

\* ... and deleted, when only latecomers name it.
LEMMA DocumentDrop ==
  ASSUME DocumentInv, NEW w \in Editors, Documents_!Drop(w)
  PROVE  DocumentInv'
  <1>1. DocumentTypes /\ DecisionsGiven /\ ReferencesLate
    BY DEF DocumentInv
  <1>2. editor[w].pc = "drop" /\ Documents_!Stored([doc EXCEPT ![editor[w].doc] = Nil], names)
        /\ Documents_!Then(w, editor[w].doc)
    BY DEF Documents_!Drop
  <1>3. UNCHANGED <<decided, moment, late, names>> /\ doc' = [doc EXCEPT ![editor[w].doc] = Nil]
    BY <1>2 DEF Documents_!Drop, Documents_!Stored
  <1>4. PICK to \in {"clear", "idle"}, x \in Documents_!Documents \cup {Nil} :
          editor' = [editor EXCEPT ![w] = [pc |-> to, doc |-> x]]
    BY <1>1, <1>2 DEF Documents_!Then, Documents_!Goto, DocumentTypes
  <1>5. DocumentTypes'
    BY <1>1, <1>3, <1>4 DEF DocumentTypes
  <1>6. DecisionsGiven'
    BY <1>1, <1>2, <1>3, StoreGives
  <1>7. ReferencesLate'
    BY <1>1, <1>2, <1>3, <1>4 DEF DocumentTypes, ReferencesLate, Documents_!ReferencesKept
  <1> QED
    BY <1>5, <1>6, <1>7 DEF DocumentInv

\* The index is cleared, or the request fails before that.
LEMMA DocumentClear ==
  ASSUME DocumentInv, NEW w \in Editors, Documents_!Clear(w) \/ Documents_!ClearFails(w)
  PROVE  DocumentInv'
  <1>1. DocumentTypes /\ DecisionsGiven /\ ReferencesLate
    BY DEF DocumentInv
  <1>2. UNCHANGED <<doc, names, moment, late>> /\ editor' = [editor EXCEPT ![w] = [pc |-> "idle", doc |-> Nil]]
    BY DEF Documents_!Clear, Documents_!ClearFails, Documents_!Goto
  <1>3. decided' = Documents_!Empty \/ (decided' = decided /\ given' = given)
    BY DEF Documents_!Clear, Documents_!ClearFails
  <1>4. DocumentTypes'
    BY <1>1, <1>2, <1>3 DEF DocumentTypes, Documents_!Empty
  <1>5. DecisionsGiven'
    <2>1. CASE Documents_!Clear(w)
      <3>1. \A c \in Callers, a \in Actions, r \in Resources : decided'[Documents_!Row(c, a, r)] = Nil
        BY <2>1, EmptyTells DEF Documents_!Clear
      <3> QED
        BY <1>2, <2>1, <3>1 DEF Documents_!Clear, DecisionsGiven, Documents_!Governed
    <2>2. CASE Documents_!ClearFails(w)
      BY <1>1, <1>2, <2>2 DEF Documents_!ClearFails, DecisionsGiven, Documents_!Governed
    <2> QED
      BY <2>1, <2>2
  <1>6. ReferencesLate'
    BY <1>1, <1>2 DEF DocumentTypes, ReferencesLate, Documents_!ReferencesKept
  <1> QED
    BY <1>4, <1>5, <1>6 DEF DocumentInv

\* A record that names a document which is going, or not there, is late.
LEMMA DocumentName ==
  ASSUME DocumentInv, NEW r \in Resources, NEW k \in Documents_!Kinds, Documents_!Name(r, k)
  PROVE  DocumentInv'
  <1>1. DocumentTypes /\ DecisionsGiven /\ ReferencesLate
    BY DEF DocumentInv
  <1>2. PICK d \in Documents_!Documents \cup {Nil} :
          /\ Documents_!Stored(doc, [names EXCEPT ![<<r, k>>] = d])
          /\ late' = IF d # Nil /\ (d \notin {x \in Documents_!Documents : doc[x] # Nil}
                                    \/ \E w \in Editors : editor[w] = [pc |-> "drop", doc |-> d])
                     THEN late \cup {<<r, k>>} ELSE late \ {<<r, k>>}
    BY Zenon DEF Documents_!Name
  <1>3. UNCHANGED <<decided, moment, doc, editor>> /\ names' = [names EXCEPT ![<<r, k>>] = d]
    BY <1>2 DEF Documents_!Name, Documents_!Stored
  <1>4. <<r, k>> \in Resources \X Documents_!Kinds
    OBVIOUS
  <1>5. DocumentTypes'
    BY <1>1, <1>2, <1>3, <1>4 DEF DocumentTypes
  <1>6. DecisionsGiven'
    BY <1>1, <1>2, <1>3, StoreGives
  <1>7. d # Nil => \/ <<r, k>> \in late'
                   \/ /\ doc[d] # Nil
                      /\ \A w \in Editors : editor[w].pc = "drop" => editor[w].doc # d
    <2>1. \A w \in Editors : editor[w].pc = "drop" /\ editor[w].doc = d => editor[w] = [pc |-> "drop", doc |-> d]
      BY <1>1 DEF DocumentTypes
    <2> QED
      BY <1>2, <2>1
  <1>8. \A w \in Editors : editor[w].pc = "drop" => editor[w].doc # Nil
    BY <1>1, DocumentConstants DEF DocumentTypes
  <1>9. \A t \in Resources \X Documents_!Kinds :
          /\ t # <<r, k>> => names'[t] = names[t] /\ (t \in late' <=> t \in late)
          /\ t = <<r, k>> => names'[t] = d
    BY <1>1, <1>2, <1>3 DEF DocumentTypes
  <1>10. ReferencesLate'
    BY <1>1, <1>3, <1>7, <1>8, <1>9 DEF ReferencesLate, Documents_!ReferencesKept
  <1> QED
    BY <1>5, <1>6, <1>10 DEF DocumentInv

\* A decision is cached that the store gives, for whoever shares its row.
LEMMA DocumentAsk ==
  ASSUME DocumentInv, NEW c \in Callers, NEW a \in Actions, NEW r \in Resources, Documents_!Ask(c, a, r)
  PROVE  DocumentInv'
  <1>1. DocumentTypes /\ DecisionsGiven /\ ReferencesLate
    BY DEF DocumentInv
  <1>2. PICK o \in Documents_!Decisions(doc, names, moment, c, a, r) :
          decided' = [decided EXCEPT ![Documents_!Row(c, a, r)] = o]
    BY DEF Documents_!Ask
  <1>3. UNCHANGED <<doc, names, moment, editor, given, late>>
    BY DEF Documents_!Ask
  <1>4. DocumentTypes'
    <2>1. o \in {"permit", "deny", "raises"}
      BY <1>2, Outcomes
    <2> QED
      BY <1>1, <1>2, <1>3, <2>1, RowOf DEF DocumentTypes
  <1>5. DecisionsGiven'
    <2>1. <<c.subject, c.roles, a, r, o>> \in given
      BY <1>1, <1>2, IsGiven DEF DecisionsGiven
    <2>2. ASSUME NEW d \in Callers, NEW b \in Actions, NEW s \in Resources,
                 decided'[Documents_!Row(d, b, s)] # Nil
          PROVE  <<d.subject, d.roles, b, s, decided'[Documents_!Row(d, b, s)]>> \in given
      <3>1. CASE Documents_!Row(d, b, s) = Documents_!Row(c, a, r)
        <4>1. decided'[Documents_!Row(d, b, s)] = o
          BY <1>1, <1>2, <3>1, RowOf DEF DocumentTypes
        <4>2. d.subject = c.subject /\ d.roles = c.roles /\ b = a /\ s = r
          BY <3>1, SameRow
        <4> QED
          BY <2>1, <4>1, <4>2
      <3>2. CASE Documents_!Row(d, b, s) # Documents_!Row(c, a, r)
        <4>1. decided'[Documents_!Row(d, b, s)] = decided[Documents_!Row(d, b, s)]
          BY <1>1, <1>2, <3>2, RowOf DEF DocumentTypes
        <4> QED
          BY <1>1, <2>2, <4>1 DEF DecisionsGiven, Documents_!Governed
      <3> QED
        BY <3>1, <3>2
    <2> QED
      BY <1>1, <1>3, <2>2 DEF DecisionsGiven, Documents_!Governed
  <1>6. ReferencesLate'
    BY <1>1, <1>3 DEF ReferencesLate, Documents_!ReferencesKept
  <1> QED
    BY <1>4, <1>5, <1>6 DEF DocumentInv

\* Time passes, and the store may give other decisions.
LEMMA DocumentTick ==
  ASSUME DocumentInv, Documents_!Tick
  PROVE  DocumentInv'
  <1>1. UNCHANGED <<doc, names, decided, editor, late>>
        /\ given' = given \cup Documents_!Given(doc, names, moment')
    BY DEF Documents_!Tick
  <1>2. DocumentTypes' /\ ReferencesLate'
    BY <1>1 DEF DocumentInv, DocumentTypes, ReferencesLate, Documents_!ReferencesKept
  <1>3. DecisionsGiven'
    BY <1>1 DEF DocumentInv, DecisionsGiven, Documents_!Governed
  <1> QED
    BY <1>2, <1>3 DEF DocumentInv

\* No step loses a document that somebody names, or caches what no policy gave.
LEMMA DocumentInductive ==
  ASSUME DocumentInv, Documents_!Next \/ UNCHANGED documents
  PROVE  DocumentInv'
  <1>1. CASE UNCHANGED documents
    <2>1. UNCHANGED <<doc, names, decided, moment, editor, given, late>>
      BY <1>1 DEF documents
    <2>2. DocumentTypes' /\ ReferencesLate'
      BY <2>1 DEF DocumentInv, DocumentTypes, ReferencesLate, Documents_!ReferencesKept
    <2>3. DecisionsGiven'
      BY <2>1 DEF DocumentInv, DecisionsGiven, Documents_!Governed
    <2> QED
      BY <2>2, <2>3 DEF DocumentInv
  <1>2. CASE Documents_!Next
    BY <1>2, DocumentPut, DocumentCheck, DocumentDrop, DocumentClear, DocumentName, DocumentAsk,
       DocumentTick DEF Documents_!Next
  <1> QED
    BY <1>1, <1>2

\* What the invariant gives administrators.
LEMMA DocumentGives == DocumentInv => Documents_!DocumentsGovern
  BY DEF DocumentInv, DecisionsGiven, ReferencesLate, Documents_!DocumentsGovern

-----------------------------------------------------------------------------
(* Saved searches.                                                         *)

SavedRows == [owner : Subjects, name : Names, shared : BOOLEAN]
SearchRequests ==
  [pc : {"idle", "load", "flush", "delete"}, who : Subjects \cup {Nil}, id : Ids \cup {Nil},
   name : Names \cup {Nil}, shared : BOOLEAN \cup {Nil}, seen : SavedRows \cup {Nil}]

SearchTypes ==
  /\ search \in [Ids -> SavedRows \cup {Nil}]
  /\ request \in [Requests -> SearchRequests]
  /\ last \in [Ids -> [Searches!Columns -> Names \cup BOOLEAN \cup {Nil}]]

\* Only what was made is there, is changed or is deleted; an id is not used again.
SearchMade ==
  /\ \A i \in Ids : search[i] # Nil => i \in made
  /\ \A i \in dead : i \in made
  /\ \A q \in Requests : request[q].pc # "idle" => request[q].id \in Ids \cap made

\* A request that has loaded the row knows each column it assigns, unless another one that
\* assigns it has flushed since.
SearchSeen ==
  \A q \in Requests : request[q].pc = "flush" /\ search[request[q].id] # Nil =>
    \A f \in Searches!Assigns(q) : \/ <<request[q].id, f>> \in clashed
                                   \/ search[request[q].id][f] = request[q].seen[f]

SearchInv == SearchTypes /\ SearchMade /\ SearchSeen /\ Searches!SearchesKept

\* A request at rest.
LEMMA IdleSearch ==
  /\ Searches!Idle \in SearchRequests /\ Searches!Idle.pc = "idle"
  BY DEF Searches!Idle, SearchRequests

\* What a request assigns depends on the request alone.
LEMMA SameAssigns ==
  ASSUME NEW q, request'[q] = request[q]
  PROVE  Searches!Assigns(q)' = Searches!Assigns(q)
  BY DEF Searches!Assigns

\* Nothing was made.
LEMMA SearchInitially == Searches!Init => SearchInv
  <1> SUFFICES ASSUME Searches!Init PROVE SearchInv
    OBVIOUS
  <1>1. SearchTypes
    BY IdleSearch DEF Searches!Init, SearchTypes
  <1>2. SearchMade /\ SearchSeen /\ Searches!SearchesKept
    BY IdleSearch DEF Searches!Init, SearchMade, SearchSeen, Searches!SearchesKept
  <1> QED
    BY <1>1, <1>2 DEF SearchInv

\* A search is made under a new id, which no request knows.
LEMMA SearchCreate ==
  ASSUME SearchInv, NEW s \in Subjects, Searches!Create(s)
  PROVE  SearchInv'
  <1>1. SearchTypes /\ SearchMade /\ SearchSeen /\ Searches!SearchesKept
    BY DEF SearchInv
  <1>2. PICK i \in Ids \ made, n \in Names :
          /\ search' = [search EXCEPT ![i] = [owner |-> s, name |-> n, shared |-> FALSE]]
          /\ last' = [last EXCEPT ![i] = [name |-> n, shared |-> FALSE]]
          /\ made' = made \cup {i}
    BY DEF Searches!Create
  <1>3. UNCHANGED <<request, clashed, dead>>
    BY DEF Searches!Create
  <1> DEFINE r == [owner |-> s, name |-> n, shared |-> FALSE]
  <1> DEFINE l == [name |-> n, shared |-> FALSE]
  <1>4. /\ r \in SavedRows
        /\ l \in [Searches!Columns -> Names \cup BOOLEAN \cup {Nil}]
        /\ \A f \in Searches!Columns : r[f] = l[f]
    <2>1. r \in SavedRows
      BY DEF SavedRows
    <2>2. l \in [{"name", "shared"} -> Names \cup BOOLEAN \cup {Nil}]
      <3>1. l = [f \in {"name", "shared"} |-> l[f]]
        OBVIOUS
      <3>2. l["name"] \in Names /\ l["shared"] \in BOOLEAN
        OBVIOUS
      <3> HIDE DEF l
      <3> QED
        BY <3>1, <3>2
    <2>3. r.name = l.name /\ r.shared = l.shared
      OBVIOUS
    <2> HIDE DEF r, l
    <2> QED
      BY <2>1, <2>2, <2>3 DEF Searches!Columns
  <1>5. search' = [search EXCEPT ![i] = r] /\ last' = [last EXCEPT ![i] = l]
    BY <1>2
  <1> HIDE DEF r, l
  <1>6. SearchTypes'
    BY <1>1, <1>3, <1>4, <1>5 DEF SearchTypes
  <1>7. SearchMade'
    BY <1>1, <1>2, <1>3, <1>5 DEF SearchTypes, SearchMade
  <1>8. SearchSeen'
    <2>1. \A q \in Requests : request[q].pc # "idle" => search'[request[q].id] = search[request[q].id]
      BY <1>1, <1>2, <1>5 DEF SearchTypes, SearchMade
    <2>2. \A q \in Requests : Searches!Assigns(q)' = Searches!Assigns(q)
      BY <1>3, SameAssigns
    <2> QED
      BY <1>1, <1>3, <2>1, <2>2 DEF SearchSeen
  <1>9. Searches!SearchesKept'
    BY <1>1, <1>2, <1>3, <1>4, <1>5 DEF SearchTypes, SearchMade, Searches!SearchesKept
  <1> QED
    BY <1>6, <1>7, <1>8, <1>9 DEF SearchInv

\* A request comes to another place with an id that was made, and has loaded nothing.
LEMMA SearchGoes ==
  ASSUME SearchInv, NEW q \in Requests, NEW to \in SearchRequests,
         request' = [request EXCEPT ![q] = to], UNCHANGED <<search, made, last, clashed, dead>>,
         to.pc # "idle" => to.id \in Ids \cap made,
         to.pc = "flush" /\ search[to.id] # Nil =>
           \A f \in Searches!Columns : search[to.id][f] = to.seen[f]
  PROVE  SearchInv'
  <1>1. SearchTypes /\ SearchMade /\ SearchSeen /\ Searches!SearchesKept
    BY DEF SearchInv
  <1>2. SearchTypes'
    BY <1>1 DEF SearchTypes
  <1>3. SearchMade'
    BY <1>1 DEF SearchTypes, SearchMade
  <1>4. SearchSeen'
    <2>1. ASSUME NEW o \in Requests, o # q PROVE request'[o] = request[o] /\ Searches!Assigns(o)' = Searches!Assigns(o)
      BY <1>1, <2>1, SameAssigns DEF SearchTypes
    <2>2. request'[q] = to /\ Searches!Assigns(q)' \subseteq Searches!Columns
      BY <1>1 DEF SearchTypes, Searches!Assigns
    <2> QED
      BY <1>1, <2>1, <2>2 DEF SearchSeen
  <1>5. Searches!SearchesKept'
    BY <1>1 DEF Searches!SearchesKept
  <1> QED
    BY <1>2, <1>3, <1>4, <1>5 DEF SearchInv

\* Requests are admitted that find the row.
LEMMA SearchAdmit ==
  ASSUME SearchInv, NEW q \in Requests, NEW s \in Subjects,
         Searches!AdmitUpdate(q, s) \/ Searches!AdmitDelete(q, s)
  PROVE  SearchInv'
  <1>1. SearchTypes /\ SearchMade
    BY DEF SearchInv
  <1>2. UNCHANGED <<search, made, last, clashed, dead>>
    BY DEF Searches!AdmitUpdate, Searches!AdmitDelete
  <1>3. CASE Searches!AdmitUpdate(q, s)
    <2>1. PICK i \in Ids, n \in Names \cup {Nil}, sh \in BOOLEAN \cup {Nil} :
            /\ search[i] # Nil
            /\ request' = [request EXCEPT ![q] = [Searches!Idle EXCEPT !.pc = "load", !.who = s, !.id = i,
                                                                       !.name = n, !.shared = sh]]
      BY <1>3 DEF Searches!AdmitUpdate
    <2> DEFINE to == [Searches!Idle EXCEPT !.pc = "load", !.who = s, !.id = i, !.name = n, !.shared = sh]
    <2>2. to \in SearchRequests /\ to.pc = "load" /\ to.id = i
      BY IdleSearch DEF SearchRequests
    <2>3. i \in made /\ request' = [request EXCEPT ![q] = to]
      BY <1>1, <2>1 DEF SearchMade
    <2> HIDE DEF to
    <2> QED
      BY <1>2, <2>2, <2>3, SearchGoes
  <1>4. CASE Searches!AdmitDelete(q, s)
    <2>1. PICK i \in Ids :
            /\ search[i] # Nil
            /\ request' = [request EXCEPT ![q] = [Searches!Idle EXCEPT !.pc = "delete", !.id = i]]
      BY <1>4 DEF Searches!AdmitDelete
    <2> DEFINE to == [Searches!Idle EXCEPT !.pc = "delete", !.id = i]
    <2>2. to \in SearchRequests /\ to.pc = "delete" /\ to.id = i
      BY IdleSearch DEF SearchRequests
    <2>3. i \in made /\ request' = [request EXCEPT ![q] = to]
      BY <1>1, <2>1 DEF SearchMade
    <2> HIDE DEF to
    <2> QED
      BY <1>2, <2>2, <2>3, SearchGoes
  <1> QED
    BY <1>3, <1>4

\* The transaction loads the row as it is.
LEMMA SearchLoad ==
  ASSUME SearchInv, NEW q \in Requests, Searches!Load(q)
  PROVE  SearchInv'
  <1>1. SearchTypes /\ SearchMade
    BY DEF SearchInv
  <1>2. UNCHANGED <<search, made, last, clashed, dead>> /\ request[q].pc = "load"
    BY DEF Searches!Load
  <1>3. request[q] \in SearchRequests /\ request[q].id \in Ids \cap made
    BY <1>1, <1>2 DEF SearchTypes, SearchMade
  <1>4. CASE search[request[q].id] = Nil
    <2>1. request' = [request EXCEPT ![q] = Searches!Idle]
      BY <1>4 DEF Searches!Load
    <2> QED
      BY <1>2, <2>1, IdleSearch, SearchGoes
  <1>5. CASE search[request[q].id] # Nil
    <2> DEFINE to == [request[q] EXCEPT !.pc = "flush", !.seen = search[request[q].id]]
    <2>1. request' = [request EXCEPT ![q] = to]
      BY <1>1, <1>5 DEF Searches!Load, SearchTypes
    <2>2. search[request[q].id] \in SavedRows
      BY <1>1, <1>3, <1>5 DEF SearchTypes
    <2>3. to \in SearchRequests /\ to.pc = "flush" /\ to.id = request[q].id /\ to.seen = search[request[q].id]
      BY <1>3, <2>2 DEF SearchRequests
    <2> HIDE DEF to
    <2> QED
      BY <1>2, <1>3, <2>1, <2>3, SearchGoes
  <1> QED
    BY <1>4, <1>5

\* The transaction commits the columns that it changed.
LEMMA SearchFlush ==
  ASSUME SearchInv, NEW q \in Requests, Searches!Flush(q)
  PROVE  SearchInv'
  <1>1. SearchTypes /\ SearchMade /\ SearchSeen /\ Searches!SearchesKept
    BY DEF SearchInv
  <1> DEFINE i == request[q].id
  <1>2. request[q].pc = "flush" /\ request' = [request EXCEPT ![q] = Searches!Idle] /\ UNCHANGED <<made, dead>>
    BY DEF Searches!Flush
  <1>3. i \in Ids \cap made /\ request[q] \in SearchRequests
    BY <1>1, <1>2 DEF SearchTypes, SearchMade
  <1>4. CASE search[i] = Nil
    <2>1. UNCHANGED <<search, last, clashed>>
      BY <1>4 DEF Searches!Flush
    <2> QED
      BY <1>2, <2>1, IdleSearch, SearchGoes
  <1>5. CASE search[i] # Nil
    <2> DEFINE r == [owner  |-> search[i].owner,
               name   |-> IF "name" \in Searches!Updates(q) THEN Searches!Written(q, "name") ELSE search[i].name,
               shared |-> IF "shared" \in Searches!Updates(q) THEN Searches!Written(q, "shared") ELSE search[i].shared]
    <2> DEFINE l == [f \in Searches!Columns |-> IF f \in Searches!Assigns(q) THEN request[q][f] ELSE last[i][f]]
    <2>1. /\ search' = [search EXCEPT ![i] = r] /\ last' = [last EXCEPT ![i] = l]
          /\ clashed' = clashed \cup {<<i, f>> : f \in {g \in Searches!Assigns(q) : Searches!Overlaps(q, g)}}
      BY <1>5 DEF Searches!Flush
    <2>2. search[i] \in SavedRows
      BY <1>1, <1>3, <1>5 DEF SearchTypes
    <2>3. /\ "name" \in Searches!Updates(q) => Searches!Written(q, "name") = request[q].name /\ request[q].name \in Names
          /\ "shared" \in Searches!Updates(q) =>
               Searches!Written(q, "shared") = request[q].shared /\ request[q].shared \in BOOLEAN
      BY <1>3 DEF Searches!Updates, Searches!Assigns, Searches!Written, SearchRequests
    <2>4. r \in SavedRows
      BY <2>2, <2>3 DEF SavedRows
    <2>5. \A f \in Searches!Columns : r[f] = IF f \in Searches!Updates(q) THEN request[q][f] ELSE search[i][f]
      BY <2>3 DEF Searches!Columns
    <2>6. l \in [Searches!Columns -> Names \cup BOOLEAN \cup {Nil}]
      <3>1. \A f \in Searches!Columns : request[q][f] \in Names \cup BOOLEAN \cup {Nil}
        BY <1>3 DEF SearchRequests, Searches!Columns
      <3>2. last[i] \in [Searches!Columns -> Names \cup BOOLEAN \cup {Nil}]
        BY <1>1, <1>3 DEF SearchTypes
      <3> QED
        BY <3>1, <3>2
    <2>7. \A f \in Searches!Columns : l[f] = IF f \in Searches!Assigns(q) THEN request[q][f] ELSE last[i][f]
      OBVIOUS
    <2> HIDE DEF r, l
    <2>8. SearchTypes'
      BY <1>1, <1>2, <1>3, <2>1, <2>4, <2>6, IdleSearch DEF SearchTypes
    <2>9. SearchMade'
      BY <1>1, <1>2, <1>3, <2>1, IdleSearch DEF SearchTypes, SearchMade
    <2>10. \A f \in Searches!Columns : f \in Searches!Updates(q) <=> /\ f \in Searches!Assigns(q)
                                                                     /\ request[q][f] # request[q].seen[f]
      BY DEF Searches!Updates
    <2>11. search'[i] = r /\ last'[i] = l /\ \A j \in Ids \ {i} : search'[j] = search[j] /\ last'[j] = last[j]
      BY <1>1, <1>3, <2>1 DEF SearchTypes
    <2>12. SearchSeen'
      <3> SUFFICES ASSUME NEW o \in Requests, request'[o].pc = "flush", search'[request'[o].id] # Nil,
                          NEW f \in Searches!Assigns(o)'
                   PROVE  \/ <<request'[o].id, f>> \in clashed'
                          \/ search'[request'[o].id][f] = request'[o].seen[f]
        BY DEF SearchSeen
      <3>1. o # q /\ request'[o] = request[o]
        BY <1>1, <1>2, IdleSearch DEF SearchTypes
      <3>2. f \in Searches!Assigns(o) /\ f \in Searches!Columns
        BY <3>1, SameAssigns DEF Searches!Assigns
      <3>3. CASE request[o].id # i
        BY <1>1, <2>1, <2>11, <3>1, <3>2, <3>3 DEF SearchSeen, SearchMade
      <3>4. CASE request[o].id = i
        <4>1. CASE f \in Searches!Assigns(q)
          BY <2>1, <3>1, <3>2, <3>4, <4>1 DEF Searches!Overlaps
        <4>2. CASE f \notin Searches!Assigns(q)
          <5>1. search'[i][f] = search[i][f]
            BY <2>5, <2>10, <2>11, <3>2, <4>2
          <5> QED
            BY <1>1, <1>5, <2>1, <3>1, <3>2, <3>4, <5>1 DEF SearchSeen
        <4> QED
          BY <4>1, <4>2
      <3> QED
        BY <3>3, <3>4
    <2>13. Searches!SearchesKept'
      <3>1. i \notin dead
        BY <1>1, <1>3, <1>5 DEF Searches!SearchesKept
      <3>2. ASSUME NEW f \in Searches!Columns, <<i, f>> \notin clashed' PROVE r[f] = l[f]
        <4>1. <<i, f>> \notin clashed
          BY <2>1, <3>2
        <4>2. CASE f \in Searches!Updates(q)
          BY <2>5, <2>7, <2>10, <4>2
        <4>3. CASE f \in Searches!Assigns(q) /\ f \notin Searches!Updates(q)
          <5>1. search[i][f] = request[q].seen[f]
            BY <1>1, <1>2, <1>5, <4>1, <4>3 DEF SearchSeen
          <5> QED
            BY <2>5, <2>7, <2>10, <4>3, <5>1
        <4>4. CASE f \notin Searches!Assigns(q)
          <5>1. search[i][f] = last[i][f]
            BY <1>1, <1>3, <1>5, <4>1 DEF Searches!SearchesKept
          <5> QED
            BY <2>5, <2>7, <2>10, <4>4, <5>1
        <4> QED
          BY <2>10, <4>2, <4>3, <4>4
      <3> QED
        BY <1>1, <1>2, <2>1, <2>11, <3>1, <3>2 DEF Searches!SearchesKept
    <2> QED
      BY <2>8, <2>9, <2>12, <2>13 DEF SearchInv
  <1> QED
    BY <1>4, <1>5

\* A delete commits; its id stays made.
LEMMA SearchDelete ==
  ASSUME SearchInv, NEW q \in Requests, Searches!Delete(q)
  PROVE  SearchInv'
  <1>1. SearchTypes /\ SearchMade /\ SearchSeen /\ Searches!SearchesKept
    BY DEF SearchInv
  <1>2. /\ request[q].pc = "delete" /\ search' = [search EXCEPT ![request[q].id] = Nil]
        /\ dead' = dead \cup {request[q].id} /\ request' = [request EXCEPT ![q] = Searches!Idle]
        /\ UNCHANGED <<made, last, clashed>>
    BY DEF Searches!Delete
  <1>3. request[q].id \in Ids \cap made
    BY <1>1, <1>2 DEF SearchMade
  <1>4. SearchTypes'
    BY <1>1, <1>2, <1>3, IdleSearch DEF SearchTypes
  <1>5. SearchMade'
    BY <1>1, <1>2, <1>3, IdleSearch DEF SearchTypes, SearchMade
  <1>6. \A j \in Ids : search'[j] = Nil \/ (search'[j] = search[j] /\ j # request[q].id)
    BY <1>1, <1>2, <1>3 DEF SearchTypes
  <1>7. SearchSeen'
    <2>1. \A o \in Requests : request'[o].pc = "flush" => /\ request'[o] = request[o]
                                                          /\ Searches!Assigns(o)' = Searches!Assigns(o)
      BY <1>1, <1>2, IdleSearch, SameAssigns DEF SearchTypes
    <2>2. \A o \in Requests : request[o].pc = "flush" => request[o].id \in Ids
      BY <1>1 DEF SearchMade
    <2> QED
      BY <1>1, <1>2, <1>6, <2>1, <2>2 DEF SearchSeen
  <1>8. Searches!SearchesKept'
    BY <1>1, <1>2, <1>3, <1>6 DEF SearchTypes, Searches!SearchesKept
  <1> QED
    BY <1>4, <1>5, <1>7, <1>8 DEF SearchInv

\* No step brings back a search that was deleted, or undoes what another request changed.
LEMMA SearchInductive ==
  ASSUME SearchInv, Searches!Next \/ UNCHANGED searching
  PROVE  SearchInv'
  <1>1. CASE UNCHANGED searching
    <2>1. UNCHANGED <<search, made, request, last, clashed, dead>>
      BY <1>1 DEF searching
    <2>2. \A q : Searches!Assigns(q)' = Searches!Assigns(q)
      BY <2>1 DEF Searches!Assigns
    <2> QED
      BY <2>1, <2>2 DEF SearchInv, SearchTypes, SearchMade, SearchSeen, Searches!SearchesKept
  <1>2. CASE Searches!Next
    BY <1>2, SearchCreate, SearchAdmit, SearchLoad, SearchFlush, SearchDelete DEF Searches!Next
  <1> QED
    BY <1>1, <1>2

\* What the invariant gives the owners of searches.
LEMMA SearchGives == SearchInv => Searches!SearchesKept
  BY DEF SearchInv

-----------------------------------------------------------------------------
(* The composition.  A behaviour takes one part, whose steps leave the      *)
(* others at rest.                                                          *)

\* Every step is one of each part, or leaves that part as it is.
LEMMA EachPart ==
  ASSUME AccessNext \/ UNCHANGED AccessVars
  PROVE  /\ Next \/ UNCHANGED vars
         /\ \/ \E r, to : Reading!Moves(r, to)
            \/ \E a, r : Reading!Grants(a, r) \/ Reading!Revokes(a, r)
            \/ Reading!Step \/ UNCHANGED reading
         /\ Settings!Next \/ UNCHANGED setting
         /\ Documents_!Next \/ UNCHANGED documents
         /\ Keys_!Next \/ UNCHANGED signing
         /\ Searches!Next \/ UNCHANGED searching
  <1>1. CASE UNCHANGED AccessVars
    BY <1>1 DEF AccessVars
  <1>2. CASE AccessNext
    <2>1. CASE part = "decisions"
      <3>1. UNCHANGED <<reading, setting, documents, signing, searching>>
        BY <1>2, <2>1 DEF AccessNext, Deciding, Answering, Setting, Governing, Signing, Searching
      <3>2. Next
        BY <1>2, <2>1 DEF AccessNext, Deciding, Answering, Setting, Governing, Signing, Searching,
                          Next, Step, PolicyStep
      <3> QED
        BY <3>1, <3>2
    <2>2. CASE part = "reads"
      <3>1. UNCHANGED <<vars, setting, documents, signing, searching>>
        BY <1>2, <2>2 DEF AccessNext, Deciding, Answering, Setting, Governing, Signing, Searching
      <3>2. \/ \E r, to : Reading!Moves(r, to)
            \/ \E a, r : Reading!Grants(a, r) \/ Reading!Revokes(a, r)
            \/ Reading!Step
        BY <1>2, <2>2 DEF AccessNext, Deciding, Answering, Setting, Governing, Signing, Searching,
                          Reading!Step
      <3> QED
        BY <3>1, <3>2
    <2>3. CASE part = "settings"
      <3>1. UNCHANGED <<vars, reading, documents, signing, searching>>
        BY <1>2, <2>3 DEF AccessNext, Deciding, Answering, Setting, Governing, Signing, Searching
      <3>2. Settings!Next
        BY <1>2, <2>3 DEF AccessNext, Deciding, Answering, Setting, Governing, Signing, Searching,
                          Settings!Next
      <3> QED
        BY <3>1, <3>2
    <2>4. CASE part = "documents"
      <3>1. UNCHANGED <<vars, reading, setting, signing, searching>>
        BY <1>2, <2>4 DEF AccessNext, Deciding, Answering, Setting, Governing, Signing, Searching
      <3>2. Documents_!Next
        BY <1>2, <2>4 DEF AccessNext, Deciding, Answering, Setting, Governing, Signing, Searching,
                          Documents_!Next, Documents_!Kinds
      <3> QED
        BY <3>1, <3>2
    <2>5. CASE part = "keys"
      <3>1. UNCHANGED <<vars, reading, setting, documents, searching>>
        BY <1>2, <2>5 DEF AccessNext, Deciding, Answering, Setting, Governing, Signing, Searching
      <3>2. Keys_!Next
        BY <1>2, <2>5 DEF AccessNext, Deciding, Answering, Setting, Governing, Signing, Searching,
                          Keys_!Next
      <3> QED
        BY <3>1, <3>2
    <2>6. CASE part = "searches"
      <3>1. UNCHANGED <<vars, reading, setting, documents, signing>>
        BY <1>2, <2>6 DEF AccessNext, Deciding, Answering, Setting, Governing, Signing, Searching
      <3>2. Searches!Next
        BY <1>2, <2>6 DEF AccessNext, Deciding, Answering, Setting, Governing, Signing, Searching,
                          Searches!Next
      <3> QED
        BY <3>1, <3>2
    <2>7. part \in {"decisions", "reads", "settings", "documents", "keys", "searches"}
      BY <1>2 DEF AccessNext, Deciding, Answering, Setting, Governing, Signing, Searching
    <2> QED
      BY <2>1, <2>2, <2>3, <2>4, <2>5, <2>6, <2>7
  <1> QED
    BY <1>1, <1>2

\* What holds of reads, copies and documents, whatever the decisions do.
AccessInv == ReadInv /\ SettingInv /\ KeyInv /\ DocumentInv /\ SearchInv

\* It holds when the server has come up.
LEMMA AccessInitially == AccessInit => AccessInv
  <1> SUFFICES ASSUME AccessInit PROVE AccessInv
    OBVIOUS
  <1>1. ReadInv
    BY ReadAtRest, ReadInitially DEF AccessInit, AnyRequest
  <1>2. SettingInv /\ KeyInv /\ DocumentInv /\ SearchInv
    BY SettingInitially, KeyInitially, DocumentInitially, SearchInitially DEF AccessInit
  <1> QED
    BY <1>1, <1>2 DEF AccessInv

\* Every step keeps it.
LEMMA AccessInductive == AccessInv /\ [AccessNext]_AccessVars => AccessInv'
  <1> SUFFICES ASSUME AccessInv, [AccessNext]_AccessVars PROVE AccessInv'
    OBVIOUS
  <1>1. AccessNext \/ UNCHANGED AccessVars
    OBVIOUS
  <1>2. ReadInv /\ SettingInv /\ KeyInv /\ DocumentInv /\ SearchInv
    BY DEF AccessInv
  <1>3. ReadInv'
    BY <1>1, <1>2, EachPart, ReadInductive
  <1>4. SettingInv'
    BY <1>1, <1>2, EachPart, SettingInductive
  <1>5. KeyInv'
    BY <1>1, <1>2, EachPart, KeyInductive
  <1>6. DocumentInv'
    BY <1>1, <1>2, EachPart, DocumentInductive
  <1>7. SearchInv'
    BY <1>1, <1>2, EachPart, SearchInductive
  <1> QED
    BY <1>3, <1>4, <1>5, <1>6, <1>7 DEF AccessInv

\* It always holds.
LEMMA AlwaysAccessInv == AccessSpec => []AccessInv
  BY AccessInitially, AccessInductive, PTL DEF AccessSpec

\* An answer whose scope is the one it was given holds only what its caller was entitled to while
\* it was made (lifecycle.py's gate and pdp.py's answers on every path of router.py,
\* extensions.py, instances.py, data/router.py and access/); and an update changes only what its
\* caller might modify meanwhile, of an update with WITH the graph it lists (access/parser.py).
THEOREM AlwaysEntitled == AccessSpec => []ReadsEntitled
  <1>1. AccessInv => ReadsEntitled
    BY DEF AccessInv, ReadInv, ReadsEntitled
  <1> QED
    BY <1>1, AlwaysAccessInv, PTL

\* No copy of a setting that may still be used is of a value that was replaced before the copy
\* was taken, nor older than an own write that its server was told of (settings.py's readers);
\* the kept signing keys have none that was withdrawn before they were asked for, and nobody is
\* refused whose key was published all the time (auth.py).
THEOREM CopiesAlwaysCurrent == AccessSpec => []CopiesCurrent
  <1>1. AccessInv => CopiesCurrent
    BY SettingGives, KeyGives DEF AccessInv, CopiesCurrent
  <1> QED
    BY <1>1, AlwaysAccessInv, PTL

\* A kept decision is one that a policy in force gave since the decisions were last cleared; a
\* record whose document is deleted was given it after the delete had looked (policies.py,
\* licenses.py); and no update of a saved search undoes another's or a delete (searches.py).
THEOREM AlwaysKept == AccessSpec => []ManagedKept
  <1>1. AccessInv => ManagedKept
    BY DocumentGives, SearchGives DEF AccessInv, ManagedKept
  <1> QED
    BY <1>1, AlwaysAccessInv, PTL

\* The invariant of the decisions holds in the composition, too.
LEMMA AlwaysDecisions == ASSUME KeyTells PROVE AccessSpec => []AInv
  <1>1. AccessInit => AInv
    BY Initially DEF AccessInit
  <1>2. AInv /\ [AccessNext]_AccessVars => AInv'
    <2> SUFFICES ASSUME AInv, [AccessNext]_AccessVars PROVE AInv'
      OBVIOUS
    <2>1. Next \/ UNCHANGED vars
      BY EachPart
    <2> QED
      BY <2>1, Inductive
  <1> QED
    BY <1>1, <1>2, PTL DEF AccessSpec

\* What is proved of decisions holds in the composition: no permit is invented, and what is
\* cached is coherent, beside every other part.
THEOREM AlwaysDecided ==
  ASSUME KeyTells
  PROVE  AccessSpec => [](PermitsWereGranted /\ IndexCoherent)
  BY DecisionsGive, AlwaysDecisions, PTL

=============================================================================

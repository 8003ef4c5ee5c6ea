------------------------- MODULE MetricsRollup_proofs -------------------------
(***************************************************************************)
(* While passes take turns, and where hourly rows are kept for a day at    *)
(* least, the dashboard counts no request twice and shows every day in     *)
(* full to which no row came during a pass or after it was folded.         *)
(*                                                                         *)
(* MInv is inductive: the rows of the three tables stand for disjoint sets *)
(* of requests, and what a pass has pending is what it will move from one  *)
(* to the next.                                                            *)
(***************************************************************************)
EXTENDS MetricsRollup, FiniteSetTheorems, WellFoundedInduction, TLAPS

-----------------------------------------------------------------------------
(* Time.                                                                   *)

\* An hour is of a day, which is no later than it.
LEMMA DayOfHour ==
  ASSUME NEW h \in Nat
  PROVE  Day(h) \in Nat /\ Day(h) <= h
BY MetricsAssumption DEF Day

\* Days are those of hours, and numbers no greater than the last hour.
LEMMA DaysAreHours ==
  /\ 0 \in Hours /\ Days \subseteq Hours /\ Days \subseteq Nat /\ Hours \subseteq Nat /\ Nil \notin Days
  /\ \A h \in Hours : Day(h) \in Days
<1>1. Hours \subseteq Nat /\ 0 \in Hours
  BY MetricsAssumption DEF Hours
<1>2. \A h \in Hours : Day(h) \in Nat /\ Day(h) \in Hours
  <2> SUFFICES ASSUME NEW h \in Hours PROVE Day(h) \in Nat /\ Day(h) \in Hours
    OBVIOUS
  <2>1. Day(h) \in Nat /\ Day(h) <= h
    BY <1>1, DayOfHour
  <2>2. QED
    BY <1>1, <2>1, MetricsAssumption DEF Hours
<1>3. QED
  BY <1>1, <1>2, MetricsAssumption DEF Days

\* An earlier day has earlier hours, and the next hour is of this day or of the next.
LEMMA DaysInOrder ==
  /\ \A h, k \in Nat : Day(h) < Day(k) => h < k
  /\ \A h \in Nat : Day(h + 1) <= Day(h) + 1
<1>1. ASSUME NEW h \in Nat, NEW k \in Nat, Day(h) < Day(k) PROVE h < k
  BY <1>1, MetricsAssumption DEF Day
<1>2. ASSUME NEW h \in Nat PROVE Day(h + 1) <= Day(h) + 1
  BY MetricsAssumption DEF Day
<1>3. QED
  BY <1>1, <1>2

-----------------------------------------------------------------------------
(* The least of a set of numbers, and induction over the subsets of a      *)
(* finite set, each without the element that a sum takes next.             *)

\* Of a set of numbers that is not empty one is the least.
LEMMA LeastNat ==
  ASSUME NEW T, T \subseteq Nat, T # {}
  PROVE  \E n \in T : \A m \in T : ~(m < n)
<1> DEFINE R == OpToRel(<, Nat)
<1>1. IsWellFoundedOn(R, Nat)
  BY NatLessThanWellFounded
<1>2. R = {ss \in Nat \X Nat : ss[1] < ss[2]}
  BY DEF OpToRel
<1> HIDE DEF R
<1>3. \E n \in T : \A m \in T : ~(<<m, n>> \in R)
  BY <1>1, WFMin
<1>4. QED
  BY <1>2, <1>3

\* Least gives an element.
LEMMA LeastIn ==
  ASSUME NEW S, S \subseteq Nat, S # {}
  PROVE  Least(S) \in S
<1>1. PICK n \in S : \A m \in S : ~(m < n)
  BY LeastNat
<1>2. \A m \in S : n <= m
  BY <1>1
<1>3. QED
  BY <1>2 DEF Least

One(s) == CHOOSE x \in s : TRUE

\* Without its next element a set has one element less.
LEMMA OneLess ==
  ASSUME NEW S, IsFiniteSet(S), NEW s \in SUBSET S, s # {}
  PROVE  /\ One(s) \in s /\ s \ {One(s)} \in SUBSET S
         /\ Cardinality(s) \in Nat /\ Cardinality(s \ {One(s)}) \in Nat
         /\ Cardinality(s \ {One(s)}) + 1 = Cardinality(s)
<1>1. One(s) \in s
  BY DEF One
<1>2. PICK x \in s : x = One(s)
  BY <1>1
<1>3. IsFiniteSet(s) /\ IsFiniteSet(s \ {x}) /\ Cardinality(s \ {x}) = Cardinality(s) - 1
  BY FS_Subset, FS_RemoveElement
<1>4. Cardinality(s) \in Nat /\ Cardinality(s \ {x}) \in Nat
  BY <1>3, FS_CardinalityType
<1>5. QED
  BY <1>1, <1>2, <1>3, <1>4

\* What holds of the empty set, and of a set if it does without its next element, holds of all.
LEMMA SubsetInduction ==
  ASSUME NEW S, IsFiniteSet(S), NEW G, {} \in G,
         \A s \in SUBSET S : s # {} /\ s \ {One(s)} \in G => s \in G
  PROVE  SUBSET S \subseteq G
<1> DEFINE T == {Cardinality(s) : s \in {u \in SUBSET S : u \notin G}}
<1>1. T \subseteq Nat
  BY FS_Subset, FS_CardinalityType
<1>2. SUFFICES ASSUME T # {} PROVE FALSE
  OBVIOUS
<1>3. PICK n \in T : \A m \in T : ~(m < n)
  BY <1>1, <1>2, LeastNat
<1>4. PICK s \in SUBSET S : s \notin G /\ n = Cardinality(s)
  BY <1>3
<1>5. s # {}
  BY <1>4
<1>6. s \ {One(s)} \in SUBSET S /\ Cardinality(s \ {One(s)}) < n
  BY <1>4, <1>5, OneLess
<1>7. s \ {One(s)} \in G
  BY <1>3, <1>6
<1>8. QED
  BY <1>4, <1>5, <1>7

-----------------------------------------------------------------------------
(* A sum over hours as an equation: the fold is a recursive function over  *)
(* the subsets; that one exists is shown for those of each size.           *)

Summand(it, s)  == IF s = {} THEN 0 ELSE Count(One(s)) + it[s \ {One(s)}]
IsSum(it, D)    == it = [s \in D |-> Summand(it, s)]
Smaller(S, n)   == {s \in SUBSET S : Cardinality(s) < n}

\* The sum is what such a function gives.
LEMMA SumIsFold ==
  ASSUME NEW S
  PROVE  MapThenSumSet(Count, S) = (CHOOSE it : IsSum(it, SUBSET S))[S]
BY DEF MapThenSumSet, MapThenFoldSet, IsSum, Summand, One

\* For every size there is a function that is the sum for the subsets below it.
LEMMA SumsOfSize ==
  ASSUME NEW S, IsFiniteSet(S)
  PROVE  \A n \in Nat : \E it : IsSum(it, Smaller(S, n))
<1> DEFINE T == {n \in Nat : ~(\E it : IsSum(it, Smaller(S, n)))}
<1> SUFFICES T = {}
  OBVIOUS
<1> SUFFICES ASSUME T # {} PROVE FALSE
  OBVIOUS
<1>1. PICK n \in T : \A m \in T : ~(m < n)
  BY LeastNat
<1>2. \A s \in SUBSET S : Cardinality(s) \in Nat
  BY FS_Subset, FS_CardinalityType
<1>3. n # 0
  <2>1. Smaller(S, 0) = {}
    BY <1>2 DEF Smaller
  <2>2. PICK e : e = [s \in {} |-> Nil]
    OBVIOUS
  <2>3. IsSum(e, {})
    BY <2>2 DEF IsSum
  <2>4. QED
    BY <1>1, <2>1, <2>3
<1>4. PICK m \in Nat : n = m + 1
  BY <1>1, <1>3
<1>5. m \notin T
  BY <1>1, <1>4
<1>6. PICK it : IsSum(it, Smaller(S, m))
  BY <1>5
<1>7. PICK on : on = [s \in Smaller(S, n) |-> Summand(it, s)]
  OBVIOUS
<1>8. ASSUME NEW s \in Smaller(S, n) PROVE Summand(on, s) = Summand(it, s)
  <2>1. CASE s = {}
    BY <2>1 DEF Summand
  <2>2. CASE s # {}
    <3>1. PICK u : u = s \ {One(s)}
      OBVIOUS
    <3>2. s \in SUBSET S /\ Cardinality(s) < m + 1
      BY <1>4 DEF Smaller
    <3>3. u \in SUBSET S /\ Cardinality(u) \in Nat /\ Cardinality(u) + 1 = Cardinality(s)
      BY <2>2, <3>1, <3>2, OneLess
    <3>4. u \in Smaller(S, m) /\ u \in Smaller(S, n)
      BY <1>4, <3>2, <3>3 DEF Smaller
    <3>5. on[u] = Summand(it, u) /\ it[u] = Summand(it, u)
      BY <1>6, <1>7, <3>4 DEF IsSum
    <3>6. QED
      BY <2>2, <3>1, <3>5 DEF Summand
  <2>3. QED
    BY <2>1, <2>2
<1>9. on = [s \in Smaller(S, n) |-> Summand(on, s)]
  BY <1>7, <1>8
<1>10. QED
  BY <1>1, <1>9 DEF IsSum

\* The sum over S is the last of the sums over its subsets.
LEMMA SumSteps ==
  ASSUME NEW S, IsFiniteSet(S)
  PROVE  \E it : IsSum(it, SUBSET S) /\ MapThenSumSet(Count, S) = it[S]
<1>1. PICK n \in Nat : n = Cardinality(S) + 1
  BY FS_CardinalityType
<1>2. ASSUME NEW s \in SUBSET S PROVE s \in Smaller(S, n)
  <2>1. IsFiniteSet(s) /\ Cardinality(s) <= Cardinality(S)
    BY FS_Subset
  <2>2. Cardinality(s) \in Nat /\ Cardinality(S) \in Nat
    BY <2>1, FS_CardinalityType
  <2>3. QED
    BY <1>1, <2>1, <2>2 DEF Smaller
<1>3. Smaller(S, n) = SUBSET S
  BY <1>2 DEF Smaller
<1>4. \E it : IsSum(it, SUBSET S)
  <2>1. \E it : IsSum(it, Smaller(S, n))
    BY SumsOfSize
  <2>2. QED
    BY <1>3, <2>1
<1>5. PICK it : it = CHOOSE i : IsSum(i, SUBSET S)
  OBVIOUS
<1>6. IsSum(it, SUBSET S)
  BY <1>4, <1>5
<1>7. MapThenSumSet(Count, S) = it[S]
  BY <1>5, SumIsFold
<1>8. QED
  BY <1>6, <1>7
-----------------------------------------------------------------------------
(* Counting requests.                                                      *)

\* n counts no more than S, and where nothing raced all of it.
Matches(n, S, exact) == n <= Cardinality(S) /\ (exact => n = Cardinality(S))

\* A set of requests has a size, and a larger one if it is larger.
LEMMA RequestsCounted ==
  ASSUME NEW S, S \subseteq Requests, NEW U \in SUBSET S
  PROVE  /\ IsFiniteSet(S) /\ Cardinality(S) \in Nat /\ Cardinality(U) \in Nat
         /\ Cardinality(U) <= Cardinality(S)
<1>1. IsFiniteSet(S)
  BY FS_Subset, MetricsAssumption
<1>2. IsFiniteSet(U) /\ Cardinality(U) <= Cardinality(S)
  BY <1>1, FS_Subset
<1>3. QED
  BY <1>1, <1>2, FS_CardinalityType

\* Nothing counts nothing.
LEMMA MatchesNone ==
  ASSUME NEW S, NEW exact
  PROVE  /\ S = {} => Matches(0, S, exact)
         /\ S = {} => Cardinality(S) = 0
         /\ S \subseteq Requests /\ S # {} => Cardinality(S) # 0
BY FS_EmptySet, RequestsCounted DEF Matches

\* Counts of disjoint sets add up.
LEMMA MatchesBoth ==
  ASSUME NEW S, NEW U, S \subseteq Requests, U \subseteq Requests, S \cap U = {},
         NEW m \in Nat, NEW n \in Nat, NEW exact, Matches(m, S, exact), Matches(n, U, exact)
  PROVE  m + n \in Nat /\ Matches(m + n, S \cup U, exact)
<1>1. IsFiniteSet(S) /\ IsFiniteSet(U) /\ Cardinality(S) \in Nat /\ Cardinality(U) \in Nat
  BY RequestsCounted
<1>2. Cardinality(S \cup U) = Cardinality(S) + Cardinality(U) - Cardinality({})
  BY <1>1, FS_Union
<1>3. Cardinality(S \cup U) = Cardinality(S) + Cardinality(U)
  BY <1>1, <1>2, FS_EmptySet
<1>4. QED
  BY <1>1, <1>3 DEF Matches

\* A count of U holds of a larger set, unless it must be exact.
LEMMA MatchesMore ==
  ASSUME NEW S, S \subseteq Requests, NEW U \in SUBSET S, NEW n \in Nat, NEW exact, NEW exact2,
         Matches(n, U, exact), exact2 => exact /\ S = U
  PROVE  Matches(n, S, exact2)
BY RequestsCounted DEF Matches

\* The hours are finitely many.
LEMMA HoursFinite ==
  ASSUME NEW S, S \subseteq Hours
  PROVE  IsFiniteSet(S)
<1>1. IsFiniteSet(Hours)
  BY FS_Interval, MetricsAssumption DEF Hours
<1>2. QED
  BY <1>1, FS_Subset

Sets(X, s) == UNION {X[h] : h \in s}

\* Counts of hours that count disjoint sets of requests add up to a count of all of these.
LEMMA SumMatches ==
  ASSUME NEW S, S \subseteq Hours, NEW X \in [Hours -> SUBSET Requests], NEW exact,
         \A h \in S : Count(h) \in Nat /\ Matches(Count(h), X[h], exact),
         \A h, k \in S : h # k => X[h] \cap X[k] = {}
  PROVE  /\ MapThenSumSet(Count, S) \in Nat
         /\ Matches(MapThenSumSet(Count, S), Sets(X, S), exact)
<1>1. IsFiniteSet(S)
  BY HoursFinite
<1>2. PICK it : IsSum(it, SUBSET S) /\ MapThenSumSet(Count, S) = it[S]
  BY <1>1, SumSteps
<1>3. \A s \in SUBSET S : it[s] = Summand(it, s)
  BY <1>2 DEF IsSum
<1> DEFINE G == {s \in SUBSET S : it[s] \in Nat /\ Matches(it[s], Sets(X, s), exact)}
<1>4. {} \in G
  <2>1. it[{}] = 0 /\ Sets(X, {}) = {}
    BY <1>3 DEF Summand, Sets
  <2>2. QED
    BY <2>1, MatchesNone
<1>5. ASSUME NEW s \in SUBSET S, s # {}, s \ {One(s)} \in G
      PROVE  s \in G
  <2>1. PICK x : x = One(s)
    OBVIOUS
  <2>2. PICK u : u = s \ {x}
    OBVIOUS
  <2>3. x \in s /\ x \notin u /\ u \in SUBSET S /\ s = u \cup {x}
    BY <1>1, <1>5, <2>1, <2>2, OneLess
  <2>4. it[u] \in Nat /\ Matches(it[u], Sets(X, u), exact)
    BY <1>5, <2>1, <2>2
  <2>5. it[s] = Count(x) + it[u]
    BY <1>3, <1>5, <2>1, <2>2 DEF Summand
  <2>6. Count(x) \in Nat /\ Matches(Count(x), X[x], exact)
    BY <2>3
  <2>7. X[x] \subseteq Requests /\ Sets(X, u) \subseteq Requests
    BY <2>3 DEF Sets
  <2>8. X[x] \cap Sets(X, u) = {}
    BY <2>3 DEF Sets
  <2>9. Sets(X, s) = X[x] \cup Sets(X, u)
    BY <2>3 DEF Sets
  <2>10. Count(x) + it[u] \in Nat /\ Matches(Count(x) + it[u], X[x] \cup Sets(X, u), exact)
    BY <2>4, <2>6, <2>7, <2>8, MatchesBoth
  <2>11. QED
    BY <2>5, <2>9, <2>10
<1>6. SUBSET S \subseteq G
  <2> HIDE DEF G
  <2>1. QED
    BY <1>1, <1>4, <1>5, SubsetInduction
<1>7. QED
  BY <1>2, <1>6

\* A sum of hours is a number.
LEMMA SumIsNat ==
  ASSUME NEW S, S \subseteq Hours, \A h \in S : Count(h) \in Nat
  PROVE  MapThenSumSet(Count, S) \in Nat
<1>1. IsFiniteSet(S)
  BY HoursFinite
<1>2. PICK it : IsSum(it, SUBSET S) /\ MapThenSumSet(Count, S) = it[S]
  BY <1>1, SumSteps
<1>3. \A s \in SUBSET S : it[s] = Summand(it, s)
  BY <1>2 DEF IsSum
<1> DEFINE G == {s \in SUBSET S : it[s] \in Nat}
<1>4. {} \in G
  <2>1. it[{}] = 0
    BY <1>3 DEF Summand
  <2>2. QED
    BY <2>1
<1>5. ASSUME NEW s \in SUBSET S, s # {}, s \ {One(s)} \in G
      PROVE  s \in G
  <2>1. One(s) \in s
    BY <1>1, <1>5, OneLess
  <2>2. it[s] = Count(One(s)) + it[s \ {One(s)}] /\ it[s \ {One(s)}] \in Nat
    BY <1>3, <1>5 DEF Summand
  <2>3. QED
    BY <2>1, <2>2
<1>6. SUBSET S \subseteq G
  <2> HIDE DEF G
  <2>1. QED
    BY <1>1, <1>4, <1>5, SubsetInduction
<1>7. QED
  BY <1>2, <1>6

-----------------------------------------------------------------------------
(* Every row has an hour, and a pass has pending only what it is at.       *)

Counting == {"aggregate", "increment"}
Folding  == {"sumDay", "replace", "commitDaily"}

Bucketed   == \A r \in Requests : row[r] # "none" => bucket[r] \in Hours
Pending(p) ==
  /\ pc[p] \in Folding => adds[p] = NoAdds
  /\ pc[p] \in Counting \cup {"commitRaw"} => sets[p] = NoSets
  /\ pc[p] = "commitRaw" => \A r \in Requests \cap deletes[p] : bucket[r] \in Hours
Tidy == Bucketed /\ \A p \in Passes : Pending(p)

-----------------------------------------------------------------------------
(* The invariant.  F is the set of requests that the rows of days stand for. *)


Gone(h)      == {r \in Requests : row[r] = "gone" /\ bucket[r] = h}
Folded(F, d) == {r \in F : Day(bucket[r]) = d}
\* The requests of day d that its hours stand for.
Due(F, d)    == {r \in Requests \ F : row[r] = "gone" /\ Day(bucket[r]) = d}
DayCount(d)  == IF daily[d] = Nil THEN 0 ELSE daily[d]

Tables(F) ==
  /\ F \subseteq Requests /\ \A r \in F : row[r] = "gone"
  /\ \A h \in Hours : Matches(Count(h), Gone(h) \ F, Day(h) \notin raced)
  /\ \A d \in Days : Matches(DayCount(d), Folded(F, d), d \notin raced)

\* A day that was folded, and to which no row came since, has no other row.
FoldedWhole ==
  \A h \in Hours : Day(h) \notin raced /\ daily[Day(h)] # Nil => hourly[h] = Nil /\ Raw(h) = {}

\* The hours that p has to do, and those that are not up to it, have no increment.
CountStage(p) ==
  /\ deletes[p] = {}
  /\ \A h \in Hours :
       IF h \in left[p] \/ h > cutoff[p] THEN adds[p][h] = 0
       ELSE Matches(adds[p][h], Raw(h), Day(h) \notin raced)
  /\ pc[p] = "increment" =>
       left[p] # {} /\ Matches(sum[p], Raw(Least(left[p])), Day(Least(left[p])) \notin raced)

\* What p is about to delete: of a day nothing raced with, every row through the watermark.
CommitStage(p) ==
  /\ left[p] = {}
  /\ \A r \in deletes[p] : r \in Requests /\ row[r] = "raw" /\ bucket[r] <= cutoff[p]
  /\ \A h \in Hours : h <= cutoff[p] /\ Day(h) \notin raced => Raw(h) \subseteq deletes[p]
  /\ \A h \in Hours : Matches(adds[p][h], Raw(h) \cap deletes[p], Day(h) \notin raced)

RawStage(p) ==
  /\ cutoff[p] \in Hours /\ cutoff[p] + 1 >= began[p]
  /\ \A h \in left[p] : h \in Hours /\ h <= cutoff[p]
  /\ pc[p] \in Counting => CountStage(p)
  /\ pc[p] = "commitRaw" => CommitStage(p)

FoldStage(p, F) ==
  /\ \A h \in Hours : Day(h) < cutoff[p] => h < began[p]
  /\ \A d \in left[p] : \E h \in HoursBefore(cutoff[p]) : d = Day(h)
  /\ \A d \in Days : sets[p][d] # Nil =>
       /\ Matches(sets[p][d], Due(F, d), d \notin raced)
       /\ \E h \in HoursBefore(cutoff[p]) : d = Day(h)
  /\ \A h \in HoursBefore(cutoff[p]) : Day(h) \in left[p] \/ sets[p][Day(h)] # Nil
  /\ pc[p] = "replace" =>
       left[p] # {} /\ Matches(sum[p], Due(F, Least(left[p])), Least(left[p]) \notin raced)
  /\ pc[p] = "commitDaily" => left[p] = {} /\ deletes[p] = HoursBefore(cutoff[p])
  /\ pc[p] # "commitDaily" => deletes[p] = {}

DailyStage(p, F) ==
  /\ \A h \in Hours : h < began[p] /\ Day(h) \notin raced => Raw(h) = {}
  /\ pc[p] \in Folding => FoldStage(p, F)

Stage(p, F) ==
  /\ began[p] <= now /\ now <= began[p] + 1
  /\ pc[p] \in Counting \cup {"commitRaw"} => RawStage(p)
  /\ pc[p] \in Folding \cup {"daily"} => DailyStage(p, F)

TurnsTaken == \A p, q \in Passes : pc[p] # "idle" /\ pc[q] # "idle" => p = q

Sound(F) == Tables(F) /\ \A p \in Passes : pc[p] # "idle" => Stage(p, F)
CInv == Nil \notin raced => TurnsTaken /\ FoldedWhole /\ \E F \in SUBSET Requests : Sound(F)
MInv == TypeOK /\ Tidy /\ CInv
-----------------------------------------------------------------------------
(* Types.                                                                  *)

\* The tables and the registers of the passes keep their types.
LEMMA TypesHold ==
  ASSUME TypeOK, Tidy, [Next]_vars
  PROVE  TypeOK' /\ Tidy'
<1> USE DaysAreHours
<1>1. CASE UNCHANGED vars
  BY <1>1 DEF TypeOK, Tidy, Bucketed, Pending, Counting, Folding, vars, metrics, pass, Open
<1>2. CASE Tick
  <2>1. now + 1 \in Hours
    BY <1>2, MetricsAssumption DEF Tick, TypeOK, Hours
  <2>2. QED
    BY <1>2, <2>1 DEF Tick, TypeOK, Tidy, Bucketed, Pending, Counting, Folding, pass, Open
<1>3. ASSUME NEW r \in Requests, Handle(r)
      PROVE  TypeOK' /\ Tidy'
  <2>1. PICK h \in Hours : row' = [row EXCEPT ![r] = "raw"] /\ bucket' = [bucket EXCEPT ![r] = h]
    BY <1>3 DEF Handle, Observed
  <2>2. raced' \subseteq Days \cup {Nil}
    BY <1>3 DEF Handle, Observed, TypeOK
  <2>3. QED
    BY <1>3, <2>1, <2>2 DEF Handle, TypeOK, Tidy, Bucketed, Pending, Counting, Folding, pass, Open
<1>4. ASSUME NEW p \in Passes, ListRaw(p)
      PROVE  TypeOK' /\ Tidy'
  <2>1. PICK c \in Hours :
          /\ cutoff' = [cutoff EXCEPT ![p] = c]
          /\ left' = [left EXCEPT ![p] = {h \in 0 .. c : Raw(h) # {}}]
    BY <1>4 DEF ListRaw
  <2>2. {h \in 0 .. c : Raw(h) # {}} \subseteq Hours
    BY <2>1, MetricsAssumption DEF Hours
  <2>3. cutoff' \in [Passes -> Nat] /\ left' \in [Passes -> SUBSET Hours]
    BY <2>1, <2>2 DEF TypeOK
  <2>4. began' \in [Passes -> Hours] /\ raced' \subseteq Days \cup {Nil}
    BY <1>4 DEF ListRaw, TypeOK
  <2>5. \E to \in {"aggregate", "daily"} : pc' = [pc EXCEPT ![p] = to]
    BY <1>4 DEF ListRaw, Goto
  <2>6. QED
    BY <1>4, <2>3, <2>4, <2>5 DEF ListRaw, TypeOK, Tidy, Bucketed, Pending, Counting, Folding, metrics, Open
<1>5. ASSUME NEW p \in Passes, AggregateRaw(p)
      PROVE  TypeOK' /\ Tidy'
  <2>1. Raw(Least(left[p])) \subseteq Requests
    BY DEF Raw
  <2>2. Cardinality(Raw(Least(left[p]))) \in Nat
    BY <2>1, RequestsCounted
  <2>3. QED
    BY <1>5, <2>2 DEF AggregateRaw, Goto, TypeOK, Tidy, Bucketed, Pending, Counting, Folding, metrics, Open
<1>6. ASSUME NEW p \in Passes, UpsertHourly(p)
      PROVE  TypeOK' /\ Tidy'
  BY <1>6 DEF UpsertHourly, Goto, TypeOK, Tidy, Bucketed, Pending, Counting, Folding, metrics, Open
<1>7. ASSUME NEW p \in Passes, DeleteRaw(p)
      PROVE  TypeOK' /\ Tidy'
  <2>1. RawThrough(cutoff[p]) \subseteq Requests /\ \A r \in RawThrough(cutoff[p]) : bucket[r] \in Hours
    BY DEF RawThrough, Raw, Tidy, Bucketed
  <2>2. QED
    BY <1>7, <2>1 DEF DeleteRaw, Goto, TypeOK, Tidy, Bucketed, Pending, Counting, Folding, metrics, Open
<1>8. ASSUME NEW p \in Passes, CommitRaw(p)
      PROVE  TypeOK' /\ Tidy'
  <2>1. hourly' \in [Hours -> Nat \cup {Nil}]
    BY <1>8 DEF CommitRaw, TypeOK, Count
  <2>2. row' \in [Requests -> {"none", "raw", "gone"}]
    BY <1>8 DEF CommitRaw, TypeOK
  <2>3. Bucketed'
    <3>1. deletes[p] \in SUBSET (Requests \cup Hours)
      BY DEF TypeOK
    <3>2. QED
      BY <1>8 DEF CommitRaw, TypeOK, Tidy, Bucketed, Pending
  <2>4. adds' \in [Passes -> [Hours -> Nat]] /\ deletes' \in [Passes -> SUBSET (Requests \cup Hours)]
    BY <1>8 DEF CommitRaw, TypeOK, NoAdds
  <2>5. /\ pc[p] = "commitRaw" /\ pc' = [pc EXCEPT ![p] = "daily"]
        /\ adds' = [adds EXCEPT ![p] = NoAdds] /\ deletes' = [deletes EXCEPT ![p] = {}]
        /\ UNCHANGED <<now, bucket, daily, began, cutoff, left, sum, sets, raced, faults>>
    BY <1>8 DEF CommitRaw, Goto
  <2>6. TypeOK'
    BY <2>1, <2>2, <2>4, <2>5 DEF TypeOK, Tidy, Pending, Counting, Open
  <2>7. \A q \in Passes : Pending(q)'
    BY <2>5 DEF TypeOK, Tidy, Pending, Counting, Folding
  <2>8. QED
    BY <2>3, <2>6, <2>7 DEF Tidy
<1>9. ASSUME NEW p \in Passes, EndPass(p)
      PROVE  TypeOK' /\ Tidy'
  BY <1>9 DEF EndPass, End, Goto, TypeOK, Tidy, Bucketed, Pending, Counting, Folding, metrics, Open
<1>10. ASSUME NEW p \in Passes, ListHourly(p)
      PROVE  TypeOK' /\ Tidy'
  <2>1. PICK c \in Nat : /\ cutoff' = [cutoff EXCEPT ![p] = c]
                         /\ left' = [left EXCEPT ![p] = {Day(h) : h \in HoursBefore(c)}]
    <3>1. now \in Nat
      BY DEF TypeOK
    <3>2. Day(now) \in Nat
      BY <3>1, DayOfHour
    <3>3. PICK c : c = IF Day(now) < KeepDays THEN 0 ELSE Day(now) - KeepDays
      OBVIOUS
    <3>4. c \in Nat
      BY <3>2, <3>3, MetricsAssumption
    <3>5. QED
      BY <1>10, <3>3, <3>4 DEF ListHourly
  <2>2. {Day(h) : h \in HoursBefore(c)} \subseteq Hours
    BY DEF HoursBefore
  <2>3. QED
    BY <1>10, <2>1, <2>2 DEF ListHourly, Goto, TypeOK, Tidy, Bucketed, Pending, Counting, Folding, metrics, Open
<1>11. ASSUME NEW p \in Passes, AggregateHourly(p)
      PROVE  TypeOK' /\ Tidy'
  <2>1. PICK n : n = MapThenSumSet(Count, HoursOf(Least(left[p])))
    OBVIOUS
  <2>2. n \in Nat
    <3>1. HoursOf(Least(left[p])) \subseteq Hours /\ \A h \in HoursOf(Least(left[p])) : Count(h) \in Nat
      BY DEF HoursOf, Count, TypeOK
    <3>2. QED
      BY <2>1, <3>1, SumIsNat
  <2>3. sum' = [sum EXCEPT ![p] = n]
    BY <1>11, <2>1 DEF AggregateHourly
  <2>4. QED
    BY <1>11, <2>2, <2>3 DEF AggregateHourly, Goto, TypeOK, Tidy, Bucketed, Pending, Counting, Folding, metrics, Open
<1>12. ASSUME NEW p \in Passes, UpsertDaily(p)
      PROVE  TypeOK' /\ Tidy'
  BY <1>12 DEF UpsertDaily, Goto, TypeOK, Tidy, Bucketed, Pending, Counting, Folding, metrics, Open
<1>13. ASSUME NEW p \in Passes, DeleteHourly(p)
      PROVE  TypeOK' /\ Tidy'
  BY <1>13 DEF DeleteHourly, HoursBefore, Goto, TypeOK, Tidy, Bucketed, Pending, Counting, Folding, metrics, Open
<1>14. ASSUME NEW p \in Passes, CommitDaily(p)
      PROVE  TypeOK' /\ Tidy'
  <2>1. daily' \in [Days -> Nat \cup {Nil}] /\ hourly' \in [Hours -> Nat \cup {Nil}]
    BY <1>14 DEF CommitDaily, TypeOK
  <2>2. sets' \in [Passes -> [Days -> Nat \cup {Nil}]] /\ deletes' \in [Passes -> SUBSET (Requests \cup Hours)]
    BY <1>14 DEF CommitDaily, TypeOK, NoSets
  <2>3. adds[p] = NoAdds
    BY <1>14 DEF CommitDaily, Tidy, Pending, Folding
  <2>4. QED
    BY <1>14, <2>1, <2>2, <2>3 DEF CommitDaily, End, Goto, TypeOK, Tidy, Bucketed, Pending, Counting, Folding, Open
<1>15. ASSUME NEW p \in Passes, RollBack(p)
      PROVE  TypeOK' /\ Tidy'
  <2>1. /\ adds' \in [Passes -> [Hours -> Nat]] /\ sets' \in [Passes -> [Days -> Nat \cup {Nil}]]
        /\ deletes' \in [Passes -> SUBSET (Requests \cup Hours)]
    BY <1>15 DEF RollBack, TypeOK, NoAdds, NoSets
  <2>2. faults' \in 0 .. MaxFaults
    BY <1>15, MetricsAssumption DEF RollBack, TypeOK
  <2>3. QED
    BY <1>15, <2>1, <2>2 DEF RollBack, End, Goto, TypeOK, Tidy, Bucketed, Pending, Counting, Folding, metrics, Open
<1>16. QED
  BY <1>1, <1>2, <1>3, <1>4, <1>5, <1>6, <1>7, <1>8, <1>9, <1>10, <1>11, <1>12, <1>13, <1>14, <1>15
     DEF Next, RollRaw, RollDaily

\* The sum over the hours of a day is a count of what they stand for.
LEMMA DayOfHours ==
  ASSUME TypeOK, Tidy, NEW F \in SUBSET Requests, Tables(F), NEW d
  PROVE  /\ MapThenSumSet(Count, HoursOf(d)) \in Nat
         /\ Matches(MapThenSumSet(Count, HoursOf(d)), Due(F, d), d \notin raced)
<1>1. PICK X : X = [h \in Hours |-> Gone(h) \ F]
  OBVIOUS
<1>2. HoursOf(d) \subseteq Hours /\ X \in [Hours -> SUBSET Requests]
  BY <1>1 DEF HoursOf, Gone
<1>3. ASSUME NEW h \in HoursOf(d)
      PROVE  Count(h) \in Nat /\ Matches(Count(h), X[h], d \notin raced)
  <2>1. h \in Hours /\ Day(h) = d
    BY DEF HoursOf
  <2>2. Count(h) \in Nat
    BY <2>1 DEF Count, TypeOK
  <2>3. QED
    BY <1>1, <2>1, <2>2 DEF Tables
<1>4. \A h, k \in HoursOf(d) : h # k => X[h] \cap X[k] = {}
  BY <1>1, <1>2 DEF Gone
<1>5. Sets(X, HoursOf(d)) = Due(F, d)
  <2>1. Sets(X, HoursOf(d)) \subseteq Due(F, d)
    BY <1>1, <1>2 DEF Sets, HoursOf, Gone, Due
  <2>2. ASSUME NEW r \in Due(F, d) PROVE r \in Sets(X, HoursOf(d))
    <3>1. bucket[r] \in HoursOf(d) /\ r \in Gone(bucket[r]) \ F
      BY <2>2 DEF Due, HoursOf, Gone, Tidy, Bucketed
    <3>2. QED
      BY <1>1, <1>2, <3>1 DEF Sets
  <2>3. QED
    BY <2>1, <2>2
<1>6. PICK S, exact : S = HoursOf(d) /\ exact = (d \notin raced)
  OBVIOUS
<1>7. /\ S \subseteq Hours /\ \A h \in S : Count(h) \in Nat /\ Matches(Count(h), X[h], exact)
      /\ \A h, k \in S : h # k => X[h] \cap X[k] = {}
  BY <1>2, <1>3, <1>4, <1>6
<1>8. MapThenSumSet(Count, S) \in Nat /\ Matches(MapThenSumSet(Count, S), Sets(X, S), exact)
  BY <1>2, <1>7, SumMatches
<1>9. S = HoursOf(d) /\ Sets(X, S) = Due(F, d)
  BY <1>5, <1>6
<1>10. QED
  BY <1>6, <1>8, <1>9

-----------------------------------------------------------------------------
(* The invariant is kept.  A step of a pass that is not idle is the step   *)
(* of the only one.                                                        *)

\* That a step of the only pass keeps the stages is a matter of its own stage.
LEMMA OnlyPass ==
  ASSUME TypeOK, TurnsTaken, NEW p \in Passes, pc[p] # "idle", NEW to, pc' = [pc EXCEPT ![p] = to],
         NEW F, to # "idle" => Stage(p, F)'
  PROVE  TurnsTaken' /\ \A q \in Passes : pc'[q] # "idle" => Stage(q, F)'
<1>1. \A q \in Passes : q # p => pc'[q] = "idle"
  BY DEF TypeOK, TurnsTaken
<1>2. pc'[p] = to
  BY DEF TypeOK
<1>3. TurnsTaken'
  BY <1>1 DEF TurnsTaken
<1>4. QED
  BY <1>1, <1>2, <1>3

\* Steps that change no table and no race keep what the tables stand for.
LEMMA TablesKept ==
  ASSUME NEW F, Tables(F), FoldedWhole, UNCHANGED <<row, bucket, hourly, daily, raced>>
  PROVE  Tables(F)' /\ FoldedWhole'
BY DEF Tables, FoldedWhole, Matches, Count, Gone, Folded, DayCount, Raw

\* A pass begins: nothing is pending, and of the hours to do none has an increment.
LEMMA ListRawSound ==
  ASSUME TypeOK, Tidy, FoldedWhole, NEW F \in SUBSET Requests, Sound(F),
         NEW p \in Passes, ListRaw(p), Nil \notin raced'
  PROVE  TurnsTaken' /\ FoldedWhole' /\ Sound(F)'
<1>1. /\ pc[p] = "idle" /\ \A q \in Passes : pc[q] = "idle"
      /\ raced' = raced
  BY DEF ListRaw
<1>2. PICK c \in Hours :
        /\ c \in {now, now - 1} /\ cutoff' = [cutoff EXCEPT ![p] = c]
        /\ left' = [left EXCEPT ![p] = {h \in 0 .. c : Raw(h) # {}}]
        /\ pc' = [pc EXCEPT ![p] = IF \E h \in 0 .. c : Raw(h) # {} THEN "aggregate" ELSE "daily"]
  BY DEF ListRaw, Goto
<1>3. /\ began' = [began EXCEPT ![p] = now] /\ UNCHANGED <<row, bucket, hourly, daily, now, adds, deletes>>
  BY DEF ListRaw, metrics
<1>4. Tables(F)' /\ FoldedWhole'
  BY <1>1, <1>3, TablesKept DEF Sound
<1>5. TurnsTaken' /\ \A q \in Passes : pc'[q] # "idle" => q = p
  BY <1>1, <1>2 DEF TypeOK, TurnsTaken
<1>6. \A h : Raw(h)' = Raw(h)
  BY <1>3 DEF Raw
<1>7. /\ cutoff'[p] = c /\ left'[p] = {h \in 0 .. c : Raw(h) # {}} /\ began'[p] = now /\ now' = now
      /\ adds'[p] = NoAdds /\ deletes'[p] = {} /\ now \in Nat /\ c \in Nat /\ c + 1 >= now
  BY <1>1, <1>2, <1>3, DaysAreHours DEF TypeOK, Open
<1>8. \A h \in Hours : h <= c <=> h \in 0 .. c
  BY <1>7, DaysAreHours
<1>9. CASE \E h \in 0 .. c : Raw(h) # {}
  <2>1. pc'[p] = "aggregate"
    BY <1>2, <1>9 DEF TypeOK
  <2>2. ASSUME NEW h \in Hours, ~(h \in left'[p] \/ h > cutoff'[p])
        PROVE  Matches(adds'[p][h], Raw(h)', (Day(h) \notin raced)')
    <3>1. Raw(h) = {} /\ adds'[p][h] = 0
      BY <1>7, <1>8, <2>2, DaysAreHours DEF NoAdds
    <3>2. QED
      BY <1>6, <3>1, MatchesNone
  <2>3. CountStage(p)'
    BY <1>7, <2>1, <2>2 DEF CountStage, NoAdds
  <2>4. \A h \in left'[p] : h \in Hours /\ h <= c
    BY <1>2, <1>7, MetricsAssumption DEF Hours
  <2>5. Stage(p, F)'
    BY <1>2, <1>7, <2>1, <2>3, <2>4 DEF Stage, RawStage, Counting, Folding
  <2>6. QED
    BY <1>4, <1>5, <2>5 DEF Sound
<1>10. CASE ~\E h \in 0 .. c : Raw(h) # {}
  <2>1. pc'[p] = "daily"
    BY <1>2, <1>10 DEF TypeOK
  <2>2. ASSUME NEW h \in Hours, h < began'[p] PROVE Raw(h)' = {}
    BY <1>6, <1>7, <1>8, <1>10, <2>2, DaysAreHours
  <2>3. Stage(p, F)'
    BY <1>7, <2>1, <2>2 DEF Stage, DailyStage, Counting, Folding
  <2>4. QED
    BY <1>4, <1>5, <2>3 DEF Sound
<1>11. QED
  BY <1>9, <1>10

\* The count of the hour at hand is of the rows that are there.
LEMMA AggregateRawSound ==
  ASSUME TypeOK, TurnsTaken, FoldedWhole, NEW F \in SUBSET Requests, Sound(F),
         NEW p \in Passes, AggregateRaw(p)
  PROVE  TurnsTaken' /\ FoldedWhole' /\ Sound(F)'
<1>1. /\ pc[p] = "aggregate" /\ left[p] # {}
      /\ sum' = [sum EXCEPT ![p] = Cardinality(Raw(Least(left[p])))]
      /\ pc' = [pc EXCEPT ![p] = "increment"]
      /\ UNCHANGED <<metrics, began, cutoff, left, adds, sets, deletes, raced, faults>>
  BY DEF AggregateRaw, Goto
<1>2. Tables(F)' /\ FoldedWhole'
  BY <1>1, TablesKept DEF Sound, metrics
<1>3. RawStage(p) /\ CountStage(p) /\ began[p] <= now /\ now <= began[p] + 1
  BY <1>1 DEF Sound, Stage, RawStage, Counting
<1>4. \A h : Raw(h)' = Raw(h)
  BY <1>1 DEF Raw, metrics
<1>5. sum'[p] = Cardinality(Raw(Least(left[p]))) /\ Cardinality(Raw(Least(left[p]))) \in Nat
  <2>1. Raw(Least(left[p])) \subseteq Requests
    BY DEF Raw
  <2>2. QED
    BY <1>1, <2>1, RequestsCounted DEF TypeOK
<1>6. Matches(sum'[p], Raw(Least(left[p])), (Day(Least(left[p])) \notin raced)')
  BY <1>5 DEF Matches
<1>7. CountStage(p)'
  BY <1>1, <1>3, <1>4, <1>6 DEF CountStage
<1>8. pc'[p] = "increment"
  BY <1>1 DEF TypeOK
<1>9. Stage(p, F)'
  BY <1>1, <1>3, <1>7, <1>8 DEF Stage, RawStage, Counting, Folding, metrics
<1>10. QED
  BY <1>1, <1>2, <1>9, OnlyPass DEF Sound

\* The increment of an hour is its count.
LEMMA UpsertHourlySound ==
  ASSUME TypeOK, TurnsTaken, FoldedWhole, NEW F \in SUBSET Requests, Sound(F),
         NEW p \in Passes, UpsertHourly(p)
  PROVE  TurnsTaken' /\ FoldedWhole' /\ Sound(F)'
<1>1. PICK k : k = Least(left[p])
  OBVIOUS
<1>2. /\ pc[p] = "increment"
      /\ adds' = [adds EXCEPT ![p][k] = sum[p]] /\ left' = [left EXCEPT ![p] = @ \ {k}]
      /\ pc' = [pc EXCEPT ![p] = "aggregate"]
      /\ UNCHANGED <<metrics, began, cutoff, sets, deletes, raced, faults>>
  BY <1>1 DEF UpsertHourly, Goto
<1>3. Tables(F)' /\ FoldedWhole'
  BY <1>2, TablesKept DEF Sound, metrics
<1>4. RawStage(p) /\ CountStage(p) /\ began[p] <= now /\ now <= began[p] + 1
  BY <1>2 DEF Sound, Stage, RawStage, Counting
<1>5. left[p] # {} /\ Matches(sum[p], Raw(k), Day(k) \notin raced)
  BY <1>1, <1>2, <1>4 DEF CountStage
<1>6. k \in left[p] /\ k \in Hours
  <2>1. left[p] \subseteq Nat /\ left[p] \subseteq Hours
    BY DaysAreHours DEF TypeOK
  <2>2. QED
    BY <1>1, <1>5, <2>1, LeastIn
<1>7. \A h : Raw(h)' = Raw(h)
  BY <1>2 DEF Raw, metrics
<1>8. \A h \in Hours : adds'[p][h] = IF h = k THEN sum[p] ELSE adds[p][h]
  BY <1>2, <1>6 DEF TypeOK
<1>9. left'[p] = left[p] \ {k} /\ pc'[p] = "aggregate"
  BY <1>2 DEF TypeOK
<1>10. k <= cutoff[p] /\ k \in Nat /\ cutoff[p] \in Nat
  BY <1>4, <1>6, DaysAreHours DEF RawStage
<1>11. CountStage(p)'
  <2>1. ASSUME NEW h \in Hours
        PROVE  IF h \in left'[p] \/ h > cutoff'[p] THEN adds'[p][h] = 0
               ELSE Matches(adds'[p][h], Raw(h)', (Day(h) \notin raced)')
    <3>1. CASE h = k
      BY <1>2, <1>5, <1>7, <1>8, <1>9, <1>10, <3>1
    <3>2. CASE h # k
      BY <1>2, <1>4, <1>7, <1>8, <1>9, <3>2 DEF CountStage
    <3>3. QED
      BY <3>1, <3>2
  <2>2. QED
    BY <1>2, <1>4, <1>9, <2>1 DEF CountStage
<1>12. Stage(p, F)'
  BY <1>2, <1>4, <1>9, <1>11 DEF Stage, RawStage, Counting, Folding, metrics
<1>13. QED
  BY <1>2, <1>3, <1>12, OnlyPass DEF Sound

\* Rows that came since their hour was counted are deleted with the others: of those, fewer are
\* counted than deleted, on a day that a row raced with.
LEMMA DeleteRawSound ==
  ASSUME TypeOK, TurnsTaken, FoldedWhole, NEW F \in SUBSET Requests, Sound(F),
         NEW p \in Passes, DeleteRaw(p)
  PROVE  TurnsTaken' /\ FoldedWhole' /\ Sound(F)'
<1>1. /\ pc[p] = "aggregate" /\ left[p] = {}
      /\ deletes' = [deletes EXCEPT ![p] = RawThrough(cutoff[p])]
      /\ pc' = [pc EXCEPT ![p] = "commitRaw"]
      /\ UNCHANGED <<metrics, began, cutoff, left, sum, adds, sets, raced, faults>>
  BY DEF DeleteRaw, Goto
<1>2. Tables(F)' /\ FoldedWhole'
  BY <1>1, TablesKept DEF Sound, metrics
<1>3. RawStage(p) /\ CountStage(p) /\ began[p] <= now /\ now <= began[p] + 1
  BY <1>1 DEF Sound, Stage, RawStage, Counting
<1>4. \A h : Raw(h)' = Raw(h)
  BY <1>1 DEF Raw, metrics
<1>5. deletes'[p] = RawThrough(cutoff[p]) /\ pc'[p] = "commitRaw"
  BY <1>1 DEF TypeOK
<1>6. cutoff[p] \in Nat /\ cutoff[p] \in Hours
  BY <1>3, DaysAreHours DEF RawStage
<1>7. \A h \in Hours : h <= cutoff[p] => Raw(h) \subseteq RawThrough(cutoff[p])
  BY <1>6, DaysAreHours DEF RawThrough
<1>8. \A r \in RawThrough(cutoff[p]) : r \in Requests /\ row[r] = "raw" /\ bucket[r] <= cutoff[p]
  BY <1>6 DEF RawThrough, Raw
<1>9. ASSUME NEW h \in Hours
      PROVE  Matches(adds[p][h], Raw(h) \cap RawThrough(cutoff[p]), Day(h) \notin raced)
  <2>1. CASE h > cutoff[p]
    <3>1. adds[p][h] = 0
      BY <1>3, <2>1 DEF CountStage
    <3>2. Raw(h) \cap RawThrough(cutoff[p]) = {}
      BY <1>6, <1>8, <2>1, DaysAreHours DEF Raw
    <3>3. QED
      BY <3>1, <3>2, MatchesNone
  <2>2. CASE ~(h > cutoff[p])
    <3>1. Matches(adds[p][h], Raw(h), Day(h) \notin raced)
      BY <1>1, <1>3, <2>2 DEF CountStage
    <3>2. Raw(h) \cap RawThrough(cutoff[p]) = Raw(h)
      BY <1>6, <1>7, <2>2, DaysAreHours
    <3>3. QED
      BY <3>1, <3>2
  <2>3. QED
    BY <2>1, <2>2
<1>10. CommitStage(p)'
  BY <1>1, <1>4, <1>5, <1>7, <1>8, <1>9 DEF CommitStage, metrics
<1>11. Stage(p, F)'
  BY <1>1, <1>3, <1>5, <1>10 DEF Stage, RawStage, Counting, Folding, metrics
<1>12. QED
  BY <1>1, <1>2, <1>11, OnlyPass DEF Sound

\* What was pending becomes what the hours stand for.
LEMMA CommitRawSound ==
  ASSUME TypeOK, Tidy, TurnsTaken, FoldedWhole, NEW F \in SUBSET Requests, Sound(F),
         NEW p \in Passes, CommitRaw(p)
  PROVE  TurnsTaken' /\ FoldedWhole' /\ Sound(F)'
<1>1. /\ pc[p] = "commitRaw"
      /\ hourly' = [h \in Hours |-> IF adds[p][h] = 0 THEN hourly[h] ELSE Count(h) + adds[p][h]]
      /\ row' = [r \in Requests |-> IF r \in deletes[p] THEN "gone" ELSE row[r]]
      /\ pc' = [pc EXCEPT ![p] = "daily"]
      /\ UNCHANGED <<now, bucket, daily, began, cutoff, raced>>
  BY DEF CommitRaw, Goto
<1>2. RawStage(p) /\ CommitStage(p) /\ began[p] <= now /\ now <= began[p] + 1
  BY <1>1 DEF Sound, Stage, RawStage
<1>3. \A h \in Hours : Count(h) \in Nat /\ adds[p][h] \in Nat /\ Count(h)' = Count(h) + adds[p][h]
  <2> SUFFICES ASSUME NEW h \in Hours
               PROVE  Count(h) \in Nat /\ adds[p][h] \in Nat /\ Count(h)' = Count(h) + adds[p][h]
    OBVIOUS
  <2>1. hourly[h] \in Nat \cup {Nil} /\ Count(h) \in Nat /\ adds[p][h] \in Nat
    BY DEF TypeOK, Count
  <2>2. hourly'[h] = IF adds[p][h] = 0 THEN hourly[h] ELSE Count(h) + adds[p][h]
    BY <1>1
  <2>3. QED
    BY <2>1, <2>2, MetricsAssumption DEF Count
<1>4. ASSUME NEW h \in Hours
      PROVE  /\ Gone(h)' = Gone(h) \cup (Raw(h) \cap deletes[p])
             /\ Gone(h) \cap Raw(h) = {} /\ Raw(h)' = Raw(h) \ deletes[p]
  <2>1. \A r \in Requests : r \in deletes[p] => row[r] = "raw"
    BY <1>2 DEF CommitStage
  <2>2. QED
    BY <1>1, <2>1 DEF Gone, Raw
<1>5. Tables(F)'
  <2>1. ASSUME NEW h \in Hours
        PROVE  Matches(Count(h)', Gone(h)' \ F, (Day(h) \notin raced)')
    <3>1. Matches(Count(h), Gone(h) \ F, Day(h) \notin raced)
      BY DEF Sound, Tables
    <3>2. Matches(adds[p][h], Raw(h) \cap deletes[p], Day(h) \notin raced)
      BY <1>2 DEF CommitStage
    <3>3. F \cap Raw(h) = {}
      BY DEF Sound, Tables, Raw
    <3>4. Gone(h)' \ F = (Gone(h) \ F) \cup (Raw(h) \cap deletes[p])
      BY <1>4, <3>3
    <3>5. /\ Gone(h) \ F \subseteq Requests /\ Raw(h) \cap deletes[p] \subseteq Requests
          /\ (Gone(h) \ F) \cap (Raw(h) \cap deletes[p]) = {}
      BY <1>4 DEF Gone, Raw
    <3>6. Matches(Count(h) + adds[p][h], (Gone(h) \ F) \cup (Raw(h) \cap deletes[p]), Day(h) \notin raced)
      BY <1>3, <3>1, <3>2, <3>5, MatchesBoth
    <3>7. QED
      BY <1>1, <1>3, <3>4, <3>6
  <2>2. \A r \in F : row'[r] = "gone"
    BY <1>1 DEF Sound, Tables
  <2>3. \A d : Folded(F, d)' = Folded(F, d) /\ DayCount(d)' = DayCount(d)
    BY <1>1 DEF Folded, DayCount
  <2>4. QED
    BY <1>1, <2>1, <2>2, <2>3 DEF Sound, Tables
<1>6. FoldedWhole'
  <2> SUFFICES ASSUME NEW h \in Hours, Day(h) \notin raced, daily[Day(h)] # Nil
               PROVE  hourly'[h] = Nil /\ Raw(h)' = {}
    BY <1>1 DEF FoldedWhole
  <2>1. hourly[h] = Nil /\ Raw(h) = {}
    BY DEF FoldedWhole
  <2>2. Matches(adds[p][h], {}, TRUE)
    BY <1>2, <2>1 DEF CommitStage, Matches
  <2>3. adds[p][h] = 0
    BY <2>2, FS_EmptySet DEF Matches
  <2>4. QED
    BY <1>1, <1>4, <2>1, <2>3
<1>7. Stage(p, F)'
  <2>1. pc'[p] = "daily"
    BY <1>1 DEF TypeOK
  <2>2. ASSUME NEW h \in Hours, h < began[p], Day(h) \notin raced
        PROVE  Raw(h)' = {}
    <3>1. h \in Nat /\ cutoff[p] \in Nat /\ began[p] \in Nat /\ cutoff[p] + 1 >= began[p]
      BY <1>2, DaysAreHours DEF TypeOK, RawStage
    <3>2. Raw(h) \subseteq deletes[p]
      BY <1>2, <2>2, <3>1 DEF CommitStage
    <3>3. QED
      BY <1>4, <3>2
  <2>3. QED
    BY <1>1, <1>2, <2>1, <2>2 DEF Stage, DailyStage, Counting, Folding
<1>8. QED
  BY <1>1, <1>5, <1>6, <1>7, OnlyPass DEF Sound

\* A pass without a day to fold ends.
LEMMA EndPassSound ==
  ASSUME TypeOK, TurnsTaken, FoldedWhole, NEW F \in SUBSET Requests, Sound(F),
         NEW p \in Passes, EndPass(p) \/ RollBack(p)
  PROVE  TurnsTaken' /\ FoldedWhole' /\ Sound(F)'
<1>1. /\ pc[p] # "idle" /\ pc' = [pc EXCEPT ![p] = "idle"] /\ UNCHANGED <<metrics, raced>>
  BY DEF EndPass, RollBack, End, Goto, Open
<1>2. Tables(F)' /\ FoldedWhole'
  BY <1>1, TablesKept DEF Sound, metrics
<1>3. QED
  BY <1>1, <1>2, OnlyPass DEF Sound

\* The days before the watermark are over since the pass began, so their rows are in the hours.
LEMMA ListHourlySound ==
  ASSUME TypeOK, Tidy, TurnsTaken, FoldedWhole, NEW F \in SUBSET Requests, Sound(F),
         NEW p \in Passes, ListHourly(p), KeepDays # 0
  PROVE  TurnsTaken' /\ FoldedWhole' /\ Sound(F)'
<1>1. PICK c : c = IF Day(now) < KeepDays THEN 0 ELSE Day(now) - KeepDays
  OBVIOUS
<1>2. /\ pc[p] = "daily"
      /\ cutoff' = [cutoff EXCEPT ![p] = c]
      /\ left' = [left EXCEPT ![p] = {Day(h) : h \in HoursBefore(c)}]
      /\ pc' = [pc EXCEPT ![p] = "sumDay"]
      /\ UNCHANGED <<metrics, began, sum, adds, sets, deletes, raced, faults>>
  BY <1>1 DEF ListHourly, Goto
<1>3. Tables(F)' /\ FoldedWhole'
  BY <1>2, TablesKept DEF Sound, metrics
<1>4. DailyStage(p, F) /\ began[p] <= now /\ now <= began[p] + 1 /\ now \in Nat /\ began[p] \in Nat
  BY <1>2, DaysAreHours DEF Sound, Stage, TypeOK
<1>5. /\ cutoff'[p] = c /\ left'[p] = {Day(h) : h \in HoursBefore(c)} /\ pc'[p] = "sumDay"
      /\ sets'[p] = NoSets /\ deletes'[p] = {}
  BY <1>2 DEF TypeOK, Open
<1>6. ASSUME NEW h \in Hours, Day(h) < c PROVE h < began[p]
  <2>1. h \in Nat /\ Day(h) \in Nat /\ Day(now) \in Nat /\ Day(began[p]) \in Nat
    BY <1>4, DayOfHour, DaysAreHours
  <2>2. Day(h) < Day(now) - KeepDays
    BY <1>1, <1>6, <2>1
  <2>3. Day(now) <= Day(began[p]) + 1
    <3>1. now = began[p] \/ now = began[p] + 1
      BY <1>4
    <3>2. QED
      BY <1>4, <2>1, <3>1, DaysInOrder
  <2>4. Day(h) < Day(began[p])
    BY <2>1, <2>2, <2>3, MetricsAssumption
  <2>5. QED
    BY <1>4, <2>1, <2>4, DaysInOrder
<1>7. FoldStage(p, F)'
  <2>1. \A d \in Days : sets'[p][d] = Nil
    BY <1>5 DEF NoSets
  <2>2. \A k : HoursBefore(k)' = HoursBefore(k)
    BY <1>2 DEF HoursBefore, metrics
  <2>3. QED
    BY <1>2, <1>5, <1>6, <2>1, <2>2 DEF FoldStage
<1>8. \A h : Raw(h)' = Raw(h)
  BY <1>2 DEF Raw, metrics
<1>9. Stage(p, F)'
  BY <1>2, <1>4, <1>5, <1>7, <1>8 DEF Stage, DailyStage, Counting, Folding, metrics
<1>10. QED
  BY <1>2, <1>3, <1>9, OnlyPass DEF Sound

\* The sum of a day is a count of what its hours stand for.
LEMMA AggregateHourlySound ==
  ASSUME TypeOK, Tidy, TurnsTaken, FoldedWhole, NEW F \in SUBSET Requests, Sound(F),
         NEW p \in Passes, AggregateHourly(p)
  PROVE  TurnsTaken' /\ FoldedWhole' /\ Sound(F)'
<1>1. PICK d : d = Least(left[p])
  OBVIOUS
<1>2. PICK n : n = MapThenSumSet(Count, HoursOf(d))
  OBVIOUS
<1>3. /\ pc[p] = "sumDay" /\ left[p] # {} /\ sum' = [sum EXCEPT ![p] = n]
      /\ pc' = [pc EXCEPT ![p] = "replace"]
      /\ UNCHANGED <<metrics, began, cutoff, left, adds, sets, deletes, raced, faults>>
  BY <1>1, <1>2 DEF AggregateHourly, Goto
<1>4. Tables(F)' /\ FoldedWhole'
  BY <1>3, TablesKept DEF Sound, metrics
<1>5. /\ DailyStage(p, F) /\ FoldStage(p, F) /\ began[p] <= now /\ now <= began[p] + 1
  BY <1>3 DEF Sound, Stage, DailyStage, Folding
<1>6. n \in Nat /\ Matches(n, Due(F, d), d \notin raced)
  BY <1>2, DayOfHours DEF Sound
<1>7. /\ \A e : Due(F, e)' = Due(F, e)
      /\ \A k : HoursBefore(k)' = HoursBefore(k)
      /\ \A h : Raw(h)' = Raw(h)
  BY <1>3 DEF Due, HoursBefore, Raw, metrics
<1>8. sum'[p] = n /\ pc'[p] = "replace" /\ left'[p] = left[p]
  BY <1>3 DEF TypeOK
<1>9. FoldStage(p, F)'
  BY <1>1, <1>3, <1>5, <1>6, <1>7, <1>8 DEF FoldStage
<1>10. Stage(p, F)'
  BY <1>3, <1>5, <1>7, <1>8, <1>9 DEF Stage, DailyStage, Counting, Folding, metrics
<1>11. QED
  BY <1>3, <1>4, <1>10, OnlyPass DEF Sound

\* The sum becomes the new row of the day.
LEMMA UpsertDailySound ==
  ASSUME TypeOK, TurnsTaken, FoldedWhole, NEW F \in SUBSET Requests, Sound(F),
         NEW p \in Passes, UpsertDaily(p)
  PROVE  TurnsTaken' /\ FoldedWhole' /\ Sound(F)'
<1>1. PICK d : d = Least(left[p])
  OBVIOUS
<1>2. /\ pc[p] = "replace"
      /\ sets' = [sets EXCEPT ![p][d] = sum[p]] /\ left' = [left EXCEPT ![p] = @ \ {d}]
      /\ pc' = [pc EXCEPT ![p] = "sumDay"]
      /\ UNCHANGED <<metrics, began, cutoff, adds, deletes, raced, faults>>
  BY <1>1 DEF UpsertDaily, Goto
<1>3. Tables(F)' /\ FoldedWhole'
  BY <1>2, TablesKept DEF Sound, metrics
<1>4. /\ DailyStage(p, F) /\ FoldStage(p, F) /\ began[p] <= now /\ now <= began[p] + 1
  BY <1>2 DEF Sound, Stage, DailyStage, Folding
<1>5. left[p] # {} /\ Matches(sum[p], Due(F, d), d \notin raced)
  BY <1>1, <1>2, <1>4 DEF FoldStage
<1>6. d \in left[p]
  <2>1. left[p] \subseteq Nat
    BY DaysAreHours DEF TypeOK
  <2>2. QED
    BY <1>1, <1>5, <2>1, LeastIn
<1>7. PICK k \in HoursBefore(cutoff[p]) : d = Day(k)
  BY <1>4, <1>6 DEF FoldStage
<1>8. d \in Days
  BY <1>7, DaysAreHours DEF HoursBefore
<1>9. /\ \A e \in Days : sets'[p][e] = IF e = d THEN sum[p] ELSE sets[p][e]
      /\ left'[p] = left[p] \ {d} /\ pc'[p] = "sumDay" /\ sum[p] # Nil
  BY <1>2, <1>8, MetricsAssumption DEF TypeOK
<1>10. /\ \A e : Due(F, e)' = Due(F, e)
       /\ \A c : HoursBefore(c)' = HoursBefore(c)
       /\ \A h : Raw(h)' = Raw(h)
  BY <1>2 DEF Due, HoursBefore, Raw, metrics
<1>11. FoldStage(p, F)'
  <2>1. ASSUME NEW e \in Days, sets'[p][e] # Nil
        PROVE  /\ Matches(sets'[p][e], Due(F, e), e \notin raced)
               /\ \E h \in HoursBefore(cutoff[p]) : e = Day(h)
    BY <1>4, <1>5, <1>7, <1>9, <2>1 DEF FoldStage
  <2>2. ASSUME NEW h \in HoursBefore(cutoff[p])
        PROVE  Day(h) \in left'[p] \/ sets'[p][Day(h)] # Nil
    <3>1. Day(h) \in Days
      BY DaysAreHours DEF HoursBefore
    <3>2. Day(h) \in left[p] \/ sets[p][Day(h)] # Nil
      BY <1>4 DEF FoldStage
    <3>3. QED
      BY <1>9, <3>1, <3>2
  <2>3. QED
    BY <1>2, <1>4, <1>9, <1>10, <2>1, <2>2 DEF FoldStage
<1>12. Stage(p, F)'
  BY <1>2, <1>4, <1>9, <1>10, <1>11 DEF Stage, DailyStage, Counting, Folding, metrics
<1>13. QED
  BY <1>2, <1>3, <1>12, OnlyPass DEF Sound

\* The hours of all days that were summed are deleted.
LEMMA DeleteHourlySound ==
  ASSUME TypeOK, TurnsTaken, FoldedWhole, NEW F \in SUBSET Requests, Sound(F),
         NEW p \in Passes, DeleteHourly(p)
  PROVE  TurnsTaken' /\ FoldedWhole' /\ Sound(F)'
<1>1. /\ pc[p] = "sumDay" /\ left[p] = {}
      /\ deletes' = [deletes EXCEPT ![p] = HoursBefore(cutoff[p])]
      /\ pc' = [pc EXCEPT ![p] = "commitDaily"]
      /\ UNCHANGED <<metrics, began, cutoff, left, sum, adds, sets, raced, faults>>
  BY DEF DeleteHourly, Goto
<1>2. Tables(F)' /\ FoldedWhole'
  BY <1>1, TablesKept DEF Sound, metrics
<1>3. /\ DailyStage(p, F) /\ FoldStage(p, F) /\ began[p] <= now /\ now <= began[p] + 1
  BY <1>1 DEF Sound, Stage, DailyStage, Folding
<1>4. deletes'[p] = HoursBefore(cutoff[p]) /\ pc'[p] = "commitDaily"
  BY <1>1 DEF TypeOK
<1>5. /\ \A e : Due(F, e)' = Due(F, e)
      /\ \A c : HoursBefore(c)' = HoursBefore(c)
      /\ \A h : Raw(h)' = Raw(h)
  BY <1>1 DEF Due, HoursBefore, Raw, metrics
<1>6. FoldStage(p, F)'
  BY <1>1, <1>3, <1>4, <1>5 DEF FoldStage
<1>7. Stage(p, F)'
  BY <1>1, <1>3, <1>4, <1>5, <1>6 DEF Stage, DailyStage, Counting, Folding, metrics
<1>8. QED
  BY <1>1, <1>2, <1>7, OnlyPass DEF Sound

\* The days that were summed stand for what their hours stood for, and the others for the same.
LEMMA CommitDailySound ==
  ASSUME TypeOK, Tidy, TurnsTaken, FoldedWhole, NEW F \in SUBSET Requests, Sound(F),
         NEW p \in Passes, CommitDaily(p)
  PROVE  TurnsTaken' /\ FoldedWhole' /\ \E G \in SUBSET Requests : Sound(G)'
<1>1. /\ pc[p] = "commitDaily"
      /\ daily' = [d \in Days |-> IF sets[p][d] = Nil THEN daily[d] ELSE sets[p][d]]
      /\ hourly' = [h \in Hours |-> IF h \in deletes[p] THEN Nil ELSE hourly[h]]
      /\ pc' = [pc EXCEPT ![p] = "idle"]
      /\ UNCHANGED <<now, bucket, row, raced>>
  BY DEF CommitDaily, End, Goto
<1>2. DailyStage(p, F) /\ FoldStage(p, F)
  BY <1>1 DEF Sound, Stage, DailyStage, Folding
<1>3. left[p] = {} /\ deletes[p] = HoursBefore(cutoff[p])
  BY <1>1, <1>2 DEF FoldStage
<1>4. PICK G : G = {r \in Requests : row[r] = "gone" /\ (r \in F <=> sets[p][Day(bucket[r])] = Nil)}
  OBVIOUS
<1>5. ASSUME NEW h \in Hours, sets[p][Day(h)] # Nil
      PROVE  h \in deletes[p] \/ hourly[h] = Nil
  <2>1. PICK k \in HoursBefore(cutoff[p]) : Day(h) = Day(k)
    BY <1>2, <1>5, DaysAreHours DEF FoldStage
  <2>2. Day(h) < cutoff[p]
    BY <2>1 DEF HoursBefore
  <2>3. QED
    BY <1>3, <2>2 DEF HoursBefore
<1>6. ASSUME NEW h \in deletes[p] PROVE h \in Hours /\ sets[p][Day(h)] # Nil /\ hourly[h] # Nil
  BY <1>2, <1>3, <1>6 DEF FoldStage, HoursBefore
(* A day that was summed, and that nothing raced with, had no row before. *)
<1>7. ASSUME NEW d \in Days, sets[p][d] # Nil, d \notin raced
      PROVE  daily[d] = Nil /\ Folded(F, d) = {} /\ \A h \in HoursOf(d) : Raw(h) = {}
  <2>1. PICK k \in HoursBefore(cutoff[p]) : d = Day(k)
    BY <1>2, <1>7 DEF FoldStage
  <2>2. k \in Hours /\ hourly[k] # Nil /\ Day(k) < cutoff[p]
    BY <2>1 DEF HoursBefore
  <2>3. daily[d] = Nil
    BY <1>7, <2>1, <2>2 DEF FoldedWhole
  <2>4. Matches(0, Folded(F, d), TRUE)
    BY <1>7, <2>3 DEF Sound, Tables, DayCount, Matches
  <2>5. Folded(F, d) = {}
    <3>1. Folded(F, d) \subseteq Requests
      BY DEF Folded
    <3>2. QED
      BY <2>4, <3>1, MatchesNone DEF Matches
  <2>6. \A h \in HoursOf(d) : Raw(h) = {}
    BY <1>2, <1>7, <2>1, <2>2 DEF FoldStage, DailyStage, HoursOf
  <2>7. QED
    BY <2>3, <2>5, <2>6
<1>8. \A h \in Hours : Matches(Count(h)', Gone(h)' \ G, (Day(h) \notin raced)')
  <2> SUFFICES ASSUME NEW h \in Hours
               PROVE  Matches(Count(h)', Gone(h)' \ G, (Day(h) \notin raced)')
    OBVIOUS
  <2>1. Gone(h)' = Gone(h) /\ raced' = raced /\ Gone(h) \subseteq Requests
    BY <1>1 DEF Gone
  <2>2. hourly'[h] = IF h \in deletes[p] THEN Nil ELSE hourly[h]
    BY <1>1
  <2>3. CASE sets[p][Day(h)] = Nil
    <3>1. Gone(h) \ G = Gone(h) \ F
      BY <1>4, <2>3 DEF Gone
    <3>2. Count(h)' = Count(h)
      BY <1>6, <2>2, <2>3 DEF Count
    <3>3. Matches(Count(h), Gone(h) \ F, Day(h) \notin raced)
      BY DEF Sound, Tables
    <3>4. QED
      BY <2>1, <3>1, <3>2, <3>3
  <2>4. CASE sets[p][Day(h)] # Nil
    <3>1. Count(h)' = 0
      BY <1>5, <2>2, <2>4 DEF Count
    <3>2. Gone(h) \ G \subseteq Requests /\ Cardinality(Gone(h) \ G) \in Nat
      <4>1. Gone(h) \ G \subseteq Requests
        BY <2>1
      <4>2. QED
        BY <4>1, RequestsCounted
    <3>3. Day(h) \notin raced => Gone(h) \ G = {}
      <4> SUFFICES ASSUME Day(h) \notin raced, NEW r \in Gone(h) PROVE r \in G
        OBVIOUS
      <4>1. r \in Requests /\ row[r] = "gone" /\ bucket[r] = h
        BY DEF Gone
      <4>2. Folded(F, Day(h)) = {}
        BY <1>7, <2>4, DaysAreHours
      <4>3. r \notin F
        BY <4>1, <4>2 DEF Folded
      <4>4. QED
        BY <1>4, <2>4, <4>1, <4>3
    <3>4. Day(h) \notin raced => Cardinality(Gone(h) \ G) = 0
      BY <3>3, MatchesNone
    <3>5. QED
      BY <2>1, <3>1, <3>2, <3>4 DEF Matches
  <2>5. QED
    BY <2>3, <2>4
<1>9. \A d \in Days : Matches(DayCount(d)', Folded(G, d)', (d \notin raced)')
  <2> SUFFICES ASSUME NEW d \in Days
               PROVE  Matches(DayCount(d)', Folded(G, d)', (d \notin raced)')
    OBVIOUS
  <2>1. Folded(G, d)' = Folded(G, d)
    BY <1>1 DEF Folded
  <2>2. daily'[d] = IF sets[p][d] = Nil THEN daily[d] ELSE sets[p][d]
    BY <1>1
  <2>3. CASE sets[p][d] = Nil
    <3>1. Folded(G, d) = Folded(F, d)
      BY <1>4, <2>3 DEF Folded, Sound, Tables
    <3>2. DayCount(d)' = DayCount(d)
      BY <2>2, <2>3 DEF DayCount
    <3>3. QED
      BY <1>1, <2>1, <3>1, <3>2 DEF Sound, Tables
  <2>4. CASE sets[p][d] # Nil
    <3>1. Folded(G, d) = Due(F, d)
      BY <1>4, <2>4 DEF Folded, Due
    <3>2. DayCount(d)' = sets[p][d]
      BY <2>2, <2>4 DEF DayCount
    <3>3. Matches(sets[p][d], Due(F, d), d \notin raced)
      BY <1>2, <2>4 DEF FoldStage
    <3>4. QED
      BY <1>1, <2>1, <3>1, <3>2, <3>3
  <2>5. QED
    BY <2>3, <2>4
<1>10. Tables(G)'
  <2>1. G \subseteq Requests /\ \A r \in G : row'[r] = "gone"
    BY <1>1, <1>4
  <2>2. QED
    BY <1>8, <1>9, <2>1 DEF Tables
<1>11. FoldedWhole'
  <2> SUFFICES ASSUME NEW h \in Hours, Day(h) \notin raced, daily'[Day(h)] # Nil
               PROVE  hourly'[h] = Nil /\ Raw(h)' = {}
    BY <1>1 DEF FoldedWhole
  <2>1. Raw(h)' = Raw(h) /\ hourly'[h] = (IF h \in deletes[p] THEN Nil ELSE hourly[h]) /\ Day(h) \in Days
    BY <1>1, DaysAreHours DEF Raw
  <2>2. CASE sets[p][Day(h)] = Nil
    <3>1. daily[Day(h)] # Nil
      BY <1>1, <2>1, <2>2
    <3>2. QED
      BY <2>1, <3>1 DEF FoldedWhole
  <2>3. CASE sets[p][Day(h)] # Nil
    <3>1. Raw(h) = {}
      BY <1>7, <2>1, <2>3 DEF HoursOf
    <3>2. QED
      BY <1>5, <2>1, <2>3, <3>1
  <2>4. QED
    BY <2>2, <2>3
<1>12. TurnsTaken' /\ \A q \in Passes : pc'[q] # "idle" => Stage(q, G)'
  BY <1>1, OnlyPass
<1>13. G \in SUBSET Requests
  BY <1>4
<1>14. QED
  BY <1>10, <1>11, <1>12, <1>13 DEF Sound

\* The clock goes on only once while a pass is under way.
LEMMA TickSound ==
  ASSUME TypeOK, TurnsTaken, FoldedWhole, NEW F \in SUBSET Requests, Sound(F), Tick
  PROVE  TurnsTaken' /\ FoldedWhole' /\ Sound(F)'
<1>1. /\ now' = now + 1 /\ \A p \in Passes : pc[p] # "idle" => began[p] = now
      /\ UNCHANGED <<bucket, row, hourly, daily, pass, raced, faults>>
  BY DEF Tick
<1>2. Tables(F)' /\ FoldedWhole'
  BY <1>1, TablesKept DEF Sound
<1>3. ASSUME NEW p \in Passes, pc[p] # "idle" PROVE Stage(p, F)'
  <2>1. Stage(p, F) /\ began[p] = now /\ now \in Nat
    BY <1>1, <1>3, DaysAreHours DEF Sound, TypeOK
  <2>2. /\ \A d : Due(F, d)' = Due(F, d)
        /\ \A c : HoursBefore(c)' = HoursBefore(c)
        /\ \A h : Raw(h)' = Raw(h)
    BY <1>1 DEF Due, HoursBefore, Raw
  <2>3. RawStage(p)' <=> RawStage(p)
    BY <1>1, <2>2 DEF pass, RawStage, CountStage, CommitStage
  <2>4. DailyStage(p, F)' <=> DailyStage(p, F)
    BY <1>1, <2>2 DEF pass, DailyStage, FoldStage
  <2>5. QED
    BY <1>1, <2>1, <2>3, <2>4 DEF pass, Stage
<1>4. QED
  BY <1>1, <1>2, <1>3 DEF Sound, TurnsTaken, pass

\* A row comes: where it could be missed, the race is recorded.
LEMMA HandleSound ==
  ASSUME TypeOK, TurnsTaken, FoldedWhole, NEW F \in SUBSET Requests, Sound(F),
         NEW r \in Requests, Handle(r)
  PROVE  TurnsTaken' /\ FoldedWhole' /\ Sound(F)'
<1>1. PICK k \in Hours :
        /\ row' = [row EXCEPT ![r] = "raw"] /\ bucket' = [bucket EXCEPT ![r] = k]
        /\ raced' = IF daily[Day(k)] # Nil \/ \E p \in Passes : pc[p] # "idle"
                    THEN raced \cup {Day(k)} ELSE raced
  BY DEF Handle, Observed
<1>2. row[r] = "none" /\ UNCHANGED <<now, hourly, daily, pass, faults>>
  BY DEF Handle
<1>3. raced \subseteq raced'
  BY <1>1
<1>4. /\ \A h \in Hours : Gone(h)' = Gone(h)
      /\ \A d : Due(F, d)' = Due(F, d) /\ Folded(F, d)' = Folded(F, d)
  <2>1. r \notin F
    BY <1>2 DEF Sound, Tables
  <2>2. \A s \in Requests : s # r => row'[s] = row[s] /\ bucket'[s] = bucket[s]
    BY <1>1 DEF TypeOK
  <2>3. row'[r] = "raw"
    BY <1>1 DEF TypeOK
  <2>4. QED
    BY <1>2, <2>1, <2>2, <2>3 DEF Gone, Due, Folded
<1>5. /\ \A h \in Hours : h # k => Raw(h)' = Raw(h)
      /\ Raw(k)' = Raw(k) \cup {r} /\ r \notin Raw(k)
  BY <1>1, <1>2 DEF Raw, TypeOK
<1>6. Tables(F)'
  <2>1. \A s \in F : row'[s] = "gone"
    BY <1>1, <1>2 DEF Sound, Tables, TypeOK
  <2>2. \A h \in Hours : Matches(Count(h)', Gone(h)' \ F, (Day(h) \notin raced)')
    BY <1>2, <1>3, <1>4 DEF Sound, Tables, Matches, Count
  <2>3. \A d \in Days : Matches(DayCount(d)', Folded(F, d)', (d \notin raced)')
    BY <1>2, <1>3, <1>4 DEF Sound, Tables, Matches, DayCount
  <2>4. QED
    BY <2>1, <2>2, <2>3 DEF Sound, Tables
<1>7. FoldedWhole'
  <2> SUFFICES ASSUME NEW h \in Hours, Day(h) \notin raced', daily[Day(h)] # Nil
               PROVE  hourly[h] = Nil /\ Raw(h)' = {}
    BY <1>2 DEF FoldedWhole
  <2>1. h # k
    BY <1>1
  <2>2. QED
    BY <1>3, <1>5, <2>1 DEF FoldedWhole
<1>8. ASSUME NEW p \in Passes, pc[p] # "idle" PROVE Stage(p, F)'
  <2>1. Stage(p, F) /\ raced' = raced \cup {Day(k)}
    BY <1>1, <1>8 DEF Sound
  <2>2. ASSUME NEW n \in Nat, NEW h \in Hours, Matches(n, Raw(h), Day(h) \notin raced)
        PROVE  Matches(n, Raw(h)', (Day(h) \notin raced)')
    <3>1. CASE h = k
      <4>1. Raw(h)' \subseteq Requests /\ Raw(h) \in SUBSET (Raw(h)')
        BY <1>5, <3>1 DEF Raw
      <4>2. Cardinality(Raw(h)) \in Nat /\ Cardinality(Raw(h)') \in Nat
            /\ Cardinality(Raw(h)) <= Cardinality(Raw(h)')
        <5>1. PICK S, U : S = Raw(h)' /\ U = Raw(h)
          OBVIOUS
        <5>2. S \subseteq Requests /\ U \in SUBSET S
          BY <4>1, <5>1
        <5>3. Cardinality(S) \in Nat /\ Cardinality(U) \in Nat /\ Cardinality(U) <= Cardinality(S)
          BY <5>2, RequestsCounted
        <5>4. QED
          BY <5>1, <5>3
      <4>3. Day(h) \in raced'
        BY <2>1, <3>1
      <4>4. QED
        BY <2>2, <4>2, <4>3 DEF Matches
    <3>2. CASE h # k
      BY <1>3, <1>5, <2>2, <3>2 DEF Matches
    <3>3. QED
      BY <3>1, <3>2
  <2>3. RawStage(p) /\ pc[p] \in Counting \cup {"commitRaw"} => RawStage(p)'
    <3> SUFFICES ASSUME RawStage(p), pc[p] \in Counting \cup {"commitRaw"} PROVE RawStage(p)'
      OBVIOUS
    <3>1. ASSUME CountStage(p), pc[p] \in Counting PROVE CountStage(p)'
      <4>1. \A h \in Hours : adds[p][h] \in Nat /\ sum[p] \in Nat
        BY DEF TypeOK
      <4>2. \A h \in Hours :
              IF h \in left[p] \/ h > cutoff[p] THEN adds[p][h] = 0
              ELSE Matches(adds[p][h], Raw(h)', (Day(h) \notin raced)')
        BY <2>2, <3>1, <4>1 DEF CountStage
      <4>3. ASSUME pc[p] = "increment"
            PROVE  left[p] # {} /\ Matches(sum[p], Raw(Least(left[p]))', (Day(Least(left[p])) \notin raced)')
        <5>1. PICK h : h = Least(left[p])
          OBVIOUS
        <5>2. left[p] # {} /\ Matches(sum[p], Raw(h), Day(h) \notin raced)
          BY <3>1, <4>3, <5>1 DEF CountStage
        <5>3. h \in Hours
          <6>1. left[p] \subseteq Nat /\ left[p] \subseteq Hours
            BY DaysAreHours DEF TypeOK
          <6>2. QED
            BY <5>1, <5>2, <6>1, LeastIn
        <5>4. Matches(sum[p], Raw(h)', (Day(h) \notin raced)')
          BY <2>2, <4>1, <5>2, <5>3
        <5>5. Raw(Least(left[p]))' = Raw(h)'
          BY <1>2, <5>1 DEF Raw, pass
        <5>6. (Day(Least(left[p])) \notin raced)' <=> (Day(h) \notin raced)'
          BY <1>2, <5>1 DEF pass
        <5>7. QED
          BY <5>2, <5>4, <5>5, <5>6 DEF Matches
      <4>4. QED
        BY <1>2, <3>1, <4>2, <4>3 DEF CountStage, pass
    <3>2. ASSUME CommitStage(p), pc[p] = "commitRaw" PROVE CommitStage(p)'
      <4>1. r \notin deletes[p]
        BY <1>2, <3>2 DEF CommitStage
      <4>2. \A s \in deletes[p] : s \in Requests /\ row'[s] = "raw" /\ bucket'[s] <= cutoff[p]
        BY <1>1, <3>2, <4>1 DEF CommitStage, TypeOK
      <4>3. \A h \in Hours : Raw(h)' \cap deletes[p] = Raw(h) \cap deletes[p]
        BY <1>5, <4>1
      <4>4. \A h \in Hours : h <= cutoff[p] /\ Day(h) \notin raced' => Raw(h)' \subseteq deletes[p]
        BY <1>5, <2>1, <3>2 DEF CommitStage
      <4>5. \A h \in Hours : Matches(adds[p][h], Raw(h)' \cap deletes[p], (Day(h) \notin raced)')
        BY <1>3, <3>2, <4>3 DEF CommitStage, Matches
      <4>6. QED
        BY <1>2, <3>2, <4>2, <4>4, <4>5 DEF CommitStage, pass
    <3>3. QED
      BY <1>2, <3>1, <3>2 DEF RawStage, Counting, pass
  <2>4. DailyStage(p, F) => DailyStage(p, F)'
    <3> SUFFICES ASSUME DailyStage(p, F) PROVE DailyStage(p, F)'
      OBVIOUS
    <3>1. \A c : HoursBefore(c)' = HoursBefore(c)
      BY <1>2 DEF HoursBefore
    <3>2. \A h \in Hours : h < began[p] /\ Day(h) \notin raced' => Raw(h)' = {}
      BY <1>5, <2>1 DEF DailyStage
    <3>3. FoldStage(p, F) => FoldStage(p, F)'
      BY <1>2, <1>3, <1>4, <3>1 DEF FoldStage, Matches, pass
    <3>4. QED
      BY <1>2, <3>2, <3>3 DEF DailyStage, pass
  <2>5. QED
    BY <1>2, <2>1, <2>3, <2>4 DEF Stage, pass
<1>9. QED
  BY <1>2, <1>6, <1>7, <1>8 DEF Sound, TurnsTaken, pass

-----------------------------------------------------------------------------
(* The theorem.                                                            *)

\* Without overlaps of passes, the invariant is kept by every step.
LEMMA CInvHolds ==
  ASSUME MInv, KeepDays # 0, [Next]_vars
  PROVE  CInv'
<1> SUFFICES ASSUME Nil \notin raced'
             PROVE  TurnsTaken' /\ FoldedWhole' /\ \E G \in SUBSET Requests : Sound(G)'
  BY DEF CInv
<1>1. raced \subseteq raced'
  <2>1. CASE UNCHANGED vars
    BY <2>1 DEF vars
  <2>2. CASE Tick
    BY <2>2 DEF Tick
  <2>3. ASSUME NEW r \in Requests, Handle(r) PROVE raced \subseteq raced'
    BY <2>3 DEF Handle
  <2>4. ASSUME NEW p \in Passes, ListRaw(p) PROVE raced \subseteq raced'
    BY <2>4 DEF ListRaw, MInv, TypeOK
  <2>5. ASSUME NEW p \in Passes, RollRaw(p) \/ RollDaily(p) \/ RollBack(p) PROVE raced \subseteq raced'
    BY <2>4, <2>5 DEF RollRaw, RollDaily, AggregateRaw, UpsertHourly, DeleteRaw, CommitRaw, EndPass,
                      ListHourly, AggregateHourly, UpsertDaily, DeleteHourly, CommitDaily, RollBack
  <2>6. QED
    BY <2>1, <2>2, <2>3, <2>5 DEF Next
<1>2. TypeOK /\ Tidy /\ TurnsTaken /\ FoldedWhole
  BY <1>1 DEF MInv, CInv
<1>3. PICK F \in SUBSET Requests : Sound(F)
  BY <1>1 DEF MInv, CInv
<1>4. CASE UNCHANGED vars
  <2>1. Tables(F)' /\ FoldedWhole'
    BY <1>2, <1>3, <1>4, TablesKept DEF Sound, vars, metrics
  <2>2. /\ \A d : Due(F, d)' = Due(F, d)
        /\ \A c : HoursBefore(c)' = HoursBefore(c)
        /\ \A h : Raw(h)' = Raw(h)
    BY <1>4 DEF Due, HoursBefore, Raw, vars, metrics
  <2>3. ASSUME NEW p \in Passes, pc[p] # "idle" PROVE Stage(p, F)'
    <3>1. RawStage(p)' <=> RawStage(p)
      BY <1>4, <2>2 DEF vars, metrics, pass, RawStage, CountStage, CommitStage
    <3>2. DailyStage(p, F)' <=> DailyStage(p, F)
      BY <1>4, <2>2 DEF vars, metrics, pass, DailyStage, FoldStage
    <3>3. QED
      BY <1>3, <1>4, <2>3, <3>1, <3>2 DEF Sound, Stage, vars, pass, metrics
  <2>4. QED
    BY <1>2, <1>4, <2>1, <2>3 DEF Sound, TurnsTaken, vars, pass
<1>5. CASE Tick
  BY <1>2, <1>3, <1>5, TickSound
<1>6. ASSUME NEW r \in Requests, Handle(r)
      PROVE  TurnsTaken' /\ FoldedWhole' /\ Sound(F)'
  BY <1>2, <1>3, <1>6, HandleSound
<1>7. ASSUME NEW p \in Passes, ListRaw(p)
      PROVE  TurnsTaken' /\ FoldedWhole' /\ Sound(F)'
  BY <1>2, <1>3, <1>7, ListRawSound
<1>8. ASSUME NEW p \in Passes, AggregateRaw(p) \/ UpsertHourly(p) \/ DeleteRaw(p) \/ CommitRaw(p)
      PROVE  TurnsTaken' /\ FoldedWhole' /\ Sound(F)'
  BY <1>2, <1>3, <1>8, AggregateRawSound, UpsertHourlySound, DeleteRawSound, CommitRawSound
<1>9. ASSUME NEW p \in Passes,
             EndPass(p) \/ RollBack(p) \/ ListHourly(p) \/ AggregateHourly(p) \/ UpsertDaily(p) \/ DeleteHourly(p)
      PROVE  TurnsTaken' /\ FoldedWhole' /\ Sound(F)'
  BY <1>2, <1>3, <1>9, EndPassSound, ListHourlySound, AggregateHourlySound, UpsertDailySound, DeleteHourlySound
<1>10. ASSUME NEW p \in Passes, CommitDaily(p)
       PROVE  TurnsTaken' /\ FoldedWhole' /\ \E G \in SUBSET Requests : Sound(G)'
  BY <1>2, <1>3, <1>10, CommitDailySound
<1>11. QED
  BY <1>3, <1>4, <1>5, <1>6, <1>7, <1>8, <1>9, <1>10 DEF Next, RollRaw, RollDaily

\* At the start there is nothing to count.
LEMMA MInvAtFirst ==
  ASSUME Init
  PROVE  MInv
<1>1. TypeOK
  BY DaysAreHours, MetricsAssumption DEF Init, TypeOK, NoAdds, NoSets, Open
<1>2. Tidy
  BY DEF Init, Tidy, Bucketed, Pending, Counting, Folding
<1>3. Tables({})
  <2>1. \A h \in Hours : Count(h) = 0 /\ Gone(h) = {}
    BY DEF Init, Count, Gone
  <2>2. \A d \in Days : DayCount(d) = 0 /\ Folded({}, d) = {}
    BY DEF Init, DayCount, NoSets, Folded
  <2>3. \A h \in Hours : Matches(Count(h), Gone(h) \ {}, Day(h) \notin raced)
    BY <2>1, MatchesNone
  <2>4. \A d \in Days : Matches(DayCount(d), Folded({}, d), d \notin raced)
    BY <2>2, MatchesNone
  <2>5. QED
    BY <2>3, <2>4 DEF Tables
<1>4. FoldedWhole /\ TurnsTaken
  BY DaysAreHours DEF Init, FoldedWhole, TurnsTaken, NoSets
<1>5. Sound({})
  BY <1>3 DEF Init, Sound
<1>6. QED
  BY <1>1, <1>2, <1>4, <1>5 DEF MInv, CInv

\* What the three tables add up to is no more than what was recorded, and all of it where
\* nothing raced.
LEMMA TablesAddUp ==
  ASSUME MInv
  PROVE  CountsTrue
<1> SUFFICES ASSUME Nil \notin raced, NEW d \in Days
             PROVE  /\ Shown(d) <= Cardinality(Recorded(d))
                    /\ d \notin raced => Shown(d) = Cardinality(Recorded(d))
  BY DEF CountsTrue
<1>1. TypeOK /\ Tidy
  BY DEF MInv
<1>2. PICK F \in SUBSET Requests : Tables(F)
  BY DEF MInv, CInv, Sound
<1>3. PICK n, R : n = MapThenSumSet(Count, HoursOf(d)) /\ R = UNION {Raw(h) : h \in HoursOf(d)}
  OBVIOUS
<1>4. PICK exact : exact = (d \notin raced)
  OBVIOUS
<1>5. n \in Nat /\ Matches(n, Due(F, d), exact)
  <2>1. n \in Nat /\ Matches(n, Due(F, d), d \notin raced)
    BY <1>1, <1>2, <1>3, DayOfHours
  <2>2. QED
    BY <1>4, <2>1
<1>6. DayCount(d) \in Nat /\ Matches(DayCount(d), Folded(F, d), exact)
  BY <1>1, <1>2, <1>4, MetricsAssumption DEF TypeOK, DayCount, Tables
<1>7. /\ Folded(F, d) \subseteq Requests /\ Due(F, d) \subseteq Requests /\ R \subseteq Requests
      /\ Folded(F, d) \cap Due(F, d) = {} /\ (Folded(F, d) \cup Due(F, d)) \cap R = {}
  BY <1>2, <1>3 DEF Folded, Due, Raw, Tables
<1>8. Cardinality(R) \in Nat /\ Matches(Cardinality(R), R, exact)
  BY <1>7, RequestsCounted DEF Matches
<1>9. /\ DayCount(d) + n \in Nat
      /\ Matches(DayCount(d) + n, Folded(F, d) \cup Due(F, d), exact)
  BY <1>5, <1>6, <1>7, MatchesBoth
<1>10. Matches(DayCount(d) + n + Cardinality(R), (Folded(F, d) \cup Due(F, d)) \cup R, exact)
  BY <1>7, <1>8, <1>9, MatchesBoth
<1>11. Recorded(d) = (Folded(F, d) \cup Due(F, d)) \cup R
  <2>1. \A r \in Requests : row[r] \in {"raw", "gone"} => bucket[r] \in Hours
    BY <1>1 DEF Tidy, Bucketed
  <2>2. R = {r \in Requests : row[r] = "raw" /\ Day(bucket[r]) = d}
    <3>1. ASSUME NEW r \in R PROVE r \in Requests /\ row[r] = "raw" /\ Day(bucket[r]) = d
      BY <1>3, <3>1 DEF Raw, HoursOf
    <3>2. ASSUME NEW r \in Requests, row[r] = "raw", Day(bucket[r]) = d PROVE r \in R
      <4>1. bucket[r] \in HoursOf(d) /\ r \in Raw(bucket[r])
        BY <2>1, <3>2 DEF HoursOf, Raw
      <4>2. QED
        BY <1>3, <4>1
    <3>3. QED
      BY <3>1, <3>2
  <2>3. QED
    BY <1>2, <2>2 DEF Recorded, Folded, Due, Tables
<1>12. Shown(d) = DayCount(d) + n + Cardinality(R)
  BY <1>3 DEF Shown, DayCount
<1>13. QED
  BY <1>4, <1>10, <1>11, <1>12 DEF Matches

\* The dashboard's counts (reader.py): while passes take turns no request is counted twice, and a
\* day whose rows came between passes, and before it was folded, is shown in full.  Hourly rows
\* are kept for a day at least (config.py: discard_hourly_after_days, 2 unless set).
THEOREM CountsAlwaysTrue ==
  ASSUME KeepDays # 0
  PROVE  Spec => []CountsTrue
<1>1. Init => MInv
  BY MInvAtFirst
<1>2. MInv /\ [Next]_vars => MInv'
  BY TypesHold, CInvHolds DEF MInv
<1>3. MInv => CountsTrue
  BY TablesAddUp
<1>4. QED
  BY <1>1, <1>2, <1>3, PTL DEF Spec
=============================================================================

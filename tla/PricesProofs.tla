---------------------------- MODULE PricesProofs ----------------------------
(***************************************************************************)
(* Theorems about prices, for any bids, products and numbers: types, with  *)
(* the quartiles in their order; that a price stands for all the bids of   *)
(* its window; that the prices of a product come day after day; and that a *)
(* run that goes to its end has priced every day it began with.            *)
(*                                                                         *)
(* The first part is about finite sets of numbers: that there is a greatest*)
(* of them, which is an induction on sets without the operator parameter of*)
(* the induction theorems; that Amounts sorts; and the places of a set in  *)
(* its order, on which the paging rests.                                   *)
(***************************************************************************)
EXTENDS Prices, FiniteSetTheorems, WellFoundedInduction, TLAPS

LEMMA Numbers ==
  /\ PerDay \in Nat /\ PerDay >= 1 /\ DaysBack \in Nat /\ DaysBack >= 1
  /\ BatchSize \in Nat /\ MaxNow \in Nat /\ MaxFaults \in Nat
BY NumbersAssumption

(* A finite set has a member of greatest rank: a smallest set without one  *)
(* would have a smaller one.                                               *)
LEMMA Foremost ==
  ASSUME NEW S, IsFiniteSet(S), S # {}, NEW rank \in [S -> Int]
  PROVE  \E d \in S : \A e \in S : rank[e] <= rank[d]
<1> DEFINE Bad == {T \in SUBSET S : T # {} /\ \A d \in T : \E e \in T : rank[e] > rank[d]}
<1>1. Bad \subseteq FiniteSubsetsOf(S)
  BY FS_FiniteSubsetsOfFinite
<1>2. Bad = {}
  <2> SUFFICES ASSUME Bad # {} PROVE FALSE
    OBVIOUS
  <2>1. IsWellFoundedOn(StrictSubsetOrdering(S), FiniteSubsetsOf(S))
    BY FS_StrictSubsetOrderingWellFounded
  <2>2. PICK T \in Bad : \A U \in Bad : ~ (<<U, T>> \in StrictSubsetOrdering(S))
    <3> HIDE DEF Bad
    <3> QED
      BY <1>1, <2>1, WFMin
  <2>3. PICK x \in T : TRUE
    OBVIOUS
  <2>4. T \ {x} \in Bad
    OBVIOUS
  <2> QED
    BY <2>2, <2>3, <2>4 DEF StrictSubsetOrdering
<1> QED
  BY <1>2

LEMMA Greatest ==
  ASSUME NEW S \in SUBSET Int, IsFiniteSet(S), S # {}
  PROVE  \E d \in S : \A e \in S : e <= d
<1>1. PICK rank : rank = [e \in S |-> e]
  OBVIOUS
<1>2. rank \in [S -> Int]
  BY <1>1
<1>3. PICK d \in S : \A e \in S : rank[e] <= rank[d]
  BY <1>2, Foremost
<1> QED
  BY <1>1, <1>3

LEMMA Least ==
  ASSUME NEW S \in SUBSET Int, IsFiniteSet(S), S # {}
  PROVE  \E d \in S : \A e \in S : d <= e
<1>1. PICK rank : rank = [e \in S |-> 0 - e]
  OBVIOUS
<1>2. rank \in [S -> Int]
  BY <1>1
<1>3. PICK d \in S : \A e \in S : rank[e] <= rank[d]
  BY <1>2, Foremost
<1>4. \A e \in S : 0 - e <= 0 - d
  BY <1>1, <1>3
<1> QED
  BY <1>4

LEMMA LatestIsGreatest ==
  ASSUME NEW n \in Nat, NEW S \in SUBSET (0..n), S # {}
  PROVE  Latest(S) \in S /\ \A e \in S : e <= Latest(S)
<1>1. IsFiniteSet(S)
  <2>1. IsFiniteSet(0..n)
    BY FS_Interval
  <2> QED
    BY <2>1, FS_Subset
<1>2. \E d \in S : \A e \in S : e <= d
  BY <1>1, Greatest
<1> QED
  BY <1>2 DEF Latest

-----------------------------------------------------------------------------
(* Days.                                                                   *)
LEMMA DayBounds ==
  ASSUME NEW date \in Nat
  PROVE  Day(date) \in Nat /\ Day(date) * PerDay <= date /\ date < Day(date) * PerDay + PerDay
BY Numbers DEF Day

LEMMA TimesMonotone ==
  ASSUME NEW a \in Int, NEW b \in Int, NEW c \in Nat, a <= b
  PROVE  a * c <= b * c
OBVIOUS

LEMMA DayMonotone ==
  ASSUME NEW d \in Nat, NEW e \in Nat, d <= e
  PROVE  Day(d) <= Day(e)
<1> SUFFICES ASSUME Day(e) + 1 <= Day(d) PROVE FALSE
  BY DayBounds
<1>1. (Day(e) + 1) * PerDay <= Day(d) * PerDay
  BY Numbers, DayBounds, TimesMonotone
<1>2. (Day(e) + 1) * PerDay = Day(e) * PerDay + PerDay
  BY Numbers, DayBounds
<1> QED
  BY <1>1, <1>2, Numbers, DayBounds

-----------------------------------------------------------------------------
(* Amounts sorts: the i-th of them is the least that has i amounts up to it*)
Upto(sample, a)  == {k \in sample : bids[k].amount <= a}
Under(sample, a) == {k \in sample : bids[k].amount < a}

Amounted(sample) == /\ IsFiniteSet(sample)
                    /\ \A k \in sample : bids[k].amount \in Int

(* The image of a finite set is finite.                                    *)
LEMMA AmountsFinite ==
  ASSUME NEW sample, Amounted(sample)
  PROVE  IsFiniteSet({bids[k].amount : k \in sample}) /\ {bids[k].amount : k \in sample} \in SUBSET Int
<1> DEFINE All == {bids[k].amount : k \in sample}
           f   == [k \in sample |-> bids[k].amount]
<1>1. f \in Surjection(sample, All)
  BY DEF Surjection
<1>2. IsFiniteSet(sample) /\ All \in SUBSET Int
  BY DEF Amounted
<1> HIDE DEF f, All
<1>3. IsFiniteSet(All)
  BY <1>1, <1>2, FS_Surjection
<1> QED
  BY <1>2, <1>3 DEF All

LEMMA Counts ==
  ASSUME NEW sample, Amounted(sample), NEW a
  PROVE  /\ IsFiniteSet(Upto(sample, a)) /\ Cardinality(Upto(sample, a)) \in Nat
         /\ IsFiniteSet(Under(sample, a)) /\ Cardinality(Under(sample, a)) \in Nat
<1>1. Upto(sample, a) \in SUBSET sample /\ Under(sample, a) \in SUBSET sample
  BY DEF Upto, Under
<1>2. IsFiniteSet(Upto(sample, a)) /\ IsFiniteSet(Under(sample, a))
  BY <1>1, FS_Subset DEF Amounted
<1> QED
  BY <1>2, FS_CardinalityType

LEMMA Middle ==
  ASSUME NEW sample, Amounted(sample), NEW i \in 1..Cardinality(sample)
  PROVE  \E a \in {bids[k].amount : k \in sample} :
           Cardinality(Under(sample, a)) < i /\ Cardinality(Upto(sample, a)) >= i
<1> DEFINE All == {bids[k].amount : k \in sample}
           High == {a \in All : Cardinality(Upto(sample, a)) >= i}
<1>1. All \in SUBSET Int /\ IsFiniteSet(All)
  BY AmountsFinite
<1>2. IsFiniteSet(sample) /\ Cardinality(sample) \in Nat
  BY FS_CardinalityType DEF Amounted
<1>3. sample # {}
  BY <1>2, FS_EmptySet
<1>4. PICK top \in All : \A e \in All : e <= top
  <2>1. All # {}
    BY <1>3
  <2> QED
    BY <1>1, <2>1, Greatest
<1>5. Upto(sample, top) = sample
  BY <1>4 DEF Upto
<1>6. top \in High
  BY <1>4, <1>5, <1>2
<1>7. PICK a \in High : \A e \in High : a <= e
  <2>1. IsFiniteSet(High) /\ High \in SUBSET Int
    BY <1>1, FS_Subset
  <2> HIDE DEF High
  <2> QED
    BY <1>6, <2>1, Least
<1>8. Cardinality(Under(sample, a)) < i
  <2> SUFFICES ASSUME Cardinality(Under(sample, a)) >= i PROVE FALSE
    BY Counts
  <2>1. Under(sample, a) # {}
    BY FS_EmptySet
  <2> DEFINE Lower == {bids[k].amount : k \in Under(sample, a)}
  <2>2. Lower \in SUBSET All /\ Lower # {} /\ \A e \in Lower : e < a
    BY <2>1 DEF Under
  <2>3. PICK b \in Lower : \A e \in Lower : e <= b
    <3>1. IsFiniteSet(Lower) /\ Lower \in SUBSET Int
      BY <1>1, <2>2, FS_Subset
    <3> QED
      BY <2>2, <3>1, Greatest
  <2>4. Upto(sample, b) = Under(sample, a)
    <3>1. ASSUME NEW k \in sample PROVE bids[k].amount <= b <=> bids[k].amount < a
      <4>1. bids[k].amount \in Int /\ b \in Int /\ a \in Int /\ b < a
        BY <1>1, <2>2, <2>3, <1>7
      <4>2. bids[k].amount < a => bids[k].amount \in Lower
        BY DEF Under
      <4> QED
        BY <2>3, <4>1, <4>2
    <3> QED
      BY <3>1 DEF Upto, Under
  <2>5. b \in High
    BY <2>2, <2>3, <2>4
  <2>6. a <= b /\ b < a /\ a \in Int /\ b \in Int
    BY <1>1, <1>7, <2>2, <2>3, <2>5
  <2> QED
    BY <2>6
<1> QED
  BY <1>7, <1>8

Sorted(seq) == \A i, j \in 1..Len(seq) : i <= j => seq[i] <= seq[j]

LEMMA AmountsSorted ==
  ASSUME NEW sample, Amounted(sample)
  PROVE  /\ Amounts(sample) \in Seq(Int) /\ Len(Amounts(sample)) = Cardinality(sample)
         /\ Sorted(Amounts(sample))
<1> DEFINE n == Cardinality(sample)
<1>1. n \in Nat
  BY FS_CardinalityType DEF Amounted
<1>2. ASSUME NEW i \in 1..n
      PROVE  /\ Amounts(sample)[i] \in Int
             /\ Cardinality(Under(sample, Amounts(sample)[i])) < i
             /\ Cardinality(Upto(sample, Amounts(sample)[i])) >= i
  <2>1. Amounts(sample)[i] =
          CHOOSE a \in {bids[k].amount : k \in sample} :
            Cardinality(Under(sample, a)) < i /\ Cardinality(Upto(sample, a)) >= i
    BY DEF Amounts, Under, Upto
  <2>2. \E a \in {bids[k].amount : k \in sample} :
            Cardinality(Under(sample, a)) < i /\ Cardinality(Upto(sample, a)) >= i
    BY Middle
  <2>3. /\ Amounts(sample)[i] \in {bids[k].amount : k \in sample}
        /\ Cardinality(Under(sample, Amounts(sample)[i])) < i
        /\ Cardinality(Upto(sample, Amounts(sample)[i])) >= i
    BY <2>1, <2>2
  <2> QED
    BY <2>3 DEF Amounted
<1>3. Amounts(sample) \in [1..n -> Int]
  BY <1>2 DEF Amounts
<1>4. Amounts(sample) \in Seq(Int) /\ Len(Amounts(sample)) = n
  BY <1>1, <1>3
<1>5. ASSUME NEW i \in 1..n, NEW j \in 1..n, i <= j
      PROVE  Amounts(sample)[i] <= Amounts(sample)[j]
  <2> DEFINE x == Amounts(sample)[i]
             y == Amounts(sample)[j]
  <2>1. x \in Int /\ Cardinality(Under(sample, x)) < i
    BY <1>2
  <2>2. y \in Int /\ Cardinality(Upto(sample, y)) >= j
    BY <1>2
  <2> HIDE DEF x, y
  <2> SUFFICES ASSUME x > y PROVE FALSE
    BY <2>1, <2>2 DEF x, y
  <2>3. Upto(sample, y) \in SUBSET Under(sample, x)
    BY <2>1, <2>2 DEF Upto, Under, Amounted
  <2>4. Cardinality(Upto(sample, y)) <= Cardinality(Under(sample, x))
    BY <2>3, Counts, FS_Subset
  <2>5. Cardinality(Upto(sample, y)) \in Nat /\ Cardinality(Under(sample, x)) \in Nat
    BY Counts
  <2> QED
    BY <1>1, <1>5, <2>1, <2>2, <2>4, <2>5
<1> QED
  BY <1>4, <1>5 DEF Sorted

(* The quartiles of sorted amounts are in their order: each lies between   *)
(* two neighbours, at(i) - 4 * j quarters of the way.                      *)
Neighbour(n, i) ==
  IF (i * (n + 1)) \div 4 < 1 THEN 1 ELSE IF (i * (n + 1)) \div 4 > n - 1 THEN n - 1 ELSE (i * (n + 1)) \div 4
Quarters(n, i) == i * (n + 1) - 4 * Neighbour(n, i)

Follows(n, i) == \/ Neighbour(n, i) < Neighbour(n, i + 1)
                 \/ Neighbour(n, i) = Neighbour(n, i + 1) /\ Quarters(n, i) <= Quarters(n, i + 1)

LEMMA Neighbours ==
  ASSUME NEW n \in Nat, n >= 3
  PROVE  /\ \A i \in 1..3 : Neighbour(n, i) \in 1..n - 1 /\ Quarters(n, i) \in 0..4
         /\ \A i \in 1..2 : Follows(n, i)
<1>1. Neighbour(n, 1) \in 1..n - 1 /\ Quarters(n, 1) \in 0..4
  BY DEF Neighbour, Quarters
<1>2. Neighbour(n, 2) \in 1..n - 1 /\ Quarters(n, 2) \in 0..4
  BY DEF Neighbour, Quarters
<1>3. Neighbour(n, 3) \in 1..n - 1 /\ Quarters(n, 3) \in 0..4
  BY DEF Neighbour, Quarters
<1>4. Follows(n, 1)
  BY DEF Follows, Neighbour, Quarters
<1>5. Follows(n, 2)
  BY DEF Follows, Neighbour, Quarters
<1>6. \A i \in 1..3 : i = 1 \/ i = 2 \/ i = 3
  OBVIOUS
<1>7. \A i \in 1..2 : i = 1 \/ i = 2
  OBVIOUS
<1> QED
  BY <1>1, <1>2, <1>3, <1>4, <1>5, <1>6, <1>7, Zenon

(* Between u and v, d quarters of the way.                                 *)
LEMMA Between ==
  ASSUME NEW u \in Int, NEW v \in Int, NEW d \in 0..4, u <= v
  PROVE  /\ 4 * u <= u * (4 - d) + v * d /\ u * (4 - d) + v * d <= 4 * v
         /\ u * (4 - d) + v * d \in Int
         /\ \A e \in d..4 : u * (4 - d) + v * d <= u * (4 - e) + v * e
<1>1. d = 0 \/ d = 1 \/ d = 2 \/ d = 3 \/ d = 4
  OBVIOUS
<1>2. \A e \in d..4 : e = 0 \/ e = 1 \/ e = 2 \/ e = 3 \/ e = 4
  OBVIOUS
<1> QED
  BY <1>1, <1>2

LEMMA QuartilesInOrder ==
  ASSUME NEW a \in Seq(Int), Len(a) >= 1, Sorted(a)
  PROVE  InOrder(Quartiles(a))
<1>1. Len(a) \in Nat /\ Len(a) >= 1 /\ \A i \in 1..Len(a) : a[i] \in Int
  OBVIOUS
<1>2. CASE Len(a) = 1
  BY <1>1, <1>2 DEF Quartiles, InOrder
<1>3. CASE Len(a) = 2
  BY <1>1, <1>3 DEF Quartiles, InOrder, Sorted
<1>4. CASE Len(a) >= 3
  <2>1. PICK n : n = Len(a)
    OBVIOUS
  <2>2. Quartiles(a) = [i \in 1..3 |-> Quantile(a, i)]
    BY <1>1, <1>4 DEF Quartiles
  <2>3. \A i \in 1..3 : Quartiles(a)[i] = a[Neighbour(n, i)] * (4 - Quarters(n, i))
                                            + a[Neighbour(n, i) + 1] * Quarters(n, i)
    BY <2>1, <2>2 DEF Quantile, Neighbour, Quarters
  <2>4. ASSUME NEW i \in 1..2 PROVE Quartiles(a)[i] <= Quartiles(a)[i + 1]
    <3>1. PICK j, k, d, e : /\ j = Neighbour(n, i) /\ k = Neighbour(n, i + 1)
                            /\ d = Quarters(n, i) /\ e = Quarters(n, i + 1)
      OBVIOUS
    <3>2. /\ j \in 1..n - 1 /\ k \in 1..n - 1 /\ d \in 0..4 /\ e \in 0..4
          /\ j < k \/ (j = k /\ d <= e)
      <4>1. i \in 1..3 /\ i + 1 \in 1..3
        OBVIOUS
      <4> QED
        BY <1>1, <1>4, <2>1, <3>1, <4>1, Neighbours DEF Follows
    <3>3. PICK u, v, w, z : u = a[j] /\ v = a[j + 1] /\ w = a[k] /\ z = a[k + 1]
      OBVIOUS
    <3>4. /\ Quartiles(a)[i] = u * (4 - d) + v * d
          /\ Quartiles(a)[i + 1] = w * (4 - e) + z * e
      <4>1. i \in 1..3 /\ i + 1 \in 1..3
        OBVIOUS
      <4> QED
        BY <2>3, <3>1, <3>3, <4>1
    <3>5. j \in 1..Len(a) /\ j + 1 \in 1..Len(a) /\ k \in 1..Len(a) /\ k + 1 \in 1..Len(a)
      BY <1>1, <2>1, <3>2
    <3>6. u \in Int /\ v \in Int /\ w \in Int /\ z \in Int /\ u <= v /\ w <= z
      BY <1>1, <3>2, <3>3, <3>5 DEF Sorted
    <3>7. CASE j = k /\ d <= e
      <4>1. e \in d..4 /\ u = w /\ v = z
        BY <3>2, <3>3, <3>7
      <4> QED
        BY <3>2, <3>4, <3>6, <4>1, Between
    <3>8. CASE j < k
      <4>1. v <= w
        <5>1. j + 1 <= k
          BY <3>2, <3>5, <3>8
        <5> QED
          BY <3>3, <3>5, <5>1 DEF Sorted
      <4>2. u * (4 - d) + v * d <= 4 * v /\ u * (4 - d) + v * d \in Int
        BY <3>2, <3>6, Between
      <4>3. 4 * w <= w * (4 - e) + z * e /\ w * (4 - e) + z * e \in Int
        BY <3>2, <3>6, Between
      <4> QED
        BY <3>4, <3>6, <4>1, <4>2, <4>3
    <3> QED
      BY <3>2, <3>7, <3>8
  <2>5. Quartiles(a)[1] <= Quartiles(a)[2] /\ Quartiles(a)[2] <= Quartiles(a)[3]
    <3>1. 1 \in 1..2 /\ 2 \in 1..2 /\ 1 + 1 = 2 /\ 2 + 1 = 3
      OBVIOUS
    <3> QED
      BY <2>4, <3>1
  <2> QED
    BY <2>5 DEF InOrder
<1> QED
  <2>1. \A n \in Nat : n >= 1 => n = 1 \/ n = 2 \/ n >= 3
    OBVIOUS
  <2> QED
    BY <1>1, <1>2, <1>3, <1>4, <2>1

-----------------------------------------------------------------------------
(* Places: of a finite set of numbers in their order.                      *)
Below(x, S) == {y \in S : y < x}

LEMMA PlaceType ==
  ASSUME NEW S \in SUBSET Nat, IsFiniteSet(S), NEW x
  PROVE  /\ IsFiniteSet(Below(x, S)) /\ Cardinality(Below(x, S)) \in Nat
         /\ Place(x, S) = Cardinality(Below(x, S)) + 1
         /\ Place(x, S) \in Nat /\ Place(x, S) >= 1
<1>1. Below(x, S) \in SUBSET S
  BY DEF Below
<1>2. IsFiniteSet(Below(x, S)) /\ Cardinality(Below(x, S)) \in Nat
  BY <1>1, FS_Subset, FS_CardinalityType
<1>3. Place(x, S) = Cardinality(Below(x, S)) + 1
  BY DEF Place, Below
<1> QED
  BY <1>2, <1>3

(* Nobody moves up when others join.                                       *)
LEMMA PlaceGrows ==
  ASSUME NEW T \in SUBSET Nat, IsFiniteSet(T), NEW S \in SUBSET T, NEW x
  PROVE  Place(x, S) \in Nat /\ Place(x, T) \in Nat /\ Place(x, S) <= Place(x, T)
<1>1. IsFiniteSet(S) /\ S \in SUBSET Nat
  BY FS_Subset
<1>2. Below(x, S) \in SUBSET Below(x, T)
  BY DEF Below
<1>3. Cardinality(Below(x, S)) <= Cardinality(Below(x, T))
  BY <1>2, PlaceType, FS_Subset
<1> QED
  BY <1>1, <1>3, PlaceType

LEMMA PlaceIncreases ==
  ASSUME NEW S \in SUBSET Nat, IsFiniteSet(S), NEW x \in S, NEW y \in S, x < y
  PROVE  Place(x, S) < Place(y, S)
<1>1. Below(x, S) \cup {x} \in SUBSET Below(y, S)
  <2>1. ASSUME NEW z \in S, z < x PROVE z < y
    <3>1. x \in Nat /\ y \in Nat /\ z \in Nat
      OBVIOUS
    <3> QED
      BY <2>1, <3>1
  <2> QED
    BY <2>1 DEF Below
<1>2. x \notin Below(x, S)
  BY DEF Below
<1>3. Cardinality(Below(x, S) \cup {x}) = Cardinality(Below(x, S)) + 1
  BY <1>2, PlaceType, FS_AddElement
<1>4. Cardinality(Below(x, S) \cup {x}) <= Cardinality(Below(y, S))
  BY <1>1, PlaceType, FS_Subset
<1> QED
  BY <1>3, <1>4, PlaceType

(* There is one at every place before a place that is taken.               *)
LEMMA PlacesTaken ==
  ASSUME NEW S \in SUBSET Nat, IsFiniteSet(S), NEW p \in S, NEW i \in 1..Place(p, S)
  PROVE  \E q \in S : Place(q, S) = i
<1> DEFINE Bad == {j \in 1..Place(p, S) : \A q \in S : Place(q, S) # j}
<1> SUFFICES ASSUME Bad # {} PROVE FALSE
  OBVIOUS
<1>1. Place(p, S) \in Nat /\ Place(p, S) >= 1
  BY PlaceType
<1>2. IsFiniteSet(Bad) /\ Bad \in SUBSET Int
  <2>1. Bad \in SUBSET (1..Place(p, S))
    OBVIOUS
  <2>2. IsFiniteSet(1..Place(p, S))
    BY <1>1, FS_Interval
  <2>3. \A j \in Bad : j \in Int
    BY <1>1
  <2> HIDE DEF Bad
  <2>4. IsFiniteSet(Bad)
    BY <2>1, <2>2, FS_Subset
  <2> QED
    BY <2>3, <2>4
<1>3. PICK j \in Bad : \A e \in Bad : e <= j
  <2> HIDE DEF Bad
  <2> QED
    BY <1>2, Greatest
<1>4. j \in 1..Place(p, S) /\ j # Place(p, S)
  BY <1>3
<1>5. PICK r \in S : Place(r, S) = j + 1
  BY <1>1, <1>3, <1>4
<1>6. Cardinality(Below(r, S)) = j
  BY <1>1, <1>4, <1>5, PlaceType
<1>7. Below(r, S) # {}
  BY <1>1, <1>4, <1>6, FS_EmptySet
<1>8. PICK q \in Below(r, S) : \A e \in Below(r, S) : e <= q
  <2>1. Below(r, S) \in SUBSET Int /\ IsFiniteSet(Below(r, S))
    <3>1. IsFiniteSet(Below(r, S))
      BY PlaceType
    <3>2. \A y \in Below(r, S) : y \in Int
      BY DEF Below
    <3> QED
      BY <3>1, <3>2
  <2> QED
    BY <1>7, <2>1, Greatest
<1>9. q \in S /\ Below(r, S) = Below(q, S) \cup {q} /\ q \notin Below(q, S)
  <2>1. q \in S /\ q < r
    BY <1>8 DEF Below
  <2>2. ASSUME NEW y \in S PROVE y < r <=> y < q \/ y = q
    <3>1. y < r => y <= q
      BY <1>8 DEF Below
    <3>2. y \in Nat /\ q \in Nat /\ r \in Nat
      BY <2>1
    <3> QED
      BY <2>1, <3>1, <3>2
  <2>3. Below(r, S) = Below(q, S) \cup {q}
    BY <2>1, <2>2 DEF Below
  <2>4. q \notin Below(q, S)
    <3>1. ~ (q < q)
      BY <2>1
    <3> QED
      BY <3>1 DEF Below
  <2> QED
    BY <2>1, <2>3, <2>4
<1>10. Cardinality(Below(r, S)) = Cardinality(Below(q, S)) + 1
  <2>1. IsFiniteSet(Below(q, S))
    BY PlaceType
  <2> QED
    BY <1>9, <2>1, FS_AddElement
<1>11. Place(q, S) = j
  BY <1>6, <1>10, PlaceType
<1> QED
  BY <1>3, <1>9, <1>11

(* A page with one of the products beyond it is full.                      *)
LEMMA PageFull ==
  ASSUME NEW S \in SUBSET Nat, IsFiniteSet(S), NEW p \in S, NEW m \in Nat, NEW n \in Nat,
         Place(p, S) > m + n
  PROVE  Cardinality({q \in S : Place(q, S) \in m + 1 .. m + n}) = n
<1> DEFINE Found == {q \in S : Place(q, S) \in m + 1 .. m + n}
           f     == [q \in Found |-> Place(q, S)]
<1>1. IsFiniteSet(Found)
  <2>1. Found \in SUBSET S
    OBVIOUS
  <2> QED
    BY <2>1, FS_Subset
<1>2. ASSUME NEW i \in m + 1 .. m + n PROVE \E q \in Found : f[q] = i
  <2>1. Place(p, S) \in Nat
    BY PlaceType
  <2>2. i \in 1..Place(p, S)
    BY <2>1
  <2>3. PICK q \in S : Place(q, S) = i
    BY <2>2, PlacesTaken
  <2> QED
    BY <2>3
<1>3. f \in Surjection(Found, m + 1 .. m + n)
  BY <1>2 DEF Surjection
<1>4. ASSUME NEW x \in Found, NEW y \in Found, f[x] = f[y] PROVE x = y
  <2>1. x \in S /\ y \in S /\ x \in Nat /\ y \in Nat /\ Place(x, S) = Place(y, S)
    BY <1>4
  <2>2. Place(x, S) \in Nat /\ Place(y, S) \in Nat
    BY PlaceType
  <2>3. ~ (x < y) /\ ~ (y < x)
    BY <2>1, <2>2, PlaceIncreases
  <2> QED
    BY <2>1, <2>3
<1>5. f \in Injection(Found, m + 1 .. m + n)
  <2>1. f \in [Found -> m + 1 .. m + n]
    OBVIOUS
  <2> HIDE DEF f, Found
  <2> QED
    BY <1>4, <2>1 DEF Injection, IsInjective
<1>6. Cardinality(m + 1 .. m + n) = n
  <2>1. Cardinality(m + 1 .. m + n) = IF m + 1 > m + n THEN 0 ELSE (m + n) - (m + 1) + 1
    BY FS_Interval
  <2> QED
    BY <2>1
<1> HIDE DEF f, Found
<1>7. Cardinality(m + 1 .. m + n) = Cardinality(Found)
  BY <1>1, <1>3, <1>5, FS_Surjection
<1> QED
  BY <1>6, <1>7 DEF Found

-----------------------------------------------------------------------------
(* The inductive invariant.  Beyond types: what is stored was delivered    *)
(* before now, so that the days of a product end; and the prices that are  *)
(* planned are of one product, one a day, all later than those it has.     *)
BidsOK ==
  /\ now \in 0..MaxNow
  /\ bids \in [Bids -> ProductBid \cup {Nil}]
  /\ \A k \in Stored : bids[k] \in Contents[k] /\ bids[k].date <= now

Proper(x) ==
  /\ x.product \in Products /\ x.date \in 0..MaxNow
  /\ x.sample \in SUBSET Stored /\ x.sample # {}
  /\ InOrder(x.quartiles)

PricesOK == \A x \in prices \cup plan : Proper(x)

TaskOK ==
  /\ faults \in 0..MaxFaults
  /\ task \in {"off", "begin", "page", "products"}
  /\ start \in 0..MaxNow \cup {Nil}
  /\ skip \in Nat /\ full \in BOOLEAN
  /\ page \in SUBSET Products

PlanOK ==
  /\ \A x \in plan, y \in prices : y.product = x.product => Day(y.date) < Day(x.date)
  /\ \A x, y \in plan : x.product = y.product /\ (Day(x.date) = Day(y.date) => x = y)

IInv == BidsOK /\ PricesOK /\ TaskOK /\ PlanOK

LEMMA InitIInv == Init => IInv
<1> SUFFICES ASSUME Init PROVE IInv
  OBVIOUS
<1>1. Stored = {}
  BY DEF Init, Stored
<1>2. BidsOK
  BY <1>1, Numbers DEF Init, BidsOK
<1>3. PricesOK /\ PlanOK
  BY DEF Init, PricesOK, PlanOK
<1>4. TaskOK
  <2>1. 0 \in 0..MaxFaults
    BY Numbers
  <2> QED
    BY <2>1 DEF Init, TaskOK
<1> QED
  BY <1>2, <1>3, <1>4 DEF IInv

(* What is stored of a bid.                                                *)
LEMMA StoredBid ==
  ASSUME IInv, NEW k \in Stored
  PROVE  /\ k \in Bids /\ bids[k] \in ProductBid /\ bids[k].date \in 0..now
         /\ bids[k].amount \in Int /\ Day(bids[k].date) \in Nat /\ now \in 0..MaxNow
<1>1. k \in Bids /\ bids[k] \in ProductBid /\ bids[k].date <= now /\ now \in 0..MaxNow
  BY DEF IInv, BidsOK, Stored
<1>2. bids[k].date \in Nat /\ bids[k].amount \in Int
  BY <1>1 DEF ProductBid
<1>3. Day(bids[k].date) \in Nat
  BY <1>2, DayBounds
<1> QED
  BY <1>1, <1>2, <1>3

(* The last price of a product is its last.                                *)
LEMMA LastOfIsLast ==
  ASSUME IInv, NEW p
  PROVE  /\ LastOf(p) # Nil => LastOf(p) \in 0..MaxNow
         /\ \A y \in prices : y.product = p => LastOf(p) # Nil /\ y.date <= LastOf(p) /\ y.date \in 0..MaxNow
<1> DEFINE Dates == {x.date : x \in {y \in prices : y.product = p}}
<1>1. Dates \in SUBSET (0..MaxNow)
  BY DEF IInv, PricesOK, Proper
<1>2. CASE Dates = {}
  BY <1>2 DEF LastOf, Latest
<1>3. CASE Dates # {}
  <2>1. LastOf(p) \in Dates /\ \A e \in Dates : e <= LastOf(p)
    <3> HIDE DEF Dates
    <3>1. Latest(Dates) \in Dates /\ \A e \in Dates : e <= Latest(Dates)
      BY <1>1, <1>3, Numbers, LatestIsGreatest
    <3> QED
      BY <3>1 DEF LastOf, Dates
  <2>2. LastOf(p) \in 0..MaxNow /\ LastOf(p) # Nil
    BY <1>1, <2>1, Numbers, NilAssumption
  <2> QED
    BY <1>1, <2>1, <2>2
<1> QED
  BY <1>2, <1>3

LEMMA LastPriceType ==
  ASSUME IInv PROVE LastPrice \in 0..MaxNow \cup {Nil}
<1> DEFINE Dates == {x.date : x \in prices}
<1>1. Dates \in SUBSET (0..MaxNow)
  BY DEF IInv, PricesOK, Proper
<1>2. CASE Dates = {}
  BY <1>2 DEF LastPrice, Latest
<1>3. CASE Dates # {}
  <2> HIDE DEF Dates
  <2>1. Latest(Dates) \in Dates
    BY <1>1, <1>3, Numbers, LatestIsGreatest
  <2> QED
    BY <1>1, <2>1 DEF LastPrice, Dates
<1> QED
  BY <1>2, <1>3

(* The bids of the window that ends with a day; and those that are read.   *)
Window(p, day) ==
  {k \in Stored : /\ bids[k].product = p /\ bids[k].usable
                  /\ Day(bids[k].date) <= day /\ Day(bids[k].date) > day - DaysBack}

LEMMA WindowRead ==
  ASSUME IInv, NEW p, NEW day \in DaysToPrice(p)
  PROVE  /\ Window(p, day) = {k \in BidsOf(p) : Day(bids[k].date) \in day - DaysBack + 1 .. day}
         /\ day \in Nat
         /\ \E k \in Window(p, day) : Day(bids[k].date) = day
<1>1. PICK l \in BidsOf(p) : day = Day(bids[l].date)
  BY DEF DaysToPrice
<1>2. day \in Nat /\ l \in Stored
  BY <1>1, StoredBid DEF BidsOf
<1>3. ASSUME NEW k \in Window(p, day) PROVE k \in BidsOf(p)
  <2>1. k \in Stored /\ Day(bids[k].date) > day - DaysBack
    BY <1>3 DEF Window
  <2>2. ASSUME LastOf(p) # Nil PROVE bids[k].date >= (Day(LastOf(p)) - DaysBack) * PerDay
    <3>1. LastOf(p) \in Nat /\ Day(LastOf(p)) \in Nat /\ day > Day(LastOf(p))
      BY <2>2, LastOfIsLast, DayBounds, Numbers DEF DaysToPrice
    <3>2. Day(bids[k].date) \in Nat /\ bids[k].date \in Nat
      BY <2>1, StoredBid
    <3>3. Day(LastOf(p)) - DaysBack <= Day(bids[k].date)
      BY <1>2, <2>1, <3>1, <3>2, Numbers
    <3>4. (Day(LastOf(p)) - DaysBack) * PerDay <= Day(bids[k].date) * PerDay
      BY <3>1, <3>2, <3>3, Numbers, TimesMonotone
    <3>5. Day(bids[k].date) * PerDay <= bids[k].date
      BY <3>2, DayBounds
    <3>6. (Day(LastOf(p)) - DaysBack) * PerDay \in Int /\ Day(bids[k].date) * PerDay \in Int
      BY <3>1, <3>2, Numbers
    <3> QED
      BY <3>2, <3>4, <3>5, <3>6
  <2> QED
    BY <2>1, <2>2 DEF Window, BidsOf
<1>4. ASSUME NEW k \in Stored
      PROVE  Day(bids[k].date) \in day - DaysBack + 1 .. day
               <=> Day(bids[k].date) <= day /\ Day(bids[k].date) > day - DaysBack
  BY <1>2, StoredBid, Numbers
<1>5. Window(p, day) = {k \in BidsOf(p) : Day(bids[k].date) \in day - DaysBack + 1 .. day}
  <2>1. BidsOf(p) \subseteq Stored /\ \A k \in BidsOf(p) : bids[k].product = p /\ bids[k].usable
    BY DEF BidsOf
  <2> QED
    BY <1>3, <1>4, <2>1 DEF Window
<1>6. l \in Window(p, day)
  <2>1. Day(bids[l].date) \in day - DaysBack + 1 .. day
    BY <1>1, <1>2, Numbers
  <2> QED
    BY <1>1, <1>5, <2>1
<1> QED
  BY <1>1, <1>2, <1>5, <1>6

(* A price that is planned.                                                *)
LEMMA PlannedPrice ==
  ASSUME IInv, NEW p \in Products, NEW day \in DaysToPrice(p), NEW x, x = Price(p, day)
  PROVE  /\ Proper(x) /\ x.product = p /\ Day(x.date) = day
         /\ x.sample = Window(p, day)
         /\ \A y \in prices : y.product = p => Day(y.date) < day
<1> DEFINE Dates == {bids[k].date : k \in {l \in Window(p, day) : Day(bids[l].date) = day}}
<1>1. /\ x.product = p /\ x.sample = Window(p, day)
      /\ x.date = Latest(Dates) /\ x.quartiles = Quartiles(Amounts(Window(p, day)))
  BY WindowRead DEF Price
<1>2. Window(p, day) \subseteq Stored /\ Window(p, day) # {} /\ day \in Nat
  BY WindowRead DEF Window
<1>3. Dates \in SUBSET (0..MaxNow) /\ Dates # {}
  <2>1. \A k \in Window(p, day) : bids[k].date \in 0..MaxNow
    BY <1>2, StoredBid, Numbers
  <2> QED
    BY <2>1, WindowRead
<1>4. x.date \in 0..MaxNow /\ Day(x.date) = day
  <2>1. Latest(Dates) \in Dates
    <3> HIDE DEF Dates
    <3> QED
      BY <1>3, Numbers, LatestIsGreatest
  <2>2. \A d \in Dates : Day(d) = day
    OBVIOUS
  <2> HIDE DEF Dates
  <2> QED
    BY <1>1, <1>3, <2>1, <2>2
<1>5. InOrder(x.quartiles)
  <2>1. Amounted(Window(p, day))
    <3>1. Window(p, day) \in SUBSET Bids
      BY DEF Window, Stored
    <3>2. IsFiniteSet(Window(p, day))
      BY <3>1, BidsAssumption, FS_Subset
    <3> QED
      BY <1>2, <3>2, StoredBid DEF Amounted
  <2>2. Cardinality(Window(p, day)) \in Nat /\ Cardinality(Window(p, day)) # 0
    BY <1>2, <2>1, FS_CardinalityType, FS_EmptySet DEF Amounted
  <2>3. /\ Amounts(Window(p, day)) \in Seq(Int) /\ Len(Amounts(Window(p, day))) >= 1
        /\ Sorted(Amounts(Window(p, day)))
    BY <2>1, <2>2, AmountsSorted
  <2> QED
    BY <1>1, <2>3, QuartilesInOrder
<1>6. ASSUME NEW y \in prices, y.product = p PROVE Day(y.date) < day
  <2>1. LastOf(p) # Nil /\ LastOf(p) \in 0..MaxNow /\ y.date \in 0..MaxNow /\ y.date <= LastOf(p)
    BY <1>6, LastOfIsLast
  <2>2. Day(y.date) <= Day(LastOf(p)) /\ Day(y.date) \in Nat /\ Day(LastOf(p)) \in Nat
    BY <2>1, Numbers, DayMonotone, DayBounds
  <2>3. day > Day(LastOf(p))
    BY <2>1 DEF DaysToPrice
  <2> QED
    BY <1>2, <2>2, <2>3
<1> QED
  BY <1>1, <1>2, <1>4, <1>5, <1>6 DEF Proper

-----------------------------------------------------------------------------
LEMMA IInvStep == IInv /\ [Next]_vars => IInv'
<1> SUFFICES ASSUME IInv, [Next]_vars PROVE IInv'
  OBVIOUS
<1>1. CASE Tick
  <2>1. BidsOK'
    <3>1. now \in 0..MaxNow /\ now' \in 0..MaxNow /\ now <= now'
      BY <1>1, Numbers DEF IInv, BidsOK, Tick
    <3>2. ASSUME NEW k \in Stored PROVE bids[k].date <= now'
      BY <3>1, StoredBid
    <3> QED
      BY <1>1, <3>1, <3>2 DEF IInv, BidsOK, Stored, Tick
  <2>2. PricesOK' /\ TaskOK' /\ PlanOK'
    BY <1>1 DEF IInv, Tick, taskVars, PricesOK, Proper, Stored, TaskOK, PlanOK
  <2> QED
    BY <2>1, <2>2 DEF IInv
<1>2. ASSUME NEW k \in Bids, NEW bid \in Contents[k], Deliver(k, bid) PROVE IInv'
  <2>1. bid \in ProductBid /\ bid # Nil /\ bid.date <= now
    BY <1>2, BidsAssumption, NilAssumption DEF Deliver
  <2>2. /\ bids' \in [Bids -> ProductBid \cup {Nil}]
        /\ \A l \in Bids : bids'[l] = bids[l] \/ (l = k /\ bids'[l] = bid)
        /\ \A l \in Stored : bids'[l] = bids[l]
    BY <1>2, <2>1 DEF IInv, BidsOK, Deliver, Stored
  <2>3. Stored \subseteq Stored'
    BY <2>2 DEF Stored
  <2>4. BidsOK'
    <3>1. ASSUME NEW l \in Stored' PROVE bids'[l] \in Contents[l] /\ bids'[l].date <= now
      <4>1. l \in Bids /\ bids'[l] # Nil
        BY DEF Stored
      <4>2. CASE bids'[l] = bids[l]
        BY <4>1, <4>2 DEF IInv, BidsOK, Stored
      <4> QED
        BY <2>1, <2>2, <4>1, <4>2
    <3> QED
      BY <1>2, <2>2, <3>1 DEF IInv, BidsOK, Deliver
  <2>5. PricesOK' /\ TaskOK' /\ PlanOK'
    BY <1>2, <2>3 DEF IInv, Deliver, taskVars, PricesOK, Proper, TaskOK, PlanOK
  <2> QED
    BY <2>4, <2>5 DEF IInv
(* The bids stay, and no price is new.                                     *)
<1>3. ASSUME UNCHANGED <<now, bids>>, TaskOK', prices' \subseteq prices, plan' \subseteq plan
      PROVE  IInv'
  <2>1. BidsOK'
    BY <1>3 DEF IInv, BidsOK, Stored
  <2>2. PricesOK' /\ PlanOK'
    BY <1>3 DEF IInv, PricesOK, Proper, Stored, PlanOK
  <2> QED
    BY <1>3, <2>1, <2>2 DEF IInv
<1>4. CASE NightStart \/ FullStart
  <2>1. TaskOK'
    BY <1>4 DEF IInv, TaskOK, NightStart, FullStart
  <2> QED
    BY <1>3, <1>4, <2>1 DEF NightStart, FullStart
<1>5. CASE Page
  <2>1. TaskOK'
    <3>1. page' \in SUBSET Products /\ full' \in BOOLEAN
      BY <1>5 DEF Page, Selected
    <3> QED
      BY <1>5, <3>1 DEF IInv, TaskOK, Page
  <2> QED
    BY <1>3, <1>5, <2>1 DEF Page
<1>6. CASE PageEnd
  <2>1. TaskOK'
    <3>1. skip' \in Nat
      BY <1>6, Numbers DEF IInv, TaskOK, PageEnd
    <3>2. start' \in 0..MaxNow \cup {Nil} /\ task' \in {"page", "off"} /\ full' = FALSE
      BY <1>6 DEF IInv, TaskOK, PageEnd
    <3> QED
      BY <1>6, <3>1, <3>2 DEF IInv, TaskOK, PageEnd
  <2> QED
    BY <1>3, <1>6, <2>1 DEF PageEnd
<1>7. CASE Begin
  <2>1. TaskOK'
    BY <1>7, LastPriceType DEF IInv, TaskOK, Begin
  <2> QED
    BY <1>3, <1>7, <2>1 DEF Begin
<1>8. CASE ProductFails
  <2>1. TaskOK'
    <3>1. faults' \in 0..MaxFaults
      BY <1>8, Numbers DEF IInv, TaskOK, ProductFails
    <3>2. page' \subseteq page
      BY <1>8 DEF ProductFails
    <3> QED
      BY <1>8, <3>1, <3>2 DEF IInv, TaskOK, ProductFails
  <2> QED
    BY <1>3, <1>8, <2>1 DEF ProductFails
<1>9. CASE Die
  <2>1. TaskOK'
    <3>1. faults' \in 0..MaxFaults
      BY <1>9, Numbers DEF IInv, TaskOK, Die
    <3> QED
      BY <1>9, <3>1 DEF IInv, TaskOK, Die
  <2> QED
    BY <1>3, <1>9, <2>1 DEF Die
<1>10. CASE UNCHANGED vars
  <2>1. TaskOK'
    BY <1>10 DEF IInv, TaskOK, vars, taskVars
  <2> QED
    BY <1>3, <1>10, <2>1 DEF vars, taskVars
<1>11. CASE Calculate
  <2>1. PICK p \in page : plan' = PlanFor(p) /\ page' = page \ {p}
    BY <1>11 DEF Calculate
  <2>2. p \in Products /\ UNCHANGED <<now, bids, prices, task, start, skip, full, faults>>
    BY <1>11 DEF IInv, TaskOK, Calculate
  <2>3. ASSUME NEW x \in plan' PROVE \E day \in DaysToPrice(p) : x = Price(p, day)
    BY <2>1 DEF PlanFor
  <2>4. ASSUME NEW x \in plan'
        PROVE  Proper(x) /\ x.product = p /\ \A y \in prices : y.product = p => Day(y.date) < Day(x.date)
    BY <2>2, <2>3, PlannedPrice
  <2>5. ASSUME NEW x \in plan', NEW y \in plan', Day(x.date) = Day(y.date) PROVE x = y
    <3>1. PICK d \in DaysToPrice(p) : x = Price(p, d)
      BY <2>3
    <3>2. PICK e \in DaysToPrice(p) : y = Price(p, e)
      BY <2>3
    <3>3. Day(x.date) = d
      BY <2>2, <3>1, PlannedPrice
    <3>4. Day(y.date) = e
      BY <2>2, <3>2, PlannedPrice
    <3> QED
      BY <2>5, <3>1, <3>2, <3>3, <3>4
  <2>6. BidsOK' /\ TaskOK'
    BY <2>1, <2>2 DEF IInv, BidsOK, TaskOK, Stored
  <2>7. PricesOK'
    BY <2>2, <2>4 DEF IInv, PricesOK, Proper, Stored
  <2>8. PlanOK'
    BY <2>2, <2>4, <2>5 DEF PlanOK
  <2> QED
    BY <2>6, <2>7, <2>8 DEF IInv
<1>12. CASE Insert
  <2>1. PICK x \in plan : /\ \A y \in plan : x.date <= y.date
                         /\ prices' = prices \cup {x} /\ plan' = plan \ {x}
    BY <1>12 DEF Insert
  <2>2. UNCHANGED <<now, bids, task, start, skip, page, full, faults>>
    BY <1>12 DEF Insert
  <2>3. BidsOK' /\ TaskOK'
    BY <2>2 DEF IInv, BidsOK, TaskOK, Stored
  <2>4. PricesOK'
    BY <2>1, <2>2 DEF IInv, PricesOK, Proper, Stored
  <2>5. ASSUME NEW y \in plan, y # x PROVE Day(x.date) < Day(y.date)
    <3>1. x.date \in Nat /\ y.date \in Nat /\ x.date <= y.date
      BY <2>1, Numbers DEF IInv, PricesOK, Proper
    <3>2. Day(x.date) # Day(y.date)
      BY <2>5 DEF IInv, PlanOK
    <3> QED
      BY <3>1, <3>2, DayMonotone, DayBounds
  <2>6. PlanOK'
    BY <2>1, <2>5 DEF IInv, PlanOK
  <2> QED
    BY <2>3, <2>4, <2>6 DEF IInv
<1> QED
  BY <1>1, <1>2, <1>4, <1>5, <1>6, <1>7, <1>8, <1>9, <1>10, <1>11, <1>12 DEF Next, TaskStep

-----------------------------------------------------------------------------
(* What a run owes.  A bid that it owes a price is of a product that is to *)
(* come, and has all its prices on days before, or its price is planned.   *)
(* A product is to come if it is in the rest of the page or at a place that*)
(* no page has reached: deliveries and the clock only move it further back.*)
Due == Selected(Day(now) * PerDay)

Awaited(p) ==
  \/ p \in page
  \/ task = "page" /\ Place(p, Due) > skip
  \/ task = "products" /\ full /\ Place(p, Due) > skip + BatchSize

Planned(p, day) == \E x \in plan : x.product = p /\ Day(x.date) = day

ToCome(p, day) ==
  /\ Awaited(p)
  /\ \A x \in plan : x.product # p
  /\ \A y \in prices : y.product = p => Day(y.date) < day

OwedOK(bid) ==
  /\ bid.usable /\ bid.date < Day(now) * PerDay
  /\ start # Nil => bid.date >= start
  /\ Planned(bid.product, Day(bid.date)) \/ ToCome(bid.product, Day(bid.date))

NightOK ==
  /\ task # "products" => plan = {} /\ page = {}
  /\ task \in {"off", "begin"} => owed = {}
  /\ owed \in SUBSET Stored
  /\ \A k \in owed, bid \in ProductBid : bids[k] = bid => OwedOK(bid)

LEMMA InitNightOK == Init => NightOK
BY DEF Init, NightOK

LEMMA TypesCorrect == IInv /\ NightOK => TypeOK
BY DEF IInv, BidsOK, PricesOK, TaskOK, NightOK, Proper, TypeOK

(* Products with a bid are finitely many.                                  *)
LEMMA BiddenFinite ==
  ASSUME NEW B \in [Bids -> ProductBid \cup {Nil}], NEW S,
         \A p \in S : \E k \in Bids : B[k] # Nil /\ B[k].product = p
  PROVE  S \in SUBSET Nat /\ IsFiniteSet(S)
<1> DEFINE K == {k \in Bids : B[k] # Nil}
           T == {B[k].product : k \in K}
           f == [k \in K |-> B[k].product]
<1>1. IsFiniteSet(K)
  <2>1. K \in SUBSET Bids
    OBVIOUS
  <2> QED
    BY <2>1, BidsAssumption, FS_Subset
<1>2. f \in Surjection(K, T)
  BY DEF Surjection
<1>3. S \in SUBSET T
  OBVIOUS
<1>4. \A p \in T : p \in Nat
  BY NumbersAssumption DEF ProductBid
<1> HIDE DEF f, K, T
<1>5. IsFiniteSet(T)
  BY <1>1, <1>2, FS_Surjection
<1> QED
  BY <1>3, <1>4, <1>5, FS_Subset

LEMMA DueType == IInv => Due \in SUBSET Nat /\ IsFiniteSet(Due)
<1> SUFFICES ASSUME IInv PROVE Due \in SUBSET Nat /\ IsFiniteSet(Due)
  OBVIOUS
<1>1. \A p \in Due : \E k \in Bids : bids[k] # Nil /\ bids[k].product = p
  BY DEF Due, Selected, Stored
<1> QED
  BY <1>1, BiddenFinite DEF IInv, BidsOK

LEMMA DueTypeNext == IInv' => Due' \in SUBSET Nat /\ IsFiniteSet(Due')
<1> SUFFICES ASSUME IInv' PROVE Due' \in SUBSET Nat /\ IsFiniteSet(Due')
  OBVIOUS
<1>1. \A p \in Due' : \E k \in Bids : bids'[k] # Nil /\ bids'[k].product = p
  BY DEF Due, Selected, Stored
<1>2. bids' \in [Bids -> ProductBid \cup {Nil}]
  BY DEF IInv, BidsOK
<1> QED
  BY <1>1, <1>2, BiddenFinite

(* The last price of a product is one of its prices, and the last price is *)
(* not before it.                                                          *)
LEMMA LastOfIsOne ==
  ASSUME IInv, NEW p, LastOf(p) # Nil
  PROVE  \E y \in prices : y.product = p /\ y.date = LastOf(p)
<1> DEFINE Dates == {x.date : x \in {y \in prices : y.product = p}}
<1>1. Dates \in SUBSET (0..MaxNow)
  BY DEF IInv, PricesOK, Proper
<1>2. Dates # {}
  BY DEF LastOf, Latest
<1>3. LastOf(p) \in Dates
  <2>1. LastOf(p) = Latest(Dates)
    BY DEF LastOf
  <2> HIDE DEF Dates
  <2> QED
    BY <1>1, <1>2, <2>1, Numbers, LatestIsGreatest
<1> QED
  BY <1>3

LEMMA LastPriceIsLast ==
  ASSUME IInv, NEW y \in prices
  PROVE  LastPrice # Nil /\ LastPrice \in Nat /\ y.date \in Nat /\ y.date <= LastPrice
<1> DEFINE Dates == {x.date : x \in prices}
<1>1. Dates \in SUBSET (0..MaxNow) /\ y.date \in Dates
  BY DEF IInv, PricesOK, Proper
<1>2. LastPrice \in Dates /\ \A e \in Dates : e <= LastPrice
  <2>1. LastPrice = Latest(Dates)
    BY DEF LastPrice
  <2> HIDE DEF Dates
  <2> QED
    BY <1>1, <2>1, Numbers, LatestIsGreatest
<1> HIDE DEF Dates
<1>3. LastPrice \in 0..MaxNow /\ y.date \in 0..MaxNow
  BY <1>1, <1>2
<1>4. LastPrice \in Nat /\ y.date \in Nat
  BY <1>3, Numbers
<1>5. LastPrice # Nil
  BY <1>4, NilAssumption
<1> QED
  BY <1>1, <1>2, <1>4, <1>5

(* The clock and the deliveries.                                           *)
LEMMA DueGrows ==
  ASSUME IInv, IInv', start' = start, now <= now', \A k \in Stored : k \in Stored' /\ bids'[k] = bids[k]
  PROVE  Due \subseteq Due' /\ Day(now) * PerDay <= Day(now') * PerDay
         /\ Day(now) * PerDay \in Nat /\ Day(now') * PerDay \in Nat
<1>1. now \in Nat /\ now' \in Nat
  BY Numbers DEF IInv, BidsOK
<1>2. Day(now) \in Nat /\ Day(now') \in Nat /\ Day(now) <= Day(now')
  BY <1>1, DayBounds, DayMonotone
<1>3. Day(now) * PerDay <= Day(now') * PerDay
  BY <1>2, Numbers, TimesMonotone
<1>4. Day(now) * PerDay \in Nat /\ Day(now') * PerDay \in Nat
  BY <1>2, Numbers
<1>5. PICK e, f : e = Day(now) * PerDay /\ f = Day(now') * PerDay
  OBVIOUS
<1>6. ASSUME NEW p \in Products, NEW k \in Stored,
             bids[k].product = p, bids[k].date < e, start # Nil => bids[k].date >= start
      PROVE  /\ k \in Stored' /\ bids'[k].product = p /\ bids'[k].date < f
             /\ start' # Nil => bids'[k].date >= start'
  <2>1. bids[k].date \in Nat
    BY StoredBid
  <2> QED
    BY <1>3, <1>4, <1>5, <1>6, <2>1
<1>7. /\ Due = {p \in Products : \E k \in Stored : /\ bids[k].product = p /\ bids[k].date < e
                                                   /\ start # Nil => bids[k].date >= start}
      /\ Due' = {p \in Products : \E k \in Stored' : /\ bids'[k].product = p /\ bids'[k].date < f
                                                     /\ start' # Nil => bids'[k].date >= start'}
  BY <1>5 DEF Due, Selected
<1> QED
  BY <1>3, <1>4, <1>6, <1>7

LEMMA QuietStep ==
  ASSUME IInv, IInv', NightOK, UNCHANGED <<prices, taskVars, owed>>, now <= now',
         \A k \in Stored : k \in Stored' /\ bids'[k] = bids[k]
  PROVE  NightOK'
<1>1. UNCHANGED <<task, start, skip, page, full, plan>>
  BY DEF taskVars
<1>2. ASSUME NEW p, Awaited(p) PROVE Awaited(p)'
  <2>1. Due \in SUBSET Due' /\ Due' \in SUBSET Nat /\ IsFiniteSet(Due')
    BY <1>1, DueGrows, DueTypeNext
  <2>2. Place(p, Due) \in Nat /\ Place(p, Due') \in Nat /\ Place(p, Due) <= Place(p, Due')
    BY <2>1, PlaceGrows
  <2>3. skip \in Nat /\ skip + BatchSize \in Nat
    BY Numbers DEF IInv, TaskOK
  <2> QED
    BY <1>1, <1>2, <2>2, <2>3 DEF Awaited
<1>3. ASSUME NEW k \in owed', NEW bid \in ProductBid, bids'[k] = bid PROVE OwedOK(bid)'
  <2>1. k \in owed /\ k \in Stored /\ bids[k] = bid
    BY <1>3 DEF NightOK
  <2>2. OwedOK(bid)
    BY <2>1 DEF NightOK
  <2>3. bid.date \in Nat
    BY DEF ProductBid
  <2>4. bid.date < Day(now') * PerDay
    BY <1>1, <2>2, <2>3, DueGrows DEF OwedOK
  <2>5. Planned(bid.product, Day(bid.date)) => Planned(bid.product, Day(bid.date))'
    BY <1>1 DEF Planned
  <2>6. ToCome(bid.product, Day(bid.date)) => ToCome(bid.product, Day(bid.date))'
    BY <1>1, <1>2 DEF ToCome
  <2> QED
    BY <1>1, <2>2, <2>4, <2>5, <2>6 DEF OwedOK
<1>4. owed' \in SUBSET Stored'
  BY DEF NightOK
<1> QED
  BY <1>1, <1>3, <1>4 DEF NightOK

(* At the beginning of a run a bid without a price of its day is of a later*)
(* day than all prices of its product.                                     *)
LEMMA BeginNight ==
  ASSUME IInv, IInv', NightOK, Begin
  PROVE  NightOK'
<1>1. /\ task' = "page" /\ start' = LastPrice /\ skip' = 0 /\ plan' = {} /\ page' = {}
      /\ UNCHANGED <<now, bids, prices>>
  BY DEF Begin, NightOK
<1>2. Stored' = Stored
  BY <1>1 DEF Stored
<1>3. ASSUME NEW k \in owed', NEW bid \in ProductBid, bids'[k] = bid PROVE OwedOK(bid)'
  <2>1. /\ k \in Stored /\ bids[k] = bid /\ bid.usable /\ bid.date < Day(now) * PerDay
        /\ LastPrice # Nil => bid.date >= LastPrice
        /\ ~ Priced(k)
    BY <1>1, <1>3 DEF Begin
  <2>2. bid.date \in Nat
    BY DEF ProductBid
  <2>3. ASSUME NEW y \in prices, y.product = bid.product PROVE Day(y.date) < Day(bid.date)
    <3>1. y.date \in Nat /\ y.date <= bid.date
      BY <2>1, <2>2, LastPriceIsLast
    <3>2. Day(y.date) <= Day(bid.date) /\ Day(y.date) \in Nat /\ Day(bid.date) \in Nat
      BY <2>2, <3>1, DayMonotone, DayBounds
    <3>3. Day(y.date) # Day(bid.date)
      BY <2>1, <2>3 DEF Priced
    <3> QED
      BY <3>2, <3>3
  <2>4. PICK p, day : p = bid.product /\ day = Day(bid.date)
    OBVIOUS
  <2>5. Place(p, Due') \in Nat /\ Place(p, Due') >= 1
    BY DueTypeNext, PlaceType
  <2>6. Awaited(p)'
    BY <1>1, <2>5 DEF Awaited
  <2>7. ToCome(p, day)'
    BY <1>1, <2>3, <2>4, <2>6 DEF ToCome
  <2> QED
    BY <1>1, <2>1, <2>4, <2>7 DEF OwedOK
<1>4. owed' \in SUBSET Stored'
  BY <1>2 DEF Begin
<1> QED
  BY <1>1, <1>3, <1>4 DEF NightOK

(* A product to come is on the next page, or the page is full.             *)
LEMMA PageNight ==
  ASSUME IInv, IInv', NightOK, Page
  PROVE  NightOK'
<1>1. /\ task = "page" /\ task' = "products" /\ plan = {} /\ page = {}
      /\ UNCHANGED <<now, bids, prices, start, skip, plan, owed>>
      /\ page' = {p \in Due : Place(p, Due) \in skip + 1 .. skip + BatchSize}
      /\ full' = (Cardinality(page') = BatchSize)
  BY DEF Page, NightOK, Due
<1>2. Stored' = Stored /\ Due' = Due
  BY <1>1 DEF Stored, Due, Selected
<1>3. ASSUME NEW k \in owed', NEW bid \in ProductBid, bids'[k] = bid PROVE OwedOK(bid)'
  <2>1. k \in owed /\ k \in Stored /\ bids[k] = bid /\ OwedOK(bid)
    BY <1>1, <1>3 DEF NightOK
  <2>2. PICK p, day : p = bid.product /\ day = Day(bid.date)
    OBVIOUS
  <2>3. ToCome(p, day) /\ Place(p, Due) > skip
    BY <1>1, <2>1, <2>2 DEF OwedOK, Planned, ToCome, Awaited
  <2>4. p \in Due
    <3>1. p \in Products
      BY <2>2 DEF ProductBid
    <3> QED
      BY <2>1, <2>2, <3>1 DEF OwedOK, Due, Selected
  <2>5. Due \in SUBSET Nat /\ IsFiniteSet(Due) /\ Place(p, Due) \in Nat /\ skip \in Nat
    BY DueType, PlaceType DEF IInv, TaskOK
  <2>6. Awaited(p)'
    <3>1. Place(p, Due) <= skip + BatchSize \/ Place(p, Due) > skip + BatchSize
      BY <2>5, Numbers
    <3>2. CASE Place(p, Due) <= skip + BatchSize
      <4>1. Place(p, Due) \in skip + 1 .. skip + BatchSize
        BY <2>3, <2>5, <3>2, Numbers
      <4> QED
        BY <1>1, <2>4, <4>1 DEF Awaited
    <3>3. CASE Place(p, Due) > skip + BatchSize
      <4>1. Cardinality(page') = BatchSize
        BY <1>1, <2>4, <2>5, <3>3, Numbers, PageFull
      <4> QED
        BY <1>1, <1>2, <3>3, <4>1 DEF Awaited
    <3> QED
      BY <3>1, <3>2, <3>3
  <2>7. ToCome(p, day)'
    BY <1>1, <2>3, <2>6 DEF ToCome
  <2> QED
    BY <1>1, <2>1, <2>2, <2>7 DEF OwedOK
<1> QED
  BY <1>1, <1>2, <1>3 DEF NightOK

(* The plan for a product to come has a price of the day.                  *)
LEMMA PlanReaches ==
  ASSUME IInv, NEW k \in Stored, NEW bid, bids[k] = bid, bid.usable,
         \A y \in prices : y.product = bid.product => Day(y.date) < Day(bid.date)
  PROVE  \E x \in PlanFor(bid.product) : x.product = bid.product /\ Day(x.date) = Day(bid.date)
<1>1. PICK p, day : p = bid.product /\ day = Day(bid.date)
  OBVIOUS
<1>2. bid \in ProductBid /\ p \in Products /\ bid.date \in Nat /\ day \in Nat
        /\ day * PerDay <= bid.date /\ day * PerDay \in Nat
  <2>1. bid \in ProductBid
    BY StoredBid
  <2>2. p \in Products /\ bid.date \in Nat
    BY <1>1, <2>1 DEF ProductBid
  <2> QED
    BY <1>1, <2>1, <2>2, DayBounds, Numbers
<1>3. LastOf(p) # Nil => LastOf(p) \in Nat /\ Day(LastOf(p)) \in Nat /\ Day(LastOf(p)) < day
  BY <1>1, LastOfIsOne, LastOfIsLast, DayBounds, Numbers
<1>4. k \in BidsOf(p)
  <2>1. ASSUME LastOf(p) # Nil PROVE bid.date >= (Day(LastOf(p)) - DaysBack) * PerDay
    <3>1. PICK m : m = Day(LastOf(p)) - DaysBack
      OBVIOUS
    <3>2. m \in Int /\ m <= day
      BY <1>2, <1>3, <2>1, <3>1, Numbers
    <3>3. m * PerDay <= day * PerDay /\ m * PerDay \in Int
      BY <1>2, <3>2, Numbers, TimesMonotone
    <3> QED
      BY <1>2, <3>1, <3>3
  <2> QED
    BY <1>1, <2>1 DEF BidsOf
<1>5. day \in DaysToPrice(p)
  BY <1>1, <1>3, <1>4 DEF DaysToPrice
<1>6. PICK x : x = Price(p, day)
  OBVIOUS
<1>7. x.product = p /\ Day(x.date) = day
  BY <1>2, <1>5, <1>6, PlannedPrice
<1>8. x \in PlanFor(p)
  BY <1>5, <1>6 DEF PlanFor
<1> QED
  BY <1>1, <1>7, <1>8

LEMMA CalculateNight ==
  ASSUME IInv, IInv', NightOK, Calculate
  PROVE  NightOK'
<1>1. PICK q \in page : plan' = PlanFor(q) /\ page' = page \ {q}
  BY DEF Calculate
<1>2. /\ task = "products" /\ plan = {} /\ q \in Products
      /\ UNCHANGED <<now, bids, prices, task, start, skip, full, owed>>
  BY DEF Calculate, IInv, TaskOK
<1>3. Stored' = Stored /\ Due' = Due
  BY <1>2 DEF Stored, Due, Selected
<1>4. \A x \in plan' : x.product = q
  BY <1>1, <1>2, PlannedPrice DEF PlanFor
<1>5. ASSUME NEW k \in owed', NEW bid \in ProductBid, bids'[k] = bid PROVE OwedOK(bid)'
  <2>1. k \in owed /\ k \in Stored /\ bids[k] = bid /\ OwedOK(bid)
    BY <1>2, <1>5 DEF NightOK
  <2>2. PICK p, day : p = bid.product /\ day = Day(bid.date)
    OBVIOUS
  <2>3. ToCome(p, day)
    BY <1>2, <2>1, <2>2 DEF OwedOK, Planned
  <2>4. ASSUME p = q PROVE Planned(p, day)'
    <3>1. bid.usable /\ \A y \in prices : y.product = bid.product => Day(y.date) < Day(bid.date)
      BY <2>1, <2>2, <2>3 DEF OwedOK, ToCome
    <3>2. PICK x \in PlanFor(bid.product) : x.product = bid.product /\ Day(x.date) = Day(bid.date)
      BY <2>1, <3>1, PlanReaches
    <3> QED
      BY <1>1, <2>2, <2>4, <3>2 DEF Planned
  <2>5. ASSUME p # q PROVE ToCome(p, day)'
    <3>1. Awaited(p)'
      BY <1>1, <1>2, <1>3, <2>3, <2>5 DEF ToCome, Awaited
    <3> QED
      BY <1>2, <1>4, <2>3, <2>5, <3>1 DEF ToCome
  <2> QED
    BY <1>2, <2>1, <2>2, <2>4, <2>5 DEF OwedOK
<1> QED
  BY <1>2, <1>3, <1>5 DEF NightOK

LEMMA InsertNight ==
  ASSUME IInv, IInv', NightOK, Insert
  PROVE  NightOK'
<1>1. PICK x \in plan : prices' = prices \cup {x} /\ plan' = plan \ {x}
  BY DEF Insert
<1>2. /\ task = "products" /\ UNCHANGED <<now, bids, task, start, skip, page, full>>
      /\ owed' = {k \in owed : ~ Priced(k)'}
  BY DEF Insert
<1>3. Stored' = Stored /\ Due' = Due
  BY <1>2 DEF Stored, Due, Selected
<1>4. ASSUME NEW k \in owed', NEW bid \in ProductBid, bids'[k] = bid PROVE OwedOK(bid)'
  <2>1. k \in owed /\ k \in Stored /\ bids[k] = bid /\ OwedOK(bid)
    BY <1>2, <1>4 DEF NightOK
  <2>2. PICK p, day : p = bid.product /\ day = Day(bid.date)
    OBVIOUS
  <2>3. \A y \in prices' : ~ (y.product = p /\ Day(y.date) = day)
    <3>1. ~ Priced(k)'
      BY <1>2
    <3> QED
      BY <1>4, <2>2, <3>1 DEF Priced
  <2>4. Planned(p, day) => Planned(p, day)'
    BY <1>1, <2>3 DEF Planned
  <2>5. ToCome(p, day) => ToCome(p, day)'
    <3>1. Awaited(p) => Awaited(p)'
      BY <1>2, <1>3 DEF Awaited
    <3> QED
      BY <1>1, <3>1 DEF ToCome
  <2> QED
    BY <1>2, <2>1, <2>2, <2>4, <2>5 DEF OwedOK
<1> QED
  BY <1>2, <1>3, <1>4 DEF NightOK

LEMMA PageEndNight ==
  ASSUME IInv, IInv', NightOK, PageEnd
  PROVE  NightOK'
<1>1. task = "products" /\ plan = {} /\ page = {} /\ UNCHANGED <<now, bids, prices, page, plan>>
  BY DEF PageEnd
<1>2. CASE ~ full
  BY <1>1, <1>2 DEF PageEnd, NightOK
<1>3. CASE full
  <2>1. task' = "page" /\ skip' = skip + BatchSize /\ start' = start /\ owed' = owed
    BY <1>3 DEF PageEnd
  <2>2. Stored' = Stored /\ Due' = Due
    BY <1>1, <2>1 DEF Stored, Due, Selected
  <2>3. ASSUME NEW k \in owed', NEW bid \in ProductBid, bids'[k] = bid PROVE OwedOK(bid)'
    <3>1. k \in owed /\ k \in Stored /\ bids[k] = bid /\ OwedOK(bid)
      BY <1>1, <2>1, <2>3 DEF NightOK
    <3>2. PICK p, day : p = bid.product /\ day = Day(bid.date)
      OBVIOUS
    <3>3. ToCome(p, day)
      BY <1>1, <3>1, <3>2 DEF OwedOK, Planned
    <3>4. Awaited(p)'
      BY <1>1, <2>1, <2>2, <3>3 DEF ToCome, Awaited
    <3>5. ToCome(p, day)'
      BY <1>1, <3>3, <3>4 DEF ToCome
    <3> QED
      BY <1>1, <2>1, <3>1, <3>2, <3>5 DEF OwedOK
  <2> QED
    BY <1>1, <2>1, <2>2, <2>3 DEF NightOK
<1> QED
  BY <1>2, <1>3

LEMMA FailNight ==
  ASSUME IInv, IInv', NightOK, ProductFails
  PROVE  NightOK'
<1>1. /\ task = "products" /\ plan' = {} /\ UNCHANGED <<now, bids, prices, task, start, skip, full>>
      /\ page' = IF plan # {} THEN page ELSE page \ Failing
      /\ owed' = {k \in owed : bids[k].product \notin Failing}
  BY DEF ProductFails
<1>2. Stored' = Stored /\ Due' = Due
  BY <1>1 DEF Stored, Due, Selected
<1>3. ASSUME NEW k \in owed', NEW bid \in ProductBid, bids'[k] = bid PROVE OwedOK(bid)'
  <2>1. k \in owed /\ k \in Stored /\ bids[k] = bid /\ OwedOK(bid) /\ bid.product \notin Failing
    BY <1>1, <1>3 DEF NightOK
  <2>2. PICK p, day : p = bid.product /\ day = Day(bid.date)
    OBVIOUS
  <2>3. ~ Planned(p, day)
    BY <2>1, <2>2 DEF Planned, Failing
  <2>4. ToCome(p, day)
    BY <2>1, <2>2, <2>3 DEF OwedOK
  <2>5. Awaited(p)'
    BY <1>1, <1>2, <2>1, <2>2, <2>4 DEF ToCome, Awaited
  <2>6. ToCome(p, day)'
    BY <1>1, <2>4, <2>5 DEF ToCome
  <2> QED
    BY <1>1, <2>1, <2>2, <2>6 DEF OwedOK
<1> QED
  BY <1>1, <1>2, <1>3 DEF NightOK

LEMMA NightStep == IInv /\ IInv' /\ NightOK /\ [Next]_vars => NightOK'
<1> SUFFICES ASSUME IInv, IInv', NightOK, [Next]_vars PROVE NightOK'
  OBVIOUS
<1>1. CASE Tick
  <2>1. now <= now' /\ UNCHANGED <<bids, prices, taskVars, owed>>
    BY <1>1 DEF Tick, IInv, BidsOK
  <2> QED
    BY <2>1, QuietStep DEF Stored
<1>2. ASSUME NEW k \in Bids, NEW bid \in Contents[k], Deliver(k, bid) PROVE NightOK'
  <2>1. now <= now' /\ UNCHANGED <<prices, taskVars, owed>>
    BY <1>2 DEF Deliver, IInv, BidsOK
  <2>2. \A l \in Stored : l \in Stored' /\ bids'[l] = bids[l]
    BY <1>2 DEF Deliver, Stored, IInv, BidsOK
  <2> QED
    BY <2>1, <2>2, QuietStep
<1>3. CASE NightStart \/ FullStart
  BY <1>3 DEF NightStart, FullStart, NightOK
<1>4. CASE Die
  BY <1>4 DEF Die, NightOK
<1>5. CASE UNCHANGED vars
  <2>1. now <= now' /\ UNCHANGED <<bids, prices, taskVars, owed>>
    BY <1>5 DEF vars, IInv, BidsOK
  <2> QED
    BY <2>1, QuietStep DEF Stored
<1> QED
  BY <1>1, <1>2, <1>3, <1>4, <1>5, BeginNight, PageNight, CalculateNight, InsertNight,
     PageEndNight, FailNight DEF Next, TaskStep

LEMMA Inductive == Spec => [](IInv /\ NightOK)
<1>1. Init => IInv /\ NightOK
  BY InitIInv, InitNightOK
<1>2. (IInv /\ NightOK) /\ [Next]_vars => (IInv /\ NightOK)'
  BY IInvStep, NightStep
<1> QED
  BY <1>1, <1>2, PTL DEF Spec

-----------------------------------------------------------------------------
(* Bids, prices and the task keep their types, and the quartiles of every  *)
(* price come in their order, for any amounts (calculate_price_for_product)*)
THEOREM TypeCorrect == Spec => []TypeOK
<1> QED
  BY TypesCorrect, Inductive, PTL

(* A new price stands for all the bids of its product and window, although *)
(* the task reads only those since shortly before the product's last price *)
(* (calculate_price_for_product), whatever was delivered late.             *)
THEOREM WindowTheorem == Spec => WindowComplete
<1>1. IInv /\ [Next]_vars =>
        [plan = {} =>
           \A x \in plan' :
             x.sample = {k \in Stored : /\ bids[k].product = x.product /\ bids[k].usable
                                        /\ Day(bids[k].date) <= Day(x.date)
                                        /\ Day(bids[k].date) > Day(x.date) - DaysBack}]_vars
  <2> SUFFICES ASSUME IInv, Next, plan = {}, NEW x \in plan'
               PROVE  x.sample = Window(x.product, Day(x.date))
    BY DEF Window
  <2>1. Calculate
    BY DEF Next, TaskStep, Tick, Deliver, taskVars, NightStart, Begin, Page, Insert, PageEnd,
       FullStart, ProductFails, Die
  <2>2. PICK p \in page : plan' = PlanFor(p)
    BY <2>1 DEF Calculate
  <2>3. PICK day \in DaysToPrice(p) : x = Price(p, day)
    BY <2>2 DEF PlanFor
  <2>4. p \in Products
    BY DEF IInv, TaskOK
  <2> QED
    BY <2>3, <2>4, PlannedPrice
<1> QED
  BY <1>1, Inductive, PTL DEF Spec, WindowComplete

(* A product gets one price a day, and a new price is of a later day than  *)
(* all it has: when the task dies between two days, when bids come late and*)
(* when a product is on two pages (insert_price).                          *)
THEOREM DaysTheorem == Spec => DaysIncrease
<1>1. IInv /\ [Next]_vars =>
        [\A x \in prices' \ prices : \A y \in prices :
           y.product = x.product => Day(y.date) < Day(x.date)]_vars
  <2> SUFFICES ASSUME IInv, Next, NEW x \in prices' \ prices, NEW y \in prices, y.product = x.product
               PROVE  Day(y.date) < Day(x.date)
    OBVIOUS
  <2>1. x \in plan
    BY DEF Next, TaskStep, Tick, Deliver, NightStart, Begin, Page, Calculate, Insert, PageEnd,
       FullStart, ProductFails, Die
  <2> QED
    BY <2>1 DEF IInv, PlanOK
<1> QED
  BY <1>1, Inductive, PTL DEF Spec, DaysIncrease

(* A run that goes to its end has priced every day it could: products may  *)
(* come up between its pages, which move the others back, so that one is   *)
(* done twice but none is passed over (calculate_price, which pages with an*)
(* offset over a result that grows).                                       *)
THEOREM NightPricesTheorem == Spec => []NightPrices
<1>1. IInv /\ NightOK => NightPrices
  <2> SUFFICES ASSUME IInv, NightOK, task = "products", page = {}, plan = {}, ~ full, NEW k \in owed
               PROVE  FALSE
    BY DEF NightPrices
  <2>1. PICK bid \in ProductBid : bids[k] = bid
    BY StoredBid DEF NightOK
  <2>2. OwedOK(bid)
    BY <2>1 DEF NightOK
  <2> QED
    BY <2>2 DEF OwedOK, Planned, ToCome, Awaited
<1> QED
  BY <1>1, Inductive, PTL
=============================================================================

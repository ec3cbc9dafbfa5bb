-------------------------- MODULE Promotion_proof ---------------------------
(***************************************************************************)
(* Facts about what _promote_popular_models computes, for every            *)
(* models.yaml and every usage log: the new order exists and is unique,    *)
(* it ranks by use, and reordering twice by the same log changes nothing;  *)
(* and that the scheduler has one first candidate to choose.               *)
(***************************************************************************)
EXTENDS UsagePromotion, FiniteSetTheorems, WellFoundedInduction, TLAPS

-----------------------------------------------------------------------------
(* Least elements and enumerations *)

(***************************************************************************)
(* A non-empty set of naturals has a least element.                        *)
(***************************************************************************)
LEMMA LeastNatural ==
  ASSUME NEW S, S \subseteq Nat, S # {}
  PROVE  \E n \in S : \A k \in S : n <= k
<1>1. \E n \in S : \A k \in S : ~(<<k, n>> \in OpToRel(<, Nat))
  BY NatLessThanWellFounded, WFMin
<1>2. PICK n \in S : \A k \in S : ~(<<k, n>> \in OpToRel(<, Nat))
  BY <1>1
<1>3. ASSUME NEW k \in S
      PROVE  n <= k
  <2>1. ~(<<k, n>> \in OpToRel(<, Nat))
    BY <1>2
  <2>2. ~(k < n)
    BY <2>1 DEF OpToRel
  <2> QED
    BY <2>2
<1> QED
  BY <1>3

LEMMA CardinalityUpTo ==
  ASSUME NEW n \in Nat
  PROVE  IsFiniteSet(1..n) /\ Cardinality(1..n) = n
<1>1. Cardinality(1..n) = IF 1 > n THEN 0 ELSE n - 1 + 1
  BY FS_Interval
<1> QED
  BY <1>1, FS_Interval

(***************************************************************************)
(* R orders S: strictly and totally.                                       *)
(***************************************************************************)
OrdersStrictly(R, S) ==
  /\ \A x \in S : <<x, x>> \notin R
  /\ \A x, y, z \in S : <<x, y>> \in R /\ <<y, z>> \in R => <<x, z>> \in R
  /\ \A x, y \in S : x # y => <<x, y>> \in R \/ <<y, x>> \in R

Below(R, S, x) == {y \in S : <<y, x>> \in R}

\* The sequences of all elements of S in the order of R.
Enumerations(R, S) ==
  {f \in [1..Cardinality(S) -> S] :
     \A k, l \in 1..Cardinality(S) : k < l => <<f[k], f[l]>> \in R}

LEMMA BelowCardinality ==
  ASSUME NEW S, IsFiniteSet(S), NEW R, OrdersStrictly(R, S)
  PROVE  /\ \A x \in S : /\ Cardinality(Below(R, S, x)) \in Nat
                         /\ Cardinality(Below(R, S, x)) < Cardinality(S)
         /\ \A x, y \in S : <<x, y>> \in R =>
              Cardinality(Below(R, S, x)) < Cardinality(Below(R, S, y))
<1>1. ASSUME NEW x \in S
      PROVE  /\ IsFiniteSet(Below(R, S, x))
             /\ Cardinality(Below(R, S, x)) \in Nat
             /\ Cardinality(Below(R, S, x)) < Cardinality(S)
  <2>1. Below(R, S, x) \in SUBSET S /\ x \notin Below(R, S, x)
    BY DEF Below, OrdersStrictly
  <2>2. IsFiniteSet(Below(R, S, x)) /\ Cardinality(Below(R, S, x)) <= Cardinality(S)
    BY <2>1, FS_Subset
  <2>3. Cardinality(S) # Cardinality(Below(R, S, x))
    BY <2>1, FS_Subset
  <2>4. Cardinality(S) \in Nat /\ Cardinality(Below(R, S, x)) \in Nat
    BY <2>2, FS_CardinalityType
  <2> QED
    BY <2>2, <2>3, <2>4
<1>2. ASSUME NEW x \in S, NEW y \in S, <<x, y>> \in R
      PROVE  Cardinality(Below(R, S, x)) < Cardinality(Below(R, S, y))
  <2>1. Below(R, S, x) \in SUBSET Below(R, S, y)
    BY <1>2 DEF Below, OrdersStrictly
  <2>2. x \in Below(R, S, y) /\ x \notin Below(R, S, x)
    BY <1>2 DEF Below, OrdersStrictly
  <2>3. /\ Cardinality(Below(R, S, x)) <= Cardinality(Below(R, S, y))
        /\ Cardinality(Below(R, S, y)) # Cardinality(Below(R, S, x))
    BY <1>1, <2>1, <2>2, FS_Subset
  <2>4. /\ Cardinality(Below(R, S, x)) \in Nat
        /\ Cardinality(Below(R, S, y)) \in Nat
    BY <1>1
  <2> QED
    BY <2>3, <2>4
<1> QED
  BY <1>1, <1>2

(***************************************************************************)
(* A finite set can be enumerated in any strict total order: put x at the  *)
(* position one above the number of elements below it.                     *)
(***************************************************************************)
LEMMA EnumerationExists ==
  ASSUME NEW S, IsFiniteSet(S), NEW R, OrdersStrictly(R, S)
  PROVE  Enumerations(R, S) # {}
<1> DEFINE n == Cardinality(S)
           rank == [x \in S |-> Cardinality(Below(R, S, x)) + 1]
<1>1. n \in Nat
  BY FS_CardinalityType
<1>2. \A x \in S : rank[x] \in 1..n
  <2> TAKE x \in S
  <2>1. /\ Cardinality(Below(R, S, x)) \in Nat
        /\ Cardinality(Below(R, S, x)) < n
    BY BelowCardinality
  <2>2. rank[x] = Cardinality(Below(R, S, x)) + 1
    OBVIOUS
  <2> QED
    BY <1>1, <2>1, <2>2
<1>3. ASSUME NEW x \in S, NEW y \in S, <<x, y>> \in R
      PROVE  rank[x] < rank[y]
  <2>1. /\ Cardinality(Below(R, S, x)) \in Nat
        /\ Cardinality(Below(R, S, y)) \in Nat
        /\ Cardinality(Below(R, S, x)) < Cardinality(Below(R, S, y))
    BY <1>3, BelowCardinality
  <2> QED
    BY <2>1
<1>4. rank \in [S -> 1..n]
  BY <1>2
<1> HIDE DEF rank, n
<1>5. \A x, y \in S : rank[x] = rank[y] => x = y
  <2> SUFFICES ASSUME NEW x \in S, NEW y \in S, rank[x] = rank[y], x # y
               PROVE  FALSE
    OBVIOUS
  <2>1. <<x, y>> \in R \/ <<y, x>> \in R
    BY DEF OrdersStrictly
  <2>2. rank[x] < rank[y] \/ rank[y] < rank[x]
    BY <2>1, <1>3
  <2> QED
    BY <2>2, <1>1, <1>2
<1>6. IsFiniteSet(1..n) /\ Cardinality(1..n) = Cardinality(S)
  BY <1>1, CardinalityUpTo DEF n
<1>7. rank \in Surjection(S, 1..n)
  <2>1. rank \in Injection(S, 1..n)
    BY <1>4, <1>5 DEF Injection, IsInjective
  <2> QED
    BY <2>1, <1>6, FS_Injection
<1>8. \A k \in 1..n : \E x \in S : rank[x] = k
  BY <1>7 DEF Surjection
<1> DEFINE f == [k \in 1..n |-> CHOOSE x \in S : rank[x] = k]
<1>9. \A k \in 1..n : f[k] \in S /\ rank[f[k]] = k
  BY <1>8
<1> HIDE DEF f
<1>10. ASSUME NEW k \in 1..n, NEW l \in 1..n, k < l
       PROVE  <<f[k], f[l]>> \in R
  <2>1. f[k] \in S /\ f[l] \in S /\ f[k] # f[l]
    BY <1>9, <1>10
  <2>2. <<f[k], f[l]>> \in R \/ <<f[l], f[k]>> \in R
    BY <2>1 DEF OrdersStrictly
  <2>3. ASSUME <<f[l], f[k]>> \in R
        PROVE  FALSE
    <3>1. rank[f[l]] < rank[f[k]]
      BY <2>1, <2>3, <1>3
    <3> QED
      BY <3>1, <1>9, <1>10
  <2> QED
    BY <2>2, <2>3
<1>11. f \in [1..n -> S]
  BY <1>9 DEF f
<1>12. f \in Enumerations(R, S)
  BY <1>10, <1>11 DEF Enumerations, n
<1> QED
  BY <1>12

(***************************************************************************)
(* The k-th element of such an enumeration has k - 1 elements below it.    *)
(***************************************************************************)
LEMMA EnumerationRanks ==
  ASSUME NEW S, IsFiniteSet(S), NEW R, OrdersStrictly(R, S),
         NEW f \in Enumerations(R, S), NEW k \in 1..Cardinality(S)
  PROVE  /\ f \in Bijection(1..Cardinality(S), S)
         /\ Cardinality(Below(R, S, f[k])) = k - 1
<1> DEFINE n == Cardinality(S)
<1>1. n \in Nat
  BY FS_CardinalityType
<1>2. f \in [1..n -> S]
  BY DEF Enumerations
<1>3. \A i, j \in 1..n : i < j => <<f[i], f[j]>> \in R
  BY DEF Enumerations
<1>4. IsFiniteSet(1..n) /\ Cardinality(1..n) = n
  BY <1>1, CardinalityUpTo
<1> HIDE DEF n
<1>5. \A i, j \in 1..n : <<f[i], f[j]>> \in R => i < j
  <2> SUFFICES ASSUME NEW i \in 1..n, NEW j \in 1..n, <<f[i], f[j]>> \in R,
                      ~(i < j)
               PROVE  FALSE
    OBVIOUS
  <2>1. f[i] \in S /\ f[j] \in S
    BY <1>2
  <2>2. CASE i = j
    BY <2>1, <2>2 DEF OrdersStrictly
  <2>3. CASE j < i
    <3>1. <<f[j], f[i]>> \in R
      BY <1>3, <2>3
    <3>2. <<f[i], f[i]>> \in R
      BY <3>1, <2>1 DEF OrdersStrictly
    <3> QED
      BY <3>2, <2>1 DEF OrdersStrictly
  <2> QED
    BY <1>1, <2>2, <2>3
<1>6. \A i, j \in 1..n : f[i] = f[j] => i = j
  <2> SUFFICES ASSUME NEW i \in 1..n, NEW j \in 1..n, f[i] = f[j], i # j
               PROVE  FALSE
    OBVIOUS
  <2>1. i < j \/ j < i
    BY <1>1
  <2>2. <<f[i], f[i]>> \in R
    BY <1>3, <2>1
  <2> QED
    BY <1>2, <2>2 DEF OrdersStrictly
<1>7. f \in Injection(1..n, S)
  BY <1>2, <1>6 DEF Injection, IsInjective
<1>8. f \in Surjection(1..n, S)
  BY <1>4, <1>7, FS_Injection DEF n
<1>9. \A x \in S : \E i \in 1..n : f[i] = x
  BY <1>8 DEF Surjection
<1> DEFINE B == Below(R, S, f[k])
           h == [i \in 1..(k - 1) |-> f[i]]
<1>10. k \in 1..n /\ k - 1 \in Nat
  BY <1>1 DEF n
<1>11. \A i \in 1..(k - 1) : i \in 1..n /\ f[i] \in B
  <2> TAKE i \in 1..(k - 1)
  <2>1. i \in 1..n /\ i < k
    BY <1>1, <1>10
  <2> QED
    BY <2>1, <1>2, <1>3, <1>10 DEF Below
<1>12. \A x \in B : \E i \in 1..(k - 1) : f[i] = x
  <2> TAKE x \in B
  <2>1. x \in S /\ <<x, f[k]>> \in R
    BY DEF Below
  <2>2. PICK i \in 1..n : f[i] = x
    BY <2>1, <1>9
  <2>3. i < k
    BY <2>1, <2>2, <1>5, <1>10
  <2>4. i \in 1..(k - 1)
    BY <2>3, <1>1, <1>10
  <2> QED
    BY <2>2, <2>4
<1> HIDE DEF B
<1>13. h \in Bijection(1..(k - 1), B)
  <2>1. h \in [1..(k - 1) -> B]
    BY <1>11
  <2>2. h \in Injection(1..(k - 1), B)
    BY <2>1, <1>6, <1>11 DEF Injection, IsInjective
  <2>3. h \in Surjection(1..(k - 1), B)
    BY <2>1, <1>12 DEF Surjection
  <2> QED
    BY <2>2, <2>3 DEF Bijection
<1>14. Cardinality(B) = k - 1
  <2>1. ExistsBijection(1..(k - 1), B)
    BY <1>13 DEF ExistsBijection
  <2>2. IsFiniteSet(1..(k - 1)) /\ Cardinality(1..(k - 1)) = k - 1
    BY <1>10, CardinalityUpTo
  <2> QED
    BY <2>1, <2>2, FS_Bijection
<1> QED
  BY <1>7, <1>8, <1>14 DEF Bijection, B, n

LEMMA EnumerationUnique ==
  ASSUME NEW S, IsFiniteSet(S), NEW R, OrdersStrictly(R, S),
         NEW f \in Enumerations(R, S), NEW g \in Enumerations(R, S)
  PROVE  f = g
<1> DEFINE n == Cardinality(S)
<1>1. f \in [1..n -> S] /\ g \in [1..n -> S]
  BY DEF Enumerations
<1>2. ASSUME NEW k \in 1..n
      PROVE  f[k] = g[k]
  <2>1. /\ Cardinality(Below(R, S, f[k])) = k - 1
        /\ Cardinality(Below(R, S, g[k])) = k - 1
    BY EnumerationRanks
  <2>2. f[k] \in S /\ g[k] \in S
    BY <1>1
  <2>3. ~(k - 1 < k - 1)
    OBVIOUS
  <2>4. <<f[k], g[k]>> \notin R /\ <<g[k], f[k]>> \notin R
    BY <2>1, <2>2, <2>3, BelowCardinality
  <2> QED
    BY <2>2, <2>4 DEF OrdersStrictly
<1> HIDE DEF n
<1>3. f = [k \in 1..n |-> f[k]] /\ g = [k \in 1..n |-> g[k]]
  BY <1>1
<1>4. [k \in 1..n |-> f[k]] = [k \in 1..n |-> g[k]]
  BY <1>2
<1> QED
  BY <1>3, <1>4

-----------------------------------------------------------------------------
(* The order of the entries *)

LEMMA KeptFinite ==
  ASSUME NEW m \in Seq(Entry), NEW view
  PROVE  /\ Kept(m, view) \subseteq 1..Len(m)
         /\ IsFiniteSet(Kept(m, view))
         /\ Cardinality(Kept(m, view)) \in Nat
<1>1. Kept(m, view) \subseteq 1..Len(m)
  BY DEF Kept
<1>2. IsFiniteSet(1..Len(m))
  BY FS_Interval
<1> QED
  BY <1>1, <1>2, FS_Subset, FS_CardinalityType

(***************************************************************************)
(* A reordering of a sequence of entries is a sequence of entries.         *)
(***************************************************************************)
LEMMA ReorderedType ==
  ASSUME NEW m \in Seq(Entry), NEW view, NEW order \in Orders(m, view)
  PROVE  Reordered(m, order) \in Seq(Entry)
<1> DEFINE last == Cardinality(Kept(m, view))
<1>1. last \in Nat /\ Kept(m, view) \subseteq 1..Len(m)
  BY KeptFinite
<1>2. order \in [1..last -> Kept(m, view)]
  BY DEF Orders
<1>3. \A n \in 1..last : m[order[n]] \in Entry
  BY <1>1, <1>2
<1> QED
  BY <1>1, <1>2, <1>3 DEF Reordered

LEMMA UseCountType ==
  ASSUME NEW view \in Seq(Line), NEW id
  PROVE  UseCount(view, id) \in Nat
<1>1. IsFiniteSet(1..Len(view))
  BY FS_Interval
<1>2. {n \in DOMAIN view : view[n] = id} \subseteq 1..Len(view)
  OBVIOUS
<1> QED
  BY <1>1, <1>2, FS_Subset, FS_CardinalityType DEF UseCount

(***************************************************************************)
(* An entry whose id the log does not name has use count 0.                *)
(***************************************************************************)
LEMMA UnusedCount ==
  ASSUME NEW log, NEW id \in ModelId, id \notin Used(log)
  PROVE  UseCount(log, id) = 0
<1>1. {n \in DOMAIN log : log[n] = id} = {}
  BY AgentLineAssumption DEF Used
<1> QED
  BY <1>1, FS_EmptySet DEF UseCount

(***************************************************************************)
(* Of two ids of the log, one was seen before the other: the dictionary    *)
(* order that sorted() falls back to is a strict total order.              *)
(***************************************************************************)
LEMMA SeenBeforeOrders ==
  ASSUME NEW log \in Seq(Line)
  PROVE  /\ \A a : ~SeenBefore(log, a, a)
         /\ \A a, b, c : SeenBefore(log, a, b) /\ SeenBefore(log, b, c)
                           => SeenBefore(log, a, c)
         /\ \A a, b \in Used(log) :
              a # b => SeenBefore(log, a, b) \/ SeenBefore(log, b, a)
<1>1. DOMAIN log = 1..Len(log) /\ Len(log) \in Nat
  OBVIOUS
<1>2. ASSUME NEW a
      PROVE  ~SeenBefore(log, a, a)
  <2> SUFFICES ASSUME NEW n \in DOMAIN log, log[n] = a,
                      \A k \in 1..n : log[k] # a
               PROVE  FALSE
    BY DEF SeenBefore
  <2>1. n \in 1..n
    BY <1>1
  <2> QED
    BY <2>1
<1>3. ASSUME NEW a, NEW b, NEW c, SeenBefore(log, a, b), SeenBefore(log, b, c)
      PROVE  SeenBefore(log, a, c)
  <2>1. PICK i \in DOMAIN log : log[i] = a /\ \A k \in 1..i : log[k] # b
    BY <1>3 DEF SeenBefore
  <2>2. PICK j \in DOMAIN log : log[j] = b /\ \A k \in 1..j : log[k] # c
    BY <1>3 DEF SeenBefore
  <2>3. i < j
    BY <2>1, <2>2, <1>1
  <2>4. \A k \in 1..i : log[k] # c
    BY <2>2, <2>3, <1>1
  <2> QED
    BY <2>1, <2>4 DEF SeenBefore
<1>4. ASSUME NEW a \in Used(log), NEW b \in Used(log), a # b
      PROVE  SeenBefore(log, a, b) \/ SeenBefore(log, b, a)
  <2> DEFINE S == {n \in DOMAIN log : log[n] \in {a, b}}
  <2>1. S \subseteq Nat /\ S # {}
    BY <1>1 DEF Used
  <2>2. PICK n \in S : \A k \in S : n <= k
    BY <2>1, LeastNatural
  <2>3. n \in DOMAIN log /\ log[n] \in {a, b}
    OBVIOUS
  <2>4. \A k \in 1..n : k # n => log[k] \notin {a, b}
    <3> SUFFICES ASSUME NEW k \in 1..n, k # n, log[k] \in {a, b}
                 PROVE  FALSE
      OBVIOUS
    <3>1. k \in DOMAIN log
      BY <1>1, <2>3
    <3>2. n <= k
      BY <2>2, <3>1
    <3> QED
      BY <3>2, <1>1, <2>3
  <2>5. CASE log[n] = a
    <3>1. \A k \in 1..n : log[k] # b
      BY <2>4, <2>5, <1>4
    <3> QED
      BY <3>1, <2>3, <2>5 DEF SeenBefore
  <2>6. CASE log[n] = b
    <3>1. \A k \in 1..n : log[k] # a
      BY <2>4, <2>6, <1>4
    <3> QED
      BY <3>1, <2>3, <2>6 DEF SeenBefore
  <2> QED
    BY <2>3, <2>5, <2>6
<1> QED
  BY <1>2, <1>3, <1>4

\* Precedes among the kept positions, as a relation.
Precedence(m, log) ==
  {r \in Kept(m, log) \X Kept(m, log) : Precedes(m, log, r[1], r[2])}

(***************************************************************************)
(* RanksBefore is a strict order, total on the ids of the log.             *)
(***************************************************************************)
LEMMA RanksBeforeOrders ==
  ASSUME NEW log \in Seq(Line)
  PROVE  /\ \A a : ~RanksBefore(log, a, a)
         /\ \A a, b, c : RanksBefore(log, a, b) /\ RanksBefore(log, b, c)
                           => RanksBefore(log, a, c)
         /\ \A a, b \in Used(log) :
              a # b => RanksBefore(log, a, b) \/ RanksBefore(log, b, a)
<1>1. \A a : UseCount(log, a) \in Nat
  BY UseCountType
<1>2. \A a : ~RanksBefore(log, a, a)
  BY <1>1, SeenBeforeOrders DEF RanksBefore
<1>3. ASSUME NEW a, NEW b, NEW c, RanksBefore(log, a, b), RanksBefore(log, b, c)
      PROVE  RanksBefore(log, a, c)
  <2>1. /\ UseCount(log, a) \in Nat /\ UseCount(log, b) \in Nat
        /\ UseCount(log, c) \in Nat
    BY <1>1
  <2>2. SeenBefore(log, a, b) /\ SeenBefore(log, b, c) => SeenBefore(log, a, c)
    BY SeenBeforeOrders
  <2> QED
    BY <1>3, <2>1, <2>2 DEF RanksBefore
<1>4. ASSUME NEW a \in Used(log), NEW b \in Used(log), a # b
      PROVE  RanksBefore(log, a, b) \/ RanksBefore(log, b, a)
  <2>1. UseCount(log, a) \in Nat /\ UseCount(log, b) \in Nat
    BY <1>1
  <2>2. SeenBefore(log, a, b) \/ SeenBefore(log, b, a)
    BY <1>4, SeenBeforeOrders
  <2> QED
    BY <2>1, <2>2 DEF RanksBefore
<1> QED
  BY <1>2, <1>3, <1>4

LEMMA PrecedesIrreflexive ==
  ASSUME NEW m \in Seq(Entry), NEW view \in Seq(Line), NEW i \in 1..Len(m)
  PROVE  ~Precedes(m, view, i, i)
<1>1. ~RanksBefore(view, IdOf[m[i]], IdOf[m[i]])
  BY RanksBeforeOrders
<1>2. ~(i < i)
  OBVIOUS
<1> QED
  BY <1>1, <1>2, Zenon DEF Precedes

LEMMA PrecedesTransitive ==
  ASSUME NEW m \in Seq(Entry), NEW view \in Seq(Line),
         NEW i \in 1..Len(m), NEW j \in 1..Len(m), NEW k \in 1..Len(m),
         Precedes(m, view, i, j), Precedes(m, view, j, k)
  PROVE  Precedes(m, view, i, k)
<1> DEFINE a == IdOf[m[i]]
           b == IdOf[m[j]]
           c == IdOf[m[k]]
<1>1. i < j /\ j < k => i < k
  OBVIOUS
<1>2. RanksBefore(view, a, b) /\ RanksBefore(view, b, c)
        => RanksBefore(view, a, c)
  BY RanksBeforeOrders
<1> QED
  BY <1>1, <1>2, Zenon DEF Precedes

LEMMA PrecedesTotal ==
  ASSUME NEW m \in Seq(Entry), NEW view \in Seq(Line),
         NEW i \in Kept(m, view), NEW j \in Kept(m, view), i # j
  PROVE  Precedes(m, view, i, j) \/ Precedes(m, view, j, i)
<1> DEFINE a == IdOf[m[i]]
           b == IdOf[m[j]]
<1>1. i \in Nat /\ j \in Nat /\ i \in DOMAIN m /\ j \in DOMAIN m
  BY KeptFinite
<1>2. i < j \/ j < i
  BY <1>1
<1>3. a \in Used(view) /\ b \in Used(view) => a # b
  <2> SUFFICES ASSUME a \in Used(view), a = b
               PROVE  FALSE
    OBVIOUS
  <2>1. j <= i /\ i <= j
    BY <1>1 DEF Kept
  <2> QED
    BY <2>1, <1>1
<1>4. a \in Used(view) /\ b \in Used(view)
        => RanksBefore(view, a, b) \/ RanksBefore(view, b, a)
  BY <1>3, RanksBeforeOrders
<1> QED
  BY <1>2, <1>4, Zenon DEF Precedes

LEMMA PrecedenceOrders ==
  ASSUME NEW m \in Seq(Entry), NEW view \in Seq(Line)
  PROVE  OrdersStrictly(Precedence(m, view), Kept(m, view))
<1> DEFINE K == Kept(m, view)
           R == Precedence(m, view)
<1>1. \A i, j \in K : <<i, j>> \in R <=> Precedes(m, view, i, j)
  BY DEF Precedence
<1>2. K \subseteq 1..Len(m)
  BY KeptFinite
<1>3. \A i \in K : <<i, i>> \notin R
  BY <1>1, <1>2, PrecedesIrreflexive
<1>4. ASSUME NEW i \in K, NEW j \in K, NEW k \in K,
             <<i, j>> \in R, <<j, k>> \in R
      PROVE  <<i, k>> \in R
  <2>1. Precedes(m, view, i, j) /\ Precedes(m, view, j, k)
    BY <1>1, <1>4
  <2> QED
    BY <1>1, <1>2, <2>1, PrecedesTransitive
<1>5. ASSUME NEW i \in K, NEW j \in K, i # j
      PROVE  <<i, j>> \in R \/ <<j, i>> \in R
  BY <1>1, <1>5, PrecedesTotal
<1> QED
  BY <1>3, <1>4, <1>5 DEF OrdersStrictly

LEMMA OrdersEnumerate ==
  ASSUME NEW m \in Seq(Entry), NEW view \in Seq(Line)
  PROVE  Orders(m, view) = Enumerations(Precedence(m, view), Kept(m, view))
<1> DEFINE K == Kept(m, view)
           last == Cardinality(K)
           R == Precedence(m, view)
<1>1. \A i, j \in K : <<i, j>> \in R <=> Precedes(m, view, i, j)
  BY DEF Precedence
<1>2. Orders(m, view) = {f \in [1..last -> K] :
         \A k, l \in 1..last : k < l => Precedes(m, view, f[k], f[l])}
  BY DEF Orders
<1>3. Enumerations(R, K) = {f \in [1..last -> K] :
         \A k, l \in 1..last : k < l => <<f[k], f[l]>> \in R}
  BY DEF Enumerations
<1> HIDE DEF K, R, last
<1>4. ASSUME NEW f \in [1..last -> K], NEW k \in 1..last, NEW l \in 1..last
      PROVE  <<f[k], f[l]>> \in R <=> Precedes(m, view, f[k], f[l])
  BY <1>1
<1>5. {f \in [1..last -> K] :
         \A k, l \in 1..last : k < l => Precedes(m, view, f[k], f[l])}
      = {f \in [1..last -> K] :
           \A k, l \in 1..last : k < l => <<f[k], f[l]>> \in R}
  BY <1>4
<1> QED
  BY <1>2, <1>3, <1>5 DEF K, R

(***************************************************************************)
(* Whatever models.yaml and the log hold, repeated ids included, sorted()  *)
(* has exactly one result: an improver that has read an intact file always *)
(* finds its new order, and finds the same one each time                   *)
(* (selfimprove.py 81-92).                                                 *)
(***************************************************************************)
THEOREM OneOrder ==
  ASSUME NEW m \in Seq(Entry), NEW view \in Seq(Line)
  PROVE  \E order : Orders(m, view) = {order}
<1> DEFINE K == Kept(m, view)
           R == Precedence(m, view)
<1>1. IsFiniteSet(K) /\ OrdersStrictly(R, K)
  BY KeptFinite, PrecedenceOrders
<1>2. PICK order : order \in Enumerations(R, K)
  BY <1>1, EnumerationExists
<1>3. \A other \in Enumerations(R, K) : other = order
  BY <1>1, <1>2, EnumerationUnique
<1>4. Enumerations(R, K) = {order}
  BY <1>2, <1>3
<1> QED
  BY <1>4, OrdersEnumerate

-----------------------------------------------------------------------------
(* Reordered files *)

\* m is in the order that view asks for, and holds each used id once.
Settled(m, view) ==
  /\ Kept(m, view) = DOMAIN m
  /\ \A i, j \in DOMAIN m : i < j => Precedes(m, view, i, j)

\* No entry of m has been used more often than one that m lists before it.
SortedByUse(m, view) ==
  \A i, j \in DOMAIN m :
    i < j => UseCount(view, IdOf[m[i]]) >= UseCount(view, IdOf[m[j]])

(***************************************************************************)
(* An order lists every kept position, and none twice.                     *)
(***************************************************************************)
LEMMA OrderListsKept ==
  ASSUME NEW m \in Seq(Entry), NEW view \in Seq(Line),
         NEW order \in Orders(m, view)
  PROVE  /\ order \in Bijection(1..Cardinality(Kept(m, view)), Kept(m, view))
         /\ Cardinality(Kept(m, view)) \in Nat
         /\ DOMAIN Reordered(m, order) = 1..Cardinality(Kept(m, view))
         /\ \A k \in DOMAIN Reordered(m, order) :
              Reordered(m, order)[k] = m[order[k]]
<1> DEFINE K == Kept(m, view)
           last == Cardinality(K)
           R == Precedence(m, view)
<1>1. order \in [1..last -> K] /\ order \in Enumerations(R, K)
  BY OrdersEnumerate DEF Orders
<1>2. last \in Nat /\ IsFiniteSet(K) /\ OrdersStrictly(R, K)
  BY KeptFinite, PrecedenceOrders
<1>3. order \in Bijection(1..last, K)
  <2>1. CASE 1..last # {}
    <3>1. PICK k \in 1..last : TRUE
      BY <2>1
    <3> QED
      BY <1>1, <1>2, <3>1, EnumerationRanks
  <2>2. CASE 1..last = {}
    <3>1. last = 0
      BY <1>2, <2>2
    <3>2. K = {}
      BY <1>2, <3>1, FS_EmptySet
    <3> QED
      BY <1>1, <2>2, <3>2
      DEF Bijection, Injection, Surjection, IsInjective
  <2> QED
    BY <2>1, <2>2
<1> QED
  BY <1>1, <1>2, <1>3 DEF Reordered

(***************************************************************************)
(* The reordered file is in the order it was given.                        *)
(***************************************************************************)
LEMMA ReorderedSettled ==
  ASSUME NEW m \in Seq(Entry), NEW view \in Seq(Line),
         NEW order \in Orders(m, view)
  PROVE  Settled(Reordered(m, order), view)
<1> DEFINE K == Kept(m, view)
           last == Cardinality(K)
           r == Reordered(m, order)
<1>1. /\ last \in Nat /\ DOMAIN r = 1..last
      /\ \A k \in 1..last : r[k] = m[order[k]]
  BY OrderListsKept
<1>2. /\ \A k \in 1..last : order[k] \in K
      /\ \A k, l \in 1..last : order[k] = order[l] => k = l
  <2>1. order \in Bijection(1..last, K)
    BY OrderListsKept
  <2> QED
    BY <2>1 DEF Bijection, Injection, IsInjective
<1>3. \A k, l \in 1..last : k < l => Precedes(m, view, order[k], order[l])
  BY DEF Orders
<1>4. K \subseteq DOMAIN m /\ DOMAIN m \subseteq Nat
  BY KeptFinite
<1> HIDE DEF r, last
<1>5. Kept(r, view) = DOMAIN r
  <2> SUFFICES ASSUME NEW k \in 1..last, NEW l \in 1..last,
                      IdOf[r[k]] \in Used(view), IdOf[r[l]] = IdOf[r[k]]
               PROVE  l <= k
    BY <1>1 DEF Kept
  <2>1. /\ order[k] \in K /\ order[l] \in K
        /\ order[k] \in Nat /\ order[l] \in Nat
        /\ order[k] \in DOMAIN m /\ order[l] \in DOMAIN m
    BY <1>2, <1>4
  <2>2. /\ IdOf[m[order[k]]] \in Used(view)
        /\ IdOf[m[order[l]]] = IdOf[m[order[k]]]
    BY <1>1
  <2>3. order[k] <= order[l] /\ order[l] <= order[k]
    BY <2>1, <2>2 DEF Kept
  <2>4. order[k] = order[l]
    BY <2>1, <2>3
  <2>5. k = l
    BY <1>2, <2>4
  <2> QED
    BY <2>5, <1>1
<1>6. ASSUME NEW k \in 1..last, NEW l \in 1..last, k < l
      PROVE  Precedes(r, view, k, l)
  <2>1. Precedes(m, view, order[k], order[l])
    BY <1>3, <1>6
  <2>2. r[k] = m[order[k]] /\ r[l] = m[order[l]]
    BY <1>1
  <2> QED
    BY <2>1, <2>2, <1>6, Zenon DEF Precedes
<1> QED
  BY <1>1, <1>5, <1>6 DEF Settled, r

(***************************************************************************)
(* A file that is in the order of a log is not changed by that log.        *)
(***************************************************************************)
LEMMA SettledStays ==
  ASSUME NEW m \in Seq(Entry), NEW view \in Seq(Line), Settled(m, view)
  PROVE  InPromotedOrder(m, view)
<1> DEFINE n == Len(m)
           same == [i \in 1..n |-> i]
<1>1. n \in Nat /\ DOMAIN m = 1..n /\ m = [i \in 1..n |-> m[i]]
  OBVIOUS
<1>2. Kept(m, view) = 1..n /\ Cardinality(Kept(m, view)) = n
  BY <1>1, CardinalityUpTo DEF Settled
<1>3. same \in Orders(m, view)
  <2>1. same \in [1..n -> 1..n]
    OBVIOUS
  <2>2. \A k, l \in 1..n : k < l => Precedes(m, view, same[k], same[l])
    BY <1>1 DEF Settled
  <2> QED
    BY <1>2, <2>1, <2>2 DEF Orders
<1>4. Reordered(m, same) = m
  BY <1>1 DEF Reordered
<1>5. \A order \in Orders(m, view) : order = same
  BY <1>3, OneOrder
<1> HIDE DEF same
<1> QED
  BY <1>4, <1>5 DEF InPromotedOrder

(***************************************************************************)
(* Reordering is idempotent: by the log that a file was reordered by, it   *)
(* is not reordered again, so the comparison reordered != models           *)
(* (selfimprove.py 92) ends a pass that has nothing to do.                 *)
(***************************************************************************)
THEOREM ReorderIdempotent ==
  ASSUME NEW m \in Seq(Entry), NEW view \in Seq(Line),
         NEW order \in Orders(m, view)
  PROVE  InPromotedOrder(Reordered(m, order), view)
BY ReorderedType, ReorderedSettled, SettledStays

(***************************************************************************)
(* A file in the order of a log lists the most used models first.          *)
(***************************************************************************)
LEMMA SettledSorted ==
  ASSUME NEW m \in Seq(Entry), NEW view \in Seq(Line), Settled(m, view)
  PROVE  SortedByUse(m, view)
<1> SUFFICES ASSUME NEW i \in DOMAIN m, NEW j \in DOMAIN m, i < j
             PROVE  UseCount(view, IdOf[m[i]]) >= UseCount(view, IdOf[m[j]])
  BY DEF SortedByUse
<1> DEFINE a == IdOf[m[i]]
           b == IdOf[m[j]]
<1>1. Precedes(m, view, i, j)
  BY DEF Settled
<1>2. a \in ModelId /\ b \in ModelId
  BY EntryAssumption
<1>3. UseCount(view, a) \in Nat /\ UseCount(view, b) \in Nat
  BY UseCountType
<1>4. CASE b \notin Used(view)
  BY <1>2, <1>3, <1>4, UnusedCount
<1>5. CASE b \in Used(view)
  <2>1. RanksBefore(view, a, b)
    BY <1>1, <1>5, Zenon DEF Precedes
  <2> QED
    BY <2>1, <1>3 DEF RanksBefore
<1> QED
  BY <1>4, <1>5

(***************************************************************************)
(* Of the entries that share a used id, the last one is kept.              *)
(***************************************************************************)
LEMMA SomeEntryKept ==
  ASSUME NEW m \in Seq(Entry), NEW view, NEW i \in DOMAIN m
  PROVE  \E k \in Kept(m, view) : IdOf[m[k]] = IdOf[m[i]]
<1> DEFINE n == Len(m)
           S == {d \in 0..n : \E j \in DOMAIN m :
                    d = n - j /\ IdOf[m[j]] = IdOf[m[i]]}
<1>1. n \in Nat /\ DOMAIN m = 1..n
  OBVIOUS
<1>2. \A j \in DOMAIN m : IdOf[m[j]] = IdOf[m[i]] => n - j \in S
  BY <1>1
<1>3. S \subseteq Nat /\ S # {}
  BY <1>1, <1>2
<1>4. PICK d \in S : \A e \in S : d <= e
  BY <1>3, LeastNatural
<1>5. PICK k \in DOMAIN m : d = n - k /\ IdOf[m[k]] = IdOf[m[i]]
  OBVIOUS
<1> HIDE DEF S
<1>6. ASSUME NEW j \in DOMAIN m, IdOf[m[j]] = IdOf[m[k]]
      PROVE  j <= k
  <2>1. n - k <= n - j
    BY <1>2, <1>4, <1>5, <1>6
  <2> QED
    BY <2>1, <1>1
<1>7. k \in Kept(m, view)
  BY <1>6 DEF Kept
<1> QED
  BY <1>5, <1>7

(***************************************************************************)
(* Even a models.yaml that repeats ids loses none of them to a reorder:    *)
(* what id_to_model drops (selfimprove.py 88) is only ever an earlier      *)
(* entry of an id whose later entry is still there, and nothing is made    *)
(* up.                                                                     *)
(***************************************************************************)
THEOREM NoIdLost ==
  ASSUME NEW m \in Seq(Entry), NEW view \in Seq(Line),
         NEW order \in Orders(m, view)
  PROVE  /\ IdsOf(Reordered(m, order)) = IdsOf(m)
         /\ EntriesOf(Reordered(m, order)) \subseteq EntriesOf(m)
         /\ Len(Reordered(m, order)) <= Len(m)
         /\ \A i \in DOMAIN m :
              \/ m[i] \in EntriesOf(Reordered(m, order))
              \/ \E j \in DOMAIN m : /\ i < j /\ IdOf[m[j]] = IdOf[m[i]]
                                     /\ m[j] \in EntriesOf(Reordered(m, order))
<1> DEFINE K == Kept(m, view)
           last == Cardinality(K)
           r == Reordered(m, order)
<1>1. /\ last \in Nat /\ DOMAIN r = 1..last
      /\ \A k \in 1..last : r[k] = m[order[k]]
      /\ order \in Bijection(1..last, K)
  BY OrderListsKept
<1>2. /\ \A k \in 1..last : order[k] \in K
      /\ \A i \in K : \E k \in 1..last : order[k] = i
  BY <1>1 DEF Bijection, Injection, Surjection
<1>3. K \subseteq DOMAIN m
  BY DEF Kept
<1>4. r \in Seq(Entry)
  BY ReorderedType
<1> HIDE DEF r, last
<1>5. \A k \in DOMAIN r : order[k] \in DOMAIN m /\ r[k] = m[order[k]]
  BY <1>1, <1>2, <1>3
<1>6. \A i \in DOMAIN m : \E k \in DOMAIN r : IdOf[r[k]] = IdOf[m[i]]
  <2> TAKE i \in DOMAIN m
  <2>1. PICK j \in K : IdOf[m[j]] = IdOf[m[i]]
    BY SomeEntryKept
  <2>2. PICK k \in 1..last : order[k] = j
    BY <1>2
  <2> QED
    BY <1>1, <2>1, <2>2
<1>7. IdsOf(r) = IdsOf(m)
  BY <1>5, <1>6 DEF IdsOf
<1>8. EntriesOf(r) \subseteq EntriesOf(m)
  BY <1>5 DEF EntriesOf
<1>9. last <= Len(m)
  <2>1. IsFiniteSet(1..Len(m)) /\ Cardinality(1..Len(m)) = Len(m)
    BY CardinalityUpTo
  <2>2. K \in SUBSET (1..Len(m))
    BY <1>3
  <2> QED
    BY <2>1, <2>2, FS_Subset DEF last
<1>10. Len(r) = last
  BY <1>1, <1>4
<1>11. ASSUME NEW i \in DOMAIN m, m[i] \notin EntriesOf(r)
       PROVE  \E j \in DOMAIN m : /\ i < j /\ IdOf[m[j]] = IdOf[m[i]]
                                  /\ m[j] \in EntriesOf(r)
  <2>1. \A k \in K : m[k] \in EntriesOf(r)
    <3> TAKE k \in K
    <3>1. PICK l \in 1..last : order[l] = k
      BY <1>2
    <3>2. l \in DOMAIN r /\ r[l] = m[k]
      BY <1>1, <3>1
    <3> QED
      BY <3>2 DEF EntriesOf
  <2>2. i \notin K
    BY <1>11, <2>1
  <2>3. PICK l \in DOMAIN m : IdOf[m[l]] = IdOf[m[i]] /\ ~(l <= i)
    BY <2>2 DEF Kept
  <2>4. PICK j \in K : IdOf[m[j]] = IdOf[m[l]]
    BY SomeEntryKept
  <2>5. IdOf[m[j]] \in Used(view)
    BY <2>2, <2>3, <2>4 DEF Kept
  <2>6. l <= j
    BY <2>4, <2>5 DEF Kept
  <2>7. i < j
    BY <2>3, <2>6, <1>3
  <2> QED
    BY <1>3, <2>1, <2>3, <2>4, <2>7
<1> QED
  BY <1>7, <1>8, <1>9, <1>10, <1>11 DEF r

-----------------------------------------------------------------------------
(* The choice of the scheduler *)

(***************************************************************************)
(* candidates[0] exists and is unique: whenever some loaded model fits a   *)
(* request, local_first or not, select has exactly one answer to it        *)
(* (registry.py 65-67, scheduler.py 69-79).                                *)
(***************************************************************************)
THEOREM OneFirst ==
  ASSUME NEW reg \in Seq(Entry), NEW candidates \in SUBSET DOMAIN reg,
         candidates # {}, NEW localFirst \in BOOLEAN
  PROVE  \E i \in candidates :
           /\ IsFirst(reg, candidates, localFirst, i)
           /\ \A j : IsFirst(reg, candidates, localFirst, j) => j = i
<1> DEFINE locals == {i \in candidates : ~CloudOf[reg[i]]}
           ahead == IF localFirst /\ locals # {} THEN locals ELSE candidates
<1>1. /\ \A i \in candidates : i \in Nat /\ CloudOf[reg[i]] \in BOOLEAN
      /\ ahead \subseteq Nat /\ ahead # {} /\ ahead \subseteq candidates
  BY EntryAssumption
<1>2. PICK first \in ahead : \A k \in ahead : first <= k
  <2> HIDE DEF ahead
  <2> QED
    BY <1>1, LeastNatural
<1>3. ASSUME NEW j \in candidates \ {first}
      PROVE  SortsBefore(reg, localFirst, first, j)
  <2>1. CASE j \in ahead
    <3>1. first < j
      BY <1>1, <1>2, <1>3, <2>1
    <3>2. ~(localFirst /\ CloudOf[reg[first]] # CloudOf[reg[j]])
      BY <1>1, <1>2, <2>1, Zenon
    <3> QED
      BY <3>1, <3>2 DEF SortsBefore
  <2>2. CASE j \notin ahead
    <3>1. localFirst /\ CloudOf[reg[j]] /\ ~CloudOf[reg[first]]
      BY <1>2, <2>2, Zenon
    <3> QED
      BY <3>1, Zenon DEF SortsBefore
  <2> QED
    BY <2>1, <2>2
<1>4. IsFirst(reg, candidates, localFirst, first)
  BY <1>1, <1>2, <1>3 DEF IsFirst
<1>5. ASSUME NEW j, IsFirst(reg, candidates, localFirst, j), j # first
      PROVE  FALSE
  <2>1. /\ j \in candidates \ {first} /\ first \in candidates \ {j}
        /\ j \in Nat /\ first \in Nat
    BY <1>1, <1>2, <1>5 DEF IsFirst
  <2>2. SortsBefore(reg, localFirst, first, j) /\ SortsBefore(reg, localFirst, j, first)
    BY <1>3, <1>5, <2>1 DEF IsFirst
  <2>3. CASE localFirst /\ CloudOf[reg[first]] # CloudOf[reg[j]]
    <3>1. CloudOf[reg[first]] /\ CloudOf[reg[j]]
      BY <2>2, <2>3, Zenon DEF SortsBefore
    <3> QED
      BY <1>1, <2>1, <2>3, <3>1, Zenon
  <2>4. CASE ~(localFirst /\ CloudOf[reg[first]] # CloudOf[reg[j]])
    <3>1. ~(localFirst /\ CloudOf[reg[j]] # CloudOf[reg[first]])
      BY <2>4, Zenon
    <3>2. first < j /\ j < first
      BY <2>2, <2>4, <3>1, Zenon DEF SortsBefore
    <3> QED
      BY <2>1, <3>2
  <2> QED
    BY <2>3, <2>4
<1> QED
  BY <1>1, <1>2, <1>4, <1>5

=============================================================================

--------------------------- MODULE OrderingProofs ---------------------------
(***************************************************************************)
(* Numbers, folds and lists, for the proofs about algorithms: induction    *)
(* over a set of numbers, the value of a fold place by place, and what     *)
(* Ordered lists.                                                          *)
(***************************************************************************)
EXTENDS Ordering, SequencesExt, FiniteSetTheorems, NaturalsInduction, TLAPS

\* A set of numbers that holds the first and with each the next holds all.
LEMMA Induction ==
  ASSUME NEW P, 0 \in P, \A k \in Nat : k \in P => k + 1 \in P
  PROVE  Nat \subseteq P
<1> SUFFICES ASSUME NEW n \in Nat \ P PROVE FALSE
  OBVIOUS
<1>1. PICK x \in Nat \ P : \A y \in Nat \ P : <<y, x>> \notin OpToRel(<, Nat)
  <2>1. IsWellFoundedOn(OpToRel(<, Nat), Nat)
    BY NatLessThanWellFounded
  <2> QED
    BY <2>1, WFMin
<1>2. x # 0 /\ x - 1 \in Nat
  OBVIOUS
<1>3. <<x - 1, x>> \in OpToRel(<, Nat)
  BY <1>2 DEF OpToRel
<1>4. x - 1 \in P
  BY <1>1, <1>2, <1>3
<1> QED
  BY <1>2, <1>4

FoldSolved(n, A, base, seq, Op) ==
  \E g \in [SUBSET (1 .. n) -> A] :
    /\ g[{}] = base
    /\ \A s \in SUBSET (1 .. n) :
         s # {} => g[s] = Op[<<g[s \ {Max(s)}], seq[Max(s)]>>]

\* The recursion behind a fold over n places, from the left, has a solution if
\* the folded operation Op keeps to a set A of values.
LEMMA FoldExists ==
  ASSUME NEW n \in Nat, NEW A, NEW V, NEW base \in A, NEW seq \in [1 .. n -> V],
         NEW Op \in [A \X V -> A]
  PROVE  FoldSolved(n, A, base, seq, Op)
<1> DEFINE Solves(g, m) ==
             /\ g[{}] = base
             /\ \A s \in SUBSET (1 .. m) :
                  s # {} => g[s] = Op[<<g[s \ {Max(s)}], seq[Max(s)]>>]
           Solvable(m) == \E g \in [SUBSET (1 .. m) -> A] : Solves(g, m)
           P == {m \in Nat : m <= n => Solvable(m)}
<1>1. 0 \in P
  <2>1. SUBSET (1 .. 0) = {{}}
    OBVIOUS
  <2>2. Solves([s \in SUBSET (1 .. 0) |-> base], 0)
    BY <2>1
  <2>3. Solvable(0)
    BY <2>2
  <2> HIDE DEF Solvable
  <2> QED
    BY <2>3
<1>2. ASSUME NEW m \in Nat, m \in P
      PROVE  m + 1 \in P
  <2> SUFFICES ASSUME m + 1 <= n
               PROVE  Solvable(m + 1)
    <3> HIDE DEF Solvable
    <3> QED
      OBVIOUS
  <2>0. Solvable(m)
    <3> HIDE DEF Solvable
    <3> QED
      BY <1>2
  <2>1. PICK g \in [SUBSET (1 .. m) -> A] : Solves(g, m)
    BY <2>0
  <2> DEFINE h == [s \in SUBSET (1 .. m + 1) |->
                     IF m + 1 \in s THEN Op[<<g[s \ {m + 1}], seq[m + 1]>>] ELSE g[s]]
  <2>2. ASSUME NEW s \in SUBSET (1 .. m + 1), m + 1 \in s
        PROVE  s \ {m + 1} \in SUBSET (1 .. m) /\ Max(s) = m + 1
    <3>1. \A y \in s : y \in Nat /\ y <= m + 1
      OBVIOUS
    <3>2. \A x \in s : (\A y \in s : x >= y) => x = m + 1
      BY <2>2, <3>1
    <3>3. Max(s) = m + 1
      BY <2>2, <3>1, <3>2 DEF Max
    <3>4. s \ {m + 1} \in SUBSET (1 .. m)
      OBVIOUS
    <3> QED
      BY <3>3, <3>4
  <2>3. ASSUME NEW s \in SUBSET (1 .. m + 1), m + 1 \notin s
        PROVE  s \in SUBSET (1 .. m)
    BY <2>3
  <2>4. seq[m + 1] \in V
    OBVIOUS
  <2>5. h \in [SUBSET (1 .. m + 1) -> A]
    <3> SUFFICES ASSUME NEW s \in SUBSET (1 .. m + 1)
                 PROVE  (IF m + 1 \in s THEN Op[<<g[s \ {m + 1}], seq[m + 1]>>]
                         ELSE g[s]) \in A
      OBVIOUS
    <3>1. CASE m + 1 \in s
      <4>1. g[s \ {m + 1}] \in A
        BY <2>2, <3>1
      <4> QED
        BY <2>4, <3>1, <4>1
    <3>2. CASE m + 1 \notin s
      BY <2>3, <3>2
    <3> QED
      BY <3>1, <3>2
  <2>6. ASSUME NEW s \in SUBSET (1 .. m)
        PROVE  h[s] = g[s]
    <3>1. s \in SUBSET (1 .. m + 1) /\ m + 1 \notin s
      OBVIOUS
    <3> QED
      BY <3>1
  <2>7. ASSUME NEW s \in SUBSET (1 .. m + 1), s # {}
        PROVE  h[s] = Op[<<h[s \ {Max(s)}], seq[Max(s)]>>]
    <3>1. CASE m + 1 \in s
      <4>1. h[s] = Op[<<g[s \ {m + 1}], seq[m + 1]>>]
        BY <3>1
      <4> HIDE DEF h
      <4> QED
        BY <2>2, <2>6, <3>1, <4>1
    <3>2. CASE m + 1 \notin s
      <4>1. s \in SUBSET (1 .. m) /\ s \ {Max(s)} \in SUBSET (1 .. m)
        BY <2>3, <3>2
      <4> HIDE DEF h
      <4> QED
        BY <2>1, <2>6, <2>7, <4>1
    <3> QED
      BY <3>1, <3>2
  <2>8. h[{}] = base
    BY <2>1
  <2> HIDE DEF h
  <2> QED
    BY <2>5, <2>7, <2>8
<1> HIDE DEF P
<1>3. n \in P
  BY <1>1, <1>2, Induction
<1>4. Solvable(n)
  <2> HIDE DEF Solvable
  <2> QED
    BY <1>3 DEF P
<1> QED
  BY <1>4 DEF FoldSolved

\* Its solution, place by place: what the fold has come to after k places.
LEMMA FoldPrefix ==
  ASSUME NEW n \in Nat, NEW g, NEW h,
         g[{}] = h[0],
         \A k \in 1 .. n : g[1 .. k - 1] = h[k - 1] => g[1 .. k] = h[k]
  PROVE  g[1 .. n] = h[n]
<1> DEFINE P == {k \in Nat : k <= n => g[1 .. k] = h[k]}
<1>1. 0 \in P
  <2>1. 1 .. 0 = {}
    OBVIOUS
  <2> QED
    BY <2>1
<1>2. ASSUME NEW k \in Nat, k \in P
      PROVE  k + 1 \in P
  <2>1. k + 1 \in Nat /\ (k + 1) - 1 = k
    OBVIOUS
  <2>2. ASSUME k + 1 <= n
        PROVE  g[1 .. k + 1] = h[k + 1]
    <3>1. k + 1 \in 1 .. n /\ g[1 .. k] = h[k]
      BY <1>2, <2>2
    <3> QED
      BY <2>1, <3>1
  <2> QED
    BY <2>1, <2>2
<1> HIDE DEF P
<1>3. n \in P
  BY <1>1, <1>2, Induction
<1> QED
  BY <1>3 DEF P

\* A set of places that is not empty has a last one.
LEMMA MaxOfPlaces ==
  ASSUME NEW n \in Nat, NEW s \in SUBSET (1 .. n), s # {}
  PROVE  Max(s) \in s /\ \A y \in s : Max(s) >= y
<1> SUFFICES \E x \in s : \A y \in s : x >= y
  BY DEF Max
<1> DEFINE Covers == {k \in Nat : \A y \in s : y <= n - k}
           P == {k \in Nat : k \in Covers \/ \E x \in s : \A y \in s : x >= y}
<1>1. 0 \in P
  OBVIOUS
<1>2. ASSUME NEW k \in Nat, k \in P
      PROVE  k + 1 \in P
  <2>1. CASE n - k \in s /\ k \in Covers
    BY <2>1
  <2>2. CASE n - k \notin s /\ k \in Covers
    BY <2>2
  <2> QED
    BY <1>2, <2>1, <2>2
<1> HIDE DEF P
<1>3. n \in P
  BY <1>1, <1>2, Induction
<1>4. n \notin Covers
  <2>1. PICK y : y \in s
    OBVIOUS
  <2> QED
    BY <2>1
<1> QED
  BY <1>3, <1>4 DEF P

\* The last of the first k places, and the places before it.
LEMMA LastPlace ==
  ASSUME NEW k \in Nat \ {0}
  PROVE  1 .. k # {} /\ Max(1 .. k) = k /\ (1 .. k) \ {k} = 1 .. k - 1
BY DEF Max

-----------------------------------------------------------------------------
\* The place of a member under a strict and total order: places grow with the
\* order, and each place below the number of members is taken.
LEMMA PlaceExact ==
  ASSUME NEW S, IsFiniteSet(S), NEW R,
         \A x \in S : <<x, x>> \notin R,
         \A x, y, z \in S : <<x, y>> \in R /\ <<y, z>> \in R => <<x, z>> \in R,
         \A x, y \in S : x = y \/ <<x, y>> \in R \/ <<y, x>> \in R
  PROVE  LET Place(x) == Cardinality({y \in S : <<y, x>> \in R}) IN
         /\ \A x \in S : Place(x) \in 0 .. Cardinality(S) - 1
         /\ \A x, y \in S : <<x, y>> \in R <=> Place(x) < Place(y)
         /\ \A k \in 0 .. Cardinality(S) - 1 : \E x \in S : Place(x) = k
<1> DEFINE Below(x) == {y \in S : <<y, x>> \in R}
           n == Cardinality(S)
<1>1. n \in Nat
  BY FS_CardinalityType
<1>2. \A x \in S : IsFiniteSet(Below(x)) /\ Cardinality(Below(x)) \in Nat
  BY FS_Subset, FS_CardinalityType
<1>3. ASSUME NEW x \in S
      PROVE  /\ IsFiniteSet(Below(x) \cup {x})
             /\ Cardinality(Below(x) \cup {x}) = Cardinality(Below(x)) + 1
  <2>1. x \notin Below(x)
    OBVIOUS
  <2> HIDE DEF Below
  <2> QED
    BY <1>2, <2>1, FS_AddElement
<1>4. ASSUME NEW x \in S
      PROVE  Cardinality(Below(x)) \in 0 .. n - 1
  <2>1. Below(x) \cup {x} \in SUBSET S
    OBVIOUS
  <2>2. Cardinality(Below(x) \cup {x}) <= n
    BY <2>1, FS_Subset
  <2> HIDE DEF Below, n
  <2> QED
    BY <1>1, <1>2, <1>3, <2>2
<1>5. ASSUME NEW x \in S, NEW y \in S, <<x, y>> \in R
      PROVE  Cardinality(Below(x)) < Cardinality(Below(y))
  <2>1. Below(x) \cup {x} \in SUBSET Below(y)
    BY <1>5
  <2>2. Cardinality(Below(x) \cup {x}) <= Cardinality(Below(y))
    BY <1>2, <2>1, FS_Subset
  <2> HIDE DEF Below
  <2> QED
    BY <1>2, <1>3, <2>2
<1>6. ASSUME NEW x \in S, NEW y \in S
      PROVE  /\ <<x, y>> \in R <=> Cardinality(Below(x)) < Cardinality(Below(y))
             /\ Cardinality(Below(x)) = Cardinality(Below(y)) => x = y
  <2>1. x = y \/ <<x, y>> \in R \/ <<y, x>> \in R
    OBVIOUS
  <2>2. Cardinality(Below(x)) \in Int /\ Cardinality(Below(y)) \in Int
    BY <1>2
  <2> HIDE DEF Below
  <2> QED
    BY <1>5, <2>1, <2>2
<1>7. \A k \in 0 .. n - 1 : \E x \in S : Cardinality(Below(x)) = k
  <2> DEFINE f == [x \in S |-> Cardinality(Below(x))]
             T == {f[x] : x \in S}
  <2>1. f \in [S -> 0 .. n - 1]
    BY <1>4
  <2>2. IsFiniteSet(0 .. n - 1) /\ Cardinality(0 .. n - 1) = n
    <3>1. 0 \in Int /\ n - 1 \in Int
      BY <1>1
    <3> HIDE DEF n
    <3> QED
      BY <1>1, <3>1, FS_Interval
  <2>3. f \in Injection(S, 0 .. n - 1)
    <3> HIDE DEF Below
    <3> QED
      BY <1>6, <2>1 DEF Injection, IsInjective
  <2>4. f \in Surjection(S, 0 .. n - 1)
    <3> HIDE DEF f
    <3> QED
      BY <2>2, <2>3, FS_Injection DEF n
  <2> QED
    BY <2>4 DEF Surjection
<1> QED
  BY <1>4, <1>6, <1>7

OrdersStrictly(R, S) ==
  /\ \A x \in S : <<x, x>> \notin R
  /\ \A x, y, z \in S : <<x, y>> \in R /\ <<y, z>> \in R => <<x, z>> \in R
  /\ \A x, y \in S : x = y \/ <<x, y>> \in R \/ <<y, x>> \in R
Places(f, R, S) ==
  \A n \in 1 .. Cardinality(S) :
    (\E x \in S : Cardinality({y \in S : <<y, x>> \in R}) = n - 1) =>
      f[n] \in S /\ Cardinality({y \in S : <<y, f[n]>> \in R}) = n - 1
Lists(f, R, S) ==
  /\ \A n \in 1 .. Cardinality(S) : f[n] \in S
  /\ \A x \in S : \E n \in 1 .. Cardinality(S) : f[n] = x
  /\ \A m, n \in 1 .. Cardinality(S) : m < n <=> <<f[m], f[n]>> \in R

\* What stands at place n has n - 1 members below it: then the places list the
\* whole set once, in order.
LEMMA PlacesList ==
  ASSUME NEW S, IsFiniteSet(S), NEW R, OrdersStrictly(R, S), NEW f, Places(f, R, S)
  PROVE  Lists(f, R, S)
<1> DEFINE Place(x) == Cardinality({y \in S : <<y, x>> \in R})
           n == Cardinality(S)
<1>1. n \in Nat
  BY FS_CardinalityType
<1>2. /\ \A x \in S : Place(x) \in 0 .. n - 1
      /\ \A x, y \in S : <<x, y>> \in R <=> Place(x) < Place(y)
      /\ \A k \in 0 .. n - 1 : \E x \in S : Place(x) = k
  BY PlaceExact DEF OrdersStrictly
<1>3. ASSUME NEW k \in 1 .. n
      PROVE  f[k] \in S /\ Place(f[k]) = k - 1
  <2>1. k - 1 \in 0 .. n - 1
    BY <1>1
  <2>2. \E x \in S : Place(x) = k - 1
    BY <1>2, <2>1
  <2> QED
    BY <2>2 DEF Places
<1> HIDE DEF n, Place
<1>4. ASSUME NEW x \in S
      PROVE  \E k \in 1 .. n : f[k] = x
  <2> DEFINE k == Place(x) + 1
  <2>1. k \in 1 .. n /\ k - 1 = Place(x)
    BY <1>1, <1>2
  <2>2. f[k] \in S /\ Place(f[k]) = Place(x)
    BY <1>3, <2>1
  <2>3. ~(<<f[k], x>> \in R) /\ ~(<<x, f[k]>> \in R)
    <3>1. Place(x) \in Int /\ Place(f[k]) \in Int
      BY <1>2, <2>2
    <3> QED
      BY <1>2, <2>2, <3>1
  <2> QED
    BY <2>1, <2>2, <2>3 DEF OrdersStrictly
<1>5. \A j, k \in 1 .. n : j < k <=> <<f[j], f[k]>> \in R
  BY <1>1, <1>2, <1>3
<1> QED
  BY <1>3, <1>4, <1>5 DEF n, Lists

MembersOf(s, n) == {s[i] : i \in 1 .. n}
Distinct(s, n) == \A i, j \in 1 .. n : i < j => s[i] # s[j]

\* A list without repetitions has as many members as places.
LEMMA ListCard ==
  ASSUME NEW n \in Nat, NEW s, Distinct(s, n)
  PROVE  IsFiniteSet(MembersOf(s, n)) /\ Cardinality(MembersOf(s, n)) = n
<1> DEFINE First(k) == MembersOf(s, k)
           P == {k \in Nat : k <= n => IsFiniteSet(First(k)) /\ Cardinality(First(k)) = k}
<1>1. 0 \in P
  <2>1. First(0) = {}
    BY DEF MembersOf
  <2> HIDE DEF First
  <2> QED
    BY <2>1, FS_EmptySet
<1>2. ASSUME NEW k \in Nat, k \in P
      PROVE  k + 1 \in P
  <2>1. ASSUME k + 1 <= n
        PROVE  IsFiniteSet(First(k + 1)) /\ Cardinality(First(k + 1)) = k + 1
    <3>1. First(k + 1) = First(k) \cup {s[k + 1]}
      BY DEF MembersOf
    <3>2. s[k + 1] \notin First(k)
      BY <2>1 DEF MembersOf, Distinct
    <3>3. IsFiniteSet(First(k)) /\ Cardinality(First(k)) = k
      BY <1>2, <2>1
    <3> HIDE DEF First
    <3> QED
      BY <3>1, <3>2, <3>3, FS_AddElement
  <2> HIDE DEF First
  <2> QED
    BY <2>1
<1> HIDE DEF P
<1>3. n \in P
  BY <1>1, <1>2, Induction
<1> QED
  BY <1>3 DEF P

InListOrder(s, n, R) == \A i, j \in 1 .. n : <<s[i], s[j]>> \in R <=> i < j

\* In a list that is in order, k - 1 members come before the one at place k and
\* before no other.
LEMMA ListPlaces ==
  ASSUME NEW n \in Nat, NEW s, NEW R, InListOrder(s, n, R)
  PROVE  /\ IsFiniteSet(MembersOf(s, n)) /\ Cardinality(MembersOf(s, n)) = n
         /\ \A j, k \in 1 .. n :
              Cardinality({y \in MembersOf(s, n) : <<y, s[j]>> \in R}) = k - 1 <=> j = k
<1> DEFINE S == MembersOf(s, n)
<1>1. Distinct(s, n)
  <2>1. \A j \in 1 .. n : <<s[j], s[j]>> \notin R
    BY DEF InListOrder
  <2> QED
    BY <2>1 DEF InListOrder, Distinct
<1>2. ASSUME NEW k \in 1 .. n
      PROVE  Cardinality({y \in S : <<y, s[k]>> \in R}) = k - 1
  <2>1. k - 1 \in Nat /\ \A i \in 1 .. k - 1 : i \in 1 .. n
    OBVIOUS
  <2>2. {y \in S : <<y, s[k]>> \in R} = MembersOf(s, k - 1)
    BY DEF MembersOf, InListOrder
  <2>3. Distinct(s, k - 1)
    BY <1>1, <2>1 DEF Distinct
  <2> QED
    BY <2>1, <2>2, <2>3, ListCard
<1>3. \A j, k \in 1 .. n : j - 1 = k - 1 <=> j = k
  OBVIOUS
<1> QED
  BY <1>1, <1>2, <1>3, ListCard

\* The image of a finite set under a function is finite.
LEMMA FiniteImage ==
  ASSUME NEW S, IsFiniteSet(S), NEW f
  PROVE  IsFiniteSet({f[x] : x \in S})
<1> DEFINE T == {f[x] : x \in S}
           g == [x \in S |-> f[x]]
<1>1. g \in Surjection(S, T)
  BY DEF Surjection
<1> QED
  BY <1>1, FS_Surjection

\* A set of numbers that is not empty has a least one.
LEMMA MinOfNumbers ==
  ASSUME NEW S \in SUBSET Nat, S # {}
  PROVE  Min(S) \in S /\ \A y \in S : Min(S) <= y
<1> SUFFICES \E x \in S : \A y \in S : x <= y
  BY DEF Min
<1>1. IsWellFoundedOn(OpToRel(<, Nat), Nat)
  BY NatLessThanWellFounded
<1>2. PICK x \in S : \A y \in S : <<y, x>> \notin OpToRel(<, Nat)
  BY <1>1, WFMin
<1>3. \A y \in S : ~(y < x)
  BY <1>2 DEF OpToRel
<1> QED
  BY <1>3

=============================================================================

--------------------------- MODULE PlanningProofs ---------------------------
(***************************************************************************)
(* Proofs about the planning of passages, for any chambers, bookings and   *)
(* policy: the window arithmetic and the searches of Schedule; then the    *)
(* order of the PassageQueue; and the amendments of Manifests.             *)
(***************************************************************************)
EXTENDS Schedule, PassageQueue, Manifests, OrderingProofs

-----------------------------------------------------------------------------
(***************************************************************************)
(* Windows in order, and merged.                                           *)
(***************************************************************************)
Windows == [from : Int, to : Int]
Proper(w) == w.from < w.to
Spans(w, t) == w.from <= t /\ t < w.to

\* A finite set of windows is listed once, by its beginnings.
LEMMA OrderedWindows ==
  ASSUME NEW S \in SUBSET Windows, IsFiniteSet(S)
  PROVE  LET f == Ordered(S, InOrder)
             n == Cardinality(S)
         IN /\ n \in Nat /\ f \in [1 .. n -> S]
            /\ \A x \in S : \E k \in 1 .. n : f[k] = x
            /\ \A j, k \in 1 .. n : j < k => f[j].from <= f[k].from
<1> DEFINE f == Ordered(S, InOrder)
           n == Cardinality(S)
           R == {p \in S \X S : InOrder(p[1], p[2])}
<1>1. \A x, y \in S : <<x, y>> \in R <=> InOrder(x, y)
  OBVIOUS
<1>2. \A x \in S : {y \in S : <<y, x>> \in R} = {y \in S : InOrder(y, x)}
  BY <1>1
<1>3. OrdersStrictly(R, S)
  <2>1. \A x, y \in S : x.from = y.from /\ x.to = y.to => x = y
    BY DEF Windows
  <2>2. \A x \in S : x.from \in Int /\ x.to \in Int
    BY DEF Windows
  <2> HIDE DEF R
  <2> QED
    BY <1>1, <2>1, <2>2 DEF OrdersStrictly, InOrder
<1>4. n \in Nat
  BY FS_CardinalityType
<1> HIDE DEF R
<1>5. Places(f, R, S)
  <2> SUFFICES ASSUME NEW k \in 1 .. n,
                      NEW x \in S, Cardinality({y \in S : <<y, x>> \in R}) = k - 1
               PROVE  f[k] \in S /\ Cardinality({y \in S : <<y, f[k]>> \in R}) = k - 1
    BY DEF Places
  <2>1. f[k] = CHOOSE z \in S : Cardinality({y \in S : InOrder(y, z)}) = k - 1
    BY DEF Ordered
  <2>2. Cardinality({y \in S : InOrder(y, x)}) = k - 1
    BY <1>2
  <2>3. f[k] \in S /\ Cardinality({y \in S : InOrder(y, f[k])}) = k - 1
    BY <2>1, <2>2
  <2> QED
    BY <1>2, <2>3
<1>6. Lists(f, R, S)
  BY <1>3, <1>5, PlacesList
<1>7. f \in [1 .. n -> S]
  <2> DEFINE F(k) == CHOOSE z \in S : Cardinality({y \in S : InOrder(y, z)}) = k - 1
  <2>1. f = [k \in 1 .. n |-> F(k)]
    BY DEF Ordered
  <2>2. \A k \in 1 .. n : F(k) \in S
    <3>1. \A k \in 1 .. n : f[k] = F(k)
      BY <2>1
    <3> HIDE DEF F, f
    <3> QED
      BY <1>6, <3>1 DEF Lists
  <2> HIDE DEF F, f
  <2> QED
    BY <2>1, <2>2
<1> HIDE DEF f, n
<1>8. \A j, k \in 1 .. n : j < k => f[j].from <= f[k].from
  <2> SUFFICES ASSUME NEW j \in 1 .. n, NEW k \in 1 .. n, j < k
               PROVE  f[j].from <= f[k].from
    OBVIOUS
  <2>1. f[j] \in S /\ f[k] \in S /\ InOrder(f[j], f[k])
    BY <1>1, <1>6, <1>7 DEF Lists, n
  <2> QED
    BY <2>1 DEF InOrder, Windows
<1> QED
  BY <1>4, <1>6, <1>7, <1>8 DEF Lists, f, n

MergesInTurn(h, seq, n) ==
  h[0] = <<>> /\ \A k \in 1 .. n : h[k] = MergeOne(h[k - 1], seq[k])

\* All but the last.
LEMMA FrontOf ==
  ASSUME NEW X, NEW m \in Seq(X), m # <<>>
  PROVE  /\ Front(m) \in Seq(X) /\ Len(Front(m)) = Len(m) - 1
         /\ \A i \in 1 .. Len(m) - 1 : Front(m)[i] = m[i]
<1>1. Len(m) \in Nat \ {0}
  OBVIOUS
<1>2. Front(m) = SubSeq(m, 1, Len(m) - 1)
  BY DEF Front
<1>3. Front(m) = [i \in 1 .. Len(m) - 1 |-> m[i]]
  BY <1>1, <1>2
<1>4. Len(m) - 1 \in Nat /\ \A i \in 1 .. Len(m) - 1 : m[i] \in X
  BY <1>1
<1> QED
  BY <1>3, <1>4

LEMMA MergeOneType ==
  ASSUME NEW m \in Seq(Windows), NEW w \in Windows
  PROVE  MergeOne(m, w) \in Seq(Windows)
<1>1. CASE m = <<>> \/ w.from > Last(m).to
  BY <1>1 DEF MergeOne
<1>2. CASE m # <<>> /\ ~(w.from > Last(m).to)
  <2>1. Len(m) \in Nat \ {0} /\ Last(m) \in Windows
    BY <1>2 DEF Last
  <2>2. Front(m) \in Seq(Windows)
    BY <2>1 DEF Front
  <2>3. Window(Last(m).from, w.to) \in Windows
    BY <2>1 DEF Window, Windows
  <2> QED
    BY <1>2, <2>2, <2>3 DEF MergeOne
<1> QED
  BY <1>1, <1>2

\* The merged windows after each of the windows, up to the last.
LEMMA MergeFold ==
  ASSUME NEW n \in Nat, NEW seq \in [1 .. n -> Windows]
  PROVE  \E h : MergesInTurn(h, seq, n) /\ FoldLeft(MergeOne, <<>>, seq) = h[n]
<1> DEFINE A == Seq(Windows)
           Op == [p \in A \X Windows |-> MergeOne(p[1], p[2])]
           Solves(g) == g = [s \in SUBSET DOMAIN seq |->
                               IF s = {} THEN <<>>
                               ELSE MergeOne(g[s \ {Max(s)}], seq[Max(s)])]
           g == CHOOSE f : Solves(f)
           h == [k \in 0 .. n |-> g[1 .. k]]
<1>1. \A a \in A, w \in Windows : Op[<<a, w>>] = MergeOne(a, w)
  OBVIOUS
<1>2. Op \in [A \X Windows -> A]
  BY MergeOneType
<1> HIDE DEF Op
<1>3. PICK f \in [SUBSET (1 .. n) -> A] :
        /\ f[{}] = <<>>
        /\ \A s \in SUBSET (1 .. n) :
             s # {} => f[s] = Op[<<f[s \ {Max(s)}], seq[Max(s)]>>]
  <2>1. <<>> \in A
    OBVIOUS
  <2> HIDE DEF A
  <2>2. FoldSolved(n, A, <<>>, seq, Op)
    BY <1>2, <2>1, FoldExists
  <2> QED
    BY <2>2 DEF FoldSolved
<1>4. ASSUME NEW s \in SUBSET (1 .. n), s # {}
      PROVE  f[s] = MergeOne(f[s \ {Max(s)}], seq[Max(s)])
  <2>1. Max(s) \in s
    BY <1>4, MaxOfPlaces
  <2>2. seq[Max(s)] \in Windows /\ f[s \ {Max(s)}] \in A
    BY <2>1
  <2> QED
    BY <1>1, <1>3, <1>4, <2>2
<1>5. Solves(f)
  <2>1. DOMAIN seq = 1 .. n
    OBVIOUS
  <2> QED
    BY <1>3, <1>4, <2>1
<1>6. Solves(g)
  BY <1>5
<1>7. FoldLeft(MergeOne, <<>>, seq) = g[1 .. n]
  BY DEF FoldLeft, MapThenFoldSet
<1> HIDE DEF g
<1>8. h[0] = <<>>
  <2>1. 1 .. 0 = {}
    OBVIOUS
  <2> QED
    BY <1>6, <2>1
<1>9. ASSUME NEW k \in 1 .. n
      PROVE  h[k] = MergeOne(h[k - 1], seq[k])
  <2>1. 1 .. k \in SUBSET (1 .. n) /\ k \in Nat \ {0} /\ k - 1 \in 0 .. n /\ k \in 0 .. n
    OBVIOUS
  <2>2. 1 .. k # {} /\ Max(1 .. k) = k /\ (1 .. k) \ {k} = 1 .. k - 1
    BY <2>1, LastPlace
  <2>3. g[1 .. k] = MergeOne(g[1 .. k - 1], seq[k])
    BY <1>6, <2>1, <2>2
  <2> QED
    BY <2>1, <2>3
<1>10. h[n] = g[1 .. n]
  OBVIOUS
<1> HIDE DEF h
<1> QED
  BY <1>7, <1>8, <1>9, <1>10 DEF MergesInTurn


Covers(m, n, t) == \E i \in 1 .. n : Spans(m[i], t)
Apart(m) ==
  /\ \A i \in 1 .. Len(m) : Proper(m[i])
  /\ \A i, j \in 1 .. Len(m) : i < j => m[i].to < m[j].from
\* What the first k windows have been merged to.
Merged(m, seq, k) ==
  /\ m \in Seq(Windows) /\ Apart(m)
  /\ \A t \in Int : Covers(m, Len(m), t) <=> Covers(seq, k, t)
  /\ m # <<>> => k # 0 /\ Last(m).from <= seq[k].from

\* Another window in order: a new one behind the last, or the last extended.
LEMMA MergeStep ==
  ASSUME NEW n \in Nat, NEW seq \in [1 .. n -> Windows],
         \A i \in 1 .. n : Proper(seq[i]),
         \A i, j \in 1 .. n : i < j => seq[i].from <= seq[j].from,
         NEW k \in 0 .. n - 1, NEW m, Merged(m, seq, k)
  PROVE  Merged(MergeOne(m, seq[k + 1]), seq, k + 1)
<1> DEFINE w == seq[k + 1]
           r == MergeOne(m, w)
           l == Len(m)
<1>1. /\ k \in Nat /\ k + 1 \in 1 .. n /\ w \in Windows /\ m \in Seq(Windows) /\ l \in Nat
      /\ \A i \in 1 .. l : m[i] \in Windows /\ m[i].from \in Int /\ m[i].to \in Int
      /\ w.from \in Int /\ w.to \in Int /\ w.from < w.to
  <2>1. k \in Nat /\ k + 1 \in 1 .. n /\ w \in Windows /\ Proper(w)
    OBVIOUS
  <2>2. m \in Seq(Windows) /\ l \in Nat /\ \A i \in 1 .. l : m[i] \in Windows
    BY DEF Merged
  <2>3. \A v \in Windows : v.from \in Int /\ v.to \in Int
    BY DEF Windows
  <2> HIDE DEF w, l
  <2> QED
    BY <2>1, <2>2, <2>3 DEF Proper
<1>2. r \in Seq(Windows)
  BY <1>1, MergeOneType
<1>3. \A t \in Int : Covers(seq, k + 1, t) <=> Covers(seq, k, t) \/ Spans(w, t)
  <2>1. \A i \in 1 .. k + 1 : i \in 1 .. k \/ i = k + 1
    BY <1>1
  <2>2. 1 .. k \subseteq 1 .. k + 1 /\ k + 1 \in 1 .. k + 1
    BY <1>1
  <2> QED
    BY <2>1, <2>2 DEF Covers
<1>4. CASE m = <<>> \/ w.from > Last(m).to
  <2>1. r = Append(m, w)
    BY <1>4 DEF MergeOne
  <2>2. Len(r) = l + 1 /\ r[l + 1] = w /\ \A i \in 1 .. l : r[i] = m[i]
    BY <1>1, <2>1
  <2>3. \A i \in 1 .. l : m[i].to < w.from
    <3> SUFFICES ASSUME NEW i \in 1 .. l
                 PROVE  m[i].to < w.from
      OBVIOUS
    <3>1. m # <<>> /\ l \in 1 .. l /\ Last(m) = m[l]
      BY <1>1 DEF Last
    <3>2. i = l \/ m[i].to < m[l].from
      BY <1>1 DEF Merged, Apart
    <3>3. m[l].from < m[l].to
      BY <3>1 DEF Merged, Apart, Proper
    <3> QED
      BY <1>1, <1>4, <3>1, <3>2, <3>3
  <2>4. Apart(r)
    <3>1. \A i \in 1 .. Len(r) : i \in 1 .. l \/ i = l + 1
      BY <1>1, <2>2
    <3>2. /\ \A i \in 1 .. l : Proper(m[i])
          /\ \A i, j \in 1 .. l : i < j => m[i].to < m[j].from
      BY DEF Merged, Apart
    <3> HIDE DEF r, w, l
    <3>3. \A i \in 1 .. Len(r) : Proper(r[i])
      BY <1>1, <2>2, <3>1, <3>2 DEF Proper
    <3>4. ASSUME NEW i \in 1 .. Len(r), NEW j \in 1 .. Len(r), i < j
          PROVE  r[i].to < r[j].from
      <4>1. i \in 1 .. l
        BY <1>1, <2>2, <3>1, <3>4
      <4> QED
        BY <2>2, <2>3, <3>1, <3>2, <3>4, <4>1
    <3> QED
      BY <3>3, <3>4 DEF Apart
  <2>5. \A t \in Int : Covers(r, Len(r), t) <=> Covers(m, l, t) \/ Spans(w, t)
    <3>1. \A i \in 1 .. Len(r) : i \in 1 .. l \/ i = l + 1
      BY <1>1, <2>2
    <3>2. 1 .. l \subseteq 1 .. Len(r) /\ l + 1 \in 1 .. Len(r)
      BY <1>1, <2>2
    <3> HIDE DEF r, w
    <3> QED
      BY <2>2, <3>1, <3>2 DEF Covers
  <2>6. Last(r).from <= seq[k + 1].from /\ k + 1 # 0
    BY <1>1, <2>2 DEF Last
  <2> QED
    BY <1>2, <1>3, <2>4, <2>5, <2>6 DEF Merged
<1>5. CASE m # <<>> /\ ~(w.from > Last(m).to)
  <2>1. l \in 1 .. l /\ Last(m) = m[l] /\ k \in 1 .. n
    BY <1>1, <1>5 DEF Last, Merged
  <2>2. /\ m[l].from <= w.from /\ w.from <= m[l].to /\ m[l].from < m[l].to
        /\ \A i, j \in 1 .. l : i < j => m[i].to < m[j].from
        /\ \A i \in 1 .. l : Proper(m[i])
    <3>1. seq[k].from <= w.from /\ seq[k].from \in Int
      BY <1>1, <2>1 DEF Windows
    <3>2. m[l].from <= seq[k].from
      BY <1>5, <2>1 DEF Merged
    <3> QED
      BY <1>1, <1>5, <2>1, <3>1, <3>2 DEF Merged, Apart, Proper
  <2>3. PICK v \in Windows :
          /\ v.from = m[l].from /\ Proper(v)
          /\ \A t \in Int : Spans(v, t) <=> Spans(m[l], t) \/ Spans(w, t)
          /\ Len(r) = l /\ r[l] = v /\ \A i \in 1 .. l - 1 : r[i] = m[i]
    <3>1. CASE w.to > m[l].to
      <4> DEFINE v == Window(m[l].from, w.to)
      <4>1. r = Append(Front(m), v)
        BY <1>5, <2>1, <3>1 DEF MergeOne
      <4>2. Len(Front(m)) = l - 1 /\ \A i \in 1 .. l - 1 : Front(m)[i] = m[i]
        BY <1>1, <1>5, FrontOf
      <4>3. Front(m) \in Seq(Windows)
        BY <1>1, <1>5, FrontOf
      <4>4. v \in Windows /\ v.from = m[l].from /\ v.to = w.to
        BY <1>1, <2>1 DEF Window, Windows
      <4>5. Proper(v) /\ \A t \in Int : Spans(v, t) <=> Spans(m[l], t) \/ Spans(w, t)
        <5> HIDE DEF v, w
        <5> QED
          BY <1>1, <2>1, <2>2, <3>1, <4>4 DEF Proper, Spans
      <4>6. Len(r) = l /\ r[l] = v /\ \A i \in 1 .. l - 1 : r[i] = m[i]
        <5> HIDE DEF v, r, w, l
        <5>1. (l - 1) + 1 = l /\ l - 1 \in Nat
          BY <1>1, <2>1
        <5> QED
          BY <4>1, <4>2, <4>3, <4>4, <5>1
      <4> QED
        BY <4>4, <4>5, <4>6
    <3>2. CASE ~(w.to > m[l].to)
      <4>1. r = m
        BY <1>5, <2>1, <3>2 DEF MergeOne
      <4>2. \A t \in Int : Spans(m[l], t) <=> Spans(m[l], t) \/ Spans(w, t)
        BY <1>1, <2>1, <2>2, <3>2 DEF Spans
      <4> QED
        BY <1>1, <2>1, <2>2, <4>1, <4>2
    <3> QED
      BY <3>1, <3>2
  <2>4. \A i \in 1 .. l : i \in 1 .. l - 1 \/ i = l
    BY <1>1
  <2> HIDE DEF r, w, l
  <2>5. Apart(r)
    <3>1. \A i \in 1 .. Len(r) : Proper(r[i])
      BY <2>2, <2>3, <2>4
    <3>2. ASSUME NEW i \in 1 .. Len(r), NEW j \in 1 .. Len(r), i < j
          PROVE  r[i].to < r[j].from
      <4>1. i \in 1 .. l /\ j \in 1 .. l /\ i \in 1 .. l - 1 /\ r[j].from = m[j].from
        BY <1>1, <2>3, <2>4, <3>2
      <4> QED
        BY <2>2, <2>3, <3>2, <4>1
    <3> QED
      BY <3>1, <3>2 DEF Apart
  <2>6. \A t \in Int : Covers(r, Len(r), t) <=> Covers(m, l, t) \/ Spans(w, t)
    <3>1. 1 .. l - 1 \subseteq 1 .. l
      BY <1>1
    <3> QED
      BY <2>1, <2>3, <2>4, <3>1 DEF Covers
  <2>7. Last(r).from <= seq[k + 1].from /\ k + 1 # 0
    BY <1>1, <2>2, <2>3 DEF Last, w
  <2> QED
    BY <1>2, <1>3, <2>5, <2>6, <2>7 DEF Merged, r, w, l
<1> QED
  BY <1>4, <1>5

\* MergeWindows covers the instants of its windows and no others, with windows
\* that are in order and do not touch.
LEMMA MergeExact ==
  ASSUME NEW S \in SUBSET Windows, IsFiniteSet(S), \A w \in S : Proper(w)
  PROVE  LET m == MergeWindows(S) IN
         /\ m \in Seq(Windows) /\ Apart(m)
         /\ \A t \in Int : Covers(m, Len(m), t) <=> \E w \in S : Spans(w, t)
<1> DEFINE seq == Ordered(S, InOrder)
           n == Cardinality(S)
<1>1. /\ n \in Nat /\ seq \in [1 .. n -> S]
      /\ \A x \in S : \E k \in 1 .. n : seq[k] = x
      /\ \A j, k \in 1 .. n : j < k => seq[j].from <= seq[k].from
  BY OrderedWindows
<1> HIDE DEF seq, n
<1>2. seq \in [1 .. n -> Windows] /\ \A i \in 1 .. n : Proper(seq[i])
  BY <1>1
<1>3. PICK h : MergesInTurn(h, seq, n) /\ FoldLeft(MergeOne, <<>>, seq) = h[n]
  BY <1>1, <1>2, MergeFold
<1> DEFINE P == {k \in Nat : k <= n => Merged(h[k], seq, k)}
<1>4. 0 \in P
  <2>1. h[0] = <<>>
    BY <1>3 DEF MergesInTurn
  <2>2. \A t : ~Covers(<<>>, Len(<<>>), t) /\ ~Covers(seq, 0, t)
    BY DEF Covers
  <2>3. Merged(<<>>, seq, 0)
    BY <2>2 DEF Merged, Apart
  <2> QED
    BY <2>1, <2>3
<1>5. ASSUME NEW k \in Nat, k \in P
      PROVE  k + 1 \in P
  <2> SUFFICES ASSUME k + 1 <= n
               PROVE  Merged(h[k + 1], seq, k + 1)
    OBVIOUS
  <2>1. k \in 0 .. n - 1 /\ Merged(h[k], seq, k)
    BY <1>1, <1>5
  <2>2. k + 1 \in 1 .. n /\ (k + 1) - 1 = k
    BY <1>1
  <2>3. h[k + 1] = MergeOne(h[k], seq[k + 1])
    BY <1>3, <2>2 DEF MergesInTurn
  <2> QED
    BY <1>1, <1>2, <2>1, <2>3, MergeStep
<1> HIDE DEF P
<1>6. n \in P
  BY <1>1, <1>4, <1>5, Induction
<1>7. Merged(MergeWindows(S), seq, n)
  BY <1>1, <1>3, <1>6 DEF P, MergeWindows, seq
<1>8. \A t \in Int : Covers(seq, n, t) <=> \E w \in S : Spans(w, t)
  BY <1>1 DEF Covers
<1> QED
  BY <1>7, <1>8 DEF Merged

-----------------------------------------------------------------------------
(***************************************************************************)
(* What SubtractWindows leaves of a window.                                *)
(***************************************************************************)
SkipStates == [cursor : Int, available : Seq(Windows)]
SkipsInTurn(h, base, d, m, n) ==
  /\ h[0] = [cursor |-> base.from, available |-> <<>>]
  /\ \A k \in 1 .. n : h[k] = Skip(base, d, h[k - 1], m[k])

LEMMA SkipType ==
  ASSUME NEW base \in Windows, NEW d \in Int, NEW st \in SkipStates, NEW w \in Windows
  PROVE  Skip(base, d, st, w) \in SkipStates
<1> DEFINE start == Later(w.from, base.from)
<1>1. /\ base.from \in Int /\ base.to \in Int /\ w.from \in Int /\ w.to \in Int
      /\ st.cursor \in Int /\ st.available \in Seq(Windows)
  BY DEF Windows, SkipStates
<1>2. start \in Int /\ Earlier(Later(st.cursor, w.to), base.to) \in Int
  BY <1>1 DEF Later, Earlier
<1>3. Window(st.cursor, start) \in Windows
  BY <1>1, <1>2 DEF Window, Windows
<1>4. Append(st.available, Window(st.cursor, start)) \in Seq(Windows)
  BY <1>1, <1>3
<1> QED
  BY <1>1, <1>2, <1>4 DEF Skip, SkipStates

\* The cursor and the windows found after each merged window.
LEMMA SkipFold ==
  ASSUME NEW base \in Windows, NEW d \in Int, NEW n \in Nat, NEW seq \in [1 .. n -> Windows]
  PROVE  \E h : /\ SkipsInTurn(h, base, d, seq, n)
                /\ FoldLeft(LAMBDA state, w : Skip(base, d, state, w),
                            [cursor |-> base.from, available |-> <<>>], seq) = h[n]
<1> DEFINE start == [cursor |-> base.from, available |-> <<>>]
           Op == [p \in SkipStates \X Windows |-> Skip(base, d, p[1], p[2])]
           Solves(g) == g = [s \in SUBSET DOMAIN seq |->
                               IF s = {} THEN start
                               ELSE Skip(base, d, g[s \ {Max(s)}], seq[Max(s)])]
           g == CHOOSE f : Solves(f)
           h == [k \in 0 .. n |-> g[1 .. k]]
<1>1. \A a \in SkipStates, w \in Windows : Op[<<a, w>>] = Skip(base, d, a, w)
  OBVIOUS
<1>2. Op \in [SkipStates \X Windows -> SkipStates]
  BY SkipType
<1> HIDE DEF Op
<1>3. PICK f \in [SUBSET (1 .. n) -> SkipStates] :
        /\ f[{}] = start
        /\ \A s \in SUBSET (1 .. n) :
             s # {} => f[s] = Op[<<f[s \ {Max(s)}], seq[Max(s)]>>]
  <2>1. start \in SkipStates
    BY DEF SkipStates, Windows
  <2> HIDE DEF start
  <2>2. FoldSolved(n, SkipStates, start, seq, Op)
    BY <1>2, <2>1, FoldExists
  <2> QED
    BY <2>2 DEF FoldSolved
<1>4. ASSUME NEW s \in SUBSET (1 .. n), s # {}
      PROVE  f[s] = Skip(base, d, f[s \ {Max(s)}], seq[Max(s)])
  <2>1. Max(s) \in s
    BY <1>4, MaxOfPlaces
  <2>2. seq[Max(s)] \in Windows /\ f[s \ {Max(s)}] \in SkipStates
    BY <2>1
  <2> QED
    BY <1>1, <1>3, <1>4, <2>2
<1>5. Solves(f)
  <2>1. DOMAIN seq = 1 .. n
    OBVIOUS
  <2> HIDE DEF start
  <2> QED
    BY <1>3, <1>4, <2>1
<1>6. Solves(g)
  BY <1>5
<1>7. FoldLeft(LAMBDA state, w : Skip(base, d, state, w), start, seq) = g[1 .. n]
  BY DEF FoldLeft, MapThenFoldSet
<1> HIDE DEF g, start
<1>8. h[0] = start
  <2>1. 1 .. 0 = {}
    OBVIOUS
  <2> QED
    BY <1>6, <2>1
<1>9. ASSUME NEW k \in 1 .. n
      PROVE  h[k] = Skip(base, d, h[k - 1], seq[k])
  <2>1. 1 .. k \in SUBSET (1 .. n) /\ k \in Nat \ {0} /\ k - 1 \in 0 .. n /\ k \in 0 .. n
    OBVIOUS
  <2>2. 1 .. k # {} /\ Max(1 .. k) = k /\ (1 .. k) \ {k} = 1 .. k - 1
    BY <2>1, LastPlace
  <2>3. g[1 .. k] = Skip(base, d, g[1 .. k - 1], seq[k])
    BY <1>6, <2>1, <2>2
  <2> QED
    BY <2>1, <2>3
<1>10. h[n] = g[1 .. n]
  OBVIOUS
<1> HIDE DEF h
<1> QED
  BY <1>7, <1>8, <1>9, <1>10 DEF SkipsInTurn, start

LEMMA ListedWindows ==
  ASSUME NEW a \in Seq(Windows)
  PROVE  \A i \in 1 .. Len(a) : a[i] \in Windows /\ a[i].from \in Int /\ a[i].to \in Int
<1>1. \A i \in 1 .. Len(a) : a[i] \in Windows
  OBVIOUS
<1>2. \A w \in Windows : w.from \in Int /\ w.to \in Int
  BY DEF Windows
<1> QED
  BY <1>1, <1>2

\* Whether one of the first k windows is in the way of a slot, and whether the
\* slot is inside one of the windows of a list.
InTheWay(m, k, f, d) == \E i \in 1 .. k : m[i].from < f + d /\ f < m[i].to
FitsInto(a, f, d) == \E i \in 1 .. Len(a) : a[i].from <= f /\ f + d <= a[i].to

(***************************************************************************)
(* What the pass over the first k merged windows has found: exactly the    *)
(* room that ends before the cursor.  The cursor is where the last of them *)
(* ends, or at the beginning or the end of the base.                       *)
(***************************************************************************)
RoomUpTo(a, base, d, cursor) ==
  /\ a \in Seq(Windows)
  /\ \A i \in 1 .. Len(a) :
       base.from <= a[i].from /\ a[i].from + d <= a[i].to /\ a[i].to < cursor
  /\ \A i, j \in 1 .. Len(a) : i < j => a[i].to < a[j].from
Skipped(st, base, d, m, k) ==
  /\ st \in SkipStates /\ base.from <= st.cursor /\ st.cursor <= base.to
  /\ RoomUpTo(st.available, base, d, st.cursor)
  /\ \A i \in 1 .. k :
       m[i].to <= st.cursor \/ st.cursor = base.to \/ base.to <= m[i].from
  /\ \/ st.cursor = base.from
     \/ \E i \in 1 .. k : m[i].from < st.cursor /\ st.cursor <= m[i].to
  /\ \A f \in Int : base.from <= f /\ f + d <= st.cursor =>
       (FitsInto(st.available, f, d) <=> ~InTheWay(m, k, f, d))

\* A window behind the others is appended.
LEMMA RoomAppended ==
  ASSUME NEW base \in Windows, NEW d \in Nat \ {0}, NEW a, NEW c \in Int, NEW s \in Int,
         base.from <= c, c + d <= s, NEW e \in Int, s < e, RoomUpTo(a, base, d, c)
  PROVE  LET b == Append(a, Window(c, s)) IN
         /\ RoomUpTo(b, base, d, e)
         /\ \A f \in Int : FitsInto(b, f, d) <=>
                             FitsInto(a, f, d) \/ (c <= f /\ f + d <= s)
<1> DEFINE w == Window(c, s)
           b == Append(a, w)
           l == Len(a)
<1>1. w \in Windows /\ w.from = c /\ w.to = s
  BY DEF Window, Windows
<1>2. /\ a \in Seq(Windows) /\ l \in Nat /\ base.from \in Int
      /\ \A i \in 1 .. l : a[i].from \in Int /\ a[i].to \in Int
  <2>1. a \in Seq(Windows) /\ base.from \in Int
    BY DEF RoomUpTo, Windows
  <2> QED
    BY <2>1, ListedWindows
<1> HIDE DEF w
<1>3. /\ b \in Seq(Windows) /\ Len(b) = l + 1 /\ b[l + 1] = w
      /\ \A i \in 1 .. l : b[i] = a[i]
  BY <1>1, <1>2
<1>4. /\ \A i \in 1 .. l + 1 : i \in 1 .. l \/ i = l + 1
      /\ 1 .. l \subseteq 1 .. l + 1 /\ l + 1 \in 1 .. l + 1
  BY <1>2
<1>5. /\ \A i \in 1 .. l : base.from <= a[i].from /\ a[i].from + d <= a[i].to /\ a[i].to < c
      /\ \A i, j \in 1 .. l : i < j => a[i].to < a[j].from
  BY DEF RoomUpTo
<1> HIDE DEF b, l
<1>6. \A i \in 1 .. Len(b) : base.from <= b[i].from /\ b[i].from + d <= b[i].to /\ b[i].to < e
  BY <1>1, <1>2, <1>3, <1>4, <1>5
<1>7. ASSUME NEW i \in 1 .. Len(b), NEW j \in 1 .. Len(b), i < j
      PROVE  b[i].to < b[j].from
  <2>1. i \in 1 .. l
    BY <1>2, <1>3, <1>4, <1>7
  <2> QED
    BY <1>1, <1>3, <1>4, <1>5, <1>7, <2>1
<1>8. \A f \in Int : FitsInto(b, f, d) <=> FitsInto(a, f, d) \/ (c <= f /\ f + d <= s)
  BY <1>1, <1>3, <1>4 DEF FitsInto, l
<1>9. RoomUpTo(b, base, d, e)
  BY <1>3, <1>6, <1>7 DEF RoomUpTo
<1> QED
  BY <1>8, <1>9 DEF b, w

\* The next merged window moves the cursor over the room before it.
LEMMA SkipStep ==
  ASSUME NEW base \in Windows, Proper(base), NEW d \in Nat \ {0},
         NEW m \in Seq(Windows), Apart(m), NEW k \in 0 .. Len(m) - 1,
         NEW st, Skipped(st, base, d, m, k)
  PROVE  Skipped(Skip(base, d, st, m[k + 1]), base, d, m, k + 1)
<1> DEFINE w == m[k + 1]
           start == Later(w.from, base.from)
           c == st.cursor
           a == st.available
           r == Skip(base, d, st, w)
<1>1. /\ Len(m) \in Nat /\ k \in Nat /\ k + 1 \in 1 .. Len(m) /\ w \in Windows
      /\ base.from \in Int /\ base.to \in Int /\ base.from < base.to
      /\ c \in Int /\ a \in Seq(Windows) /\ base.from <= c /\ c <= base.to
      /\ w.from \in Int /\ w.to \in Int /\ w.from < w.to
  <2>1. Len(m) \in Nat /\ k \in Nat /\ k + 1 \in 1 .. Len(m) /\ w \in Windows
    OBVIOUS
  <2>2. Proper(w)
    BY <2>1 DEF Apart
  <2>3. c \in Int /\ a \in Seq(Windows) /\ base.from <= c /\ c <= base.to
    BY DEF Skipped, SkipStates
  <2> HIDE DEF w, c, a
  <2> QED
    BY <2>1, <2>2, <2>3 DEF Windows, Proper
<1>2. r \in SkipStates
  <2>1. st \in SkipStates /\ d \in Int
    BY DEF Skipped
  <2> QED
    BY <1>1, <2>1, SkipType
<1>3. \A i \in 1 .. k : m[i] \in Windows /\ m[i].from \in Int /\ m[i].to \in Int
                         /\ m[i].to < w.from
  <2> SUFFICES ASSUME NEW i \in 1 .. k
               PROVE  m[i] \in Windows /\ m[i].to < w.from
    BY DEF Windows
  <2>1. i \in 1 .. Len(m) /\ i < k + 1
    BY <1>1
  <2> QED
    BY <1>1, <2>1 DEF Apart
<1>4. \A f \in Int : InTheWay(m, k + 1, f, d) <=>
                       InTheWay(m, k, f, d) \/ (w.from < f + d /\ f < w.to)
  <2>1. /\ \A i \in 1 .. k + 1 : i \in 1 .. k \/ i = k + 1
        /\ 1 .. k \subseteq 1 .. k + 1 /\ k + 1 \in 1 .. k + 1
    BY <1>1
  <2> QED
    BY <2>1 DEF InTheWay
<1>5. \A i \in 1 .. k + 1 : i \in 1 .. k \/ i = k + 1
  BY <1>1
<1>6. /\ \A i \in 1 .. k : m[i].to <= c \/ c = base.to \/ base.to <= m[i].from
      /\ c = base.from \/ \E i \in 1 .. k : m[i].from < c /\ c <= m[i].to
      /\ \A f \in Int : base.from <= f /\ f + d <= c =>
           (FitsInto(a, f, d) <=> ~InTheWay(m, k, f, d))
      /\ RoomUpTo(a, base, d, c)
  BY DEF Skipped
<1>7. 1 .. k \subseteq 1 .. k + 1 /\ k + 1 \in 1 .. k + 1
  BY <1>1
<1>8. CASE ~Overlaps(w, base)
  <2>1. r = st
    BY <1>8 DEF Skip
  <2>2. w.to <= base.from \/ base.to <= w.from
    BY <1>1, <1>8 DEF Overlaps
  <2> HIDE DEF w
  <2>3. \A f \in Int : base.from <= f /\ f + d <= c =>
          (FitsInto(a, f, d) <=> ~InTheWay(m, k + 1, f, d))
    BY <1>1, <1>4, <1>6, <2>2
  <2>4. \A i \in 1 .. k + 1 : m[i].to <= c \/ c = base.to \/ base.to <= m[i].from
    BY <1>1, <1>5, <1>6, <2>2 DEF w
  <2>5. c = base.from \/ \E i \in 1 .. k + 1 : m[i].from < c /\ c <= m[i].to
    BY <1>6, <1>7
  <2> HIDE DEF r
  <2>6. st \in SkipStates
    BY DEF Skipped
  <2>7. Skipped(st, base, d, m, k + 1)
    BY <1>1, <1>6, <2>3, <2>4, <2>5, <2>6 DEF Skipped
  <2> QED
    BY <2>1, <2>7 DEF r, w
<1>9. CASE Overlaps(w, base)
  <2> DEFINE e == Earlier(w.to, base.to)
  <2>1. w.from < base.to /\ base.from < w.to
    BY <1>9 DEF Overlaps
  <2>2. c = base.from \/ c < w.from
    BY <1>1, <1>3, <1>6
  <2>3. /\ start \in Int /\ w.from <= start /\ base.from <= start /\ c <= start
        /\ start = w.from \/ start = base.from
        /\ e \in Int /\ start < e /\ e <= base.to /\ e <= w.to
        /\ e = w.to \/ e = base.to
    BY <1>1, <2>1, <2>2 DEF Later, Earlier
  <2>4. /\ r.cursor = e
        /\ r.available = IF start - c >= d THEN Append(a, Window(c, start)) ELSE a
    <3>1. Earlier(Later(c, w.to), base.to) = e
      BY <1>1, <2>1, <2>2 DEF Later, Earlier
    <3> QED
      BY <1>9, <3>1 DEF Skip
  <2> HIDE DEF r, start, e
  <2>5. /\ RoomUpTo(r.available, base, d, e)
        /\ \A f \in Int : FitsInto(r.available, f, d) <=>
                            FitsInto(a, f, d) \/ (c <= f /\ f + d <= start)
    <3>1. CASE start - c >= d
      <4>1. c + d <= start
        BY <1>1, <2>3, <3>1
      <4> HIDE DEF c, a
      <4> QED
        BY <1>1, <1>6, <2>3, <2>4, <3>1, <4>1, RoomAppended
    <3>2. CASE ~(start - c >= d)
      <4>1. \A f \in Int : ~(c <= f /\ f + d <= start)
        BY <1>1, <2>3, <3>2
      <4>2. c < e
        BY <1>1, <2>3
      <4>3. RoomUpTo(a, base, d, e)
        <5>1. \A i \in 1 .. Len(a) : a[i].to \in Int
          BY <1>1, ListedWindows
        <5> QED
          BY <1>1, <1>6, <2>3, <4>2, <5>1 DEF RoomUpTo
      <4> QED
        BY <2>4, <3>2, <4>1, <4>3
    <3> QED
      BY <3>1, <3>2
  <2> HIDE DEF w, c, a
  <2>6. \A i \in 1 .. k + 1 : m[i].to <= e \/ e = base.to \/ base.to <= m[i].from
    <3>1. \A i \in 1 .. k : m[i].to <= e \/ e = base.to \/ base.to <= m[i].from
      BY <1>1, <1>3, <1>6, <2>3
    <3>2. w.to <= e \/ e = base.to
      BY <1>1, <2>3
    <3> QED
      BY <1>5, <3>1, <3>2 DEF w
  <2>7. w.from < e /\ e <= w.to
    BY <1>1, <2>3
  <2>8. ASSUME NEW f \in Int, base.from <= f, f + d <= e
        PROVE  FitsInto(r.available, f, d) <=> ~InTheWay(m, k + 1, f, d)
    <3>1. \A i \in 1 .. Len(a) : a[i].to < c /\ a[i].to \in Int /\ a[i].from \in Int
      BY <1>1, <1>6, ListedWindows DEF RoomUpTo
    <3>2. CASE f + d <= c
      <4>1. c # base.from
        BY <1>1, <2>8, <3>2
      <4>2. ~(w.from < f + d)
        BY <1>1, <2>2, <3>2, <4>1
      <4>3. ~(c <= f)
        BY <1>1, <3>2
      <4> QED
        BY <1>4, <1>6, <2>5, <2>8, <3>2, <4>2, <4>3
    <3>3. CASE f + d > c /\ f < c
      <4>1. \E i \in 1 .. k : m[i].from < c /\ c <= m[i].to
        BY <1>1, <1>6, <2>8, <3>3
      <4>2. InTheWay(m, k, f, d)
        <5>1. PICK i \in 1 .. k : m[i].from < c /\ c <= m[i].to
          BY <4>1
        <5>2. m[i].from \in Int /\ m[i].to \in Int
          BY <1>3
        <5>3. m[i].from < f + d /\ f < m[i].to
          BY <1>1, <3>3, <5>1, <5>2
        <5> QED
          BY <5>3 DEF InTheWay
      <4>3. ~FitsInto(a, f, d)
        BY <1>1, <3>1, <3>3 DEF FitsInto
      <4>4. ~(c <= f)
        BY <1>1, <3>3
      <4> QED
        BY <1>4, <2>5, <4>2, <4>3, <4>4
    <3>4. CASE f + d > c /\ f >= c
      <4>1. ~InTheWay(m, k, f, d)
        <5> SUFFICES ASSUME NEW i \in 1 .. k, m[i].from < f + d, f < m[i].to
                     PROVE  FALSE
          BY DEF InTheWay
        <5>1. m[i].from \in Int /\ m[i].to \in Int
          BY <1>3
        <5>2. m[i].to <= c \/ c = base.to \/ base.to <= m[i].from
          BY <1>6
        <5> QED
          BY <1>1, <2>3, <2>8, <3>4, <5>1, <5>2
      <4>2. ~FitsInto(a, f, d)
        BY <1>1, <3>1, <3>4 DEF FitsInto
      <4>3. f < w.to
        BY <1>1, <2>3, <2>8
      <4>4. f + d <= start <=> ~(w.from < f + d)
        BY <1>1, <2>3, <2>8
      <4> QED
        BY <1>4, <2>5, <3>4, <4>1, <4>2, <4>3, <4>4
    <3> QED
      BY <1>1, <3>2, <3>3, <3>4
  <2>9. base.from <= e
    BY <1>1, <2>3
  <2>10. \E i \in 1 .. k + 1 : m[i].from < e /\ e <= m[i].to
    BY <1>7, <2>7 DEF w
  <2>11. Skipped(r, base, d, m, k + 1)
    BY <1>2, <2>3, <2>4, <2>5, <2>6, <2>8, <2>9, <2>10 DEF Skipped
  <2> QED
    BY <2>11 DEF r, w
<1> QED
  BY <1>8, <1>9

\* A merged window is in the way of a slot exactly if one of the windows is.
LEMMA MergedInTheWay ==
  ASSUME NEW S \in SUBSET Windows, \A w \in S : Proper(w),
         NEW m \in Seq(Windows), Apart(m),
         \A t \in Int : Covers(m, Len(m), t) <=> \E w \in S : Spans(w, t),
         NEW f \in Int, NEW d \in Nat \ {0}
  PROVE  InTheWay(m, Len(m), f, d) <=> \E w \in S : Overlaps(Window(f, f + d), w)
<1> DEFINE x == Window(f, f + d)
<1>1. x.from = f /\ x.to = f + d
  BY DEF Window
<1>2. \A w \in Windows : w.from \in Int /\ w.to \in Int
  BY DEF Windows
<1>3. ASSUME NEW w \in Windows, Proper(w)
      PROVE  /\ Overlaps(x, w) <=> w.from < f + d /\ f < w.to
             /\ Overlaps(x, w) <=> \E t \in Int : Spans(x, t) /\ Spans(w, t)
  <2>1. Overlaps(x, w) <=> w.from < f + d /\ f < w.to
    BY <1>1 DEF Overlaps
  <2> HIDE DEF x
  <2>2. ASSUME Overlaps(x, w)
        PROVE  \E t \in Int : Spans(x, t) /\ Spans(w, t)
    <3> DEFINE t == IF w.from < f THEN f ELSE w.from
    <3>1. t \in Int /\ f <= t /\ t < f + d /\ w.from <= t /\ t < w.to
      BY <1>2, <1>3, <2>1, <2>2 DEF Proper
    <3> HIDE DEF t
    <3> QED
      BY <1>1, <3>1 DEF Spans
  <2>3. ASSUME NEW t \in Int, Spans(x, t), Spans(w, t)
        PROVE  w.from < f + d /\ f < w.to
    BY <1>1, <1>2, <2>3 DEF Spans
  <2> QED
    BY <2>1, <2>2, <2>3
<1> HIDE DEF x
<1>4. \A i \in 1 .. Len(m) : m[i] \in Windows /\ Proper(m[i])
  BY DEF Apart
<1>5. InTheWay(m, Len(m), f, d) <=> \E t \in Int : Spans(x, t) /\ Covers(m, Len(m), t)
  BY <1>3, <1>4 DEF InTheWay, Covers
<1>6. (\E w \in S : Overlaps(x, w)) <=>
        \E t \in Int : Spans(x, t) /\ \E w \in S : Spans(w, t)
  BY <1>3
<1> QED
  BY <1>5, <1>6 DEF x

\* SubtractWindows finds the slots of the minimal length, or longer, that no
\* window is in the way of, and no others.
LEMMA SubtractExact ==
  ASSUME NEW base \in Windows, Proper(base), NEW d \in Nat \ {0},
         NEW S \in SUBSET Windows, IsFiniteSet(S), \A w \in S : Proper(w)
  PROVE  LET a == SubtractWindows(base, S, d) IN
         /\ RoomUpTo(a, base, d, base.to + 1)
         /\ \A f \in Int : base.from <= f /\ f + d <= base.to =>
              (FitsInto(a, f, d) <=> \A w \in S : ~Overlaps(Window(f, f + d), w))
<1> DEFINE m == MergeWindows(S)
           n == Len(m)
           start == [cursor |-> base.from, available |-> <<>>]
<1>1. /\ m \in Seq(Windows) /\ Apart(m)
      /\ \A t \in Int : Covers(m, Len(m), t) <=> \E w \in S : Spans(w, t)
  BY MergeExact
<1> HIDE DEF m
<1>2. n \in Nat /\ m \in [1 .. n -> Windows]
  BY <1>1
<1>3. PICK h : /\ SkipsInTurn(h, base, d, m, n)
               /\ FoldLeft(LAMBDA state, w : Skip(base, d, state, w), start, m) = h[n]
  <2>1. d \in Int
    OBVIOUS
  <2> HIDE DEF n
  <2> QED
    BY <1>2, <2>1, SkipFold
<1>4. base.from \in Int /\ base.to \in Int /\ base.from < base.to
  BY DEF Windows, Proper
<1> DEFINE P == {k \in Nat : k <= n => Skipped(h[k], base, d, m, k)}
<1>5. 0 \in P
  <2>1. h[0] = start
    BY <1>3 DEF SkipsInTurn
  <2>2. start \in SkipStates /\ start.cursor = base.from /\ start.available = <<>>
    BY <1>4 DEF SkipStates
  <2> HIDE DEF start
  <2>3. RoomUpTo(<<>>, base, d, base.from)
    BY DEF RoomUpTo
  <2>4. \A f \in Int : ~(base.from <= f /\ f + d <= base.from)
    BY <1>4
  <2>5. Skipped(start, base, d, m, 0)
    BY <1>4, <2>2, <2>3, <2>4 DEF Skipped
  <2> QED
    BY <2>1, <2>5
<1>6. ASSUME NEW k \in Nat, k \in P
      PROVE  k + 1 \in P
  <2> SUFFICES ASSUME k + 1 <= n
               PROVE  Skipped(h[k + 1], base, d, m, k + 1)
    OBVIOUS
  <2>1. k \in 0 .. Len(m) - 1 /\ Skipped(h[k], base, d, m, k)
    BY <1>2, <1>6
  <2>2. k + 1 \in 1 .. n /\ (k + 1) - 1 = k
    BY <1>2
  <2>3. h[k + 1] = Skip(base, d, h[k], m[k + 1])
    BY <1>3, <2>2 DEF SkipsInTurn
  <2> QED
    BY <1>1, <2>1, <2>3, SkipStep
<1> HIDE DEF P
<1>7. n \in P
  BY <1>2, <1>5, <1>6, Induction
<1> DEFINE end == h[n]
           c == end.cursor
           b == end.available
           a == SubtractWindows(base, S, d)
<1>8. Skipped(end, base, d, m, n)
  BY <1>2, <1>7 DEF P
<1>9. a = IF base.to - c >= d THEN Append(b, Window(c, base.to)) ELSE b
  BY <1>3 DEF SubtractWindows, m
<1> HIDE DEF end, n, a
<1>10. /\ c \in Int /\ base.from <= c /\ c <= base.to /\ RoomUpTo(b, base, d, c)
       /\ \A i \in 1 .. n : m[i].to <= c \/ c = base.to \/ base.to <= m[i].from
       /\ c = base.from \/ \E i \in 1 .. n : m[i].from < c /\ c <= m[i].to
       /\ \A f \in Int : base.from <= f /\ f + d <= c =>
            (FitsInto(b, f, d) <=> ~InTheWay(m, n, f, d))
  BY <1>8 DEF Skipped, SkipStates
<1> HIDE DEF c, b
<1>11. \A i \in 1 .. n : m[i].from \in Int /\ m[i].to \in Int
  BY <1>1, ListedWindows DEF n
<1>12. \A i \in 1 .. Len(b) : b[i].from \in Int /\ b[i].to \in Int /\ b[i].to < c
  <2>1. b \in Seq(Windows)
    BY <1>10 DEF RoomUpTo
  <2> QED
    BY <1>10, <2>1, ListedWindows DEF RoomUpTo
<1>13. /\ RoomUpTo(a, base, d, base.to + 1)
       /\ \A f \in Int : FitsInto(a, f, d) <=>
                           FitsInto(b, f, d) \/ (c <= f /\ f + d <= base.to)
  <2>1. CASE base.to - c >= d
    <3>1. base.to + 1 \in Int /\ base.to < base.to + 1 /\ c + d <= base.to
      BY <1>4, <1>10, <2>1
    <3> QED
      BY <1>4, <1>9, <1>10, <2>1, <3>1, RoomAppended
  <2>2. CASE ~(base.to - c >= d)
    <3>1. \A f \in Int : ~(c <= f /\ f + d <= base.to)
      BY <1>4, <1>10, <2>2
    <3>2. RoomUpTo(b, base, d, base.to + 1)
      <4>1. \A i \in 1 .. Len(b) : b[i].to < base.to + 1
        BY <1>4, <1>10, <1>12
      <4>2. RoomUpTo(b, base, d, c)
        BY <1>10
      <4> QED
        BY <4>1, <4>2 DEF RoomUpTo
    <3> QED
      BY <1>9, <2>2, <3>1, <3>2
  <2> QED
    BY <2>1, <2>2
<1>14. ASSUME NEW f \in Int, base.from <= f, f + d <= base.to
       PROVE  FitsInto(a, f, d) <=> ~InTheWay(m, n, f, d)
  <2>1. CASE f + d <= c
    <3>1. ~(c <= f)
      BY <1>10, <2>1
    <3> QED
      BY <1>10, <1>13, <1>14, <2>1, <3>1
  <2>2. CASE f + d > c /\ f < c
    <3>1. PICK i \in 1 .. n : m[i].from < c /\ c <= m[i].to
      BY <1>4, <1>10, <1>14, <2>2
    <3>2. m[i].from < f + d /\ f < m[i].to
      BY <1>10, <1>11, <2>2, <3>1
    <3>3. ~FitsInto(b, f, d)
      BY <1>10, <1>12, <2>2 DEF FitsInto
    <3>4. ~(c <= f)
      BY <1>10, <2>2
    <3> QED
      BY <1>13, <3>2, <3>3, <3>4 DEF InTheWay
  <2>3. CASE f + d > c /\ f >= c
    <3>1. ASSUME NEW i \in 1 .. n, m[i].from < f + d, f < m[i].to
          PROVE  FALSE
      <4>1. m[i].to <= c \/ c = base.to \/ base.to <= m[i].from
        BY <1>10
      <4> QED
        BY <1>4, <1>10, <1>11, <1>14, <2>3, <3>1, <4>1
    <3> QED
      BY <1>13, <1>14, <2>3, <3>1 DEF InTheWay
  <2> QED
    BY <1>10, <2>1, <2>2, <2>3
<1>15. \A f \in Int : InTheWay(m, n, f, d) <=> \E w \in S : Overlaps(Window(f, f + d), w)
  BY <1>1, MergedInTheWay DEF n
<1> QED
  BY <1>13, <1>14, <1>15 DEF a

-----------------------------------------------------------------------------
(***************************************************************************)
(* The schedule.                                                           *)
(***************************************************************************)
Bookings ==
  {b \in [status : {"confirmed", "cancelled"}, chamber : Chambers, from : Times, to : Times] :
     b.from < b.to}
ScheduleTypeOK == booked \in [Slots -> Bookings \cup {NoSlot}]

\* What is booked has its type: proper windows within the days that are planned.
THEOREM ScheduleTypeCorrect == ScheduleSpec => []ScheduleTypeOK
<1>1. ScheduleInit => ScheduleTypeOK
  BY DEF ScheduleInit, ScheduleTypeOK
<1>2. ASSUME ScheduleTypeOK, [ScheduleNext]_booked
      PROVE  ScheduleTypeOK'
  <2>1. ASSUME NEW s \in Slots, NEW chamber \in Chambers, NEW from \in Times, NEW to \in Times,
               ReserveSlot(s, chamber, from, to)
        PROVE  ScheduleTypeOK'
    <3>1. [status |-> "confirmed", chamber |-> chamber, from |-> from, to |-> to] \in Bookings
      BY <2>1 DEF ReserveSlot, Bookings
    <3> QED
      BY <1>2, <2>1, <3>1 DEF ReserveSlot, ScheduleTypeOK
  <2>2. ASSUME NEW s \in Slots, CancelSlot(s)
        PROVE  ScheduleTypeOK'
    <3>1. booked[s] \in Bookings
      BY <1>2, <2>2 DEF CancelSlot, ScheduleTypeOK, NoSlot
    <3>2. [booked[s] EXCEPT !.status = "cancelled"] \in Bookings
      BY <3>1 DEF Bookings
    <3> QED
      BY <1>2, <2>2, <3>2 DEF CancelSlot, ScheduleTypeOK
  <2>3. CASE UNCHANGED booked
    BY <1>2, <2>3 DEF ScheduleTypeOK
  <2> QED
    BY <1>2, <2>1, <2>2, <2>3 DEF ScheduleNext
<1> QED
  BY <1>1, <1>2, PTL DEF ScheduleSpec

\* The lengths and limits of the policy.
LEMMA ScheduleNumbers ==
  /\ DayLength \in Nat /\ OperatingFrom \in Nat /\ OperatingTo \in Nat /\ MaxPassage \in Nat
  /\ Days \in Nat /\ Buffer \in Nat /\ OperatingFrom < OperatingTo
  /\ OperatingTo <= DayLength /\ MaxPassage > 0 /\ Days * DayLength \in Nat
BY ScheduleAssumption DEF ValidPolicy

LEMMA ActiveBookings ==
  ASSUME ScheduleTypeOK, NEW chamber \in Chambers
  PROVE  /\ IsFiniteSet(Active(chamber))
         /\ \A r \in Active(chamber) :
              r.from \in Nat /\ r.to \in Nat /\ r.from < r.to /\ r.to <= Days * DayLength
<1> DEFINE A == {t \in Slots : booked[t].status = "confirmed" /\ booked[t].chamber = chamber}
<1>1. IsFiniteSet(A)
  BY ScheduleAssumption, FS_Subset
<1>2. IsFiniteSet({booked[s] : s \in A})
  <2> HIDE DEF A
  <2> QED
    BY <1>1, FiniteImage
<1>3. \A s \in A : booked[s] \in Bookings
  BY DEF ScheduleTypeOK, NoSlot
<1>4. Active(chamber) = {booked[s] : s \in A}
  BY DEF Active
<1> HIDE DEF A
<1>5. \A r \in Active(chamber) : r \in Bookings
  BY <1>3, <1>4
<1> QED
  BY <1>2, <1>4, <1>5, ScheduleNumbers DEF Bookings, Times

Closed(chamber) ==
  {Window(r.from - Buffer, r.to + Buffer) : r \in Active(chamber)} \cup Maintenance[chamber]

\* The windows that are closed to a passage are finitely many and proper.
LEMMA ClosedWindows ==
  ASSUME ScheduleTypeOK, NEW chamber \in Chambers
  PROVE  /\ Closed(chamber) \in SUBSET Windows /\ IsFiniteSet(Closed(chamber))
         /\ \A w \in Closed(chamber) : Proper(w)
<1> DEFINE B == {Window(r.from - Buffer, r.to + Buffer) : r \in Active(chamber)}
<1>1. IsFiniteSet(B)
  <2> DEFINE f == [r \in Active(chamber) |-> Window(r.from - Buffer, r.to + Buffer)]
  <2>1. B = {f[r] : r \in Active(chamber)}
    OBVIOUS
  <2>2. IsFiniteSet(Active(chamber))
    BY ActiveBookings
  <2> HIDE DEF B, f
  <2> QED
    BY <2>1, <2>2, FiniteImage
<1>2. \A w \in B : w \in Windows /\ Proper(w)
  BY ActiveBookings, ScheduleNumbers DEF Window, Windows, Proper
<1>3. /\ IsFiniteSet(Maintenance[chamber])
      /\ \A w \in Maintenance[chamber] : w \in Windows /\ Proper(w)
  BY ScheduleAssumption DEF Windows, Proper
<1>4. Closed(chamber) = B \cup Maintenance[chamber]
  BY DEF Closed
<1> HIDE DEF B
<1>5. IsFiniteSet(Closed(chamber))
  BY <1>1, <1>3, <1>4, FS_Union
<1> QED
  BY <1>2, <1>3, <1>4, <1>5

LEMMA OperatingHours ==
  ASSUME NEW day \in Nat
  PROVE  LET base == DailyOperatingWindow(day) IN
         /\ base \in Windows /\ Proper(base) /\ day * DayLength \in Nat
         /\ base.from = day * DayLength + OperatingFrom
         /\ base.to = day * DayLength + OperatingTo
<1>1. day * DayLength \in Nat
  BY ScheduleNumbers
<1> DEFINE start == day * DayLength
<1> HIDE DEF start
<1> QED
  BY <1>1, ScheduleNumbers DEF DailyOperatingWindow, Window, Windows, Proper, start

\* The windows of a day are exactly its room: in order and apart, inside the
\* operating hours, and a slot is inside one of them if it keeps the buffer.
LEMMA AvailableRoom ==
  ASSUME ScheduleTypeOK, NEW chamber \in Chambers, NEW day \in Nat, NEW d \in Nat \ {0}
  PROVE  LET a == AvailableWindows(chamber, day, d)
             base == DailyOperatingWindow(day)
         IN /\ RoomUpTo(a, base, d, base.to + 1)
            /\ \A f \in Int :
                 KeepsBuffer(chamber, day, f, f + d) <=>
                   base.from <= f /\ f + d <= base.to /\ FitsInto(a, f, d)
<1> DEFINE base == DailyOperatingWindow(day)
           a == AvailableWindows(chamber, day, d)
<1>1. base \in Windows /\ Proper(base)
  BY OperatingHours
<1>2. a = SubtractWindows(base, Closed(chamber), d)
  BY DEF AvailableWindows, Closed
<1> HIDE DEF a, base
<1>3. /\ RoomUpTo(a, base, d, base.to + 1)
      /\ \A f \in Int : base.from <= f /\ f + d <= base.to =>
           (FitsInto(a, f, d) <=> \A w \in Closed(chamber) : ~Overlaps(Window(f, f + d), w))
  BY <1>1, <1>2, ClosedWindows, SubtractExact
<1>4. \A f \in Int : KeepsBuffer(chamber, day, f, f + d) <=>
        /\ base.from <= f /\ f + d <= base.to
        /\ \A w \in Closed(chamber) : ~Overlaps(Window(f, f + d), w)
  BY DEF KeepsBuffer, Closed, base
<1> QED
  BY <1>3, <1>4 DEF a, base

\* The windows that AvailableWindows returns are exactly where a passage fits,
\* whatever is booked and for every policy that Validate accepts.
THEOREM AvailabilityIsExact == ScheduleSpec => []AvailableExact
<1>1. ASSUME ScheduleTypeOK
      PROVE  AvailableExact
  <2> SUFFICES ASSUME NEW chamber \in Chambers, NEW day \in DaysAhead, NEW d \in Durations
               PROVE  LET a == AvailableWindows(chamber, day, d)
                          base == DailyOperatingWindow(day)
                      IN /\ \A f \in base.from .. base.to - d :
                              KeepsBuffer(chamber, day, f, f + d) <=>
                                \E n \in DOMAIN a : a[n].from <= f /\ f + d <= a[n].to
                         /\ \A n \in DOMAIN a : n > 1 => a[n - 1].to < a[n].from
    BY DEF AvailableExact
  <2> DEFINE a == AvailableWindows(chamber, day, d)
             base == DailyOperatingWindow(day)
  <2>1. day \in Nat /\ d \in Nat \ {0}
    BY ScheduleNumbers DEF DaysAhead, Durations
  <2>2. base.from \in Int /\ base.to \in Int
    BY <2>1, OperatingHours DEF Windows
  <2>3. /\ RoomUpTo(a, base, d, base.to + 1)
        /\ \A f \in Int :
             KeepsBuffer(chamber, day, f, f + d) <=>
               base.from <= f /\ f + d <= base.to /\ FitsInto(a, f, d)
    BY <1>1, <2>1, AvailableRoom
  <2> HIDE DEF a, base
  <2>4. DOMAIN a = 1 .. Len(a) /\ Len(a) \in Nat
    BY <2>3 DEF RoomUpTo
  <2>5. ASSUME NEW f \in base.from .. base.to - d
        PROVE  KeepsBuffer(chamber, day, f, f + d) <=>
                 \E n \in DOMAIN a : a[n].from <= f /\ f + d <= a[n].to
    <3>1. f \in Int /\ base.from <= f /\ f + d <= base.to
      BY <2>1, <2>2
    <3> QED
      BY <2>3, <2>4, <3>1 DEF FitsInto
  <2>6. ASSUME NEW n \in DOMAIN a, n > 1
        PROVE  a[n - 1].to < a[n].from
    <3>1. n \in 1 .. Len(a) /\ n - 1 \in 1 .. Len(a) /\ n - 1 < n
      BY <2>4, <2>6
    <3> QED
      BY <2>3, <3>1 DEF RoomUpTo
  <2> QED
    BY <2>5, <2>6 DEF a, base
<1> QED
  BY <1>1, ScheduleTypeCorrect, PTL

(***************************************************************************)
(* Ranking: the first room of the first day that has any.                  *)
(***************************************************************************)
FirstStart(chamber, day, earliest, d) ==
  Later(AvailableWindows(chamber, day, d)[Min(Candidates(chamber, day, earliest, d))].from,
        earliest)

\* On a day with candidates the first of them gives the first start of the
\* day that keeps the buffer; on a day without there is none.
LEMMA FirstOfDay ==
  ASSUME ScheduleTypeOK, NEW chamber \in Chambers, NEW day \in Nat, NEW d \in Nat \ {0},
         NEW earliest \in Nat
  PROVE  LET s == FirstStart(chamber, day, earliest, d)
             starts == {t \in Int : earliest <= t /\ KeepsBuffer(chamber, day, t, t + d)}
         IN IF Candidates(chamber, day, earliest, d) = {} THEN starts = {}
            ELSE s \in starts /\ \A t \in starts : s <= t
<1> DEFINE a == AvailableWindows(chamber, day, d)
           base == DailyOperatingWindow(day)
           C == Candidates(chamber, day, earliest, d)
           starts == {t \in Int : earliest <= t /\ KeepsBuffer(chamber, day, t, t + d)}
<1>1. base.from \in Int /\ base.to \in Int
  BY OperatingHours DEF Windows
<1>2. C = {n \in DOMAIN a : Later(a[n].from, earliest) + d <= a[n].to}
  BY DEF Candidates
<1>3. /\ RoomUpTo(a, base, d, base.to + 1)
      /\ \A f \in Int :
           KeepsBuffer(chamber, day, f, f + d) <=>
             base.from <= f /\ f + d <= base.to /\ FitsInto(a, f, d)
  BY AvailableRoom
<1> HIDE DEF a, base, C
<1>4. /\ DOMAIN a = 1 .. Len(a) /\ Len(a) \in Nat
      /\ \A n \in 1 .. Len(a) : a[n].from \in Int /\ a[n].to \in Int
  <2>1. a \in Seq(Windows)
    BY <1>3 DEF RoomUpTo
  <2> QED
    BY <2>1, ListedWindows
<1>5. \A n \in 1 .. Len(a) : base.from <= a[n].from /\ a[n].to <= base.to
  <2>1. \A n \in 1 .. Len(a) : base.from <= a[n].from /\ a[n].to < base.to + 1
    BY <1>3 DEF RoomUpTo
  <2> QED
    BY <1>1, <1>4, <2>1
<1>6. ASSUME NEW t \in starts
      PROVE  \E n \in C : Later(a[n].from, earliest) <= t /\ t < a[n].to
  <2>1. t \in Int /\ earliest <= t /\ FitsInto(a, t, d)
    BY <1>3
  <2>2. PICK n \in 1 .. Len(a) : a[n].from <= t /\ t + d <= a[n].to
    BY <2>1 DEF FitsInto
  <2>3. Later(a[n].from, earliest) <= t /\ Later(a[n].from, earliest) \in Int
    BY <1>4, <2>1, <2>2 DEF Later
  <2>4. Later(a[n].from, earliest) + d <= a[n].to /\ t < a[n].to
    BY <1>4, <2>1, <2>2, <2>3
  <2> QED
    BY <1>2, <1>4, <2>3, <2>4
<1>7. ASSUME NEW n \in C
      PROVE  /\ Later(a[n].from, earliest) \in starts
             /\ a[n].from <= Later(a[n].from, earliest)
             /\ Later(a[n].from, earliest) < a[n].to
  <2> DEFINE s == Later(a[n].from, earliest)
  <2>1. n \in 1 .. Len(a) /\ s + d <= a[n].to
    BY <1>2, <1>4
  <2>2. s \in Int /\ a[n].from <= s /\ earliest <= s
    BY <1>4, <2>1 DEF Later
  <2> HIDE DEF s
  <2>3. base.from <= s /\ s + d <= base.to /\ s < a[n].to
    BY <1>1, <1>4, <1>5, <2>1, <2>2
  <2>4. FitsInto(a, s, d)
    BY <2>1, <2>2 DEF FitsInto
  <2>5. KeepsBuffer(chamber, day, s, s + d)
    BY <1>3, <2>2, <2>3, <2>4
  <2> QED
    BY <2>2, <2>3, <2>5 DEF s
<1>8. CASE C = {}
  BY <1>6, <1>8 DEF C
<1>9. CASE C # {}
  <2> DEFINE n == Min(C)
             s == Later(a[n].from, earliest)
  <2>1. C \in SUBSET Nat
    BY <1>2, <1>4
  <2>2. n \in C /\ \A y \in C : n <= y
    BY <1>9, <2>1, MinOfNumbers
  <2> HIDE DEF n
  <2>3. s \in starts
    BY <1>7, <2>2
  <2>4. ASSUME NEW t \in starts
        PROVE  s <= t
    <3>1. PICK i \in C : Later(a[i].from, earliest) <= t /\ t < a[i].to
      BY <1>6
    <3>2. n \in 1 .. Len(a) /\ i \in 1 .. Len(a) /\ n <= i
      BY <1>2, <1>4, <2>2
    <3>3. CASE i = n
      BY <3>1, <3>3
    <3>4. CASE i # n
      <4>1. n < i
        BY <1>4, <3>2, <3>4
      <4>2. a[n].to < a[i].from
        BY <1>3, <3>2, <4>1 DEF RoomUpTo
      <4>3. s < a[n].to /\ s \in Int /\ t \in Int
        BY <1>7, <2>2
      <4>4. a[i].from <= t
        BY <1>4, <3>1, <3>2, <4>3 DEF Later
      <4> HIDE DEF s
      <4> QED
        BY <1>4, <3>2, <4>2, <4>3, <4>4
    <3> QED
      BY <3>3, <3>4
  <2>5. s = FirstStart(chamber, day, earliest, d)
    BY DEF FirstStart, n, a, C
  <2> HIDE DEF s
  <2> QED
    BY <1>9, <2>3, <2>4, <2>5 DEF C
<1> QED
  BY <1>8, <1>9

\* Whole days are in order.
LEMMA DaysInOrder ==
  ASSUME NEW i \in Nat, NEW j \in Nat, i < j
  PROVE  i * DayLength + DayLength <= j * DayLength
<1>1. \A l \in Nat : i * l + l <= j * l
  <2> SUFFICES ASSUME NEW l \in Nat PROVE i * l + l <= j * l
    OBVIOUS
  <2>1. PICK k \in Nat : j = i + 1 + k
    <3>1. j - i - 1 \in Nat /\ j = i + 1 + (j - i - 1)
      OBVIOUS
    <3> QED
      BY <3>1
  <2>2. j * l = i * l + l + k * l
    BY <2>1
  <2>3. i * l \in Nat /\ k * l \in Nat
    OBVIOUS
  <2> QED
    BY <2>2, <2>3
<1> QED
  BY <1>1, ScheduleNumbers

\* The candidate that RankSlotCandidates offers for a chamber is its first
\* start after the wish that keeps the buffer, on any day ahead, and it offers
\* none only where there is none, whatever is booked.
THEOREM RankingIsFirst == ScheduleSpec => []RankedFirst
<1>1. ASSUME ScheduleTypeOK
      PROVE  RankedFirst
  <2> SUFFICES ASSUME NEW earliest \in 0 .. DayLength - 1, NEW d \in Durations,
                      NEW chamber \in Fitting
               PROVE  LET starts == {t \in earliest .. Days * DayLength :
                                       \E day \in DaysAhead :
                                         KeepsBuffer(chamber, day, t, t + d)}
                          offered == {c.start : c \in {x \in RankSlotCandidates(earliest, d) :
                                                         x.chamber = chamber}}
                      IN offered = IF starts = {} THEN {} ELSE {Min(starts)}
    BY DEF RankedFirst
  <2> DEFINE starts == {t \in earliest .. Days * DayLength :
                          \E day \in DaysAhead : KeepsBuffer(chamber, day, t, t + d)}
             offered == {c.start : c \in {x \in RankSlotCandidates(earliest, d) :
                                            x.chamber = chamber}}
             days == {day \in DaysAhead : Candidates(chamber, day, earliest, d) # {}}
             On(day) == {t \in Int : earliest <= t /\ KeepsBuffer(chamber, day, t, t + d)}
             First(day) == FirstStart(chamber, day, earliest, d)
  <2>1. /\ earliest \in Nat /\ d \in Nat \ {0} /\ chamber \in Chambers
        /\ DaysAhead \in SUBSET Nat /\ \A day \in DaysAhead : day < Days
    BY ScheduleAssumption, ScheduleNumbers DEF Durations, DaysAhead
  <2>2. offered = IF days = {} THEN {} ELSE {First(Min(days))}
    <3> DEFINE R(c) == RankChamber(c, earliest, d)
    <3>1. earliest \div DayLength = 0
      BY ScheduleNumbers
    <3>2. R(chamber) = IF days = {} THEN {}
                       ELSE {[chamber |-> chamber, start |-> First(Min(days))]}
      <4> DEFINE first == earliest \div DayLength
                 ahead == {day \in first .. first + Days - 1 :
                             Candidates(chamber, day, earliest, d) # {}}
      <4>1. first .. first + Days - 1 = DaysAhead
        BY <3>1, ScheduleNumbers DEF DaysAhead
      <4>2. ahead = days
        <5> HIDE DEF first
        <5> QED
          BY <4>1
      <4>3. R(chamber) = IF ahead = {} THEN {}
                         ELSE {[chamber |-> chamber, start |-> First(Min(ahead))]}
        BY DEF RankChamber, FirstStart
      <4> HIDE DEF ahead, days, R, First
      <4> QED
        BY <4>2, <4>3
    <3>3. \A c \in Fitting : \A x \in R(c) : x.chamber = c
      BY DEF RankChamber
    <3>4. {x \in RankSlotCandidates(earliest, d) : x.chamber = chamber} = R(chamber)
      <4> HIDE DEF R
      <4> QED
        BY <3>3 DEF RankSlotCandidates, R
    <3>5. offered = {c.start : c \in R(chamber)}
      BY <3>4
    <3> HIDE DEF R, days, First, offered
    <3>6. CASE days = {}
      BY <3>2, <3>5, <3>6
    <3>7. CASE days # {}
      <4> DEFINE r == [chamber |-> chamber, start |-> First(Min(days))]
      <4>1. r.start = First(Min(days))
        OBVIOUS
      <4> HIDE DEF r
      <4>2. R(chamber) = {r}
        BY <3>2, <3>7 DEF r
      <4> QED
        BY <3>5, <3>7, <4>1, <4>2
    <3> QED
      BY <3>6, <3>7
  <2>3. \A day \in DaysAhead :
          IF Candidates(chamber, day, earliest, d) = {} THEN On(day) = {}
          ELSE First(day) \in On(day) /\ \A t \in On(day) : First(day) <= t
    BY <1>1, <2>1, FirstOfDay
  <2>4. ASSUME NEW day \in DaysAhead, NEW t \in On(day)
        PROVE  /\ t \in Nat /\ day * DayLength \in Nat
               /\ day * DayLength <= t /\ t < day * DayLength + DayLength
               /\ t <= Days * DayLength /\ t \in starts
    <3>1. /\ t \in Int /\ earliest <= t
          /\ DailyOperatingWindow(day).from <= t /\ t + d <= DailyOperatingWindow(day).to
          /\ KeepsBuffer(chamber, day, t, t + d)
      BY DEF KeepsBuffer
    <3> DEFINE s == day * DayLength
    <3>2. /\ s \in Nat /\ DailyOperatingWindow(day).from = s + OperatingFrom
          /\ DailyOperatingWindow(day).to = s + OperatingTo
      BY <2>1, OperatingHours
    <3>3. s + DayLength <= Days * DayLength
      BY <2>1, ScheduleNumbers, DaysInOrder
    <3> HIDE DEF s
    <3>4. t \in Nat /\ s <= t /\ t < s + DayLength /\ t <= Days * DayLength
      BY <2>1, <3>1, <3>2, <3>3, ScheduleNumbers
    <3>5. t \in earliest .. Days * DayLength
      BY <2>1, <3>1, <3>4, ScheduleNumbers
    <3> QED
      BY <3>1, <3>2, <3>4, <3>5 DEF s
  <2>5. ASSUME NEW t \in starts
        PROVE  \E day \in days : t \in On(day)
    <3>1. PICK day \in DaysAhead : KeepsBuffer(chamber, day, t, t + d)
      OBVIOUS
    <3>2. t \in On(day)
      BY <2>1, <3>1
    <3> HIDE DEF On
    <3> QED
      BY <2>3, <3>2
  <2>6. CASE days = {}
    BY <2>2, <2>5, <2>6
  <2>7. CASE days # {}
    <3> DEFINE day == Min(days)
               s == First(day)
    <3>1. day \in days /\ \A y \in days : day <= y
      <4>1. days \in SUBSET Nat
        BY <2>1
      <4> HIDE DEF days
      <4> QED
        BY <2>7, <4>1, MinOfNumbers
    <3> HIDE DEF day
    <3>2. day \in DaysAhead /\ s \in On(day) /\ \A t \in On(day) : s <= t
      <4> HIDE DEF On, First
      <4> QED
        BY <2>3, <3>1
    <3>3. s \in starts /\ s \in Nat
      <4> HIDE DEF On, First, starts
      <4> QED
        BY <2>4, <3>2
    <3>4. ASSUME NEW t \in starts
          PROVE  s <= t
      <4>1. PICK other \in days : t \in On(other)
        BY <2>5
      <4>2. other \in DaysAhead /\ day <= other /\ other \in Nat /\ day \in Nat
        BY <2>1, <3>1, <3>2
      <4> HIDE DEF On, First, starts, days
      <4>3. CASE other = day
        BY <3>2, <4>1, <4>3
      <4>4. CASE other # day
        <5>1. day < other
          BY <4>2, <4>4
        <5>2. day * DayLength + DayLength <= other * DayLength
          BY <4>2, <5>1, DaysInOrder
        <5>3. s < day * DayLength + DayLength /\ s \in Nat /\ day * DayLength \in Nat
          BY <2>4, <3>2
        <5>4. other * DayLength <= t /\ t \in Nat /\ other * DayLength \in Nat
          BY <2>4, <4>1, <4>2
        <5> DEFINE x == day * DayLength
                   y == other * DayLength
        <5> HIDE DEF x, y, s
        <5>5. s < x + DayLength /\ x + DayLength <= y /\ y <= t /\ x \in Nat /\ y \in Nat
          BY <5>2, <5>3, <5>4 DEF x, y
        <5> QED
          BY <3>3, <5>4, <5>5, ScheduleNumbers
      <4> QED
        BY <4>3, <4>4
    <3> HIDE DEF s, starts
    <3>5. starts \in SUBSET Nat
      BY <2>1 DEF starts
    <3>6. Min(starts) = s
      <4>1. Min(starts) \in starts /\ \A y \in starts : Min(starts) <= y
        BY <3>3, <3>5, MinOfNumbers
      <4> DEFINE m == Min(starts)
      <4>2. m \in Nat /\ s \in Nat /\ s <= m /\ m <= s
        <5>1. m \in starts /\ m <= s
          BY <3>3, <4>1
        <5> HIDE DEF m
        <5> QED
          BY <3>3, <3>4, <3>5, <5>1
      <4> HIDE DEF m
      <4>3. m = s
        BY <4>2
      <4> QED
        BY <4>3 DEF m
    <3> HIDE DEF offered, days
    <3>7. starts # {} /\ offered = {s}
      BY <2>2, <2>7, <3>3 DEF s, day
    <3> QED
      BY <3>6, <3>7 DEF starts, offered
  <2> QED
    BY <2>6, <2>7
<1> QED
  BY <1>1, ScheduleTypeCorrect, PTL

-----------------------------------------------------------------------------
(***************************************************************************)
(* The time the passages take of a window.                                 *)
(***************************************************************************)
SumsInTurn(h, m, n) ==
  h[0] = 0 /\ \A k \in 1 .. n : h[k] = AddLength(h[k - 1], m[k])

\* The time counted after each merged window.
LEMMA SumFold ==
  ASSUME NEW n \in Nat, NEW seq \in [1 .. n -> Windows]
  PROVE  \E h : /\ SumsInTurn(h, seq, n)
                /\ FoldLeft(AddLength, 0, seq) = h[n]
<1> DEFINE Op == [p \in Int \X Windows |-> AddLength(p[1], p[2])]
           Solves(g) == g = [s \in SUBSET DOMAIN seq |->
                               IF s = {} THEN 0
                               ELSE AddLength(g[s \ {Max(s)}], seq[Max(s)])]
           g == CHOOSE f : Solves(f)
           h == [k \in 0 .. n |-> g[1 .. k]]
<1>1. \A a \in Int, w \in Windows : Op[<<a, w>>] = AddLength(a, w)
  OBVIOUS
<1>2. Op \in [Int \X Windows -> Int]
  <2>1. \A a \in Int, w \in Windows : AddLength(a, w) \in Int
    BY DEF Windows, AddLength
  <2> QED
    BY <2>1
<1> HIDE DEF Op
<1>3. PICK f \in [SUBSET (1 .. n) -> Int] :
        /\ f[{}] = 0
        /\ \A s \in SUBSET (1 .. n) :
             s # {} => f[s] = Op[<<f[s \ {Max(s)}], seq[Max(s)]>>]
  <2> DEFINE A == Int
             zero == 0
  <2>1. zero \in A /\ Op \in [A \X Windows -> A]
    BY <1>2
  <2> HIDE DEF A, zero
  <2>2. FoldSolved(n, A, zero, seq, Op)
    BY <2>1, FoldExists
  <2> QED
    BY <2>2 DEF FoldSolved, A, zero
<1>4. ASSUME NEW s \in SUBSET (1 .. n), s # {}
      PROVE  f[s] = AddLength(f[s \ {Max(s)}], seq[Max(s)])
  <2>1. Max(s) \in s
    BY <1>4, MaxOfPlaces
  <2>2. seq[Max(s)] \in Windows /\ f[s \ {Max(s)}] \in Int
    BY <2>1
  <2> QED
    BY <1>1, <1>3, <1>4, <2>2
<1>5. Solves(f)
  <2>1. DOMAIN seq = 1 .. n
    OBVIOUS
  <2> QED
    BY <1>3, <1>4, <2>1
<1>6. Solves(g)
  BY <1>5
<1>7. FoldLeft(AddLength, 0, seq) = g[1 .. n]
  BY DEF FoldLeft, MapThenFoldSet
<1> HIDE DEF g
<1>8. h[0] = 0
  <2>1. 1 .. 0 = {}
    OBVIOUS
  <2> QED
    BY <1>6, <2>1
<1>9. ASSUME NEW k \in 1 .. n
      PROVE  h[k] = AddLength(h[k - 1], seq[k])
  <2>1. 1 .. k \in SUBSET (1 .. n) /\ k \in Nat \ {0} /\ k - 1 \in 0 .. n /\ k \in 0 .. n
    OBVIOUS
  <2>2. 1 .. k # {} /\ Max(1 .. k) = k /\ (1 .. k) \ {k} = 1 .. k - 1
    BY <2>1, LastPlace
  <2>3. g[1 .. k] = AddLength(g[1 .. k - 1], seq[k])
    BY <1>6, <2>1, <2>2
  <2> QED
    BY <2>1, <2>3
<1>10. h[n] = g[1 .. n]
  OBVIOUS
<1> HIDE DEF h
<1> QED
  BY <1>7, <1>8, <1>9, <1>10 DEF SumsInTurn

\* Windows apart from each other last as long as the instants they cover.
LEMMA SumExact ==
  ASSUME NEW m \in Seq(Windows), Apart(m), NEW h, SumsInTurn(h, m, Len(m))
  PROVE  h[Len(m)] = Cardinality({t \in Int : Covers(m, Len(m), t)})
<1> DEFINE n == Len(m)
           T(k) == {t \in Int : Covers(m, k, t)}
           P == {k \in Nat : k <= n => IsFiniteSet(T(k)) /\ Cardinality(T(k)) = h[k]}
<1>1. n \in Nat
  OBVIOUS
<1>2. 0 \in P
  <2>1. T(0) = {}
    BY DEF Covers
  <2>2. h[0] = 0
    BY DEF SumsInTurn
  <2> HIDE DEF T
  <2> QED
    BY <2>1, <2>2, FS_EmptySet
<1>3. ASSUME NEW k \in Nat, k \in P
      PROVE  k + 1 \in P
  <2> SUFFICES ASSUME k + 1 <= n
               PROVE  IsFiniteSet(T(k + 1)) /\ Cardinality(T(k + 1)) = h[k + 1]
    OBVIOUS
  <2> DEFINE w == m[k + 1]
             I == w.from .. w.to - 1
  <2>1. IsFiniteSet(T(k)) /\ Cardinality(T(k)) = h[k]
    BY <1>1, <1>3
  <2>2. k + 1 \in 1 .. n /\ (k + 1) - 1 = k /\ 1 .. k \subseteq 1 .. n
    BY <1>1
  <2>3. h[k + 1] = h[k] + (w.to - w.from)
    BY <2>2 DEF SumsInTurn, AddLength
  <2>4. w.from \in Int /\ w.to \in Int /\ w.from < w.to
    BY <2>2, ListedWindows DEF Apart, Proper
  <2> HIDE DEF w
  <2>5. IsFiniteSet(I) /\ Cardinality(I) = w.to - w.from
    <3> DEFINE a == w.from
               b == w.to - 1
    <3>1. a \in Int /\ b \in Int /\ ~(a > b) /\ b - a + 1 = w.to - w.from
      BY <2>4
    <3> HIDE DEF a, b
    <3>2. IsFiniteSet(a .. b) /\ Cardinality(a .. b) = b - a + 1
      BY <3>1, FS_Interval
    <3> QED
      BY <3>1, <3>2 DEF a, b
  <2>6. T(k + 1) = T(k) \cup I
    <3>1. \A i \in 1 .. k + 1 : i \in 1 .. k \/ i = k + 1
      OBVIOUS
    <3>2. 1 .. k \subseteq 1 .. k + 1 /\ k + 1 \in 1 .. k + 1
      OBVIOUS
    <3>3. \A t \in Int : Covers(m, k + 1, t) <=> Covers(m, k, t) \/ Spans(w, t)
      BY <3>1, <3>2 DEF Covers, w
    <3>4. \A t \in Int : Spans(w, t) <=> t \in I
      BY <2>4 DEF Spans
    <3>5. I \subseteq Int
      BY <2>4
    <3> HIDE DEF I
    <3> QED
      BY <3>3, <3>4, <3>5
  <2>7. T(k) \cap I = {}
    <3> SUFFICES ASSUME NEW t \in T(k), t \in I
                 PROVE  FALSE
      OBVIOUS
    <3>1. PICK i \in 1 .. k : Spans(m[i], t)
      BY DEF Covers
    <3>2. i \in 1 .. n /\ i < k + 1
      BY <2>2
    <3>3. m[i].to < w.from
      BY <2>2, <3>2 DEF Apart, w
    <3>4. m[i].to \in Int
      BY <3>2, ListedWindows
    <3> QED
      BY <2>4, <3>1, <3>3, <3>4 DEF Spans
  <2> HIDE DEF T, I
  <2>8. /\ IsFiniteSet(T(k) \cup I)
        /\ Cardinality(T(k) \cup I) = Cardinality(T(k)) + Cardinality(I) - 0
    BY <2>1, <2>5, <2>7, FS_Union, FS_EmptySet
  <2>9. Cardinality(T(k)) \in Nat /\ Cardinality(I) \in Nat
    BY <2>1, <2>5, FS_CardinalityType
  <2>10. Cardinality(T(k) \cup I) = h[k] + (w.to - w.from)
    BY <2>1, <2>5, <2>8, <2>9
  <2> QED
    BY <2>3, <2>6, <2>8, <2>10
<1> HIDE DEF P
<1>4. n \in P
  BY <1>1, <1>2, <1>3, Induction
<1> QED
  BY <1>1, <1>4 DEF P

\* What is clipped of a passage that overlaps a window is what they share.
LEMMA ClipExact ==
  ASSUME NEW p \in Windows, Proper(p), NEW window \in Windows, Proper(window)
  PROVE  /\ Clip(p, window) \in Windows
         /\ Overlaps(p, window) => Proper(Clip(p, window))
         /\ \A t \in Int : /\ Spans(Clip(p, window), t) <=> Spans(p, t) /\ Spans(window, t)
                           /\ Spans(p, t) /\ Spans(window, t) => Overlaps(p, window)
<1>1. /\ p.from \in Int /\ p.to \in Int /\ p.from < p.to
      /\ window.from \in Int /\ window.to \in Int /\ window.from < window.to
  BY DEF Windows, Proper
<1> DEFINE c == Clip(p, window)
<1>2. /\ c \in Windows /\ c.from = Later(p.from, window.from)
      /\ c.to = Earlier(p.to, window.to)
  BY <1>1 DEF Clip, Window, Windows, Later, Earlier
<1> HIDE DEF c
<1>3. Overlaps(p, window) => Proper(c)
  BY <1>1, <1>2 DEF Overlaps, Proper, Later, Earlier
<1>4. \A t \in Int : /\ Spans(c, t) <=> Spans(p, t) /\ Spans(window, t)
                     /\ Spans(p, t) /\ Spans(window, t) => Overlaps(p, window)
  BY <1>1, <1>2 DEF Spans, Overlaps, Later, Earlier
<1> QED
  BY <1>2, <1>3, <1>4 DEF c

\* The utilization counts each instant of a window that a passage takes once
\* and no other, whatever is booked.
THEOREM UtilizationIsExact == ScheduleSpec => []UtilizationExact
<1>1. ASSUME ScheduleTypeOK
      PROVE  UtilizationExact
  <2> SUFFICES ASSUME NEW chamber \in Chambers, NEW from \in Times,
                      NEW length \in {1, MaxPassage, DayLength}
               PROVE  OccupiedTime(chamber, Window(from, from + length)) =
                        Cardinality({t \in from .. from + length - 1 :
                          \E r \in Active(chamber) : r.from <= t /\ t < r.to})
    BY DEF UtilizationExact
  <2> DEFINE window == Window(from, from + length)
             F == [r \in Active(chamber) |-> Window(r.from, r.to)]
             passages == {Window(r.from, r.to) : r \in Active(chamber)}
             hit == {p \in passages : Overlaps(p, window)}
             G == [p \in hit |-> Clip(p, window)]
             clipped == {Clip(p, window) : p \in hit}
             m == MergeWindows(clipped)
             taken == {t \in from .. from + length - 1 :
                         \E r \in Active(chamber) : r.from <= t /\ t < r.to}
  <2>1. from \in Nat /\ length \in Nat /\ length > 0
    BY ScheduleNumbers DEF Times
  <2>2. window \in Windows /\ Proper(window) /\ window.from = from /\ window.to = from + length
    BY <2>1 DEF Windows, Window, Proper
  <2>3. /\ IsFiniteSet(Active(chamber))
        /\ \A r \in Active(chamber) : r.from \in Nat /\ r.to \in Nat /\ r.from < r.to
    BY <1>1, ActiveBookings
  <2>4. passages \in SUBSET Windows /\ \A p \in passages : Proper(p)
    BY <2>3 DEF Windows, Window, Proper
  <2>5. IsFiniteSet(passages)
    <3>1. passages = {F[r] : r \in Active(chamber)}
      OBVIOUS
    <3> HIDE DEF F, passages
    <3> QED
      BY <2>3, <3>1, FiniteImage
  <2>6. \A t \in Int : (\E p \in passages : Spans(p, t)) <=>
                         \E r \in Active(chamber) : r.from <= t /\ t < r.to
    <3>1. \A r : Window(r.from, r.to).from = r.from /\ Window(r.from, r.to).to = r.to
      BY DEF Window
    <3> QED
      BY <3>1 DEF Spans
  <2> HIDE DEF window, passages
  <2>7. clipped \in SUBSET Windows /\ \A c \in clipped : Proper(c)
    BY <2>2, <2>4, ClipExact
  <2>8. IsFiniteSet(clipped)
    <3>1. IsFiniteSet(hit)
      BY <2>5, FS_Subset
    <3>2. clipped = {G[p] : p \in hit}
      OBVIOUS
    <3> HIDE DEF G, clipped, hit
    <3> QED
      BY <3>1, <3>2, FiniteImage
  <2>9. \A t \in Int : (\E c \in clipped : Spans(c, t)) <=>
                         Spans(window, t) /\ \E p \in passages : Spans(p, t)
    BY <2>2, <2>4, ClipExact
  <2> HIDE DEF clipped
  <2>10. /\ m \in Seq(Windows) /\ Apart(m)
         /\ \A t \in Int : Covers(m, Len(m), t) <=> \E c \in clipped : Spans(c, t)
    BY <2>7, <2>8, MergeExact
  <2> HIDE DEF m
  <2>11. taken = {t \in Int : Covers(m, Len(m), t)}
    <3>1. \A t \in Int : Spans(window, t) <=> t \in from .. from + length - 1
      BY <2>1, <2>2 DEF Spans
    <3>2. from .. from + length - 1 \subseteq Int
      BY <2>1
    <3> QED
      BY <2>6, <2>9, <2>10, <3>1, <3>2
  <2>12. m \in [1 .. Len(m) -> Windows] /\ Len(m) \in Nat
    BY <2>10
  <2>13. PICK h : /\ SumsInTurn(h, m, Len(m))
                  /\ FoldLeft(AddLength, 0, m) = h[Len(m)]
    BY <2>12, SumFold
  <2>14. FoldLeft(AddLength, 0, m) = Cardinality(taken)
    BY <2>10, <2>11, <2>13, SumExact
  <2>15. OccupiedTime(chamber, window) =
           FoldLeft(AddLength, 0, m)
    BY DEF OccupiedTime, m, clipped, passages
  <2> QED
    BY <2>14, <2>15 DEF window
<1> QED
  BY <1>1, ScheduleTypeCorrect, PTL

-----------------------------------------------------------------------------
(***************************************************************************)
(* NextAvailable.                                                          *)
(***************************************************************************)
PassStates == [candidate : Int, found : BOOLEAN]
PassesInTurn(h, earliest, d, seq, n) ==
  /\ h[0] = [candidate |-> earliest, found |-> FALSE]
  /\ \A k \in 1 .. n : h[k] = Pass(d, h[k - 1], seq[k])

\* A step of the search: it has found its slot and stays, or moves behind the
\* window.
LEMMA PassCases ==
  ASSUME NEW d \in Int, NEW st \in PassStates, NEW w \in Windows
  PROVE  LET r == Pass(d, st, w) IN
         /\ r \in PassStates /\ st.candidate \in Int /\ st.found \in BOOLEAN
         /\ IF st.found \/ st.candidate + d <= w.from
              THEN r.found /\ r.candidate = st.candidate
              ELSE ~r.found /\ r.candidate = Later(st.candidate, w.to)
<1>1. st.candidate \in Int /\ st.found \in BOOLEAN /\ w.from \in Int /\ w.to \in Int
  BY DEF PassStates, Windows
<1>2. Later(st.candidate, w.to) \in Int
  BY <1>1 DEF Later
<1>3. CASE st.found \/ st.candidate + d <= w.from
  <2>1. Pass(d, st, w) = [st EXCEPT !.found = TRUE]
    BY <1>3 DEF Pass
  <2>2. /\ [st EXCEPT !.found = TRUE] \in PassStates
        /\ [st EXCEPT !.found = TRUE].found = TRUE
        /\ [st EXCEPT !.found = TRUE].candidate = st.candidate
    BY <1>1 DEF PassStates
  <2> QED
    BY <1>1, <1>3, <2>1, <2>2
<1>4. CASE ~(st.found \/ st.candidate + d <= w.from)
  <2>1. Pass(d, st, w) = [st EXCEPT !.candidate = Later(st.candidate, w.to)]
    BY <1>4 DEF Pass
  <2> DEFINE l == Later(st.candidate, w.to)
  <2> HIDE DEF l
  <2>2. /\ [st EXCEPT !.candidate = l] \in PassStates
        /\ [st EXCEPT !.candidate = l].found = st.found
        /\ [st EXCEPT !.candidate = l].candidate = l
    BY <1>1, <1>2 DEF PassStates, l
  <2> QED
    BY <1>1, <1>4, <2>1, <2>2 DEF l
<1> QED
  BY <1>3, <1>4

\* The candidate after each of the reservations.
LEMMA PassFold ==
  ASSUME NEW earliest \in Int, NEW d \in Int, NEW n \in Nat, NEW seq \in [1 .. n -> Windows]
  PROVE  \E h : /\ PassesInTurn(h, earliest, d, seq, n)
                /\ FoldLeft(LAMBDA state, w : Pass(d, state, w),
                            [candidate |-> earliest, found |-> FALSE], seq) = h[n]
<1> DEFINE start == [candidate |-> earliest, found |-> FALSE]
           Op == [p \in PassStates \X Windows |-> Pass(d, p[1], p[2])]
           Solves(g) == g = [s \in SUBSET DOMAIN seq |->
                               IF s = {} THEN start
                               ELSE Pass(d, g[s \ {Max(s)}], seq[Max(s)])]
           g == CHOOSE f : Solves(f)
           h == [k \in 0 .. n |-> g[1 .. k]]
<1>1. \A a \in PassStates, w \in Windows : Op[<<a, w>>] = Pass(d, a, w)
  OBVIOUS
<1>2. Op \in [PassStates \X Windows -> PassStates]
  BY PassCases
<1> HIDE DEF Op
<1>3. PICK f \in [SUBSET (1 .. n) -> PassStates] :
        /\ f[{}] = start
        /\ \A s \in SUBSET (1 .. n) :
             s # {} => f[s] = Op[<<f[s \ {Max(s)}], seq[Max(s)]>>]
  <2>1. start \in PassStates
    BY DEF PassStates
  <2> HIDE DEF start
  <2>2. FoldSolved(n, PassStates, start, seq, Op)
    BY <1>2, <2>1, FoldExists
  <2> QED
    BY <2>2 DEF FoldSolved
<1>4. ASSUME NEW s \in SUBSET (1 .. n), s # {}
      PROVE  f[s] = Pass(d, f[s \ {Max(s)}], seq[Max(s)])
  <2>1. Max(s) \in s
    BY <1>4, MaxOfPlaces
  <2>2. seq[Max(s)] \in Windows /\ f[s \ {Max(s)}] \in PassStates
    BY <2>1
  <2> QED
    BY <1>1, <1>3, <1>4, <2>2
<1>5. Solves(f)
  <2>1. DOMAIN seq = 1 .. n
    OBVIOUS
  <2> HIDE DEF start
  <2> QED
    BY <1>3, <1>4, <2>1
<1>6. Solves(g)
  BY <1>5
<1>7. FoldLeft(LAMBDA state, w : Pass(d, state, w), start, seq) = g[1 .. n]
  BY DEF FoldLeft, MapThenFoldSet
<1> HIDE DEF g, start
<1>8. h[0] = start
  <2>1. 1 .. 0 = {}
    OBVIOUS
  <2> QED
    BY <1>6, <2>1
<1>9. ASSUME NEW k \in 1 .. n
      PROVE  h[k] = Pass(d, h[k - 1], seq[k])
  <2>1. 1 .. k \in SUBSET (1 .. n) /\ k \in Nat \ {0} /\ k - 1 \in 0 .. n /\ k \in 0 .. n
    OBVIOUS
  <2>2. 1 .. k # {} /\ Max(1 .. k) = k /\ (1 .. k) \ {k} = 1 .. k - 1
    BY <2>1, LastPlace
  <2>3. g[1 .. k] = Pass(d, g[1 .. k - 1], seq[k])
    BY <1>6, <2>1, <2>2
  <2> QED
    BY <2>1, <2>3
<1>10. h[n] = g[1 .. n]
  OBVIOUS
<1> HIDE DEF h
<1>11. PassesInTurn(h, earliest, d, seq, n)
  BY <1>8, <1>9 DEF PassesInTurn, start
<1>12. FoldLeft(LAMBDA state, w : Pass(d, state, w), start, seq) = h[n]
  BY <1>7, <1>10
<1> QED
  BY <1>11, <1>12 DEF start

(***************************************************************************)
(* What the search has settled after the first k reservations: no start    *)
(* before the candidate is possible, and the candidate is behind them all, *)
(* or, once found, before or behind every reservation of the list.         *)
(***************************************************************************)
Passed(st, earliest, d, seq, n, k) ==
  /\ st \in PassStates /\ earliest <= st.candidate
  /\ \A u \in Int : earliest <= u /\ u < st.candidate => InTheWay(seq, k, u, d)
  /\ IF st.found
       THEN \A i \in 1 .. n : seq[i].to <= st.candidate \/ st.candidate + d <= seq[i].from
       ELSE \A i \in 1 .. k : seq[i].to <= st.candidate

LEMMA PassStep ==
  ASSUME NEW n \in Nat, NEW seq \in [1 .. n -> Windows],
         \A i, j \in 1 .. n : i < j => seq[i].from <= seq[j].from,
         NEW earliest \in Int, NEW d \in Int,
         NEW k \in 0 .. n - 1, NEW st, Passed(st, earliest, d, seq, n, k)
  PROVE  Passed(Pass(d, st, seq[k + 1]), earliest, d, seq, n, k + 1)
<1> DEFINE w == seq[k + 1]
           r == Pass(d, st, w)
           c == st.candidate
<1>1. /\ k \in Nat /\ k + 1 \in 1 .. n /\ w \in Windows /\ st \in PassStates
      /\ \A i \in 1 .. n : seq[i].from \in Int /\ seq[i].to \in Int
  BY DEF Passed, Windows
<1>2. /\ r \in PassStates /\ c \in Int /\ st.found \in BOOLEAN
      /\ IF st.found \/ c + d <= w.from
           THEN r.found /\ r.candidate = c
           ELSE ~r.found /\ r.candidate = Later(c, w.to)
  BY <1>1, PassCases
<1> HIDE DEF r, c
<1>3. \A u \in Int : InTheWay(seq, k, u, d) => InTheWay(seq, k + 1, u, d)
  BY <1>1 DEF InTheWay
<1>4. earliest <= c /\ \A u \in Int : earliest <= u /\ u < c => InTheWay(seq, k, u, d)
  BY DEF Passed, c
<1>5. CASE st.found
  <2>1. \A i \in 1 .. n : seq[i].to <= c \/ c + d <= seq[i].from
    BY <1>5 DEF Passed, c
  <2> QED
    BY <1>2, <1>3, <1>4, <1>5, <2>1 DEF Passed, r
<1>6. CASE ~st.found /\ c + d <= w.from
  <2>1. \A i \in 1 .. k : seq[i].to <= c
    BY <1>6 DEF Passed, c
  <2>2. ASSUME NEW i \in 1 .. n
        PROVE  seq[i].to <= c \/ c + d <= seq[i].from
    <3>1. i \in 1 .. k \/ i = k + 1 \/ k + 1 < i
      BY <1>1
    <3>2. k + 1 < i => w.from <= seq[i].from
      BY <1>1
    <3> QED
      BY <1>1, <1>2, <1>6, <2>1, <3>1, <3>2
  <2> QED
    BY <1>2, <1>3, <1>4, <1>6, <2>2 DEF Passed, r
<1>7. CASE ~st.found /\ ~(c + d <= w.from)
  <2> DEFINE e == r.candidate
  <2>1. ~r.found /\ e = Later(c, w.to)
    BY <1>2, <1>7
  <2> HIDE DEF e
  <2>2. w.from \in Int /\ w.to \in Int
    BY <1>1
  <2> HIDE DEF w
  <2>3. e \in Int /\ c <= e /\ w.to <= e /\ (e = c \/ e = w.to)
    BY <1>2, <2>1, <2>2 DEF Later
  <2>4. ASSUME NEW u \in Int, earliest <= u, u < e
        PROVE  InTheWay(seq, k + 1, u, d)
    <3>1. CASE u < c
      BY <1>3, <1>4, <2>4, <3>1
    <3>2. CASE ~(u < c)
      <4>1. w.from < u + d /\ u < w.to
        <5>1. c \in Int /\ ~(c + d <= w.from)
          BY <1>2, <1>7
        <5> QED
          BY <2>2, <2>3, <2>4, <3>2, <5>1
      <4>2. k + 1 \in 1 .. k + 1
        BY <1>1
      <4> QED
        BY <4>1, <4>2 DEF InTheWay, w
    <3> QED
      BY <3>1, <3>2
  <2>5. ASSUME NEW i \in 1 .. k + 1
        PROVE  seq[i].to <= e
    <3>1. i \in 1 .. k \/ i = k + 1
      BY <1>1
    <3>2. CASE i = k + 1
      BY <2>3, <3>2 DEF w
    <3>3. CASE i \in 1 .. k
      <4>1. seq[i].to <= c /\ seq[i].to \in Int
        BY <1>1, <1>7, <3>3 DEF Passed, c
      <4> QED
        BY <1>2, <2>3, <4>1
    <3> QED
      BY <3>1, <3>2, <3>3
  <2>6. earliest <= e
    BY <1>2, <1>4, <2>3
  <2>7. r = Pass(d, st, seq[k + 1])
    BY DEF r, w
  <2> QED
    BY <1>2, <2>1, <2>4, <2>5, <2>6, <2>7 DEF Passed, e
<1> QED
  BY <1>2, <1>5, <1>6, <1>7

\* The pass over the reservations finds the first start that no reservation is
\* in the way of.
LEMMA PassExact ==
  ASSUME NEW S \in SUBSET Windows, IsFiniteSet(S), NEW earliest \in Int, NEW d \in Int
  PROVE  LET c == FirstGap(S, earliest, d)
             hits(u) == \E w \in S : w.from < u + d /\ u < w.to
         IN /\ c \in Int /\ earliest <= c /\ ~hits(c)
            /\ \A u \in Int : earliest <= u /\ u < c => hits(u)
<1> DEFINE seq == Ordered(S, InOrder)
           n == Cardinality(S)
           start == [candidate |-> earliest, found |-> FALSE]
           hits(u) == \E w \in S : w.from < u + d /\ u < w.to
<1>1. /\ n \in Nat /\ seq \in [1 .. n -> S]
      /\ \A x \in S : \E k \in 1 .. n : seq[k] = x
      /\ \A j, k \in 1 .. n : j < k => seq[j].from <= seq[k].from
  BY OrderedWindows
<1> HIDE DEF seq, n
<1>2. /\ seq \in [1 .. n -> Windows]
      /\ \A i \in 1 .. n : seq[i].from \in Int /\ seq[i].to \in Int
  BY <1>1 DEF Windows
<1>3. PICK h : /\ PassesInTurn(h, earliest, d, seq, n)
               /\ FoldLeft(LAMBDA state, w : Pass(d, state, w), start, seq) = h[n]
  <2>1. n \in Nat /\ seq \in [1 .. n -> Windows]
    BY <1>1, <1>2
  <2> QED
    BY <2>1, PassFold
<1>3a. PassesInTurn(h, earliest, d, seq, n)
  BY <1>3
<1>3b. h[n].candidate = FirstGap(S, earliest, d)
  BY <1>3 DEF FirstGap, seq
<1> DEFINE P == {k \in Nat : k <= n => Passed(h[k], earliest, d, seq, n, k)}
<1>4. 0 \in P
  <2>1. h[0] = start
    BY <1>3a DEF PassesInTurn
  <2>2. start \in PassStates /\ start.candidate = earliest /\ ~start.found
    BY DEF PassStates
  <2> HIDE DEF start
  <2>3. Passed(start, earliest, d, seq, n, 0)
    BY <2>2 DEF Passed
  <2> QED
    BY <2>1, <2>3
<1>5. ASSUME NEW k \in Nat, k \in P
      PROVE  k + 1 \in P
  <2> SUFFICES ASSUME k + 1 <= n
               PROVE  Passed(h[k + 1], earliest, d, seq, n, k + 1)
    OBVIOUS
  <2>1. k \in 0 .. n - 1 /\ Passed(h[k], earliest, d, seq, n, k)
    BY <1>1, <1>5
  <2>2. k + 1 \in 1 .. n /\ (k + 1) - 1 = k
    BY <1>1
  <2>3. h[k + 1] = Pass(d, h[k], seq[k + 1])
    BY <1>3a, <2>2 DEF PassesInTurn
  <2> DEFINE st == h[k]
  <2>4. Passed(st, earliest, d, seq, n, k)
    BY <2>1
  <2> HIDE DEF st
  <2>5. Passed(Pass(d, st, seq[k + 1]), earliest, d, seq, n, k + 1)
    BY <1>1, <1>2, <2>1, <2>4, PassStep
  <2> QED
    BY <2>3, <2>5 DEF st
<1> HIDE DEF P
<1>6. n \in P
  BY <1>1, <1>4, <1>5, Induction
<1> DEFINE c == h[n].candidate
<1>7. /\ c \in Int /\ earliest <= c
      /\ \A u \in Int : earliest <= u /\ u < c => InTheWay(seq, n, u, d)
      /\ \A i \in 1 .. n : seq[i].to <= c \/ c + d <= seq[i].from
  BY <1>1, <1>6 DEF P, Passed, PassStates
<1> HIDE DEF c
<1>8. ~hits(c)
  <2> SUFFICES ASSUME NEW w \in S, w.from < c + d, c < w.to
               PROVE  FALSE
    OBVIOUS
  <2>1. PICK i \in 1 .. n : seq[i] = w
    BY <1>1
  <2> QED
    BY <1>2, <1>7, <2>1
<1>9. \A u \in Int : InTheWay(seq, n, u, d) => hits(u)
  BY <1>1 DEF InTheWay
<1> QED
  BY <1>7, <1>8, <1>9, <1>3b DEF c

\* If the first start that no passage is in the way of is clear of maintenance
\* too, NextAvailable returns it, whatever is booked.
THEOREM NextAvailableIsFirst == ScheduleSpec => []NextAvailableFirst
<1>1. ASSUME ScheduleTypeOK
      PROVE  NextAvailableFirst
  <2> SUFFICES ASSUME NEW chamber \in Chambers, NEW earliest \in Times, NEW d \in Durations
               PROVE  LET t == NextAvailable(chamber, earliest, d)
                          between(u) == \A r \in Active(chamber) :
                                          ~Overlaps(Window(u, u + d), r)
                          first == CHOOSE u \in earliest .. (Days + 1) * DayLength :
                                     between(u) /\ \A w \in earliest .. u - 1 : ~between(w)
                          clear == \A w \in Maintenance[chamber] :
                                     ~Overlaps(Window(first, first + d), w)
                      IN clear => t = first
    BY DEF NextAvailableFirst
  <2> DEFINE A == Active(chamber)
             late == {q \in A : q.to > earliest}
             F == [r \in late |-> Window(r.from, r.to)]
             S == {Window(r.from, r.to) : r \in late}
             c == FirstGap(S, earliest, d)
             hits(u) == \E w \in S : w.from < u + d /\ u < w.to
             between(u) == \A r \in A : ~Overlaps(Window(u, u + d), r)
             ahead == earliest .. (Days + 1) * DayLength
             first == CHOOSE u \in ahead :
                        between(u) /\ \A w \in earliest .. u - 1 : ~between(w)
             clear == \A w \in Maintenance[chamber] :
                        ~Overlaps(Window(first, first + d), w)
  <2>1. /\ earliest \in Nat /\ d \in Nat \ {0} /\ earliest <= Days * DayLength
        /\ (Days + 1) * DayLength \in Nat /\ Days * DayLength <= (Days + 1) * DayLength
    <3>1. Days * DayLength + DayLength <= (Days + 1) * DayLength
      BY ScheduleNumbers, DaysInOrder
    <3>2. (Days + 1) * DayLength \in Nat
      BY ScheduleNumbers
    <3> DEFINE x == Days * DayLength
               y == (Days + 1) * DayLength
    <3>3. x \in Nat /\ y \in Nat /\ x + DayLength <= y /\ earliest \in 0 .. x
      BY <3>1, <3>2, ScheduleNumbers DEF Times
    <3> HIDE DEF x, y
    <3>4. x <= y /\ earliest \in Nat /\ earliest <= x
      BY <3>3, ScheduleNumbers
    <3>5. d \in Nat \ {0}
      BY ScheduleNumbers DEF Durations
    <3> QED
      BY <3>3, <3>4, <3>5 DEF x, y
  <2>2. /\ IsFiniteSet(A)
        /\ \A r \in A : /\ r.from \in Nat /\ r.to \in Nat /\ r.from < r.to
                        /\ r.to <= Days * DayLength
    BY <1>1, ActiveBookings
  <2>3. S \in SUBSET Windows
    BY <2>2 DEF Window, Windows
  <2>4. IsFiniteSet(S)
    <3>1. IsFiniteSet(late)
      BY <2>2, FS_Subset
    <3>2. S = {F[r] : r \in late}
      OBVIOUS
    <3> HIDE DEF F, S, late
    <3> QED
      BY <3>1, <3>2, FiniteImage
  <2>5. \A u : hits(u) <=> \E r \in late : r.from < u + d /\ u < r.to
    <3>1. \A r : Window(r.from, r.to).from = r.from /\ Window(r.from, r.to).to = r.to
      BY DEF Window
    <3> QED
      BY <3>1
  <2>6. /\ c \in Int /\ earliest <= c /\ ~hits(c)
        /\ \A u \in Int : earliest <= u /\ u < c => hits(u)
    <3> HIDE DEF S
    <3> QED
      BY <2>1, <2>3, <2>4, PassExact
  <2>7. \A u \in Int : earliest <= u => (between(u) <=> ~hits(u))
    <3> SUFFICES ASSUME NEW u \in Int, earliest <= u
                 PROVE  between(u) <=> ~hits(u)
      OBVIOUS
    <3>1. \A r \in A : Overlaps(Window(u, u + d), r) <=> u < r.to /\ r.from < u + d
      BY DEF Overlaps, Window
    <3>2. \A r \in A : u < r.to => r \in late
      BY <2>1, <2>2
    <3> HIDE DEF hits
    <3> QED
      BY <2>5, <3>1, <3>2
  <2> DEFINE next == NextAvailable(chamber, earliest, d)
             struck == {w \in Maintenance[chamber] : Overlaps(Window(c, c + d), w)}
  <2>8. next = IF struck = {} THEN c ELSE (CHOOSE w \in struck : TRUE).to
    BY DEF NextAvailable
  <2> HIDE DEF next, c
  <2>9. c \in ahead
    <3>1. CASE c = earliest
      <4> DEFINE x == Days * DayLength
                 y == (Days + 1) * DayLength
      <4>1. x \in Nat /\ y \in Nat /\ earliest <= x /\ x <= y /\ earliest \in Nat
        BY <2>1, ScheduleNumbers
      <4> HIDE DEF x, y
      <4>2. earliest \in earliest .. y
        BY <4>1
      <4> QED
        BY <3>1, <4>2 DEF y
    <3>2. CASE c # earliest
      <4>1. c - 1 \in Int /\ earliest <= c - 1 /\ c - 1 < c
        BY <2>1, <2>6, <3>2
      <4>2. hits(c - 1)
        BY <2>6, <4>1
      <4> HIDE DEF hits
      <4>3. PICK r \in A : c - 1 < r.to
        BY <2>5, <4>2
      <4>4. r.to \in Nat /\ r.to <= Days * DayLength
        BY <2>2
      <4> DEFINE x == Days * DayLength
                 y == (Days + 1) * DayLength
      <4>5. x \in Nat /\ y \in Nat /\ x <= y /\ r.to <= x
        BY <2>1, <4>4, ScheduleNumbers
      <4> HIDE DEF x, y
      <4>6. c <= y
        BY <2>6, <4>3, <4>4, <4>5
      <4> QED
        BY <2>1, <2>6, <4>5, <4>6 DEF y
    <3> QED
      BY <3>1, <3>2
  <2> HIDE DEF hits, between
  <2>10. between(c) /\ \A w \in earliest .. c - 1 : ~between(w)
    BY <2>1, <2>6, <2>7
  <2>11. first = c
    <3>1. /\ first \in ahead /\ between(first)
          /\ \A w \in earliest .. first - 1 : ~between(w)
      BY <2>9, <2>10
    <3> HIDE DEF first
    <3>2. first \in Int /\ earliest <= first
      BY <2>1, <3>1
    <3>3. ~(first < c) /\ ~(c < first)
      BY <2>1, <2>6, <2>10, <3>1, <3>2
    <3> QED
      BY <2>6, <3>2, <3>3
  <2> HIDE DEF first
  <2>12. clear => struck = {}
    BY <2>11
  <2> HIDE DEF clear, struck
  <2>13. clear => next = first
    BY <2>8, <2>11, <2>12
  <2> QED
    BY <2>13 DEF next, clear, first, between
<1> QED
  BY <1>1, ScheduleTypeCorrect, PTL

-----------------------------------------------------------------------------
(***************************************************************************)
(* Manifests: what is reported between two manifests amends one to the     *)
(* other.                                                                  *)
(***************************************************************************)
Contents == [ContainerNos -> Items \cup {NoItem}]
ManifestTypeOK ==
  /\ manifest \in [Versions -> Contents]
  /\ \A v \in Versions : manifest[v] = NoManifest \/ BuildManifestOK(manifest[v])

LEMMA AmendedType ==
  ASSUME NEW m \in [ContainerNos -> Items \cup {NoItem}], NEW changes \in Seq(Changes)
  PROVE  Amended(m, changes) \in [ContainerNos -> Items \cup {NoItem}]
<1> SUFFICES ASSUME NEW c \in ContainerNos, NEW n \in DOMAIN changes,
                    Canonical[changes[n].container] = c
             PROVE  changes[CHOOSE k \in DOMAIN changes :
                              Canonical[changes[k].container] = c].replacement
                      \in Items \cup {NoItem}
  BY DEF Amended
<1> DEFINE k == CHOOSE k \in DOMAIN changes : Canonical[changes[k].container] = c
<1>1. k \in DOMAIN changes
  OBVIOUS
<1> HIDE DEF k
<1>2. changes[k] \in Changes
  BY <1>1
<1>3. changes[k].replacement \in Items \cup {NoItem}
  BY <1>2 DEF Changes
<1> QED
  BY <1>3 DEF k

\* A manifest is built and amended as BuildManifest accepts it, or there is
\* none: no amendment leaves a manifest that could not have been filed.
THEOREM ManifestTypeCorrect == ManifestSpec => []ManifestTypeOK
<1>1. ManifestInit => ManifestTypeOK
  <2>1. NoManifest \in Contents
    BY DEF NoManifest, Contents
  <2> QED
    BY <2>1 DEF ManifestInit, ManifestTypeOK
<1>2. ManifestTypeOK /\ [ManifestNext]_manifest => ManifestTypeOK'
  <2> SUFFICES ASSUME ManifestTypeOK, [ManifestNext]_manifest
               PROVE  ManifestTypeOK'
    OBVIOUS
  <2>1. ASSUME NEW v \in Versions, NEW m \in Contents, BuildManifestOK(m),
               manifest' = [manifest EXCEPT ![v] = m]
        PROVE  ManifestTypeOK'
    <3>1. /\ manifest' \in [Versions -> Contents]
          /\ \A w \in Versions : manifest'[w] = IF w = v THEN m ELSE manifest[w]
      BY <2>1 DEF ManifestTypeOK
    <3>2. \A w \in Versions : manifest'[w] = NoManifest \/ BuildManifestOK(manifest'[w])
      BY <2>1, <3>1 DEF ManifestTypeOK
    <3> QED
      BY <3>1, <3>2 DEF ManifestTypeOK, BuildManifestOK, NoManifest, Has
  <2>2. ASSUME NEW v \in Versions, NEW changes \in Seq(Changes), AmendManifest(v, changes)
        PROVE  ManifestTypeOK'
    <3>1. /\ manifest' = [manifest EXCEPT ![v] = Amended(manifest[v], changes)]
          /\ BuildManifestOK(Amended(manifest[v], changes))
      BY <2>2 DEF AmendManifest, AmendOK
    <3>2. manifest[v] \in Contents
      BY DEF ManifestTypeOK
    <3>3. Amended(manifest[v], changes) \in Contents
      BY <3>2, AmendedType DEF Contents
    <3> QED
      BY <2>1, <3>1, <3>3
  <2>3. ASSUME NEW v \in Versions, NEW m \in Contents, BuildManifest(v, m)
        PROVE  ManifestTypeOK'
    BY <2>1, <2>3 DEF BuildManifest
  <2>4. CASE UNCHANGED manifest
    BY <2>4 DEF ManifestTypeOK, BuildManifestOK, NoManifest, Has
  <2>5. \A change \in Changes : <<change>> \in Seq(Changes)
    OBVIOUS
  <2>6. \A first, second \in Changes : <<first, second>> \in Seq(Changes)
    OBVIOUS
  <2> QED
    BY <2>2, <2>3, <2>4, <2>5, <2>6 DEF ManifestNext, Contents
<1> QED
  BY <1>1, <1>2, PTL DEF ManifestSpec

\* A finite set becomes a list that has each of its members once.
LEMMA ListOfSet ==
  ASSUME NEW S, IsFiniteSet(S)
  PROVE  LET n == Cardinality(S)
             f == SetToSeq(S)
         IN /\ n \in Nat /\ f \in [1 .. n -> S]
            /\ \A x \in S : \E k \in 1 .. n : f[k] = x
            /\ \A j, k \in 1 .. n : f[j] = f[k] => j = k
<1> DEFINE n == Cardinality(S)
           f == SetToSeq(S)
<1>1. n \in Nat /\ ExistsBijection(1 .. n, S)
  BY FS_CardinalityType
<1>2. PICK g \in Bijection(1 .. n, S) : TRUE
  BY <1>1 DEF ExistsBijection
<1>3. g \in [1 .. n -> S] /\ IsInjective(g)
  BY <1>2 DEF Bijection, Injection
<1>4. f \in [1 .. n -> S] /\ IsInjective(f)
  BY <1>3 DEF SetToSeq
<1> HIDE DEF f
<1>5. f \in Injection(1 .. n, S)
  BY <1>4 DEF Injection
<1>6. Cardinality(1 .. n) = n
  <2> HIDE DEF n
  <2>1. 1 \in Int /\ n \in Int /\ IF 1 > n THEN n = 0 ELSE n - 1 + 1 = n
    BY <1>1
  <2> QED
    BY <2>1, FS_Interval
<1>7. f \in Surjection(1 .. n, S)
  BY <1>5, <1>6, FS_Injection DEF n
<1> HIDE DEF n
<1>8. \A x \in S : \E k \in 1 .. n : f[k] = x
  BY <1>7 DEF Surjection
<1>9. \A j, k \in 1 .. n : f[j] = f[k] => j = k
  BY <1>4 DEF IsInjective
<1> QED
  BY <1>1, <1>4, <1>8, <1>9 DEF f, n

\* Between any two manifests CompareManifests reports the amendment that leads
\* from one to the other, exactly if the containers it names are written in
\* the canonical way; for any containers and items, and any amendments before.
THEOREM ComparisonAmends == ManifestSpec => []AmendRoundTrip
<1>1. ASSUME ManifestTypeOK
      PROVE  AmendRoundTrip
  <2> DEFINE old == manifest["before"]
             new == manifest["after"]
             D == {d \in ContainerNos : old[d] # new[d]}
             Change(c) == [container |-> c, remove |-> ~Has(new, c),
                           replacement |-> new[c]]
             F == [c \in D |-> Change(c)]
             changes == CompareManifests(old, new)
             list == SetToSeq(changes)
             n == Cardinality(changes)
  <2> SUFFICES ASSUME old # NoManifest, new # NoManifest
               PROVE  IF changes = {} THEN old = new
                      ELSE AmendOK(old, list) /\ Amended(old, list) = new
                             <=> \A change \in changes :
                                   Canonical[change.container] = change.container
    BY DEF AmendRoundTrip
  <2>0. BuildManifestOK(old) /\ BuildManifestOK(new)
    BY <1>1 DEF ManifestTypeOK, Versions
  <2>1. /\ old \in [ContainerNos -> Items \cup {NoItem}]
        /\ new \in [ContainerNos -> Items \cup {NoItem}]
    BY <1>1 DEF ManifestTypeOK, Versions, Contents
  <2> HIDE DEF old, new
  <2>2. changes = {Change(c) : c \in D}
    BY DEF CompareManifests
  <2>3. \A c : /\ Change(c).container = c /\ Change(c).replacement = new[c]
               /\ Change(c).remove = ~Has(new, c)
    OBVIOUS
  <2>4. CASE changes = {}
    <3>1. D = {}
      BY <2>2, <2>4
    <3>2. new = old
      BY <2>1, <3>1
    <3> QED
      BY <2>4, <3>2
  <2>5. CASE changes # {}
    <3>1. IsFiniteSet(changes)
      <4>1. IsFiniteSet(D)
        BY ManifestsAssumption, FS_Subset
      <4>2. changes = {F[c] : c \in D}
        BY <2>2
      <4> HIDE DEF F, changes, D
      <4> QED
        BY <4>1, <4>2, FiniteImage
    <3> HIDE DEF changes, Change
    <3>2. /\ n \in Nat /\ list \in [1 .. n -> changes]
          /\ \A x \in changes : \E k \in 1 .. n : list[k] = x
          /\ \A j, k \in 1 .. n : list[j] = list[k] => j = k
      BY <3>1, ListOfSet
    <3> HIDE DEF list, n
    <3> DEFINE C(k) == list[k].container
    <3>3. \A k \in 1 .. n : /\ C(k) \in D /\ list[k] = Change(C(k))
                            /\ list[k].replacement = new[C(k)]
                            /\ list[k].remove = ~Has(new, C(k))
      BY <2>2, <2>3, <3>2
    <3>4. \A c \in D : \E k \in 1 .. n : C(k) = c
      BY <2>2, <2>3, <3>2
    <3>5. DOMAIN list = 1 .. n /\ list # <<>>
      <4>1. n # 0
        <5>1. PICK x : x \in changes
          BY <2>5
        <5>2. PICK k \in 1 .. n : list[k] = x
          BY <3>2, <5>1
        <5> QED
          BY <3>2, <5>2
      <4>2. DOMAIN list = 1 .. n /\ 1 \in 1 .. n
        BY <3>2, <4>1
      <4>3. DOMAIN <<>> = {}
        OBVIOUS
      <4> QED
        BY <4>2, <4>3
    <3>6. \A c \in ContainerNos :
            Canonical[c] # NoNumber => Canonical[Canonical[c]] = Canonical[c]
      BY ManifestsAssumption
    <3> DEFINE Hit(c) == \E k \in 1 .. n : Canonical[C(k)] = c
               At(c) == CHOOSE k \in 1 .. n : Canonical[C(k)] = c
               amended == Amended(old, list)
    <3>7. amended = [c \in ContainerNos |-> IF Hit(c) THEN list[At(c)].replacement ELSE old[c]]
      BY <3>5 DEF Amended
    <3>8. \A c : Hit(c) => At(c) \in 1 .. n /\ Canonical[C(At(c))] = c
      OBVIOUS
    <3> HIDE DEF Hit, At, amended
    <3>9. ASSUME \A change \in changes : Canonical[change.container] = change.container
          PROVE  AmendOK(old, list) /\ amended = new
      <4>1. \A k \in 1 .. n : Canonical[C(k)] = C(k)
        BY <3>2, <3>9
      <4>2. ASSUME NEW c \in ContainerNos
            PROVE  (IF Hit(c) THEN list[At(c)].replacement ELSE old[c]) = new[c]
        <5>1. CASE Hit(c)
          <6>1. At(c) \in 1 .. n /\ C(At(c)) = c
            BY <3>8, <4>1, <5>1
          <6> QED
            BY <3>3, <5>1, <6>1
        <5>2. CASE ~Hit(c)
          <6>1. c \notin D
            BY <3>4, <4>1, <5>2 DEF Hit
          <6> QED
            BY <5>2, <6>1
        <5> QED
          BY <5>1, <5>2
      <4>3. amended = new
        BY <2>1, <3>7, <4>2
      <4>4. \A j, k \in 1 .. n : Canonical[C(j)] = Canonical[C(k)] => j = k
        BY <3>2, <3>3, <4>1
      <4>5. \A k \in 1 .. n : ChangeOK(old, list[k])
        <5> SUFFICES ASSUME NEW k \in 1 .. n
                     PROVE  ChangeOK(old, list[k])
          OBVIOUS
        <5> DEFINE c == C(k)
        <5>1. /\ old[c] # new[c] /\ Canonical[c] = c
              /\ list[k].replacement = new[c] /\ list[k].remove = ~Has(new, c)
              /\ list[k].container = c
          BY <3>3, <4>1
        <5>2. c # NoNumber
          <6>1. Has(old, c) \/ Has(new, c)
            BY <5>1 DEF Has
          <6>2. c \in ContainerNos
            BY <3>3
          <6> QED
            BY <2>0, <6>1, <6>2 DEF BuildManifestOK
        <5> QED
          BY <5>1, <5>2 DEF ChangeOK, Has
      <4> QED
        BY <2>0, <3>5, <4>3, <4>4, <4>5 DEF AmendOK, amended
    <3>10. ASSUME AmendOK(old, list), amended = new, NEW change \in changes
           PROVE  Canonical[change.container] = change.container
      <4>1. PICK k \in 1 .. n : list[k] = change
        BY <3>2
      <4> DEFINE c == C(k)
      <4>2. c \in ContainerNos /\ old[c] # new[c]
        BY <3>3
      <4>3. Hit(c)
        BY <3>7, <3>10, <4>2
      <4>4. PICK j \in 1 .. n : Canonical[C(j)] = c
        BY <4>3 DEF Hit
      <4>5. C(j) \in ContainerNos
        BY <3>3
      <4>6. Canonical[c] = c
        <5>1. ChangeOK(old, list[j])
          BY <3>5, <3>10, <4>4 DEF AmendOK
        <5>2. Canonical[C(j)] # NoNumber
          BY <5>1 DEF ChangeOK
        <5> QED
          BY <3>6, <4>4, <4>5, <5>2
      <4> QED
        BY <4>1, <4>6
    <3> QED
      BY <2>5, <3>9, <3>10 DEF amended
  <2> QED
    BY <2>4, <2>5
<1> QED
  BY <1>1, ManifestTypeCorrect, PTL

-----------------------------------------------------------------------------
(***************************************************************************)
(* PassageQueue: the order of the entries is strict and total, so that an  *)
(* arranged queue is one list.                                             *)
(***************************************************************************)
QueueEntries ==
  [id : EntryIDs, priority : {Priorities[n] : n \in 1 .. 4}, starts : Nat,
   requested : Nat, deadline : Nat, reason : BOOLEAN, confirmed : BOOLEAN]
ApartByID(S) == \A e, f \in S : e.id = f.id => e = f

\* The five keys are numbers; the first tells the standby vessels, the last is
\* the id.
LEMMA SortKeys ==
  ASSUME NEW e \in QueueEntries
  PROVE  /\ SortKey(e)[1] \in 1 .. 4 /\ (e.priority = "standby" <=> SortKey(e)[1] = 4)
         /\ SortKey(e)[2] \in Nat /\ SortKey(e)[3] \in Nat /\ SortKey(e)[4] \in Nat
         /\ SortKey(e)[5] = e.id /\ e.id \in Nat
         /\ SortKey(e)[3] = e.starts /\ SortKey(e)[4] = e.requested
         /\ e.priority = "standby" => SortKey(e)[2] = 0
<1>1. /\ e.priority \in {Priorities[n] : n \in 1 .. 4}
      /\ e.starts \in Nat /\ e.requested \in Nat /\ e.deadline \in Nat /\ e.id \in EntryIDs
  BY DEF QueueEntries
<1>2. e.id \in Nat
  BY <1>1, QueueAssumption
<1>3. DOMAIN Priorities = 1 .. 4 /\ Priorities[4] = "standby"
      /\ Priorities[1] # "standby" /\ Priorities[2] # "standby" /\ Priorities[3] # "standby"
  BY DEF Priorities
<1>4. PriorityRank(e) \in 1 .. 4 /\ Priorities[PriorityRank(e)] = e.priority
  <2>1. PICK n \in DOMAIN Priorities : Priorities[n] = e.priority
    BY <1>1, <1>3
  <2>2. PriorityRank(e) \in DOMAIN Priorities /\ Priorities[PriorityRank(e)] = e.priority
    BY <2>1 DEF PriorityRank
  <2> QED
    BY <1>3, <2>2
<1>5. e.priority = "standby" <=> PriorityRank(e) = 4
  <2>1. \A n \in 1 .. 4 : n = 1 \/ n = 2 \/ n = 3 \/ n = 4
    OBVIOUS
  <2> QED
    BY <1>3, <1>4, <2>1
<1>6. /\ SortKey(e)[1] = PriorityRank(e) /\ SortKey(e)[2] \in Nat
      /\ e.priority = "standby" => SortKey(e)[2] = 0
      /\ SortKey(e)[3] = e.starts /\ SortKey(e)[4] = e.requested /\ SortKey(e)[5] = e.id
  BY <1>1 DEF SortKey
<1> QED
  BY <1>1, <1>2, <1>4, <1>5, <1>6

Lexical(x, y) ==
  \/ x[1] < y[1]
  \/ x[1] = y[1] /\ x[2] < y[2]
  \/ x[1] = y[1] /\ x[2] = y[2] /\ x[3] < y[3]
  \/ x[1] = y[1] /\ x[2] = y[2] /\ x[3] = y[3] /\ x[4] < y[4]
  \/ x[1] = y[1] /\ x[2] = y[2] /\ x[3] = y[3] /\ x[4] = y[4] /\ x[5] < y[5]

LEMMA PrecedesLexical ==
  ASSUME NEW e, NEW f
  PROVE  Precedes(e, f) <=> Lexical(SortKey(e), SortKey(f))
<1> DEFINE x == SortKey(e)
           y == SortKey(f)
           P(n) == x[n] < y[n] /\ \A m \in 1 .. n - 1 : x[m] = y[m]
<1>1. Precedes(e, f) <=> \E n \in 1 .. 5 : P(n)
  BY DEF Precedes
<1> HIDE DEF x, y
<1>2. P(1) <=> x[1] < y[1]
  OBVIOUS
<1>3. P(2) <=> x[2] < y[2] /\ x[1] = y[1]
  <2>1. \A m : m \in 1 .. 2 - 1 <=> m = 1
    OBVIOUS
  <2> QED
    BY <2>1
<1>4. P(3) <=> x[3] < y[3] /\ x[1] = y[1] /\ x[2] = y[2]
  <2>1. \A m : m \in 1 .. 3 - 1 <=> m = 1 \/ m = 2
    OBVIOUS
  <2> QED
    BY <2>1
<1>5. P(4) <=> x[4] < y[4] /\ x[1] = y[1] /\ x[2] = y[2] /\ x[3] = y[3]
  <2>1. \A m : m \in 1 .. 4 - 1 <=> m = 1 \/ m = 2 \/ m = 3
    OBVIOUS
  <2> QED
    BY <2>1
<1>6. P(5) <=> x[5] < y[5] /\ x[1] = y[1] /\ x[2] = y[2] /\ x[3] = y[3] /\ x[4] = y[4]
  <2>1. \A m : m \in 1 .. 5 - 1 <=> m = 1 \/ m = 2 \/ m = 3 \/ m = 4
    OBVIOUS
  <2> QED
    BY <2>1
<1> HIDE DEF P
<1>7. (\E n \in 1 .. 5 : P(n)) <=> P(1) \/ P(2) \/ P(3) \/ P(4) \/ P(5)
  <2>1. \A n : n \in 1 .. 5 <=> n = 1 \/ n = 2 \/ n = 3 \/ n = 4 \/ n = 5
    OBVIOUS
  <2> QED
    BY <2>1
<1> QED
  BY <1>1, <1>2, <1>3, <1>4, <1>5, <1>6, <1>7 DEF Lexical, x, y

\* No entry precedes itself, and of two entries with different ids exactly one
\* precedes the other.
LEMMA PrecedesStrictly ==
  ASSUME NEW S \in SUBSET QueueEntries, ApartByID(S)
  PROVE  OrdersStrictly({p \in S \X S : Precedes(p[1], p[2])}, S)
<1> DEFINE R == {p \in S \X S : Precedes(p[1], p[2])}
           K(e) == SortKey(e)
<1>1. \A e, f \in S : <<e, f>> \in R <=> Lexical(K(e), K(f))
  BY PrecedesLexical
<1>2. \A e \in S : /\ K(e)[1] \in Int /\ K(e)[2] \in Int /\ K(e)[3] \in Int
                   /\ K(e)[4] \in Int /\ K(e)[5] \in Int /\ K(e)[5] = e.id
  BY SortKeys
<1> HIDE DEF R, K
<1>3. \A e \in S : <<e, e>> \notin R
  BY <1>1, <1>2 DEF Lexical
<1>4. \A e, f \in S : e = f \/ <<e, f>> \in R \/ <<f, e>> \in R
  <2> SUFFICES ASSUME NEW e \in S, NEW f \in S, e # f
               PROVE  Lexical(K(e), K(f)) \/ Lexical(K(f), K(e))
    BY <1>1
  <2>1. K(e)[5] # K(f)[5]
    BY <1>2 DEF ApartByID
  <2> QED
    BY <1>2, <2>1 DEF Lexical
<1>5. \A e, f, g \in S : <<e, f>> \in R /\ <<f, g>> \in R => <<e, g>> \in R
  <2> SUFFICES ASSUME NEW e \in S, NEW f \in S, NEW g \in S,
                      Lexical(K(e), K(f)), Lexical(K(f), K(g))
               PROVE  Lexical(K(e), K(g))
    BY <1>1
  <2> QED
    BY <1>2 DEF Lexical
<1> QED
  BY <1>3, <1>4, <1>5 DEF OrdersStrictly, R

\* OrderQueue lists the entries once, each after all that precede it.
LEMMA OrderedEntries ==
  ASSUME NEW S \in SUBSET QueueEntries, IsFiniteSet(S), ApartByID(S)
  PROVE  LET f == OrderQueue(S)
             n == Cardinality(S)
         IN /\ n \in Nat /\ f \in [1 .. n -> S]
            /\ \A x \in S : \E k \in 1 .. n : f[k] = x
            /\ \A j, k \in 1 .. n : j < k => Precedes(f[j], f[k]) /\ f[j].id # f[k].id
<1> DEFINE f == OrderQueue(S)
           n == Cardinality(S)
           R == {p \in S \X S : Precedes(p[1], p[2])}
<1>1. \A x, y \in S : <<x, y>> \in R <=> Precedes(x, y)
  OBVIOUS
<1>2. \A x \in S : {y \in S : <<y, x>> \in R} = {y \in S : Precedes(y, x)}
  BY <1>1
<1>3. OrdersStrictly(R, S)
  BY PrecedesStrictly
<1>4. n \in Nat
  BY FS_CardinalityType
<1> HIDE DEF R
<1> DEFINE F(k) == CHOOSE z \in S : Cardinality({y \in S : Precedes(y, z)}) = k - 1
<1>5. f = [k \in 1 .. n |-> F(k)]
  BY DEF OrderQueue, Ordered
<1> HIDE DEF f
<1>6. Places(f, R, S)
  <2> SUFFICES ASSUME NEW k \in 1 .. n,
                      NEW x \in S, Cardinality({y \in S : <<y, x>> \in R}) = k - 1
               PROVE  f[k] \in S /\ Cardinality({y \in S : <<y, f[k]>> \in R}) = k - 1
    BY DEF Places
  <2>1. f[k] = F(k)
    BY <1>5
  <2>2. Cardinality({y \in S : Precedes(y, x)}) = k - 1
    BY <1>2
  <2>3. f[k] \in S /\ Cardinality({y \in S : Precedes(y, f[k])}) = k - 1
    BY <2>1, <2>2
  <2> QED
    BY <1>2, <2>3
<1>7. Lists(f, R, S)
  BY <1>3, <1>6, PlacesList
<1>8. f \in [1 .. n -> S]
  <2>1. \A k \in 1 .. n : f[k] \in S
    BY <1>7 DEF Lists
  <2> HIDE DEF F
  <2> QED
    BY <1>5, <2>1
<1> HIDE DEF n
<1>9. ASSUME NEW j \in 1 .. n, NEW k \in 1 .. n, j < k
      PROVE  Precedes(f[j], f[k]) /\ f[j].id # f[k].id
  <2>1. <<f[j], f[k]>> \in R /\ f[j] \in S /\ f[k] \in S
    BY <1>7, <1>8, <1>9 DEF Lists, n
  <2>2. f[j] # f[k]
    BY <1>3, <2>1 DEF OrdersStrictly
  <2> QED
    BY <1>1, <2>1, <2>2 DEF ApartByID
<1> QED
  BY <1>4, <1>7, <1>8, <1>9 DEF Lists, n, f

(***************************************************************************)
(* The queue holds entries with different ids, so that each has a place.   *)
(***************************************************************************)
Keyed(q, n) ==
  /\ n \in Nat /\ q \in [1 .. n -> QueueEntries]
  /\ \A j, k \in 1 .. n : q[j].id = q[k].id => j = k
QueueTypeOK == queue \in Seq(QueueEntries) /\ Keyed(queue, Len(queue))

LEMMA KeyedPlaces ==
  ASSUME NEW q, NEW n, Keyed(q, n)
  PROVE  /\ q \in Seq(QueueEntries) /\ Len(q) = n
         /\ ToSet(q) = MembersOf(q, n) /\ IDsOf(q) = {q[k].id : k \in 1 .. n}
         /\ ToSet(q) \in SUBSET QueueEntries /\ ApartByID(ToSet(q))
         /\ IsFiniteSet(ToSet(q)) /\ Cardinality(ToSet(q)) = n
         /\ Cardinality(IDsOf(q)) = n
         /\ \A k \in 1 .. n : PlaceOf(q, q[k].id) = k /\ EntryOf(q, q[k].id) = q[k]
<1>1. /\ n \in Nat /\ q \in [1 .. n -> QueueEntries] /\ DOMAIN q = 1 .. n
      /\ \A j, k \in 1 .. n : q[j].id = q[k].id => j = k
  BY DEF Keyed
<1>2. q \in Seq(QueueEntries) /\ Len(q) = n
  BY <1>1
<1>3. ToSet(q) = MembersOf(q, n) /\ IDsOf(q) = {q[k].id : k \in 1 .. n}
  BY <1>1 DEF ToSet, MembersOf, IDsOf
<1>4. ToSet(q) \in SUBSET QueueEntries /\ ApartByID(ToSet(q))
  BY <1>1, <1>3 DEF MembersOf, ApartByID
<1>5. Distinct(q, n)
  BY <1>1 DEF Distinct
<1>6. IsFiniteSet(ToSet(q)) /\ Cardinality(ToSet(q)) = n
  BY <1>1, <1>3, <1>5, ListCard
<1>7. Cardinality(IDsOf(q)) = n
  <2> DEFINE s == [k \in 1 .. n |-> q[k].id]
  <2>1. Distinct(s, n)
    BY <1>1 DEF Distinct
  <2>2. MembersOf(s, n) = IDsOf(q)
    BY <1>3 DEF MembersOf
  <2> HIDE DEF s
  <2> QED
    BY <1>1, <2>1, <2>2, ListCard
<1>8. ASSUME NEW k \in 1 .. n
      PROVE  PlaceOf(q, q[k].id) = k /\ EntryOf(q, q[k].id) = q[k]
  <2> DEFINE j == CHOOSE i \in DOMAIN q : q[i].id = q[k].id
  <2>1. j \in DOMAIN q /\ q[j].id = q[k].id
    BY <1>1
  <2>2. j = k
    BY <1>1, <2>1
  <2> QED
    BY <2>2 DEF PlaceOf, EntryOf
<1> QED
  BY <1>2, <1>3, <1>4, <1>6, <1>7, <1>8

\* An arranged part of the queue: its entries, each once.
LEMMA ArrangedPart ==
  ASSUME QueueTypeOK, NEW S \in SUBSET ToSet(queue)
  PROVE  LET o == OrderQueue(S)
             n == Cardinality(S)
         IN /\ Keyed(o, n) /\ o \in [1 .. n -> S]
            /\ \A x \in S : \E k \in 1 .. n : o[k] = x
            /\ \A j, k \in 1 .. n : j < k => Precedes(o[j], o[k])
<1> DEFINE o == OrderQueue(S)
           n == Cardinality(S)
<1>1. S \in SUBSET QueueEntries /\ ApartByID(S) /\ IsFiniteSet(S)
  <2>1. /\ ToSet(queue) \in SUBSET QueueEntries /\ ApartByID(ToSet(queue))
        /\ IsFiniteSet(ToSet(queue))
    BY KeyedPlaces DEF QueueTypeOK
  <2> QED
    BY <2>1, FS_Subset DEF ApartByID
<1>2. /\ n \in Nat /\ o \in [1 .. n -> S]
      /\ \A x \in S : \E k \in 1 .. n : o[k] = x
      /\ \A j, k \in 1 .. n : j < k => Precedes(o[j], o[k]) /\ o[j].id # o[k].id
  BY <1>1, OrderedEntries
<1> HIDE DEF o, n
<1>3. \A j, k \in 1 .. n : o[j].id = o[k].id => j = k
  <2> SUFFICES ASSUME NEW j \in 1 .. n, NEW k \in 1 .. n, j # k
               PROVE  o[j].id # o[k].id
    OBVIOUS
  <2>1. j < k \/ k < j
    BY <1>2
  <2> QED
    BY <1>2, <2>1
<1>4. o \in [1 .. n -> QueueEntries]
  BY <1>1, <1>2
<1> QED
  BY <1>2, <1>3, <1>4 DEF Keyed, o, n

\* What Promote does to an arranged queue: nothing if nobody is eligible, and
\* else it changes the priority at the first eligible place.
Promoted(q, o, n, now) ==
  /\ Keyed(q, n) /\ \A k \in 1 .. n : q[k].id = o[k].id
  /\ \/ /\ q = o
        /\ \A k \in 1 .. n : o[k].priority # "standby" \/ o[k].starts < now
     \/ \E p \in 1 .. n :
          /\ o[p].priority = "standby" /\ now <= o[p].starts
          /\ q[p] = [o[p] EXCEPT !.priority = "scheduled"]
          /\ \A k \in 1 .. n : k # p => q[k] = o[k]
          /\ \A k \in 1 .. n : k < p => o[k].priority # "standby" \/ o[k].starts < now

LEMMA PromoteCases ==
  ASSUME NEW o, NEW n, Keyed(o, n), NEW now \in Nat
  PROVE  Promoted(Promote(o, now), o, n, now)
<1> DEFINE q == Promote(o, now)
           E == EligibleStandby(o, now)
<1>1. /\ n \in Nat /\ o \in [1 .. n -> QueueEntries] /\ DOMAIN o = 1 .. n
      /\ \A j, k \in 1 .. n : o[j].id = o[k].id => j = k
  BY DEF Keyed
<1>2. \A k \in 1 .. n : o[k].starts \in Nat
  BY <1>1 DEF QueueEntries
<1>3. CASE E = {}
  <2>1. ASSUME NEW k \in 1 .. n
        PROVE  o[k].priority # "standby" \/ o[k].starts < now
    BY <1>1, <1>2, <1>3 DEF EligibleStandby
  <2> QED
    BY <1>3, <2>1 DEF Promote, Promoted
<1>4. CASE E # {}
  <2> DEFINE p == Min(E)
             e == [o[p] EXCEPT !.priority = "scheduled"]
  <2>1. E = {k \in 1 .. n : o[k].priority = "standby" /\ o[k].starts >= now}
    BY <1>1 DEF EligibleStandby
  <2>2. p \in E /\ \A y \in E : p <= y
    <3>1. E \in SUBSET Nat
      BY <1>1, <2>1
    <3> HIDE DEF E
    <3> QED
      BY <1>4, <3>1, MinOfNumbers
  <2>3. q = [o EXCEPT ![p] = e]
    BY <1>4 DEF Promote
  <2> HIDE DEF E, p
  <2>4. p \in 1 .. n /\ o[p].priority = "standby" /\ now <= o[p].starts
    BY <1>2, <2>1, <2>2
  <2>5. e \in QueueEntries /\ e.id = o[p].id
    <3>1. o[p] \in QueueEntries
      BY <1>1, <2>4
    <3>2. "scheduled" \in {Priorities[i] : i \in 1 .. 4}
      <4>1. Priorities[3] = "scheduled" /\ 3 \in 1 .. 4
        BY DEF Priorities
      <4> QED
        BY <4>1
    <3> QED
      BY <3>1, <3>2 DEF QueueEntries
  <2> HIDE DEF e, q
  <2>6. q \in [1 .. n -> QueueEntries] /\ q[p] = e /\ \A k \in 1 .. n : k # p => q[k] = o[k]
    BY <1>1, <2>3, <2>4, <2>5
  <2>7. \A k \in 1 .. n : q[k].id = o[k].id
    BY <2>5, <2>6
  <2>8. Keyed(q, n)
    BY <1>1, <2>6, <2>7 DEF Keyed
  <2>9. \A k \in 1 .. n : k < p => o[k].priority # "standby" \/ o[k].starts < now
    <3> SUFFICES ASSUME NEW k \in 1 .. n, k < p
                 PROVE  o[k].priority # "standby" \/ o[k].starts < now
      OBVIOUS
    <3>1. k \notin E
      BY <1>1, <2>2, <2>4
    <3> QED
      BY <1>2, <2>1, <3>1
  <2> QED
    BY <2>4, <2>6, <2>7, <2>8, <2>9 DEF Promoted, e, q
<1> QED
  BY <1>3, <1>4

\* Everybody in the queue is an entry that a caller offered, but for the
\* priority, and no id is in it twice.
THEOREM QueueTypeCorrect == QueueSpec => []QueueTypeOK
<1>1. QueueInit => QueueTypeOK
  <2>1. Keyed(<<>>, 0)
    BY DEF Keyed
  <2> QED
    BY <2>1 DEF QueueInit, QueueTypeOK
<1>2. QueueTypeOK /\ [QueueNext]_queue => QueueTypeOK'
  <2> SUFFICES ASSUME QueueTypeOK, [QueueNext]_queue
               PROVE  QueueTypeOK'
    OBVIOUS
  <2>1. ASSUME NEW n, Keyed(queue', n)
        PROVE  QueueTypeOK'
    BY <2>1, KeyedPlaces DEF QueueTypeOK
  <2>2. ASSUME NEW entry \in Entries, Join(entry)
        PROVE  QueueTypeOK'
    <3> DEFINE l == Len(queue)
    <3>1. /\ entry \in QueueEntries /\ queue' = Append(queue, entry)
          /\ entry.id \notin IDsOf(queue)
      BY <2>2, QueueAssumption DEF Join, QueueEntries
    <3>2. /\ queue \in Seq(QueueEntries) /\ l \in Nat
          /\ \A j, k \in 1 .. l : queue[j].id = queue[k].id => j = k
      BY DEF QueueTypeOK, Keyed
    <3>3. \A k \in 1 .. l : queue[k].id # entry.id
      BY <3>1, <3>2 DEF IDsOf
    <3>4. /\ queue' \in [1 .. l + 1 -> QueueEntries] /\ queue'[l + 1] = entry
          /\ \A k \in 1 .. l : queue'[k] = queue[k]
      <4>1. /\ queue' \in Seq(QueueEntries) /\ Len(queue') = l + 1
            /\ queue'[l + 1] = entry /\ \A k \in 1 .. l : queue'[k] = queue[k]
        BY <3>1, <3>2
      <4>2. queue' \in [1 .. Len(queue') -> QueueEntries]
        BY <4>1
      <4> QED
        BY <4>1, <4>2
    <3>5. \A k \in 1 .. l + 1 : k \in 1 .. l \/ k = l + 1
      BY <3>2
    <3> HIDE DEF l
    <3>6. Keyed(queue', l + 1)
      BY <3>2, <3>3, <3>4, <3>5 DEF Keyed
    <3> QED
      BY <2>1, <3>6
  <2>3. CASE Arrange
    <3>1. Keyed(OrderQueue(ToSet(queue)), Cardinality(ToSet(queue)))
      BY ArrangedPart
    <3> QED
      BY <2>1, <2>3, <3>1 DEF Arrange
  <2>4. ASSUME NEW cancelled \in EntryIDs, NEW now \in QueueTimes,
               PromoteStandby(cancelled, now)
        PROVE  QueueTypeOK'
    <3> DEFINE S == {e \in ToSet(queue) : e.id # cancelled}
    <3>1. Keyed(OrderQueue(S), Cardinality(S))
      BY ArrangedPart
    <3>2. now \in Nat
      BY QueueAssumption
    <3>3. queue' = Promote(OrderQueue(S), now)
      BY <2>4 DEF PromoteStandby
    <3> HIDE DEF S
    <3>4. Keyed(queue', Cardinality(S))
      BY <3>1, <3>2, <3>3, PromoteCases DEF Promoted
    <3> QED
      BY <2>1, <3>4
  <2>5. CASE UNCHANGED queue
    BY <2>5 DEF QueueTypeOK, Keyed
  <2> QED
    BY <2>2, <2>3, <2>4, <2>5 DEF QueueNext
<1> QED
  BY <1>1, <1>2, PTL DEF QueueSpec

\* A cancelled entry leaves a place: the rest is one shorter.
LEMMA RestOfQueue ==
  ASSUME QueueTypeOK, NEW cancelled \in IDsOf(queue)
  PROVE  LET S == {e \in ToSet(queue) : e.id # cancelled} IN
         Cardinality(S) = Len(queue) - 1
<1> DEFINE S == {e \in ToSet(queue) : e.id # cancelled}
<1>1. /\ ToSet(queue) = MembersOf(queue, Len(queue)) /\ ApartByID(ToSet(queue))
      /\ IDsOf(queue) = {queue[k].id : k \in 1 .. Len(queue)}
      /\ IsFiniteSet(ToSet(queue)) /\ Cardinality(ToSet(queue)) = Len(queue)
  BY KeyedPlaces DEF QueueTypeOK
<1>2. PICK x \in ToSet(queue) : x.id = cancelled
  BY <1>1 DEF MembersOf
<1>3. S = ToSet(queue) \ {x}
  BY <1>1, <1>2 DEF ApartByID
<1> HIDE DEF S
<1>4. Cardinality(S) = Len(queue) - 1
  BY <1>1, <1>2, <1>3, FS_RemoveElement
<1> QED
  BY <1>4 DEF S

\* A cancellation is fair: it takes nobody else out of the queue and promotes
\* a standby vessel if one can still make its window, the first to start of
\* those that can, past nobody of a higher priority; whatever the queue.
THEOREM PromotionsAreFair == QueueSpec => PromotionFair
<1> DEFINE Waiting(cancelled, now) == StandbyAt(now) \ {cancelled}
           Kept == \A id \in IDsOf(queue') : EntryOf(queue', id) = EntryOf(queue, id)
           Fair(cancelled, now) ==
             /\ Len(queue') = Len(queue) - 1
             /\ IDsOf(queue') = IDsOf(queue) \ {cancelled}
             /\ IF Waiting(cancelled, now) = {} THEN Kept
                ELSE \E p \in Waiting(cancelled, now) : FairTo(p, Waiting(cancelled, now))
           AllFair == \A cancelled \in EntryIDs, now \in QueueTimes :
                        PromoteStandby(cancelled, now) => Fair(cancelled, now)
<1>1. QueueTypeOK => AllFair
  <2> SUFFICES ASSUME QueueTypeOK, NEW cancelled \in EntryIDs, NEW now \in QueueTimes,
                      PromoteStandby(cancelled, now)
               PROVE  Fair(cancelled, now)
    OBVIOUS
  <2> DEFINE S == {e \in ToSet(queue) : e.id # cancelled}
             n == Cardinality(S)
             o == OrderQueue(S)
             q == queue'
             W == Waiting(cancelled, now)
  <2>1. cancelled \in IDsOf(queue) /\ q = Promote(o, now) /\ now \in Nat
    BY QueueAssumption DEF PromoteStandby
  <2>2. /\ Keyed(o, n) /\ o \in [1 .. n -> S]
        /\ \A x \in S : \E k \in 1 .. n : o[k] = x
        /\ \A j, k \in 1 .. n : j < k => Precedes(o[j], o[k])
    BY ArrangedPart
  <2>3. n = Len(queue) - 1
    BY <2>1, RestOfQueue
  <2>4. Promoted(q, o, n, now)
    <3> HIDE DEF n, o, q
    <3> QED
      BY <2>1, <2>2, PromoteCases
  <2>5. /\ ToSet(queue) = MembersOf(queue, Len(queue))
        /\ IDsOf(queue) = {queue[i].id : i \in 1 .. Len(queue)}
        /\ \A i \in 1 .. Len(queue) : EntryOf(queue, queue[i].id) = queue[i]
    BY KeyedPlaces DEF QueueTypeOK
  <2>6. /\ \A x \in S : x.id \in IDsOf(queue) \ {cancelled} /\ EntryOf(queue, x.id) = x
        /\ \A id \in IDsOf(queue) \ {cancelled} : \E x \in S : x.id = id
    BY <2>5 DEF MembersOf
  <2> HIDE DEF n, o, S
  <2>7. Keyed(q, n) /\ \A k \in 1 .. n : q[k].id = o[k].id
    BY <2>4 DEF Promoted
  <2> HIDE DEF q
  <2>8. /\ IDsOf(q) = {q[k].id : k \in 1 .. n} /\ Len(q) = n
        /\ \A k \in 1 .. n : PlaceOf(q, q[k].id) = k /\ EntryOf(q, q[k].id) = q[k]
    BY <2>7, KeyedPlaces
  <2>9. \A k \in 1 .. n : /\ o[k].id \in IDsOf(queue) \ {cancelled}
                          /\ EntryOf(queue, o[k].id) = o[k]
    BY <2>2, <2>6
  <2>10. \A id \in IDsOf(queue) \ {cancelled} : \E k \in 1 .. n : o[k].id = id
    BY <2>2, <2>6
  <2>11. IDsOf(q) = IDsOf(queue) \ {cancelled}
    BY <2>7, <2>8, <2>9, <2>10
  <2>12. n \in Nat /\ \A k \in 1 .. n : o[k] \in QueueEntries
    BY <2>2 DEF Keyed
  <2>13. \A k \in 1 .. n : o[k].starts \in Nat /\ o[k].requested \in Nat
    BY <2>12 DEF QueueEntries
  <2>14. \A id : id \in W <=> \E k \in 1 .. n : /\ id = o[k].id /\ o[k].priority = "standby"
                                               /\ o[k].starts >= now
    <3>1. ASSUME NEW id \in W
          PROVE  \E k \in 1 .. n : /\ id = o[k].id /\ o[k].priority = "standby"
                                   /\ o[k].starts >= now
      <4>1. /\ id \in IDsOf(queue) \ {cancelled}
            /\ EntryOf(queue, id).priority = "standby" /\ EntryOf(queue, id).starts >= now
        BY <3>1 DEF StandbyAt
      <4>2. PICK k \in 1 .. n : o[k].id = id
        BY <2>10, <4>1
      <4> QED
        BY <2>9, <4>1, <4>2
    <3>2. ASSUME NEW k \in 1 .. n, o[k].priority = "standby", o[k].starts >= now
          PROVE  o[k].id \in W
      BY <2>9, <3>2 DEF StandbyAt
    <3> QED
      BY <3>1, <3>2
  <2> HIDE DEF W
  <2>15. CASE W = {}
    <3>1. \A k \in 1 .. n : ~(o[k].priority = "standby" /\ o[k].starts >= now)
      BY <2>14, <2>15
    <3>2. q = o
      BY <2>1, <2>4, <2>13, <3>1 DEF Promoted
    <3>3. \A id \in IDsOf(q) : EntryOf(q, id) = EntryOf(queue, id)
      BY <2>8, <2>9, <3>2
    <3> QED
      BY <2>3, <2>8, <2>11, <2>15, <3>3 DEF q, W
  <2>16. CASE W # {}
    <3>1. PICK j \in 1 .. n : o[j].priority = "standby" /\ o[j].starts >= now
      BY <2>14, <2>16
    <3>2. ~(\A k \in 1 .. n : o[k].priority # "standby" \/ o[k].starts < now)
      BY <2>1, <2>13, <3>1
    <3>3. PICK k \in 1 .. n :
            /\ o[k].priority = "standby" /\ now <= o[k].starts
            /\ q[k] = [o[k] EXCEPT !.priority = "scheduled"]
            /\ \A i \in 1 .. n : i # k => q[i] = o[i]
            /\ \A i \in 1 .. n : i < k => o[i].priority # "standby" \/ o[i].starts < now
      BY <2>4, <3>2 DEF Promoted
    <3> DEFINE p == q[k].id
    <3>4. EntryOf(q, p) = q[k] /\ EntryOf(queue, p) = o[k] /\ PlaceOf(q, p) = k
      BY <2>7, <2>8, <2>9
    <3>5. p \in W
      BY <2>1, <2>7, <2>13, <2>14, <3>3
    <3>6. ASSUME NEW i \in 1 .. n, k < i
          PROVE  /\ o[i].priority = "standby"
                 /\ \/ o[i].starts > o[k].starts
                    \/ o[i].starts = o[k].starts /\ o[i].requested >= o[k].requested
      <4> DEFINE x == SortKey(o[k])
                 y == SortKey(o[i])
      <4>1. Lexical(x, y)
        BY <2>2, <3>6, PrecedesLexical
      <4>2. /\ x[1] = 4 /\ x[2] = 0 /\ x[3] = o[k].starts /\ x[4] = o[k].requested
            /\ y[1] \in 1 .. 4 /\ (o[i].priority = "standby" <=> y[1] = 4)
            /\ y[3] = o[i].starts /\ y[4] = o[i].requested
            /\ (o[i].priority = "standby" => y[2] = 0)
        BY <2>12, <3>3, SortKeys
      <4> HIDE DEF x, y
      <4>3. y[1] = 4
        BY <4>1, <4>2 DEF Lexical
      <4>4. x[3] < y[3] \/ (x[3] = y[3] /\ (x[4] < y[4] \/ x[4] = y[4]))
        BY <4>1, <4>2, <4>3 DEF Lexical
      <4> QED
        BY <2>13, <4>2, <4>3, <4>4
    <3>7. ASSUME NEW other \in W \ {p}
          PROVE  LET f == EntryOf(queue, other) IN
                 \/ f.starts > o[k].starts
                 \/ f.starts = o[k].starts /\ f.requested >= o[k].requested
      <4>1. PICK i \in 1 .. n : /\ other = o[i].id /\ o[i].priority = "standby"
                                /\ o[i].starts >= now
        BY <2>14
      <4>2. i # k
        BY <2>7, <4>1
      <4>3. ~(i < k)
        BY <2>1, <2>13, <3>3, <4>1
      <4>4. k < i
        BY <2>12, <4>2, <4>3
      <4> QED
        BY <2>9, <3>6, <4>1, <4>4
    <3>8. ASSUME NEW other \in IDsOf(q) \ {p}
          PROVE  /\ EntryOf(q, other) = EntryOf(queue, other)
                 /\ PlaceOf(q, other) > k => EntryOf(queue, other).priority = "standby"
      <4>1. PICK i \in 1 .. n : other = q[i].id /\ i # k
        BY <2>8
      <4>2. EntryOf(q, other) = o[i] /\ PlaceOf(q, other) = i
        BY <2>8, <3>3, <4>1
      <4>3. EntryOf(queue, other) = o[i]
        BY <2>7, <2>9, <4>1
      <4> QED
        BY <2>12, <3>6, <4>2, <4>3
    <3> HIDE DEF p
    <3>9. FairTo(p, W)
      BY <3>3, <3>4, <3>7, <3>8 DEF FairTo, q
    <3> QED
      BY <2>3, <2>8, <2>11, <2>16, <3>5, <3>9 DEF q, W
  <2> QED
    BY <2>15, <2>16
<1>2. QueueTypeOK => [AllFair]_queue
  BY <1>1
<1> QED
  BY <1>2, QueueTypeCorrect, PTL DEF PromotionFair

=============================================================================

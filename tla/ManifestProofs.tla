---------------------------- MODULE ManifestProofs ----------------------------
(***************************************************************************)
(* Proofs about resolving, for every repository and host: what discovery   *)
(* finds, that a manifest is the merge of what the matching layers say,    *)
(* when a conflict is reported, where files are looked up, that a report   *)
(* of what a revision affects is of the hosts and of what they are told,   *)
(* and that the graph of a pass is the graph of that manifest.             *)
(***************************************************************************)
EXTENDS CompileProofs, GraphProofs

-----------------------------------------------------------------------------
(* What is sorted: each once, and in order.                                *)

\* A relation that orders any two of a set.
Orders(R, S) ==
  /\ \A x \in S : <<x, x>> \notin R
  /\ \A x, y, z \in S : <<x, y>> \in R /\ <<y, z>> \in R => <<x, z>> \in R
  /\ \A x, y \in S : x # y => <<x, y>> \in R \/ <<y, x>> \in R

Below(R, S, x) == {y \in S : <<y, x>> \in R}

\* Each has a place of its own, behind as many as are before it.
LEMMA RanksAreTaken ==
  ASSUME NEW S, IsFiniteSet(S), NEW R, Orders(R, S)
  PROVE  /\ \A n \in 1..Cardinality(S) : \E x \in S : Cardinality(Below(R, S, x)) = n - 1
         /\ \A x \in S : Cardinality(Below(R, S, x)) \in 0..(Cardinality(S) - 1)
         /\ \A x, y \in S : <<x, y>> \in R => Cardinality(Below(R, S, x)) < Cardinality(Below(R, S, y))
<1> DEFINE below(x) == Below(R, S, x)
           size == Cardinality(S)
<1>1. size \in Nat
  BY FS_CardinalityType
<1>2. ASSUME NEW x \in S PROVE IsFiniteSet(below(x)) /\ Cardinality(below(x)) \in 0..(size - 1)
  <2>1. below(x) \subseteq S /\ x \notin below(x)
    BY DEF Orders, Below
  <2>2. below(x) # S /\ below(x) \in SUBSET S
    BY <2>1 DEF Below
  <2> HIDE DEF below
  <2>3. IsFiniteSet(below(x)) /\ Cardinality(below(x)) <= size /\ size # Cardinality(below(x))
    BY <2>2, FS_Subset
  <2>4. Cardinality(below(x)) \in Nat
    BY <2>3, FS_CardinalityType
  <2> HIDE DEF size
  <2> QED
    BY <1>1, <2>3, <2>4
<1>3. ASSUME NEW x \in S, NEW y \in S, <<x, y>> \in R
      PROVE  Cardinality(below(x)) < Cardinality(below(y))
  <2>1. below(x) \subseteq below(y)
    BY <1>3 DEF Orders, Below
  <2>2. x \in below(y) /\ x \notin below(x)
    BY <1>3 DEF Orders, Below
  <2> HIDE DEF below, size
  <2>3. IsFiniteSet(below(y)) /\ Cardinality(below(x)) \in Nat /\ Cardinality(below(y)) \in Nat
    BY <1>1, <1>2
  <2>4. below(x) \in SUBSET below(y) /\ below(x) # below(y)
    BY <2>1, <2>2
  <2>5. Cardinality(below(x)) <= Cardinality(below(y)) /\ Cardinality(below(y)) # Cardinality(below(x))
    BY <2>3, <2>4, FS_Subset
  <2> QED
    BY <2>3, <2>5
<1>4. ASSUME NEW n \in 1..size PROVE \E x \in S : Cardinality(below(x)) = n - 1
  <2> DEFINE rank == [x \in S |-> Cardinality(below(x))]
             T == 0..(size - 1)
  <2>1. rank \in [S -> T]
    BY <1>2
  <2>2. \A x, y \in S : rank[x] = rank[y] => x = y
    <3>1. \A x, y \in S : x # y => Cardinality(below(x)) # Cardinality(below(y))
      <4> SUFFICES ASSUME NEW x \in S, NEW y \in S, x # y PROVE Cardinality(below(x)) # Cardinality(below(y))
        OBVIOUS
      <4>1. <<x, y>> \in R \/ <<y, x>> \in R
        BY DEF Orders
      <4>2. Cardinality(below(x)) \in Nat /\ Cardinality(below(y)) \in Nat
        BY <1>1, <1>2
      <4>3. Cardinality(below(x)) < Cardinality(below(y)) \/ Cardinality(below(y)) < Cardinality(below(x))
        BY <1>3, <4>1
      <4> HIDE DEF below
      <4> QED
        BY <4>2, <4>3
    <3> HIDE DEF below
    <3> QED
      BY <3>1
  <2>3. IsFiniteSet(T) /\ Cardinality(T) = size
    <3>1. 0 \in Int /\ size - 1 \in Int
      BY <1>1
    <3> HIDE DEF size
    <3>2. IsFiniteSet(0..(size - 1)) /\ Cardinality(0..(size - 1)) = IF 0 > size - 1 THEN 0 ELSE (size - 1) - 0 + 1
      BY <3>1, FS_Interval
    <3> QED
      BY <1>1, <3>2
  <2> HIDE DEF rank, T
  <2>4. rank \in Injection(S, T)
    BY <2>1, <2>2 DEF Injection, IsInjective
  <2>5. rank \in Surjection(S, T)
    BY <2>3, <2>4, FS_Injection DEF size
  <2>6. n - 1 \in T
    BY <1>1 DEF T
  <2>7. PICK x \in S : rank[x] = n - 1
    BY <2>5, <2>6 DEF Surjection
  <2> QED
    BY <2>7 DEF rank
<1> QED
  BY <1>2, <1>3, <1>4

\* And in these places they are sorted.
LEMMA RankedIsSorted ==
  ASSUME NEW S, IsFiniteSet(S), NEW R, Orders(R, S), NEW s, s \in [1..Cardinality(S) -> S],
         \A n \in 1..Cardinality(S) : Cardinality(Below(R, S, s[n])) = n - 1
  PROVE  /\ Cardinality(S) \in Nat
         /\ (\A x \in S : \E n \in DOMAIN s : s[n] = x)
         /\ \A m, n \in DOMAIN s : m < n <=> <<s[m], s[n]>> \in R
<1> DEFINE below(x) == Below(R, S, x)
           size == Cardinality(S)
<1>1. size \in Nat
  BY FS_CardinalityType
<1>2. s \in [1..size -> S] /\ \A n \in 1..size : s[n] \in S /\ Cardinality(below(s[n])) = n - 1
  OBVIOUS
<1>3. /\ \A x \in S : Cardinality(below(x)) \in 0..(size - 1)
      /\ \A x, y \in S : <<x, y>> \in R => Cardinality(below(x)) < Cardinality(below(y))
  BY RanksAreTaken
<1> HIDE DEF below, size
<1>4. \A n \in 1..size : s[n] \in S /\ Cardinality(below(s[n])) = n - 1
  BY <1>2
<1>5. DOMAIN s = 1..size /\ s \in [1..size -> S]
  BY <1>2
<1>6. \A m, n \in 1..size : m < n <=> <<s[m], s[n]>> \in R
  <2> SUFFICES ASSUME NEW m \in 1..size, NEW n \in 1..size PROVE m < n <=> <<s[m], s[n]>> \in R
    OBVIOUS
  <2>1. /\ s[m] \in S /\ Cardinality(below(s[m])) = m - 1
        /\ s[n] \in S /\ Cardinality(below(s[n])) = n - 1
    BY <1>4
  <2>2. <<s[m], s[n]>> \in R => m - 1 < n - 1
    BY <1>3, <2>1
  <2>3. <<s[n], s[m]>> \in R => n - 1 < m - 1
    BY <1>3, <2>1
  <2>4. m < n => s[m] # s[n]
    BY <1>1, <2>1
  <2>5. s[m] # s[n] => <<s[m], s[n]>> \in R \/ <<s[n], s[m]>> \in R
    BY <2>1 DEF Orders
  <2> QED
    BY <1>1, <2>2, <2>3, <2>4, <2>5
<1>7. \A x \in S : \E n \in 1..size : s[n] = x
  <2> SUFFICES ASSUME NEW x \in S PROVE \E n \in 1..size : s[n] = x
    OBVIOUS
  <2> DEFINE n == Cardinality(below(x)) + 1
  <2>1. n \in 1..size /\ n - 1 = Cardinality(below(x))
    BY <1>1, <1>3
  <2>2. s[n] \in S /\ Cardinality(below(s[n])) = Cardinality(below(x))
    BY <1>4, <2>1
  <2>3. Cardinality(below(x)) \in Nat
    BY <1>1, <1>3
  <2> HIDE DEF n
  <2>4. s[n] # x => <<s[n], x>> \in R \/ <<x, s[n]>> \in R
    BY <2>2 DEF Orders
  <2>5. <<s[n], x>> \notin R /\ <<x, s[n]>> \notin R
    <3>1. /\ <<s[n], x>> \in R => Cardinality(below(s[n])) < Cardinality(below(x))
          /\ <<x, s[n]>> \in R => Cardinality(below(x)) < Cardinality(below(s[n]))
      BY <1>3, <2>2
    <3> QED
      BY <2>2, <2>3, <3>1
  <2> QED
    BY <2>1, <2>4, <2>5
<1> QED
  BY <1>1, <1>5, <1>6, <1>7 DEF size

\* A choice by rank is such a place.
LEMMA ChosenByRank ==
  ASSUME NEW S, IsFiniteSet(S), NEW R, Orders(R, S), NEW s, DOMAIN s = 1..Cardinality(S), s = [n \in DOMAIN s |-> s[n]],
         \A n \in 1..Cardinality(S) : \A x \in S :
           Cardinality(Below(R, S, x)) = n - 1 => s[n] \in S /\ Cardinality(Below(R, S, s[n])) = n - 1
  PROVE  /\ Cardinality(S) \in Nat /\ s \in [1..Cardinality(S) -> S]
         /\ (\A x \in S : \E n \in DOMAIN s : s[n] = x)
         /\ \A m, n \in DOMAIN s : m < n <=> <<s[m], s[n]>> \in R
<1>1. \A n \in 1..Cardinality(S) : \E x \in S : Cardinality(Below(R, S, x)) = n - 1
  BY RanksAreTaken
<1>2. \A n \in 1..Cardinality(S) : s[n] \in S /\ Cardinality(Below(R, S, s[n])) = n - 1
  BY <1>1
<1>3. s \in [1..Cardinality(S) -> S]
  BY <1>2
<1>4. IsFiniteSet(S) /\ Orders(R, S) /\ \A n \in 1..Cardinality(S) : Cardinality(Below(R, S, s[n])) = n - 1
  BY <1>2
<1>5. /\ Cardinality(S) \in Nat
      /\ \A x \in S : \E n \in DOMAIN s : s[n] = x
      /\ \A m, n \in DOMAIN s : m < n <=> <<s[m], s[n]>> \in R
  BY <1>3, <1>4, RankedIsSorted
<1> QED
  BY <1>3, <1>5

-----------------------------------------------------------------------------
(* Paths in a repository, name by name.                                    *)

Route == Seq(Nat)

\* A part of a path.
LEMMA RoutePart ==
  ASSUME NEW p \in Route, NEW m \in Nat, NEW n \in Nat, 1 <= m, m <= n + 1, n <= Len(p)
  PROVE  /\ SubSeq(p, m, n) \in Route
         /\ Len(SubSeq(p, m, n)) = n - m + 1
         /\ \A i \in 1..(n - m + 1) : SubSeq(p, m, n)[i] = p[m + i - 1]
<1>1. Len(p) \in Nat /\ \A i \in 1..Len(p) : p[i] \in Nat
  BY LenProperties, ElementOfSeq DEF Route
<1>2. \A i \in m..n : p[i] \in Nat
  BY <1>1
<1>3. m \in Int /\ n \in Int
  OBVIOUS
<1>4. /\ SubSeq(p, m, n) \in Seq(Nat)
      /\ Len(SubSeq(p, m, n)) = IF m <= n THEN n - m + 1 ELSE 0
      /\ \A i \in 1..(n - m + 1) : SubSeq(p, m, n)[i] = p[m + i - 1]
  BY <1>2, <1>3, SubSeqProperties
<1>5. (IF m <= n THEN n - m + 1 ELSE 0) = n - m + 1
  OBVIOUS
<1> QED
  BY <1>4, <1>5 DEF Route

\* Two routes start alike up to n when they agree step by step.
LEMMA SameStart ==
  ASSUME NEW p \in Route, NEW q \in Route, NEW n \in Nat, n <= Len(p), n <= Len(q)
  PROVE  SubSeq(p, 1, n) = SubSeq(q, 1, n) <=> \A i \in 1..n : p[i] = q[i]
<1> DEFINE a == SubSeq(p, 1, n)
           b == SubSeq(q, 1, n)
<1>1. 1 \in Nat /\ 1 <= 1 /\ 1 <= n + 1 /\ n - 1 + 1 = n /\ \A i \in 1..n : 1 + i - 1 = i
  OBVIOUS
<1>2. /\ a \in Seq(Nat) /\ Len(a) = n - 1 + 1 /\ \A i \in 1..(n - 1 + 1) : a[i] = p[1 + i - 1]
      /\ b \in Seq(Nat) /\ Len(b) = n - 1 + 1 /\ \A i \in 1..(n - 1 + 1) : b[i] = q[1 + i - 1]
  BY <1>1, RoutePart DEF Route
<1> HIDE DEF a, b
<1>3. Len(a) = n /\ Len(b) = n /\ \A i \in 1..n : a[i] = p[i] /\ b[i] = q[i]
  BY <1>1, <1>2
<1>4. a = b <=> \A i \in 1..n : a[i] = b[i]
  BY <1>2, <1>3, SeqEqual
<1> QED
  BY <1>3, <1>4 DEF a, b

\* IsPrefix of the community modules, said of the steps.
LEMMA RoutePrefix ==
  ASSUME NEW p \in Route, NEW q \in Route
  PROVE  Discovery!IsPrefix(p, q) <=> Agrees(p, q)
<1>1. Len(p) \in Nat /\ Len(q) \in Nat /\ Len(p) <= Len(p)
  BY LenProperties DEF Route
<1>2. Len(p) <= Len(q) => (SubSeq(p, 1, Len(p)) = SubSeq(q, 1, Len(p)) <=> \A i \in 1..Len(p) : p[i] = q[i])
  BY <1>1, SameStart
<1> QED
  BY <1>2 DEF Discovery!IsPrefix, Agrees

\* Of two routes one starts the other, or they part somewhere.
LEMMA RouteFacts ==
  ASSUME NEW p \in Route, NEW q \in Route
  PROVE  /\ Agrees(p, p)
         /\ Agrees(p, q) /\ Len(p) = Len(q) => p = q
         /\ p # q => (Agrees(p, q) /\ Len(p) < Len(q)) \/ (Agrees(q, p) /\ Len(q) < Len(p))
                       \/ \E i \in 1..Len(p) : i <= Len(q) /\ p[i] # q[i]
<1>1. Len(p) \in Nat /\ Len(q) \in Nat
  BY LenProperties DEF Route
<1>2. Agrees(p, q) /\ Len(p) = Len(q) => p = q
  BY SeqEqual DEF Route, Agrees
<1> QED
  BY <1>1, <1>2 DEF Agrees

\* What starts a route starts what that one starts; two starts of one route are nested.
LEMMA RoutesAgree ==
  ASSUME NEW p \in Route, NEW q \in Route, NEW r \in Route
  PROVE  /\ Agrees(p, q) /\ Agrees(q, r) => Agrees(p, r)
         /\ Agrees(p, r) /\ Agrees(q, r) /\ Len(p) <= Len(q) => Agrees(p, q)
<1>1. Len(p) \in Nat /\ Len(q) \in Nat /\ Len(r) \in Nat
  BY LenProperties DEF Route
<1>2. ASSUME Agrees(p, q), Agrees(q, r) PROVE Agrees(p, r)
  <2>1. Len(p) <= Len(q) /\ Len(q) <= Len(r)
    BY <1>2 DEF Agrees
  <2>2. \A i \in 1..Len(p) : i \in 1..Len(q) /\ p[i] = q[i]
    BY <1>1, <1>2, <2>1 DEF Agrees
  <2>3. \A i \in 1..Len(q) : q[i] = r[i]
    BY <1>2 DEF Agrees
  <2> QED
    BY <1>1, <2>1, <2>2, <2>3 DEF Agrees
<1>3. ASSUME Agrees(p, r), Agrees(q, r), Len(p) <= Len(q) PROVE Agrees(p, q)
  <2>1. \A i \in 1..Len(p) : i \in 1..Len(q) /\ p[i] = r[i]
    BY <1>1, <1>3 DEF Agrees
  <2>2. \A i \in 1..Len(q) : q[i] = r[i]
    BY <1>3 DEF Agrees
  <2> QED
    BY <1>3, <2>1, <2>2 DEF Agrees
<1> QED
  BY <1>2, <1>3

\* The order of paths.
Comes(p, q) ==
  \/ Agrees(p, q) /\ Len(p) < Len(q)
  \/ \E i \in 1..Len(p) : i <= Len(q) /\ p[i] < q[i] /\ \A j \in 1..(i - 1) : p[j] = q[j]

\* strings.Compare on paths, said of the first step where they part.
LEMMA PathBeforeMeans ==
  ASSUME NEW p \in Route, NEW q \in Route
  PROVE  Discovery!PathBefore(p, q) <=> Comes(p, q)
<1>1. Len(p) \in Nat /\ Len(q) \in Nat
  BY LenProperties DEF Route
<1>2. Discovery!IsStrictPrefix(p, q) <=> Agrees(p, q) /\ Len(p) < Len(q)
  <2>1. Discovery!IsStrictPrefix(p, q) <=> Agrees(p, q) /\ p # q
    BY RoutePrefix DEF Discovery!IsStrictPrefix
  <2>2. Agrees(p, q) => Len(p) <= Len(q)
    BY DEF Agrees
  <2> QED
    BY <1>1, <2>1, <2>2, RouteFacts
<1>3. ASSUME NEW i \in 1..Len(p), i <= Len(q)
      PROVE  SubSeq(p, 1, i - 1) = SubSeq(q, 1, i - 1) <=> \A j \in 1..(i - 1) : p[j] = q[j]
  <2>1. i - 1 \in Nat /\ i - 1 <= Len(p) /\ i - 1 <= Len(q)
    BY <1>1, <1>3
  <2> QED
    BY <2>1, SameStart
<1> QED
  BY <1>2, <1>3 DEF Discovery!PathBefore, Comes

\* Routes are ordered by it: the sorts of Discover have one result.
LEMMA ComesOrders ==
  ASSUME NEW p \in Route, NEW q \in Route, NEW r \in Route
  PROVE  /\ ~Comes(p, p)
         /\ Comes(p, q) /\ Comes(q, r) => Comes(p, r)
         /\ p # q => Comes(p, q) \/ Comes(q, p)
<1>1. /\ Len(p) \in Nat /\ Len(q) \in Nat /\ Len(r) \in Nat
      /\ \A i \in 1..Len(p) : p[i] \in Nat
      /\ \A i \in 1..Len(q) : q[i] \in Nat
      /\ \A i \in 1..Len(r) : r[i] \in Nat
  BY LenProperties, ElementOfSeq DEF Route
<1>2. ~Comes(p, p)
  BY <1>1 DEF Comes
<1>3. ASSUME Comes(p, q), Comes(q, r) PROVE Comes(p, r)
  <2>1. CASE Agrees(p, q) /\ Len(p) < Len(q) /\ Agrees(q, r) /\ Len(q) < Len(r)
    BY <1>1, <2>1, RoutesAgree DEF Comes
  <2>2. ASSUME Agrees(p, q), Len(p) < Len(q), NEW i \in 1..Len(q),
               i <= Len(r), q[i] < r[i], \A j \in 1..(i - 1) : q[j] = r[j]
        PROVE  Comes(p, r)
    <3>1. CASE i <= Len(p)
      <4>1. i \in 1..Len(p) /\ p[i] = q[i] /\ \A j \in 1..(i - 1) : p[j] = q[j]
        BY <1>1, <2>2, <3>1 DEF Agrees
      <4> QED
        BY <2>2, <4>1 DEF Comes
    <3>2. CASE i > Len(p)
      <4>1. Len(p) < Len(r) /\ \A j \in 1..Len(p) : p[j] = r[j]
        BY <1>1, <2>2, <3>2 DEF Agrees
      <4> QED
        BY <1>1, <4>1 DEF Comes, Agrees
    <3> QED
      BY <1>1, <3>1, <3>2
  <2>3. ASSUME Agrees(q, r), Len(q) < Len(r), NEW i \in 1..Len(p),
               i <= Len(q), p[i] < q[i], \A j \in 1..(i - 1) : p[j] = q[j]
        PROVE  Comes(p, r)
    <3>1. i <= Len(r) /\ q[i] = r[i] /\ \A j \in 1..(i - 1) : q[j] = r[j]
      BY <1>1, <2>3 DEF Agrees
    <3> QED
      BY <2>3, <3>1 DEF Comes
  <2>4. ASSUME NEW i \in 1..Len(p), i <= Len(q), p[i] < q[i], \A j \in 1..(i - 1) : p[j] = q[j],
               NEW k \in 1..Len(q), k <= Len(r), q[k] < r[k], \A j \in 1..(k - 1) : q[j] = r[j]
        PROVE  Comes(p, r)
    <3>1. CASE i < k
      <4>1. i \in 1..(k - 1) /\ i <= Len(r) /\ \A j \in 1..(i - 1) : j \in 1..(k - 1)
        BY <1>1, <2>4, <3>1
      <4>2. p[i] < r[i] /\ \A j \in 1..(i - 1) : p[j] = r[j]
        BY <2>4, <4>1
      <4> QED
        BY <4>1, <4>2 DEF Comes
    <3>2. CASE i = k
      <4>1. p[i] < r[i] /\ i <= Len(r)
        BY <1>1, <2>4, <3>2
      <4>2. \A j \in 1..(i - 1) : p[j] = r[j]
        BY <2>4, <3>2
      <4> QED
        BY <4>1, <4>2 DEF Comes
    <3>3. CASE k < i
      <4>1. k \in 1..Len(p) /\ k \in 1..(i - 1) /\ \A j \in 1..(k - 1) : j \in 1..(i - 1)
        BY <1>1, <2>4, <3>3
      <4>2. p[k] < r[k] /\ \A j \in 1..(k - 1) : p[j] = r[j]
        BY <2>4, <4>1
      <4> QED
        BY <2>4, <4>1, <4>2 DEF Comes
    <3> QED
      BY <1>1, <3>1, <3>2, <3>3
  <2> QED
    BY <1>3, <2>1, <2>2, <2>3, <2>4 DEF Comes
<1>4. ASSUME p # q PROVE Comes(p, q) \/ Comes(q, p)
  <2> DEFINE D == {i \in 1..Len(p) : i <= Len(q) /\ p[i] # q[i]}
  <2>1. CASE D = {}
    BY <1>1, <1>4, <2>1, RouteFacts DEF Comes
  <2>2. CASE D # {}
    <3>1. D \subseteq Nat
      BY <1>1
    <3> HIDE DEF D
    <3>2. PICK i \in D : \A j \in D : i <= j
      BY <2>2, <3>1, ALeastOne
    <3>3. i \in 1..Len(p) /\ i \in 1..Len(q) /\ p[i] # q[i]
      BY <1>1, <3>2 DEF D
    <3>4. \A j \in 1..(i - 1) : j \notin D /\ j \in 1..Len(p) /\ j <= Len(q)
      BY <1>1, <3>1, <3>2, <3>3
    <3>5. \A j \in 1..(i - 1) : p[j] = q[j]
      BY <3>4 DEF D
    <3>6. i <= Len(p) /\ i <= Len(q) /\ (p[i] < q[i] \/ q[i] < p[i])
      BY <1>1, <3>3
    <3> QED
      BY <3>3, <3>5, <3>6 DEF Comes
  <2> QED
    BY <2>1, <2>2
<1> QED
  BY <1>2, <1>3, <1>4

-----------------------------------------------------------------------------
(* The files of a fleet, from its root on.                                 *)

Repositories == {c.repo : c \in Cases} \cup {c.later : c \in Cases}
FilesOf(q) == q.broken \cup {d.file : d \in Documented(q)}
Fleet == Discovery!Root(repo)
From(file) == Discovery!Relative(Fleet, file)

\* Cardinality seen through the instance is Cardinality.
LEMMA DiscoveryCountsAlike ==
  \A S : Discovery!Cardinality(S) = Cardinality(S)
BY DEF Discovery!Cardinality, Cardinality, Discovery!IsFiniteSet, IsFiniteSet

\* A repository is finite, and no path in it is both a file and a directory.
LEMMA RepositoryFacts ==
  ASSUME NEW q \in Repositories
  PROVE  /\ IsFiniteSet(q.fleets) /\ IsFiniteSet(Documented(q))
         /\ q.fleets \subseteq Route \ {<<>>} /\ q.exclude \subseteq Route \ {<<>>}
         /\ FilesOf(q) \subseteq Route \ {<<>>}
         /\ \A f \in q.fleets : Discovery!Dir(f) \notin FilesOf(q)
<1>1. PICK c \in Cases : q \in {c.repo, c.later}
  BY DEF Repositories
<1> DEFINE files == q.broken \cup {d.file : d \in Documented(q)}
<1>2. /\ IsFiniteSet(q.fleets) /\ IsFiniteSet(Documented(q))
      /\ q.fleets \cup q.exclude \cup files \subseteq Seq(Nat) \ {<<>>}
      /\ \A f \in q.fleets : Discovery!Dir(f) \notin files
  BY <1>1, RepositoryAssumption
<1>3. files = FilesOf(q)
  BY DEF FilesOf
<1> HIDE DEF files
<1> QED
  BY <1>2, <1>3 DEF Route

\* Its documents have the fields their kind has, and one file does not hold two of one name.
LEMMA DocumentFacts ==
  ASSUME NEW q \in Repositories
  PROVE  /\ \A h \in q.hosts : h = [file |-> h.file, name |-> h.name, labels |-> h.labels] /\ h.name \in Nat
         /\ \A l \in q.layers :
              /\ l = [file |-> l.file, name |-> l.name, precedence |-> l.precedence, match |-> l.match]
              /\ l.precedence \in Int
         /\ \A d \in q.resources :
              /\ d = [file |-> d.file, ref |-> d.ref, desired |-> d.desired, deps |-> d.deps]
              /\ d.ref \in Refs /\ d.deps \in [EdgeKinds -> Seq(Nat)] /\ d.deps \in [EdgeKinds -> Seq(Refs)]
         /\ \A h, k \in q.hosts : h.name = k.name /\ h.file = k.file => h = k
         /\ \A l, m \in q.layers : l.precedence = m.precedence /\ l.file = m.file => l = m
         /\ \A d, e \in q.resources : d.ref = e.ref /\ d.file = e.file => d = e
<1>1. PICK c \in Cases : q \in {c.repo, c.later}
  BY DEF Repositories
<1>2. [EdgeKinds -> Seq(Refs)] \subseteq [EdgeKinds -> Seq(Nat)]
  <2>1. Refs \subseteq Nat
    BY RefsAssumption
  <2>2. \A list \in Seq(Refs) : list \in Seq(Nat)
    BY <2>1, SeqMonotonic
  <2> QED
    BY <2>2
<1> QED
  BY <1>1, <1>2, RepositoryAssumption

\* The directory of a file.
LEMMA DirFacts ==
  ASSUME NEW f \in Route, f # <<>>
  PROVE  /\ Discovery!Dir(f) \in Route
         /\ Len(Discovery!Dir(f)) = Len(f) - 1
         /\ \A i \in 1..(Len(f) - 1) : Discovery!Dir(f)[i] = f[i]
         /\ Len(f) \in Nat /\ Len(f) >= 1
<1>1. Len(f) \in Nat \ {0}
  BY EmptySeq DEF Route
<1>2. 1 \in Nat /\ Len(f) - 1 \in Nat /\ 1 <= Len(f) - 1 + 1 /\ Len(f) - 1 <= Len(f) /\ 1 <= 1
  BY <1>1
<1> DEFINE n == Len(f) - 1
           g == SubSeq(f, 1, n)
<1>3. /\ g \in Route /\ Len(g) = n - 1 + 1 /\ \A i \in 1..(n - 1 + 1) : g[i] = f[1 + i - 1]
  BY <1>2, RoutePart
<1>4. Discovery!Dir(f) = g
  BY DEF Discovery!Dir, Discovery!Front
<1> HIDE DEF g
<1>5. Len(g) = n /\ \A i \in 1..n : g[i] = f[i]
  BY <1>1, <1>3
<1> QED
  BY <1>1, <1>3, <1>4, <1>5

\* What is under a directory, from there on.
LEMMA RelativeFacts ==
  ASSUME NEW r \in Route, NEW f \in Route, Agrees(r, f)
  PROVE  /\ Discovery!Relative(r, f) \in Route
         /\ Len(Discovery!Relative(r, f)) = Len(f) - Len(r)
         /\ \A i \in 1..(Len(f) - Len(r)) : Discovery!Relative(r, f)[i] = f[Len(r) + i]
         /\ Len(r) \in Nat /\ Len(f) \in Nat /\ Len(r) <= Len(f)
<1>1. Len(r) \in Nat /\ Len(f) \in Nat /\ Len(r) <= Len(f)
  BY LenProperties DEF Route, Agrees
<1> DEFINE m == Len(r) + 1
           n == Len(f)
           g == SubSeq(f, m, n)
<1>2. m \in Nat /\ n \in Nat /\ 1 <= m /\ m <= n + 1 /\ n <= Len(f)
  BY <1>1
<1>3. g \in Route /\ Len(g) = n - m + 1 /\ \A i \in 1..(n - m + 1) : g[i] = f[m + i - 1]
  BY <1>2, RoutePart
<1>4. Discovery!Relative(r, f) = g
  BY DEF Discovery!Relative
<1> HIDE DEF g
<1>5. n - m + 1 = Len(f) - Len(r) /\ \A i \in 1..(Len(f) - Len(r)) : m + i - 1 = Len(r) + i
  BY <1>1
<1> QED
  BY <1>1, <1>3, <1>4, <1>5

\* Two files under one directory are above each other there as anywhere.
LEMMA RelativeAgrees ==
  ASSUME NEW r \in Route, NEW f \in Route, NEW g \in Route, Agrees(r, f), Agrees(r, g)
  PROVE  /\ Discovery!Relative(r, f) = Discovery!Relative(r, g) => f = g
         /\ Agrees(Discovery!Relative(r, f), Discovery!Relative(r, g)) <=> Agrees(f, g)
<1> DEFINE a == Discovery!Relative(r, f)
           b == Discovery!Relative(r, g)
           n == Len(r)
<1>1. /\ a \in Route /\ Len(a) = Len(f) - n /\ \A i \in 1..(Len(f) - n) : a[i] = f[n + i]
      /\ b \in Route /\ Len(b) = Len(g) - n /\ \A i \in 1..(Len(g) - n) : b[i] = g[n + i]
      /\ n \in Nat /\ Len(f) \in Nat /\ Len(g) \in Nat /\ n <= Len(f) /\ n <= Len(g)
  BY RelativeFacts
<1>2. \A i \in 1..n : f[i] = r[i] /\ g[i] = r[i]
  BY DEF Agrees
<1> HIDE DEF a, b, n
<1>3. ASSUME Agrees(a, b) PROVE Agrees(f, g)
  <2>1. Len(f) <= Len(g)
    BY <1>1, <1>3 DEF Agrees
  <2>2. ASSUME NEW i \in 1..Len(f), i > n PROVE f[i] = g[i]
    <3>1. i - n \in 1..(Len(f) - n) /\ i - n \in 1..(Len(g) - n) /\ n + (i - n) = i
      BY <1>1, <2>1, <2>2
    <3>2. a[i - n] = b[i - n]
      BY <1>1, <1>3, <3>1 DEF Agrees
    <3>3. a[i - n] = f[n + (i - n)] /\ b[i - n] = g[n + (i - n)]
      BY <1>1, <3>1
    <3> QED
      BY <3>1, <3>2, <3>3
  <2>3. ASSUME NEW i \in 1..Len(f) PROVE f[i] = g[i]
    <3>1. i > n \/ i \in 1..n
      BY <1>1, <2>3
    <3> QED
      BY <1>2, <2>2, <3>1
  <2> QED
    BY <2>1, <2>3 DEF Agrees
<1>4. ASSUME Agrees(f, g) PROVE Agrees(a, b)
  <2>1. Len(f) <= Len(g) /\ Len(a) <= Len(b)
    BY <1>1, <1>4 DEF Agrees
  <2>2. ASSUME NEW i \in 1..Len(a) PROVE a[i] = b[i]
    <3>1. i \in 1..(Len(f) - n) /\ i \in 1..(Len(g) - n) /\ n + i \in 1..Len(f)
      BY <1>1, <2>1
    <3>2. f[n + i] = g[n + i]
      BY <1>4, <3>1 DEF Agrees
    <3> QED
      BY <1>1, <3>1, <3>2
  <2> QED
    BY <2>1, <2>2 DEF Agrees
<1>5. ASSUME a = b PROVE f = g
  <2>1. Agrees(a, b) /\ Len(f) = Len(g)
    BY <1>1, <1>5, RouteFacts
  <2> QED
    BY <1>3, <2>1, RouteFacts
<1> QED
  BY <1>3, <1>4, <1>5 DEF a, b

\* Taking the directory and going from the root on can be swapped.
LEMMA DirRelative ==
  ASSUME NEW r \in Route, NEW f \in Route, Agrees(r, f), Len(r) < Len(f)
  PROVE  /\ f # <<>> /\ Discovery!Relative(r, f) # <<>>
         /\ Agrees(r, Discovery!Dir(f))
         /\ Discovery!Dir(Discovery!Relative(r, f)) = Discovery!Relative(r, Discovery!Dir(f))
<1> DEFINE a == Discovery!Relative(r, f)
           d == Discovery!Dir(f)
<1>1. /\ a \in Route /\ Len(a) = Len(f) - Len(r) /\ \A i \in 1..(Len(f) - Len(r)) : a[i] = f[Len(r) + i]
      /\ Len(r) \in Nat /\ Len(f) \in Nat
  BY RelativeFacts
<1>2. f # <<>> /\ a # <<>>
  <2>1. Len(f) # 0 /\ Len(a) # 0
    BY <1>1
  <2> QED
    BY <2>1, EmptySeq
<1>3. /\ d \in Route /\ Len(d) = Len(f) - 1 /\ \A i \in 1..(Len(f) - 1) : d[i] = f[i]
      /\ Discovery!Dir(a) \in Route /\ Len(Discovery!Dir(a)) = Len(a) - 1
      /\ \A i \in 1..(Len(a) - 1) : Discovery!Dir(a)[i] = a[i]
  BY <1>1, <1>2, DirFacts
<1> HIDE DEF a, d
<1>4. Agrees(r, d)
  <2>1. Len(r) <= Len(d) /\ \A i \in 1..Len(r) : i \in 1..(Len(f) - 1)
    BY <1>1, <1>3
  <2>2. \A i \in 1..Len(r) : r[i] = f[i]
    BY DEF Agrees
  <2> QED
    BY <1>3, <2>1, <2>2 DEF Agrees
<1>5. /\ Discovery!Relative(r, d) \in Route /\ Len(Discovery!Relative(r, d)) = Len(d) - Len(r)
      /\ \A i \in 1..(Len(d) - Len(r)) : Discovery!Relative(r, d)[i] = d[Len(r) + i]
  BY <1>3, <1>4, RelativeFacts
<1>6. Len(Discovery!Relative(r, d)) = Len(Discovery!Dir(a))
  BY <1>1, <1>3, <1>5
<1>7. ASSUME NEW i \in 1..Len(Discovery!Dir(a)) PROVE Discovery!Dir(a)[i] = Discovery!Relative(r, d)[i]
  <2>1. i \in 1..(Len(a) - 1) /\ i \in 1..(Len(f) - Len(r)) /\ i \in 1..(Len(d) - Len(r)) /\ Len(r) + i \in 1..(Len(f) - 1)
    BY <1>1, <1>3, <1>7
  <2>2. Discovery!Dir(a)[i] = a[i] /\ a[i] = f[Len(r) + i]
    BY <1>1, <1>3, <2>1
  <2>3. Discovery!Relative(r, d)[i] = d[Len(r) + i] /\ d[Len(r) + i] = f[Len(r) + i]
    BY <1>3, <1>5, <2>1
  <2> QED
    BY <2>2, <2>3
<1>8. Discovery!Dir(a) = Discovery!Relative(r, d)
  BY <1>3, <1>5, <1>6, <1>7, SeqEqual DEF Route
<1> QED
  BY <1>2, <1>4, <1>8 DEF a, d

\* The fleet root, and what is under it.
LEMMA RootFacts ==
  ASSUME repo \in Repositories, Discovery!HasOneFleet(repo)
  PROVE  /\ Fleet \in Route
         /\ \A f \in FilesOf(repo) : f \in Route /\ (Agrees(Fleet, f) => Len(Fleet) < Len(f))
<1>1. /\ IsFiniteSet(repo.fleets) /\ repo.fleets \subseteq Route \ {<<>>}
      /\ FilesOf(repo) \subseteq Route \ {<<>>} /\ \A f \in repo.fleets : Discovery!Dir(f) \notin FilesOf(repo)
  BY RepositoryFacts
<1>2. Cardinality(repo.fleets) = 1
  BY DiscoveryCountsAlike DEF Discovery!HasOneFleet
<1>3. PICK f : repo.fleets = {f}
  BY <1>1, <1>2, FS_Singleton
<1> DEFINE file == CHOOSE g \in repo.fleets : TRUE
<1>4. file \in repo.fleets
  BY <1>3
<1>5. Fleet = Discovery!Dir(file)
  BY DEF Fleet, Discovery!Root
<1> HIDE DEF file
<1>6. Fleet \in Route /\ Fleet \notin FilesOf(repo)
  BY <1>1, <1>4, <1>5, DirFacts
<1>7. ASSUME NEW g \in FilesOf(repo), Agrees(Fleet, g) PROVE Len(Fleet) < Len(g)
  <2>1. g \in Route /\ g # Fleet
    BY <1>1, <1>6
  <2>2. Len(Fleet) \in Nat /\ Len(g) \in Nat /\ Len(Fleet) <= Len(g)
    BY <1>6, <1>7, <2>1, LenProperties DEF Route, Agrees
  <2> QED
    BY <1>6, <1>7, <2>1, <2>2, RouteFacts
<1> QED
  BY <1>1, <1>6, <1>7

\* A file is the fleet's where the root is above it and no pattern covers it.
LEMMA MineIsOurs ==
  ASSUME repo \in Repositories, Discovery!HasOneFleet(repo), NEW d, d.file \in FilesOf(repo)
  PROVE  /\ Ours(d) <=> Discovery!Mine(repo, d.file)
         /\ Ours(d) => Agrees(Fleet, d.file) /\ Len(Fleet) < Len(d.file)
<1> DEFINE f == d.file
           rel == Discovery!Relative(Fleet, f)
<1>1. Fleet \in Route /\ f \in Route /\ (Agrees(Fleet, f) => Len(Fleet) < Len(f))
  BY RootFacts
<1>2. repo.exclude \subseteq Route \ {<<>>}
  BY RepositoryFacts
<1>3. Discovery!IsPrefix(Fleet, f) <=> Agrees(Fleet, f)
  BY <1>1, RoutePrefix
<1> HIDE DEF f
<1>4. ASSUME Agrees(Fleet, f)
      PROVE  Discovery!Excluded(repo, rel) <=> \E pattern \in repo.exclude : Discovery!IsPrefix(Fleet \o pattern, f)
  <2>1. /\ rel \in Route /\ Len(rel) = Len(f) - Len(Fleet) /\ \A i \in 1..(Len(f) - Len(Fleet)) : rel[i] = f[Len(Fleet) + i]
        /\ Len(Fleet) \in Nat /\ Len(f) \in Nat
    BY <1>1, <1>4, RelativeFacts
  <2> HIDE DEF rel
  <2>2. ASSUME NEW p \in Route, p # <<>>
        PROVE  /\ Discovery!IsPrefix(Fleet \o p, f) <=> Agrees(p, rel)
               /\ Agrees(p, rel) <=> \E n \in 1..Len(rel) : SubSeq(rel, 1, n) = p
    <3>1. Len(p) \in Nat /\ Len(p) # 0
      BY <2>2, EmptySeq, LenProperties DEF Route
    <3>2. /\ Fleet \o p \in Route /\ Len(Fleet \o p) = Len(Fleet) + Len(p)
          /\ \A i \in 1..(Len(Fleet) + Len(p)) : (Fleet \o p)[i] = IF i <= Len(Fleet) THEN Fleet[i] ELSE p[i - Len(Fleet)]
      BY <1>1, ConcatProperties DEF Route
    <3>3. Discovery!IsPrefix(Fleet \o p, f) <=> Agrees(Fleet \o p, f)
      BY <1>1, <3>2, RoutePrefix
    <3>4. ASSUME Agrees(Fleet \o p, f) PROVE Agrees(p, rel)
      <4>1. Len(p) <= Len(rel)
        BY <2>1, <3>1, <3>2, <3>4 DEF Agrees
      <4>2. ASSUME NEW i \in 1..Len(p) PROVE p[i] = rel[i]
        <5>1. /\ Len(Fleet) + i \in 1..(Len(Fleet) + Len(p)) /\ ~(Len(Fleet) + i <= Len(Fleet))
              /\ Len(Fleet) + i - Len(Fleet) = i /\ i \in 1..(Len(f) - Len(Fleet))
          BY <2>1, <3>1, <4>1
        <5>2. (Fleet \o p)[Len(Fleet) + i] = p[i]
          BY <3>2, <5>1
        <5>3. (Fleet \o p)[Len(Fleet) + i] = f[Len(Fleet) + i]
          BY <3>2, <3>4, <5>1 DEF Agrees
        <5> QED
          BY <2>1, <5>1, <5>2, <5>3
      <4> QED
        BY <4>1, <4>2 DEF Agrees
    <3>5. ASSUME Agrees(p, rel) PROVE Agrees(Fleet \o p, f)
      <4>1. Len(Fleet \o p) <= Len(f) /\ Len(p) <= Len(rel) /\ \A i \in 1..Len(p) : p[i] = rel[i]
        BY <2>1, <3>1, <3>2, <3>5 DEF Agrees
      <4>2. ASSUME NEW i \in 1..Len(Fleet \o p) PROVE (Fleet \o p)[i] = f[i]
        <5>1. CASE i <= Len(Fleet)
          <6>1. (Fleet \o p)[i] = Fleet[i] /\ i \in 1..Len(Fleet)
            BY <2>1, <3>1, <3>2, <5>1
          <6> QED
            BY <1>4, <6>1 DEF Agrees
        <5>2. CASE ~(i <= Len(Fleet))
          <6>1. /\ (Fleet \o p)[i] = p[i - Len(Fleet)] /\ i - Len(Fleet) \in 1..Len(p)
                /\ i - Len(Fleet) \in 1..(Len(f) - Len(Fleet)) /\ Len(Fleet) + (i - Len(Fleet)) = i
            BY <2>1, <3>1, <3>2, <4>1, <5>2
          <6>2. p[i - Len(Fleet)] = rel[i - Len(Fleet)]
            BY <4>1, <6>1
          <6>3. rel[i - Len(Fleet)] = f[Len(Fleet) + (i - Len(Fleet))]
            BY <2>1, <6>1
          <6> QED
            BY <6>1, <6>2, <6>3
        <5> QED
          BY <5>1, <5>2
      <4> QED
        BY <4>1, <4>2 DEF Agrees
    <3>6. Agrees(p, rel) => Len(p) \in 1..Len(rel) /\ SubSeq(rel, 1, Len(p)) = p
      <4>1. Agrees(p, rel) => Len(p) \in 1..Len(rel)
        BY <2>1, <3>1 DEF Agrees
      <4>2. Agrees(p, rel) <=> Discovery!IsPrefix(p, rel)
        BY <2>1, RoutePrefix
      <4>3. Discovery!IsPrefix(p, rel) => SubSeq(p, 1, Len(p)) = SubSeq(rel, 1, Len(p))
        BY DEF Discovery!IsPrefix
      <4>4. SubSeq(p, 1, Len(p)) = p
        BY SubSeqFull DEF Route
      <4> QED
        BY <4>1, <4>2, <4>3, <4>4
    <3>7. ASSUME NEW n \in 1..Len(rel), SubSeq(rel, 1, n) = p PROVE Agrees(p, rel)
      <4>1. 1 \in Nat /\ n \in Nat /\ 1 <= 1 /\ 1 <= n + 1 /\ n <= Len(rel) /\ n - 1 + 1 = n /\ \A i \in 1..n : 1 + i - 1 = i
        BY <2>1
      <4>2. /\ Len(SubSeq(rel, 1, n)) = n - 1 + 1
            /\ \A i \in 1..(n - 1 + 1) : SubSeq(rel, 1, n)[i] = rel[1 + i - 1]
        BY <2>1, <4>1, RoutePart
      <4>3. Len(p) = n /\ \A i \in 1..n : p[i] = rel[i]
        BY <3>7, <4>1, <4>2
      <4> QED
        BY <4>1, <4>3 DEF Agrees
    <3> QED
      BY <3>3, <3>4, <3>5, <3>6, <3>7
  <2>3. Discovery!Excluded(repo, rel) <=> \E p \in repo.exclude : \E n \in 1..Len(rel) : SubSeq(rel, 1, n) = p
    BY DEF Discovery!Excluded
  <2> QED
    BY <1>2, <2>2, <2>3
<1>5. Ours(d) <=> Agrees(Fleet, f) /\ \A pattern \in repo.exclude : ~Discovery!IsPrefix(Fleet \o pattern, f)
  BY <1>3 DEF Ours, Fleet, f
<1>6. Discovery!Mine(repo, f) <=> Agrees(Fleet, f) /\ ~Discovery!Excluded(repo, rel)
  BY <1>3 DEF Discovery!Mine, Fleet
<1> QED
  BY <1>1, <1>4, <1>5, <1>6 DEF f

-----------------------------------------------------------------------------
(* What discovery finds, and in which order.                               *)

\* A document as it is known from the fleet root on.
Placed(d) == [d EXCEPT !.file = From(@)]

\* What is collected are the fleet's documents.
LEMMA CollectFacts ==
  ASSUME repo \in Repositories, Discovery!HasOneFleet(repo), NEW D, D \subseteq Documented(repo)
  PROVE  /\ Discovery!Collect(repo, D) = {Placed(d) : d \in {d \in D : Ours(d)}}
         /\ IsFiniteSet(Discovery!Collect(repo, D))
         /\ \A d \in D : Ours(d) => /\ d.file \in Route /\ d.file # <<>> /\ From(d.file) \in Route /\ From(d.file) # <<>>
                                    /\ Fleet \in Route /\ Agrees(Fleet, d.file) /\ Len(Fleet) < Len(d.file)
<1>1. \A d \in D : d.file \in FilesOf(repo)
  BY DEF FilesOf
<1>2. \A d \in D : Ours(d) <=> Discovery!Mine(repo, d.file)
  BY <1>1, MineIsOurs
<1>3. Discovery!Collect(repo, D) = {Placed(d) : d \in {d \in D : Ours(d)}}
  <2>1. {d \in D : Discovery!Mine(repo, d.file)} = {d \in D : Ours(d)}
    BY <1>2
  <2> QED
    BY <2>1 DEF Discovery!Collect, Placed, From, Fleet
<1>4. IsFiniteSet(Discovery!Collect(repo, D))
  <2> DEFINE T == {d \in D : Ours(d)}
             C == Discovery!Collect(repo, D)
             g == [d \in T |-> Placed(d)]
  <2>1. IsFiniteSet(T)
    <3>1. T \in SUBSET Documented(repo)
      OBVIOUS
    <3> HIDE DEF T
    <3> QED
      BY <3>1, RepositoryFacts, FS_Subset
  <2>2. C = {Placed(d) : d \in T}
    BY <1>3
  <2> HIDE DEF T, C
  <2>3. g \in Surjection(T, C)
    BY <2>2 DEF Surjection
  <2> QED
    BY <2>1, <2>3, FS_Surjection DEF C
<1>5. ASSUME NEW d \in D, Ours(d)
      PROVE  /\ d.file \in Route /\ d.file # <<>> /\ From(d.file) \in Route /\ From(d.file) # <<>>
             /\ Fleet \in Route /\ Agrees(Fleet, d.file) /\ Len(Fleet) < Len(d.file)
  <2>1. d.file \in Route /\ Fleet \in Route /\ Agrees(Fleet, d.file) /\ Len(Fleet) < Len(d.file)
    BY <1>1, <1>5, RootFacts, MineIsOurs
  <2> QED
    BY <2>1, RelativeFacts, DirRelative DEF From
<1> QED
  BY <1>3, <1>4, <1>5

\* The order of two keys, and of two files where the keys are the same.
LEMMA KeysOrder ==
  ASSUME NEW j \in Int, NEW k \in Int, NEW l \in Int, NEW p \in Route, NEW q \in Route, NEW r \in Route
  PROVE  LET Sooner(a, b, c, d) == a < c \/ (a = c /\ Discovery!PathBefore(b, d))
         IN  /\ ~Sooner(j, p, j, p)
             /\ Sooner(j, p, k, q) /\ Sooner(k, q, l, r) => Sooner(j, p, l, r)
             /\ j # k \/ p # q => Sooner(j, p, k, q) \/ Sooner(k, q, j, p)
<1>1. /\ Discovery!PathBefore(p, p) <=> Comes(p, p)
      /\ Discovery!PathBefore(p, q) <=> Comes(p, q)
      /\ Discovery!PathBefore(q, p) <=> Comes(q, p)
      /\ Discovery!PathBefore(q, r) <=> Comes(q, r)
      /\ Discovery!PathBefore(p, r) <=> Comes(p, r)
  BY PathBeforeMeans
<1>2. /\ ~Comes(p, p)
      /\ Comes(p, q) /\ Comes(q, r) => Comes(p, r)
      /\ p # q => Comes(p, q) \/ Comes(q, p)
  BY ComesOrders
<1> QED
  BY <1>1, <1>2

\* The layers go by precedence.
LEMMA LayersSorted ==
  ASSUME repo \in Repositories, Discovery!HasOneFleet(repo)
  PROVE  LET S == Discovery!Collect(repo, repo.layers)
             s == Discovery!Layers(repo)
         IN  /\ Cardinality(S) \in Nat /\ s \in [1..Cardinality(S) -> S] /\ (\A x \in S : \E n \in DOMAIN s : s[n] = x)
             /\ \A m, n \in DOMAIN s : m < n <=> Discovery!ByPrecedence(s[m], s[n])
<1> DEFINE S == Discovery!Collect(repo, repo.layers)
           s == Discovery!Layers(repo)
           R == {pair \in S \X S : Discovery!ByPrecedence(pair[1], pair[2])}
<1>1. repo.layers \subseteq Documented(repo)
  BY DEF Documented
<1>2. /\ S = {Placed(d) : d \in {d \in repo.layers : Ours(d)}}
      /\ IsFiniteSet(S)
      /\ \A d \in repo.layers : Ours(d) => d.file \in Route /\ From(d.file) \in Route
                                           /\ Fleet \in Route /\ Agrees(Fleet, d.file)
  BY <1>1, CollectFacts
<1>3. \A x \in S : \E d \in repo.layers :
        /\ Ours(d) /\ x = [file |-> From(d.file), name |-> d.name, precedence |-> d.precedence, match |-> d.match]
        /\ d = [file |-> d.file, name |-> d.name, precedence |-> d.precedence, match |-> d.match]
        /\ d.precedence \in Int
  <2> SUFFICES ASSUME NEW d \in repo.layers, Ours(d)
      PROVE  /\ Placed(d) = [file |-> From(d.file), name |-> d.name, precedence |-> d.precedence, match |-> d.match]
             /\ d = [file |-> d.file, name |-> d.name, precedence |-> d.precedence, match |-> d.match]
             /\ d.precedence \in Int
    BY <1>2
  <2>1. /\ d = [file |-> d.file, name |-> d.name, precedence |-> d.precedence, match |-> d.match]
        /\ d.precedence \in Int
    BY DocumentFacts
  <2>2. Placed(d) = [d EXCEPT !.file = From(d.file)]
    BY <2>1 DEF Placed
  <2> QED
    BY <2>1, <2>2
<1> HIDE DEF S, s
<1>4. \A x \in S : x.file \in Route /\ x.precedence \in Int
  BY <1>2, <1>3
<1>5. ASSUME NEW x \in S, NEW y \in S, x.file = y.file, x.precedence = y.precedence PROVE x = y
  <2>1. PICK d \in repo.layers : /\ Ours(d) /\ x = [file |-> From(d.file), name |-> d.name, precedence |-> d.precedence, match |-> d.match]
    BY <1>3
  <2>2. PICK e \in repo.layers : /\ Ours(e) /\ y = [file |-> From(e.file), name |-> e.name, precedence |-> e.precedence, match |-> e.match]
    BY <1>3
  <2>3. d.file \in Route /\ e.file \in Route /\ Fleet \in Route /\ Agrees(Fleet, d.file) /\ Agrees(Fleet, e.file)
    BY <1>2, <2>1, <2>2
  <2>4. From(d.file) = From(e.file) /\ d.precedence = e.precedence
    BY <1>5, <2>1, <2>2
  <2>5. d.file = e.file
    BY <2>3, <2>4, RelativeAgrees DEF From
  <2>6. d = e
    BY <2>4, <2>5, DocumentFacts
  <2> QED
    BY <2>1, <2>2, <2>6
<1>6. \A x, y \in S : <<x, y>> \in R <=> Discovery!ByPrecedence(x, y)
  OBVIOUS
<1>7. ASSUME NEW x \in S, NEW y \in S, NEW z \in S
      PROVE  /\ ~Discovery!ByPrecedence(x, x)
             /\ Discovery!ByPrecedence(x, y) /\ Discovery!ByPrecedence(y, z) => Discovery!ByPrecedence(x, z)
             /\ x # y => Discovery!ByPrecedence(x, y) \/ Discovery!ByPrecedence(y, x)
  <2>1. /\ x.precedence \in Int /\ y.precedence \in Int /\ z.precedence \in Int
        /\ x.file \in Route /\ y.file \in Route /\ z.file \in Route
        /\ x # y => x.file # y.file \/ x.precedence # y.precedence
    BY <1>4, <1>5
  <2> QED
    BY <2>1, KeysOrder DEF Discovery!ByPrecedence
<1>8. Orders(R, S)
  <2> HIDE DEF R
  <2> QED
    BY <1>6, <1>7 DEF Orders
<1>9. /\ IsFiniteSet(S) /\ Discovery!Cardinality(S) = Cardinality(S)
      /\ \A x \in S : Discovery!Cardinality({y \in S : Discovery!ByPrecedence(y, x)}) = Cardinality(Below(R, S, x))
  <2>1. \A x \in S : {y \in S : Discovery!ByPrecedence(y, x)} = Below(R, S, x)
    BY <1>6 DEF Below
  <2> QED
    BY <1>2, <2>1, DiscoveryCountsAlike
<1> DEFINE nth(n) == CHOOSE x \in S : Discovery!Cardinality({y \in S : Discovery!ByPrecedence(y, x)}) = n - 1
<1>10. s = [n \in 1..Discovery!Cardinality(S) |-> nth(n)]
  BY DEF s, S, Discovery!Layers, Discovery!InOrder
<1> HIDE DEF R, nth
<1>11. ASSUME NEW n \in 1..Cardinality(S), NEW x \in S, Cardinality(Below(R, S, x)) = n - 1
       PROVE  s[n] \in S /\ Cardinality(Below(R, S, s[n])) = n - 1
  <2>1. nth(n) \in S /\ Discovery!Cardinality({y \in S : Discovery!ByPrecedence(y, nth(n))}) = n - 1
    BY <1>9, <1>11 DEF nth
  <2> QED
    BY <1>9, <1>10, <2>1
<1>12. DOMAIN s = 1..Cardinality(S) /\ s = [n \in DOMAIN s |-> s[n]]
  BY <1>9, <1>10
<1>13. /\ Cardinality(S) \in Nat /\ s \in [1..Cardinality(S) -> S]
       /\ (\A x \in S : \E n \in DOMAIN s : s[n] = x)
       /\ \A m, n \in DOMAIN s : m < n <=> <<s[m], s[n]>> \in R
  <2>1. IsFiniteSet(S)
    BY <1>9
  <2> QED
    BY <1>8, <1>11, <1>12, <2>1, ChosenByRank
<1>14. \A m, n \in DOMAIN s : m < n <=> Discovery!ByPrecedence(s[m], s[n])
  <2>1. \A n \in DOMAIN s : s[n] \in S
    BY <1>13
  <2> QED
    BY <1>6, <1>13, <2>1
<1> QED
  BY <1>13, <1>14 DEF S, s

\* The resources go by reference.
LEMMA ResourcesSorted ==
  ASSUME repo \in Repositories, Discovery!HasOneFleet(repo)
  PROVE  LET S == Discovery!Collect(repo, repo.resources)
             s == Discovery!Resources(repo)
         IN  /\ Cardinality(S) \in Nat /\ s \in [1..Cardinality(S) -> S] /\ (\A x \in S : \E n \in DOMAIN s : s[n] = x)
             /\ \A m, n \in DOMAIN s : m < n <=> Discovery!ByRef(s[m], s[n])
<1> DEFINE S == Discovery!Collect(repo, repo.resources)
           s == Discovery!Resources(repo)
           R == {pair \in S \X S : Discovery!ByRef(pair[1], pair[2])}
<1>1. repo.resources \subseteq Documented(repo)
  BY DEF Documented
<1>2. /\ S = {Placed(d) : d \in {d \in repo.resources : Ours(d)}}
      /\ IsFiniteSet(S)
      /\ \A d \in repo.resources : Ours(d) => d.file \in Route /\ From(d.file) \in Route
                                           /\ Fleet \in Route /\ Agrees(Fleet, d.file)
  BY <1>1, CollectFacts
<1>3. \A x \in S : \E d \in repo.resources :
        /\ Ours(d) /\ x = [file |-> From(d.file), ref |-> d.ref, desired |-> d.desired, deps |-> d.deps]
        /\ d = [file |-> d.file, ref |-> d.ref, desired |-> d.desired, deps |-> d.deps]
        /\ d.ref \in Nat
  <2> SUFFICES ASSUME NEW d \in repo.resources, Ours(d)
      PROVE  /\ Placed(d) = [file |-> From(d.file), ref |-> d.ref, desired |-> d.desired, deps |-> d.deps]
             /\ d = [file |-> d.file, ref |-> d.ref, desired |-> d.desired, deps |-> d.deps]
             /\ d.ref \in Nat
    BY <1>2
  <2>1. /\ d = [file |-> d.file, ref |-> d.ref, desired |-> d.desired, deps |-> d.deps]
        /\ d.ref \in Nat
    BY DocumentFacts, RefsAssumption
  <2>2. Placed(d) = [d EXCEPT !.file = From(d.file)]
    BY <2>1 DEF Placed
  <2> QED
    BY <2>1, <2>2
<1> HIDE DEF S, s
<1>4. \A x \in S : x.file \in Route /\ x.ref \in Int
  BY <1>2, <1>3
<1>5. ASSUME NEW x \in S, NEW y \in S, x.file = y.file, x.ref = y.ref PROVE x = y
  <2>1. PICK d \in repo.resources : /\ Ours(d) /\ x = [file |-> From(d.file), ref |-> d.ref, desired |-> d.desired, deps |-> d.deps]
    BY <1>3
  <2>2. PICK e \in repo.resources : /\ Ours(e) /\ y = [file |-> From(e.file), ref |-> e.ref, desired |-> e.desired, deps |-> e.deps]
    BY <1>3
  <2>3. d.file \in Route /\ e.file \in Route /\ Fleet \in Route /\ Agrees(Fleet, d.file) /\ Agrees(Fleet, e.file)
    BY <1>2, <2>1, <2>2
  <2>4. From(d.file) = From(e.file) /\ d.ref = e.ref
    BY <1>5, <2>1, <2>2
  <2>5. d.file = e.file
    BY <2>3, <2>4, RelativeAgrees DEF From
  <2>6. d = e
    BY <2>4, <2>5, DocumentFacts
  <2> QED
    BY <2>1, <2>2, <2>6
<1>6. \A x, y \in S : <<x, y>> \in R <=> Discovery!ByRef(x, y)
  OBVIOUS
<1>7. ASSUME NEW x \in S, NEW y \in S, NEW z \in S
      PROVE  /\ ~Discovery!ByRef(x, x)
             /\ Discovery!ByRef(x, y) /\ Discovery!ByRef(y, z) => Discovery!ByRef(x, z)
             /\ x # y => Discovery!ByRef(x, y) \/ Discovery!ByRef(y, x)
  <2>1. /\ x.ref \in Int /\ y.ref \in Int /\ z.ref \in Int
        /\ x.file \in Route /\ y.file \in Route /\ z.file \in Route
        /\ x # y => x.file # y.file \/ x.ref # y.ref
    BY <1>4, <1>5
  <2> QED
    BY <2>1, KeysOrder DEF Discovery!ByRef
<1>8. Orders(R, S)
  <2> HIDE DEF R
  <2> QED
    BY <1>6, <1>7 DEF Orders
<1>9. /\ IsFiniteSet(S) /\ Discovery!Cardinality(S) = Cardinality(S)
      /\ \A x \in S : Discovery!Cardinality({y \in S : Discovery!ByRef(y, x)}) = Cardinality(Below(R, S, x))
  <2>1. \A x \in S : {y \in S : Discovery!ByRef(y, x)} = Below(R, S, x)
    BY <1>6 DEF Below
  <2> QED
    BY <1>2, <2>1, DiscoveryCountsAlike
<1> DEFINE nth(n) == CHOOSE x \in S : Discovery!Cardinality({y \in S : Discovery!ByRef(y, x)}) = n - 1
<1>10. s = [n \in 1..Discovery!Cardinality(S) |-> nth(n)]
  BY DEF s, S, Discovery!Resources, Discovery!InOrder
<1> HIDE DEF R, nth
<1>11. ASSUME NEW n \in 1..Cardinality(S), NEW x \in S, Cardinality(Below(R, S, x)) = n - 1
       PROVE  s[n] \in S /\ Cardinality(Below(R, S, s[n])) = n - 1
  <2>1. nth(n) \in S /\ Discovery!Cardinality({y \in S : Discovery!ByRef(y, nth(n))}) = n - 1
    BY <1>9, <1>11 DEF nth
  <2> QED
    BY <1>9, <1>10, <2>1
<1>12. DOMAIN s = 1..Cardinality(S) /\ s = [n \in DOMAIN s |-> s[n]]
  BY <1>9, <1>10
<1>13. /\ Cardinality(S) \in Nat /\ s \in [1..Cardinality(S) -> S]
       /\ (\A x \in S : \E n \in DOMAIN s : s[n] = x)
       /\ \A m, n \in DOMAIN s : m < n <=> <<s[m], s[n]>> \in R
  <2>1. IsFiniteSet(S)
    BY <1>9
  <2> QED
    BY <1>8, <1>11, <1>12, <2>1, ChosenByRank
<1>14. \A m, n \in DOMAIN s : m < n <=> Discovery!ByRef(s[m], s[n])
  <2>1. \A n \in DOMAIN s : s[n] \in S
    BY <1>13
  <2> QED
    BY <1>6, <1>13, <2>1
<1> QED
  BY <1>13, <1>14 DEF S, s

\* The hosts go by name.
LEMMA HostsSorted ==
  ASSUME repo \in Repositories, Discovery!HasOneFleet(repo)
  PROVE  LET S == Discovery!Collect(repo, repo.hosts)
             s == Discovery!InOrder(S, Discovery!ByName)
         IN  /\ Cardinality(S) \in Nat /\ s \in [1..Cardinality(S) -> S] /\ (\A x \in S : \E n \in DOMAIN s : s[n] = x)
             /\ \A m, n \in DOMAIN s : m < n <=> Discovery!ByName(s[m], s[n])
<1> DEFINE S == Discovery!Collect(repo, repo.hosts)
           s == Discovery!InOrder(S, Discovery!ByName)
           R == {pair \in S \X S : Discovery!ByName(pair[1], pair[2])}
<1>1. repo.hosts \subseteq Documented(repo)
  BY DEF Documented
<1>2. /\ S = {Placed(d) : d \in {d \in repo.hosts : Ours(d)}}
      /\ IsFiniteSet(S)
      /\ \A d \in repo.hosts : Ours(d) => d.file \in Route /\ From(d.file) \in Route
                                           /\ Fleet \in Route /\ Agrees(Fleet, d.file)
  BY <1>1, CollectFacts
<1>3. \A x \in S : \E d \in repo.hosts :
        /\ Ours(d) /\ x = [file |-> From(d.file), name |-> d.name, labels |-> d.labels]
        /\ d = [file |-> d.file, name |-> d.name, labels |-> d.labels]
        /\ d.name \in Nat
  <2> SUFFICES ASSUME NEW d \in repo.hosts, Ours(d)
      PROVE  /\ Placed(d) = [file |-> From(d.file), name |-> d.name, labels |-> d.labels]
             /\ d = [file |-> d.file, name |-> d.name, labels |-> d.labels]
             /\ d.name \in Nat
    BY <1>2
  <2>1. /\ d = [file |-> d.file, name |-> d.name, labels |-> d.labels]
        /\ d.name \in Nat
    BY DocumentFacts
  <2>2. Placed(d) = [d EXCEPT !.file = From(d.file)]
    BY <2>1 DEF Placed
  <2> QED
    BY <2>1, <2>2
<1> HIDE DEF S, s
<1>4. \A x \in S : x.file \in Route /\ x.name \in Int
  BY <1>2, <1>3
<1>5. ASSUME NEW x \in S, NEW y \in S, x.file = y.file, x.name = y.name PROVE x = y
  <2>1. PICK d \in repo.hosts : /\ Ours(d) /\ x = [file |-> From(d.file), name |-> d.name, labels |-> d.labels]
    BY <1>3
  <2>2. PICK e \in repo.hosts : /\ Ours(e) /\ y = [file |-> From(e.file), name |-> e.name, labels |-> e.labels]
    BY <1>3
  <2>3. d.file \in Route /\ e.file \in Route /\ Fleet \in Route /\ Agrees(Fleet, d.file) /\ Agrees(Fleet, e.file)
    BY <1>2, <2>1, <2>2
  <2>4. From(d.file) = From(e.file) /\ d.name = e.name
    BY <1>5, <2>1, <2>2
  <2>5. d.file = e.file
    BY <2>3, <2>4, RelativeAgrees DEF From
  <2>6. d = e
    BY <2>4, <2>5, DocumentFacts
  <2> QED
    BY <2>1, <2>2, <2>6
<1>6. \A x, y \in S : <<x, y>> \in R <=> Discovery!ByName(x, y)
  OBVIOUS
<1>7. ASSUME NEW x \in S, NEW y \in S, NEW z \in S
      PROVE  /\ ~Discovery!ByName(x, x)
             /\ Discovery!ByName(x, y) /\ Discovery!ByName(y, z) => Discovery!ByName(x, z)
             /\ x # y => Discovery!ByName(x, y) \/ Discovery!ByName(y, x)
  <2>1. /\ x.name \in Int /\ y.name \in Int /\ z.name \in Int
        /\ x.file \in Route /\ y.file \in Route /\ z.file \in Route
        /\ x # y => x.file # y.file \/ x.name # y.name
    BY <1>4, <1>5
  <2> QED
    BY <2>1, KeysOrder DEF Discovery!ByName
<1>8. Orders(R, S)
  <2> HIDE DEF R
  <2> QED
    BY <1>6, <1>7 DEF Orders
<1>9. /\ IsFiniteSet(S) /\ Discovery!Cardinality(S) = Cardinality(S)
      /\ \A x \in S : Discovery!Cardinality({y \in S : Discovery!ByName(y, x)}) = Cardinality(Below(R, S, x))
  <2>1. \A x \in S : {y \in S : Discovery!ByName(y, x)} = Below(R, S, x)
    BY <1>6 DEF Below
  <2> QED
    BY <1>2, <2>1, DiscoveryCountsAlike
<1> DEFINE nth(n) == CHOOSE x \in S : Discovery!Cardinality({y \in S : Discovery!ByName(y, x)}) = n - 1
<1>10. s = [n \in 1..Discovery!Cardinality(S) |-> nth(n)]
  BY DEF s, S, Discovery!InOrder
<1> HIDE DEF R, nth
<1>11. ASSUME NEW n \in 1..Cardinality(S), NEW x \in S, Cardinality(Below(R, S, x)) = n - 1
       PROVE  s[n] \in S /\ Cardinality(Below(R, S, s[n])) = n - 1
  <2>1. nth(n) \in S /\ Discovery!Cardinality({y \in S : Discovery!ByName(y, nth(n))}) = n - 1
    BY <1>9, <1>11 DEF nth
  <2> QED
    BY <1>9, <1>10, <2>1
<1>12. DOMAIN s = 1..Cardinality(S) /\ s = [n \in DOMAIN s |-> s[n]]
  BY <1>9, <1>10
<1>13. /\ Cardinality(S) \in Nat /\ s \in [1..Cardinality(S) -> S]
       /\ (\A x \in S : \E n \in DOMAIN s : s[n] = x)
       /\ \A m, n \in DOMAIN s : m < n <=> <<s[m], s[n]>> \in R
  <2>1. IsFiniteSet(S)
    BY <1>9
  <2> QED
    BY <1>8, <1>11, <1>12, <2>1, ChosenByRank
<1>14. \A m, n \in DOMAIN s : m < n <=> Discovery!ByName(s[m], s[n])
  <2>1. \A n \in DOMAIN s : s[n] \in S
    BY <1>13
  <2> QED
    BY <1>6, <1>13, <2>1
<1> QED
  BY <1>13, <1>14 DEF S, s

-----------------------------------------------------------------------------
(* The layer a document belongs to.                                        *)

\* The start of a path.
LEMMA StartOfRoute ==
  ASSUME NEW e \in Route, NEW n \in 0..Len(e)
  PROVE  SubSeq(e, 1, n) \in Route /\ Len(SubSeq(e, 1, n)) = n /\ Agrees(SubSeq(e, 1, n), e)
<1>1. Len(e) \in Nat
  BY LenProperties DEF Route
<1>2. n \in Nat /\ 1 \in Nat /\ 1 <= 1 /\ 1 <= n + 1 /\ n <= Len(e) /\ n - 1 + 1 = n /\ \A i \in 1..n : 1 + i - 1 = i
  BY <1>1
<1>3. /\ SubSeq(e, 1, n) \in Route /\ Len(SubSeq(e, 1, n)) = n - 1 + 1
      /\ \A i \in 1..(n - 1 + 1) : SubSeq(e, 1, n)[i] = e[1 + i - 1]
  BY <1>2, RoutePart
<1> QED
  BY <1>2, <1>3 DEF Agrees

\* An ancestor of a directory is one of the starts NearestLayer walks up to.
LEMMA StartAgrees ==
  ASSUME NEW e \in Route, NEW a \in Route
  PROVE  Agrees(a, e) <=> Len(a) \in 0..Len(e) /\ SubSeq(e, 1, Len(a)) = a
<1>1. Len(a) \in Nat /\ Len(e) \in Nat
  BY LenProperties DEF Route
<1>2. ASSUME Agrees(a, e) PROVE Len(a) \in 0..Len(e) /\ SubSeq(e, 1, Len(a)) = a
  <2>1. Len(a) \in 0..Len(e)
    BY <1>1, <1>2 DEF Agrees
  <2> DEFINE b == SubSeq(e, 1, Len(a))
  <2>2. b \in Route /\ Len(b) = Len(a) /\ Agrees(b, e)
    BY <2>1, StartOfRoute
  <2> HIDE DEF b
  <2>3. \A i \in 1..Len(a) : b[i] = a[i]
    BY <1>2, <2>2 DEF Agrees
  <2>4. b = a
    BY <2>2, <2>3, SeqEqual DEF Route
  <2> QED
    BY <2>1, <2>4 DEF b
<1>3. ASSUME Len(a) \in 0..Len(e), SubSeq(e, 1, Len(a)) = a PROVE Agrees(a, e)
  BY <1>3, StartOfRoute
<1> QED
  BY <1>2, <1>3

\* Being above a document can be told from the fleet root on.
LEMMA AboveMeans ==
  ASSUME repo \in Repositories, Discovery!HasOneFleet(repo), NEW l, l.file \in FilesOf(repo), Ours(l),
         NEW d, d.file \in FilesOf(repo), Ours(d)
  PROVE  LET a == Discovery!Dir(From(l.file))
             e == Discovery!Dir(From(d.file))
         IN  /\ a \in Route /\ e \in Route /\ Len(a) = Len(l.file) - Len(Fleet) - 1
             /\ Len(l.file) \in Nat /\ Len(Fleet) \in Nat
             /\ a = From(Discovery!Dir(l.file))
             /\ IsAbove(l, d) <=> Len(a) \in 0..Len(e) /\ SubSeq(e, 1, Len(a)) = a
<1> DEFINE a == Discovery!Dir(From(l.file))
           e == Discovery!Dir(From(d.file))
<1>1. /\ l.file \in Route /\ d.file \in Route /\ Fleet \in Route
      /\ Agrees(Fleet, l.file) /\ Len(Fleet) < Len(l.file)
      /\ Agrees(Fleet, d.file) /\ Len(Fleet) < Len(d.file)
  BY RootFacts, MineIsOurs
<1>2. /\ l.file # <<>> /\ d.file # <<>> /\ Agrees(Fleet, Discovery!Dir(l.file)) /\ Agrees(Fleet, Discovery!Dir(d.file))
      /\ a = From(Discovery!Dir(l.file)) /\ e = From(Discovery!Dir(d.file))
  BY <1>1, DirRelative DEF From
<1>3. /\ Discovery!Dir(l.file) \in Route /\ Discovery!Dir(d.file) \in Route
      /\ Len(Discovery!Dir(l.file)) = Len(l.file) - 1 /\ Len(l.file) \in Nat
  BY <1>1, <1>2, DirFacts
<1> HIDE DEF a, e
<1>4. a \in Route /\ e \in Route /\ Len(a) = Len(Discovery!Dir(l.file)) - Len(Fleet) /\ Len(Fleet) \in Nat
  BY <1>1, <1>2, <1>3, RelativeFacts DEF From
<1>5. Agrees(a, e) <=> Agrees(Discovery!Dir(l.file), Discovery!Dir(d.file))
  BY <1>1, <1>2, <1>3, RelativeAgrees DEF From
<1>6. IsAbove(l, d) <=> Agrees(a, e)
  BY <1>3, <1>5, RoutePrefix DEF IsAbove
<1>7. Len(a) = Len(l.file) - Len(Fleet) - 1
  BY <1>3, <1>4
<1> QED
  BY <1>2, <1>3, <1>4, <1>6, <1>7, StartAgrees DEF a, e

\* The layer of a document is found by walking up, and it is the one that governs it.
LEMMA NearestGoverns ==
  ASSUME repo \in Repositories, ~Discovery!Fails(repo), NEW d \in repo.resources, Ours(d)
  PROVE  LET found == Discovery!Layers(repo)
             near == Discovery!NearestLayer(found, Discovery!Dir(From(d.file)))
         IN  /\ \E g \in repo.layers : Ours(g) /\ near = Placed(g) /\ {l \in repo.layers : Governs(l, d)} = {g}
             /\ near \in {found[i] : i \in DOMAIN found}
<1> DEFINE found == Discovery!Layers(repo)
           e == Discovery!Dir(From(d.file))
           S == Discovery!Collect(repo, repo.layers)
           up == Discovery!Holding(found, e)
           in(n) == Discovery!LayersIn(found, SubSeq(e, 1, n))
<1>1. /\ Discovery!HasOneFleet(repo) /\ ~Discovery!Ambiguous(found)
      /\ \A r \in Discovery!Collect(repo, repo.resources) : ~Discovery!Orphan(found, r)
  BY DEF Discovery!Fails
<1>2. /\ Cardinality(S) \in Nat /\ found \in [1..Cardinality(S) -> S] /\ \A x \in S : \E i \in DOMAIN found : found[i] = x
  BY <1>1, LayersSorted
<1>3. S = {Placed(l) : l \in {l \in repo.layers : Ours(l)}}
  BY <1>1, CollectFacts DEF Documented
<1>4. /\ d.file \in FilesOf(repo) /\ \A l \in repo.layers : l.file \in FilesOf(repo)
      /\ d \in Documented(repo)
  BY DEF FilesOf, Documented
<1>5. \A l \in repo.layers : Placed(l).file = From(l.file)
  <2> SUFFICES ASSUME NEW l \in repo.layers PROVE Placed(l).file = From(l.file)
    OBVIOUS
  <2>1. l = [file |-> l.file, name |-> l.name, precedence |-> l.precedence, match |-> l.match]
    BY DocumentFacts
  <2> QED
    BY <2>1 DEF Placed
<1>6. Placed(d).file = From(d.file)
  <2>1. d = [file |-> d.file, ref |-> d.ref, desired |-> d.desired, deps |-> d.deps]
    BY DocumentFacts
  <2> QED
    BY <2>1 DEF Placed
<1>7. up # {}
  <2>1. Placed(d) \in Discovery!Collect(repo, repo.resources)
    <3>1. repo.resources \subseteq Documented(repo)
      BY DEF Documented
    <3> QED
      BY <1>1, <3>1, CollectFacts
  <2> QED
    BY <1>1, <1>6, <2>1 DEF Discovery!Orphan
<1> HIDE DEF found, S
<1>8. e \in Route /\ Len(e) \in Nat
  <2>1. e \in Route
    BY <1>1, <1>4, AboveMeans
  <2> QED
    BY <2>1, LenProperties DEF Route
<1>9. \A n : n \in up <=> n \in 0..Len(e) /\ \E i \in DOMAIN found : Discovery!Dir(found[i].file) = SubSeq(e, 1, n)
  BY DEF Discovery!Holding, Discovery!LayersIn
<1>10. \A i, n : i \in in(n) <=> i \in DOMAIN found /\ Discovery!Dir(found[i].file) = SubSeq(e, 1, n)
  BY DEF Discovery!LayersIn
<1>11. \A i, j \in DOMAIN found : Discovery!Dir(found[i].file) = Discovery!Dir(found[j].file) => i = j
  BY <1>1 DEF Discovery!Ambiguous
<1> DEFINE m == Discovery!Max(up)
<1>12. m \in up /\ \A n \in up : n <= m
  <2> DEFINE T == {n + 1 : n \in up}
  <2>1. T \subseteq 1..(Len(e) + 1) /\ T # {}
    BY <1>7, <1>8, <1>9
  <2> HIDE DEF T
  <2>2. Len(e) + 1 \in Nat
    BY <1>8
  <2>3. PICK t \in T : \A u \in T : t >= u
    BY <2>1, <2>2, AGreatestOne
  <2>4. PICK k \in up : t = k + 1
    BY DEF T
  <2>5. \A n \in up : n + 1 \in T /\ n \in Nat /\ k \in Nat
    BY <1>8, <1>9 DEF T
  <2>6. \A n \in up : k >= n
    BY <2>3, <2>4, <2>5
  <2>7. m \in up /\ \A n \in up : m >= n
    BY <2>6 DEF Discovery!Max
  <2> HIDE DEF m, up
  <2> QED
    BY <1>8, <1>9, <2>7
<1>13. PICK i \in DOMAIN found : Discovery!Dir(found[i].file) = SubSeq(e, 1, m)
  <2> HIDE DEF m, up
  <2> QED
    BY <1>9, <1>12
<1> DEFINE near == Discovery!NearestLayer(found, e)
<1>14. near = found[i]
  <2>1. in(m) = {i}
    <3>1. \A k : k \in Discovery!LayersIn(found, SubSeq(e, 1, m)) <=> k = i
      <4>1. \A k : k \in Discovery!LayersIn(found, SubSeq(e, 1, m)) <=>
                     k \in DOMAIN found /\ Discovery!Dir(found[k].file) = SubSeq(e, 1, m)
        BY DEF Discovery!LayersIn
      <4> HIDE DEF m, e
      <4>2. \A k \in DOMAIN found : Discovery!Dir(found[k].file) = SubSeq(e, 1, m) => k = i
        BY <1>11, <1>13
      <4> QED
        BY <4>1, <4>2, <1>13
    <3> HIDE DEF e, m
    <3> QED
      BY <3>1
  <2>2. near = found[Discovery!Min(in(m))]
    BY DEF Discovery!NearestLayer
  <2>3. i \in Nat
    BY <1>2, <1>13
  <2>4. Discovery!Min({i}) = i
    BY <2>3 DEF Discovery!Min
  <2> HIDE DEF near, in, m
  <2> QED
    BY <2>1, <2>2, <2>4
<1> HIDE DEF e, up, in, m, near
<1>15. PICK g \in repo.layers : Ours(g) /\ found[i] = Placed(g)
  <2>1. found[i] \in S
    BY <1>2, <1>13
  <2> QED
    BY <1>3, <2>1
<1>16. ASSUME NEW l \in repo.layers, Ours(l), IsAbove(l, d)
       PROVE  /\ Len(l.file) <= Len(g.file)
              /\ Len(l.file) = Len(g.file) => l = g
  <2> DEFINE a == Discovery!Dir(From(l.file))
             b == Discovery!Dir(From(g.file))
  <2>1. /\ a \in Route /\ Len(a) = Len(l.file) - Len(Fleet) - 1
        /\ Len(l.file) \in Nat /\ Len(Fleet) \in Nat
        /\ Len(a) \in 0..Len(e) /\ SubSeq(e, 1, Len(a)) = a
    BY <1>1, <1>4, <1>16, AboveMeans DEF e
  <2>2. b \in Route /\ Len(b) = Len(g.file) - Len(Fleet) - 1 /\ Len(g.file) \in Nat
    BY <1>1, <1>4, <1>15, AboveMeans
  <2>3. PICK j \in DOMAIN found : found[j] = Placed(l)
    BY <1>2, <1>3, <1>16
  <2>4. Discovery!Dir(found[j].file) = a /\ Discovery!Dir(found[i].file) = b
    BY <1>5, <1>15, <2>3
  <2> HIDE DEF a, b
  <2>5. Len(a) \in up
    BY <1>9, <2>1, <2>3, <2>4
  <2>6. m \in 0..Len(e) /\ b = SubSeq(e, 1, m)
    BY <1>9, <1>12, <1>13, <2>4
  <2>7. Len(b) = m
    BY <1>8, <2>6, StartOfRoute
  <2>8. Len(a) <= Len(b)
    BY <1>12, <2>5, <2>7
  <2>9. ASSUME Len(l.file) = Len(g.file) PROVE l = g
    <3>1. Len(a) = Len(b)
      BY <2>1, <2>2, <2>9
    <3>2. a = b
      BY <2>1, <2>6, <2>7, <3>1
    <3>3. i = j
      BY <1>11, <1>13, <2>3, <2>4, <3>2
    <3>4. Placed(l) = Placed(g)
      BY <1>15, <2>3, <3>3
    <3>5. l = [file |-> l.file, name |-> l.name, precedence |-> l.precedence, match |-> l.match] /\
          g = [file |-> g.file, name |-> g.name, precedence |-> g.precedence, match |-> g.match]
      BY DocumentFacts
    <3>6. From(l.file) = From(g.file) /\ l.precedence = g.precedence
      BY <3>4, <3>5 DEF Placed
    <3>7. l.file = g.file
      <4>1. l \in Documented(repo) /\ g \in Documented(repo)
        BY DEF Documented
      <4>2. l.file \in Route /\ g.file \in Route /\ Fleet \in Route /\ Agrees(Fleet, l.file) /\ Agrees(Fleet, g.file)
        BY <1>1, <1>4, <1>15, <1>16, RootFacts, MineIsOurs
      <4> QED
        BY <3>6, <4>2, RelativeAgrees DEF From
    <3> QED
      BY <3>6, <3>7, DocumentFacts
  <2> QED
    BY <2>1, <2>2, <2>8, <2>9
<1>17. IsAbove(g, d)
  <2> DEFINE b == Discovery!Dir(From(g.file))
  <2>1. /\ b \in Route
        /\ IsAbove(g, d) <=> Len(b) \in 0..Len(e) /\ SubSeq(e, 1, Len(b)) = b
    BY <1>1, <1>4, <1>15, AboveMeans DEF e
  <2>2. b = SubSeq(e, 1, m) /\ m \in 0..Len(e)
    BY <1>5, <1>9, <1>12, <1>13, <1>15
  <2>3. Len(SubSeq(e, 1, m)) = m
    BY <1>8, <2>2, StartOfRoute
  <2> HIDE DEF b
  <2> QED
    BY <2>1, <2>2, <2>3
<1>18. \A l \in repo.layers : Governs(l, d) <=> l = g
  <2>1. ASSUME NEW l \in repo.layers, Governs(l, d) PROVE l = g
    <3>1. Ours(l) /\ IsAbove(l, d) /\ Len(g.file) <= Len(l.file)
      BY <1>15, <1>17, <2>1 DEF Governs
    <3>2. Len(l.file) <= Len(g.file) /\ (Len(l.file) = Len(g.file) => l = g)
      BY <1>16, <3>1
    <3>3. Len(l.file) \in Nat /\ Len(g.file) \in Nat
      BY <1>1, <1>4, <1>15, <3>1, AboveMeans
    <3> QED
      BY <3>1, <3>2, <3>3
  <2>2. Governs(g, d)
    BY <1>15, <1>16, <1>17 DEF Governs
  <2> QED
    BY <2>1, <2>2
<1>19. {l \in repo.layers : Governs(l, d)} = {g}
  BY <1>18
<1> QED
  BY <1>13, <1>14, <1>15, <1>19 DEF found, e, near

-----------------------------------------------------------------------------
(* What the places of a walk stand for.                                    *)

LayerAt(i) == CHOOSE l \in repo.layers : Ours(l) /\ Discovery!Layers(repo)[i] = Placed(l)
ResourceAt(j) == CHOOSE d \in repo.resources : Ours(d) /\ Discovery!Resources(repo)[j] = Placed(d)
GovernorOf(d) == CHOOSE g \in repo.layers : Governs(g, d)

\* A document can be told by where it is from the fleet root on.
LEMMA PlacedOnce ==
  ASSUME repo \in Repositories, Discovery!HasOneFleet(repo)
  PROVE  /\ \A l, m \in repo.layers : Ours(l) /\ Ours(m) /\ Placed(l) = Placed(m) => l = m
         /\ \A d, e \in repo.resources : Ours(d) /\ Ours(e) /\ Placed(d) = Placed(e) => d = e
         /\ \A l \in repo.layers : Placed(l) =
              [file |-> From(l.file), name |-> l.name, precedence |-> l.precedence, match |-> l.match]
         /\ \A d \in repo.resources : Placed(d) =
              [file |-> From(d.file), ref |-> d.ref, desired |-> d.desired, deps |-> d.deps]
<1>1. ASSUME NEW l \in repo.layers
      PROVE  Placed(l) = [file |-> From(l.file), name |-> l.name, precedence |-> l.precedence, match |-> l.match]
  <2>1. l = [file |-> l.file, name |-> l.name, precedence |-> l.precedence, match |-> l.match]
    BY DocumentFacts
  <2>2. Placed(l) = [l EXCEPT !.file = From(l.file)]
    BY <2>1 DEF Placed
  <2> QED
    BY <2>1, <2>2
<1>2. ASSUME NEW d \in repo.resources
      PROVE  Placed(d) = [file |-> From(d.file), ref |-> d.ref, desired |-> d.desired, deps |-> d.deps]
  <2>1. d = [file |-> d.file, ref |-> d.ref, desired |-> d.desired, deps |-> d.deps]
    BY DocumentFacts
  <2>2. Placed(d) = [d EXCEPT !.file = From(d.file)]
    BY <2>1 DEF Placed
  <2> QED
    BY <2>1, <2>2
<1>3. ASSUME NEW d \in Documented(repo), Ours(d), NEW e \in Documented(repo), Ours(e), From(d.file) = From(e.file)
      PROVE  d.file = e.file
  <2>1. d.file \in Route /\ e.file \in Route /\ Fleet \in Route /\ Agrees(Fleet, d.file) /\ Agrees(Fleet, e.file)
    BY <1>3, CollectFacts
  <2> QED
    BY <1>3, <2>1, RelativeAgrees DEF From
<1>4. \A l, m \in repo.layers : Ours(l) /\ Ours(m) /\ Placed(l) = Placed(m) => l = m
  <2> SUFFICES ASSUME NEW l \in repo.layers, NEW m \in repo.layers, Ours(l), Ours(m), Placed(l) = Placed(m) PROVE l = m
    OBVIOUS
  <2>1. From(l.file) = From(m.file) /\ l.precedence = m.precedence
    BY <1>1
  <2>2. l.file = m.file
    BY <1>3, <2>1 DEF Documented
  <2> QED
    BY <2>1, <2>2, DocumentFacts
<1>5. \A d, e \in repo.resources : Ours(d) /\ Ours(e) /\ Placed(d) = Placed(e) => d = e
  <2> SUFFICES ASSUME NEW d \in repo.resources, NEW e \in repo.resources, Ours(d), Ours(e), Placed(d) = Placed(e) PROVE d = e
    OBVIOUS
  <2>1. From(d.file) = From(e.file) /\ d.ref = e.ref
    BY <1>2
  <2>2. d.file = e.file
    BY <1>3, <2>1 DEF Documented
  <2> QED
    BY <2>1, <2>2, DocumentFacts
<1> QED
  BY <1>1, <1>2, <1>4, <1>5

\* Each layer of the fleet has a place, and they go by precedence.
LEMMA LayersFound ==
  ASSUME repo \in Repositories, ~Discovery!Fails(repo), set = Discovery!Walk(repo)
  PROVE  /\ \E n \in Nat : DOMAIN set.layers = 1..n
         /\ \A i \in DOMAIN set.layers :
              /\ LayerAt(i) \in repo.layers /\ Ours(LayerAt(i)) /\ LayerAt(i).precedence \in Int
              /\ set.layers[i] = [name |-> LayerAt(i).name, precedence |-> LayerAt(i).precedence,
                                  match |-> LayerAt(i).match, dir |-> From(Discovery!Dir(LayerAt(i).file))]
         /\ \A l \in repo.layers : Ours(l) => \E i \in DOMAIN set.layers : LayerAt(i) = l
         /\ \A i, j \in DOMAIN set.layers : LayerAt(i) = LayerAt(j) => i = j
         /\ \A i, j \in DOMAIN set.layers : i <= j => LayerAt(i).precedence <= LayerAt(j).precedence
<1> DEFINE found == Discovery!Layers(repo)
           S == Discovery!Collect(repo, repo.layers)
<1>1. Discovery!HasOneFleet(repo)
  BY DEF Discovery!Fails
<1>2. /\ Cardinality(S) \in Nat /\ found \in [1..Cardinality(S) -> S] /\ (\A x \in S : \E i \in DOMAIN found : found[i] = x)
      /\ \A m, n \in DOMAIN found : m < n <=> Discovery!ByPrecedence(found[m], found[n])
  BY <1>1, LayersSorted
<1>3. S = {Placed(l) : l \in {l \in repo.layers : Ours(l)}}
  BY <1>1, CollectFacts DEF Documented
<1>4. set.layers = [i \in DOMAIN found |->
                      [name |-> found[i].name, precedence |-> found[i].precedence,
                       match |-> found[i].match, dir |-> Discovery!Dir(found[i].file)]]
  BY DEF Discovery!Walk
<1> HIDE DEF found, S
<1>5. DOMAIN found = 1..Cardinality(S) /\ DOMAIN set.layers = DOMAIN found
  BY <1>2, <1>4
<1>6. ASSUME NEW i \in DOMAIN found
      PROVE  LayerAt(i) \in repo.layers /\ Ours(LayerAt(i)) /\ found[i] = Placed(LayerAt(i))
  <2>1. found[i] \in S
    BY <1>2
  <2>2. \E l \in repo.layers : Ours(l) /\ found[i] = Placed(l)
    BY <1>3, <2>1
  <2> QED
    BY <2>2 DEF LayerAt, found
<1>7. ASSUME NEW i \in DOMAIN found
      PROVE  /\ LayerAt(i).precedence \in Int
             /\ found[i].precedence = LayerAt(i).precedence
             /\ set.layers[i] = [name |-> LayerAt(i).name, precedence |-> LayerAt(i).precedence,
                                 match |-> LayerAt(i).match, dir |-> From(Discovery!Dir(LayerAt(i).file))]
  <2> DEFINE l == LayerAt(i)
  <2>1. l \in repo.layers /\ Ours(l) /\ found[i] = Placed(l)
    BY <1>6
  <2> HIDE DEF l
  <2>2. found[i] = [file |-> From(l.file), name |-> l.name, precedence |-> l.precedence, match |-> l.match]
    BY <1>1, <2>1, PlacedOnce
  <2>3. Discovery!Dir(From(l.file)) = From(Discovery!Dir(l.file))
    <3>1. l.file \in FilesOf(repo)
      BY <2>1 DEF FilesOf, Documented
    <3> QED
      BY <1>1, <2>1, <3>1, AboveMeans
  <2>4. l.precedence \in Int
    BY <2>1, DocumentFacts
  <2> QED
    BY <1>4, <2>2, <2>3, <2>4 DEF l
<1>8. ASSUME NEW l \in repo.layers, Ours(l) PROVE \E i \in DOMAIN found : LayerAt(i) = l
  <2>1. PICK i \in DOMAIN found : found[i] = Placed(l)
    BY <1>2, <1>3, <1>8
  <2> QED
    BY <1>1, <1>6, <1>8, <2>1, PlacedOnce
<1>9. ASSUME NEW i \in DOMAIN found, NEW j \in DOMAIN found PROVE LayerAt(i) = LayerAt(j) => i = j
  <2>1. i \in Nat /\ j \in Nat
    BY <1>2, <1>5
  <2>2. i < j <=> Discovery!ByPrecedence(found[i], found[j])
    BY <1>2
  <2>3. j < i <=> Discovery!ByPrecedence(found[j], found[i])
    BY <1>2
  <2>4. i < i <=> Discovery!ByPrecedence(found[i], found[i])
    BY <1>2
  <2>5. LayerAt(i) = LayerAt(j) => found[i] = found[j]
    BY <1>6
  <2> QED
    BY <2>1, <2>2, <2>3, <2>4, <2>5
<1>10. ASSUME NEW i \in DOMAIN found, NEW j \in DOMAIN found, i <= j PROVE LayerAt(i).precedence <= LayerAt(j).precedence
  <2>1. i \in Nat /\ j \in Nat
    BY <1>2, <1>5
  <2>2. i < j => found[i].precedence <= found[j].precedence
    <3>1. i < j => Discovery!ByPrecedence(found[i], found[j])
      BY <1>2
    <3>2. found[i].precedence \in Int /\ found[j].precedence \in Int
      BY <1>7
    <3> QED
      BY <3>1, <3>2 DEF Discovery!ByPrecedence
  <2>3. i = j \/ i < j
    BY <1>10, <2>1
  <2>4. /\ found[i].precedence = LayerAt(i).precedence /\ found[j].precedence = LayerAt(j).precedence
        /\ LayerAt(i).precedence \in Int
    BY <1>7
  <2>5. CASE i = j
    BY <2>4, <2>5
  <2>6. CASE i < j
    BY <2>2, <2>4, <2>6
  <2> QED
    BY <2>3, <2>5, <2>6
<1> QED
  BY <1>2, <1>5, <1>6, <1>7, <1>8, <1>9, <1>10

\* Each resource has one too, and knows the layer that governs it.
LEMMA ResourcesFound ==
  ASSUME repo \in Repositories, ~Discovery!Fails(repo), set = Discovery!Walk(repo)
  PROVE  /\ \E n \in Nat : DOMAIN set.resources = 1..n
         /\ \A j \in DOMAIN set.resources :
              LET d == ResourceAt(j)
                  g == GovernorOf(d)
              IN  /\ d \in repo.resources /\ Ours(d) /\ g \in repo.layers /\ Ours(g) /\ Governs(g, d)
                  /\ set.resources[j] = [ref |-> d.ref, desired |-> d.desired, deps |-> d.deps,
                                         layer |-> g.name, layerDir |-> From(Discovery!Dir(g.file))]
         /\ \A d \in repo.resources : Ours(d) =>
              /\ \E j \in DOMAIN set.resources : ResourceAt(j) = d
              /\ {l \in repo.layers : Governs(l, d)} = {GovernorOf(d)}
<1> DEFINE found == Discovery!Resources(repo)
           places == Discovery!Layers(repo)
           S == Discovery!Collect(repo, repo.resources)
<1>1. Discovery!HasOneFleet(repo)
  BY DEF Discovery!Fails
<1>2. /\ Cardinality(S) \in Nat /\ found \in [1..Cardinality(S) -> S] /\ (\A x \in S : \E i \in DOMAIN found : found[i] = x)
  BY <1>1, ResourcesSorted
<1>3. S = {Placed(d) : d \in {d \in repo.resources : Ours(d)}}
  BY <1>1, CollectFacts DEF Documented
<1>4. set.resources = [i \in DOMAIN found |-> Discovery!Assign(places, found[i])]
  BY DEF Discovery!Walk
<1> HIDE DEF found, S, places
<1>5. DOMAIN found = 1..Cardinality(S) /\ DOMAIN set.resources = DOMAIN found
  BY <1>2, <1>4
<1>6. ASSUME NEW j \in DOMAIN found
      PROVE  ResourceAt(j) \in repo.resources /\ Ours(ResourceAt(j)) /\ found[j] = Placed(ResourceAt(j))
  <2>1. found[j] \in S
    BY <1>2
  <2>2. \E d \in repo.resources : Ours(d) /\ found[j] = Placed(d)
    BY <1>3, <2>1
  <2> QED
    BY <2>2 DEF ResourceAt, found
<1>7. ASSUME NEW d \in repo.resources, Ours(d)
      PROVE  /\ GovernorOf(d) \in repo.layers /\ Ours(GovernorOf(d)) /\ Governs(GovernorOf(d), d)
             /\ {l \in repo.layers : Governs(l, d)} = {GovernorOf(d)}
             /\ Discovery!NearestLayer(places, Discovery!Dir(From(d.file))) = Placed(GovernorOf(d))
  <2>1. PICK g \in repo.layers : /\ Ours(g) /\ {l \in repo.layers : Governs(l, d)} = {g}
                                 /\ Discovery!NearestLayer(places, Discovery!Dir(From(d.file))) = Placed(g)
    BY <1>7, NearestGoverns DEF places
  <2>2. GovernorOf(d) = g
    BY <2>1 DEF GovernorOf
  <2> QED
    BY <2>1, <2>2
<1>8. ASSUME NEW j \in DOMAIN found
      PROVE  LET d == ResourceAt(j)
                 g == GovernorOf(d)
             IN  set.resources[j] = [ref |-> d.ref, desired |-> d.desired, deps |-> d.deps,
                                     layer |-> g.name, layerDir |-> From(Discovery!Dir(g.file))]
  <2> DEFINE d == ResourceAt(j)
             g == GovernorOf(d)
  <2>1. d \in repo.resources /\ Ours(d) /\ found[j] = Placed(d)
    BY <1>6
  <2> HIDE DEF d
  <2>2. found[j] = [file |-> From(d.file), ref |-> d.ref, desired |-> d.desired, deps |-> d.deps]
    BY <1>1, <2>1, PlacedOnce
  <2>3. g \in repo.layers /\ Ours(g) /\ Discovery!NearestLayer(places, Discovery!Dir(From(d.file))) = Placed(g)
    BY <1>7, <2>1
  <2> HIDE DEF g
  <2>4. Placed(g) = [file |-> From(g.file), name |-> g.name, precedence |-> g.precedence, match |-> g.match]
    BY <1>1, <2>3, PlacedOnce
  <2>5. Discovery!Dir(From(g.file)) = From(Discovery!Dir(g.file))
    <3>1. g.file \in FilesOf(repo)
      BY <2>3 DEF FilesOf, Documented
    <3> QED
      BY <1>1, <2>3, <3>1, AboveMeans
  <2>6. set.resources[j] = Discovery!Assigned(found[j], Discovery!NearestLayer(places, Discovery!Dir(found[j].file)))
    BY <1>4 DEF Discovery!Assign
  <2>7. set.resources[j] = Discovery!Assigned(found[j], Placed(g))
    BY <2>2, <2>3, <2>6
  <2>8. set.resources[j] = [ref |-> d.ref, desired |-> d.desired, deps |-> d.deps,
                            layer |-> g.name, layerDir |-> From(Discovery!Dir(g.file))]
    BY <2>2, <2>4, <2>5, <2>7 DEF Discovery!Assigned
  <2> QED
    BY <2>8 DEF d, g
<1>9. ASSUME NEW d \in repo.resources, Ours(d) PROVE \E j \in DOMAIN found : ResourceAt(j) = d
  <2>1. PICK j \in DOMAIN found : found[j] = Placed(d)
    BY <1>2, <1>3, <1>9
  <2> QED
    BY <1>1, <1>6, <1>9, <2>1, PlacedOnce
<1> QED
  BY <1>2, <1>5, <1>6, <1>7, <1>8, <1>9

\* The hosts are those the fleet declares.
LEMMA HostsFound ==
  ASSUME repo \in Repositories, ~Discovery!Fails(repo), NEW found, found = Discovery!Walk(repo)
  PROVE  /\ \E n \in Nat : DOMAIN found.hosts = 1..n
         /\ \A i \in DOMAIN found.hosts : found.hosts[i].name \in Nat
         /\ {found.hosts[i].name : i \in DOMAIN found.hosts} = {d.name : d \in {d \in repo.hosts : Ours(d)}}
<1> DEFINE S == Discovery!Collect(repo, repo.hosts)
<1>1. Discovery!HasOneFleet(repo)
  BY DEF Discovery!Fails
<1>2. found.hosts = Discovery!InOrder(S, Discovery!ByName)
  BY DEF Discovery!Walk
<1>3. /\ Cardinality(S) \in Nat /\ found.hosts \in [1..Cardinality(S) -> S]
      /\ (\A x \in S : \E i \in DOMAIN found.hosts : found.hosts[i] = x)
  BY <1>1, <1>2, HostsSorted
<1>4. S = {Placed(d) : d \in {d \in repo.hosts : Ours(d)}}
  BY <1>1, CollectFacts DEF Documented
<1>5. \A d \in repo.hosts : Placed(d).name = d.name /\ d.name \in Nat
  <2> SUFFICES ASSUME NEW d \in repo.hosts PROVE Placed(d).name = d.name /\ d.name \in Nat
    OBVIOUS
  <2>1. d = [file |-> d.file, name |-> d.name, labels |-> d.labels] /\ d.name \in Nat
    BY DocumentFacts
  <2> QED
    BY <2>1 DEF Placed
<1> HIDE DEF S
<1>6. DOMAIN found.hosts = 1..Cardinality(S)
  BY <1>3
<1>7. ASSUME NEW i \in DOMAIN found.hosts PROVE \E d \in repo.hosts : Ours(d) /\ found.hosts[i].name = d.name
  <2>1. found.hosts[i] \in S
    BY <1>3
  <2> QED
    BY <1>4, <1>5, <2>1
<1>8. ASSUME NEW d \in repo.hosts, Ours(d) PROVE \E i \in DOMAIN found.hosts : found.hosts[i].name = d.name
  <2>1. PICK i \in DOMAIN found.hosts : found.hosts[i] = Placed(d)
    BY <1>3, <1>4, <1>8
  <2> QED
    BY <1>5, <2>1
<1>9. {found.hosts[i].name : i \in DOMAIN found.hosts} = {d.name : d \in {d \in repo.hosts : Ours(d)}}
  BY <1>7, <1>8
<1> QED
  BY <1>3, <1>5, <1>6, <1>7, <1>9

-----------------------------------------------------------------------------
(* Numbers in order, and lists of dependencies.                            *)

\* Sorting numbers leaves each of them.
LEMMA NumbersInOrder ==
  \A S : S \subseteq Nat /\ IsFiniteSet(S) =>
    /\ Cardinality(S) \in Nat
    /\ LET s == Discovery!InOrder(S, <)
       IN  s \in [1..Cardinality(S) -> S] /\ \A x \in S : \E n \in DOMAIN s : s[n] = x
    /\ LET s == Resolution!InOrder(S, <)
       IN  s \in [1..Cardinality(S) -> S] /\ \A x \in S : \E n \in DOMAIN s : s[n] = x
<1>0. SUFFICES ASSUME NEW S, S \subseteq Nat, IsFiniteSet(S)
      PROVE  /\ Cardinality(S) \in Nat
             /\ LET s == Discovery!InOrder(S, <)
                IN  s \in [1..Cardinality(S) -> S] /\ \A x \in S : \E n \in DOMAIN s : s[n] = x
             /\ LET s == Resolution!InOrder(S, <)
                IN  s \in [1..Cardinality(S) -> S] /\ \A x \in S : \E n \in DOMAIN s : s[n] = x
  BY Zenon
<1> DEFINE R == {pair \in S \X S : pair[1] < pair[2]}
<1>1. \A x, y \in S : <<x, y>> \in R <=> x < y
  OBVIOUS
<1> HIDE DEF R
<1>2. Orders(R, S)
  BY <1>0, <1>1 DEF Orders
<1>3. \A x \in S : {y \in S : y < x} = Below(R, S, x)
  BY <1>1 DEF Below
<1>4. /\ Discovery!Cardinality(S) = Cardinality(S) /\ Resolution!Cardinality(S) = Cardinality(S)
      /\ \A x \in S : /\ Discovery!Cardinality({y \in S : y < x}) = Cardinality(Below(R, S, x))
                      /\ Resolution!Cardinality({y \in S : y < x}) = Cardinality(Below(R, S, x))
  <2>1. \A T : Resolution!Cardinality(T) = Cardinality(T)
    BY DEF Resolution!Cardinality, Cardinality, Resolution!IsFiniteSet, IsFiniteSet
  <2> QED
    BY <1>3, <2>1, DiscoveryCountsAlike
<1> DEFINE first(n) == CHOOSE x \in S : Discovery!Cardinality({y \in S : y < x}) = n - 1
           second(n) == CHOOSE x \in S : Resolution!Cardinality({y \in S : y < x}) = n - 1
           s == Discovery!InOrder(S, <)
           t == Resolution!InOrder(S, <)
<1>5. s = [n \in 1..Discovery!Cardinality(S) |-> first(n)] /\ t = [n \in 1..Resolution!Cardinality(S) |-> second(n)]
  BY DEF Discovery!InOrder, Resolution!InOrder
<1>6. \A n \in 1..Cardinality(S) : \A x \in S : Cardinality(Below(R, S, x)) = n - 1 =>
        /\ first(n) \in S /\ Cardinality(Below(R, S, first(n))) = n - 1
        /\ second(n) \in S /\ Cardinality(Below(R, S, second(n))) = n - 1
  <2> SUFFICES ASSUME NEW n \in 1..Cardinality(S), NEW x \in S, Cardinality(Below(R, S, x)) = n - 1
      PROVE  /\ first(n) \in S /\ Cardinality(Below(R, S, first(n))) = n - 1
             /\ second(n) \in S /\ Cardinality(Below(R, S, second(n))) = n - 1
    OBVIOUS
  <2>1. first(n) \in S /\ Discovery!Cardinality({y \in S : y < first(n)}) = n - 1
    BY <1>4
  <2>2. second(n) \in S /\ Resolution!Cardinality({y \in S : y < second(n)}) = n - 1
    BY <1>4
  <2> HIDE DEF first, second
  <2> QED
    BY <1>4, <2>1, <2>2
<1> HIDE DEF first, second, s, t
<1>7. /\ DOMAIN s = 1..Cardinality(S) /\ s = [n \in DOMAIN s |-> s[n]] /\ \A n \in 1..Cardinality(S) : s[n] = first(n)
      /\ DOMAIN t = 1..Cardinality(S) /\ t = [n \in DOMAIN t |-> t[n]] /\ \A n \in 1..Cardinality(S) : t[n] = second(n)
  BY <1>4, <1>5
<1>8. Cardinality(S) \in Nat /\ s \in [1..Cardinality(S) -> S] /\ \A x \in S : \E n \in DOMAIN s : s[n] = x
  <2>1. ASSUME NEW n \in 1..Cardinality(S), NEW x \in S, Cardinality(Below(R, S, x)) = n - 1
        PROVE  s[n] \in S /\ Cardinality(Below(R, S, s[n])) = n - 1
    BY <1>6, <1>7, <2>1
  <2>2. DOMAIN s = 1..Cardinality(S) /\ s = [n \in DOMAIN s |-> s[n]]
    BY <1>7
  <2>3. IsFiniteSet(S)
    BY <1>0
  <2>4. /\ Cardinality(S) \in Nat /\ s \in [1..Cardinality(S) -> S]
        /\ (\A x \in S : \E n \in DOMAIN s : s[n] = x)
        /\ \A m, n \in DOMAIN s : m < n <=> <<s[m], s[n]>> \in R
    BY <1>2, <2>1, <2>2, <2>3, ChosenByRank
  <2> QED
    BY <2>4
<1>9. t \in [1..Cardinality(S) -> S] /\ \A x \in S : \E n \in DOMAIN t : t[n] = x
  <2>1. ASSUME NEW n \in 1..Cardinality(S), NEW x \in S, Cardinality(Below(R, S, x)) = n - 1
        PROVE  t[n] \in S /\ Cardinality(Below(R, S, t[n])) = n - 1
    BY <1>6, <1>7, <2>1
  <2>2. DOMAIN t = 1..Cardinality(S) /\ t = [n \in DOMAIN t |-> t[n]]
    BY <1>7
  <2>3. IsFiniteSet(S)
    BY <1>0
  <2>4. /\ Cardinality(S) \in Nat /\ t \in [1..Cardinality(S) -> S]
        /\ (\A x \in S : \E n \in DOMAIN t : t[n] = x)
        /\ \A m, n \in DOMAIN t : m < n <=> <<t[m], t[n]>> \in R
    BY <1>2, <2>1, <2>2, <2>3, ChosenByRank
  <2> QED
    BY <2>4
<1> QED
  BY <1>8, <1>9 DEF s, t

\* A merged list has what either list has.
LEMMA MergedRefs ==
  ASSUME NEW old \in Seq(Nat), NEW new \in Seq(Nat)
  PROVE  /\ Resolution!MergeRefs(old, new) \in Seq(Nat)
         /\ Discovery!ToSet(Resolution!MergeRefs(old, new)) = Discovery!ToSet(old) \cup Discovery!ToSet(new)
<1> DEFINE both == old \o new
           T == {i \in DOMAIN both : \A j \in 1..(i - 1) : both[j] # both[i]}
           seen == Resolution!InOrder(T, <)
           list == [n \in DOMAIN seen |-> both[seen[n]]]
<1>1. Resolution!MergeRefs(old, new) = list
  BY DEF Resolution!MergeRefs
<1>2. Len(old) \in Nat /\ Len(new) \in Nat /\ DOMAIN old = 1..Len(old) /\ DOMAIN new = 1..Len(new)
  BY LenProperties
<1>3. /\ both \in Seq(Nat) /\ Len(both) = Len(old) + Len(new)
      /\ \A i \in 1..(Len(old) + Len(new)) : both[i] = IF i <= Len(old) THEN old[i] ELSE new[i - Len(old)]
  BY ConcatProperties
<1> HIDE DEF both
<1>4. DOMAIN both = 1..(Len(old) + Len(new)) /\ \A i \in DOMAIN both : both[i] \in Nat
  BY <1>2, <1>3, LenProperties, ElementOfSeq
<1>5. {both[i] : i \in DOMAIN both} = Discovery!ToSet(old) \cup Discovery!ToSet(new)
  <2>1. ASSUME NEW i \in DOMAIN both PROVE both[i] \in Discovery!ToSet(old) \cup Discovery!ToSet(new)
    <3>1. CASE i <= Len(old)
      <4>1. i \in DOMAIN old /\ both[i] = old[i]
        BY <1>2, <1>3, <1>4, <3>1
      <4> QED
        BY <4>1 DEF Discovery!ToSet
    <3>2. CASE ~(i <= Len(old))
      <4>1. i - Len(old) \in DOMAIN new /\ both[i] = new[i - Len(old)]
        BY <1>2, <1>3, <1>4, <3>2
      <4> QED
        BY <4>1 DEF Discovery!ToSet
    <3> QED
      BY <3>1, <3>2
  <2>2. ASSUME NEW i \in DOMAIN old PROVE \E j \in DOMAIN both : both[j] = old[i]
    <3>1. i \in DOMAIN both /\ both[i] = old[i]
      BY <1>2, <1>3, <1>4
    <3> QED
      BY <3>1
  <2>3. ASSUME NEW i \in DOMAIN new PROVE \E j \in DOMAIN both : both[j] = new[i]
    <3>1. i + Len(old) \in DOMAIN both /\ ~(i + Len(old) <= Len(old)) /\ i + Len(old) - Len(old) = i
      BY <1>2, <1>4
    <3>2. both[i + Len(old)] = new[i]
      BY <1>3, <1>4, <3>1
    <3> QED
      BY <3>1, <3>2
  <2> QED
    BY <2>1, <2>2, <2>3 DEF Discovery!ToSet
<1>6. T \subseteq DOMAIN both /\ T \subseteq Nat /\ IsFiniteSet(T)
  <2>1. T \subseteq DOMAIN both /\ DOMAIN both \subseteq Nat
    BY <1>2, <1>4
  <2>2. IsFiniteSet(DOMAIN both)
    <3>1. 1 \in Int /\ Len(old) + Len(new) \in Int
      BY <1>2
    <3> QED
      BY <1>4, <3>1, FS_Interval
  <2> HIDE DEF T
  <2>3. T \in SUBSET DOMAIN both
    BY <2>1
  <2> QED
    BY <2>1, <2>2, <2>3, FS_Subset
<1>7. ASSUME NEW i \in DOMAIN both PROVE \E t \in T : both[t] = both[i]
  <2> DEFINE U == {j \in DOMAIN both : both[j] = both[i]}
  <2>1. U \subseteq Nat /\ U # {}
    BY <1>2, <1>4
  <2> HIDE DEF U
  <2>2. PICK t \in U : \A j \in U : t <= j
    BY <2>1, ALeastOne
  <2>3. t \in DOMAIN both /\ both[t] = both[i]
    BY <2>2 DEF U
  <2>4. \A j \in 1..(t - 1) : j \in DOMAIN both /\ j \notin U
    BY <1>2, <1>4, <2>2, <2>3
  <2>5. \A j \in 1..(t - 1) : both[j] # both[t]
    BY <2>3, <2>4 DEF U
  <2> QED
    BY <2>3, <2>5
<1> HIDE DEF T
<1>8. Cardinality(T) \in Nat /\ seen \in [1..Cardinality(T) -> T] /\ \A t \in T : \E n \in DOMAIN seen : seen[n] = t
  BY <1>6, NumbersInOrder
<1> HIDE DEF seen
<1>9. list \in Seq(Nat)
  <2>1. \A n \in 1..Cardinality(T) : both[seen[n]] \in Nat
    BY <1>4, <1>6, <1>8
  <2>2. list = [n \in 1..Cardinality(T) |-> both[seen[n]]]
    BY <1>8
  <2>3. list \in [1..Cardinality(T) -> Nat]
    BY <2>1, <2>2
  <2> HIDE DEF list
  <2> QED
    BY <1>8, <2>3, SeqDef
<1>10. Discovery!ToSet(list) = {both[i] : i \in DOMAIN both}
  <2>1. \A n \in DOMAIN seen : seen[n] \in DOMAIN both
    BY <1>6, <1>8
  <2>2. ASSUME NEW i \in DOMAIN both PROVE \E n \in DOMAIN seen : both[seen[n]] = both[i]
    BY <1>7, <1>8
  <2> QED
    BY <2>1, <2>2 DEF Discovery!ToSet
<1> QED
  BY <1>1, <1>5, <1>9, <1>10

-----------------------------------------------------------------------------
(* What the layers say, and what has been made of it.                      *)

\* What each contribution says, for this host.
Contributed ==
  [c \in Resolution!Contributions |->
     LET resource == set.resources[c[2]]
         layer == set.layers[c[1]]
     IN  [ref |-> resource.ref, deps |-> resource.deps,
          desired |-> [f \in DOMAIN resource.desired |-> Resolution!Substitute(resource.desired[f])],
          from |-> layer.name, precedence |-> layer.precedence, dir |-> layer.dir]]

\* It is decided by what was found and for which host.
LEMMA ContributedStays ==
  ASSUME UNCHANGED <<set, host>>
  PROVE  Contributed' = Contributed
BY DEF Contributed, Resolution!Contributions, Resolution!Matched, Resolution!Evaluate, Resolution!Labels, Resolution!Has,
       Resolution!Substitute, Resolution!Undeclared

\* Layers are told apart by their names.
ToldApart(C) == \A c, d \in DOMAIN C : C[c].from = C[d].from => c[1] = d[1]

\* Who of D says something of a field.
Says(C, D, r, f) == {c \in D : C[c].ref = r /\ f \in DOMAIN C[c].desired}
Declares(C, D, r) == {c \in D : C[c].ref = r}

Echo(C, S, c, f) == \E b \in S : C[b].precedence < C[c].precedence /\ C[b].desired[f] = C[c].desired[f]

(* A field has the value of one that says so and that none above it        *)
(* contradicts, and so says one of the highest precedence.  Where no       *)
(* conflict was found, whoever says otherwise is below it or echoes        *)
(* another, and so does one of any two of one precedence that disagree.    *)
FieldAt(C, S, f, field, clear) ==
  \E s \in S :
    /\ field = [value |-> C[s].desired[f], from |-> C[s].from]
    /\ \A c \in S : C[c].precedence > C[s].precedence => C[c].desired[f] = C[s].desired[f]
    /\ \E t \in S : C[t].desired[f] = C[s].desired[f] /\ \A c \in S : C[c].precedence <= C[t].precedence
    /\ clear =>
         /\ \A c \in S : \/ C[c].desired[f] = C[s].desired[f]
                         \/ C[c].precedence < C[s].precedence
                         \/ Echo(C, S, c, f)
         /\ \A c, d \in S : C[c].precedence = C[d].precedence /\ C[c].desired[f] # C[d].desired[f] =>
              Echo(C, S, c, f) \/ Echo(C, S, d, f)

\* The first document to say something of a field.
LEMMA FieldStarts ==
  ASSUME NEW C, NEW c, NEW f, C[c].precedence \in Int, NEW clear
  PROVE  FieldAt(C, {c}, f, [value |-> C[c].desired[f], from |-> C[c].from], clear)
BY DEF FieldAt

\* That nothing clashed may be forgotten.
LEMMA FieldWeakens ==
  ASSUME NEW C, NEW S, NEW f, NEW field, NEW clear, FieldAt(C, S, f, field, clear), NEW clearer, clearer => clear
  PROVE  FieldAt(C, S, f, field, clearer)
BY DEF FieldAt

\* One more says something, from a layer that is not below any so far.
LEMMA FieldGoesOn ==
  ASSUME NEW C, NEW S, NEW c, NEW f, NEW field, NEW clear,
         \A b \in S \cup {c} : C[b].precedence \in Int,
         \A b \in S : C[b].precedence <= C[c].precedence,
         FieldAt(C, S, f, field, clear),
         \A b \in S : C[b].from = field.from => C[b].precedence = Resolution!Named(field.from).precedence,
         NEW kept,
         kept = IF field.value = C[c].desired[f] \/ Resolution!Named(field.from).precedence = C[c].precedence
                  THEN field ELSE [value |-> C[c].desired[f], from |-> C[c].from],
         NEW calm,
         calm => clear /\ (field.value = C[c].desired[f] \/ Resolution!Named(field.from).precedence # C[c].precedence)
  PROVE  FieldAt(C, S \cup {c}, f, kept, calm)
<1> DEFINE p == Resolution!Named(field.from).precedence
           new == [value |-> C[c].desired[f], from |-> C[c].from]
           clashes == field.value # new.value /\ p = C[c].precedence
           T == S \cup {c}
<1>1. PICK s \in S :
        /\ field = [value |-> C[s].desired[f], from |-> C[s].from]
        /\ \A b \in S : C[b].precedence > C[s].precedence => C[b].desired[f] = C[s].desired[f]
        /\ \E t \in S : C[t].desired[f] = C[s].desired[f] /\ \A b \in S : C[b].precedence <= C[t].precedence
        /\ clear =>
             /\ \A b \in S : \/ C[b].desired[f] = C[s].desired[f]
                             \/ C[b].precedence < C[s].precedence
                             \/ Echo(C, S, b, f)
             /\ \A b, d \in S : C[b].precedence = C[d].precedence /\ C[b].desired[f] # C[d].desired[f] =>
                  Echo(C, S, b, f) \/ Echo(C, S, d, f)
  BY DEF FieldAt
<1>2. field.value = C[s].desired[f] /\ p = C[s].precedence /\ new.value = C[c].desired[f]
  BY <1>1
<1>3. \A b \in S : Echo(C, S, b, f) => Echo(C, T, b, f)
  BY DEF Echo
<1> HIDE DEF T
<1>4. /\ T = S \cup {c} /\ s \in T /\ c \in T
      /\ \A b \in T : C[b].precedence \in Int /\ C[b].precedence <= C[c].precedence
  BY DEF T
<1>5. CASE field.value = new.value
  <2>1. \A b \in T : C[b].precedence > C[s].precedence => C[b].desired[f] = C[s].desired[f]
    BY <1>1, <1>2, <1>4, <1>5
  <2>2. C[c].desired[f] = C[s].desired[f] /\ \A b \in T : C[b].precedence <= C[c].precedence
    BY <1>2, <1>4, <1>5
  <2>3. ASSUME clear
        PROVE  /\ \A b \in T : \/ C[b].desired[f] = C[s].desired[f]
                               \/ C[b].precedence < C[s].precedence
                               \/ Echo(C, T, b, f)
               /\ \A b, d \in T : C[b].precedence = C[d].precedence /\ C[b].desired[f] # C[d].desired[f] =>
                    Echo(C, T, b, f) \/ Echo(C, T, d, f)
    <3>1. \A b \in T : \/ C[b].desired[f] = C[s].desired[f]
                       \/ C[b].precedence < C[s].precedence
                       \/ Echo(C, T, b, f)
      BY <1>1, <1>3, <1>4, <2>2, <2>3
    <3>2. ASSUME NEW d \in S, C[c].precedence = C[d].precedence, C[c].desired[f] # C[d].desired[f]
          PROVE  Echo(C, T, c, f) \/ Echo(C, T, d, f)
      <4>1. \/ C[d].precedence < C[s].precedence
            \/ Echo(C, T, d, f)
        BY <1>4, <2>2, <3>1, <3>2
      <4>2. ~(C[d].precedence < C[s].precedence)
        BY <1>4, <3>2
      <4> QED
        BY <4>1, <4>2
    <3>3. \A b, d \in S : C[b].precedence = C[d].precedence /\ C[b].desired[f] # C[d].desired[f] =>
            Echo(C, T, b, f) \/ Echo(C, T, d, f)
      BY <1>1, <1>3, <2>3
    <3> QED
      BY <1>4, <3>1, <3>2, <3>3
  <2>4. FieldAt(C, T, f, field, clear)
    BY <1>1, <1>4, <2>1, <2>2, <2>3 DEF FieldAt
  <2> QED
    BY <1>4, <1>5, <2>4, FieldWeakens
<1>6. CASE clashes
  <2>1. \A b \in T : C[b].precedence <= C[s].precedence
    BY <1>2, <1>4, <1>6
  <2>2. \A b \in T : C[b].precedence > C[s].precedence => C[b].desired[f] = C[s].desired[f]
    BY <1>4, <2>1
  <2>3. FieldAt(C, T, f, field, FALSE)
    BY <1>1, <1>4, <2>1, <2>2 DEF FieldAt
  <2>4. FieldAt(C, T, f, field, calm)
    BY <1>6, <2>3, FieldWeakens
  <2> QED
    BY <1>4, <1>6, <2>4
<1>7. CASE ~(field.value = new.value \/ clashes)
  <2>1. C[s].precedence < C[c].precedence /\ C[c].desired[f] # C[s].desired[f]
    BY <1>2, <1>4, <1>7
  <2>2. \A b \in T : C[b].precedence > C[c].precedence => C[b].desired[f] = C[c].desired[f]
    BY <1>4
  <2>3. \A b \in T : C[b].precedence <= C[c].precedence
    BY <1>4
  <2>4. ASSUME clear
        PROVE  /\ \A b \in T : \/ C[b].desired[f] = C[c].desired[f]
                               \/ C[b].precedence < C[c].precedence
                               \/ Echo(C, T, b, f)
               /\ \A b, d \in T : C[b].precedence = C[d].precedence /\ C[b].desired[f] # C[d].desired[f] =>
                    Echo(C, T, b, f) \/ Echo(C, T, d, f)
    <3>1. ASSUME NEW b \in S, C[b].precedence = C[c].precedence PROVE Echo(C, T, b, f)
      <4>1. CASE C[b].desired[f] = C[s].desired[f]
        BY <1>4, <2>1, <3>1, <4>1 DEF Echo
      <4>2. CASE C[b].precedence < C[s].precedence
        BY <1>4, <2>1, <3>1, <4>2
      <4>3. CASE Echo(C, S, b, f)
        BY <1>3, <4>3
      <4> QED
        BY <1>1, <2>4, <4>1, <4>2, <4>3
    <3>2. \A b \in T : \/ C[b].desired[f] = C[c].desired[f]
                       \/ C[b].precedence < C[c].precedence
                       \/ Echo(C, T, b, f)
      <4> SUFFICES ASSUME NEW b \in T, b # c
                   PROVE  C[b].precedence < C[c].precedence \/ Echo(C, T, b, f)
        OBVIOUS
      <4>1. b \in S /\ C[b].precedence \in Int /\ C[c].precedence \in Int /\ C[b].precedence <= C[c].precedence
        BY <1>4
      <4> QED
        BY <3>1, <4>1
    <3>3. \A b, d \in S : C[b].precedence = C[d].precedence /\ C[b].desired[f] # C[d].desired[f] =>
            Echo(C, T, b, f) \/ Echo(C, T, d, f)
      BY <1>1, <1>3, <2>4
    <3> QED
      BY <1>4, <3>1, <3>2, <3>3
  <2>5. FieldAt(C, T, f, new, clear)
    BY <1>4, <2>2, <2>3, <2>4 DEF FieldAt
  <2>6. FieldAt(C, T, f, new, calm)
    BY <2>5, FieldWeakens
  <2> QED
    BY <1>4, <1>7, <2>6
<1> QED
  BY <1>5, <1>6, <1>7

-----------------------------------------------------------------------------
(* The manifest so far, by what has been said.                             *)

Conflict(r) == [what |-> "conflict", ref |-> r]

ResourceIs(C, D, r, resource, clear) ==
  /\ resource = [desired |-> resource.desired, deps |-> resource.deps, dir |-> resource.dir]
  /\ DOMAIN resource.desired = UNION {DOMAIN C[c].desired : c \in Declares(C, D, r)}
  /\ resource.deps \in [EdgeKinds -> Seq(Nat)]
  /\ \A k \in EdgeKinds : Discovery!ToSet(resource.deps[k]) = UNION {Discovery!ToSet(C[c].deps[k]) : c \in Declares(C, D, r)}
  /\ ToldApart(C) => \A f \in DOMAIN resource.desired : FieldAt(C, Says(C, D, r, f), f, resource.desired[f], clear)

Differ(C, c, d, r) ==
  /\ C[c].ref = r /\ C[d].ref = r /\ C[c].precedence = C[d].precedence
  /\ \E f \in DOMAIN C[c].desired \cap DOMAIN C[d].desired : C[c].desired[f] # C[d].desired[f]

ManifestIs(C, D, resources, found) ==
  /\ DOMAIN resources = {C[c].ref : c \in D}
  /\ \A r \in DOMAIN resources : ResourceIs(C, D, r, resources[r], Conflict(r) \notin found)
  /\ ToldApart(C) => \A p \in found : p.what = "conflict" => \E c, d \in D : Differ(C, c, d, p.ref)

\* What is folded comes before what is not.
FoldsInOrder(C, T) == T \subseteq DOMAIN C /\ \A c \in DOMAIN C \ T : \A t \in T : c[1] <= t[1]

FoldInv ==
  /\ FoldsInOrder(Contributed, todo)
  /\ ManifestIs(Contributed, DOMAIN Contributed \ todo, merged, problems)

\* What the walk leaves to fold.
Foldable ==
  /\ DOMAIN Contributed \subseteq Nat \X Nat
  /\ \A c \in DOMAIN Contributed :
       /\ Contributed[c].ref \in Refs /\ Contributed[c].deps \in [EdgeKinds -> Seq(Nat)]
       /\ Contributed[c].precedence \in Int
  /\ \A c, d \in DOMAIN Contributed : c[1] <= d[1] => Contributed[c].precedence <= Contributed[d].precedence
  /\ ToldApart(Contributed) => \A c \in DOMAIN Contributed : Resolution!Named(Contributed[c].from) = set.layers[c[1]]

\* What is contributed, seen through the pairs of positions the fold goes over.
LEMMA ContributedIs ==
  /\ DOMAIN Contributed = Resolution!Contributions
  /\ \A c \in Resolution!Contributions :
       LET resource == set.resources[c[2]]
           layer == set.layers[c[1]]
       IN  /\ c = <<c[1], c[2]>> /\ c[1] \in Resolution!Matched /\ c[1] \in DOMAIN set.layers /\ c[2] \in DOMAIN set.resources
           /\ resource.layer = layer.name
           /\ Contributed[c].ref = resource.ref /\ Contributed[c].deps = resource.deps
           /\ Contributed[c].desired = [f \in DOMAIN resource.desired |-> Resolution!Substitute(resource.desired[f])]
           /\ Contributed[c].from = layer.name /\ Contributed[c].precedence = layer.precedence
           /\ Contributed[c].dir = layer.dir
  /\ \A i \in Resolution!Matched : \A j \in DOMAIN set.resources :
       set.resources[j].layer = set.layers[i].name => <<i, j>> \in Resolution!Contributions
<1>1. \A c : c \in Resolution!Contributions <=>
        c \in Resolution!Matched \X DOMAIN set.resources /\ set.resources[c[2]].layer = set.layers[c[1]].name
  BY DEF Resolution!Contributions
<1>2. Resolution!Matched \subseteq DOMAIN set.layers
  BY DEF Resolution!Matched
<1>3. DOMAIN Contributed = Resolution!Contributions
  BY DEF Contributed
<1>4. ASSUME NEW c \in Resolution!Contributions
      PROVE  LET resource == set.resources[c[2]]
                 layer == set.layers[c[1]]
             IN  /\ Contributed[c].ref = resource.ref /\ Contributed[c].deps = resource.deps
                 /\ Contributed[c].desired = [f \in DOMAIN resource.desired |-> Resolution!Substitute(resource.desired[f])]
                 /\ Contributed[c].from = layer.name /\ Contributed[c].precedence = layer.precedence
                 /\ Contributed[c].dir = layer.dir
  BY DEF Contributed
<1>5. ASSUME NEW i \in Resolution!Matched, NEW j \in DOMAIN set.resources, set.resources[j].layer = set.layers[i].name
      PROVE  <<i, j>> \in Resolution!Contributions
  BY <1>1, <1>5
<1> QED
  BY <1>1, <1>2, <1>3, <1>4, <1>5

\* The last layer of a name is the only one where names tell layers apart.
LEMMA NameMeansLayer ==
  ASSUME ToldApart(Contributed), DOMAIN set.layers \subseteq Nat, NEW c \in DOMAIN Contributed
  PROVE  Resolution!Named(Contributed[c].from) = set.layers[c[1]]
<1> DEFINE S == {i \in Resolution!Matched : set.layers[i].name = Contributed[c].from}
<1>1. /\ c[1] \in Resolution!Matched /\ c[2] \in DOMAIN set.resources
      /\ set.resources[c[2]].layer = Contributed[c].from /\ set.layers[c[1]].name = Contributed[c].from
  BY ContributedIs
<1>2. ASSUME NEW i \in S PROVE i = c[1]
  <2> DEFINE d == <<i, c[2]>>
  <2>1. d \in DOMAIN Contributed /\ Contributed[d].from = Contributed[c].from /\ d[1] = i
    <3>1. set.resources[c[2]].layer = set.layers[i].name /\ i \in Resolution!Matched
      BY <1>1
    <3>2. d \in Resolution!Contributions
      BY <1>1, <3>1, ContributedIs
    <3>3. Contributed[d].from = set.layers[d[1]].name
      BY <3>2, ContributedIs
    <3> QED
      BY <3>2, <3>3, ContributedIs
  <2> HIDE DEF d, S
  <2> QED
    BY <2>1 DEF ToldApart
<1>3. S = {c[1]}
  BY <1>1, <1>2
<1>4. Resolution!Named(Contributed[c].from) = set.layers[Resolution!Max(S)]
  BY DEF Resolution!Named
<1>5. c[1] \in Nat
  BY <1>1 DEF Resolution!Matched
<1> HIDE DEF S
<1>6. Resolution!Max({c[1]}) = c[1]
  BY <1>5 DEF Resolution!Max
<1> QED
  BY <1>3, <1>4, <1>6

\* What discovery finds can be folded: layers stand in order of precedence.
LEMMA WalkIsFoldable ==
  ASSUME repo \in Repositories, ~Discovery!Fails(repo), set = Discovery!Walk(repo)
  PROVE  Foldable
<1>1. /\ \E n \in Nat : DOMAIN set.layers = 1..n
      /\ \A i \in DOMAIN set.layers : LayerAt(i).precedence \in Int /\ set.layers[i].precedence = LayerAt(i).precedence
      /\ \A i, j \in DOMAIN set.layers : i <= j => LayerAt(i).precedence <= LayerAt(j).precedence
  <2>1. ASSUME NEW i \in DOMAIN set.layers
        PROVE  LayerAt(i).precedence \in Int /\ set.layers[i].precedence = LayerAt(i).precedence
    <3>1. LayerAt(i).precedence \in Int /\
          set.layers[i] = [name |-> LayerAt(i).name, precedence |-> LayerAt(i).precedence,
                           match |-> LayerAt(i).match, dir |-> From(Discovery!Dir(LayerAt(i).file))]
      BY LayersFound
    <3> QED
      BY <3>1
  <2> QED
    BY <2>1, LayersFound
<1>2. /\ \E n \in Nat : DOMAIN set.resources = 1..n
      /\ \A j \in DOMAIN set.resources : set.resources[j].ref \in Refs /\ set.resources[j].deps \in [EdgeKinds -> Seq(Nat)]
  <2>1. ASSUME NEW j \in DOMAIN set.resources
        PROVE  set.resources[j].ref \in Refs /\ set.resources[j].deps \in [EdgeKinds -> Seq(Nat)]
    <3> DEFINE d == ResourceAt(j)
               g == GovernorOf(d)
    <3>1. d \in repo.resources /\
          set.resources[j] = [ref |-> d.ref, desired |-> d.desired, deps |-> d.deps,
                              layer |-> g.name, layerDir |-> From(Discovery!Dir(g.file))]
      BY ResourcesFound
    <3> HIDE DEF d, g
    <3>2. d.ref \in Refs /\ d.deps \in [EdgeKinds -> Seq(Nat)]
      BY <3>1, DocumentFacts
    <3> QED
      BY <3>1, <3>2
  <2> QED
    BY <2>1, ResourcesFound
<1>3. DOMAIN set.layers \subseteq Nat /\ DOMAIN set.resources \subseteq Nat
  BY <1>1, <1>2
<1>4. ASSUME NEW c \in DOMAIN Contributed
      PROVE  /\ c \in Nat \X Nat /\ c[1] \in DOMAIN set.layers
             /\ Contributed[c].ref \in Refs /\ Contributed[c].deps \in [EdgeKinds -> Seq(Nat)]
             /\ Contributed[c].precedence \in Int /\ Contributed[c].precedence = LayerAt(c[1]).precedence
  <2>1. /\ c = <<c[1], c[2]>> /\ c[1] \in DOMAIN set.layers /\ c[2] \in DOMAIN set.resources
        /\ Contributed[c].ref = set.resources[c[2]].ref /\ Contributed[c].deps = set.resources[c[2]].deps
        /\ Contributed[c].precedence = set.layers[c[1]].precedence
    BY ContributedIs
  <2>2. c[1] \in Nat /\ c[2] \in Nat
    BY <1>3, <2>1
  <2>3. c \in Nat \X Nat
    BY <2>1, <2>2
  <2> QED
    BY <1>1, <1>2, <2>1, <2>3
<1>5. \A c, d \in DOMAIN Contributed : c[1] <= d[1] => Contributed[c].precedence <= Contributed[d].precedence
  BY <1>1, <1>4
<1>6. DOMAIN Contributed \subseteq Nat \X Nat
  BY <1>4
<1>7. ToldApart(Contributed) => \A c \in DOMAIN Contributed : Resolution!Named(Contributed[c].from) = set.layers[c[1]]
  BY <1>3, NameMeansLayer
<1> QED
  BY <1>4, <1>5, <1>6, <1>7 DEF Foldable

\* There is one to fold next.
LEMMA FoldsNext ==
  ASSUME NEW T, T \subseteq Nat \X Nat, T # {}
  PROVE  LET e == CHOOSE c \in T : \A d \in T : Resolution!Precedes(c, d)
         IN  e \in T /\ \A d \in T : e[1] <= d[1]
<1> DEFINE A == {c[1] : c \in T}
<1>1. A \subseteq Nat /\ A # {}
  OBVIOUS
<1> HIDE DEF A
<1>2. PICK a \in A : \A b \in A : a <= b
  BY <1>1, ALeastOne
<1> DEFINE B == {c[2] : c \in {c \in T : c[1] = a}}
<1>3. B \subseteq Nat /\ B # {}
  <2>1. \E c \in T : c[1] = a
    BY DEF A
  <2> QED
    BY <2>1
<1>4. PICK b \in B : \A d \in B : b <= d
  <2> HIDE DEF B
  <2> QED
    BY <1>3, ALeastOne
<1>5. PICK c \in T : c[1] = a /\ c[2] = b
  OBVIOUS
<1>6. ASSUME NEW d \in T PROVE Resolution!Precedes(c, d)
  <2>1. d[1] \in A /\ (d[1] = a => d[2] \in B)
    BY DEF A
  <2>2. a \in Nat /\ b \in Nat /\ d[1] \in Nat /\ d[2] \in Nat
    BY <1>1, <1>3
  <2>3. a <= d[1] /\ (d[1] = a => b <= d[2])
    BY <1>2, <1>4, <2>1
  <2> QED
    BY <1>5, <2>2, <2>3 DEF Resolution!Precedes
<1> DEFINE e == CHOOSE x \in T : \A d \in T : Resolution!Precedes(x, d)
<1>7. e \in T /\ \A d \in T : Resolution!Precedes(e, d)
  BY <1>6
<1> HIDE DEF e
<1>8. \A d \in T : e[1] <= d[1]
  <2> SUFFICES ASSUME NEW d \in T PROVE e[1] <= d[1]
    OBVIOUS
  <2>1. e[1] \in Nat /\ d[1] \in Nat
    BY <1>7
  <2> QED
    BY <1>7, <2>1 DEF Resolution!Precedes
<1> QED
  BY <1>7, <1>8 DEF e

\* A contribution to another resource changes nothing.
LEMMA ResourceElsewhere ==
  ASSUME NEW C, NEW D, NEW n, NEW r, C[n].ref # r, NEW resource, NEW clear, ResourceIs(C, D, r, resource, clear)
  PROVE  ResourceIs(C, D \cup {n}, r, resource, clear)
<1>1. Declares(C, D \cup {n}, r) = Declares(C, D, r)
  BY DEF Declares
<1>2. \A f : Says(C, D \cup {n}, r, f) = Says(C, D, r, f)
  BY DEF Says
<1> QED
  BY <1>1, <1>2 DEF ResourceIs

\* What a contribution makes a resource of.
Stamped(C, n, dir) ==
  [desired |-> [f \in DOMAIN C[n].desired |-> [value |-> C[n].desired[f], from |-> C[n].from]],
   deps |-> C[n].deps, dir |-> dir]

\* The first contribution to a resource.
LEMMA ResourceStarts ==
  ASSUME NEW C, NEW D, NEW n, C[n].precedence \in Int, C[n].deps \in [EdgeKinds -> Seq(Nat)],
         \A c \in D : C[c].ref # C[n].ref, NEW dir, NEW clear
  PROVE  ResourceIs(C, D \cup {n}, C[n].ref, Stamped(C, n, dir), clear)
<1> DEFINE r == C[n].ref
           E == D \cup {n}
           resource == Stamped(C, n, dir)
<1>1. Declares(C, E, r) = {n}
  BY DEF Declares
<1>2. \A f \in DOMAIN C[n].desired : Says(C, E, r, f) = {n}
  BY DEF Says
<1>3. /\ resource = [desired |-> resource.desired, deps |-> resource.deps, dir |-> resource.dir]
      /\ DOMAIN resource.desired = DOMAIN C[n].desired /\ resource.deps = C[n].deps
      /\ \A f \in DOMAIN C[n].desired : resource.desired[f] = [value |-> C[n].desired[f], from |-> C[n].from]
  BY DEF Stamped
<1> HIDE DEF r, E, resource
<1>4. ASSUME NEW f \in DOMAIN resource.desired
      PROVE  FieldAt(C, Says(C, E, r, f), f, resource.desired[f], clear)
  <2>1. Says(C, E, r, f) = {n} /\ resource.desired[f] = [value |-> C[n].desired[f], from |-> C[n].from]
    BY <1>2, <1>3
  <2>2. FieldAt(C, {n}, f, [value |-> C[n].desired[f], from |-> C[n].from], clear)
    BY FieldStarts
  <2> QED
    BY <2>1, <2>2
<1>5. DOMAIN resource.desired = UNION {DOMAIN C[c].desired : c \in Declares(C, E, r)}
  BY <1>1, <1>3
<1>6. \A k \in EdgeKinds :
        Discovery!ToSet(resource.deps[k]) = UNION {Discovery!ToSet(C[c].deps[k]) : c \in Declares(C, E, r)}
  BY <1>1, <1>3
<1>7. ResourceIs(C, E, r, resource, clear)
  BY <1>3, <1>4, <1>5, <1>6 DEF ResourceIs
<1> QED
  BY <1>7 DEF r, E, resource

\* And a further one, from a layer that is not below any so far.
LEMMA ResourceGoesOn ==
  ASSUME NEW C, NEW D, NEW n, NEW dir, NEW layer, NEW old, NEW clear,
         \A c \in D \cup {n} : C[c].precedence \in Int, \A c \in D : C[c].precedence <= C[n].precedence,
         C[n].deps \in [EdgeKinds -> Seq(Nat)], layer.precedence = C[n].precedence,
         ToldApart(C) => \A c \in D : Resolution!Named(C[c].from).precedence = C[c].precedence,
         ResourceIs(C, D, C[n].ref, old, clear),
         NEW calm, calm => clear /\ Resolution!Conflicts(old, Stamped(C, n, dir), layer) = {}
  PROVE  ResourceIs(C, D \cup {n}, C[n].ref, Resolution!Merge(old, Stamped(C, n, dir), layer), calm)
<1> DEFINE r == C[n].ref
           E == D \cup {n}
           new == Stamped(C, n, dir)
           both == Resolution!Merge(old, new, layer)
<1>1. /\ DOMAIN old.desired = UNION {DOMAIN C[c].desired : c \in Declares(C, D, r)}
      /\ old.deps \in [EdgeKinds -> Seq(Nat)]
      /\ \A k \in EdgeKinds : Discovery!ToSet(old.deps[k]) = UNION {Discovery!ToSet(C[c].deps[k]) : c \in Declares(C, D, r)}
      /\ ToldApart(C) => \A f \in DOMAIN old.desired : FieldAt(C, Says(C, D, r, f), f, old.desired[f], clear)
  BY DEF ResourceIs
<1>2. /\ DOMAIN new.desired = DOMAIN C[n].desired /\ new.deps = C[n].deps
      /\ \A f \in DOMAIN C[n].desired : new.desired[f] = [value |-> C[n].desired[f], from |-> C[n].from]
  BY DEF Stamped
<1>11. calm => clear /\ Resolution!Conflicts(old, new, layer) = {}
  OBVIOUS
<1> HIDE DEF new
<1>3. /\ both = [desired |-> both.desired, deps |-> both.deps, dir |-> both.dir]
      /\ DOMAIN both.desired = DOMAIN old.desired \cup DOMAIN new.desired
      /\ both.deps = [k \in EdgeKinds |-> Resolution!MergeRefs(old.deps[k], new.deps[k])]
      /\ \A f \in DOMAIN both.desired :
           /\ f \notin DOMAIN new.desired => both.desired[f] = old.desired[f]
           /\ f \notin DOMAIN old.desired => both.desired[f] = new.desired[f]
           /\ f \in DOMAIN old.desired /\ f \in DOMAIN new.desired =>
                both.desired[f] = Resolution!MergeField(old.desired[f], new.desired[f], layer)
  BY DEF Resolution!Merge, Resolution!Kinds, EdgeKinds
<1>4. Declares(C, E, r) = Declares(C, D, r) \cup {n}
  BY DEF Declares
<1>5. /\ \A f \in DOMAIN C[n].desired : Says(C, E, r, f) = Says(C, D, r, f) \cup {n}
      /\ \A f : f \notin DOMAIN C[n].desired => Says(C, E, r, f) = Says(C, D, r, f)
  BY DEF Says
<1> HIDE DEF r, E, both
<1>6. DOMAIN both.desired = UNION {DOMAIN C[c].desired : c \in Declares(C, E, r)}
  BY <1>1, <1>2, <1>3, <1>4
<1>7. ASSUME NEW k \in EdgeKinds
      PROVE  /\ both.deps[k] \in Seq(Nat)
             /\ Discovery!ToSet(both.deps[k]) = UNION {Discovery!ToSet(C[c].deps[k]) : c \in Declares(C, E, r)}
  <2>1. old.deps[k] \in Seq(Nat) /\ new.deps[k] \in Seq(Nat) /\ new.deps[k] = C[n].deps[k]
    BY <1>1, <1>2
  <2>2. both.deps[k] = Resolution!MergeRefs(old.deps[k], new.deps[k])
    BY <1>3
  <2>3. /\ both.deps[k] \in Seq(Nat)
        /\ Discovery!ToSet(both.deps[k]) = Discovery!ToSet(old.deps[k]) \cup Discovery!ToSet(new.deps[k])
    BY <2>1, <2>2, MergedRefs
  <2>4. Discovery!ToSet(old.deps[k]) = UNION {Discovery!ToSet(C[c].deps[k]) : c \in Declares(C, D, r)}
    BY <1>1
  <2> QED
    BY <1>4, <2>1, <2>3, <2>4
<1>8. both.deps \in [EdgeKinds -> Seq(Nat)]
  BY <1>3, <1>7
<1>9. ASSUME ToldApart(C), NEW f \in DOMAIN both.desired
      PROVE  FieldAt(C, Says(C, E, r, f), f, both.desired[f], calm)
  <2>1. CASE f \notin DOMAIN new.desired
    <3>1. Says(C, E, r, f) = Says(C, D, r, f) /\ both.desired[f] = old.desired[f] /\ f \in DOMAIN old.desired
      BY <1>2, <1>3, <1>5, <2>1
    <3>2. FieldAt(C, Says(C, D, r, f), f, old.desired[f], clear)
      BY <1>1, <1>9, <3>1
    <3>3. FieldAt(C, Says(C, D, r, f), f, old.desired[f], calm)
      BY <1>11, <3>2, FieldWeakens
    <3> QED
      BY <3>1, <3>3
  <2>2. CASE f \notin DOMAIN old.desired
    <3>1. f \in DOMAIN C[n].desired /\ both.desired[f] = [value |-> C[n].desired[f], from |-> C[n].from]
      BY <1>2, <1>3, <2>2
    <3>2. Says(C, D, r, f) = {}
      <4>1. Says(C, D, r, f) = {c \in Declares(C, D, r) : f \in DOMAIN C[c].desired}
        BY DEF Says, Declares
      <4> QED
        BY <1>1, <2>2, <4>1
    <3>3. Says(C, E, r, f) = {n}
      BY <1>5, <3>1, <3>2
    <3>4. FieldAt(C, {n}, f, [value |-> C[n].desired[f], from |-> C[n].from], calm)
      BY FieldStarts
    <3> QED
      BY <3>1, <3>3, <3>4
  <2>3. CASE f \in DOMAIN old.desired /\ f \in DOMAIN new.desired
    <3> DEFINE S == Says(C, D, r, f)
               field == old.desired[f]
               p == Resolution!Named(field.from).precedence
               mine == [value |-> C[n].desired[f], from |-> C[n].from]
               clashes == field.value # mine.value /\ p = C[n].precedence
    <3>1. FieldAt(C, S, f, field, clear)
      BY <1>1, <1>9, <2>3
    <3>2. mine = new.desired[f] /\ Says(C, E, r, f) = S \cup {n}
      BY <1>2, <1>5, <2>3
    <3>3. S \subseteq D
      BY DEF Says
    <3> HIDE DEF S, field
    <3>4. \A b \in S : C[b].from = field.from => C[b].precedence = p
      BY <1>9, <3>3
    <3>5. clashes <=> Resolution!Clashes(field, mine, layer)
      BY DEF Resolution!Clashes
    <3>6. both.desired[f] = IF field.value = mine.value \/ clashes THEN field ELSE mine
      BY <1>3, <2>3, <3>2, <3>5 DEF Resolution!MergeField, field
    <3>7. clashes => f \in Resolution!Conflicts(old, new, layer)
      BY <2>3, <3>2, <3>5 DEF Resolution!Conflicts, field
    <3>8. /\ \A b \in S \cup {n} : C[b].precedence \in Int
          /\ \A b \in S : C[b].precedence <= C[n].precedence
          /\ \A b \in S : C[b].from = field.from => C[b].precedence = Resolution!Named(field.from).precedence
      BY <3>3, <3>4
    <3>9. calm => clear /\ (field.value = C[n].desired[f] \/ Resolution!Named(field.from).precedence # C[n].precedence)
      BY <1>11, <3>7
    <3>10. both.desired[f] = IF field.value = C[n].desired[f] \/ Resolution!Named(field.from).precedence = C[n].precedence
                               THEN field ELSE [value |-> C[n].desired[f], from |-> C[n].from]
      BY <3>6
    <3>11. FieldAt(C, S \cup {n}, f, both.desired[f], calm)
      BY <3>1, <3>8, <3>9, <3>10, FieldGoesOn
    <3> QED
      BY <3>2, <3>11
  <2> QED
    BY <1>3, <2>1, <2>2, <2>3
<1>10. ResourceIs(C, E, r, both, calm)
  BY <1>3, <1>6, <1>7, <1>8, <1>9 DEF ResourceIs
<1> QED
  BY <1>10 DEF r, E, both, new

\* One more contribution is folded into the manifest.
Folding(C, n, layer, dir, resources, found, next, more) ==
  LET r == C[n].ref
      new == Stamped(C, n, dir)
      seen == r \in DOMAIN resources
      clashes == Resolution!Conflicts(resources[r], new, layer)
  IN  /\ DOMAIN next = DOMAIN resources \cup {r}
      /\ \A x \in DOMAIN resources : x # r => next[x] = resources[x]
      /\ next[r] = IF seen THEN Resolution!Merge(resources[r], new, layer) ELSE new
      /\ found \subseteq more
      /\ \A p : p \in more /\ p.what = "conflict" => p \in found \/ (p = Conflict(r) /\ seen /\ clashes # {})
      /\ seen /\ clashes # {} => Conflict(r) \in more

\* The merge of what was said, and of one document more, is the merge of all of it.
LEMMA ManifestGoesOn ==
  ASSUME NEW C, NEW D, NEW n, NEW layer, NEW dir, NEW resources, NEW found, NEW next, NEW more,
         ManifestIs(C, D, resources, found), Folding(C, n, layer, dir, resources, found, next, more),
         \A c \in D \cup {n} : C[c].precedence \in Int, \A c \in D : C[c].precedence <= C[n].precedence,
         C[n].deps \in [EdgeKinds -> Seq(Nat)], layer.precedence = C[n].precedence,
         ToldApart(C) => \A c \in D : Resolution!Named(C[c].from).precedence = C[c].precedence
  PROVE  ManifestIs(C, D \cup {n}, next, more)
<1> DEFINE r == C[n].ref
           E == D \cup {n}
           new == Stamped(C, n, dir)
           clashes == Resolution!Conflicts(resources[r], new, layer)
<1>0. /\ DOMAIN next = DOMAIN resources \cup {r}
      /\ \A x \in DOMAIN resources : x # r => next[x] = resources[x]
      /\ next[r] = IF r \in DOMAIN resources THEN Resolution!Merge(resources[r], new, layer) ELSE new
      /\ found \subseteq more
      /\ \A p : p \in more /\ p.what = "conflict" =>
            p \in found \/ (p = Conflict(r) /\ r \in DOMAIN resources /\ clashes # {})
      /\ r \in DOMAIN resources /\ clashes # {} => Conflict(r) \in more
  BY DEF Folding
<1>1. /\ DOMAIN resources = {C[c].ref : c \in D}
      /\ \A x \in DOMAIN resources : ResourceIs(C, D, x, resources[x], Conflict(x) \notin found)
      /\ ToldApart(C) => \A p \in found : p.what = "conflict" => \E c, d \in D : Differ(C, c, d, p.ref)
  BY DEF ManifestIs
<1>2. DOMAIN next = {C[c].ref : c \in E}
  BY <1>0, <1>1
<1>3. ASSUME NEW x \in DOMAIN next, x # r
      PROVE  ResourceIs(C, E, x, next[x], Conflict(x) \notin more)
  <2>1. x \in DOMAIN resources /\ next[x] = resources[x]
    BY <1>0, <1>3
  <2>2. ResourceIs(C, D, x, resources[x], Conflict(x) \notin found)
    BY <1>1, <2>1
  <2>3. Conflict(x).what = "conflict" /\ Conflict(x) # Conflict(r)
    BY <1>3 DEF Conflict
  <2>4. (Conflict(x) \notin more) = (Conflict(x) \notin found)
    BY <1>0, <2>3
  <2>5. ResourceIs(C, E, x, resources[x], Conflict(x) \notin found)
    BY <1>3, <2>2, ResourceElsewhere
  <2> QED
    BY <2>1, <2>4, <2>5
<1>4. ResourceIs(C, E, r, next[r], Conflict(r) \notin more)
  <2>1. CASE r \in DOMAIN resources
    <3>1. ResourceIs(C, D, r, resources[r], Conflict(r) \notin found)
      BY <1>1, <2>1
    <3>2. Conflict(r) \notin more => Conflict(r) \notin found /\ clashes = {}
      BY <1>0, <2>1
    <3>3. ResourceIs(C, E, r, Resolution!Merge(resources[r], new, layer), Conflict(r) \notin more)
      BY <3>1, <3>2, ResourceGoesOn
    <3>4. next[r] = Resolution!Merge(resources[r], new, layer)
      BY <1>0, <2>1
    <3> HIDE DEF clashes, new
    <3> QED
      BY <3>3, <3>4
  <2>2. CASE r \notin DOMAIN resources
    <3>1. \A c \in D : C[c].ref # C[n].ref
      BY <1>1, <2>2
    <3>2. C[n].precedence \in Int /\ next[r] = new
      BY <1>0, <2>2
    <3>3. ResourceIs(C, E, r, new, Conflict(r) \notin more)
      BY <3>1, <3>2, ResourceStarts
    <3> QED
      BY <3>2, <3>3
  <2> QED
    BY <2>1, <2>2
<1>5. ASSUME ToldApart(C), NEW p \in more, p.what = "conflict"
      PROVE  \E c, d \in E : Differ(C, c, d, p.ref)
  <2>1. CASE p \in found
    BY <1>1, <1>5, <2>1
  <2>2. CASE p = Conflict(r) /\ r \in DOMAIN resources /\ clashes # {}
    <3>1. PICK f \in DOMAIN resources[r].desired \cap DOMAIN new.desired :
                 Resolution!Clashes(resources[r].desired[f], new.desired[f], layer)
      BY <2>2 DEF Resolution!Conflicts
    <3>2. f \in DOMAIN C[n].desired /\ new.desired[f].value = C[n].desired[f]
      BY <3>1 DEF Stamped
    <3>3. FieldAt(C, Says(C, D, r, f), f, resources[r].desired[f], Conflict(r) \notin found)
      BY <1>1, <1>5, <2>2, <3>1 DEF ResourceIs
    <3>4. PICK s \in Says(C, D, r, f) :
                 resources[r].desired[f] = [value |-> C[s].desired[f], from |-> C[s].from]
      BY <3>3 DEF FieldAt
    <3>5. s \in D /\ C[s].ref = r /\ f \in DOMAIN C[s].desired
      BY DEF Says
    <3>6. C[s].desired[f] # C[n].desired[f] /\ Resolution!Named(C[s].from).precedence = C[n].precedence
      BY <3>1, <3>2, <3>4 DEF Resolution!Clashes
    <3>7. C[s].precedence = C[n].precedence
      BY <1>5, <3>5, <3>6
    <3>8. Differ(C, s, n, r) /\ s \in E /\ n \in E /\ p.ref = r
      BY <2>2, <3>2, <3>5, <3>6, <3>7 DEF Differ, Conflict
    <3> QED
      BY <3>8
  <2> QED
    BY <1>0, <1>5, <2>1, <2>2
<1> HIDE DEF r, E, new, clashes
<1>6. \A x \in DOMAIN next : ResourceIs(C, E, x, next[x], Conflict(x) \notin more)
  BY <1>3, <1>4
<1> QED
  BY <1>2, <1>5, <1>6 DEF ManifestIs, E

\* One turn of the loop of Resolve keeps the manifest the merge so far.
LEMMA FoldResourceKeepsIt ==
  ASSUME Foldable, FoldInv, Resolution!FoldResource
  PROVE  FoldInv'
<1> DEFINE C == Contributed
           T == todo
           D == DOMAIN C \ T
           n == CHOOSE c \in T : \A d \in T : Resolution!Precedes(c, d)
           layer == set.layers[n[1]]
           resource == set.resources[n[2]]
           r == C[n].ref
           new == Stamped(C, n, resource.layerDir)
           clashes == IF r \in DOMAIN merged THEN Resolution!Conflicts(merged[r], new, layer) ELSE {}
<1>1. /\ T # {} /\ T \subseteq DOMAIN C /\ \A c \in D : \A t \in T : c[1] <= t[1]
      /\ ManifestIs(C, D, merged, problems)
  BY DEF FoldInv, FoldsInOrder, Resolution!FoldResource
<1>2. /\ DOMAIN C \subseteq Nat \X Nat
      /\ \A c \in DOMAIN C : C[c].deps \in [EdgeKinds -> Seq(Nat)] /\ C[c].precedence \in Int
      /\ \A c, d \in DOMAIN C : c[1] <= d[1] => C[c].precedence <= C[d].precedence
      /\ ToldApart(C) => \A c \in DOMAIN C : Resolution!Named(C[c].from) = set.layers[c[1]]
  BY DEF Foldable
<1>3. n \in T /\ \A d \in T : n[1] <= d[1]
  <2> HIDE DEF C
  <2>1. T \subseteq Nat \X Nat
    BY <1>1, <1>2
  <2> QED
    BY <1>1, <2>1, FoldsNext
<1>4. \A c \in DOMAIN C : C[c].precedence = set.layers[c[1]].precedence
  BY ContributedIs
<1>5. /\ r = resource.ref /\ C[n].deps = resource.deps /\ C[n].from = layer.name
      /\ C[n].desired = [f \in DOMAIN resource.desired |-> Resolution!Substitute(resource.desired[f])]
  <2> HIDE DEF n
  <2>1. n \in Resolution!Contributions
    BY <1>1, <1>3, ContributedIs
  <2> QED
    BY <2>1, ContributedIs
<1>6. /\ todo' = T \ {n}
      /\ merged' = [x \in DOMAIN merged \cup {resource.ref} |->
                      CASE x # resource.ref -> merged[x]
                        [] x = resource.ref /\ resource.ref \in DOMAIN merged ->
                             Resolution!Merge(merged[resource.ref], Resolution!Stamp(resource, layer), layer)
                        [] OTHER -> Resolution!Stamp(resource, layer)]
      /\ problems' = problems
           \cup {[what |-> "undeclared label", ref |-> resource.ref] :
                   f \in {f \in DOMAIN resource.desired : Resolution!Undeclared(resource.desired[f])}}
           \cup {[what |-> "conflict", ref |-> resource.ref] :
                   f \in {f \in DOMAIN resource.desired : resource.ref \in DOMAIN merged /\
                            f \in Resolution!Conflicts(merged[resource.ref], Resolution!Stamp(resource, layer), layer)}}
      /\ UNCHANGED <<set, host>>
  <2>1. Resolution!FoldResource
    OBVIOUS
  <2> QED
    BY <2>1, ZenonT(60) DEF Resolution!FoldResource
<1>7. Contributed' = C
  BY <1>6, ContributedStays
<1>8. Resolution!Stamp(resource, layer) = new
  <2>1. DOMAIN C[n].desired = DOMAIN resource.desired
    BY <1>5
  <2> HIDE DEF C, n, layer, resource
  <2>2. \A f \in DOMAIN resource.desired : C[n].desired[f] = Resolution!Substitute(resource.desired[f])
    BY <1>5
  <2>3. [f \in DOMAIN resource.desired |->
           [value |-> Resolution!Substitute(resource.desired[f]), from |-> layer.name]]
        = [f \in DOMAIN C[n].desired |-> [value |-> C[n].desired[f], from |-> C[n].from]]
    BY <1>5, <2>1, <2>2
  <2> QED
    BY <1>5, <2>3 DEF Resolution!Stamp, Stamped
<1>9. clashes \subseteq DOMAIN resource.desired
  <2>1. DOMAIN new.desired = DOMAIN resource.desired
    <3> HIDE DEF C, n
    <3> QED
      BY <1>5 DEF Stamped
  <2> HIDE DEF new, C, n
  <2> QED
    BY <2>1 DEF Resolution!Conflicts
<1> HIDE DEF new, C, n, layer, resource, D, T
<1>10. /\ DOMAIN merged' = DOMAIN merged \cup {r}
       /\ \A x \in DOMAIN merged : x # r => merged'[x] = merged[x]
       /\ merged'[r] = IF r \in DOMAIN merged THEN Resolution!Merge(merged[r], new, layer) ELSE new
  BY <1>5, <1>6, <1>8
<1>11. problems' = problems
         \cup {[what |-> "undeclared label", ref |-> r] :
                 f \in {f \in DOMAIN resource.desired : Resolution!Undeclared(resource.desired[f])}}
         \cup {Conflict(r) : f \in clashes}
  <2>1. {f \in DOMAIN resource.desired : r \in DOMAIN merged /\ f \in Resolution!Conflicts(merged[r], new, layer)} = clashes
    BY <1>9
  <2> HIDE DEF clashes
  <2> QED
    BY <1>5, <1>6, <1>8, <2>1 DEF Conflict
<1>12. problems \subseteq problems' /\ (clashes # {} => Conflict(r) \in problems')
  <2> HIDE DEF clashes, r
  <2> QED
    BY <1>11
<1>13. ASSUME NEW p, p.what = "conflict", p \in problems'
       PROVE  p \in problems \/ (p = Conflict(r) /\ clashes # {})
  <2> HIDE DEF clashes, r
  <2>1. \/ p \in problems
        \/ p = [what |-> "undeclared label", ref |-> r]
        \/ p = Conflict(r) /\ clashes # {}
    BY <1>11, <1>13
  <2>2. [what |-> "undeclared label", ref |-> r].what = "undeclared label" /\ p.what = "conflict"
    BY <1>13
  <2>3. "undeclared label" # "conflict"
    OBVIOUS
  <2> QED
    BY <2>1, <2>2, <2>3
<1>14. DOMAIN C \ (T \ {n}) = D \cup {n} /\ D \subseteq DOMAIN C
  BY <1>1, <1>3 DEF D
<1>15. /\ \A c \in D \cup {n} : C[c].precedence \in Int
       /\ \A c \in D : C[c].precedence <= C[n].precedence
       /\ C[n].deps \in [EdgeKinds -> Seq(Nat)] /\ layer.precedence = C[n].precedence
       /\ ToldApart(C) => \A c \in D : Resolution!Named(C[c].from).precedence = C[c].precedence
  BY <1>1, <1>2, <1>3, <1>4, <1>14 DEF layer
<1>16. ManifestIs(C, D \cup {n}, merged', problems')
  <2> DEFINE seen == r \in DOMAIN merged
             those == Resolution!Conflicts(merged[r], new, layer)
  <2>1. seen => clashes = those
    OBVIOUS
  <2>2. ~seen => clashes = {}
    OBVIOUS
  <2>3. /\ DOMAIN merged' = DOMAIN merged \cup {r}
        /\ \A x \in DOMAIN merged : x # r => merged'[x] = merged[x]
        /\ merged'[r] = IF seen THEN Resolution!Merge(merged[r], new, layer) ELSE new
    BY <1>10
  <2> HIDE DEF clashes, r, those, seen
  <2>4. /\ problems \subseteq problems'
        /\ \A p : p \in problems' /\ p.what = "conflict" => p \in problems \/ (p = Conflict(r) /\ seen /\ those # {})
        /\ seen /\ those # {} => Conflict(r) \in problems'
    BY <1>12, <1>13, <2>1, <2>2
  <2>5. Folding(C, n, layer, resource.layerDir, merged, problems, merged', problems')
    BY <2>3, <2>4 DEF Folding, new, r, those, seen
  <2> QED
    BY <1>1, <1>15, <2>5, ManifestGoesOn
<1>17. FoldsInOrder(C, T \ {n})
  BY <1>1, <1>3, <1>14 DEF FoldsInOrder
<1>18. FoldsInOrder(Contributed', todo') /\ ManifestIs(Contributed', DOMAIN Contributed' \ todo', merged', problems')
  BY <1>6, <1>7, <1>14, <1>16, <1>17
<1> QED
  BY <1>18 DEF FoldInv

\* Nothing is folded when the layers have been matched.
LEMMA MatchLayersStartsIt ==
  ASSUME Resolution!MatchLayers, merged = <<>>, problems = {}
  PROVE  FoldInv'
<1>1. Contributed' = Contributed
  BY ContributedStays DEF Resolution!MatchLayers
<1>2. todo' = DOMAIN Contributed /\ merged' = <<>> /\ problems' = {}
  BY ContributedIs DEF Resolution!MatchLayers
<1>3. DOMAIN merged' = {}
  BY <1>2
<1>4. ManifestIs(Contributed, {}, merged', {})
  BY <1>3 DEF ManifestIs
<1>5. FoldsInOrder(Contributed, DOMAIN Contributed)
  BY DEF FoldsInOrder
<1>6. FoldsInOrder(Contributed', todo') /\ ManifestIs(Contributed', DOMAIN Contributed' \ todo', merged', problems')
  BY <1>1, <1>2, <1>4, <1>5
<1> QED
  BY <1>6 DEF FoldInv

\* What is looked up for a resource once it is merged.
LEMMA ResourceKeeps ==
  ASSUME NEW C, NEW D, NEW r, NEW resource, NEW clear, ResourceIs(C, D, r, resource, clear), NEW dir, NEW calm, calm => clear
  PROVE  ResourceIs(C, D, r, [desired |-> resource.desired, deps |-> resource.deps, dir |-> dir], calm)
<1> DEFINE next == [desired |-> resource.desired, deps |-> resource.deps, dir |-> dir]
<1>1. next = [desired |-> next.desired, deps |-> next.deps, dir |-> next.dir] /\ next.desired = resource.desired /\ next.deps = resource.deps
  OBVIOUS
<1>2. /\ DOMAIN resource.desired = UNION {DOMAIN C[c].desired : c \in Declares(C, D, r)}
      /\ resource.deps \in [EdgeKinds -> Seq(Nat)]
      /\ \A k \in EdgeKinds : Discovery!ToSet(resource.deps[k]) = UNION {Discovery!ToSet(C[c].deps[k]) : c \in Declares(C, D, r)}
      /\ ToldApart(C) => \A f \in DOMAIN resource.desired : FieldAt(C, Says(C, D, r, f), f, resource.desired[f], clear)
  BY DEF ResourceIs
<1>3. ToldApart(C) => \A f \in DOMAIN resource.desired : FieldAt(C, Says(C, D, r, f), f, resource.desired[f], calm)
  BY <1>2, FieldWeakens
<1> HIDE DEF next
<1>4. ResourceIs(C, D, r, next, calm)
  BY <1>1, <1>2, <1>3 DEF ResourceIs
<1> QED
  BY <1>4 DEF next

\* Validating the manifest and choosing the directory change nothing of the merge.
LEMMA CheckManifestKeepsIt ==
  ASSUME FoldInv, Resolution!CheckManifest
  PROVE  FoldInv' /\ problems \subseteq problems'
<1> DEFINE C == Contributed
           D == DOMAIN C \ todo
<1>1. Contributed' = C /\ todo' = todo
  BY ContributedStays DEF Resolution!CheckManifest
<1>2. /\ merged' = [r \in DOMAIN merged |-> [desired |-> merged[r].desired, deps |-> merged[r].deps,
                                             dir |-> Resolution!SourceLayerDir(merged[r])]]
      /\ problems' = problems \cup UNION {{[what |-> p, ref |-> r] : p \in Resolution!Invalid(r, merged[r])} : r \in DOMAIN merged}
  BY DEF Resolution!CheckManifest
<1>3. FoldsInOrder(C, todo) /\ ManifestIs(C, D, merged, problems)
  BY DEF FoldInv
<1>4. \A r \in DOMAIN merged : "conflict" \notin Resolution!Invalid(r, merged[r])
  BY DEF Resolution!Invalid, Resolution!Schema!Problems
<1>5. \A p \in problems' : p.what = "conflict" => p \in problems
  BY <1>2, <1>4
<1>6. problems \subseteq problems'
  BY <1>2
<1> HIDE DEF C, D
<1>7. ASSUME NEW r \in DOMAIN merged'
      PROVE  ResourceIs(C, D, r, merged'[r], Conflict(r) \notin problems')
  <2>1. /\ r \in DOMAIN merged
        /\ merged'[r] = [desired |-> merged[r].desired, deps |-> merged[r].deps, dir |-> Resolution!SourceLayerDir(merged[r])]
    BY <1>2
  <2>2. ResourceIs(C, D, r, merged[r], Conflict(r) \notin problems)
    BY <1>3, <2>1 DEF ManifestIs
  <2>3. Conflict(r) \notin problems' => Conflict(r) \notin problems
    BY <1>6
  <2>4. ResourceIs(C, D, r, [desired |-> merged[r].desired, deps |-> merged[r].deps, dir |-> Resolution!SourceLayerDir(merged[r])],
                   Conflict(r) \notin problems')
    BY <2>2, <2>3, ResourceKeeps
  <2> QED
    BY <2>1, <2>4
<1>8. DOMAIN merged' = DOMAIN merged
  BY <1>2
<1>9. ManifestIs(C, D, merged', problems')
  BY <1>3, <1>5, <1>7, <1>8 DEF ManifestIs
<1>10. FoldsInOrder(Contributed', todo') /\ ManifestIs(Contributed', DOMAIN Contributed' \ todo', merged', problems')
  BY <1>1, <1>3, <1>9 DEF D
<1> QED
  BY <1>6, <1>10 DEF FoldInv

-----------------------------------------------------------------------------
(* The invariant of resolving.                                             *)

Found == ~Discovery!Fails(repo) /\ set = Discovery!Walk(repo)

\* What has been looked up and checked for a resource with a source.
Checked ==
  \A r \in DOMAIN merged :
    LET desired == merged[r].desired
    IN  "source" \in DOMAIN desired =>
          /\ "content" \in DOMAIN desired => "" \in {desired["source"].value, desired["content"].value}
          /\ ToldApart(Contributed) =>
               \A c \in DOMAIN Contributed :
                 Contributed[c].from = desired["source"].from => merged[r].dir = Contributed[c].dir

ManifestInv ==
  /\ repo \in Repositories /\ later \in Repositories
  /\ stage \in {"walk", "refused"} \/ Found
  /\ stage = "match" => merged = <<>>
  /\ stage = "fold" \/ Resolved => FoldInv
  /\ problems # {} => stage \in {"fold", "refused"} /\ Found /\ FoldInv
  /\ Resolved => todo = {} /\ Checked

\* While a manifest is being merged, what was found can be folded.
LEMMA FoundIsFoldable == ManifestInv /\ Found => Foldable
BY WalkIsFoldable DEF ManifestInv, Found

\* What a step does not touch of a manifest stays as it was.
LEMMA ResolvingStays ==
  ASSUME UNCHANGED <<repo, set, host, todo, merged, problems>>
  PROVE  (Found' <=> Found) /\ (FoldInv' <=> FoldInv) /\ (Checked' <=> Checked)
<1>1. Contributed' = Contributed
  BY ContributedStays
<1>2. Found' <=> Found
  BY DEF Found
<1>3. FoldInv' <=> FoldInv
  BY <1>1 DEF FoldInv
<1>4. Checked' <=> Checked
  BY <1>1 DEF Checked
<1> QED
  BY <1>2, <1>3, <1>4

\* Only a file has a source, and no content beside it.
LEMMA OneOfSourceAndContent ==
  ASSUME NEW type \in DOMAIN Resolution!Schema!Fields, NEW values, Resolution!Schema!Problems(type, values) = {},
         "source" \in DOMAIN values, "content" \in DOMAIN values
  PROVE  "" \in {values["source"], values["content"]}
<1>1. /\ Resolution!Schema!UnknownFields(type, values) = {}
      /\ ~Resolution!Schema!ExclusiveFields(type, values)
  BY DEF Resolution!Schema!Problems
<1>2. "source" \in Resolution!Schema!Fields[type]
  BY <1>1 DEF Resolution!Schema!UnknownFields
<1>3. type \in {"Package", "File", "Directory", "Symlink", "Service", "User", "Group", "Sysctl", "Repository"}
  BY DEF Resolution!Schema!Fields
<1>4. type = "File"
  BY <1>2, <1>3 DEF Resolution!Schema!Fields, Resolution!Schema!Presence, Resolution!Schema!Ownership
<1>5. Resolution!Schema!AtMostOne(type) = Resolution!Schema!Content
  BY <1>4 DEF Resolution!Schema!AtMostOne
<1>6. ~(Resolution!Schema!Set(values, "source") /\ Resolution!Schema!Set(values, "content"))
  BY <1>1, <1>5 DEF Resolution!Schema!ExclusiveFields, Resolution!Schema!Content
<1> QED
  BY <1>6 DEF Resolution!Schema!Set

\* A manifest that passed has its directories where the code takes them from.
LEMMA CheckManifestChecks ==
  ASSUME Foldable, FoldInv, Resolution!CheckManifest, problems' = {}
  PROVE  Checked'
<1> DEFINE C == Contributed
<1>1. /\ todo = {} /\ UNCHANGED <<set, host>>
      /\ merged' = [r \in DOMAIN merged |-> [desired |-> merged[r].desired, deps |-> merged[r].deps,
                                             dir |-> Resolution!SourceLayerDir(merged[r])]]
      /\ problems' = problems \cup UNION {{[what |-> p, ref |-> r] : p \in Resolution!Invalid(r, merged[r])} : r \in DOMAIN merged}
  BY DEF Resolution!CheckManifest
<1>2. Contributed' = C
  BY <1>1, ContributedStays
<1>3. DOMAIN merged = {C[c].ref : c \in DOMAIN C \ todo}
  BY DEF FoldInv, ManifestIs
<1>4. ASSUME NEW r \in DOMAIN merged, "source" \in DOMAIN merged[r].desired
      PROVE  LET desired == merged[r].desired
             IN  /\ "content" \in DOMAIN desired => "" \in {desired["source"].value, desired["content"].value}
                 /\ ToldApart(C) =>
                      \A c \in DOMAIN C : C[c].from = desired["source"].from => Resolution!SourceLayerDir(merged[r]) = C[c].dir
  <2> DEFINE desired == merged[r].desired
             values == Resolution!ValuesOf(merged[r])
  <2>1. r \in Refs
    BY <1>3 DEF Foldable
  <2>2. ASSUME NEW p \in Resolution!Invalid(r, merged[r]) PROVE FALSE
    <3>1. [what |-> p, ref |-> r] \in UNION {{[what |-> q, ref |-> x] : q \in Resolution!Invalid(x, merged[x])} : x \in DOMAIN merged}
      OBVIOUS
    <3> QED
      BY <1>1, <3>1
  <2>3. Resolution!Schema!Problems(TypeOf[r], values) = {}
    BY <2>2 DEF Resolution!Invalid
  <2>4. TypeOf[r] \in DOMAIN Resolution!Schema!Fields
    BY <2>1, TypesAssumption
  <2>5. DOMAIN values = DOMAIN desired /\ \A f \in DOMAIN desired : values[f] = desired[f].value
    BY DEF Resolution!ValuesOf
  <2> HIDE DEF values
  <2>6. "content" \in DOMAIN desired => "" \in {desired["source"].value, desired["content"].value}
    BY <1>4, <2>3, <2>4, <2>5, OneOfSourceAndContent
  <2>7. Resolution!SourceLayerDir(merged[r]) = Resolution!Named(desired["source"].from).dir
    <3> DEFINE I == {i \in 1..Len(Resolution!PathFields) : Resolution!PathFields[i] \in DOMAIN desired}
    <3>1. Len(Resolution!PathFields) = 2 /\ Resolution!PathFields[1] = "source"
      BY DEF Resolution!PathFields
    <3>2. 1 \in I /\ \A i \in I : i \in Int /\ 1 <= i
      BY <1>4, <3>1
    <3>3. Resolution!SourceLayerDir(merged[r]) =
            LET i == IF I # {} THEN Resolution!Min(I) ELSE 0
            IN  IF i = 0 THEN merged[r].dir ELSE Resolution!Named(merged[r].desired[Resolution!PathFields[i]].from).dir
      BY DEF Resolution!SourceLayerDir, Resolution!SelectInSeq
    <3> HIDE DEF I
    <3>4. Resolution!Min(I) = 1
      BY <3>2 DEF Resolution!Min
    <3> QED
      BY <3>1, <3>2, <3>3, <3>4
  <2>8. ASSUME ToldApart(C), NEW c \in DOMAIN C, C[c].from = desired["source"].from
        PROVE  Resolution!SourceLayerDir(merged[r]) = C[c].dir
    <3>1. Resolution!Named(C[c].from) = set.layers[c[1]]
      BY <2>8 DEF Foldable
    <3>2. C[c].dir = set.layers[c[1]].dir
      BY ContributedIs
    <3> QED
      BY <2>7, <2>8, <3>1, <3>2
  <2> QED
    BY <2>6, <2>8
<1> HIDE DEF C
<1>5. ASSUME NEW r \in DOMAIN merged', "source" \in DOMAIN merged'[r].desired
      PROVE  /\ "content" \in DOMAIN merged'[r].desired =>
                  "" \in {merged'[r].desired["source"].value, merged'[r].desired["content"].value}
             /\ ToldApart(C) =>
                  \A c \in DOMAIN C : C[c].from = merged'[r].desired["source"].from => merged'[r].dir = C[c].dir
  <2>1. /\ r \in DOMAIN merged /\ merged'[r].desired = merged[r].desired
        /\ merged'[r].dir = Resolution!SourceLayerDir(merged[r])
    BY <1>1
  <2> QED
    BY <1>4, <1>5, <2>1
<1> QED
  BY <1>2, <1>5 DEF Checked

\* Nothing is merged before anything is walked.
LEMMA ManifestInvInit == AffectedInit => ManifestInv
<1> SUFFICES ASSUME NEW c \in Cases, Begins(c) PROVE ManifestInv
  BY DEF AffectedInit
<1>1. stage = "walk" /\ problems = {} /\ repo = c.repo /\ later = c.later
  BY DEF Begins, CompileInit
<1> QED
  BY <1>1 DEF ManifestInv, Repositories, Resolved

\* Every step of resolving one host.
LEMMA ResolveStepResolves ==
  ASSUME ManifestInv, ResolveStep, UNCHANGED later
  PROVE  ManifestInv'
<1>1. Resolution!Next /\ UNCHANGED <<repo, later>>
  BY DEF ResolveStep
<1>2. CASE Resolution!MatchLayers
  <2>1. stage = "match" /\ stage' = "fold" /\ UNCHANGED <<set, host, merged, problems>>
    BY <1>2 DEF Resolution!MatchLayers
  <2>2. Found /\ merged = <<>> /\ problems = {}
    BY <2>1 DEF ManifestInv
  <2>3. FoldInv'
    BY <1>2, <2>2, MatchLayersStartsIt
  <2>4. Found'
    BY <1>1, <2>1, <2>2 DEF Found
  <2> QED
    BY <1>1, <2>1, <2>3, <2>4 DEF ManifestInv, Resolved
<1>3. CASE Resolution!FoldResource
  <2>1. stage = "fold" /\ stage' = "fold" /\ UNCHANGED <<set, host>>
    BY <1>3 DEF Resolution!FoldResource
  <2>2. Found /\ FoldInv
    BY <2>1 DEF ManifestInv
  <2>3. FoldInv'
    BY <1>3, <2>2, FoldResourceKeepsIt, FoundIsFoldable
  <2>4. Found'
    BY <1>1, <2>1, <2>2 DEF Found
  <2> QED
    BY <1>1, <2>1, <2>3, <2>4 DEF ManifestInv, Resolved
<1>4. CASE Resolution!CheckManifest
  <2>1. /\ stage = "fold" /\ todo' = {} /\ UNCHANGED <<set, host>>
        /\ stage' = IF problems' = {} THEN "resolved" ELSE "refused"
    BY <1>4 DEF Resolution!CheckManifest
  <2>2. Found /\ FoldInv /\ Foldable
    BY <2>1, FoundIsFoldable DEF ManifestInv
  <2>3. FoldInv'
    BY <1>4, <2>2, CheckManifestKeepsIt
  <2>4. Found'
    BY <1>1, <2>1, <2>2 DEF Found
  <2>5. problems' = {} => Checked'
    BY <1>4, <2>2, CheckManifestChecks
  <2> QED
    BY <1>1, <2>1, <2>3, <2>4, <2>5 DEF ManifestInv, Resolved
<1> QED
  BY <1>1, <1>2, <1>3, <1>4 DEF Resolution!Next

\* Resolving begins from what was walked.
LEMMA BeginResolves ==
  ASSUME ManifestInv, NEW found, NEW name, Resolution!Begin(found, name), UNCHANGED <<repo, later>>,
         ~Discovery!Fails(repo), found = Discovery!Walk(repo)
  PROVE  ManifestInv'
<1>1. /\ set' = found /\ merged' = <<>> /\ problems' = {} /\ stage' \in {"match", "refused"}
  BY DEF Resolution!Begin
<1>2. Found'
  BY <1>1 DEF Found
<1> QED
  BY <1>1, <1>2 DEF ManifestInv, Resolved

\* Every step of a pass.
LEMMA PassStepResolves ==
  ASSUME ManifestInv, CompileNext, UNCHANGED reporting
  PROVE  ManifestInv'
<1>0. UNCHANGED later
  BY DEF reporting
<1>1. CASE WalkStep(Me)
  <2>1. CASE Discovery!Fails(repo)
    <3>1. stage = "walk" /\ stage' = "refused" /\ UNCHANGED <<repo, set, host, todo, merged, problems>>
      BY <1>1, <2>1 DEF WalkStep, Refuse
    <3> QED
      BY <1>0, <3>1 DEF ManifestInv, Resolved
  <2>2. CASE ~Discovery!Fails(repo)
    <3>1. Resolution!Begin(Discovery!Walk(repo), Me) /\ UNCHANGED repo
      BY <1>1, <2>2 DEF WalkStep
    <3> QED
      BY <1>0, <2>2, <3>1, BeginResolves
  <2> QED
    BY <2>1, <2>2
<1>2. CASE ResolveStep
  BY <1>0, <1>2, ResolveStepResolves
<1>3. CASE HandOver \/ BuildStep \/ Detect
  <2>1. /\ stage \in {"resolved", "building"} /\ stage' \in {"building", "ready", "refused"}
        /\ UNCHANGED <<repo, set, host, todo, merged, problems>>
    BY <1>3 DEF HandOver, BuildStep, Detect, Refuse
  <2>2. (Found' <=> Found) /\ (FoldInv' <=> FoldInv) /\ (Checked' <=> Checked)
    BY <2>1, ResolvingStays
  <2> QED
    BY <1>0, <2>1, <2>2 DEF ManifestInv, Resolved
<1> QED
  BY <1>1, <1>2, <1>3 DEF CompileNext

\* Every step of datum affected between two hosts.
LEMMA ReportStepResolves ==
  ASSUME ManifestInv, WalkRevision \/ NextHost \/ KeepManifest \/ NextRevision
  PROVE  ManifestInv'
<1>1. CASE WalkRevision
  <2>1. /\ stage = "walk" /\ UNCHANGED <<repo, later, host, todo, merged, problems>>
        /\ \/ stage' = "refused"
           \/ ~Discovery!Fails(repo) /\ set' = Discovery!Walk(repo) /\ stage' = "next"
    BY <1>1 DEF WalkRevision, Refuse
  <2>2. stage' = "next" => Found'
    BY <2>1 DEF Found
  <2> QED
    BY <2>1, <2>2 DEF ManifestInv, Resolved
<1>2. CASE NextHost
  <2>1. stage = "next" /\ Resolution!Begin(set, Head(left)) /\ UNCHANGED <<repo, later>>
    BY <1>2 DEF NextHost, reporting
  <2>2. ~Discovery!Fails(repo) /\ set = Discovery!Walk(repo)
    BY <2>1 DEF ManifestInv, Found
  <2> QED
    BY <2>1, <2>2, BeginResolves
<1>3. CASE KeepManifest
  <2>1. stage = "resolved" /\ stage' = "next" /\ UNCHANGED <<repo, later, set, host, todo, merged, problems>>
    BY <1>3 DEF KeepManifest
  <2>2. Found' <=> Found
    BY <2>1, ResolvingStays
  <2> QED
    BY <2>1, <2>2 DEF ManifestInv, Resolved
<1>4. CASE NextRevision
  <2>1. /\ stage = "next" /\ UNCHANGED <<later, set, host, todo, merged, problems>>
        /\ \/ stage' = "walk" /\ repo' = later
           \/ stage' = "reported" /\ UNCHANGED repo
    BY <1>4 DEF NextRevision, reporting
  <2>2. CASE stage' = "walk" /\ repo' = later
    BY <2>1, <2>2 DEF ManifestInv, Resolved
  <2>3. CASE stage' = "reported" /\ UNCHANGED repo
    <3>1. Found' <=> Found
      BY <2>1, <2>3, ResolvingStays
    <3> QED
      BY <2>1, <2>3, <3>1 DEF ManifestInv, Resolved
  <2> QED
    BY <2>1, <2>2, <2>3
<1> QED
  BY <1>1, <1>2, <1>3, <1>4

\* No step of a pass or of a report leaves it.
LEMMA ManifestInvStep == ManifestInv /\ [AffectedNext]_<<compilation, reporting>> => ManifestInv'
<1> SUFFICES ASSUME ManifestInv, [AffectedNext]_<<compilation, reporting>> PROVE ManifestInv'
  OBVIOUS
<1>1. CASE CompileNext /\ UNCHANGED reporting
  BY <1>1, PassStepResolves
<1>2. CASE ResolveStep /\ UNCHANGED reporting
  BY <1>2, ResolveStepResolves DEF reporting
<1>3. CASE WalkRevision \/ NextHost \/ KeepManifest \/ NextRevision
  BY <1>3, ReportStepResolves
<1>4. CASE UNCHANGED <<compilation, reporting>>
  <2>1. UNCHANGED <<repo, later, stage, set, host, todo, merged, problems>>
    BY <1>4 DEF compilation, reporting
  <2>2. (Found' <=> Found) /\ (FoldInv' <=> FoldInv) /\ (Checked' <=> Checked)
    BY <2>1, ResolvingStays
  <2> QED
    BY <2>1, <2>2 DEF ManifestInv, Resolved
<1> QED
  BY <1>1, <1>2, <1>3, <1>4 DEF AffectedNext

(* Whatever a repository holds, what is being folded is what the layers    *)
(* that match say, so far, with its conflicts, and what was resolved has   *)
(* been checked (discover.go:60-73, resolve.go:60-187).                    *)
THEOREM ManifestInvariant == AffectedSpec => []ManifestInv
<1> QED
  BY ManifestInvInit, ManifestInvStep, PTL DEF AffectedSpec

-----------------------------------------------------------------------------
(* What is contributed, by the documents of the repository.                *)

Said == DOMAIN Contributed

\* What is contributed, in the words of the properties: documents and the layers that govern them.
LEMMA ContributedMeans ==
  ASSUME repo \in Repositories, Found
  PROVE  /\ \A c \in Said :
              /\ c[1] \in DOMAIN set.layers /\ c[1] \in Resolution!Matched /\ c[2] \in DOMAIN set.resources
              /\ GovernorOf(ResourceAt(c[2])) \in Layers
              /\ GovernorOf(ResourceAt(c[2])).name = LayerAt(c[1]).name
              /\ ResourceAt(c[2]) \in Documents(GovernorOf(ResourceAt(c[2])))
              /\ Contributed[c].ref = ResourceAt(c[2]).ref /\ Contributed[c].deps = ResourceAt(c[2]).deps
              /\ Contributed[c].desired =
                   [f \in DOMAIN ResourceAt(c[2]).desired |-> Resolution!Substitute(ResourceAt(c[2]).desired[f])]
              /\ Contributed[c].from = LayerAt(c[1]).name
              /\ Contributed[c].precedence = LayerAt(c[1]).precedence /\ LayerAt(c[1]).precedence \in Int
              /\ Contributed[c].dir = From(Discovery!Dir(LayerAt(c[1]).file))
              /\ LayerAt(c[1]) \in Layers
         /\ \A l \in Layers : \A d \in Documents(l) :
              \E c \in Said : ResourceAt(c[2]) = d /\ GovernorOf(d) = l
<1>1. ~Discovery!Fails(repo) /\ set = Discovery!Walk(repo)
  BY DEF Found
<1>2. ASSUME NEW i \in DOMAIN set.layers
      PROVE  /\ LayerAt(i) \in repo.layers /\ Ours(LayerAt(i)) /\ LayerAt(i).precedence \in Int
             /\ set.layers[i].name = LayerAt(i).name /\ set.layers[i].precedence = LayerAt(i).precedence
             /\ set.layers[i].dir = From(Discovery!Dir(LayerAt(i).file))
  <2>1. /\ LayerAt(i) \in repo.layers /\ Ours(LayerAt(i)) /\ LayerAt(i).precedence \in Int
        /\ set.layers[i] = [name |-> LayerAt(i).name, precedence |-> LayerAt(i).precedence,
                            match |-> LayerAt(i).match, dir |-> From(Discovery!Dir(LayerAt(i).file))]
    BY <1>1, LayersFound
  <2> QED
    BY <2>1
<1>3. ASSUME NEW j \in DOMAIN set.resources
      PROVE  /\ ResourceAt(j) \in repo.resources /\ Ours(ResourceAt(j))
             /\ GovernorOf(ResourceAt(j)) \in repo.layers /\ Ours(GovernorOf(ResourceAt(j)))
             /\ Governs(GovernorOf(ResourceAt(j)), ResourceAt(j))
             /\ set.resources[j].ref = ResourceAt(j).ref /\ set.resources[j].desired = ResourceAt(j).desired
             /\ set.resources[j].deps = ResourceAt(j).deps /\ set.resources[j].layer = GovernorOf(ResourceAt(j)).name
  <2> DEFINE d == ResourceAt(j)
             g == GovernorOf(d)
  <2>1. /\ d \in repo.resources /\ Ours(d) /\ g \in repo.layers /\ Ours(g) /\ Governs(g, d)
        /\ set.resources[j] = [ref |-> d.ref, desired |-> d.desired, deps |-> d.deps,
                               layer |-> g.name, layerDir |-> From(Discovery!Dir(g.file))]
    BY <1>1, ResourcesFound
  <2> HIDE DEF d, g
  <2>2. /\ set.resources[j].ref = d.ref /\ set.resources[j].desired = d.desired
        /\ set.resources[j].deps = d.deps /\ set.resources[j].layer = g.name
    BY <2>1
  <2> QED
    BY <2>1, <2>2 DEF d, g
<1>4. ASSUME NEW i \in Resolution!Matched
      PROVE  i \in DOMAIN set.layers /\ LayerAt(i) \in Layers
  <2>1. i \in DOMAIN set.layers
    BY DEF Resolution!Matched
  <2>2. LayerAt(i) \in repo.layers /\ Ours(LayerAt(i)) /\ set.layers[i].name = LayerAt(i).name
    BY <1>2, <2>1
  <2> QED
    BY <2>1, <2>2 DEF Layers, Applies
<1>5. ASSUME NEW c \in Said
      PROVE  /\ c[1] \in DOMAIN set.layers /\ c[1] \in Resolution!Matched /\ c[2] \in DOMAIN set.resources
             /\ GovernorOf(ResourceAt(c[2])) \in Layers
             /\ GovernorOf(ResourceAt(c[2])).name = LayerAt(c[1]).name
             /\ ResourceAt(c[2]) \in Documents(GovernorOf(ResourceAt(c[2])))
             /\ Contributed[c].ref = ResourceAt(c[2]).ref /\ Contributed[c].deps = ResourceAt(c[2]).deps
             /\ Contributed[c].desired =
                  [f \in DOMAIN ResourceAt(c[2]).desired |-> Resolution!Substitute(ResourceAt(c[2]).desired[f])]
             /\ Contributed[c].from = LayerAt(c[1]).name
             /\ Contributed[c].precedence = LayerAt(c[1]).precedence /\ LayerAt(c[1]).precedence \in Int
             /\ Contributed[c].dir = From(Discovery!Dir(LayerAt(c[1]).file))
             /\ LayerAt(c[1]) \in Layers
  <2> DEFINE resource == set.resources[c[2]]
             layer == set.layers[c[1]]
             d == ResourceAt(c[2])
             g == GovernorOf(d)
  <2>1. c \in Resolution!Contributions
    BY ContributedIs DEF Said
  <2>2. /\ c[1] \in Resolution!Matched /\ c[1] \in DOMAIN set.layers /\ c[2] \in DOMAIN set.resources
        /\ resource.layer = layer.name
        /\ Contributed[c].ref = resource.ref /\ Contributed[c].deps = resource.deps
        /\ Contributed[c].desired = [f \in DOMAIN resource.desired |-> Resolution!Substitute(resource.desired[f])]
        /\ Contributed[c].from = layer.name /\ Contributed[c].precedence = layer.precedence
        /\ Contributed[c].dir = layer.dir
    BY <2>1, ContributedIs
  <2>3. /\ d \in repo.resources /\ Ours(d) /\ g \in repo.layers /\ Ours(g) /\ Governs(g, d)
        /\ resource.ref = d.ref /\ resource.desired = d.desired /\ resource.deps = d.deps /\ resource.layer = g.name
    BY <1>3, <2>2
  <2>4. /\ layer.name = LayerAt(c[1]).name /\ layer.precedence = LayerAt(c[1]).precedence
        /\ layer.dir = From(Discovery!Dir(LayerAt(c[1]).file)) /\ LayerAt(c[1]).precedence \in Int
    BY <1>2, <2>2
  <2> HIDE DEF resource, d, g
  <2>5. g \in Layers
    BY <2>2, <2>3 DEF Layers, Applies
  <2>6. d \in Documents(g)
    BY <2>3 DEF Documents
  <2>7. LayerAt(c[1]) \in Layers
    BY <1>4, <2>2
  <2> HIDE DEF layer
  <2>8. Contributed[c].desired = [f \in DOMAIN d.desired |-> Resolution!Substitute(d.desired[f])]
    BY <2>2, <2>3
  <2> QED
    BY <2>2, <2>3, <2>4, <2>5, <2>6, <2>7, <2>8 DEF d, g
<1>6. ASSUME NEW l \in Layers, NEW d \in Documents(l)
      PROVE  \E c \in Said : ResourceAt(c[2]) = d /\ GovernorOf(d) = l
  <2>1. d \in repo.resources /\ Ours(d) /\ Governs(l, d) /\ l \in repo.layers
    BY DEF Documents, Layers
  <2>2. PICK j \in DOMAIN set.resources : ResourceAt(j) = d
    BY <1>1, <2>1, ResourcesFound
  <2>3. {k \in repo.layers : Governs(k, d)} = {GovernorOf(d)}
    BY <1>1, <2>1, ResourcesFound
  <2>4. GovernorOf(d) = l
    BY <2>1, <2>3
  <2>5. PICK i \in Resolution!Matched : set.layers[i].name = l.name
    BY DEF Layers, Applies
  <2>6. set.resources[j].layer = set.layers[i].name
    BY <1>3, <2>2, <2>4, <2>5
  <2>7. <<i, j>> \in Said
    BY <2>6, ContributedIs DEF Said
  <2>8. <<i, j>>[2] = j
    OBVIOUS
  <2> QED
    BY <2>2, <2>4, <2>7, <2>8
<1> QED
  BY <1>5, <1>6

\* Layers are told apart by their names.
LEMMA LayersSay ==
  ASSUME repo \in Repositories, Found, OneNameEach
  PROVE  /\ ToldApart(Contributed)
         /\ \A c \in Said : \A f \in DOMAIN Contributed[c].desired :
              Contributed[c].desired[f] \in Values(LayerAt(c[1]), Contributed[c].ref, f)
         /\ \A l \in Layers : \A r, f : \A v \in Values(l, r, f) :
              \E c \in Says(Contributed, Said, r, f) : LayerAt(c[1]) = l /\ Contributed[c].desired[f] = v
<1>1. ASSUME NEW c \in Said, NEW d \in Said, Contributed[c].from = Contributed[d].from
      PROVE  c[1] = d[1]
  <2>1. /\ LayerAt(c[1]).name = LayerAt(d[1]).name /\ c[1] \in DOMAIN set.layers /\ d[1] \in DOMAIN set.layers
        /\ LayerAt(c[1]) \in repo.layers /\ LayerAt(d[1]) \in repo.layers
    BY <1>1, ContributedMeans DEF Layers
  <2>2. LayerAt(c[1]) = LayerAt(d[1])
    BY <2>1 DEF OneNameEach
  <2> QED
    BY <2>1, <2>2, LayersFound DEF Found
<1>2. ASSUME NEW c \in Said
      PROVE  GovernorOf(ResourceAt(c[2])) = LayerAt(c[1])
  <2>1. /\ GovernorOf(ResourceAt(c[2])).name = LayerAt(c[1]).name
        /\ GovernorOf(ResourceAt(c[2])) \in repo.layers /\ LayerAt(c[1]) \in repo.layers
    BY ContributedMeans DEF Layers
  <2> QED
    BY <2>1 DEF OneNameEach
<1>3. ASSUME NEW c \in Said, NEW f \in DOMAIN Contributed[c].desired
      PROVE  Contributed[c].desired[f] \in Values(LayerAt(c[1]), Contributed[c].ref, f)
  <2> DEFINE d == ResourceAt(c[2])
  <2>1. /\ d \in Documents(GovernorOf(d)) /\ Contributed[c].ref = d.ref
        /\ Contributed[c].desired = [g \in DOMAIN d.desired |-> Resolution!Substitute(d.desired[g])]
    BY ContributedMeans
  <2>2. GovernorOf(d) = LayerAt(c[1])
    BY <1>2
  <2> HIDE DEF d
  <2>3. f \in DOMAIN d.desired /\ Contributed[c].desired[f] = Resolution!Substitute(d.desired[f])
    BY <2>1
  <2> QED
    BY <2>1, <2>2, <2>3 DEF Values
<1>4. ASSUME NEW l \in Layers, NEW r, NEW f, NEW v \in Values(l, r, f)
      PROVE  \E c \in Says(Contributed, Said, r, f) : LayerAt(c[1]) = l /\ Contributed[c].desired[f] = v
  <2>1. PICK d \in Documents(l) : d.ref = r /\ f \in DOMAIN d.desired /\ v = Resolution!Substitute(d.desired[f])
    BY DEF Values
  <2>2. PICK c \in Said : ResourceAt(c[2]) = d /\ GovernorOf(d) = l
    BY ContributedMeans
  <2>3. /\ Contributed[c].ref = ResourceAt(c[2]).ref
        /\ Contributed[c].desired =
             [g \in DOMAIN ResourceAt(c[2]).desired |-> Resolution!Substitute(ResourceAt(c[2]).desired[g])]
    BY ContributedMeans
  <2>4. Contributed[c].ref = r /\ f \in DOMAIN Contributed[c].desired /\ Contributed[c].desired[f] = v
    BY <2>1, <2>2, <2>3
  <2>5. LayerAt(c[1]) = l
    BY <1>2, <2>2
  <2>6. c \in Says(Contributed, Said, r, f)
    BY <2>4 DEF Says
  <2> QED
    BY <2>4, <2>5, <2>6
<1>5. ToldApart(Contributed)
  BY <1>1 DEF ToldApart, Said
<1> QED
  BY <1>3, <1>4, <1>5

\* What a resolved resource is, by what is said of it.
LEMMA ResourceResolved ==
  ASSUME ManifestInv, Resolved
  PROVE  /\ repo \in Repositories /\ Found /\ problems = {} /\ Checked
         /\ DOMAIN merged = {Contributed[c].ref : c \in Said}
         /\ \A r \in DOMAIN merged :
              /\ DOMAIN merged[r].desired = UNION {DOMAIN Contributed[c].desired : c \in Declares(Contributed, Said, r)}
              /\ \A k \in EdgeKinds :
                   Discovery!ToSet(merged[r].deps[k]) =
                     UNION {Discovery!ToSet(Contributed[c].deps[k]) : c \in Declares(Contributed, Said, r)}
              /\ ToldApart(Contributed) =>
                   \A f \in DOMAIN merged[r].desired :
                     FieldAt(Contributed, Says(Contributed, Said, r, f), f, merged[r].desired[f], TRUE)
<1>1. /\ repo \in Repositories /\ Found /\ problems = {} /\ todo = {} /\ Checked /\ FoldInv
  BY DEF ManifestInv, Resolved
<1>2. ManifestIs(Contributed, Said, merged, {})
  BY <1>1 DEF FoldInv, Said
<1>3. DOMAIN merged = {Contributed[c].ref : c \in Said}
  BY <1>2 DEF ManifestIs
<1>4. ASSUME NEW r \in DOMAIN merged
      PROVE  ResourceIs(Contributed, Said, r, merged[r], TRUE)
  <2>1. ResourceIs(Contributed, Said, r, merged[r], Conflict(r) \notin {})
    BY <1>2 DEF ManifestIs
  <2>2. (Conflict(r) \notin {}) = TRUE
    OBVIOUS
  <2> QED
    BY <2>1, <2>2
<1> QED
  BY <1>1, <1>3, <1>4 DEF ResourceIs

\* No document of the fleet is left out: each has one layer nearest to it.
LEMMA DocumentsAreRead ==
  ASSUME repo \in Repositories, Found
  PROVE  /\ \A file \in repo.broken : ~Ours([file |-> file])
         /\ \A d \in repo.resources : Ours(d) => Cardinality({l \in repo.layers : Governs(l, d)}) = 1
<1>1. /\ ~Discovery!Fails(repo) /\ set = Discovery!Walk(repo) /\ Discovery!HasOneFleet(repo)
      /\ \A file \in repo.broken : ~Discovery!Mine(repo, file)
  BY DEF Found, Discovery!Fails
<1>2. ASSUME NEW file \in repo.broken PROVE ~Ours([file |-> file])
  <2> DEFINE d == [file |-> file]
  <2>1. d.file = file /\ d.file \in FilesOf(repo)
    BY DEF FilesOf
  <2> HIDE DEF d
  <2>2. Ours(d) <=> Discovery!Mine(repo, d.file)
    BY <1>1, <2>1, MineIsOurs
  <2> QED
    BY <1>1, <2>1, <2>2 DEF d
<1>3. ASSUME NEW d \in repo.resources, Ours(d)
      PROVE  Cardinality({l \in repo.layers : Governs(l, d)}) = 1
  <2>1. {l \in repo.layers : Governs(l, d)} = {GovernorOf(d)}
    BY <1>1, <1>3, ResourcesFound
  <2> QED
    BY <2>1, FS_Singleton
<1> QED
  BY <1>2, <1>3

(* Whatever a fleet's repository holds, a manifest has exactly the         *)
(* resources, fields and dependencies of the documents whose nearest layer *)
(* matches the host, and each value is one that a layer of the highest     *)
(* precedence gives (discover.go:60-73, 229-268, resolve.go:152-187,       *)
(* merge.go:16-18).                                                        *)
THEOREM CompileManifestIsTheMerge == AffectedSpec => []ManifestIsTheMerge
<1>1. ManifestInv => ManifestIsTheMerge
  <2> SUFFICES ASSUME ManifestInv, Resolved
               PROVE  /\ \A file \in repo.broken : ~Ours([file |-> file])
                      /\ \A d \in repo.resources : Ours(d) => Cardinality({l \in repo.layers : Governs(l, d)}) = 1
                      /\ DOMAIN merged = {d.ref : d \in Reaching}
                      /\ \A r \in DOMAIN merged :
                           LET mine == {d \in Reaching : d.ref = r}
                           IN  /\ DOMAIN merged[r].desired = UNION {DOMAIN d.desired : d \in mine}
                               /\ \A k \in EdgeKinds :
                                    Discovery!ToSet(merged[r].deps[k]) = UNION {Discovery!ToSet(d.deps[k]) : d \in mine}
                               /\ OneNameEach => \A f \in DOMAIN merged[r].desired :
                                    merged[r].desired[f].value \in UNION {Values(l, r, f) : l \in Top(Setters(r, f))}
    BY DEF ManifestIsTheMerge
  <2>1. repo \in Repositories /\ Found
    BY ResourceResolved
  <2>2. ASSUME NEW c \in Said
        PROVE  /\ ResourceAt(c[2]) \in Reaching /\ Contributed[c].ref = ResourceAt(c[2]).ref
               /\ DOMAIN Contributed[c].desired = DOMAIN ResourceAt(c[2]).desired
               /\ Contributed[c].deps = ResourceAt(c[2]).deps
    BY <2>1, ContributedMeans DEF Reaching
  <2>3. ASSUME NEW d \in Reaching PROVE \E c \in Said : ResourceAt(c[2]) = d
    <3>1. PICK l \in Layers : d \in Documents(l)
      BY DEF Reaching
    <3> QED
      BY <2>1, <3>1, ContributedMeans
  <2>4. DOMAIN merged = {d.ref : d \in Reaching}
    <3>1. DOMAIN merged = {Contributed[c].ref : c \in Said}
      BY ResourceResolved
    <3> QED
      BY <2>2, <2>3, <3>1
  <2>5. ASSUME NEW r \in DOMAIN merged
        PROVE  LET mine == {d \in Reaching : d.ref = r}
               IN  /\ DOMAIN merged[r].desired = UNION {DOMAIN d.desired : d \in mine}
                   /\ \A k \in EdgeKinds :
                        Discovery!ToSet(merged[r].deps[k]) = UNION {Discovery!ToSet(d.deps[k]) : d \in mine}
                   /\ OneNameEach => \A f \in DOMAIN merged[r].desired :
                        merged[r].desired[f].value \in UNION {Values(l, r, f) : l \in Top(Setters(r, f))}
    <3> DEFINE mine == {d \in Reaching : d.ref = r}
    <3>1. /\ \A c \in Declares(Contributed, Said, r) : ResourceAt(c[2]) \in mine
          /\ \A d \in mine : \E c \in Declares(Contributed, Said, r) : ResourceAt(c[2]) = d
          /\ \A c \in Declares(Contributed, Said, r) :
               /\ DOMAIN Contributed[c].desired = DOMAIN ResourceAt(c[2]).desired
               /\ Contributed[c].deps = ResourceAt(c[2]).deps
      BY <2>2, <2>3 DEF Declares
    <3> HIDE DEF mine
    <3>2. DOMAIN merged[r].desired = UNION {DOMAIN d.desired : d \in mine}
      <4>1. DOMAIN merged[r].desired = UNION {DOMAIN Contributed[c].desired : c \in Declares(Contributed, Said, r)}
        BY ResourceResolved
      <4> QED
        BY <3>1, <4>1
    <3>3. ASSUME NEW k \in EdgeKinds
          PROVE  Discovery!ToSet(merged[r].deps[k]) = UNION {Discovery!ToSet(d.deps[k]) : d \in mine}
      <4>1. Discovery!ToSet(merged[r].deps[k]) =
              UNION {Discovery!ToSet(Contributed[c].deps[k]) : c \in Declares(Contributed, Said, r)}
        BY ResourceResolved
      <4> QED
        BY <3>1, <4>1
    <3>4. ASSUME OneNameEach, NEW f \in DOMAIN merged[r].desired
          PROVE  merged[r].desired[f].value \in UNION {Values(l, r, f) : l \in Top(Setters(r, f))}
      <4> DEFINE S == Says(Contributed, Said, r, f)
      <4>1. FieldAt(Contributed, S, f, merged[r].desired[f], TRUE)
        BY <2>1, <3>4, ResourceResolved, LayersSay
      <4>2. PICK t \in S :
              /\ Contributed[t].desired[f] = merged[r].desired[f].value
              /\ \A c \in S : Contributed[c].precedence <= Contributed[t].precedence
        <5> HIDE DEF S
        <5> QED
          BY <4>1 DEF FieldAt
      <4>3. \A c \in S : c \in Said /\ Contributed[c].ref = r /\ f \in DOMAIN Contributed[c].desired
        BY DEF Says
      <4>4. \A c \in S : LayerAt(c[1]) \in Layers /\ Contributed[c].precedence = LayerAt(c[1]).precedence
        BY <2>1, <4>3, ContributedMeans
      <4>5. \A l \in Setters(r, f) : \E c \in S : LayerAt(c[1]) = l
        BY <2>1, <3>4, LayersSay DEF Setters
      <4>6. merged[r].desired[f].value \in Values(LayerAt(t[1]), r, f)
        BY <2>1, <3>4, <4>2, <4>3, LayersSay
      <4>7. LayerAt(t[1]) \in Top(Setters(r, f))
        <5>1. LayerAt(t[1]) \in Setters(r, f)
          BY <4>4, <4>6 DEF Setters
        <5> HIDE DEF S
        <5> QED
          BY <4>2, <4>4, <4>5, <5>1 DEF Top
      <4> QED
        BY <4>6, <4>7
    <3> QED
      BY <3>2, <3>3, <3>4 DEF mine
  <2> QED
    BY <2>1, <2>4, <2>5, DocumentsAreRead
<1> QED
  BY <1>1, ManifestInvariant, PTL

(* Whatever is found and in whatever order it is folded, a conflict that   *)
(* is reported is one between two layers of one precedence that match, and *)
(* two such layers that disagree produce no manifest unless one of them    *)
(* echoes a lower one (precedence.md:37-55, merge.go:76-80).               *)
THEOREM CompileConflictsAreRefused == AffectedSpec => []ConflictsAreRefused
<1>1. ManifestInv => ConflictsAreRefused
  <2> SUFFICES ASSUME ManifestInv, OneNameEach
               PROVE  /\ \A p \in problems : p.what = "conflict" =>
                           \E k, l \in Layers :
                             \E f \in UNION {DOMAIN d.desired : d \in repo.resources} : Disagree(k, l, p.ref, f)
                      /\ Resolved =>
                           \A k, l \in Layers : \A r \in DOMAIN merged : \A f \in DOMAIN merged[r].desired :
                             Disagree(k, l, r, f) => EchoesALowerLayer(k, r, f) \/ EchoesALowerLayer(l, r, f)
    BY DEF ConflictsAreRefused
  <2>1. repo \in Repositories
    BY DEF ManifestInv
  <2>2. ASSUME NEW p \in problems, p.what = "conflict"
        PROVE  \E k, l \in Layers :
                 \E f \in UNION {DOMAIN d.desired : d \in repo.resources} : Disagree(k, l, p.ref, f)
    <3>1. Found /\ FoldInv
      BY DEF ManifestInv
    <3>2. PICK c, d \in Said : Differ(Contributed, c, d, p.ref)
      BY <2>1, <2>2, <3>1, LayersSay DEF FoldInv, ManifestIs, Said
    <3>3. PICK f \in DOMAIN Contributed[c].desired \cap DOMAIN Contributed[d].desired :
                 Contributed[c].desired[f] # Contributed[d].desired[f]
      BY <3>2 DEF Differ
    <3>4. /\ LayerAt(c[1]) \in Layers /\ LayerAt(d[1]) \in Layers
          /\ LayerAt(c[1]).precedence = LayerAt(d[1]).precedence
          /\ ResourceAt(c[2]) \in repo.resources /\ f \in DOMAIN ResourceAt(c[2]).desired
      BY <2>1, <3>1, <3>2, ContributedMeans DEF Differ, Documents
    <3>5. /\ Contributed[c].desired[f] \in Values(LayerAt(c[1]), p.ref, f)
          /\ Contributed[d].desired[f] \in Values(LayerAt(d[1]), p.ref, f)
      BY <2>1, <3>1, <3>2, LayersSay DEF Differ
    <3>6. Disagree(LayerAt(c[1]), LayerAt(d[1]), p.ref, f)
      BY <3>3, <3>4, <3>5 DEF Disagree
    <3> QED
      BY <3>4, <3>6
  <2>3. ASSUME Resolved, NEW k \in Layers, NEW l \in Layers, NEW r \in DOMAIN merged, NEW f \in DOMAIN merged[r].desired,
               Disagree(k, l, r, f)
        PROVE  EchoesALowerLayer(k, r, f) \/ EchoesALowerLayer(l, r, f)
    <3> DEFINE S == Says(Contributed, Said, r, f)
    <3>1. Found /\ FieldAt(Contributed, S, f, merged[r].desired[f], TRUE)
      BY <2>1, <2>3, ResourceResolved, LayersSay
    <3>2. \A c, d \in S : Contributed[c].precedence = Contributed[d].precedence
                            /\ Contributed[c].desired[f] # Contributed[d].desired[f] =>
            Echo(Contributed, S, c, f) \/ Echo(Contributed, S, d, f)
      <4> HIDE DEF S
      <4> QED
        BY <3>1 DEF FieldAt
    <3>3. PICK v \in Values(k, r, f), w \in Values(l, r, f) : k.precedence = l.precedence /\ v # w
      BY <2>3 DEF Disagree
    <3>4. PICK c \in S : LayerAt(c[1]) = k /\ Contributed[c].desired[f] = v
      BY <2>1, <3>1, <3>3, LayersSay
    <3>5. PICK d \in S : LayerAt(d[1]) = l /\ Contributed[d].desired[f] = w
      BY <2>1, <3>1, <3>3, LayersSay
    <3>6. \A b \in S : /\ LayerAt(b[1]) \in Layers /\ Contributed[b].precedence = LayerAt(b[1]).precedence
                       /\ Contributed[b].desired[f] \in Values(LayerAt(b[1]), r, f)
      BY <2>1, <3>1, LayersSay, ContributedMeans DEF Says
    <3> HIDE DEF S
    <3>7. ASSUME NEW b \in S, Echo(Contributed, S, b, f)
          PROVE  EchoesALowerLayer(LayerAt(b[1]), r, f)
      <4>1. PICK e \in S : Contributed[e].precedence < Contributed[b].precedence
                           /\ Contributed[e].desired[f] = Contributed[b].desired[f]
        BY <3>7 DEF Echo
      <4>2. LayerAt(e[1]) \in Setters(r, f)
        BY <3>6 DEF Setters
      <4>3. /\ LayerAt(e[1]).precedence < LayerAt(b[1]).precedence
            /\ Contributed[b].desired[f] \in Values(LayerAt(e[1]), r, f) \cap Values(LayerAt(b[1]), r, f)
        BY <3>6, <4>1
      <4> QED
        BY <4>2, <4>3 DEF EchoesALowerLayer
    <3>8. Echo(Contributed, S, c, f) \/ Echo(Contributed, S, d, f)
      BY <3>2, <3>3, <3>4, <3>5, <3>6
    <3> QED
      BY <3>4, <3>5, <3>7, <3>8
  <2> QED
    BY <2>2, <2>3
<1> QED
  BY <1>1, ManifestInvariant, PTL

(* Wherever its fields come from, a resource's file is looked up in a      *)
(* layer that names it and that no layer above contradicts, and content    *)
(* beside it has been emptied by a layer of the highest precedence         *)
(* (resolve.go:222-240, schema.go:79-81).                                  *)
THEOREM CompileFilesComeFromTheirLayer == AffectedSpec => []FilesComeFromTheirLayer
<1>1. ManifestInv => FilesComeFromTheirLayer
  <2> SUFFICES ASSUME ManifestInv, Resolved, OneNameEach, NEW r \in DOMAIN merged, "source" \in DOMAIN merged[r].desired
               PROVE  LET file == merged[r].desired["source"].value
                      IN  /\ file # "" /\ Setters(r, "content") # {} =>
                               \E l \in Top(Setters(r, "content")) : "" \in Values(l, r, "content")
                          /\ \E l \in Setters(r, "source") :
                               /\ Discovery!Relative(Discovery!Root(repo), Discovery!Dir(l.file)) = merged[r].dir
                               /\ file \in Values(l, r, "source")
                               /\ \A k \in Setters(r, "source") :
                                    k.precedence > l.precedence => Values(k, r, "source") = {file}
    BY DEF FilesComeFromTheirLayer
  <2> DEFINE C == Contributed
             desired == merged[r].desired
             file == desired["source"].value
  <2>1. repo \in Repositories /\ Found /\ ToldApart(C)
    BY ResourceResolved, LayersSay
  <2>2. \A f \in DOMAIN desired : FieldAt(C, Says(C, Said, r, f), f, desired[f], TRUE)
    BY <2>1, ResourceResolved
  <2>3. /\ "content" \in DOMAIN desired => "" \in {file, desired["content"].value}
        /\ \A c \in Said : C[c].from = desired["source"].from => merged[r].dir = C[c].dir
    BY <2>1, ResourceResolved DEF Checked, Said
  <2>4. ASSUME NEW f, NEW c \in Says(C, Said, r, f)
        PROVE  /\ c \in Said /\ C[c].desired[f] \in Values(LayerAt(c[1]), r, f)
               /\ C[c].precedence = LayerAt(c[1]).precedence /\ LayerAt(c[1]) \in Setters(r, f)
               /\ C[c].dir = From(Discovery!Dir(LayerAt(c[1]).file))
    <3>1. c \in Said /\ C[c].ref = r /\ f \in DOMAIN C[c].desired
      BY DEF Says
    <3>2. /\ C[c].desired[f] \in Values(LayerAt(c[1]), r, f) /\ LayerAt(c[1]) \in Layers
          /\ C[c].precedence = LayerAt(c[1]).precedence /\ C[c].dir = From(Discovery!Dir(LayerAt(c[1]).file))
      BY <2>1, <3>1, LayersSay, ContributedMeans
    <3> QED
      BY <3>1, <3>2 DEF Setters
  <2>5. ASSUME NEW f, NEW l \in Setters(r, f), NEW v \in Values(l, r, f)
        PROVE  \E c \in Says(C, Said, r, f) : LayerAt(c[1]) = l /\ C[c].desired[f] = v
    BY <2>1, LayersSay DEF Setters
  <2>6. ASSUME file # "", Setters(r, "content") # {}
        PROVE  \E l \in Top(Setters(r, "content")) : "" \in Values(l, r, "content")
    <3> DEFINE S == Says(C, Said, r, "content")
    <3>1. PICK l \in Setters(r, "content") : \E v : v \in Values(l, r, "content")
      BY <2>6 DEF Setters
    <3>2. PICK c \in S : LayerAt(c[1]) = l
      BY <2>5, <3>1
    <3>3. "content" \in DOMAIN desired
      <4>1. c \in Declares(C, Said, r) /\ "content" \in DOMAIN C[c].desired
        BY DEF Says, Declares
      <4> QED
        BY <4>1, ResourceResolved
    <3>4. desired["content"].value = ""
      BY <2>3, <2>6, <3>3
    <3>5. FieldAt(C, S, "content", desired["content"], TRUE)
      BY <2>2, <3>3
    <3> HIDE DEF C, desired
    <3>6. PICK t \in S : C[t].desired["content"] = "" /\ \A b \in S : C[b].precedence <= C[t].precedence
      <4> DEFINE field == desired["content"]
      <4>1. FieldAt(C, S, "content", field, TRUE) /\ field.value = ""
        BY <3>4, <3>5
      <4> HIDE DEF S, field
      <4>2. PICK s \in S :
              /\ field = [value |-> C[s].desired["content"], from |-> C[s].from]
              /\ \E t \in S : C[t].desired["content"] = C[s].desired["content"]
                              /\ \A b \in S : C[b].precedence <= C[t].precedence
        BY <4>1, Zenon DEF FieldAt
      <4> QED
        BY <4>1, <4>2
    <3>7. "" \in Values(LayerAt(t[1]), r, "content") /\ LayerAt(t[1]) \in Setters(r, "content")
      BY <2>4, <3>6
    <3>8. ASSUME NEW k \in Setters(r, "content") PROVE k.precedence <= LayerAt(t[1]).precedence
      <4>1. PICK w \in Values(k, r, "content") : TRUE
        BY DEF Setters
      <4>2. PICK b \in S : LayerAt(b[1]) = k
        BY <2>5, <4>1
      <4> QED
        BY <2>4, <3>6, <4>2
    <3> QED
      BY <3>7, <3>8 DEF Top
  <2>7. \E l \in Setters(r, "source") :
          /\ Discovery!Relative(Discovery!Root(repo), Discovery!Dir(l.file)) = merged[r].dir
          /\ file \in Values(l, r, "source")
          /\ \A k \in Setters(r, "source") : k.precedence > l.precedence => Values(k, r, "source") = {file}
    <3> DEFINE S == Says(C, Said, r, "source")
    <3>1. FieldAt(C, S, "source", desired["source"], TRUE)
      BY <2>2
    <3> HIDE DEF C, desired
    <3>2. PICK s \in S :
            /\ desired["source"] = [value |-> C[s].desired["source"], from |-> C[s].from]
            /\ \A c \in S : C[c].precedence > C[s].precedence => C[c].desired["source"] = C[s].desired["source"]
      <4> HIDE DEF S
      <4> QED
        BY <3>1 DEF FieldAt
    <3> DEFINE l == LayerAt(s[1])
    <3>3. file = C[s].desired["source"] /\ desired["source"].from = C[s].from
      BY <3>2
    <3>4. /\ s \in Said /\ file \in Values(l, r, "source") /\ C[s].precedence = l.precedence
          /\ l \in Setters(r, "source") /\ C[s].dir = From(Discovery!Dir(l.file))
      BY <2>4, <3>3
    <3>5. Discovery!Relative(Discovery!Root(repo), Discovery!Dir(l.file)) = merged[r].dir
      BY <2>3, <3>3, <3>4 DEF From, Fleet
    <3>6. ASSUME NEW k \in Setters(r, "source"), k.precedence > l.precedence
          PROVE  Values(k, r, "source") = {file}
      <4>1. ASSUME NEW v \in Values(k, r, "source") PROVE v = file
        <5>1. PICK c \in S : LayerAt(c[1]) = k /\ C[c].desired["source"] = v
          BY <2>5
        <5>2. C[c].precedence > C[s].precedence
          BY <2>4, <3>4, <3>6, <5>1
        <5> QED
          BY <3>2, <3>3, <5>1, <5>2
      <4>2. Values(k, r, "source") # {}
        BY DEF Setters
      <4> QED
        BY <4>1, <4>2
    <3> QED
      BY <3>4, <3>5, <3>6
  <2> QED
    BY <2>6, <2>7
<1> QED
  BY <1>1, ManifestInvariant, PTL

-----------------------------------------------------------------------------
(* What two manifests are compared by.                                     *)

\* The manifests of some hosts, as far as comparing them goes.
Comparable(m) == \A r \in DOMAIN m : m[r].deps \in [EdgeKinds -> Seq(Nat)]
Snapshot(a) == \A h \in DOMAIN a : Comparable(a[h])

\* What a sequence lists is finite, so a sort of it has one result.
LEMMA ListedIsFinite ==
  ASSUME NEW list \in Seq(Nat)
  PROVE  Discovery!ToSet(list) \subseteq Nat /\ IsFiniteSet(Discovery!ToSet(list))
<1> DEFINE n == Len(list)
           T == Discovery!ToSet(list)
<1>1. n \in Nat /\ DOMAIN list = 1..n /\ \A i \in 1..n : list[i] \in Nat
  OBVIOUS
<1>2. T = {list[i] : i \in 1..n}
  BY <1>1 DEF Discovery!ToSet
<1>3. list \in Surjection(1..n, T)
  <2> HIDE DEF T, n
  <2>1. list = [i \in 1..n |-> list[i]]
    BY <1>1
  <2>2. list \in [1..n -> T]
    BY <1>2, <2>1
  <2> QED
    BY <1>2, <2>2 DEF Surjection
<1>4. IsFiniteSet(1..n)
  BY <1>1, FS_Interval
<1> HIDE DEF T, n
<1>5. IsFiniteSet(T)
  BY <1>3, <1>4, FS_Surjection
<1> QED
  BY <1>1, <1>2, <1>5 DEF T

\* A list in order is as good as the set of what it lists.
LEMMA SameInOrder ==
  ASSUME NEW old \in Seq(Nat), NEW new \in Seq(Nat)
  PROVE  Discovery!InOrder(Discovery!ToSet(old), <) = Discovery!InOrder(Discovery!ToSet(new), <)
           <=> Discovery!ToSet(old) = Discovery!ToSet(new)
<1> DEFINE S == Discovery!ToSet(old)
           T == Discovery!ToSet(new)
           s == Discovery!InOrder(S, <)
           t == Discovery!InOrder(T, <)
<1>1. S \subseteq Nat /\ IsFiniteSet(S) /\ T \subseteq Nat /\ IsFiniteSet(T)
  BY ListedIsFinite
<1> HIDE DEF S, T
<1>2. s \in [1..Cardinality(S) -> S] /\ \A x \in S : \E i \in DOMAIN s : s[i] = x
  BY <1>1, NumbersInOrder
<1>3. t \in [1..Cardinality(T) -> T] /\ \A x \in T : \E i \in DOMAIN t : t[i] = x
  BY <1>1, NumbersInOrder
<1>4. S = T => s = t
  OBVIOUS
<1> HIDE DEF s, t
<1>5. S = {s[i] : i \in DOMAIN s} /\ T = {t[i] : i \in DOMAIN t}
  BY <1>2, <1>3
<1> QED
  BY <1>4, <1>5 DEF S, T, s, t

\* When two manifests say the same of a resource.
SameFor(m, n, r) ==
  /\ Resolution!ValuesOf(m[r]) = Resolution!ValuesOf(n[r])
  /\ \A k \in EdgeKinds : Discovery!ToSet(m[r].deps[k]) = Discovery!ToSet(n[r].deps[k])

\* What a host is told is the same when every resource is.
LEMMA ToldAlike ==
  ASSUME NEW m, NEW n
  PROVE  Told(m) = Told(n) <=> DOMAIN m = DOMAIN n /\ \A r \in DOMAIN m : SameFor(m, n, r)
<1> DEFINE what(x, r) == <<Resolution!ValuesOf(x[r]), [k \in EdgeKinds |-> Discovery!ToSet(x[r].deps[k])]>>
<1>1. Told(m) = [r \in DOMAIN m |-> what(m, r)] /\ Told(n) = [r \in DOMAIN n |-> what(n, r)]
  BY DEF Told
<1>2. \A r : what(m, r) = what(n, r) <=> SameFor(m, n, r)
  BY DEF SameFor
<1> HIDE DEF what
<1>3. Told(m) = Told(n) => DOMAIN m = DOMAIN n /\ \A r \in DOMAIN m : what(m, r) = what(n, r)
  <2> SUFFICES ASSUME Told(m) = Told(n) PROVE DOMAIN m = DOMAIN n /\ \A r \in DOMAIN m : what(m, r) = what(n, r)
    OBVIOUS
  <2>1. DOMAIN Told(m) = DOMAIN m /\ DOMAIN Told(n) = DOMAIN n
    BY <1>1
  <2>2. \A r \in DOMAIN m : Told(m)[r] = what(m, r)
    BY <1>1
  <2>3. \A r \in DOMAIN n : Told(n)[r] = what(n, r)
    BY <1>1
  <2> QED
    BY <2>1, <2>2, <2>3
<1>4. DOMAIN m = DOMAIN n /\ (\A r \in DOMAIN m : what(m, r) = what(n, r)) => Told(m) = Told(n)
  BY <1>1
<1> QED
  BY <1>2, <1>3, <1>4

\* The same digest means the same instructions: the listing of references has one order.
LEMMA DigestsAlike ==
  ASSUME NEW m, NEW n, Comparable(m), Comparable(n)
  PROVE  Digest(m) = Digest(n) <=> DOMAIN m = DOMAIN n /\ \A r \in DOMAIN m : SameFor(m, n, r)
<1> DEFINE listed(x, r, k) == Discovery!InOrder(Discovery!ToSet(x[r].deps[k]), <)
           what(x, r) == [desired |-> Resolution!ValuesOf(x[r]), deps |-> [k \in EdgeKinds |-> listed(x, r, k)]]
<1>1. Digest(m) = [r \in DOMAIN m |-> what(m, r)] /\ Digest(n) = [r \in DOMAIN n |-> what(n, r)]
  BY DEF Digest
<1>2. ASSUME NEW r \in DOMAIN m, r \in DOMAIN n, NEW k \in EdgeKinds
      PROVE  listed(m, r, k) = listed(n, r, k) <=> Discovery!ToSet(m[r].deps[k]) = Discovery!ToSet(n[r].deps[k])
  <2>1. m[r].deps[k] \in Seq(Nat) /\ n[r].deps[k] \in Seq(Nat)
    BY <1>2 DEF Comparable
  <2> QED
    BY <2>1, SameInOrder
<1> HIDE DEF listed
<1>3. ASSUME NEW r \in DOMAIN m, r \in DOMAIN n
      PROVE  what(m, r) = what(n, r) <=> SameFor(m, n, r)
  <2>1. what(m, r) = what(n, r) <=>
          /\ Resolution!ValuesOf(m[r]) = Resolution!ValuesOf(n[r])
          /\ \A k \in EdgeKinds : listed(m, r, k) = listed(n, r, k)
    OBVIOUS
  <2> QED
    BY <1>2, <1>3, <2>1 DEF SameFor
<1> HIDE DEF what
<1>4. Digest(m) = Digest(n) => DOMAIN m = DOMAIN n /\ \A r \in DOMAIN m : what(m, r) = what(n, r)
  <2> SUFFICES ASSUME Digest(m) = Digest(n) PROVE DOMAIN m = DOMAIN n /\ \A r \in DOMAIN m : what(m, r) = what(n, r)
    OBVIOUS
  <2>1. DOMAIN Digest(m) = DOMAIN m /\ DOMAIN Digest(n) = DOMAIN n
    BY <1>1
  <2>2. \A r \in DOMAIN m : Digest(m)[r] = what(m, r)
    BY <1>1
  <2>3. \A r \in DOMAIN n : Digest(n)[r] = what(n, r)
    BY <1>1
  <2> QED
    BY <2>1, <2>2, <2>3
<1>5. DOMAIN m = DOMAIN n /\ (\A r \in DOMAIN m : what(m, r) = what(n, r)) => Digest(m) = Digest(n)
  BY <1>1
<1> QED
  BY <1>3, <1>4, <1>5

-----------------------------------------------------------------------------
(* The invariant of a report.                                              *)

OneSnapshot == snapshots = <<snapshots[1]>> /\ Snapshot(snapshots[1])
TwoSnapshots == snapshots = <<snapshots[1], snapshots[2]>> /\ Snapshot(snapshots[1]) /\ Snapshot(snapshots[2])
HostsOf(found) == {found.hosts[i].name : i \in DOMAIN found.hosts}
AtHost == stage \in {"match", "fold", "resolved"}

\* Every host of the revision has a manifest, or is still to be resolved.
Reporting ==
  /\ stage = "walk" => snapshots = <<>> \/ (Len(snapshots) = 1 /\ OneSnapshot)
  /\ stage = "next" \/ AtHost =>
       /\ (Len(snapshots) = 1 /\ OneSnapshot) \/ (Len(snapshots) = 2 /\ TwoSnapshots)
       /\ left \in Seq(Nat)
       /\ DOMAIN snapshots[Len(snapshots)] \cup Discovery!ToSet(left) = HostsOf(set)
  /\ AtHost => left # <<>> /\ host.name = Head(left)
  /\ stage = "reported" => TwoSnapshots

ReportInv == IF purpose = "affected" THEN Reporting ELSE stage \notin {"next", "reported"}

\* Nothing is reported at first.
LEMMA ReportInvInit == AffectedInit => ReportInv
<1> SUFFICES ASSUME NEW c \in Cases, Begins(c) PROVE ReportInv
  BY DEF AffectedInit
<1>1. stage = "walk" /\ snapshots = <<>>
  BY DEF Begins, CompileInit
<1> QED
  BY <1>1 DEF ReportInv, Reporting, AtHost

\* Steps that leave the report alone.
LEMMA ReportingStays ==
  ASSUME ReportInv, UNCHANGED <<purpose, stage, set, host, left, snapshots>>
  PROVE  ReportInv'
<1>1. /\ (OneSnapshot' <=> OneSnapshot) /\ (TwoSnapshots' <=> TwoSnapshots) /\ (AtHost' <=> AtHost)
  BY DEF OneSnapshot, TwoSnapshots, AtHost
<1> QED
  BY <1>1 DEF ReportInv, Reporting

\* A pass reports nothing of this kind.
LEMMA PassReportsNothing ==
  ASSUME ReportInv, purpose = "pass", CompileNext, UNCHANGED reporting
  PROVE  ReportInv'
<1>1. stage \notin {"next", "reported"} /\ purpose' = "pass"
  BY DEF ReportInv, reporting
<1>2. stage' \notin {"next", "reported"}
  <2>1. CASE WalkStep(Me)
    BY <1>1, <2>1 DEF WalkStep, Refuse, Resolution!Begin
  <2>2. CASE ResolveStep
    BY <1>1, <2>2 DEF ResolveStep, Resolution!Next, Resolution!MatchLayers, Resolution!FoldResource, Resolution!CheckManifest
  <2>3. CASE HandOver \/ BuildStep \/ Detect
    BY <1>1, <2>3 DEF HandOver, BuildStep, Detect, Refuse
  <2> QED
    BY <2>1, <2>2, <2>3 DEF CompileNext
<1> QED
  BY <1>1, <1>2 DEF ReportInv

\* Resolving a host leaves the report alone.
LEMMA ResolvingReports ==
  ASSUME ReportInv, purpose = "affected", ResolveStep, UNCHANGED reporting
  PROVE  ReportInv'
<1>1. UNCHANGED <<purpose, left, snapshots>> /\ Reporting
  BY DEF ReportInv, reporting
<1>2. /\ AtHost /\ stage' \in {"fold", "resolved", "refused"} /\ UNCHANGED <<set, host>>
  BY DEF ResolveStep, Resolution!Next, Resolution!MatchLayers, Resolution!FoldResource, Resolution!CheckManifest, AtHost
<1>3. (OneSnapshot' <=> OneSnapshot) /\ (TwoSnapshots' <=> TwoSnapshots)
  BY <1>1 DEF OneSnapshot, TwoSnapshots
<1>4. Reporting'
  BY <1>1, <1>2, <1>3 DEF Reporting, AtHost
<1> QED
  BY <1>1, <1>4 DEF ReportInv

\* Appending, in the form the next lemma needs.
LEMMA Appended ==
  ASSUME NEW S, NEW list \in Seq(S), NEW one \in S
  PROVE  /\ Append(list, one) \in Seq(S) /\ Len(Append(list, one)) = Len(list) + 1
         /\ \A i \in 1..Len(list) : Append(list, one)[i] = list[i]
         /\ Append(list, one)[Len(list) + 1] = one
OBVIOUS

\* The second of two.
LEMMA SecondAppended ==
  ASSUME NEW a, NEW b
  PROVE  Append(<<a>>, b) = <<a, b>>
<1> DEFINE S == {a, b}
           one == <<a>>
           s == Append(one, b)
           t == <<a, b>>
<1>1. one \in Seq(S) /\ b \in S /\ Len(one) = 1 /\ one[1] = a
  OBVIOUS
<1>2. t \in Seq(S) /\ Len(t) = 2 /\ t[1] = a /\ t[2] = b
  OBVIOUS
<1> HIDE DEF S, one, t
<1>3. s \in Seq(S) /\ Len(s) = 2 /\ s[1] = a /\ s[2] = b
  <2>1. /\ Append(one, b) \in Seq(S) /\ Len(Append(one, b)) = Len(one) + 1
        /\ \A i \in 1..Len(one) : Append(one, b)[i] = one[i]
        /\ Append(one, b)[Len(one) + 1] = b
    BY <1>1, Appended
  <2> QED
    BY <1>1, <2>1
<1> HIDE DEF s
<1>4. s = [i \in 1..2 |-> s[i]] /\ t = [i \in 1..2 |-> t[i]]
  BY <1>2, <1>3
<1>5. \A i \in 1..2 : s[i] = t[i]
  <2> SUFFICES ASSUME NEW i \in 1..2 PROVE s[i] = t[i]
    OBVIOUS
  <2>1. i = 1 \/ i = 2
    OBVIOUS
  <2> QED
    BY <1>2, <1>3, <2>1
<1>6. s = t
  BY <1>4, <1>5
<1> QED
  BY <1>6 DEF s, t, one

\* Walking a revision makes its hosts the ones to come.
LEMMA RevisionStarts ==
  ASSUME ManifestInv, ReportInv, purpose = "affected", WalkRevision
  PROVE  ReportInv'
<1>1. stage = "walk" /\ UNCHANGED purpose /\ Reporting /\ repo \in Repositories
  BY DEF WalkRevision, ReportInv, ManifestInv
<1>2. CASE Discovery!Fails(repo)
  <2>1. stage' = "refused"
    BY <1>2 DEF WalkRevision, Refuse
  <2> QED
    BY <1>1, <2>1 DEF ReportInv, Reporting, AtHost
<1>3. CASE ~Discovery!Fails(repo)
  <2>1. /\ set' = Discovery!Walk(repo) /\ left' = HostNames(set') /\ snapshots' = Append(snapshots, <<>>)
        /\ stage' = "next" /\ UNCHANGED repo
    BY <1>3 DEF WalkRevision
  <2>2. /\ \E n \in Nat : DOMAIN set'.hosts = 1..n
        /\ \A i \in DOMAIN set'.hosts : set'.hosts[i].name \in Nat
    <3> DEFINE found == Discovery!Walk(repo)
    <3>1. /\ \E n \in Nat : DOMAIN found.hosts = 1..n
          /\ \A i \in DOMAIN found.hosts : found.hosts[i].name \in Nat
      BY <1>1, <1>3, HostsFound
    <3> QED
      BY <2>1, <3>1
  <2>3. left' \in Seq(Nat) /\ Discovery!ToSet(left') = HostsOf(set')
    <3>1. left' = [i \in DOMAIN set'.hosts |-> set'.hosts[i].name]
      BY <2>1 DEF HostNames
    <3>2. PICK n \in Nat : DOMAIN set'.hosts = 1..n
      BY <2>2
    <3>3. left' \in [1..n -> Nat]
      BY <2>2, <3>1, <3>2
    <3>4. left' \in Seq(Nat)
      BY <3>3, SeqDef
    <3>5. Discovery!ToSet(left') = {left'[i] : i \in DOMAIN left'}
      BY DEF Discovery!ToSet
    <3> QED
      BY <3>1, <3>4, <3>5 DEF HostsOf
  <2>4. Snapshot(<<>>) /\ DOMAIN <<>> = {}
    BY DEF Snapshot
  <2>5. CASE snapshots = <<>>
    <3>1. snapshots' = << <<>> >>
      BY <2>1, <2>5
    <3>2. Len(snapshots') = 1 /\ snapshots'[1] = <<>>
      BY <3>1
    <3>3. OneSnapshot'
      BY <2>4, <3>1, <3>2 DEF OneSnapshot
    <3> QED
      BY <1>1, <2>1, <2>3, <2>4, <3>2, <3>3 DEF ReportInv, Reporting, AtHost
  <2>6. CASE Len(snapshots) = 1 /\ OneSnapshot
    <3> DEFINE a == snapshots[1]
    <3>1. snapshots = <<a>> /\ Snapshot(a)
      BY <2>6 DEF OneSnapshot
    <3> HIDE DEF a
    <3>2. snapshots' = <<a, <<>> >>
      BY <2>1, <3>1, SecondAppended
    <3>3. Len(snapshots') = 2 /\ snapshots'[1] = a /\ snapshots'[2] = <<>>
      BY <3>2
    <3>4. TwoSnapshots'
      BY <2>4, <3>1, <3>2, <3>3 DEF TwoSnapshots
    <3> QED
      BY <1>1, <2>1, <2>3, <2>4, <3>3, <3>4 DEF ReportInv, Reporting, AtHost
  <2> QED
    BY <1>1, <2>5, <2>6 DEF Reporting
<1> QED
  BY <1>2, <1>3

\* The host that is resolved is the one at the head.
LEMMA NextHostReports ==
  ASSUME ReportInv, purpose = "affected", NextHost
  PROVE  ReportInv'
<1>1. /\ stage = "next" /\ left # <<>> /\ Resolution!Begin(set, Head(left))
      /\ UNCHANGED <<purpose, left, snapshots>> /\ Reporting
  BY DEF NextHost, reporting, ReportInv
<1>2. /\ set' = set /\ host' = Resolution!FindHost(set.hosts, Head(left))
      /\ stage' \in {"match", "refused"} /\ (stage' = "match" => host' # NoHost)
  BY <1>1 DEF Resolution!Begin
<1>3. ASSUME host' # NoHost PROVE host'.name = Head(left)
  <2> DEFINE I == {i \in 1..Len(set.hosts) : set.hosts[i].name = Head(left)}
  <2>1. host' = LET i == IF I # {} THEN Resolution!Min(I) ELSE 0 IN IF i = 0 THEN NoHost ELSE set.hosts[i]
    BY <1>2 DEF Resolution!FindHost, Resolution!SelectInSeq
  <2>2. I \subseteq Nat
    OBVIOUS
  <2>3. \A i \in I : set.hosts[i].name = Head(left)
    OBVIOUS
  <2> HIDE DEF I
  <2>4. I # {} => Resolution!Min(I) \in I
    BY <2>2, ALeastOne DEF Resolution!Min
  <2> QED
    BY <1>3, <2>1, <2>3, <2>4
<1>4. (OneSnapshot' <=> OneSnapshot) /\ (TwoSnapshots' <=> TwoSnapshots)
  BY <1>1 DEF OneSnapshot, TwoSnapshots
<1>5. Reporting'
  BY <1>1, <1>2, <1>3, <1>4 DEF Reporting, AtHost
<1> QED
  BY <1>1, <1>5 DEF ReportInv

\* A manifest can be compared: its references are listed in sequences.
LEMMA MergedIsComparable ==
  ASSUME ManifestInv, Resolved
  PROVE  Comparable(merged)
<1>1. FoldInv
  BY DEF ManifestInv
<1> QED
  BY <1>1 DEF FoldInv, ManifestIs, ResourceIs, Comparable

\* A manifest is kept under the name of its host.
LEMMA KeptReports ==
  ASSUME ManifestInv, ReportInv, purpose = "affected", KeepManifest
  PROVE  ReportInv'
<1>1. /\ stage = "resolved" /\ stage' = "next" /\ left' = Tail(left)
      /\ snapshots' = [snapshots EXCEPT ![Len(snapshots)] = Keeping(snapshots[Len(snapshots)])]
      /\ UNCHANGED <<purpose, set, host, merged>> /\ Reporting
  BY DEF KeepManifest, ReportInv
<1>2. left \in Seq(Nat) /\ left # <<>> /\ host.name = Head(left)
  BY <1>1 DEF Reporting, AtHost
<1>3. Tail(left) \in Seq(Nat) /\ Discovery!ToSet(left) = {Head(left)} \cup Discovery!ToSet(Tail(left))
  <2>1. Len(left) \in Nat /\ Len(left) # 0 /\ DOMAIN left = 1..Len(left)
    BY <1>2, EmptySeq
  <2>2. /\ Tail(left) \in Seq(Nat) /\ Head(left) = left[1] /\ Len(Tail(left)) = Len(left) - 1
        /\ DOMAIN Tail(left) = 1..(Len(left) - 1)
        /\ \A i \in 1..(Len(left) - 1) : Tail(left)[i] = left[i + 1]
    BY <1>2, <2>1
  <2>3. \A i \in 2..Len(left) : i - 1 \in 1..(Len(left) - 1) /\ Tail(left)[i - 1] = left[i]
    BY <2>1, <2>2
  <2>4. Discovery!ToSet(left) = {left[i] : i \in 1..Len(left)}
    BY <2>1 DEF Discovery!ToSet
  <2>5. Discovery!ToSet(Tail(left)) = {Tail(left)[i] : i \in 1..(Len(left) - 1)}
    BY <2>2 DEF Discovery!ToSet
  <2>6. \A x \in Discovery!ToSet(left) : x = Head(left) \/ x \in Discovery!ToSet(Tail(left))
    <3> SUFFICES ASSUME NEW i \in 1..Len(left), i # 1 PROVE left[i] \in Discovery!ToSet(Tail(left))
      BY <2>2, <2>4
    <3>1. i \in 2..Len(left)
      BY <2>1
    <3> QED
      BY <2>3, <2>5, <3>1
  <2>7. Head(left) \in Discovery!ToSet(left)
    BY <2>1, <2>2, <2>4
  <2>8. \A x \in Discovery!ToSet(Tail(left)) : x \in Discovery!ToSet(left)
    <3> SUFFICES ASSUME NEW i \in 1..(Len(left) - 1) PROVE Tail(left)[i] \in Discovery!ToSet(left)
      BY <2>5
    <3>1. i + 1 \in 1..Len(left) /\ Tail(left)[i] = left[i + 1]
      BY <2>1, <2>2
    <3> QED
      BY <2>4, <3>1
  <2> QED
    BY <2>2, <2>6, <2>7, <2>8
<1>4. Comparable(merged)
  BY <1>1, MergedIsComparable DEF Resolved
<1>5. ASSUME NEW a, Snapshot(a)
      PROVE  Snapshot(Keeping(a)) /\ DOMAIN Keeping(a) = DOMAIN a \cup {host.name}
  BY <1>4, <1>5 DEF Snapshot, Keeping
<1>6. CASE Len(snapshots) = 1 /\ OneSnapshot
  <2> DEFINE a == snapshots[1]
  <2>1. snapshots = <<a>> /\ Snapshot(a)
    BY <1>6 DEF OneSnapshot
  <2>2. DOMAIN a \cup Discovery!ToSet(left) = HostsOf(set)
    BY <1>1, <1>6 DEF Reporting, AtHost
  <2>3. snapshots' = [snapshots EXCEPT ![1] = Keeping(a)]
    BY <1>1, <1>6
  <2> HIDE DEF a
  <2>4. snapshots' = <<Keeping(a)>>
    BY <2>1, <2>3
  <2>5. Len(snapshots') = 1 /\ snapshots'[1] = Keeping(a)
    BY <2>4
  <2>6. OneSnapshot'
    BY <1>5, <2>1, <2>4, <2>5 DEF OneSnapshot
  <2>7. DOMAIN Keeping(a) \cup Discovery!ToSet(Tail(left)) = HostsOf(set)
    BY <1>2, <1>3, <1>5, <2>1, <2>2
  <2> QED
    BY <1>1, <1>3, <2>5, <2>6, <2>7 DEF ReportInv, Reporting, AtHost
<1>7. CASE Len(snapshots) = 2 /\ TwoSnapshots
  <2> DEFINE a == snapshots[1]
             b == snapshots[2]
  <2>1. snapshots = <<a, b>> /\ Snapshot(a) /\ Snapshot(b)
    BY <1>7 DEF TwoSnapshots
  <2>2. DOMAIN b \cup Discovery!ToSet(left) = HostsOf(set)
    BY <1>1, <1>7 DEF Reporting, AtHost
  <2>3. snapshots' = [snapshots EXCEPT ![2] = Keeping(b)]
    BY <1>1, <1>7
  <2> HIDE DEF a, b
  <2>4. snapshots' = <<a, Keeping(b)>>
    BY <2>1, <2>3
  <2>5. Len(snapshots') = 2 /\ snapshots'[1] = a /\ snapshots'[2] = Keeping(b)
    BY <2>4
  <2>6. TwoSnapshots'
    BY <1>5, <2>1, <2>4, <2>5 DEF TwoSnapshots
  <2>7. DOMAIN Keeping(b) \cup Discovery!ToSet(Tail(left)) = HostsOf(set)
    BY <1>2, <1>3, <1>5, <2>1, <2>2
  <2> QED
    BY <1>1, <1>3, <2>5, <2>6, <2>7 DEF ReportInv, Reporting, AtHost
<1> QED
  BY <1>1, <1>6, <1>7 DEF Reporting, AtHost

\* The second revision starts when all hosts of the first are kept.
LEMMA NextRevisionReports ==
  ASSUME ReportInv, purpose = "affected", NextRevision
  PROVE  ReportInv'
<1>1. /\ stage = "next" /\ UNCHANGED <<purpose, snapshots>> /\ Reporting
      /\ IF Len(snapshots) = 1 THEN stage' = "walk" ELSE stage' = "reported"
  BY DEF NextRevision, reporting, ReportInv
<1>2. (OneSnapshot' <=> OneSnapshot) /\ (TwoSnapshots' <=> TwoSnapshots)
  BY <1>1 DEF OneSnapshot, TwoSnapshots
<1>3. (Len(snapshots) = 1 /\ OneSnapshot) \/ (Len(snapshots) = 2 /\ TwoSnapshots)
  BY <1>1 DEF Reporting
<1>4. Reporting'
  <2>1. CASE Len(snapshots) = 1
    BY <1>1, <1>2, <1>3, <2>1 DEF Reporting, AtHost
  <2>2. CASE Len(snapshots) # 1
    BY <1>1, <1>2, <1>3, <2>2 DEF Reporting, AtHost
  <2> QED
    BY <2>1, <2>2
<1> QED
  BY <1>1, <1>4 DEF ReportInv

\* No step of a pass or of a report leaves it.
LEMMA ReportInvStep == ManifestInv /\ ReportInv /\ [AffectedNext]_<<compilation, reporting>> => ReportInv'
<1> SUFFICES ASSUME ManifestInv, ReportInv, [AffectedNext]_<<compilation, reporting>> PROVE ReportInv'
  OBVIOUS
<1>1. CASE purpose = "pass" /\ CompileNext /\ UNCHANGED reporting
  BY <1>1, PassReportsNothing
<1>2. CASE purpose = "affected" /\ ResolveStep /\ UNCHANGED reporting
  BY <1>2, ResolvingReports
<1>3. CASE purpose = "affected" /\ (WalkRevision \/ NextHost \/ KeepManifest \/ NextRevision)
  BY <1>3, RevisionStarts, NextHostReports, KeptReports, NextRevisionReports
<1>4. CASE UNCHANGED <<compilation, reporting>>
  <2>1. UNCHANGED <<purpose, stage, set, host, left, snapshots>>
    BY <1>4 DEF compilation, reporting
  <2> QED
    BY <2>1, ReportingStays
<1> QED
  BY <1>1, <1>2, <1>3, <1>4 DEF AffectedNext

(* While every host of two revisions is being resolved, those that have no *)
(* manifest yet are still to come (affected.go:110-160).                   *)
THEOREM ReportInvariant == AffectedSpec => []ReportInv
<1>1. AffectedInit => ReportInv
  BY ReportInvInit
<1>2. ManifestInv /\ ReportInv /\ [AffectedNext]_<<compilation, reporting>> => ReportInv'
  BY ReportInvStep
<1> QED
  BY <1>1, <1>2, ManifestInvariant, PTL DEF AffectedSpec

(* Every host of a revision has a manifest, and the digests of a host's    *)
(* two manifests differ when and only when the revisions tell it           *)
(* different things, however the fleet was rearranged                      *)
(* (affected.go:110-160, resolve.go:60-104).                               *)
THEOREM AffectedVerdictsAreOfTheInstructions == AffectedSpec => []VerdictsAreOfTheInstructions
<1>1. ManifestInv /\ ReportInv => VerdictsAreOfTheInstructions
  <2> SUFFICES ASSUME ManifestInv, ReportInv PROVE VerdictsAreOfTheInstructions
    OBVIOUS
  <2>1. ASSUME stage = "next", left = <<>>
        PROVE  DOMAIN snapshots[Len(snapshots)] = {d.name : d \in {d \in repo.hosts : Ours(d)}}
    <3>1. DOMAIN snapshots[Len(snapshots)] \cup Discovery!ToSet(left) = HostsOf(set)
      BY <2>1 DEF ReportInv, Reporting
    <3>2. Discovery!ToSet(left) = {}
      BY <2>1 DEF Discovery!ToSet
    <3>3. HostsOf(set) = {d.name : d \in {d \in repo.hosts : Ours(d)}}
      BY <2>1, HostsFound DEF ManifestInv, Found, HostsOf
    <3> QED
      BY <3>1, <3>2, <3>3
  <2>2. ASSUME stage = "reported", NEW h \in DOMAIN Earlier \cap DOMAIN Later
        PROVE  /\ Verdict(h) = "unchanged" <=> Told(Earlier[h]) = Told(Later[h])
               /\ Verdict(h) = "changed" /\ DiffManifests(Earlier[h], Later[h]) = {} =>
                    \E r \in DOMAIN Later[h] : \E k \in EdgeKinds :
                      Told(Earlier[h])[r][2][k] # Told(Later[h])[r][2][k]
    <3> DEFINE m == Earlier[h]
               n == Later[h]
    <3>1. Comparable(m) /\ Comparable(n)
      BY <2>2 DEF ReportInv, Reporting, TwoSnapshots, Snapshot, Earlier, Later
    <3>2. Verdict(h) = IF Digest(m) # Digest(n) THEN "changed" ELSE "unchanged"
      BY <2>2 DEF Verdict
    <3> HIDE DEF m, n
    <3>3. Digest(m) = Digest(n) <=> Told(m) = Told(n)
      BY <3>1, DigestsAlike, ToldAlike
    <3>4. Verdict(h) = "unchanged" <=> Told(m) = Told(n)
      BY <3>2, <3>3
    <3>5. ASSUME Verdict(h) = "changed", DiffManifests(m, n) = {}
          PROVE  \E r \in DOMAIN n : \E k \in EdgeKinds : Told(m)[r][2][k] # Told(n)[r][2][k]
      <4>1. DOMAIN m = DOMAIN n /\ \A r \in DOMAIN m : DiffFields(m[r], n[r]) = {}
        BY <3>5 DEF DiffManifests
      <4>2. ASSUME NEW r \in DOMAIN m
            PROVE  Resolution!ValuesOf(m[r]) = Resolution!ValuesOf(n[r])
        <5>1. /\ DOMAIN m[r].desired = DOMAIN n[r].desired
              /\ \A f \in DOMAIN m[r].desired : m[r].desired[f].value = n[r].desired[f].value
          BY <4>1 DEF DiffFields, Field
        <5> QED
          BY <5>1 DEF Resolution!ValuesOf
      <4>3. Told(m) # Told(n)
        BY <3>2, <3>3, <3>5
      <4>4. PICK r \in DOMAIN m : ~SameFor(m, n, r)
        BY <4>1, <4>3, ToldAlike
      <4>5. PICK k \in EdgeKinds : Discovery!ToSet(m[r].deps[k]) # Discovery!ToSet(n[r].deps[k])
        BY <4>2, <4>4 DEF SameFor
      <4>6. /\ Told(m)[r][2][k] = Discovery!ToSet(m[r].deps[k])
            /\ Told(n)[r][2][k] = Discovery!ToSet(n[r].deps[k])
        BY <4>1 DEF Told
      <4> QED
        BY <4>1, <4>5, <4>6
    <3> QED
      BY <3>4, <3>5 DEF m, n
  <2> QED
    BY <2>1, <2>2 DEF VerdictsAreOfTheInstructions
<1> QED
  BY <1>1, ManifestInvariant, ReportInvariant, PTL

-----------------------------------------------------------------------------
(* The graph of the merged manifest.                                       *)

\* What the agent's configuration protects is a question of yes or no.
LEMMA ProtectedIsBoolean ==
  ASSUME NEW r
  PROVE  IsProtected(r) \in BOOLEAN
BY DEF IsProtected, Protection!Check, Protection!CheckPath

\* Every reference of a merged resource is one that a document lists.
LEMMA MergedListsReferences ==
  ASSUME ManifestInv, Resolved, NEW r \in DOMAIN merged, NEW k \in EdgeKinds
  PROVE  r \in Refs /\ Discovery!ToSet(merged[r].deps[k]) \subseteq Refs
<1>1. repo \in Repositories /\ Found /\ FoldInv /\ todo = {}
  BY DEF ManifestInv, Resolved
<1>2. ManifestIs(Contributed, Said, merged, problems)
  BY <1>1 DEF FoldInv, Said
<1>3. /\ \E c \in Said : r = Contributed[c].ref
      /\ Discovery!ToSet(merged[r].deps[k]) = UNION {Discovery!ToSet(Contributed[c].deps[k]) : c \in Declares(Contributed, Said, r)}
  BY <1>2 DEF ManifestIs, ResourceIs
<1>4. ASSUME NEW c \in Said
      PROVE  Contributed[c].ref \in Refs /\ Discovery!ToSet(Contributed[c].deps[k]) \subseteq Refs
  <2> DEFINE d == ResourceAt(c[2])
             list == d.deps[k]
  <2>1. Contributed[c].ref = d.ref /\ Contributed[c].deps = d.deps /\ d \in Documents(GovernorOf(d))
    BY <1>1, ContributedMeans
  <2>2. d \in repo.resources
    BY <2>1 DEF Documents
  <2>3. d.ref \in Refs /\ d.deps \in [EdgeKinds -> Seq(Refs)]
    BY <1>1, <2>2, DocumentFacts
  <2>4. list \in Seq(Refs)
    BY <2>3
  <2> HIDE DEF list, d
  <2>5. Discovery!ToSet(list) \subseteq Refs
    BY <2>4 DEF Discovery!ToSet
  <2> QED
    BY <2>1, <2>3, <2>5 DEF list
<1>5. \A c \in Declares(Contributed, Said, r) : c \in Said
  BY DEF Declares
<1> QED
  BY <1>3, <1>4, <1>5

\* What a resolved manifest hands over is a manifest a graph can be built of.
LEMMA EffectiveIsManifest ==
  ASSUME ManifestInv, Resolved
  PROVE  IsManifest(Effective)
<1>1. DOMAIN Effective = DOMAIN merged /\ Effective = [r \in DOMAIN Effective |-> Effective[r]]
  BY DEF Effective
<1>2. EdgeKinds # {}
  BY DEF EdgeKinds
<1>3. ASSUME NEW r \in DOMAIN merged PROVE r \in Refs /\ IsResource(Effective[r])
  <2> DEFINE listed(k) == Discovery!ToSet(merged[r].deps[k])
             identity == Identity(r, Desired(r))
             target == IF identity = "" THEN NoTarget ELSE <<TypeOf[r], identity>>
  <2>1. r \in Refs /\ \A k \in EdgeKinds : listed(k) \in SUBSET Refs
    BY <1>2, MergedListsReferences
  <2>2. Effective[r] = [target |-> target, protected |-> IsProtected(r), deps |-> [k \in EdgeKinds |-> listed(k)]]
    BY <1>3 DEF Effective
  <2> HIDE DEF listed, target
  <2> QED
    BY <2>1, <2>2, ProtectedIsBoolean DEF IsResource
<1> QED
  BY <1>1, <1>3 DEF IsManifest

(* The graph's own invariant, all the way from the repository: until the   *)
(* manifest is handed over there is none to build.                         *)
GraphIsBuilt == Inv /\ (phase = "nodes" => Init)

\* There is nothing to build at first.
LEMMA GraphIsBuiltInit == AffectedInit => GraphIsBuilt
<1> SUFFICES ASSUME AffectedInit PROVE GraphIsBuilt
  OBVIOUS
<1>1. Init
  <2>1. manifest = <<>> /\ phase = "nodes" /\ nodes = {} /\ edges = {} /\ errs = {}
        /\ waitingFor = [r \in {} |-> 0] /\ ready = {} /\ order = <<>>
    BY DEF AffectedInit, Begins, CompileInit
  <2>2. IsManifest(manifest)
    BY <2>1 DEF IsManifest
  <2> QED
    BY <2>1, <2>2 DEF Init
<1> QED
  BY <1>1, InvInit DEF GraphIsBuilt

\* A step that gives the graph nothing leaves it.
LEMMA GraphStays == GraphIsBuilt /\ UNCHANGED vars => GraphIsBuilt'
<1> SUFFICES ASSUME GraphIsBuilt, UNCHANGED vars PROVE GraphIsBuilt'
  OBVIOUS
<1>1. Inv'
  BY InvStep DEF GraphIsBuilt
<1>2. phase' = "nodes" => Init'
  BY DEF GraphIsBuilt, vars, Init, IsManifest
<1> QED
  BY <1>1, <1>2 DEF GraphIsBuilt

\* What is handed over is where building begins.
LEMMA HandOverBegins == CompileInv /\ ManifestInv /\ GraphIsBuilt /\ HandOver => Init'
<1> SUFFICES ASSUME CompileInv, ManifestInv, GraphIsBuilt, HandOver PROVE Init'
  OBVIOUS
<1>1. stage = "resolved" /\ manifest' = Effective /\ UNCHANGED <<phase, nodes, edges, errs, waitingFor, ready, order>>
  BY DEF HandOver, graphless
<1>2. phase = "nodes" /\ Init
  BY <1>1 DEF CompileInv, BuildsTheMerged, Early, GraphIsBuilt
<1>3. IsManifest(manifest')
  BY <1>1, EffectiveIsManifest DEF Resolved
<1> QED
  BY <1>1, <1>2, <1>3 DEF Init, IsManifest

\* Building goes on, and does not begin again.
LEMMA BuildStepBuilds == GraphIsBuilt /\ Next => GraphIsBuilt'
<1> SUFFICES ASSUME GraphIsBuilt, Next PROVE GraphIsBuilt'
  OBVIOUS
<1>1. Inv'
  BY InvStep DEF GraphIsBuilt
<1>2. phase' # "nodes"
  BY DEF Next, AddNodes, FindDuplicateTargets, BuildEdges, StartSort, EmitNext, FinishSort
<1> QED
  BY <1>1, <1>2 DEF GraphIsBuilt

\* No step of a pass or of a report leaves it.
LEMMA GraphIsBuiltStep ==
  CompileInv /\ ManifestInv /\ GraphIsBuilt /\ [AffectedNext]_<<compilation, reporting>> => (GraphIsBuilt' \/ Init')
<1> SUFFICES ASSUME CompileInv, ManifestInv, GraphIsBuilt, [AffectedNext]_<<compilation, reporting>>
             PROVE  GraphIsBuilt' \/ Init'
  OBVIOUS
<1>1. CASE HandOver
  BY <1>1, HandOverBegins
<1>2. CASE BuildStep
  BY <1>2, BuildStepBuilds DEF BuildStep
<1>3. CASE UNCHANGED vars
  BY <1>3, GraphStays
<1>4. HandOver \/ BuildStep \/ UNCHANGED vars
  BY DEF AffectedNext, CompileNext, WalkStep, ResolveStep, Detect, WalkRevision, NextHost, KeepManifest, NextRevision,
         compilation, Refuse
<1> QED
  BY <1>1, <1>2, <1>3, <1>4

(* The graph of a pass is built by Kahn's algorithm from the manifest that *)
(* was resolved, and from nothing else.                                    *)
THEOREM BuildingInvariant == AffectedSpec => []GraphIsBuilt
<1>1. Init => GraphIsBuilt
  BY InvInit DEF GraphIsBuilt
<1> QED
  BY <1>1, GraphIsBuiltInit, GraphIsBuiltStep, CompileInvariant, ManifestInvariant, PTL DEF AffectedSpec

(* Whatever the repository, the order in which a host is reconciled is the *)
(* least that its merged manifest allows (graph.go:212-213).               *)
THEOREM CompileLeastTopologicalOrder == AffectedSpec => []LeastTopologicalOrder
<1>1. GraphIsBuilt => LeastTopologicalOrder
  BY DEF GraphIsBuilt, Inv
<1> QED
  BY <1>1, BuildingInvariant, PTL

(* Whatever the repository, a graph that is built holds all of the merged  *)
(* manifest, each resource once, with every dependency, one to a target    *)
(* and without a cycle (graph.go:98-144, 250-252).                         *)
THEOREM CompileOnlySoundGraphsAreBuilt == AffectedSpec => []OnlySoundGraphsAreBuilt
<1>1. GraphIsBuilt => OnlySoundGraphsAreBuilt
  BY InvIsSound DEF GraphIsBuilt
<1> QED
  BY <1>1, BuildingInvariant, PTL

(* What Pass assumes of its worlds: numbered by their places in the order, *)
(* resources wait for smaller ones only, every dependency is between two   *)
(* places, and no two places have one target.                              *)
EdgesGoForward ==
  phase = "built" =>
    /\ \A e \in edges : \E i, j \in 1..Len(order) : order[i] = e.from /\ order[j] = e.to
    /\ \A i, j \in 1..Len(order) : (\E e \in edges : e.from = order[i] /\ e.to = order[j]) => i < j
    /\ \A i, j \in 1..Len(order) : manifest[order[i]].target = manifest[order[j]].target => i = j

\* A place is taken once, and what it waits for was placed before.
LEMMA BuiltGoesForward == Inv => EdgesGoForward
<1> SUFFICES ASSUME Inv, phase = "built" PROVE EdgesGoForward
  BY DEF EdgesGoForward
<1>1. /\ TypeOK /\ Injective /\ LeastTopologicalOrder /\ OnlySoundGraphsAreBuilt
      /\ Len(order) = Cardinality(nodes) /\ nodes = DOMAIN manifest
      /\ \A e \in edges : e.from \in nodes /\ e.to \in nodes
  BY InvIsSound DEF Inv, Ending, Accepted, Declared
<1>2. Emitted = nodes /\ Len(order) \in Nat
  BY <1>1, LengthCountsEmitted DEF TypeOK
<1>3. \A r \in nodes : \E i \in 1..Len(order) : order[i] = r
  BY <1>2 DEF Emitted
<1>4. \A e \in edges : \E i, j \in 1..Len(order) : order[i] = e.from /\ order[j] = e.to
  BY <1>1, <1>3
<1>5. ASSUME NEW i \in 1..Len(order), NEW j \in 1..Len(order), NEW e \in edges, e.from = order[i], e.to = order[j]
      PROVE  i < j
  <2>1. order[i] \in Before(j)
    BY <1>1, <1>5 DEF LeastTopologicalOrder, Available, Dependencies
  <2>2. PICK k \in 1..(j - 1) : order[k] = order[i]
    BY <2>1 DEF Before
  <2>3. k \in 1..Len(order) /\ k < j
    BY <1>2
  <2>4. k = i
    BY <1>1, <2>2, <2>3 DEF Injective
  <2> QED
    BY <2>3, <2>4
<1>6. ASSUME NEW i \in 1..Len(order), NEW j \in 1..Len(order), manifest[order[i]].target = manifest[order[j]].target
      PROVE  i = j
  <2>1. order[i] \in DOMAIN manifest /\ order[j] \in DOMAIN manifest
    BY <1>1, <1>2 DEF Emitted
  <2>2. order[i] = order[j]
    BY <1>1, <1>6, <2>1 DEF OnlySoundGraphsAreBuilt
  <2> QED
    BY <1>1, <2>2 DEF Injective
<1> QED
  BY <1>4, <1>5, <1>6 DEF EdgesGoForward

(* What is handed from the graph to observing, planning and applying is    *)
(* what WorldsAssumption of Pass takes for granted (pass.go:84-106).      *)
THEOREM CompileEdgesGoForward == AffectedSpec => []EdgesGoForward
<1>1. GraphIsBuilt => EdgesGoForward
  BY BuiltGoesForward DEF GraphIsBuilt
<1> QED
  BY <1>1, BuildingInvariant, PTL
=============================================================================

---------------------------- MODULE CompileProofs ----------------------------
(***************************************************************************)
(* Proofs about a pass up to observing: what the graph is given, what is   *)
(* kept out of it, and who serves a type, for every repository, host and   *)
(* set of providers.                                                       *)
(***************************************************************************)
EXTENDS Affected, TLAPS, SequenceTheorems, FiniteSetTheorems, WellFoundedInduction

-----------------------------------------------------------------------------
(* Paths, name by name.                                                    *)

Agrees(s, t) == Len(s) <= Len(t) /\ \A i \in 1..Len(s) : s[i] = t[i]

\* A prefix, place by place.
LEMMA PrefixMeans ==
  ASSUME NEW s \in Seq(STRING), NEW t \in Seq(STRING)
  PROVE  /\ Discovery!IsPrefix(s, t) <=> Agrees(s, t)
         /\ Protection!IsPrefix(s, t) <=> Agrees(s, t)
<1> DEFINE n == Len(s)
           a == SubSeq(s, 1, n)
           b == SubSeq(t, 1, n)
<1>1. n \in Nat /\ Len(t) \in Nat
  BY LenProperties
<1>2. a = s
  BY SubSeqFull
<1>3. ASSUME n <= Len(t) PROVE a = b <=> \A i \in 1..n : s[i] = t[i]
  <2>1. b \in Seq(STRING) /\ Len(b) = n /\ \A i \in 1..n : b[i] = t[i]
    <3>1. \A i \in 1..n : t[i] \in STRING
      BY <1>1, <1>3, ElementOfSeq
    <3>2. b \in Seq(STRING) /\ Len(b) = IF 1 <= n THEN n - 1 + 1 ELSE 0
      BY <1>1, <1>3, <3>1, SubSeqProperties
    <3>3. \A i \in 1..(n - 1 + 1) : b[i] = t[1 + i - 1]
      BY <1>1, <1>3, <3>1, SubSeqProperties
    <3> HIDE DEF b, n
    <3> QED
      BY <1>1, <3>2, <3>3
  <2>2. b = s <=> \A i \in 1..n : s[i] = b[i]
    BY <2>1, SeqEqual
  <2> HIDE DEF a, b
  <2> QED
    BY <1>2, <2>1, <2>2
<1>4. Agrees(s, t) <=> n <= Len(t) /\ \A i \in 1..n : s[i] = t[i]
  BY DEF Agrees
<1>5. /\ Discovery!IsPrefix(s, t) <=> n <= Len(t) /\ a = b
      /\ Protection!IsPrefix(s, t) <=> n <= Len(t) /\ a = b
  BY DEF Discovery!IsPrefix, Protection!IsPrefix
<1> HIDE DEF n, a, b
<1> QED
  BY <1>3, <1>4, <1>5

\* Everything is a prefix of itself, and of what it is a prefix of twice over;
\* of two prefixes of one path one is a prefix of the other.
LEMMA AgreeFacts ==
  ASSUME NEW s \in Seq(STRING), NEW t \in Seq(STRING), NEW u \in Seq(STRING)
  PROVE  /\ Agrees(s, s)
         /\ Agrees(s, t) /\ Agrees(t, u) => Agrees(s, u)
         /\ Agrees(s, u) /\ Agrees(t, u) => Agrees(s, t) \/ Agrees(t, s)
<1>1. Len(s) \in Nat /\ Len(t) \in Nat /\ Len(u) \in Nat
  BY LenProperties
<1> QED
  BY <1>1 DEF Agrees

\* The directory of a file.
LEMMA FrontFacts ==
  ASSUME NEW f \in Seq(STRING), f # <<>>
  PROVE  /\ Discovery!Front(f) = Protection!Front(f)
         /\ Protection!Front(f) \in Seq(STRING)
         /\ Agrees(Protection!Front(f), f)
<1> DEFINE d == SubSeq(f, 1, Len(f) - 1)
<1>1. Len(f) \in Nat \ {0} /\ \A i \in 1..Len(f) : f[i] \in STRING
  BY EmptySeq, LenProperties, ElementOfSeq
<1>2. \A i \in 1..(Len(f) - 1) : f[i] \in STRING
  BY <1>1
<1>3. /\ d \in Seq(STRING)
      /\ Len(d) = IF 1 <= Len(f) - 1 THEN Len(f) - 1 - 1 + 1 ELSE 0
      /\ \A i \in 1..(Len(f) - 1 - 1 + 1) : d[i] = f[1 + i - 1]
  BY <1>1, <1>2, SubSeqProperties
<1> HIDE DEF d
<1>4. Len(d) <= Len(f) /\ \A i \in 1..Len(d) : d[i] = f[i]
  BY <1>1, <1>3
<1> QED
  BY <1>3, <1>4 DEF Agrees, d, Discovery!Front, Protection!Front

-----------------------------------------------------------------------------
(* The protected set, by what its paths mean.                              *)

\* What a protected path means, for all of them at once.
LEMMA CleanedMeans ==
  ASSUME NEW S
  PROVE  /\ \A p : p \in Protection!Cleaned(S) <=> \E v \in S : p \in Means(v)
         /\ \A v : \A p \in Means(v) : p \in Paths /\ p \in Seq(STRING) /\ Means(v) = {p}
         /\ \A v : Protection!Absolute(v) => Means(v) = {Protection!Clean(Path[v].parts)}
<1>1. \A v : Protection!Absolute(v) =>
        v \in DOMAIN Path /\ Path[v].means = Protection!Clean(Path[v].parts) /\ Path[v].means \in Seq(STRING)
  BY PathAssumption DEF Protection!Absolute
<1>2. \A v : Means(v) = IF Protection!Absolute(v) THEN {Path[v].means} ELSE {}
  BY DEF Means
<1>3. \A v : Protection!Absolute(v) => Path[v].means \in Paths
  BY <1>1 DEF Paths
<1> QED
  BY <1>1, <1>2, <1>3 DEF Protection!Cleaned

\* The usual place of the configuration is such a path.
LEMMA UsualPlace ==
  /\ Means(DefaultConfig) = {Path[DefaultConfig].means}
  /\ Protection!Clean(Path[DefaultConfig].parts) = Path[DefaultConfig].means
  /\ Path[DefaultConfig].means \in Seq(STRING) \ {<<>>} /\ Path[DefaultConfig].means \in Paths
<1>1. Protection!Absolute(DefaultConfig) /\ Path[DefaultConfig].means # <<>>
  BY PathAssumption
<1>2. DefaultConfig \in DOMAIN Path /\ Path[DefaultConfig].absolute
  BY <1>1 DEF Protection!Absolute
<1> QED
  BY <1>1, <1>2, PathAssumption DEF Means, Paths

Trustworthy == Binaries \cup {machine.cfg.self, machine.cfg.signers, machine.cfg.credential}

\* The set of a host's configuration, by what its paths mean.
LEMMA ProtectedSet ==
  LET guarded == Protection!For(machine.cfg) IN
  /\ \A p : p \in guarded.files <=> p = Path[DefaultConfig].means \/ \E v \in Trustworthy : p \in Means(v)
  /\ \A p : p \in guarded.dirs <=>
       \/ p = Protection!Front(Path[DefaultConfig].means)
       \/ \E v \in {machine.cfg.state, machine.cfg.secrets} : p \in Means(v)
  /\ guarded.package = "datum" /\ guarded.unit = {"datum", "datum.service"}
<1> DEFINE guarded == Protection!For(machine.cfg)
<1>1. /\ guarded.files = Protection!Cleaned(Binaries \cup {DefaultConfig, machine.cfg.self, machine.cfg.signers, machine.cfg.credential})
      /\ guarded.dirs = {Protection!Front(Protection!Clean(Path[DefaultConfig].parts))}
                      \cup Protection!Cleaned({machine.cfg.state, machine.cfg.secrets})
      /\ guarded.package = "datum" /\ guarded.unit = {"datum", "datum.service"}
  BY DEF Protection!For
<1> HIDE DEF guarded
<1>2. \A p : p \in guarded.files <=>
        \E v \in Binaries \cup {DefaultConfig, machine.cfg.self, machine.cfg.signers, machine.cfg.credential} : p \in Means(v)
  BY <1>1, CleanedMeans
<1>3. \A p : p \in Protection!Cleaned({machine.cfg.state, machine.cfg.secrets}) <=>
        \E v \in {machine.cfg.state, machine.cfg.secrets} : p \in Means(v)
  BY CleanedMeans
<1>4. \A p : p \in guarded.files <=> p = Path[DefaultConfig].means \/ \E v \in Trustworthy : p \in Means(v)
  BY <1>2, UsualPlace DEF Trustworthy
<1>5. \A p : p \in guarded.dirs <=>
       \/ p = Protection!Front(Path[DefaultConfig].means)
       \/ \E v \in {machine.cfg.state, machine.cfg.secrets} : p \in Means(v)
  BY <1>1, <1>3, UsualPlace
<1> QED
  BY <1>1, <1>4, <1>5 DEF guarded

\* The agent's trust rests on a path.
LEMMA TrustedMeans ==
  ASSUME NEW path \in Seq(STRING)
  PROVE  Trusted(path) <=>
           \/ \E v \in Trustworthy : path \in Means(v)
           \/ Agrees(Protection!Front(Path[DefaultConfig].means), path)
           \/ \E v \in {machine.cfg.state, machine.cfg.secrets} : \E dir \in Means(v) : Agrees(dir, path)
<1> DEFINE usual == Path[DefaultConfig].means
<1>1. Protection!Front(usual) \in Seq(STRING) /\ Discovery!Front(usual) = Protection!Front(usual)
  BY UsualPlace, FrontFacts
<1>2. Discovery!IsPrefix(Discovery!Front(usual), path) <=> Agrees(Protection!Front(usual), path)
  BY <1>1, PrefixMeans
<1>3. \A v : \A dir \in Means(v) : Discovery!IsPrefix(dir, path) <=> Agrees(dir, path)
  BY CleanedMeans, PrefixMeans
<1>4. Binaries \cup {machine.cfg[k] : k \in {"self", "signers", "credential"}} = Trustworthy
  BY DEF Trustworthy
<1> QED
  BY <1>2, <1>3, <1>4 DEF Trusted

\* A path is refused if and only if it is, contains or is inside of what the
\* agent's trust rests on.
LEMMA PathProtected ==
  ASSUME NEW v
  PROVE  Protection!CheckPath(Protection!For(machine.cfg), v) <=>
           \E path \in Paths : Trusted(path) /\ \E target \in Means(v) : Discovery!IsPrefix(target, path)
<1> DEFINE guarded == Protection!For(machine.cfg)
           usual == Path[DefaultConfig].means
           front == Protection!Front(usual)
           it == Path[v].means
<1>u. usual \in Seq(STRING) /\ usual \in Paths /\ front \in Seq(STRING) /\ Agrees(front, usual)
  BY UsualPlace, FrontFacts
<1>f. \A p : p \in guarded.files <=> p = usual \/ \E w \in Trustworthy : p \in Means(w)
  BY ProtectedSet
<1>d. \A p : p \in guarded.dirs <=> p = front \/ \E w \in {machine.cfg.state, machine.cfg.secrets} : p \in Means(w)
  BY ProtectedSet
<1>m. \A w : \A p \in Means(w) : p \in Paths /\ p \in Seq(STRING)
  BY CleanedMeans
<1>1. CASE ~Protection!Absolute(v)
  BY <1>1 DEF Means, Protection!CheckPath
<1>2. CASE Protection!Absolute(v)
  <2>1. Means(v) = {it} /\ it = Protection!Clean(Path[v].parts)
    BY <1>2, CleanedMeans DEF Means
  <2>2. it \in Seq(STRING) /\ it \in Paths
    BY <2>1, <1>m
  <2>3. Protection!CheckPath(guarded, v) <=>
          \/ \E file \in guarded.files : Protection!IsPrefix(it, file)
          \/ \E dir \in guarded.dirs : Protection!IsPrefix(dir, it) \/ Protection!IsPrefix(it, dir)
    BY <1>2, <2>1 DEF Protection!CheckPath, Protection!Within
  <2>4. \A p \in guarded.files \cup guarded.dirs : p \in Seq(STRING)
    BY <1>f, <1>d, <1>m, <1>u
  <2> HIDE DEF guarded, usual, front, it
  <2>5. Protection!CheckPath(guarded, v) <=>
          \/ \E file \in guarded.files : Agrees(it, file)
          \/ \E dir \in guarded.dirs : Agrees(dir, it) \/ Agrees(it, dir)
    BY <2>2, <2>3, <2>4, PrefixMeans
  <2>t. \A path \in Seq(STRING) : Trusted(path) <=>
           \/ \E w \in Trustworthy : path \in Means(w)
           \/ Agrees(front, path)
           \/ \E w \in {machine.cfg.state, machine.cfg.secrets} : \E dir \in Means(w) : Agrees(dir, path)
    BY TrustedMeans DEF front, usual
  <2>p. \A path \in Paths : path \in Seq(STRING)
    BY PathAssumption DEF Paths
  <2>6. ASSUME Protection!CheckPath(guarded, v)
        PROVE  \E path \in Paths : Trusted(path) /\ Discovery!IsPrefix(it, path)
    <3>1. CASE \E file \in guarded.files : Agrees(it, file)
      <4>1. PICK file \in guarded.files : Agrees(it, file)
        BY <3>1
      <4>2. file \in Paths /\ Trusted(file)
        BY <1>f, <1>u, <1>m, <2>t
      <4> QED
        BY <2>2, <2>p, <4>1, <4>2, PrefixMeans
    <3>2. CASE \E dir \in guarded.dirs : Agrees(dir, it)
      <4>1. Trusted(it)
        BY <1>d, <2>2, <2>t, <3>2
      <4> QED
        BY <2>2, <4>1, AgreeFacts, PrefixMeans
    <3>3. CASE \E dir \in guarded.dirs : Agrees(it, dir)
      <4>1. PICK dir \in guarded.dirs : Agrees(it, dir)
        BY <3>3
      <4>2. CASE dir = front
        <5>1. Agrees(it, usual) /\ Trusted(usual)
          BY <1>u, <2>2, <2>t, <4>1, <4>2, AgreeFacts
        <5> QED
          BY <1>u, <2>2, <5>1, PrefixMeans
      <4>3. CASE \E w \in {machine.cfg.state, machine.cfg.secrets} : dir \in Means(w)
        <5>1. dir \in Paths /\ dir \in Seq(STRING)
          BY <1>m, <4>3
        <5>2. Trusted(dir)
          BY <2>t, <4>3, <5>1, AgreeFacts
        <5> QED
          BY <2>2, <4>1, <5>1, <5>2, PrefixMeans
      <4> QED
        BY <1>d, <4>1, <4>2, <4>3
    <3> QED
      BY <2>5, <2>6, <3>1, <3>2, <3>3
  <2>7. ASSUME NEW path \in Paths, Trusted(path), Discovery!IsPrefix(it, path)
        PROVE  Protection!CheckPath(guarded, v)
    <3>1. path \in Seq(STRING) /\ Agrees(it, path)
      BY <2>2, <2>7, <2>p, PrefixMeans
    <3>2. CASE \E w \in Trustworthy : path \in Means(w)
      BY <1>f, <2>5, <3>1, <3>2
    <3>3. CASE Agrees(front, path)
      <4>1. Agrees(front, it) \/ Agrees(it, front)
        BY <1>u, <2>2, <3>1, <3>3, AgreeFacts
      <4> QED
        BY <1>d, <2>5, <4>1
    <3>4. CASE \E w \in {machine.cfg.state, machine.cfg.secrets} : \E dir \in Means(w) : Agrees(dir, path)
      <4>1. PICK w \in {machine.cfg.state, machine.cfg.secrets} : \E dir \in Means(w) : Agrees(dir, path)
        BY <3>4
      <4>2. PICK dir \in Means(w) : Agrees(dir, path)
        BY <4>1
      <4>3. dir \in Seq(STRING) /\ dir \in guarded.dirs
        BY <1>d, <1>m
      <4>4. Agrees(dir, it) \/ Agrees(it, dir)
        BY <2>2, <3>1, <4>2, <4>3, AgreeFacts
      <4> QED
        BY <2>5, <4>3, <4>4
    <3> QED
      BY <2>7, <2>t, <3>1, <3>2, <3>3, <3>4
  <2> QED
    BY <2>1, <2>6, <2>7 DEF guarded
<1> QED
  BY <1>1, <1>2

\* What the graph is told is protected is what touches the agent's trust.
LEMMA ProtectedMeansTouching ==
  ASSUME NEW r
  PROVE  IsProtected(r) <=> Touches(r)
<1> DEFINE guarded == Protection!For(machine.cfg)
           desired == Desired(r)
           Hits(v) == Protection!CheckPath(guarded, v)
           touching == \E path \in Paths : Trusted(path) /\ \E target \in Targeted(r) : Discovery!IsPrefix(target, path)
<1>1. \A v : Hits(v) <=> \E path \in Paths : Trusted(path) /\ \E target \in Means(v) : Discovery!IsPrefix(target, path)
  BY PathProtected
<1>2. ~Hits("")
  BY PathAssumption DEF Protection!CheckPath
<1>3. guarded.package = "datum" /\ guarded.unit = {"datum", "datum.service"}
  BY ProtectedSet
<1>4. IsProtected(r) <=>
        \/ TypeOf[r] \in {"File", "Directory", "Symlink"} /\ Hits(Identity(r, desired))
        \/ TypeOf[r] = "Symlink" /\ "target" \in DOMAIN desired /\ Hits(desired["target"])
        \/ TypeOf[r] = "Package" /\ Identity(r, desired) = "datum"
        \/ TypeOf[r] = "Service" /\ Identity(r, desired) \in {"datum", "datum.service"}
  BY <1>3 DEF IsProtected, Protection!Check, Protection!PathTypes
<1>5. /\ TypeOf[r] \in {"File", "Directory", "Symlink"} =>
           Identity(r, desired) = IF "path" \in DOMAIN desired THEN desired["path"] ELSE ""
      /\ TypeOf[r] \in {"Package", "Service"} => Identity(r, desired) = NameOf[r]
  BY DEF Identity, Protection!PathTypes
<1>6. Touches(r) <=>
        \/ touching
        \/ TypeOf[r] = "Package" /\ NameOf[r] = "datum"
        \/ TypeOf[r] = "Service" /\ NameOf[r] \in {"datum", "datum.service"}
  BY DEF Touches
<1> DEFINE named == CASE TypeOf[r] = "Symlink" -> {"path", "target"}
                      [] TypeOf[r] \in {"File", "Directory"} -> {"path"}
                      [] OTHER -> {}
<1>7. touching <=> \E f \in DOMAIN desired \cap named : Hits(desired[f])
  <2>1. \A t : t \in Targeted(r) <=> \E f \in DOMAIN desired \cap named : t \in Means(desired[f])
    BY DEF Targeted
  <2> HIDE DEF guarded, desired, named, Hits
  <2> QED
    BY <1>1, <2>1
<1>8. /\ TypeOf[r] = "Symlink" => named = {"path", "target"}
      /\ TypeOf[r] \in {"File", "Directory"} => named = {"path"}
      /\ TypeOf[r] \notin {"Symlink", "File", "Directory"} => named = {}
  OBVIOUS
<1> HIDE DEF guarded, desired, Hits, touching, named
<1>9. CASE TypeOf[r] \in {"File", "Directory"}
  <2>1. IsProtected(r) <=> Hits(IF "path" \in DOMAIN desired THEN desired["path"] ELSE "")
    BY <1>4, <1>5, <1>9
  <2>2. Touches(r) <=> \E f \in DOMAIN desired \cap {"path"} : Hits(desired[f])
    BY <1>6, <1>7, <1>8, <1>9
  <2> QED
    BY <1>2, <2>1, <2>2
<1>10. CASE TypeOf[r] = "Symlink"
  <2>1. IsProtected(r) <=>
          \/ Hits(IF "path" \in DOMAIN desired THEN desired["path"] ELSE "")
          \/ "target" \in DOMAIN desired /\ Hits(desired["target"])
    BY <1>4, <1>5, <1>10
  <2>2. Touches(r) <=> \E f \in DOMAIN desired \cap {"path", "target"} : Hits(desired[f])
    BY <1>6, <1>7, <1>8, <1>10
  <2> QED
    BY <1>2, <2>1, <2>2
<1>11. CASE TypeOf[r] \notin {"File", "Directory", "Symlink"}
  <2>1. named = {}
    BY <1>8, <1>11
  <2>2. ~touching
    BY <1>7, <2>1
  <2> QED
    BY <1>4, <1>5, <1>6, <1>11, <2>2
<1> QED
  BY <1>9, <1>10, <1>11

-----------------------------------------------------------------------------
(* Who is picked for a type.                                               *)

\* A set of natural numbers has a least one.
LEMMA ALeastOne ==
  ASSUME NEW S, S \subseteq Nat, S # {}
  PROVE  \E x \in S : \A y \in S : x <= y
<1>1. \E x \in S : \A y \in S : ~(<<y, x>> \in OpToRel(<, Nat))
  BY NatLessThanWellFounded, WFMin
<1>2. PICK x \in S : \A y \in S : ~(<<y, x>> \in OpToRel(<, Nat))
  BY <1>1
<1>3. OpToRel(<, Nat) = {ss \in Nat \X Nat : ss[1] < ss[2]}
  BY Zenon DEF OpToRel
<1>4. ASSUME NEW y \in S PROVE x <= y
  <2>1. <<y, x>> \in OpToRel(<, Nat) <=> y < x
    <3> DEFINE pair == <<y, x>>
    <3>1. pair \in Nat \X Nat /\ pair[1] = y /\ pair[2] = x
      OBVIOUS
    <3> HIDE DEF pair
    <3> QED
      BY <1>3, <3>1 DEF pair
  <2>2. x \in Nat /\ y \in Nat
    OBVIOUS
  <2>3. ~(y < x)
    BY <1>2, <2>1
  <2> QED
    BY <2>2, <2>3
<1> QED
  BY <1>4

\* And a greatest one, below a bound.
LEMMA AGreatestOne ==
  ASSUME NEW n \in Nat, NEW S, S \subseteq 1..n, S # {}
  PROVE  \E x \in S : \A y \in S : x >= y
<1> DEFINE T == {k \in 0..n : n - k \in S}
<1>1. T \subseteq Nat /\ T # {}
  <2>1. PICK s \in S : TRUE
    OBVIOUS
  <2>2. n - s \in 0..n /\ n - (n - s) = s
    OBVIOUS
  <2>3. n - s \in T
    BY <2>1, <2>2
  <2>4. T \subseteq Nat
    OBVIOUS
  <2> HIDE DEF T
  <2> QED
    BY <2>3, <2>4
<1>2. PICK k \in T : \A l \in T : k <= l
  <2> HIDE DEF T
  <2> QED
    BY <1>1, ALeastOne
<1>3. ASSUME NEW y \in S PROVE n - k >= y
  <2>1. n - y \in 0..n /\ n - (n - y) = y
    OBVIOUS
  <2>2. n - y \in T
    BY <2>1
  <2>3. k <= n - y /\ k \in Nat /\ y \in Nat
    BY <1>2, <2>2
  <2> QED
    BY <2>3
<1> QED
  BY <1>2, <1>3

Machines == {c.machine : c \in Cases}

\* The identifiers of a host are a sequence.
LEMMA IdentifiersAreNumbered ==
  ASSUME machine \in Machines
  PROVE  Len(Identifiers) \in Nat
<1> DEFINE release == Selection!ReadFrom(machine.release)
           names == {release.id} \cup STRING
<1>1. machine.release.like \in Seq(STRING)
  BY ProvidersAssumption DEF Machines
<1>2. release.like = machine.release.like
  BY DEF Selection!ReadFrom
<1> HIDE DEF release
<1>3. <<release.id>> \in Seq(names) /\ release.like \in Seq(names)
  <2>1. release.like \in Seq(STRING) /\ STRING \subseteq names
    BY <1>1, <1>2
  <2> HIDE DEF names
  <2>2. release.like \in Seq(names)
    BY <2>1, SeqMonotonic
  <2>3. release.id \in names
    BY DEF names
  <2> QED
    BY <2>2, <2>3
<1> HIDE DEF names
<1>4. <<release.id>> \o release.like \in Seq(names)
  BY <1>3, ConcatProperties
<1> QED
  BY <1>4, LenProperties DEF Identifiers, Selection!Identifiers, release

Contenders(type) == Selection!For(Selection!Usable(machine.candidates, machine.has), type)
Claimed(type) == {i \in 1..Len(Identifiers) : Selection!Best(Contenders(type), Identifiers[i]) # {}}

\* Who is picked for a type: those who claim the first identifier that is claimed.
LEMMA PickedAre ==
  ASSUME machine \in Machines, NEW type
  PROVE  /\ Claimed(type) = {} => Selection!Picked(machine, type) = Selection!General(Contenders(type))
         /\ Claimed(type) # {} => \E i \in Claimed(type) :
              /\ \A j \in Claimed(type) : i <= j
              /\ Selection!Picked(machine, type) = Selection!Best(Contenders(type), Identifiers[i])
<1> DEFINE release == Selection!ReadFrom(machine.release)
           all == Contenders(type)
           claimed == Claimed(type)
           least == Selection!Min(claimed)
           i == IF claimed # {} THEN least ELSE 0
<1>1. Selection!Picked(machine, type) = Selection!Pick(all, release)
  BY DEF Selection!Picked, Contenders
<1>2. Identifiers = Selection!Identifiers(release)
  BY DEF Identifiers
<1>3. Selection!SelectInSeq(Selection!Identifiers(release), LAMBDA id : Selection!Best(all, id) # {}) = i
  BY <1>2 DEF Selection!SelectInSeq, Claimed
<1>4. Selection!Pick(all, release) = IF i = 0 THEN Selection!General(all) ELSE Selection!Best(all, Identifiers[i])
  BY <1>2, <1>3 DEF Selection!Pick
<1>5. Len(Identifiers) \in Nat
  BY IdentifiersAreNumbered
<1>6. claimed \subseteq Nat /\ 0 \notin claimed
  BY <1>5 DEF Claimed
<1> HIDE DEF release, all, claimed
<1>7. claimed # {} => least \in claimed /\ \A j \in claimed : least <= j
  BY <1>6, ALeastOne DEF Selection!Min
<1>8. claimed # {} => i = least /\ i # 0
  BY <1>6, <1>7
<1> QED
  BY <1>1, <1>4, <1>7, <1>8 DEF all, claimed

\* What one contender claims, as a distance.
LEMMA DistanceFacts ==
  ASSUME machine \in Machines, NEW c
  PROVE  /\ Near(c) # {} =>
              /\ Distance(c) \in Near(c) /\ Distance(c) \in 1..Len(Identifiers)
              /\ \A j \in Near(c) : Distance(c) <= j
         /\ Near(c) = {} => Distance(c) = IF c.claims = {} THEN Len(Identifiers) + 1 ELSE OutOfSight
<1>1. Near(c) \subseteq 1..Len(Identifiers) /\ Len(Identifiers) \in Nat
  BY IdentifiersAreNumbered DEF Near
<1>2. Near(c) # {} => \E i \in Near(c) : \A j \in Near(c) : i <= j
  BY <1>1, ALeastOne
<1>3. Near(c) # {} => Distance(c) \in Near(c) /\ \A j \in Near(c) : Distance(c) <= j
  BY <1>2 DEF Distance
<1>4. Near(c) = {} => Distance(c) = IF c.claims = {} THEN Len(Identifiers) + 1 ELSE OutOfSight
  BY DEF Distance
<1> QED
  BY <1>1, <1>3, <1>4

\* The closest are the picked.
LEMMA ClosestArePicked ==
  ASSUME machine \in Machines, NEW type
  PROVE  /\ Closest(type) = Selection!Picked(machine, type)
         /\ Able(type) = {} <=> Selection!Picked(machine, type) = {}
<1> DEFINE all == Contenders(type)
           picked == Selection!Picked(machine, type)
           n == Len(Identifiers)
<1>1. n \in Nat /\ OutOfSight = n + 2
  BY IdentifiersAreNumbered DEF OutOfSight
<1>2. \A c : c \in Able(type) <=> c \in all /\ Distance(c) < OutOfSight
  BY DEF Able, Contenders, Selection!For, Selection!Usable
<1>3. \A c : c \in Closest(type) <=> c \in Able(type) /\ \A d \in Able(type) : Distance(c) <= Distance(d)
  BY DEF Closest
<1>4. \A c : /\ Near(c) # {} => Distance(c) \in Near(c) /\ Distance(c) \in 1..n /\ \A j \in Near(c) : Distance(c) <= j
             /\ Near(c) = {} => Distance(c) = IF c.claims = {} THEN n + 1 ELSE OutOfSight
  BY DistanceFacts
<1>5. \A c \in all : \A i : i \in Near(c) <=> i \in 1..n /\ c \in Selection!Best(all, Identifiers[i])
  BY DEF Near, Selection!Best
<1>6. \A i : Selection!Best(all, Identifiers[i]) \subseteq all
  BY DEF Selection!Best
<1>7. \A i : i \in Claimed(type) <=> i \in 1..n /\ Selection!Best(all, Identifiers[i]) # {}
  BY DEF Claimed
<1> HIDE DEF all, n
<1>8. CASE Claimed(type) = {}
  <2>1. \A c \in all : Near(c) = {}
    BY <1>5, <1>7, <1>8
  <2>2. \A c \in all : Distance(c) = IF c.claims = {} THEN n + 1 ELSE n + 2
    BY <1>1, <1>4, <2>1
  <2>3. \A c : c \in Able(type) <=> c \in all /\ c.claims = {}
    BY <1>1, <1>2, <2>2
  <2>4. picked = Selection!General(all)
    BY <1>8, PickedAre DEF all
  <2>5. \A c : c \in picked <=> c \in all /\ c.claims = {}
    BY <2>4 DEF Selection!General
  <2> HIDE DEF picked
  <2>6. Able(type) = picked
    BY <2>3, <2>5
  <2>7. \A c, d \in Able(type) : Distance(c) <= Distance(d)
    BY <1>1, <2>2, <2>3
  <2>8. Closest(type) = Able(type)
    BY <1>3, <2>7
  <2> QED
    BY <2>6, <2>8 DEF picked
<1>9. CASE Claimed(type) # {}
  <2>1. PICK i \in Claimed(type) : (\A j \in Claimed(type) : i <= j) /\ picked = Selection!Best(all, Identifiers[i])
    BY <1>9, PickedAre DEF all
  <2> HIDE DEF picked
  <2>2. i \in 1..n /\ picked # {} /\ picked \subseteq all
    BY <1>6, <1>7, <2>1
  <2>3. \A c \in all : \A j \in Near(c) : j \in 1..n /\ i <= j
    BY <1>5, <1>7, <2>1
  <2>4. \A c \in all : c \in picked <=> i \in Near(c)
    BY <1>5, <2>1, <2>2
  <2>5. ASSUME NEW c \in picked PROVE Distance(c) = i
    <3>1. i \in Near(c) /\ c \in all
      BY <2>2, <2>4
    <3>2. Distance(c) <= i /\ Distance(c) \in Near(c)
      BY <1>4, <3>1
    <3>3. Distance(c) \in 1..n /\ i <= Distance(c)
      BY <2>3, <3>1, <3>2
    <3> QED
      BY <1>1, <2>2, <3>2, <3>3
  <2>6. ASSUME NEW c \in all, c \notin picked PROVE Distance(c) > i
    <3>1. CASE Near(c) = {}
      BY <1>1, <1>4, <2>2, <3>1
    <3>2. CASE Near(c) # {}
      <4>1. Distance(c) \in Near(c) /\ i <= Distance(c) /\ Distance(c) \in 1..n
        BY <1>4, <2>3, <3>2
      <4>2. Distance(c) # i
        BY <2>4, <2>6, <4>1
      <4> QED
        BY <1>1, <2>2, <4>1, <4>2
    <3> QED
      BY <3>1, <3>2
  <2>7. picked \subseteq Able(type)
    BY <1>1, <1>2, <2>2, <2>5
  <2>8. \A c \in Able(type) : c \in all
    BY <1>2
  <2>9. ASSUME NEW c \in Closest(type) PROVE c \in picked
    <3>1. PICK p \in picked : TRUE
      BY <2>2
    <3>2. Distance(c) <= i /\ c \in all
      BY <1>3, <2>5, <2>7, <2>8, <3>1
    <3>3. c \notin picked => Distance(c) > i /\ Distance(c) \in Nat
      BY <1>1, <1>4, <2>6, <3>2
    <3> QED
      BY <1>1, <2>2, <3>2, <3>3
  <2>10. ASSUME NEW c \in picked PROVE c \in Closest(type)
    <3>1. \A d \in Able(type) : i <= Distance(d)
      <4> SUFFICES ASSUME NEW d \in Able(type) PROVE i <= Distance(d)
        OBVIOUS
      <4>1. Distance(d) \in Nat
        BY <1>1, <1>4
      <4>2. d \in picked \/ Distance(d) > i
        BY <2>6, <2>8
      <4> QED
        BY <1>1, <2>2, <2>5, <4>1, <4>2
    <3> QED
      BY <1>3, <2>5, <2>7, <3>1
  <2> QED
    BY <2>2, <2>7, <2>9, <2>10 DEF picked
<1> QED
  BY <1>8, <1>9

\* The size of a set, in the module and in the one it instantiates.
LEMMA CountedAlike ==
  \A S : Selection!Cardinality(S) = Cardinality(S)
BY DEF Selection!Cardinality, Cardinality, Selection!IsFiniteSet, IsFiniteSet

\* The types of one provider are picked for together.
LEMMA PickedTogether ==
  ASSUME machine \in Machines, NEW p \in machine.candidates, NEW t \in p.types, NEW u \in p.types
  PROVE  Selection!Picked(machine, t) = Selection!Picked(machine, u)
<1>1. \A q \in machine.candidates : t \in q.types <=> u \in q.types
  <2>1. \A q \in machine.candidates : p.types \cap q.types # {} => p.types = q.types
    BY ProvidersAssumption DEF Machines
  <2> QED
    BY <2>1
<1>2. Contenders(t) = Contenders(u)
  BY <1>1 DEF Contenders, Selection!For, Selection!Usable
<1> QED
  BY <1>2 DEF Selection!Picked, Contenders

\* Who is picked can serve the type here.
LEMMA PickedAreContenders ==
  ASSUME machine \in Machines, NEW type
  PROVE  /\ Selection!Picked(machine, type) \subseteq machine.candidates
         /\ \A p \in Selection!Picked(machine, type) : type \in p.types /\ p \in Able(type)
<1>1. Selection!Picked(machine, type) = Closest(type) /\ Closest(type) \subseteq Able(type)
  BY ClosestArePicked DEF Closest
<1>2. \A p \in Able(type) : p \in machine.candidates /\ type \in p.types
  BY DEF Able
<1> QED
  BY <1>1, <1>2

\* Without ambiguity there is at most one, the one that is registered.
LEMMA OneIsPicked ==
  ASSUME machine \in Machines, ~Selection!IsAmbiguous(machine), NEW type, Selection!Picked(machine, type) # {}
  PROVE  /\ Selection!Picked(machine, type) = {Selection!One(machine, type)}
         /\ Selection!One(machine, type) \in machine.candidates
         /\ type \in Selection!One(machine, type).types
         /\ type \in Selection!Served(machine)
<1> DEFINE picked == Selection!Picked(machine, type)
           one == Selection!One(machine, type)
<1>1. one \in picked
  BY DEF Selection!One
<1>2. picked \subseteq machine.candidates /\ \A p \in picked : type \in p.types
  BY PickedAreContenders
<1>3. type \in Selection!Types(machine.candidates)
  <2>1. one \in machine.candidates /\ type \in one.types
    BY <1>1, <1>2
  <2> HIDE DEF one
  <2> QED
    BY <2>1 DEF Selection!Types
<1>4. ~(Cardinality(picked) > 1)
  <2>1. \A t \in Selection!Types(machine.candidates) : ~(Cardinality(Selection!Picked(machine, t)) > 1)
    BY CountedAlike DEF Selection!IsAmbiguous
  <2> QED
    BY <1>3, <2>1
<1>5. IsFiniteSet(picked)
  <2>1. IsFiniteSet(machine.candidates)
    BY ProvidersAssumption DEF Machines
  <2> HIDE DEF picked
  <2> QED
    BY <1>2, <2>1, FS_Subset
<1>6. type \in Selection!Served(machine)
  BY <1>1, <1>3 DEF Selection!Served
<1> HIDE DEF picked, one
<1>7. ASSUME NEW p \in picked, p # one PROVE FALSE
  <2> DEFINE pair == {one, p}
  <2>1. pair \subseteq picked
    BY <1>1
  <2>2. IsFiniteSet({one}) /\ Cardinality({one}) = 1
    BY FS_Singleton
  <2>3. pair = {one} \cup {p} /\ p \notin {one}
    BY <1>7
  <2>4. IsFiniteSet({one} \cup {p}) /\ Cardinality({one} \cup {p}) = 2
    <3> DEFINE S == {one}
    <3>1. IsFiniteSet(S) /\ Cardinality(S) = 1 /\ p \notin S
      BY <2>2, <2>3
    <3> HIDE DEF S
    <3>2. Cardinality(S \cup {p}) = 1 + 1 /\ IsFiniteSet(S \cup {p})
      BY <3>1, FS_AddElement
    <3> QED
      BY <3>2 DEF S
  <2>5. IsFiniteSet(pair) /\ Cardinality(pair) = 2
    BY <2>3, <2>4
  <2> HIDE DEF pair
  <2>6. Cardinality(pair) <= Cardinality(picked) /\ Cardinality(picked) \in Nat
    BY <1>5, <2>1, FS_Subset, FS_CardinalityType
  <2> QED
    BY <1>4, <2>5, <2>6
<1>8. picked = {one}
  BY <1>1, <1>7
<1> QED
  BY <1>1, <1>2, <1>6, <1>8 DEF picked, one

\* The set of the providers that are picked, type by type.
LEMMA SetIsOfThePicked ==
  ASSUME machine \in Machines, ~Selection!IsAmbiguous(machine)
  PROVE  LET provided == Selection!NewSet(machine, TypesInOrder) IN
         /\ DOMAIN provided = {type \in KnownTypes : Able(type) # {}}
         /\ \A type \in DOMAIN provided :
              \E c \in Able(type) : Closest(type) = {c} /\ provided[type] = c.name
<1> DEFINE provided == Selection!NewSet(machine, TypesInOrder)
           served == Selection!Served(machine)
           One(type) == Selection!One(machine, type)
           Picked(type) == Selection!Picked(machine, type)
           Registering(t) == {i \in 1..Len(TypesInOrder) :
                                TypesInOrder[i] \in served /\ t \in One(TypesInOrder[i]).types}
           Last(t) == IF Registering(t) # {} THEN Selection!Max(Registering(t)) ELSE 0
           all == UNION {One(type).types : type \in served}
<1>1. provided = [t \in all |-> One(TypesInOrder[Last(t)]).name]
  BY DEF Selection!NewSet, Selection!SelectLastInSeq
<1>2. \A type : type \in served <=> type \in KnownTypes /\ Picked(type) # {}
  BY DEF Selection!Served, Selection!Types, KnownTypes
<1>3. \A type \in served : /\ Picked(type) = {One(type)} /\ One(type) \in machine.candidates
                           /\ type \in One(type).types
  BY <1>2, OneIsPicked
<1>4. \A type \in served : \A t \in One(type).types : t \in served /\ One(t) = One(type)
  <2> SUFFICES ASSUME NEW type \in served, NEW t \in One(type).types PROVE t \in served /\ One(t) = One(type)
    OBVIOUS
  <2>1. Picked(t) = Picked(type)
    BY <1>3, PickedTogether
  <2>2. t \in KnownTypes
    BY <1>3 DEF KnownTypes
  <2>3. t \in served
    BY <1>2, <1>3, <2>1, <2>2
  <2> HIDE DEF One, Picked, served
  <2> QED
    BY <1>3, <2>1, <2>3
<1>5. \A t : t \in all <=> t \in served
  <2> HIDE DEF One, Picked, served
  <2> QED
    BY <1>3, <1>4
<1>6. ASSUME NEW t \in served PROVE Last(t) \in Registering(t)
  <2>1. t \in {TypesInOrder[i] : i \in DOMAIN TypesInOrder}
    <3>1. PICK p \in machine.candidates : t \in p.types
      BY <1>3
    <3>2. p.types \subseteq Discovery!ToSet(TypesInOrder)
      BY ProvidersAssumption DEF Machines
    <3> QED
      BY <3>1, <3>2 DEF Discovery!ToSet
  <2>2. DOMAIN TypesInOrder = 1..Len(TypesInOrder) /\ Len(TypesInOrder) \in Nat
    BY ProvidersAssumption, LenProperties
  <2>3. Registering(t) # {} /\ Registering(t) \subseteq 1..Len(TypesInOrder)
    <3>1. PICK i \in 1..Len(TypesInOrder) : TypesInOrder[i] = t
      BY <2>1, <2>2
    <3>2. i \in Registering(t)
      BY <1>3, <3>1
    <3> QED
      BY <3>2
  <2> DEFINE S == Registering(t)
  <2> HIDE DEF Registering
  <2>4. \E x \in S : \A y \in S : x >= y
    <3> HIDE DEF S
    <3> QED
      BY <2>2, <2>3, AGreatestOne DEF S
  <2>5. Selection!Max(S) \in S
    BY <2>4 DEF Selection!Max
  <2> QED
    BY <2>3, <2>5
<1>7. \A t \in served : One(TypesInOrder[Last(t)]) = One(t)
  <2> SUFFICES ASSUME NEW t \in served PROVE One(TypesInOrder[Last(t)]) = One(t)
    OBVIOUS
  <2>1. TypesInOrder[Last(t)] \in served /\ t \in One(TypesInOrder[Last(t)]).types
    BY <1>6
  <2> HIDE DEF One, served, Last
  <2> QED
    BY <1>4, <2>1
<1>8. \A t \in served : provided[t] = One(t).name
  <2> HIDE DEF One, served, Last, provided, all
  <2> QED
    BY <1>1, <1>5, <1>7
<1>9. DOMAIN provided = served
  <2> HIDE DEF One, served, Last, provided, all
  <2> QED
    BY <1>1, <1>5
<1>10. \A t : Closest(t) = Picked(t) /\ (Able(t) = {} <=> Picked(t) = {})
  BY ClosestArePicked
<1>11. \A t \in served : One(t) \in Able(t)
  BY <1>3, PickedAreContenders
<1> HIDE DEF One, served, Last, provided, all, Picked
<1>12. \A t : t \in served <=> t \in KnownTypes /\ Able(t) # {}
  BY <1>2, <1>10
<1>13. DOMAIN provided = {type \in KnownTypes : Able(type) # {}}
  BY <1>9, <1>12
<1>14. \A type \in DOMAIN provided :
         \E c \in Able(type) : Closest(type) = {c} /\ provided[type] = c.name
  BY <1>3, <1>8, <1>9, <1>10, <1>11
<1> QED
  BY <1>13, <1>14 DEF provided

\* What is missing for a type nobody serves.
LEMMA UnservedMisses ==
  \A type \in DOMAIN Unserved :
    Unserved[type] = {c.needs : c \in {c \in machine.candidates : type \in c.types}} \ (machine.has \cup {"nothing"})
<1>1. \A type \in DOMAIN Unserved :
        Unserved[type] = {c.needs : c \in Selection!For(machine.candidates \ Selection!Usable(machine.candidates, machine.has), type)}
  BY DEF Unserved, Selection!Unserved
<1> SUFFICES ASSUME NEW type \in DOMAIN Unserved
             PROVE  Unserved[type] = {c.needs : c \in {c \in machine.candidates : type \in c.types}}
                                       \ (machine.has \cup {"nothing"})
  OBVIOUS
<1>2. \A c : c \in Selection!For(machine.candidates \ Selection!Usable(machine.candidates, machine.has), type) <=>
               c \in machine.candidates /\ type \in c.types /\ c.needs \notin machine.has \cup {"nothing"}
  BY DEF Selection!For, Selection!Usable
<1> DEFINE out == Selection!For(machine.candidates \ Selection!Usable(machine.candidates, machine.has), type)
           those == {c \in machine.candidates : type \in c.types}
           there == machine.has \cup {"nothing"}
<1>3. \A n : n \in Unserved[type] <=> \E c \in out : n = c.needs
  BY <1>1
<1>4. \A c : c \in out <=> c \in those /\ c.needs \notin there
  BY <1>2
<1> HIDE DEF out, those, there
<1>5. \A n : n \in {c.needs : c \in those} \ there <=> (\E c \in those : n = c.needs) /\ n \notin there
  OBVIOUS
<1>6. \A n : n \in Unserved[type] <=> n \in {c.needs : c \in those} \ there
  BY <1>3, <1>4, <1>5
<1>7. Unserved[type] = {c.needs : c \in out}
  BY <1>1 DEF out
<1>8. Unserved[type] = {c.needs : c \in those} \ there
  <2> DEFINE rest == {c.needs : c \in those} \ there
  <2>1. \A n : n \in {c.needs : c \in out} <=> n \in rest
    BY <1>6, <1>7
  <2>2. {c.needs : c \in out} = rest
    BY <2>1
  <2> QED
    BY <1>7, <2>2
<1> QED
  BY <1>8 DEF those, there

-----------------------------------------------------------------------------
(* The invariant.                                                          *)

\* Where nothing is given to the graph yet, or never will be.
Early == {"walk", "match", "fold", "resolved", "next", "reported"}

\* The graph holds nothing protected, and refuses nothing else for it.
Separates ==
  /\ phase = "nodes" => nodes = {} /\ errs = {}
  /\ \A r \in nodes : r \in DOMAIN manifest /\ ~manifest[r].protected
  /\ \A p \in errs : p.what = "protected" => p.ref \in DOMAIN manifest /\ manifest[p.ref].protected

\* The graph is built of the merged resources, for this host.
BuildsTheMerged ==
  /\ stage \in Early => phase = "nodes"
  /\ stage = "building" \/ phase # "nodes" => manifest = Effective

\* Providers are selected for this host, or it is ambiguous which.
SelectsForTheHost ==
  /\ machine \in Machines
  /\ stage = "refused" /\ phase = "built" => Selection!IsAmbiguous(machine)
  /\ stage = "ready" => ~Selection!IsAmbiguous(machine) /\ providers = Selection!NewSet(machine, TypesInOrder)

CompileInv == Separates /\ BuildsTheMerged /\ SelectsForTheHost

\* What the graph is given depends on the merged resources and the host only.
LEMMA EffectiveStays ==
  ASSUME UNCHANGED <<merged, machine>>
  PROVE  Effective' = Effective
BY DEF Effective, IsProtected, Identity, Desired, Resolution!ValuesOf

LEMMA EffectiveProtects ==
  \A r \in DOMAIN Effective : Effective[r].protected <=> IsProtected(r)
BY DEF Effective

LEMMA CompileInvInit == AffectedInit => CompileInv
<1> SUFFICES ASSUME NEW c \in Cases, Begins(c) PROVE CompileInv
  BY DEF AffectedInit
<1>1. machine \in Machines /\ stage = "walk" /\ phase = "nodes" /\ nodes = {} /\ errs = {}
  BY DEF Begins, CompileInit, Machines
<1> QED
  BY <1>1 DEF CompileInv, Separates, BuildsTheMerged, SelectsForTheHost

\* Until then nothing is built, whatever is found, matched or merged.
LEMMA EarlyStepsKeepIt ==
  ASSUME CompileInv, stage \in Early, stage' \in Early \cup {"refused"}, UNCHANGED <<vars, machine>>
  PROVE  CompileInv'
<1>1. phase = "nodes" /\ nodes = {} /\ errs = {} /\ machine \in Machines
  BY DEF CompileInv, Separates, BuildsTheMerged, SelectsForTheHost
<1>2. phase' = "nodes" /\ nodes' = {} /\ errs' = {} /\ machine' \in Machines
  BY <1>1 DEF vars, Machines
<1>3. stage' \notin {"building", "ready"}
  BY DEF Early
<1> QED
  BY <1>2, <1>3 DEF CompileInv, Separates, BuildsTheMerged, SelectsForTheHost

LEMMA BeginsAHost ==
  ASSUME NEW found, NEW name, Resolution!Begin(found, name)
  PROVE  stage' \in Early \cup {"refused"}
BY DEF Resolution!Begin, Early

LEMMA ResolveStepKeepsIt ==
  ASSUME CompileInv, ResolveStep
  PROVE  CompileInv'
<1>1. Resolution!Next /\ UNCHANGED <<vars, machine>>
  BY DEF ResolveStep
<1>2. stage \in Early /\ stage' \in Early \cup {"refused"}
  BY <1>1 DEF Resolution!Next, Resolution!MatchLayers, Resolution!FoldResource, Resolution!CheckManifest, Early
<1> QED
  BY <1>1, <1>2, EarlyStepsKeepIt

LEMMA WalkStepKeepsIt ==
  ASSUME CompileInv, NEW name, WalkStep(name)
  PROVE  CompileInv'
<1>1. stage = "walk" /\ UNCHANGED <<vars, machine>>
  BY DEF WalkStep
<1>2. stage' \in Early \cup {"refused"}
  BY BeginsAHost DEF WalkStep, Refuse
<1> QED
  BY <1>1, <1>2, EarlyStepsKeepIt DEF Early

LEMMA HandOverKeepsIt ==
  ASSUME CompileInv, HandOver
  PROVE  CompileInv'
<1>1. /\ stage = "resolved" /\ stage' = "building" /\ manifest' = Effective
      /\ UNCHANGED <<nodes, errs, phase, merged, machine>>
  BY DEF HandOver, graphless
<1>2. phase = "nodes" /\ nodes = {} /\ errs = {} /\ machine \in Machines
  BY <1>1 DEF CompileInv, Separates, BuildsTheMerged, SelectsForTheHost, Early
<1>3. manifest' = Effective'
  BY <1>1, EffectiveStays
<1>4. Separates' /\ BuildsTheMerged'
  BY <1>1, <1>2, <1>3 DEF Separates, BuildsTheMerged
<1>5. SelectsForTheHost'
  BY <1>1, <1>2 DEF SelectsForTheHost, Machines
<1> QED
  BY <1>4, <1>5 DEF CompileInv

\* What the graph builder does with the manifest.
LEMMA GraphSeparates ==
  ASSUME Separates, Next
  PROVE  Separates' /\ phase' # "nodes" /\ UNCHANGED manifest
<1>1. CASE AddNodes
  <2> DEFINE unnamed == {r \in DOMAIN manifest : manifest[r].target = NoTarget}
             kept == {r \in DOMAIN manifest \ unnamed : ~manifest[r].protected}
             gone == DOMAIN manifest \ (unnamed \cup kept)
  <2>1. /\ nodes' = kept /\ manifest' = manifest /\ phase' = "duplicates"
        /\ errs' = {[what |-> "target", ref |-> r] : r \in unnamed} \cup {[what |-> "protected", ref |-> r] : r \in gone}
    BY <1>1 DEF AddNodes
  <2>2. \A r \in gone : r \in DOMAIN manifest /\ manifest[r].protected
    OBVIOUS
  <2>3. \A r \in kept : r \in DOMAIN manifest /\ ~manifest[r].protected
    OBVIOUS
  <2> HIDE DEF unnamed, kept, gone
  <2>4. \A p \in errs' : p.what = "protected" => p.ref \in gone
    BY <2>1
  <2> QED
    BY <2>1, <2>2, <2>3, <2>4 DEF Separates
<1>2. CASE FindDuplicateTargets
  <2>1. /\ UNCHANGED <<manifest, nodes>> /\ phase' = "edges"
        /\ \A p \in errs' : p \in errs \/ p.what = "duplicate"
    BY <1>2 DEF FindDuplicateTargets
  <2> QED
    BY <2>1 DEF Separates
<1>3. CASE BuildEdges
  <2>1. /\ UNCHANGED <<manifest, nodes>> /\ phase' \in {"start", "refused"}
        /\ \A p \in errs' : p \in errs \/ p.what \in {"missing", "self"}
    BY <1>3 DEF BuildEdges
  <2> QED
    BY <2>1 DEF Separates
<1>4. CASE StartSort
  <2>1. UNCHANGED <<manifest, nodes, errs>> /\ phase' = "sorting"
    BY <1>4 DEF StartSort
  <2> QED
    BY <2>1 DEF Separates
<1>5. CASE EmitNext
  <2>1. UNCHANGED <<manifest, nodes, errs>> /\ phase = "sorting" /\ phase' = phase
    BY <1>5 DEF EmitNext
  <2> QED
    BY <2>1 DEF Separates
<1>6. CASE FinishSort
  <2>1. /\ UNCHANGED <<manifest, nodes>> /\ phase' \in {"built", "refused"}
        /\ \A p \in errs' : p \in errs \/ p.what = "cycle"
    BY <1>6 DEF FinishSort
  <2> QED
    BY <2>1 DEF Separates
<1> QED
  BY <1>1, <1>2, <1>3, <1>4, <1>5, <1>6 DEF Next

LEMMA BuildStepKeepsIt ==
  ASSUME CompileInv, BuildStep
  PROVE  CompileInv'
<1>1. stage = "building" /\ stage' = "building" /\ Next /\ UNCHANGED <<merged, machine>>
  BY DEF BuildStep
<1>2. Separates' /\ manifest' = manifest
  BY <1>1, GraphSeparates DEF CompileInv
<1>3. manifest' = Effective'
  BY <1>1, <1>2, EffectiveStays DEF CompileInv, BuildsTheMerged
<1>4. BuildsTheMerged'
  BY <1>1, <1>3 DEF BuildsTheMerged, Early
<1>5. SelectsForTheHost'
  BY <1>1 DEF CompileInv, SelectsForTheHost, Machines
<1> QED
  BY <1>2, <1>4, <1>5 DEF CompileInv

LEMMA DetectKeepsIt ==
  ASSUME CompileInv, Detect
  PROVE  CompileInv'
<1>1. /\ stage = "building" /\ phase = "built" /\ UNCHANGED <<manifest, nodes, errs, phase, merged, machine>>
      /\ \/ Selection!IsAmbiguous(machine) /\ stage' = "refused"
         \/ /\ ~Selection!IsAmbiguous(machine) /\ stage' = "ready"
            /\ providers' = Selection!NewSet(machine, TypesInOrder)
  BY DEF Detect, Refuse, vars
<1>2. Separates'
  BY <1>1 DEF CompileInv, Separates
<1>3. Effective' = Effective /\ manifest = Effective
  BY <1>1, EffectiveStays DEF CompileInv, BuildsTheMerged
<1>4. BuildsTheMerged'
  BY <1>1, <1>3 DEF BuildsTheMerged, Early
<1>5. machine' = machine /\ machine \in Machines
  BY <1>1 DEF CompileInv, SelectsForTheHost
<1>6. SelectsForTheHost'
  BY <1>1, <1>5 DEF SelectsForTheHost, Machines
<1> QED
  BY <1>2, <1>4, <1>6 DEF CompileInv

\* datum affected gives no manifest to a graph.
LEMMA ReportingKeepsIt ==
  ASSUME CompileInv, WalkRevision \/ NextHost \/ KeepManifest \/ NextRevision
  PROVE  CompileInv'
<1>1. stage \in Early /\ UNCHANGED <<vars, machine>>
  BY DEF WalkRevision, NextHost, KeepManifest, NextRevision, Early
<1>2. stage' \in Early \cup {"refused"}
  BY BeginsAHost DEF WalkRevision, NextHost, KeepManifest, NextRevision, Refuse, Early
<1> QED
  BY <1>1, <1>2, EarlyStepsKeepIt

LEMMA CompileInvStep == CompileInv /\ [AffectedNext]_<<compilation, reporting>> => CompileInv'
<1> SUFFICES ASSUME CompileInv, [AffectedNext]_<<compilation, reporting>> PROVE CompileInv'
  OBVIOUS
<1>1. CASE CompileNext
  BY <1>1, WalkStepKeepsIt, ResolveStepKeepsIt, HandOverKeepsIt, BuildStepKeepsIt, DetectKeepsIt DEF CompileNext
<1>2. CASE ResolveStep
  BY <1>2, ResolveStepKeepsIt
<1>3. CASE WalkRevision \/ NextHost \/ KeepManifest \/ NextRevision
  BY <1>3, ReportingKeepsIt
<1>4. CASE UNCHANGED <<compilation, reporting>>
  <2>1. UNCHANGED <<manifest, phase, nodes, errs, machine, merged, stage, providers>>
    BY <1>4 DEF compilation, vars
  <2>2. Effective' = Effective
    BY <2>1, EffectiveStays
  <2> QED
    BY <2>1, <2>2 DEF CompileInv, Separates, BuildsTheMerged, SelectsForTheHost, Machines
<1> QED
  BY <1>1, <1>2, <1>3, <1>4 DEF AffectedNext

-----------------------------------------------------------------------------
(* The theorems.                                                           *)

(* Throughout a pass, and a report of what a revision affects, the graph   *)
(* is built of the merged resources of this host and providers are         *)
(* selected for it.                                                        *)
THEOREM CompileInvariant == AffectedSpec => []CompileInv
<1> QED
  BY CompileInvInit, CompileInvStep, PTL DEF AffectedSpec

(* Whatever layers a path is put together from, however it is spelled and  *)
(* whatever the agent's configuration is, no graph holds a resource that   *)
(* owns anything the agent's trust rests on, and nothing else is refused   *)
(* for it (anchor.go:1-11, 112-175).                                       *)
THEOREM CompileProtectedIsOutOfReach == AffectedSpec => []ProtectedIsOutOfReach
<1>1. CompileInv => ProtectedIsOutOfReach
  <2> SUFFICES ASSUME CompileInv PROVE ProtectedIsOutOfReach
    OBVIOUS
  <2>1. CASE phase = "nodes"
    BY <2>1 DEF CompileInv, Separates, ProtectedIsOutOfReach
  <2>2. CASE phase # "nodes"
    <3>1. manifest = Effective
      BY <2>2 DEF CompileInv, BuildsTheMerged
    <3>2. \A r \in DOMAIN manifest : manifest[r].protected <=> Touches(r)
      BY <3>1, EffectiveProtects, ProtectedMeansTouching
    <3> QED
      BY <3>2 DEF CompileInv, Separates, ProtectedIsOutOfReach
  <2> QED
    BY <2>1, <2>2
<1> QED
  BY <1>1, CompileInvariant, PTL

(* On any host, with any providers that share their types, a type is       *)
(* served by the one that names the host most closely, or it is not served *)
(* for what the host lacks, or the pass is refused (capability.go:78-179). *)
THEOREM CompileClosestClaimServes == AffectedSpec => []ClosestClaimServes
<1>1. CompileInv => ClosestClaimServes
  <2> SUFFICES ASSUME CompileInv PROVE ClosestClaimServes
    OBVIOUS
  <2>1. machine \in Machines
    BY DEF CompileInv, SelectsForTheHost
  <2>2. ASSUME stage = "ready"
        PROVE  /\ DOMAIN providers = {type \in KnownTypes : Able(type) # {}}
               /\ \A type \in DOMAIN providers :
                    \E c \in Able(type) : Closest(type) = {c} /\ providers[type] = c.name
    <3>1. ~Selection!IsAmbiguous(machine) /\ providers = Selection!NewSet(machine, TypesInOrder)
      BY <2>2 DEF CompileInv, SelectsForTheHost
    <3> QED
      BY <2>1, <3>1, SetIsOfThePicked
  <2>3. ASSUME stage = "refused", phase = "built"
        PROVE  \E type \in KnownTypes : Cardinality(Closest(type)) > 1
    <3>1. Selection!IsAmbiguous(machine)
      BY <2>3 DEF CompileInv, SelectsForTheHost
    <3>2. PICK type \in Selection!Types(machine.candidates) : Cardinality(Selection!Picked(machine, type)) > 1
      BY <3>1, CountedAlike DEF Selection!IsAmbiguous
    <3>3. type \in KnownTypes /\ Closest(type) = Selection!Picked(machine, type)
      BY <2>1, ClosestArePicked DEF Selection!Types, KnownTypes
    <3> QED
      BY <3>2, <3>3
  <2> QED
    BY <2>2, <2>3, UnservedMisses DEF ClosestClaimServes
<1> QED
  BY <1>1, CompileInvariant, PTL

=============================================================================

---------------------------- MODULE GraphProofs ----------------------------
(***************************************************************************)
(* Proofs about module Graph, for every manifest over every finite set of  *)
(* references: types, that the order is the least topological order, and   *)
(* that only sound graphs are built.                                       *)
(***************************************************************************)
EXTENDS Graph, FiniteSetTheorems, WellFoundedInduction, TLAPS

(* A finite set of references or of places has a least member, and Least   *)
(* picks it: the sets of members below a member are well-founded.          *)
LEMMA LeastFacts ==
  ASSUME NEW S \in SUBSET Nat, IsFiniteSet(S), S # {}
  PROVE  Least(S) \in S /\ \A q \in S : Least(S) <= q
<1> DEFINE Below(x) == {q \in S : q <= x}
           Belows == {Below(x) : x \in S}
<1>1. Belows \subseteq FiniteSubsetsOf(S) /\ Belows # {}
  <2>1. FiniteSubsetsOf(S) = SUBSET S
    BY FS_FiniteSubsetsOfFinite
  <2>2. PICK x \in S : TRUE
    OBVIOUS
  <2>3. Below(x) \in Belows
    OBVIOUS
  <2>4. \A B \in Belows : B \subseteq S
    OBVIOUS
  <2> QED
    BY <2>1, <2>3, <2>4
<1>2. PICK B \in Belows : \A C \in Belows : <<C, B>> \notin StrictSubsetOrdering(S)
  BY <1>1, WFMin, FS_StrictSubsetOrderingWellFounded
<1>3. PICK m \in S : B = Below(m)
  BY <1>2
<1>4. ASSUME NEW q \in S, ~(m <= q) PROVE FALSE
  <2>1. q \in Nat /\ m \in Nat /\ q < m
    BY <1>4
  <2>2. Below(q) \subseteq B /\ m \in B /\ m \notin Below(q)
    <3>1. \A r \in S : r \in Nat
      OBVIOUS
    <3>2. B = {r \in S : r <= m}
      BY <1>3
    <3>3. ASSUME NEW r \in S, r <= q PROVE r <= m
      BY <3>1, <3>3, <2>1
    <3>4. m <= m /\ ~(m <= q)
      BY <2>1
    <3>5. Below(q) \subseteq B
      BY <3>2, <3>3
    <3> QED
      BY <3>2, <3>4, <3>5
  <2>3. <<Below(q), B>> \in StrictSubsetOrdering(S)
    BY <2>2, <1>3 DEF StrictSubsetOrdering
  <2> QED
    BY <1>2, <2>3
<1> QED
  BY <1>4 DEF Least

LEMMA EdgeIsFinite == IsFiniteSet(Edge)
<1> DEFINE P == (Refs \X Refs) \X EdgeKinds
           f == [p \in P |-> [from |-> p[1][1], to |-> p[1][2], kind |-> p[2]]]
<1>1. IsFiniteSet({"requires"}) /\ IsFiniteSet({"restartOn"}) /\ IsFiniteSet({"reloadOn"})
  BY FS_Singleton
<1>2. EdgeKinds = {"requires"} \cup ({"restartOn"} \cup {"reloadOn"})
  BY DEF EdgeKinds
<1>3. IsFiniteSet(EdgeKinds)
  BY <1>1, <1>2, FS_Union
<1>4. IsFiniteSet(P)
  BY <1>3, FS_Product, RefsAssumption
<1>5. f \in [P -> Edge]
  BY DEF Edge
<1>6. ASSUME NEW e \in Edge PROVE \E p \in P : f[p] = e
  <2>1. <<<<e.from, e.to>>, e.kind>> \in P
    BY DEF Edge
  <2>2. f[<<<<e.from, e.to>>, e.kind>>] = e
    BY <2>1 DEF Edge
  <2> QED
    BY <2>1, <2>2
<1>7. f \in Surjection(P, Edge)
  BY <1>5, <1>6 DEF Surjection
<1> QED
  BY <1>4, <1>7, FS_Surjection

-----------------------------------------------------------------------------
(* The inductive invariant.  TypeOK alone is not inductive: that no count  *)
(* drops below zero follows from what the counts count.                    *)

\* The edges into r whose source is not in the order yet.
Waiting(r) == {e \in Dependencies(r) : e.from \notin Emitted}

\* Nothing is ordered before the sort, and no problem forgotten.
Beginning ==
  /\ phase \in {"nodes", "duplicates", "edges", "start"} => order = << >> /\ ready = {}
  /\ phase = "nodes" => errs = {} /\ edges = {}
  /\ phase \in {"duplicates", "edges"} /\ errs = {} => nodes = DOMAIN manifest
  /\ phase = "edges" /\ errs = {} => Shared = {}

\* What reaches the sort is the manifest, free of local problems.
Accepted ==
  phase \in {"start", "sorting", "built"} =>
    /\ errs = {}
    /\ nodes = DOMAIN manifest
    /\ Shared = {}
    /\ edges = Declared(nodes)
    /\ \A e \in edges : e.from \in nodes /\ e.from # e.to

\* The counts and the ready set mean what Kahn's loop takes them to mean.
Counted ==
  phase \in {"sorting", "built"} =>
    /\ ready = Available(Emitted)
    /\ \A r \in nodes : waitingFor[r] = Cardinality(Waiting(r))

Injective == \A i, j \in 1..Len(order) : order[i] = order[j] => i = j

\* The sort ends with every node placed, or with a knot.
Ending ==
  /\ phase = "built" => Len(order) = Cardinality(nodes)
  /\ \A p \in errs : p.what = "cycle" => phase = "refused" /\ Tangled(nodes \ Emitted)

Inv ==
  /\ TypeOK
  /\ Beginning
  /\ Accepted
  /\ Counted
  /\ Injective
  /\ LeastTopologicalOrder
  /\ Ending

-----------------------------------------------------------------------------
LEMMA NodesAreFinite ==
  ASSUME TypeOK
  PROVE  /\ IsFiniteSet(nodes)
         /\ \A S \in SUBSET edges : IsFiniteSet(S)
         /\ nodes \subseteq Nat
<1>1. nodes \in SUBSET Refs /\ edges \in SUBSET Edge
  BY DEF TypeOK, IsManifest
<1>2. \A S \in SUBSET edges : S \in SUBSET Edge
  BY <1>1
<1> QED
  BY <1>1, <1>2, EdgeIsFinite, FS_Subset, RefsAssumption

LEMMA InvInit == Init => Inv
<1> SUFFICES ASSUME Init PROVE Inv
  OBVIOUS
<1>1. TypeOK
  BY DEF Init, TypeOK
<1>2. Beginning /\ Accepted /\ Counted
  BY DEF Init, Beginning, Accepted, Counted
<1>3. Injective /\ LeastTopologicalOrder
  BY DEF Init, Injective, LeastTopologicalOrder
<1>4. Ending
  BY DEF Init, Ending
<1> QED
  BY <1>1, <1>2, <1>3, <1>4 DEF Inv

LEMMA AddNodesKeepsInv ==
  ASSUME Inv, AddNodes
  PROVE  Inv'
<1> USE DEF AddNodes, Inv
<1>1. order = << >> /\ ready = {} /\ errs = {} /\ edges = {}
  BY DEF Beginning
<1>2. nodes' \subseteq DOMAIN manifest /\ DOMAIN manifest \subseteq Refs
  BY DEF TypeOK, IsManifest
<1>3. TypeOK'
  <2>1. errs' \subseteq Problem
    BY <1>2 DEF Problem
  <2>2. waitingFor' \in [nodes' -> Nat]
    OBVIOUS
  <2> QED
    BY <1>1, <1>2, <2>1, <2>2 DEF TypeOK
<1>4. Beginning'
  <2>1. ASSUME errs' = {} PROVE nodes' = DOMAIN manifest
    <3>1. ASSUME NEW r \in DOMAIN manifest, r \notin nodes' PROVE FALSE
      <4>1. CASE manifest[r].target = NoTarget
        <5>1. [what |-> "target", ref |-> r] \in errs'
          BY <4>1
        <5> QED
          BY <5>1, <2>1
      <4>2. CASE manifest[r].target # NoTarget
        <5>1. [what |-> "protected", ref |-> r] \in errs'
          BY <4>2, <3>1
        <5> QED
          BY <5>1, <2>1
      <4> QED
        BY <4>1, <4>2
    <3> QED
      BY <3>1, <1>2
  <2> QED
    BY <1>1, <2>1 DEF Beginning
<1>5. Accepted' /\ Counted'
  BY DEF Accepted, Counted
<1>6. Injective' /\ LeastTopologicalOrder'
  BY <1>1 DEF Injective, LeastTopologicalOrder
<1>7. Ending'
  BY DEF Ending
<1> QED
  BY <1>3, <1>4, <1>5, <1>6, <1>7

LEMMA FindDuplicateTargetsKeepsInv ==
  ASSUME Inv, FindDuplicateTargets
  PROVE  Inv'
<1> USE DEF FindDuplicateTargets, Inv
<1>1. order = << >> /\ ready = {}
  BY DEF Beginning
<1>2. \A p \in errs' : p.what # "cycle"
  BY DEF Ending
<1>3. TypeOK'
  <2>1. Shared \subseteq Refs
    BY DEF Shared, TypeOK, IsManifest
  <2>2. errs' \subseteq Problem
    BY <2>1 DEF Problem, TypeOK
  <2> QED
    BY <2>2 DEF TypeOK
<1>4. Beginning'
  <2>1. ASSUME errs' = {} PROVE nodes = DOMAIN manifest /\ Shared = {}
    <3>1. errs = {} /\ Shared = {}
      BY <2>1
    <3> QED
      BY <3>1 DEF Beginning
  <2>2. Shared' = Shared
    BY DEF Shared
  <2> QED
    BY <1>1, <2>1, <2>2 DEF Beginning
<1>5. Accepted' /\ Counted'
  BY DEF Accepted, Counted
<1>6. Injective' /\ LeastTopologicalOrder'
  BY <1>1 DEF Injective, LeastTopologicalOrder
<1>7. Ending'
  BY <1>2 DEF Ending
<1> QED
  BY <1>3, <1>4, <1>5, <1>6, <1>7

LEMMA BuildEdgesKeepsInv ==
  ASSUME Inv, BuildEdges
  PROVE  Inv'
<1> USE DEF BuildEdges, Inv
<1> DEFINE declared == Declared(nodes)
           missing == {e \in declared : e.from \notin nodes}
           self == {e \in declared \ missing : e.from = e.to}
<1>1. order = << >> /\ ready = {}
  BY DEF Beginning
<1>2. \A p \in errs' : p.what # "cycle"
  BY DEF Ending
<1>3. nodes \subseteq Refs /\ declared \subseteq Edge
  BY DEF TypeOK, IsManifest, Declared, Edge
<1>4. TypeOK'
  <2>1. edges' \subseteq Edge
    BY <1>3
  <2>2. \A e \in declared : e.to \in Refs
    BY <1>3 DEF Edge
  <2>3. errs' \subseteq Problem
    BY <2>2 DEF TypeOK, Problem
  <2> QED
    BY <2>1, <2>3 DEF TypeOK
<1>5. Beginning'
  BY <1>1 DEF Beginning
<1>6. Accepted'
  <2> SUFFICES ASSUME errs' = {} PROVE Accepted'
    BY DEF Accepted
  <2>1. errs = {} /\ missing = {} /\ self = {}
    OBVIOUS
  <2>2. nodes = DOMAIN manifest /\ Shared = {}
    BY <2>1 DEF Beginning
  <2>3. Shared' = Shared /\ Declared(nodes)' = declared
    BY DEF Shared, Declared
  <2>4. edges' = declared /\ \A e \in declared : e.from \in nodes /\ e.from # e.to
    BY <2>1
  <2> QED
    BY <2>2, <2>3, <2>4 DEF Accepted
<1>7. Counted' /\ Injective' /\ LeastTopologicalOrder'
  BY <1>1 DEF Counted, Injective, LeastTopologicalOrder
<1>8. Ending'
  BY <1>2 DEF Ending
<1> QED
  BY <1>4, <1>5, <1>6, <1>7, <1>8

LEMMA StartSortKeepsInv ==
  ASSUME Inv, StartSort
  PROVE  Inv'
<1> USE DEF StartSort, Inv
<1>1. order = << >> /\ ready = {} /\ Emitted = {} /\ Emitted' = {}
  BY DEF Beginning, Emitted
<1>2. \A r \in nodes : Dependencies(r) \in SUBSET edges
  BY DEF Dependencies
<1>3. \A r \in nodes : IsFiniteSet(Dependencies(r))
  BY <1>2, NodesAreFinite
<1>4. \A r \in nodes : waitingFor'[r] = Cardinality(Dependencies(r))
  OBVIOUS
<1>5. TypeOK'
  <2>1. waitingFor' \in [nodes -> Nat]
    BY <1>3, FS_CardinalityType
  <2> QED
    BY <2>1 DEF TypeOK
<1>6. Counted'
  <2>1. \A r \in nodes : Waiting(r)' = Dependencies(r)
    BY <1>1 DEF Waiting, Dependencies
  <2>2. \A r \in nodes : waitingFor'[r] = 0 <=> Dependencies(r) = {}
    BY <1>3, <1>4, FS_EmptySet
  <2>3. Available(Emitted)' = {r \in nodes : Dependencies(r) = {}}
    BY <1>1 DEF Available, Dependencies
  <2> QED
    BY <1>4, <2>1, <2>2, <2>3 DEF Counted
<1>7. Accepted'
  BY DEF Accepted, Shared, Declared
<1>8. Beginning' /\ Injective' /\ LeastTopologicalOrder'
  BY <1>1 DEF Beginning, Injective, LeastTopologicalOrder
<1>9. Ending'
  BY DEF Ending
<1> QED
  BY <1>5, <1>6, <1>7, <1>8, <1>9

-----------------------------------------------------------------------------
(* One iteration of Kahn's loop.                                           *)

\* What Emitted and Before become when a node is appended.
LEMMA AppendFacts ==
  ASSUME NEW next \in nodes, order \in Seq(nodes), order' = Append(order, next)
  PROVE  /\ Len(order') = Len(order) + 1
         /\ order'[Len(order) + 1] = next
         /\ \A i \in 1..Len(order) : order'[i] = order[i]
         /\ Emitted' = Emitted \cup {next}
         /\ \A i \in 1..Len(order) : Before(i)' = Before(i)
         /\ \A i \in Nat : i = Len(order) + 1 => Before(i)' = Emitted
<1>1. Len(order) \in Nat
  OBVIOUS
<1>2. Len(order') = Len(order) + 1
  OBVIOUS
<1>3. order'[Len(order) + 1] = next
  OBVIOUS
<1>4. \A i \in 1..Len(order) : order'[i] = order[i]
  OBVIOUS
<1>5. 1..(Len(order) + 1) = 1..Len(order) \cup {Len(order) + 1}
  BY <1>1
<1>6. Emitted' = Emitted \cup {next}
  BY <1>2, <1>3, <1>4, <1>5 DEF Emitted
<1>7. \A i \in 1..(Len(order) + 1) : 1..(i - 1) \subseteq 1..Len(order)
  BY <1>1
<1>8. \A i \in 1..(Len(order) + 1) : Before(i)' = Before(i)
  BY <1>4, <1>7 DEF Before
<1>9. Before(Len(order) + 1) = Emitted
  BY <1>1 DEF Before, Emitted
<1> QED
  BY <1>1, <1>2, <1>3, <1>4, <1>6, <1>8, <1>9

\* A node in the order waits for nothing outside it.
LEMMA EmittedIsClosed ==
  ASSUME order \in Seq(nodes), LeastTopologicalOrder
  PROVE  \A r \in Emitted : Waiting(r) = {}
<1> SUFFICES ASSUME NEW i \in 1..Len(order) PROVE Waiting(order[i]) = {}
  BY DEF Emitted
<1>1. order[i] \in Available(Before(i))
  BY DEF LeastTopologicalOrder
<1>2. Before(i) \subseteq Emitted
  BY DEF Before, Emitted
<1> QED
  BY <1>1, <1>2 DEF Available, Waiting

LEMMA AvailableMeansNotWaiting ==
  Available(Emitted) = {r \in nodes \ Emitted : Waiting(r) = {}}
BY DEF Available, Waiting

LEMMA EmitNextKeepsInv ==
  ASSUME Inv, EmitNext
  PROVE  Inv'
<1> DEFINE next == Least(ready)
           into(r) == {e \in Dependents(next) : e.to = r}
           freed == {r \in nodes : waitingFor'[r] = 0 /\ into(r) # {}}
<1>1. /\ phase = "sorting" /\ phase' = "sorting"
      /\ order' = Append(order, next)
      /\ waitingFor' = [r \in nodes |-> waitingFor[r] - Cardinality(into(r))]
      /\ ready' = (ready \ {next}) \cup freed
      /\ UNCHANGED <<manifest, nodes, edges, errs>>
  BY DEF EmitNext
<1>2. /\ order \in Seq(nodes) /\ ready \subseteq nodes
      /\ ready = {r \in nodes \ Emitted : Waiting(r) = {}}
      /\ \A r \in nodes : waitingFor[r] = Cardinality(Waiting(r))
      /\ \A e \in edges : e.from \in nodes /\ e.from # e.to
  BY <1>1, AvailableMeansNotWaiting DEF Inv, TypeOK, Counted, Accepted
<1>3. next \in ready /\ \A r \in ready : next <= r
  <2>1. ready \in SUBSET nodes /\ ready # {}
    BY <1>2 DEF EmitNext
  <2>2. IsFiniteSet(ready) /\ ready \in SUBSET Nat
    BY <2>1, NodesAreFinite, FS_Subset DEF Inv
  <2> QED
    BY <2>1, <2>2, LeastFacts
<1>4. next \in nodes /\ next \notin Emitted /\ Waiting(next) = {}
  BY <1>2, <1>3
<1> HIDE DEF next
<1>5. /\ Len(order') = Len(order) + 1
      /\ order'[Len(order) + 1] = next
      /\ \A i \in 1..Len(order) : order'[i] = order[i]
      /\ Emitted' = Emitted \cup {next}
      /\ \A i \in 1..Len(order) : Before(i)' = Before(i)
      /\ \A i \in Nat : i = Len(order) + 1 => Before(i)' = Emitted
  BY <1>1, <1>2, <1>4, AppendFacts
<1>6. \A r \in nodes : /\ into(r) \subseteq Waiting(r)
                        /\ Waiting(r)' = Waiting(r) \ into(r)
  BY <1>1, <1>4, <1>5 DEF Waiting, Dependencies, Dependents
<1>7. \A r \in nodes : waitingFor'[r] \in Nat /\ waitingFor'[r] = Cardinality(Waiting(r)')
  <2> TAKE r \in nodes
  <2>1. Waiting(r) \in SUBSET edges /\ Waiting(r)' \in SUBSET edges
    BY <1>1 DEF Waiting, Dependencies
  <2>2. IsFiniteSet(Waiting(r)) /\ IsFiniteSet(Waiting(r)')
    BY <2>1, NodesAreFinite DEF Inv
  <2>3. Waiting(r) \cap into(r) = into(r)
    BY <1>6
  <2>4. Cardinality(Waiting(r)') = Cardinality(Waiting(r)) - Cardinality(into(r))
    BY <1>6, <2>2, <2>3, FS_Difference
  <2>5. Cardinality(Waiting(r)') \in Nat
    BY <2>2, FS_CardinalityType
  <2> QED
    BY <1>1, <1>2, <2>4, <2>5
<1>8. \A r \in nodes : waitingFor'[r] = 0 <=> Waiting(r)' = {}
  <2> TAKE r \in nodes
  <2>1. Waiting(r)' \in SUBSET edges
    BY <1>1 DEF Waiting, Dependencies
  <2>2. IsFiniteSet(Waiting(r)')
    BY <2>1, NodesAreFinite DEF Inv
  <2> QED
    BY <1>7, <2>2, FS_EmptySet
<1>9. TypeOK'
  <2>1. waitingFor' \in [nodes -> Nat]
    BY <1>1, <1>7
  <2>2. order' \in Seq(nodes) /\ ready' \subseteq nodes
    BY <1>1, <1>2, <1>4
  <2> QED
    BY <1>1, <2>1, <2>2 DEF Inv, TypeOK
<1>10. Beginning' /\ Accepted'
  BY <1>1 DEF Inv, Beginning, Accepted, Shared, Declared
<1>11. Counted'
  <2>1. ready' = {r \in nodes \ Emitted' : Waiting(r)' = {}}
    <3>1. ASSUME NEW r \in ready' PROVE r \in nodes \ Emitted' /\ Waiting(r)' = {}
      <4>1. CASE r \in ready \ {next}
        BY <1>2, <1>5, <1>6, <4>1
      <4>2. CASE r \in freed
        <5>1. Waiting(r)' = {} /\ Waiting(r) # {} /\ r \in nodes
          BY <1>6, <1>8, <4>2
        <5>2. r \notin Emitted
          BY <1>2, <5>1, EmittedIsClosed DEF Inv
        <5>3. r # next
          BY <1>4, <5>1
        <5> QED
          BY <1>5, <5>1, <5>2, <5>3
      <4> QED
        BY <1>1, <3>1, <4>1, <4>2
    <3>2. ASSUME NEW r \in nodes \ Emitted', Waiting(r)' = {} PROVE r \in ready'
      <4>1. CASE Waiting(r) = {}
        BY <1>1, <1>2, <1>5, <4>1
      <4>2. CASE Waiting(r) # {}
        <5>1. into(r) # {} /\ waitingFor'[r] = 0
          BY <1>6, <1>8, <3>2, <4>2
        <5> QED
          BY <1>1, <5>1
      <4> QED
        BY <4>1, <4>2
    <3> QED
      BY <3>1, <3>2
  <2>2. Available(Emitted)' = {r \in nodes \ Emitted' : Waiting(r)' = {}}
    BY <1>1 DEF Available, Waiting
  <2> QED
    BY <1>1, <1>7, <2>1, <2>2 DEF Counted
<1>12. Injective'
  <2>1. \A i \in 1..Len(order) : order[i] # next
    BY <1>4 DEF Emitted
  <2>2. 1..Len(order') = 1..Len(order) \cup {Len(order) + 1}
    BY <1>2, <1>5
  <2> QED
    BY <1>5, <2>1, <2>2 DEF Inv, Injective
<1>13. LeastTopologicalOrder'
  <2>2. \A i \in 1..Len(order) : Available(Before(i))' = Available(Before(i))
    BY <1>1, <1>5 DEF Available, Dependencies
  <2>3. \A i \in Nat : i = Len(order) + 1 => Available(Before(i))' = ready
    BY <1>1, <1>2, <1>5 DEF Available, Dependencies, Waiting
  <2>4. Len(order) + 1 \in Nat
    BY <1>2
  <2>5. 1..Len(order') = 1..Len(order) \cup {Len(order) + 1}
    BY <1>2, <1>5
  <2> QED
    <3>1. \A i \in 1..Len(order) :
            /\ order'[i] \in Available(Before(i))'
            /\ \A r \in Available(Before(i))' : order'[i] <= r
      BY <1>5, <2>2 DEF Inv, LeastTopologicalOrder
    <3>2. \A i \in {Len(order) + 1} :
            /\ order'[i] \in Available(Before(i))'
            /\ \A r \in Available(Before(i))' : order'[i] <= r
      BY <1>3, <1>5, <2>3, <2>4
    <3> QED
      BY <2>5, <3>1, <3>2 DEF LeastTopologicalOrder
<1>14. Ending'
  BY <1>1 DEF Inv, Ending
<1> QED
  BY <1>9, <1>10, <1>11, <1>12, <1>13, <1>14 DEF Inv

-----------------------------------------------------------------------------
(* The end of the sort.                                                    *)

\* The order is a one-to-one sequence of nodes, so its length says whether
\* every node is in it.
LEMMA LengthCountsEmitted ==
  ASSUME TypeOK, Injective
  PROVE  /\ Emitted \subseteq nodes
         /\ Len(order) = Cardinality(nodes) <=> Emitted = nodes
<1>1. Len(order) \in Nat /\ order \in [1..Len(order) -> nodes]
  BY DEF TypeOK
<1>2. order \in Injection(1..Len(order), nodes)
  BY <1>1 DEF Injection, IsInjective, Injective
<1>3. IsFiniteSet(nodes)
  BY NodesAreFinite
<1>4. Cardinality(1..Len(order)) = Len(order)
  BY <1>1, FS_Interval
<1>5. Len(order) = Cardinality(nodes) <=> order \in Surjection(1..Len(order), nodes)
  BY <1>2, <1>3, <1>4, FS_Injection
<1>6. Emitted \subseteq nodes
  BY <1>1 DEF Emitted
<1>7. order \in Surjection(1..Len(order), nodes) <=> nodes \subseteq Emitted
  <2>1. order \in Surjection(1..Len(order), nodes)
          <=> \A r \in nodes : \E i \in 1..Len(order) : order[i] = r
    BY <1>1 DEF Surjection
  <2>2. (\A r \in nodes : \E i \in 1..Len(order) : order[i] = r) <=> nodes \subseteq Emitted
    BY DEF Emitted
  <2> QED
    BY <2>1, <2>2
<1> QED
  BY <1>5, <1>6, <1>7

LEMMA FinishSortKeepsInv ==
  ASSUME Inv, FinishSort
  PROVE  Inv'
<1>1. /\ phase = "sorting" /\ phase' \in {"refused", "built"} /\ ready = {}
      /\ UNCHANGED <<manifest, nodes, edges, waitingFor, ready, order>>
  BY DEF FinishSort
<1>2. /\ errs = {} /\ Available(Emitted) = {}
      /\ \A e \in edges : e.from \in nodes
  BY <1>1 DEF Inv, Accepted, Counted
<1>3. TypeOK'
  <2>1. errs' \subseteq Problem
    <3>1. nodes \subseteq Refs
      BY DEF Inv, TypeOK, IsManifest
    <3> QED
      BY <1>2, <3>1 DEF FinishSort, Problem
  <2> QED
    BY <1>1, <2>1 DEF Inv, TypeOK
<1>4. Beginning'
  BY <1>1 DEF Beginning
<1>5. Accepted'
  <2> SUFFICES ASSUME phase' = "built" PROVE Accepted'
    BY <1>1 DEF Accepted
  <2>1. UNCHANGED errs
    BY DEF FinishSort
  <2> QED
    BY <1>1, <2>1 DEF Inv, Accepted, Shared, Declared
<1>6. Counted'
  BY <1>1 DEF Inv, Counted, Available, Waiting, Dependencies, Emitted
<1>7. Injective' /\ LeastTopologicalOrder'
  BY <1>1 DEF Inv, Injective, LeastTopologicalOrder, Available, Before, Dependencies
<1>8. Ending'
  <2>1. CASE Incomplete
    <3>1. phase' = "refused"
      BY <2>1 DEF FinishSort
    <3>2. nodes \ Emitted # {}
      BY <2>1, LengthCountsEmitted DEF Inv, Incomplete
    <3>3. \A r \in nodes \ Emitted : \E e \in Dependencies(r) : e.from \in nodes \ Emitted
      <4> TAKE r \in nodes \ Emitted
      <4>1. PICK e \in Dependencies(r) : e.from \notin Emitted
        BY <1>2 DEF Available
      <4> QED
        BY <1>2, <4>1 DEF Dependencies
    <3>4. Tangled(nodes \ Emitted)
      BY <3>2, <3>3 DEF Tangled
    <3>5. Tangled(nodes \ Emitted)'
      BY <1>1, <3>4 DEF Tangled, Dependencies, Emitted
    <3> QED
      BY <3>1, <3>5 DEF Ending
  <2>2. CASE ~Incomplete
    <3>1. Len(order) = Cardinality(nodes) /\ errs' = {}
      BY <1>2, <2>2 DEF FinishSort, Incomplete
    <3> QED
      BY <1>1, <3>1 DEF Ending
  <2> QED
    BY <2>1, <2>2
<1> QED
  BY <1>3, <1>4, <1>5, <1>6, <1>7, <1>8 DEF Inv

LEMMA StutterKeepsInv ==
  ASSUME Inv, UNCHANGED vars
  PROVE  Inv'
<1> USE DEF vars
<1>1. TypeOK' /\ Beginning' /\ Accepted'
  BY DEF Inv, TypeOK, Beginning, Accepted, Shared, Declared
<1>2. Counted'
  <2>1. \A r : Waiting(r)' = Waiting(r)
    BY DEF Waiting, Dependencies, Emitted
  <2>2. Available(Emitted)' = Available(Emitted)
    BY DEF Available, Dependencies, Emitted
  <2> QED
    BY <2>1, <2>2 DEF Inv, Counted
<1>3. Injective' /\ LeastTopologicalOrder'
  BY DEF Inv, Injective, LeastTopologicalOrder, Available, Before, Dependencies
<1>4. Ending'
  BY DEF Inv, Ending, Tangled, Dependencies, Emitted
<1> QED
  BY <1>1, <1>2, <1>3, <1>4 DEF Inv

\* No step of building a graph leaves it.
LEMMA InvStep == Inv /\ [Next]_vars => Inv'
<1> SUFFICES ASSUME Inv, [Next]_vars PROVE Inv'
  OBVIOUS
<1>1. CASE AddNodes
  BY <1>1, AddNodesKeepsInv
<1>2. CASE FindDuplicateTargets
  BY <1>2, FindDuplicateTargetsKeepsInv
<1>3. CASE BuildEdges
  BY <1>3, BuildEdgesKeepsInv
<1>4. CASE StartSort
  BY <1>4, StartSortKeepsInv
<1>5. CASE EmitNext
  BY <1>5, EmitNextKeepsInv
<1>6. CASE FinishSort
  BY <1>6, FinishSortKeepsInv
<1>7. CASE UNCHANGED vars
  BY <1>7, StutterKeepsInv
<1> QED
  BY <1>1, <1>2, <1>3, <1>4, <1>5, <1>6, <1>7 DEF Next

(* Every reachable state satisfies the inductive invariant.                *)
THEOREM GraphInvariant == Spec => []Inv
<1> QED
  BY InvInit, InvStep, PTL DEF Spec

(* The values Kahn's loop works with keep their types; in particular a     *)
(* count of unplaced dependencies never drops below zero (graph.go:225).   *)
THEOREM GraphTypeOK == Spec => []TypeOK
<1>1. Inv => TypeOK
  BY DEF Inv
<1> QED
  BY GraphInvariant, <1>1, PTL

(* For every manifest the order is the least topological order: no node    *)
(* stands before what it waits for, and ties go to the least reference,    *)
(* whatever the order the map of nodes is walked in (graph.go:212-213).    *)
THEOREM GraphOrder == Spec => []LeastTopologicalOrder
<1>1. Inv => LeastTopologicalOrder
  BY DEF Inv
<1> QED
  BY GraphInvariant, <1>1, PTL

\* Nodes in a topological order cannot all wait for each other: the first
\* of them waits for what stands before it.
LEMMA OrderedIsUntangled ==
  ASSUME TypeOK, LeastTopologicalOrder, NEW S \in SUBSET Emitted
  PROVE  ~Tangled(S)
<1> SUFFICES ASSUME Tangled(S) PROVE FALSE
  OBVIOUS
<1> DEFINE Places == {i \in 1..Len(order) : order[i] \in S}
           i == Least(Places)
<1>1. Len(order) \in Nat
  BY DEF TypeOK
<1>2. Places \in SUBSET (1..Len(order)) /\ Places # {} /\ Places \subseteq Nat
  BY <1>1 DEF Tangled, Emitted
<1>3. IsFiniteSet(Places)
  <2>1. IsFiniteSet(1..Len(order))
    BY <1>1, FS_Interval
  <2> HIDE DEF Places
  <2> QED
    BY <1>2, <2>1, FS_Subset
<1>4. i \in Places /\ \A j \in Places : i <= j
  BY <1>2, <1>3, LeastFacts
<1> HIDE DEF i
<1>5. PICK e \in Dependencies(order[i]) : e.from \in S
  BY <1>4 DEF Tangled
<1>6. e.from \in Before(i)
  BY <1>4, <1>5 DEF LeastTopologicalOrder, Available
<1>7. PICK j \in 1..(i - 1) : order[j] = e.from
  BY <1>6 DEF Before
<1>8. i \in 1..Len(order)
  BY <1>4
<1>9. j \in 1..Len(order) /\ ~(i <= j)
  BY <1>1, <1>7, <1>8
<1>10. j \in Places
  BY <1>5, <1>7, <1>9
<1> QED
  BY <1>4, <1>9, <1>10

\* Kahn's loop finds an order of everything or a knot.
LEMMA InvIsSound == Inv => OnlySoundGraphsAreBuilt
<1> SUFFICES ASSUME Inv PROVE OnlySoundGraphsAreBuilt
  OBVIOUS
<1>1. ASSUME phase = "built"
      PROVE  /\ Emitted = DOMAIN manifest
             /\ Len(order) = Cardinality(DOMAIN manifest)
             /\ edges = Declared(DOMAIN manifest)
             /\ \A a, b \in DOMAIN manifest :
                   manifest[a].target = manifest[b].target => a = b
             /\ \A S \in SUBSET nodes : ~Tangled(S)
  <2>1. nodes = DOMAIN manifest /\ Shared = {} /\ edges = Declared(nodes)
    BY <1>1 DEF Inv, Accepted
  <2>2. Len(order) = Cardinality(nodes) /\ Emitted = nodes
    BY <1>1, LengthCountsEmitted DEF Inv, Ending
  <2>3. \A a, b \in DOMAIN manifest :
          manifest[a].target = manifest[b].target => a = b
    BY <2>1 DEF Shared
  <2>4. \A S \in SUBSET nodes : ~Tangled(S)
    BY <2>2, OrderedIsUntangled DEF Inv
  <2> QED
    BY <2>1, <2>2, <2>3, <2>4
<1>2. ASSUME phase = "refused", \E p \in errs : p.what = "cycle"
      PROVE  Tangled(nodes \ Emitted)
  BY <1>2 DEF Inv, Ending
<1> QED
  BY <1>1, <1>2 DEF OnlySoundGraphsAreBuilt

(* Whatever the manifest, what is built is all of it, each resource once,  *)
(* no declared dependency dropped, one resource to a target, free of       *)
(* cycles; and a cycle is only reported where nodes wait for each other    *)
(* (graph.go:98-144, 250-252).                                             *)
THEOREM GraphSound == Spec => []OnlySoundGraphsAreBuilt
<1> QED
  BY GraphInvariant, InvIsSound, PTL
=============================================================================

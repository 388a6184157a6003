------------------------------- MODULE Graph -------------------------------
(***************************************************************************)
(* Building the dependency graph of one manifest: graph.BuildProtecting    *)
(* and the functions it calls (internal/graph/graph.go).                   *)
(*                                                                         *)
(* A manifest is refused for a resource without a target identity, a       *)
(* protected target, two resources managing one target, a reference to a   *)
(* resource it does not hold, a self-reference or a cycle.  What is not    *)
(* refused gets one total order, and observing, planning and applying all  *)
(* walk the host in it.  Kahn's loop is one action per iteration.          *)
(*                                                                         *)
(* A reference is a natural number: its rank when references are sorted by *)
(* their string form, which is the only thing sortRefs looks at.           *)
(***************************************************************************)
EXTENDS Integers, Sequences, FiniteSets

CONSTANTS
  Refs,       \* references a manifest can mention
  NoTarget    \* document.TargetIdentity found none

EdgeKinds == {"requires", "restartOn", "reloadOn"}

ASSUME RefsAssumption == Refs \subseteq Nat /\ IsFiniteSet(Refs)

\* What a resource manages is its type and identity, which are only compared.
IsResource(resource) ==
  /\ resource = [target |-> resource.target, protected |-> resource.protected, deps |-> resource.deps]
  /\ resource.protected \in BOOLEAN /\ resource.deps \in [EdgeKinds -> SUBSET Refs]
IsManifest(m) == DOMAIN m \subseteq Refs /\ m = [r \in DOMAIN m |-> m[r]] /\ \A r \in DOMAIN m : IsResource(m[r])

VARIABLES
  manifest,    \* m, the manifest being built
  phase,       \* where BuildProtecting is
  nodes,       \* the keys of g.Nodes
  edges,       \* g.Edges
  errs,        \* the problems collected, what and whose
  waitingFor,  \* edges into a node whose source is not in the order yet
  ready,       \* nodes waiting for nothing; the code keeps them sorted
  order        \* the order so far, g.order once the sort ends

vars == <<manifest, phase, nodes, edges, errs, waitingFor, ready, order>>

Edge == [from : Refs, to : Refs, kind : EdgeKinds]
Problem == [what : {"target", "protected", "duplicate", "missing", "self", "cycle"},
            ref  : Refs]

TypeOK ==
  /\ IsManifest(manifest)
  /\ phase \in {"nodes", "duplicates", "edges", "start", "sorting", "built", "refused"}
  /\ nodes \subseteq DOMAIN manifest
  /\ edges \subseteq Edge
  /\ errs \subseteq Problem
  /\ waitingFor \in [nodes -> Nat]
  /\ ready \subseteq nodes
  /\ order \in Seq(nodes)

-----------------------------------------------------------------------------
Emitted == {order[i] : i \in 1..Len(order)}

DependenciesRequired(r) ==                              \* defect: reactions do not order
  {e \in edges : e.to = r /\ e.kind = "requires"}
Dependencies(r) == {e \in edges : e.to = r}
Dependents(r) == {e \in edges : e.from = r}

LeastUnsorted(S) == CHOOSE r \in S : \A q \in S : r >= q  \* defect: freed refs not sorted in
Least(S) == CHOOSE r \in S : \A q \in S : r <= q

\* Nodes that manage what another node manages.
SharedOverlooked == {}                                   \* defect: duplicates not looked for
Shared == {a \in nodes : \E b \in nodes \ {a} : manifest[a].target = manifest[b].target}

\* The sort left nodes out.
IncompleteOnlyIfEmpty == order = << >> /\ nodes # {}     \* defect: a partial order passes
Incomplete == Len(order) # Cardinality(nodes)

\* Every dependency a node declares, whatever list it stands on.
Declared(N) ==
  {e \in [from : Refs, to : N, kind : EdgeKinds] : e.from \in manifest[e.to].deps[e.kind]}

-----------------------------------------------------------------------------
Init ==
  /\ IsManifest(manifest)
  /\ phase = "nodes"
  /\ nodes = {}
  /\ edges = {}
  /\ errs = {}
  /\ waitingFor = [r \in {} |-> 0]
  /\ ready = {}
  /\ order = << >>

\* A resource without an identity, or with a protected target, becomes no node.
AddNodes ==
  LET unnamed == {r \in DOMAIN manifest : manifest[r].target = NoTarget}
      kept == {r \in DOMAIN manifest \ unnamed : ~manifest[r].protected}
  IN  /\ phase = "nodes"
      /\ nodes' = kept
      /\ waitingFor' = [r \in kept |-> 0]
      /\ errs' = {[what |-> "target", ref |-> r] : r \in unnamed}
                   \cup {[what |-> "protected", ref |-> r] :
                           r \in DOMAIN manifest \ (unnamed \cup kept)}
      /\ phase' = "duplicates"
      /\ UNCHANGED <<manifest, edges, ready, order>>

FindDuplicateTargets ==
  /\ phase = "duplicates"
  /\ errs' = errs \cup {[what |-> "duplicate", ref |-> r] : r \in Shared}
  /\ phase' = "edges"
  /\ UNCHANGED <<manifest, nodes, edges, waitingFor, ready, order>>

\* A dropped node counts as missing here too, so its dependents are reported.
BuildEdges ==
  LET declared == Declared(nodes)
      missing == {e \in declared : e.from \notin nodes}
      self == {e \in declared \ missing : e.from = e.to}
  IN  /\ phase = "edges"
      /\ edges' = declared \ (missing \cup self)
      /\ errs' = errs \cup {[what |-> "missing", ref |-> e.to] : e \in missing}
                      \cup {[what |-> "self", ref |-> e.to] : e \in self}
      /\ phase' = IF errs' = {} THEN "start" ELSE "refused"
      /\ UNCHANGED <<manifest, nodes, waitingFor, ready, order>>

StartSort ==
  /\ phase = "start"
  /\ waitingFor' = [r \in nodes |-> Cardinality(Dependencies(r))]
  /\ ready' = {r \in nodes : waitingFor'[r] = 0}
  /\ phase' = "sorting"
  /\ UNCHANGED <<manifest, nodes, edges, errs, order>>

\* One iteration: take the first ready node, release what waited for it alone.
EmitNext ==
  LET next == Least(ready)
      after == [r \in nodes |->
                  waitingFor[r] - Cardinality({e \in Dependents(next) : e.to = r})]
      freed == {r \in nodes : after[r] = 0 /\ \E e \in Dependents(next) : e.to = r}
  IN  /\ phase = "sorting"
      /\ ready # {}
      /\ order' = Append(order, next)
      /\ waitingFor' = after
      /\ ready' = (ready \ {next}) \cup freed
      /\ UNCHANGED <<manifest, phase, nodes, edges, errs>>

\* Nothing is ready: either every node is ordered or the rest waits on itself.
FinishSort ==
  /\ phase = "sorting"
  /\ ready = {}
  /\ IF Incomplete
       THEN /\ phase' = "refused"
            /\ errs' = errs \cup {[what |-> "cycle", ref |-> r] : r \in nodes \ Emitted}
       ELSE /\ phase' = "built"
            /\ UNCHANGED errs
  /\ UNCHANGED <<manifest, nodes, edges, waitingFor, ready, order>>

Next ==
  \/ AddNodes
  \/ FindDuplicateTargets
  \/ BuildEdges
  \/ StartSort
  \/ EmitNext
  \/ FinishSort

Spec == Init /\ [][Next]_vars

-----------------------------------------------------------------------------
(* What the rest of the program relies on.                                 *)

\* The nodes that may come next: everything they wait for is in the prefix P.
Available(P) ==
  {r \in nodes \ P : \A e \in Dependencies(r) : e.from \in P}

Before(i) == {order[j] : j \in 1..(i - 1)}

(* Every prefix of the order is closed under dependencies, and each place  *)
(* goes to the least reference that could stand there, so two runs over    *)
(* one manifest give one plan (graph.go:212-213).                          *)
LeastTopologicalOrder ==
  \A i \in 1..Len(order) :
    /\ order[i] \in Available(Before(i))
    /\ \A r \in Available(Before(i)) : order[i] <= r

\* A set of nodes each of which waits for a member: what a cycle looks like.
Tangled(S) == S # {} /\ \A r \in S : \E e \in Dependencies(r) : e.from \in S

(* What is built is the whole manifest in an order that can be followed:   *)
(* every resource once, no dependency it declares dropped, no two nodes    *)
(* with one target, and no nodes that wait for each other; and a cycle is  *)
(* only reported where there is one (graph.go:98-144, 250-252).            *)
OnlySoundGraphsAreBuilt ==
  /\ phase = "built" =>
       /\ Emitted = DOMAIN manifest
       /\ Len(order) = Cardinality(DOMAIN manifest)
       /\ edges = Declared(DOMAIN manifest)
       /\ \A a, b \in DOMAIN manifest : manifest[a].target = manifest[b].target => a = b
       /\ \A S \in SUBSET nodes : ~Tangled(S)
  /\ phase = "refused" /\ (\E p \in errs : p.what = "cycle") => Tangled(nodes \ Emitted)

=============================================================================

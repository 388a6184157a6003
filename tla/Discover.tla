------------------------------ MODULE Discover ------------------------------
(***************************************************************************)
(* Finding the documents of a fleet and the layer each resource belongs to *)
(* (internal/discover/discover.go).                                        *)
(*                                                                         *)
(* A path is a sequence of names; a name is a natural number, its place    *)
(* among the names that can stand beside it, so that paths sort by their   *)
(* names.  A repository is a record: the files that hold a Fleet document, *)
(* the paths its exclude patterns match, the files that cannot be parsed   *)
(* without an error, and the Host, Layer and resource documents, each with *)
(* the file it is in.                                                      *)
(***************************************************************************)
EXTENDS Naturals, Sequences, SequencesExt, FiniteSets, Sorting

Dir(file) == Front(file)

PathBefore(p, q) ==
  \/ IsStrictPrefix(p, q)
  \/ \E i \in 1..Len(p) : /\ i <= Len(q) /\ p[i] < q[i]
                          /\ SubSeq(p, 1, i - 1) = SubSeq(q, 1, i - 1)

\* findFleetRoot: wherever it is, there is one Fleet document.
HasOneFleet(repo) == Cardinality(repo.fleets) = 1
Root(repo) == LET file == CHOOSE f \in repo.fleets : TRUE IN Dir(file)

\* From the fleet root on; a pattern that matches a directory excludes all in it.
Relative(root, path) == SubSeq(path, Len(root) + 1, Len(path))
ExcludedExactly(repo, rel) == rel \in repo.exclude       \* defect: a directory does not take its content along
Excluded(repo, rel) == \E n \in 1..Len(rel) : SubSeq(rel, 1, n) \in repo.exclude

\* Outside the fleet root, or excluded: none of this fleet's business.
Mine(repo, file) == IsPrefix(Root(repo), file) /\ ~Excluded(repo, Relative(Root(repo), file))

Collect(repo, documents) ==
  {[d EXCEPT !.file = Relative(Root(repo), @)] : d \in {d \in documents : Mine(repo, d.file)}}

-----------------------------------------------------------------------------
(* sortSet: the order of everything that comes after.                      *)

ByName(h, k) == h.name < k.name \/ (h.name = k.name /\ PathBefore(h.file, k.file))
ByPrecedenceDescending(l, m) ==                            \* defect: the other way round
  l.precedence > m.precedence \/ (l.precedence = m.precedence /\ PathBefore(l.file, m.file))
ByPrecedence(l, m) ==
  l.precedence < m.precedence \/ (l.precedence = m.precedence /\ PathBefore(l.file, m.file))
ByRef(r, s) == r.ref < s.ref \/ (r.ref = s.ref /\ PathBefore(r.file, s.file))

-----------------------------------------------------------------------------
(* assignLayers.                                                           *)

\* Of two Layer documents in one directory the first is kept, and it is an error.
LayersIn(layers, dir) == {i \in DOMAIN layers : Dir(layers[i].file) = dir}
Ambiguous(layers) == \E i, j \in DOMAIN layers : i # j /\ Dir(layers[i].file) = Dir(layers[j].file)

\* Walking up from a directory until one holds a Layer document; nothing is
\* found above the fleet root.
Holding(layers, dir) == {n \in 0..Len(dir) : LayersIn(layers, SubSeq(dir, 1, n)) # {}}
NearestLayer(layers, dir) == layers[Min(LayersIn(layers, SubSeq(dir, 1, Max(Holding(layers, dir)))))]

Orphan(layers, resource) == Holding(layers, Dir(resource.file)) = {}

Assigned(resource, layer) ==
  [ref |-> resource.ref, desired |-> resource.desired, deps |-> resource.deps,
   layer |-> layer.name, layerDir |-> Dir(layer.file)]
AssignTopmost(layers, resource) ==                         \* defect: the layer furthest up
  LET dir == Dir(resource.file)
  IN  Assigned(resource, layers[Min(LayersIn(layers, SubSeq(dir, 1, Min(Holding(layers, dir)))))])
Assign(layers, resource) == Assigned(resource, NearestLayer(layers, Dir(resource.file)))

-----------------------------------------------------------------------------
(* Walk.                                                                   *)

Nothing == [hosts |-> <<>>, layers |-> <<>>, resources |-> <<>>]

Layers(repo) == InOrder(Collect(repo, repo.layers), ByPrecedence)
Resources(repo) == InOrder(Collect(repo, repo.resources), ByRef)

Fails(repo) ==
  \/ ~HasOneFleet(repo)
  \/ \E file \in repo.broken : Mine(repo, file)
  \/ Ambiguous(Layers(repo))
  \/ \E r \in Collect(repo, repo.resources) : Orphan(Layers(repo), r)

Walk(repo) ==
  LET layers == Layers(repo)
      resources == Resources(repo)
  IN  [hosts     |-> InOrder(Collect(repo, repo.hosts), ByName),
       layers    |-> [i \in DOMAIN layers |->
                        [name |-> layers[i].name, precedence |-> layers[i].precedence,
                         match |-> layers[i].match, dir |-> Dir(layers[i].file)]],
       resources |-> [i \in DOMAIN resources |-> Assign(layers, resources[i])]]
=============================================================================

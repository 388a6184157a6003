------------------------------ MODULE Compile ------------------------------
(***************************************************************************)
(* From a repository to the order in which one host's resources are        *)
(* reconciled and by whom, before anything is observed (runPass in         *)
(* cmd/datum/pass.go): the documents are found (Discover), the manifest is *)
(* resolved from the layers that match (Resolve), nothing in it targets    *)
(* the agent itself (Anchor), its dependency graph is built (Graph), and a *)
(* provider is selected for each type (Capability).                        *)
(***************************************************************************)
EXTENDS Graph, TLC

CONSTANTS
  TypeOf, LabelOf, HostLabel, NoHost,  \* as in Resolve
  Path, DefaultConfig, Binaries,       \* as in Anchor
  NameOf,                              \* the name in each reference
  TypesInOrder,                        \* the resource types in alphabetical order
  Me,                                  \* the host name an agent is configured with
  Cases                                \* repositories with a machine, and perhaps a later repository

VARIABLES
  repo, machine,                              \* the checkout and the host
  set, host, stage, todo, merged, problems,   \* as in Resolve
  providers                                   \* the types that are served, and by whom

Discovery == INSTANCE Discover
Resolution == INSTANCE Resolve
Protection == INSTANCE Anchor
Selection == INSTANCE Capability

(* A path that is absolute means what its names lead to from the root; the *)
(* agent's configuration has such a path, and is a file in a directory.    *)
ASSUME PathAssumption ==
  /\ \A v \in DOMAIN Path :
       Path[v].means \in Seq(STRING) /\ (Path[v].absolute => Path[v].means = Protection!Clean(Path[v].parts))
  /\ ~Protection!Absolute("") /\ Protection!Absolute(DefaultConfig) /\ Path[DefaultConfig].means # <<>>

(* Providers that share a type share all of them, as those of candidates() *)
(* do, and every type has its place in the order.                          *)
ASSUME ProvidersAssumption ==
  /\ TypesInOrder \in Seq(STRING)
  /\ \A c \in Cases :
       /\ IsFiniteSet(c.machine.candidates) /\ c.machine.release.like \in Seq(STRING)
       /\ \A p \in c.machine.candidates : p.types \subseteq Discovery!ToSet(TypesInOrder)
       /\ \A p, q \in c.machine.candidates : p.types \cap q.types # {} => p.types = q.types

(* A repository has finitely many documents, each in a file of its own     *)
(* (where several share a file, the last name of the path tells them       *)
(* apart), so sorting orders any two of one kind.  A file is no directory, *)
(* and what a pattern excludes is below the fleet root.                    *)
Documented(q) == q.hosts \cup q.layers \cup q.resources
ASSUME RepositoryAssumption ==
  \A c \in Cases : \A q \in {c.repo, c.later} :
    LET files == q.broken \cup {d.file : d \in Documented(q)}
    IN  /\ IsFiniteSet(q.fleets) /\ IsFiniteSet(Documented(q))
        /\ q.fleets \cup q.exclude \cup files \subseteq Seq(Nat) \ {<<>>}
        /\ \A f \in q.fleets : Discovery!Dir(f) \notin files
        /\ \A h \in q.hosts : h = [file |-> h.file, name |-> h.name, labels |-> h.labels] /\ h.name \in Nat
        /\ \A l \in q.layers :
             /\ l = [file |-> l.file, name |-> l.name, precedence |-> l.precedence, match |-> l.match]
             /\ l.precedence \in Int
        /\ \A d \in q.resources :
             /\ d = [file |-> d.file, ref |-> d.ref, desired |-> d.desired, deps |-> d.deps]
             /\ d.ref \in Refs /\ d.deps \in [EdgeKinds -> Seq(Refs)]
        /\ \A h, k \in q.hosts : h.name = k.name /\ h.file = k.file => h = k
        /\ \A l, m \in q.layers : l.precedence = m.precedence /\ l.file = m.file => l = m
        /\ \A d, e \in q.resources : d.ref = e.ref /\ d.file = e.file => d = e
ASSUME TypesAssumption == \A r \in Refs : TypeOf[r] \in DOMAIN Resolution!Schema!Fields

compilation == <<vars, repo, machine, set, host, stage, todo, merged, problems, providers>>
graphless == <<nodes, edges, errs, waitingFor, ready, order>>

-----------------------------------------------------------------------------

\* TargetIdentity: what a resource manages on the host.
Desired(r) == Resolution!ValuesOf(merged[r])
Identity(r, desired) ==
  CASE TypeOf[r] \in Protection!PathTypes -> IF "path" \in DOMAIN desired THEN desired["path"] ELSE ""
    [] TypeOf[r] = "Repository"           -> IF "id" \in DOMAIN desired THEN desired["id"] ELSE ""
    [] OTHER                              -> NameOf[r]

IsProtected(r) ==
  Protection!Check(Protection!For(machine.cfg), TypeOf[r], Identity(r, Desired(r)), Desired(r))

Effective ==
  [r \in DOMAIN merged |->
     [target    |-> LET identity == Identity(r, Desired(r))
                    IN  IF identity = "" THEN NoTarget ELSE <<TypeOf[r], identity>>,
      protected |-> IsProtected(r),
      deps      |-> [k \in EdgeKinds |-> Discovery!ToSet(merged[r].deps[k])]]]

-----------------------------------------------------------------------------

CompileInit ==
  /\ stage = "walk" /\ set = Discovery!Nothing /\ host = NoHost
  /\ todo = {} /\ merged = <<>> /\ problems = {}
  /\ manifest = <<>> /\ phase = "nodes" /\ nodes = {} /\ edges = {} /\ errs = {}
  /\ waitingFor = [r \in {} |-> 0] /\ ready = {} /\ order = <<>>
  /\ providers = <<>>

Refuse == stage' = "refused" /\ UNCHANGED <<set, host, todo, merged, problems>>

\* Walk, and the host to resolve for.
WalkStep(name) ==
  /\ stage = "walk"
  /\ IF Discovery!Fails(repo) THEN Refuse ELSE Resolution!Begin(Discovery!Walk(repo), name)
  /\ UNCHANGED <<vars, repo, machine, providers>>

ResolveStep == Resolution!Next /\ UNCHANGED <<vars, repo, machine, providers>>

HandOver ==
  /\ stage = "resolved"
  /\ stage' = "building"
  /\ manifest' = Effective
  /\ UNCHANGED <<graphless, phase, repo, machine, set, host, todo, merged, problems, providers>>

BuildStep ==
  /\ stage = "building"
  /\ Next
  /\ UNCHANGED <<repo, machine, set, host, stage, todo, merged, problems, providers>>

\* detectCapabilities, once there is something to apply.
Detect ==
  /\ stage = "building" /\ phase = "built"
  /\ IF Selection!IsAmbiguous(machine)
       THEN Refuse /\ UNCHANGED providers
       ELSE /\ stage' = "ready"
            /\ providers' = Selection!NewSet(machine, TypesInOrder)
            /\ UNCHANGED <<set, host, todo, merged, problems>>
  /\ UNCHANGED <<vars, repo, machine>>

CompileNext == WalkStep(Me) \/ ResolveStep \/ HandOver \/ BuildStep \/ Detect

-----------------------------------------------------------------------------
(* What the repository says, put without walking or folding it.            *)

Ours(d) ==
  LET root == Discovery!Root(repo)
  IN  /\ Discovery!IsPrefix(root, d.file)
      /\ \A pattern \in repo.exclude : ~Discovery!IsPrefix(root \o pattern, d.file)
IsAbove(l, d) == Discovery!IsPrefix(Discovery!Dir(l.file), Discovery!Dir(d.file))

\* The Layer document at or above a document with none between.
Governs(l, d) ==
  /\ Ours(l) /\ IsAbove(l, d)
  /\ \A m \in repo.layers : Ours(m) /\ IsAbove(m, d) => Len(m.file) <= Len(l.file)

\* A layer counts as matching when one of its name matches.
Applies(l) == \E i \in Resolution!Matched : set.layers[i].name = l.name
Layers == {l \in repo.layers : Ours(l) /\ Applies(l)}
Documents(l) == {d \in repo.resources : Ours(d) /\ Governs(l, d)}
Reaching == UNION {Documents(l) : l \in Layers}
OneNameEach == \A k, l \in repo.layers : k.name = l.name => k = l

Values(l, r, f) ==
  {Resolution!Substitute(d.desired[f]) : d \in {d \in Documents(l) : d.ref = r /\ f \in DOMAIN d.desired}}
Setters(r, f) == {l \in Layers : Values(l, r, f) # {}}
Top(S) == {l \in S : \A k \in S : k.precedence <= l.precedence}

Disagree(k, l, r, f) ==
  k.precedence = l.precedence /\ \E v \in Values(k, r, f) : \E w \in Values(l, r, f) : v # w

\* A layer below says the same, and is still recorded as where the value comes from.
EchoesALowerLayer(l, r, f) ==
  \E k \in Setters(r, f) : k.precedence < l.precedence /\ Values(k, r, f) \cap Values(l, r, f) # {}

Resolved == stage \in {"resolved", "building", "ready"}

-----------------------------------------------------------------------------
(* Properties.                                                             *)

(* A manifest holds exactly the resources, fields and dependencies of the  *)
(* documents that are this fleet's and whose nearest layer matches the     *)
(* host, and every value is the one a layer of the highest precedence      *)
(* gives; no document of the fleet was left out for being unreadable or    *)
(* for belonging to no layer or to two (discover.go:60-73, 229-268,        *)
(* resolve.go:152-187, merge.go:16-18).                                    *)
ManifestIsTheMerge ==
  Resolved =>
    /\ \A file \in repo.broken : ~Ours([file |-> file])
    /\ \A d \in repo.resources : Ours(d) => Cardinality({l \in repo.layers : Governs(l, d)}) = 1
    /\ DOMAIN merged = {d.ref : d \in Reaching}
    /\ \A r \in DOMAIN merged :
         LET mine == {d \in Reaching : d.ref = r}
         IN  /\ DOMAIN merged[r].desired = UNION {DOMAIN d.desired : d \in mine}
             /\ \A k \in EdgeKinds :
                  Discovery!ToSet(merged[r].deps[k]) = UNION {Discovery!ToSet(d.deps[k]) : d \in mine}
             /\ OneNameEach => \A f \in DOMAIN merged[r].desired :
                  merged[r].desired[f].value \in UNION {Values(l, r, f) : l \in Top(Setters(r, f))}

(* A conflict is reported only where two matching layers of one precedence *)
(* disagree, and such layers produce no manifest (precedence.md:37-55),    *)
(* except where one of the two says again what a lower layer says: the     *)
(* value is then still the lower layer's, which conflicts with neither     *)
(* (merge.go:76-80).  Two documents of one layer are held to the same.     *)
(* Layers are told apart by their names, which are unique                  *)
(* (manifest-format.md:25).                                                *)
ConflictsAreRefused ==
  OneNameEach =>
    /\ \A p \in problems : p.what = "conflict" =>
         \E k, l \in Layers : \E f \in UNION {DOMAIN d.desired : d \in repo.resources} : Disagree(k, l, p.ref, f)
    /\ Resolved =>
         \A k, l \in Layers : \A r \in DOMAIN merged : \A f \in DOMAIN merged[r].desired :
           Disagree(k, l, r, f) => EchoesALowerLayer(k, r, f) \/ EchoesALowerLayer(l, r, f)

(* The file a resource names is looked up in a layer that names it so and  *)
(* that no layer above contradicts, however many others have a say in the  *)
(* resource, and content that anyone gave it has been emptied by a layer   *)
(* of the highest precedence (resolve.go:222-240, schema.go:79-81).        *)
FilesComeFromTheirLayer ==
  Resolved /\ OneNameEach =>
    \A r \in DOMAIN merged : "source" \in DOMAIN merged[r].desired =>
      LET file == merged[r].desired["source"].value
      IN  /\ file # "" /\ Setters(r, "content") # {} =>
               \E l \in Top(Setters(r, "content")) : "" \in Values(l, r, "content")
          /\ \E l \in Setters(r, "source") :
               /\ Discovery!Relative(Discovery!Root(repo), Discovery!Dir(l.file)) = merged[r].dir
               /\ file \in Values(l, r, "source")
               /\ \A k \in Setters(r, "source") : k.precedence > l.precedence => Values(k, r, "source") = {file}

\* What is under a path, and what the agent's configuration protects.
Means(value) == IF Protection!Absolute(value) THEN {Path[value].means} ELSE {}
Paths == {Path[v].means : v \in DOMAIN Path}
Trusted(path) ==
  \/ path \in UNION {Means(v) : v \in Binaries \cup {machine.cfg[k] : k \in {"self", "signers", "credential"}}}
  \/ Discovery!IsPrefix(Discovery!Front(Path[DefaultConfig].means), path)
  \/ \E v \in {machine.cfg.state, machine.cfg.secrets} : \E dir \in Means(v) : Discovery!IsPrefix(dir, path)

Targeted(r) ==
  UNION {Means(v) : v \in {Desired(r)[f] : f \in DOMAIN Desired(r) \cap
    (CASE TypeOf[r] = "Symlink" -> {"path", "target"}
       [] TypeOf[r] \in {"File", "Directory"} -> {"path"}
       [] OTHER -> {})}}
Touches(r) ==
  \/ \E path \in Paths : Trusted(path) /\ \E target \in Targeted(r) : Discovery!IsPrefix(target, path)
  \/ TypeOf[r] = "Package" /\ NameOf[r] = "datum"
  \/ TypeOf[r] = "Service" /\ NameOf[r] \in {"datum", "datum.service"}

(* Whichever layers a path is put together from, no graph holds a resource *)
(* that owns anything the agent's own trust rests on, for the              *)
(* configuration this host has, and nothing else is refused for it         *)
(* (anchor.go:1-11, 112-175).                                              *)
ProtectedIsOutOfReach ==
  /\ \A r \in nodes : ~Touches(r)
  /\ \A p \in errs : p.what = "protected" => Touches(p.ref)

\* How far from this host what a provider claims is: what claims nothing is further
\* away than all it resembles, and what claims another distribution is out of sight.
Identifiers == Selection!Identifiers(Selection!ReadFrom(machine.release))
Near(c) == {i \in 1..Len(Identifiers) : Identifiers[i] \in c.claims}
OutOfSight == Len(Identifiers) + 2
Distance(c) ==
  CASE Near(c) # {} -> CHOOSE i \in Near(c) : \A j \in Near(c) : i <= j
    [] Near(c) = {} /\ c.claims = {} -> Len(Identifiers) + 1
    [] OTHER -> OutOfSight
Able(type) ==
  {c \in machine.candidates :
     type \in c.types /\ c.needs \in machine.has \cup {"nothing"} /\ Distance(c) < OutOfSight}
Closest(type) == {c \in Able(type) : \A d \in Able(type) : Distance(c) <= Distance(d)}
KnownTypes == UNION {c.types : c \in machine.candidates}
Unserved == Selection!Unserved(machine)

(* A type is served by the one provider that can work here and names this  *)
(* host most closely, and is not served if there is none, which is put     *)
(* down to what the host lacks if it lacks anything; two that are as close *)
(* refuse the pass (docs/providers/selection.md:90-105).                   *)
ClosestClaimServes ==
  /\ stage = "ready" =>
       /\ DOMAIN providers = {type \in KnownTypes : Able(type) # {}}
       /\ \A type \in DOMAIN providers :
            \E c \in Able(type) : Closest(type) = {c} /\ providers[type] = c.name
       /\ \A type \in DOMAIN Unserved :
            Unserved[type] = {c.needs : c \in {c \in machine.candidates : type \in c.types}}
                              \ (machine.has \cup {"nothing"})
  /\ stage = "refused" /\ phase = "built" =>
       \E type \in KnownTypes : Cardinality(Closest(type)) > 1

(* The disagreement run: layers of one precedence that match never say     *)
(* different things of one field (docs/reference/manifest-format.md:220).  *)
EqualPrecedenceIsUnanimous ==
  Resolved =>
    \A k, l \in Layers : \A r \in DOMAIN merged : \A f \in DOMAIN merged[r].desired : ~Disagree(k, l, r, f)
=============================================================================

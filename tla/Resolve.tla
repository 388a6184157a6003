------------------------------ MODULE Resolve ------------------------------
(***************************************************************************)
(* Resolving one host's manifest: the layers of the fleet that match its   *)
(* labels are folded together, lowest precedence first (resolve.Host).     *)
(*                                                                         *)
(* A resource and the source of a value know their layer by its name, as   *)
(* in the code, and what a name stands for is looked up among the layers   *)
(* that match.  A desired field is a scalar; a map of fields merges key by *)
(* key in the same way, and a list as one value.                           *)
(***************************************************************************)
EXTENDS Naturals, Sequences, SequencesExt, Sorting, TLC

CONSTANTS
  TypeOf,     \* the type of each reference
  LabelOf,    \* the label each placeholder among the values stands for
  HostLabel,  \* the label every host has: its name
  NoHost

Kinds == {"requires", "restartOn", "reloadOn"}

Schema == INSTANCE Schema

VARIABLES
  set,      \* what discovery found
  host,     \* the Host document being resolved
  stage,    \* "match", "fold", "resolved", "refused", and what others add
  todo,     \* what is still to fold: places of a layer that matches and of a resource in it
  merged,   \* the resources so far
  problems  \* what was found wrong, and with which resource

resolution == <<set, host, stage, todo, merged, problems>>

-----------------------------------------------------------------------------
(* Which host and which layers.                                            *)

\* The first document of that name, or none.
FindHost(hosts, name) ==
  LET i == SelectInSeq(hosts, LAMBDA h : h.name = name) IN IF i = 0 THEN NoHost ELSE hosts[i]

Labels == (HostLabel :> host.name) @@ host.labels

Has(labels, key, values) == key \in DOMAIN labels /\ labels[key] \in values

\* One conjunction; an empty matcher matches every host.
Evaluate(m, labels) ==
  /\ \A key \in DOMAIN m.labels : Has(labels, key, {m.labels[key]})
  /\ \A key \in DOMAIN m.oneOf : Has(labels, key, m.oneOf[key])
  /\ \A key \in DOMAIN m.noneOf : ~Has(labels, key, m.noneOf[key])
  /\ m.has \subseteq DOMAIN labels
  /\ m.missing \cap DOMAIN labels = {}

Matched == {i \in DOMAIN set.layers : Evaluate(set.layers[i].match, Labels)}

\* The maps from names, where the last layer of a name stays.
Named(name) == set.layers[Max({i \in Matched : set.layers[i].name = name})]

\* The resources of a layer are those that know it by its name.
Contributions == {c \in Matched \X DOMAIN set.resources : set.resources[c[2]].layer = set.layers[c[1]].name}
Precedes(c, d) == c[1] < d[1] \/ (c[1] = d[1] /\ c[2] <= d[2])

-----------------------------------------------------------------------------
(* What one layer contributes, and how it is merged with those before.     *)

Undeclared(v) == v \in DOMAIN LabelOf /\ LabelOf[v] \notin DOMAIN Labels

\* A label the host does not declare leaves nothing, and the manifest is refused for it.
Substitute(v) ==
  IF v \notin DOMAIN LabelOf THEN v ELSE IF Undeclared(v) THEN "" ELSE Labels[LabelOf[v]]

Stamp(resource, layer) ==
  [desired |-> [f \in DOMAIN resource.desired |->
                  [value |-> Substitute(resource.desired[f]), from |-> layer.name]],
   deps    |-> resource.deps,
   dir     |-> resource.layerDir]

\* Agreeing is neither a conflict nor an override: the first layer stays the source.
ClashesOutOfOrder(old, new, layer) ==             \* defect: equal precedence is a winner
  old.value # new.value /\ Named(old.from).precedence > layer.precedence
Clashes(old, new, layer) ==
  old.value # new.value /\ Named(old.from).precedence = layer.precedence

MergeField(old, new, layer) ==
  IF old.value = new.value \/ Clashes(old, new, layer) THEN old ELSE new

\* Dependencies are sets, so a higher layer cannot take one away; they keep
\* the order they were first seen in.
MergeRefsReplacing(old, new) == IF new = <<>> THEN old ELSE new  \* defect: lists replace each other
MergeRefs(old, new) ==
  LET both == old \o new
      seen == InOrder({i \in DOMAIN both : \A j \in 1..(i - 1) : both[j] # both[i]}, <)
  IN  [n \in DOMAIN seen |-> both[seen[n]]]

Merge(old, new, layer) ==
  [desired |-> [f \in DOMAIN old.desired \cup DOMAIN new.desired |->
                  CASE f \notin DOMAIN new.desired -> old.desired[f]
                    [] f \notin DOMAIN old.desired -> new.desired[f]
                    [] OTHER -> MergeField(old.desired[f], new.desired[f], layer)],
   deps    |-> [k \in Kinds |-> MergeRefs(old.deps[k], new.deps[k])],
   dir     |-> old.dir]

Conflicts(old, new, layer) ==
  {f \in DOMAIN old.desired \cap DOMAIN new.desired : Clashes(old.desired[f], new.desired[f], layer)}

-----------------------------------------------------------------------------
(* The whole manifest, once it is merged.                                  *)

PathFields == <<"source", "template">>

\* A path is relative to the layer that set it.
SourceLayerDirOfFirst(resource) == resource.dir   \* defect: relative to the first layer of the resource
SourceLayerDir(resource) ==
  LET i == SelectInSeq(PathFields, LAMBDA f : f \in DOMAIN resource.desired)
  IN  IF i = 0 THEN resource.dir ELSE Named(resource.desired[PathFields[i]].from).dir

ValuesOf(resource) == [f \in DOMAIN resource.desired |-> resource.desired[f].value]

Invalid(ref, resource) ==
  Schema!Problems(TypeOf[ref], ValuesOf(resource))
    \cup (IF <<>> \in {resource.deps["restartOn"], resource.deps["reloadOn"]} THEN {} ELSE {"both reactions"})

-----------------------------------------------------------------------------

Begin(found, name) ==
  /\ set' = found /\ host' = FindHost(found.hosts, name)
  /\ stage' = IF host' = NoHost THEN "refused" ELSE "match"
  /\ todo' = {} /\ merged' = <<>> /\ problems' = {}

MatchLayers ==
  /\ stage = "match"
  /\ todo' = Contributions
  /\ stage' = "fold"
  /\ UNCHANGED <<set, host, merged, problems>>

\* One resource of one layer; the layers go by precedence.
FoldResource ==
  /\ stage = "fold" /\ todo # {}
  /\ LET next == CHOOSE c \in todo : \A d \in todo : Precedes(c, d)
         layer == set.layers[next[1]]
         resource == set.resources[next[2]]
         ref == resource.ref
         new == Stamp(resource, layer)
         seen == ref \in DOMAIN merged
     IN  /\ todo' = todo \ {next}
         /\ merged' = [r \in DOMAIN merged \cup {ref} |->
                         CASE r # ref -> merged[r]
                           [] r = ref /\ seen -> Merge(merged[r], new, layer)
                           [] OTHER -> new]
         /\ problems' = problems
              \cup {[what |-> "undeclared label", ref |-> ref] :
                      f \in {f \in DOMAIN resource.desired : Undeclared(resource.desired[f])}}
              \cup {[what |-> "conflict", ref |-> ref] :
                      f \in {f \in DOMAIN resource.desired : seen /\ f \in Conflicts(merged[ref], new, layer)}}
  /\ UNCHANGED <<set, host, stage>>

CheckManifest ==
  /\ stage = "fold" /\ todo = {}
  /\ merged' = [r \in DOMAIN merged |->
                  [desired |-> merged[r].desired, deps |-> merged[r].deps, dir |-> SourceLayerDir(merged[r])]]
  /\ problems' = problems \cup UNION {{[what |-> p, ref |-> r] : p \in Invalid(r, merged[r])} : r \in DOMAIN merged}
  /\ stage' = IF problems' = {} THEN "resolved" ELSE "refused"
  /\ UNCHANGED <<set, host, todo>>

Next == MatchLayers \/ FoldResource \/ CheckManifest
=============================================================================

------------------------------ MODULE Affected ------------------------------
(***************************************************************************)
(* Either a pass, as far as Compile takes it, or datum affected            *)
(* (cmd/datum/affected.go): every host of the fleet is resolved at two     *)
(* revisions, and the digests of a host's two manifests say whether it is  *)
(* affected.                                                               *)
(***************************************************************************)
EXTENDS Compile

VARIABLES
  purpose,    \* "pass" or "affected"
  later,      \* the repository at the second revision
  left,       \* the host names still to resolve at this revision
  snapshots   \* the manifests of each host at the revisions that are done

reporting == <<purpose, later, left, snapshots>>

-----------------------------------------------------------------------------
(* Digest, canonical: what two manifests are compared by.                  *)

Field(resource, f) == resource.desired[f].value
DigestAsFound(manifests) ==           \* defect: the order in which layers mentioned a dependency counts
  [r \in DOMAIN manifests |->
     [desired |-> Resolution!ValuesOf(manifests[r]), deps |-> manifests[r].deps]]
Digest(manifests) ==
  [r \in DOMAIN manifests |->
     [desired |-> Resolution!ValuesOf(manifests[r]),
      deps    |-> [k \in EdgeKinds |->
                     Discovery!InOrder(Discovery!ToSet(manifests[r].deps[k]), <)]]]

-----------------------------------------------------------------------------
(* Resolving every host of a revision.                                     *)

HostNames(found) == [i \in DOMAIN found.hosts |-> found.hosts[i].name]

WalkRevision ==
  /\ stage = "walk"
  /\ IF Discovery!Fails(repo)
       THEN Refuse /\ UNCHANGED <<left, snapshots>>
       ELSE /\ set' = Discovery!Walk(repo)
            /\ left' = HostNames(set')
            /\ snapshots' = Append(snapshots, <<>>)
            /\ stage' = "next"
            /\ UNCHANGED <<host, todo, merged, problems>>
  /\ UNCHANGED <<vars, repo, machine, providers, purpose, later>>

NextHost ==
  /\ stage = "next" /\ left # <<>>
  /\ Resolution!Begin(set, Head(left))
  /\ UNCHANGED <<vars, repo, machine, providers, reporting>>

\* m.manifests[host] = manifest.
Keeping(manifests) ==
  [h \in DOMAIN manifests \cup {host.name} |-> IF h = host.name THEN merged ELSE manifests[h]]

KeepManifest ==
  /\ stage = "resolved"
  /\ snapshots' = [snapshots EXCEPT ![Len(snapshots)] = Keeping(@)]
  /\ left' = Tail(left)
  /\ stage' = "next"
  /\ UNCHANGED <<vars, repo, machine, providers, set, host, todo, merged, problems, purpose, later>>

\* The worktree of the one revision goes and that of the other comes.
NextRevision ==
  /\ stage = "next" /\ left = <<>>
  /\ IF Len(snapshots) = 1 THEN repo' = later /\ stage' = "walk" ELSE stage' = "reported" /\ UNCHANGED repo
  /\ UNCHANGED <<vars, machine, providers, set, host, todo, merged, problems, reporting>>

-----------------------------------------------------------------------------

Begins(c) ==
  /\ CompileInit
  /\ repo = c.repo /\ later = c.later /\ machine = c.machine /\ purpose = c.purpose
  /\ left = <<>> /\ snapshots = <<>>

AffectedInit == \E c \in Cases : Begins(c)

AffectedNext ==
  \/ purpose = "pass" /\ CompileNext /\ UNCHANGED reporting
  \/ /\ purpose = "affected"
     /\ WalkRevision \/ NextHost \/ KeepManifest \/ NextRevision \/ (ResolveStep /\ UNCHANGED reporting)

AffectedSpec == AffectedInit /\ [][AffectedNext]_<<compilation, reporting>>

-----------------------------------------------------------------------------
(* The report.                                                             *)

Earlier == snapshots[1]
Later == snapshots[2]

Verdict(h) ==
  CASE h \notin DOMAIN Earlier -> "added"
    [] h \notin DOMAIN Later -> "removed"
    [] h \in DOMAIN Earlier \cap DOMAIN Later /\ Digest(Earlier[h]) # Digest(Later[h]) -> "changed"
    [] OTHER -> "unchanged"

\* --show-resources: who has a line, for coming, for going or for a field that differs.
DiffFields(old, new) ==
  {f \in DOMAIN old.desired \cup DOMAIN new.desired :
     \/ f \notin DOMAIN old.desired \cap DOMAIN new.desired
     \/ Field(old, f) # Field(new, f)}
DiffManifests(old, new) ==
  {r \in DOMAIN old \cup DOMAIN new :
     r \notin DOMAIN old \cap DOMAIN new \/ DiffFields(old[r], new[r]) # {}}

-----------------------------------------------------------------------------

\* What a manifest tells an agent to do, whoever said it and in whatever order.
Told(manifests) ==
  [r \in DOMAIN manifests |->
     <<Resolution!ValuesOf(manifests[r]), [k \in EdgeKinds |-> Discovery!ToSet(manifests[r].deps[k])]>>]

(* Every host of a revision has a manifest, and a host is unchanged when   *)
(* and only when both revisions tell it the same, however the fleet was    *)
(* rearranged; one that changed has a line to say so, or waits for other   *)
(* things than before (affected.go:110-160, resolve.go:60-104).            *)
VerdictsAreOfTheInstructions ==
  /\ stage = "next" /\ left = <<>> =>
       DOMAIN snapshots[Len(snapshots)] = {d.name : d \in {d \in repo.hosts : Ours(d)}}
  /\ stage = "reported" =>
       \A h \in DOMAIN Earlier \cap DOMAIN Later :
         /\ Verdict(h) = "unchanged" <=> Told(Earlier[h]) = Told(Later[h])
         /\ Verdict(h) = "changed" /\ DiffManifests(Earlier[h], Later[h]) = {} =>
              \E r \in DOMAIN Later[h] : \E k \in EdgeKinds :
                Told(Earlier[h])[r][2][k] # Told(Later[h])[r][2][k]
=============================================================================

------------------------------- MODULE Source -------------------------------
(***************************************************************************)
(* source.Select: fetch into the clone in the state directory, choose a    *)
(* revision, refuse one that does not follow the accepted revision, write  *)
(* its tree, and fall back to the accepted revision when any of it fails.  *)
(*                                                                         *)
(* The clone, the tree and the accepted revision are files all the agents  *)
(* of a host share.  Nothing here takes a lock: module Agent does.         *)
(***************************************************************************)
EXTENDS History, Integers, FiniteSets

CONSTANTS
  Agents,     \* processes that select revisions
  Settings,   \* trust settings and repositories to run against
  Remotes,    \* what the remote may hold at first
  None, Torn, \* no revision; bytes that are not one
  MaxMoves,   \* bound on what people do to the remote and the pointer
  MaxFaults   \* bound on what fails

Setting == [require    : {"none", "signed-commit", "signed-tag"},
            descendant : BOOLEAN,          \* trust.requireDescendant
            trusted    : SUBSET Commits,   \* signed, itself or by its tag, by a trusted key
            resolves   : SUBSET Commits]   \* loads, resolves and validates for this host

ASSUME NamesAssumption == None \notin Commits /\ Torn \notin Commits /\ None # Torn
ASSUME SettingsAssumption ==
  /\ Settings \subseteq Setting
  /\ Remotes \subseteq [tip : Commits, tags : SUBSET Commits]
ASSUME BoundsAssumption == MaxMoves \in Nat /\ MaxFaults \in Nat

VARIABLES
  setting,   \* fixed for the behaviour
  remote,    \* the tracked branch and the annotated tags, by the commit they name
  clone,     \* the clone: how far it was made, its refs and its objects
  accepted,  \* the file accepted-revision
  tree,      \* the revision the tree directory holds, None while it is incomplete
  stage,     \* where each agent is
  sel,       \* the Selection of each agent's pass
  moves, faults

sourceVars == <<setting, remote, clone, accepted, tree, stage, sel, moves, faults>>

Blank == [accepted |-> None, revision |-> None, cause |-> "none"]

\* What the configured rule accepts as signed.
Vouched == IF setting.require = "none" THEN Commits ELSE setting.trusted

NoClone == [made |-> "no", tip |-> None, tags |-> {}, has |-> {}]

\* A clone killed before it finished: it exists, and nothing says what to
\* fetch into origin/, so no later fetch gives it a branch.
HalfClone == [NoClone EXCEPT !.made = "half"]

Fault == faults < MaxFaults /\ faults' = faults + 1
NoFault == UNCHANGED faults

Goto(p, s) == stage' = [stage EXCEPT ![p] = s]

-----------------------------------------------------------------------------
(* Choosing.                                                               *)

\* signedTag: candidates among the tags, bounded by the accepted revision.
TagsAnywhere(held) ==                           \* defect: tags off the branch are candidates
  {t \in clone.tags \cap setting.trusted : held # None => held \in clone.has /\ IsAncestor(held, t)}
TagCandidates(held) ==
  {t \in clone.tags \cap setting.trusted :
     /\ IsAncestor(t, clone.tip)
     /\ held # None => held \in clone.has /\ IsAncestor(held, t)}

\* candidate: the revision this host would apply, before the ordering check.
\* signedTag reads the accepted revision again.
CandidateUnverified(held) ==                    \* defect: a commit's signature is not checked
  IF setting.require = "signed-tag" THEN Newest(TagCandidates(held)) ELSE {clone.tip} \ {None}
Candidate(held) ==
  CASE setting.require = "none"          -> {clone.tip} \ {None}
    [] setting.require = "signed-commit" -> {clone.tip} \cap setting.trusted
    [] setting.require = "signed-tag"    -> Newest(TagCandidates(held))

\* checkCurrent.
CurrentIfMissing(c, held) ==                    \* defect: a missing baseline is first contact
  \/ held = None \/ ~setting.descendant
  \/ held \notin clone.has \/ IsAncestor(held, c)
Current(c, held) ==
  \/ held = None \/ ~setting.descendant
  \/ held \in clone.has /\ IsAncestor(held, c)

-----------------------------------------------------------------------------
(* The steps of Select.                                                    *)

\* fallback: the accepted revision is reconciled again, if there is one.
FallBack(p, cause) ==
  IF sel[p].accepted = None
    THEN Goto(p, "error") /\ UNCHANGED sel
    ELSE /\ sel' = [sel EXCEPT ![p].revision = sel[p].accepted, ![p].cause = cause]
         /\ Goto(p, "replace")

ReadPointer(p) ==
  /\ stage[p] = "select"
  /\ IF accepted = Torn
       THEN Goto(p, "error") /\ UNCHANGED sel
       ELSE Goto(p, "clone") /\ sel' = [sel EXCEPT ![p] = [Blank EXCEPT !.accepted = accepted]]
  /\ NoFault
  /\ UNCHANGED <<setting, remote, clone, accepted, tree, moves>>

\* What the clone may hold after git clone or git fetch went through, which
\* may have collected what no ref leads to any more.
Fetched ==
  LET led == Reachable({remote.tip} \cup remote.tags)
  IN  [made : {clone.made},
       tip  : {IF clone.made = "half" THEN None ELSE remote.tip},
       tags : {remote.tags},
       has  : {led, clone.has \cup led}]

\* EnsureClone.  A clone that exits with an error is removed, one that is
\* killed at the timeout is not.
EnsureClone(p) ==
  /\ stage[p] = "clone"
  /\ \/ /\ clone.made # "no"
        /\ Goto(p, "fetch") /\ NoFault
        /\ UNCHANGED <<clone, sel>>
     \/ /\ clone.made = "no"
        /\ \E c \in Fetched : clone' = [c EXCEPT !.made = "whole"]
        /\ Goto(p, "fetch") /\ NoFault
        /\ UNCHANGED sel
     \/ /\ clone.made = "no"
        /\ clone' \in {NoClone, HalfClone}
        /\ FallBack(p, "source") /\ Fault
  /\ UNCHANGED <<setting, remote, accepted, tree, moves>>

\* Fetch and RequireCompleteHistory.  CheckSize refuses what was fetched.
Fetch(p) ==
  /\ stage[p] = "fetch"
  /\ \/ /\ clone' \in Fetched
        /\ Goto(p, "choose") /\ NoFault
        /\ UNCHANGED sel
     \/ /\ clone' \in Fetched \cup {clone}
        /\ FallBack(p, "source") /\ Fault
  /\ UNCHANGED <<setting, remote, accepted, tree, moves>>

Choose(p) ==
  /\ stage[p] = "choose"
  /\ LET chosen == {c \in Candidate(accepted) : Current(c, sel[p].accepted)}
     IN  \/ /\ \E c \in chosen : sel' = [sel EXCEPT ![p].revision = c]
            /\ Goto(p, "replace") /\ NoFault
         \/ /\ chosen = {}
            /\ FallBack(p, "refused") /\ NoFault
         \/ FallBack(p, "source") /\ Fault
  /\ UNCHANGED <<setting, remote, clone, accepted, tree, moves>>

\* materialise, first half: the old tree is removed.
Replace(p) ==
  /\ stage[p] = "replace"
  /\ tree' = None
  /\ Goto(p, "checkout") /\ NoFault
  /\ UNCHANGED <<setting, remote, clone, accepted, sel, moves>>

\* materialise, second half.  When the fallback cannot be written either,
\* there is nothing to reconcile.
Checkout(p) ==
  /\ stage[p] = "checkout"
  /\ \/ /\ sel[p].revision \in clone.has
        /\ tree' = sel[p].revision
        /\ Goto(p, "selected") /\ NoFault
        /\ UNCHANGED sel
     \/ /\ IF sel[p].revision \in clone.has THEN Fault ELSE NoFault
        /\ tree' = None
        /\ IF sel[p].cause = "none"
             THEN FallBack(p, "source")
             ELSE Goto(p, "error") /\ UNCHANGED sel
  /\ UNCHANGED <<setting, remote, clone, accepted, moves>>

Select(p) == \/ ReadPointer(p)
             \/ EnsureClone(p)
             \/ Fetch(p)
             \/ Choose(p)
             \/ Replace(p)
             \/ Checkout(p)

-----------------------------------------------------------------------------
(* What people do meanwhile.                                               *)

\* Someone pushes, possibly rewriting the branch, or tags or untags a commit.
Push ==
  /\ moves < MaxMoves
  /\ moves' = moves + 1
  /\ \/ \E c \in Commits \ {remote.tip} : remote' = [remote EXCEPT !.tip = c]
     \/ /\ setting.require = "signed-tag"
        /\ \E c \in Commits :
             remote' = [remote EXCEPT !.tags = IF c \in @ THEN @ \ {c} ELSE @ \cup {c}]
  /\ UNCHANGED <<setting, clone, accepted, tree, stage, sel, faults>>

\* datum revision clear --yes, which takes no lock.
Clear ==
  /\ moves < MaxMoves
  /\ moves' = moves + 1
  /\ accepted # None
  /\ accepted' = None
  /\ UNCHANGED <<setting, remote, clone, tree, stage, sel, faults>>

SourceInit ==
  /\ setting \in Settings
  /\ remote \in Remotes
  /\ clone = NoClone
  /\ accepted \in {None} \cup (Vouched \cap setting.resolves)   \* or a provisioned baseline
  /\ tree = None
  /\ stage = [p \in Agents |-> "sleep"]
  /\ sel = [p \in Agents |-> Blank]
  /\ moves = 0 /\ faults = 0
=============================================================================

-------------------------------- MODULE Agent --------------------------------
(***************************************************************************)
(* datum agent: runOnce and the fetching pass it runs, over module Source, *)
(* under the pass lock, next to datum reconcile commands that take the     *)
(* same lock, operators who clear the accepted revision without it, and    *)
(* crashes.  More than one agent may have been started on a host.          *)
(*                                                                         *)
(* The clock, and what runOnce records of a pass, are module Loop; here a  *)
(* tick may come at any time.                                              *)
(***************************************************************************)
EXTENDS Source

CONSTANTS
  Reconciles,  \* datum reconcile commands, each run at most once
  Nobody

Processes == Agents \cup Reconciles

ASSUME ProcessesAssumption == Nobody \notin Processes /\ Agents \cap Reconciles = {}

VARIABLES
  lock,      \* the holder of the flock on pass.lock
  temp,      \* the file accepted-revision.tmp
  planned,   \* the revision each agent's plan was built from
  command    \* where each datum reconcile is

vars == <<setting, remote, clone, accepted, tree, stage, sel, moves, faults,
          lock, temp, planned, command>>

Revision == Commits \cup {None}
Stages == {"sleep", "select", "clone", "fetch", "choose", "replace", "checkout", "selected",
           "accept", "publish", "apply", "hung", "error", "down"}
Causes == {"none", "source", "refused"}

TypeOK ==
  /\ setting \in Settings
  /\ remote \in [tip : Commits, tags : SUBSET Commits]
  /\ clone \in [made : {"no", "half", "whole"}, tip : Revision, tags : SUBSET Commits,
                has : SUBSET Commits]
  /\ accepted \in Revision \cup {Torn} /\ temp \in Revision \cup {Torn}
  /\ tree \in Revision
  /\ stage \in [Agents -> Stages]
  /\ sel \in [Agents -> [accepted : Revision, revision : Revision, cause : Causes]]
  /\ moves \in 0..MaxMoves /\ faults \in 0..MaxFaults
  /\ lock \in Processes \cup {Nobody}
  /\ planned \in [Agents -> Revision]
  /\ command \in [Reconciles -> {"out", "waiting", "in", "done"}]

Init ==
  /\ SourceInit
  /\ lock = Nobody /\ temp = None
  /\ planned = [p \in Agents |-> None]
  /\ command = [c \in Reconciles |-> "out"]

-----------------------------------------------------------------------------
\* runOnce returns, and releases the lock however the pass went.
EndHoldingTheLock(p) ==                \* defect: an error path misses the release
  /\ Goto(p, "sleep")
  /\ sel' = [sel EXCEPT ![p] = Blank]
  /\ planned' = [planned EXCEPT ![p] = None]
  /\ lock' = IF stage[p] = "error" THEN lock ELSE Nobody
End(p) ==
  /\ Goto(p, "sleep")
  /\ sel' = [sel EXCEPT ![p] = Blank]
  /\ planned' = [planned EXCEPT ![p] = None]
  /\ lock' = Nobody

-----------------------------------------------------------------------------
(* One pass of an agent.                                                   *)

\* A process takes the lock if nobody holds it; the flock is of the kernel.
TakeIfNotSelf(p) == lock # p /\ lock' = p       \* defect: the flock does not exclude
Take(p) == lock = Nobody /\ lock' = p

\* The tick.  A lock held by another process skips it, and so does an error
\* taking it.
Tick(p) ==
  /\ stage[p] = "sleep"
  /\ \/ /\ Take(p)
        /\ Goto(p, "select") /\ NoFault
     \/ /\ Fault
        /\ UNCHANGED <<stage, lock>>
  /\ UNCHANGED <<setting, remote, clone, accepted, tree, sel, moves, temp, planned, command>>

SelectStep(p) == Select(p) /\ UNCHANGED <<lock, temp, planned, command>>

\* Select gave up: there is nothing to reconcile.
SelectFailed(p) ==
  /\ stage[p] = "error"
  /\ End(p) /\ NoFault
  /\ UNCHANGED <<setting, remote, clone, accepted, tree, moves, temp, command>>

\* runPassIn: the tree is loaded, resolved, observed and planned.
Resolve(p) ==
  /\ stage[p] = "selected"
  /\ \/ /\ tree \in setting.resolves
        /\ planned' = [planned EXCEPT ![p] = tree]
        /\ Goto(p, "accept") /\ NoFault
        /\ UNCHANGED <<sel, lock>>
     \/ /\ End(p)
        /\ IF tree \in setting.resolves THEN Fault ELSE NoFault
  /\ UNCHANGED <<setting, remote, clone, accepted, tree, moves, temp, command>>

\* Whether the pass has a revision to accept.
NewOnlyAfterFirst(p) ==                         \* defect: a first contact is not recorded
  sel[p].cause = "none" /\ sel[p].accepted # None /\ sel[p].revision # sel[p].accepted
New(p) == sel[p].cause = "none" /\ sel[p].revision # sel[p].accepted

\* Where writing a file leads: an error is logged and the pass goes on.
WrittenRegardless(ok) == "publish"              \* defect: a short write is renamed into place
Written(ok) == IF ok THEN "publish" ELSE "apply"

\* Accept, first half: the temporary file is written.
WriteTemp(p) ==
  /\ stage[p] = "accept"
  /\ \/ /\ ~New(p)
        /\ Goto(p, "apply") /\ NoFault
        /\ UNCHANGED temp
     \/ /\ New(p)
        /\ temp' = sel[p].revision
        /\ Goto(p, Written(TRUE)) /\ NoFault
     \/ /\ New(p)
        /\ temp' = Torn
        /\ Goto(p, Written(FALSE)) /\ Fault
  /\ UNCHANGED <<setting, remote, clone, accepted, tree, sel, moves, lock, planned, command>>

\* Accept, second half: it is renamed into place, or removed.
Publish(p) ==
  /\ stage[p] = "publish"
  /\ \/ accepted' = temp /\ NoFault
     \/ UNCHANGED accepted /\ Fault
  /\ temp' = None
  /\ Goto(p, "apply")
  /\ UNCHANGED <<setting, remote, clone, tree, sel, moves, lock, planned, command>>

\* applyAndReport, from the first action to the last verification.  Whether
\* resources failed or not is module Pass.
Apply(p) ==
  /\ stage[p] = "apply"
  /\ \/ /\ End(p) /\ NoFault
     \/ /\ Goto(p, "hung") /\ Fault
        /\ UNCHANGED <<sel, lock, planned>>
  /\ UNCHANGED <<setting, remote, clone, accepted, tree, moves, temp, command>>

\* The pass timeout ends a pass that would not end, the fallback included.
Timeout(p) ==
  /\ \/ stage[p] = "hung" /\ End(p) /\ NoFault /\ UNCHANGED tree
     \/ stage[p] \in {"clone", "fetch", "choose", "selected"} /\ End(p) /\ Fault
          /\ tree' = IF sel[p].accepted = None \/ stage[p] = "selected" THEN tree ELSE None
     \/ stage[p] \in {"replace", "checkout"} /\ End(p) /\ Fault /\ tree' = None
  /\ clone' \in IF stage[p] = "clone" /\ clone.made = "no" THEN {NoClone, HalfClone} ELSE {clone}
  /\ UNCHANGED <<setting, remote, accepted, moves, temp, command>>

\* The process stops or is killed, and the kernel releases what it held.
Crash(p) ==
  /\ stage[p] \notin {"down", "sleep"}
  /\ Goto(p, "down")
  /\ sel' = [sel EXCEPT ![p] = Blank]
  /\ planned' = [planned EXCEPT ![p] = None]
  /\ lock' = Nobody
  /\ Fault
  /\ clone' \in IF stage[p] = "clone" /\ clone.made = "no" THEN {NoClone, HalfClone} ELSE {clone}
  /\ temp' \in IF stage[p] = "accept" /\ New(p) THEN {temp, Torn} ELSE {temp}
  /\ UNCHANGED <<setting, remote, accepted, tree, moves, command>>

Restart(p) ==
  /\ stage[p] = "down"
  /\ Goto(p, "sleep") /\ NoFault
  /\ UNCHANGED <<setting, remote, clone, accepted, tree, sel, moves, lock, temp, planned, command>>

-----------------------------------------------------------------------------
(* datum reconcile: a pass over a checkout of its own.  It is refused at   *)
(* once while the lock is held, unless it was told to wait.                *)

Reconcile(c) ==
  /\ command[c] \in {"out", "waiting"}
  /\ \/ /\ Take(c)
        /\ command' = [command EXCEPT ![c] = "in"]
     \/ /\ command[c] = "out" /\ lock # Nobody
        /\ \E s \in {"waiting", "done"} : command' = [command EXCEPT ![c] = s]
        /\ UNCHANGED lock
  /\ UNCHANGED <<sourceVars, temp, planned>>

\* It ends, or an operator interrupts it.
ReconcileEnds(c) ==
  /\ command[c] = "in"
  /\ command' = [command EXCEPT ![c] = "done"]
  /\ lock' = Nobody
  /\ UNCHANGED <<sourceVars, temp, planned>>

-----------------------------------------------------------------------------

AgentStep(p) == \/ Tick(p)
                \/ SelectStep(p)
                \/ SelectFailed(p)
                \/ Resolve(p)
                \/ WriteTemp(p)
                \/ Publish(p)
                \/ Apply(p)
                \/ Timeout(p)
                \/ Restart(p)

CommandStep(c) == Reconcile(c) \/ ReconcileEnds(c)

People == (Push \/ Clear) /\ UNCHANGED <<lock, temp, planned, command>>

Next == \/ \E p \in Agents : AgentStep(p) \/ Crash(p)
        \/ \E c \in Reconciles : CommandStep(c)
        \/ People

Spec == Init /\ [][Next]_vars

\* Agents are scheduled, restarted and bounded by the pass timeout; an
\* operator's pass ends or the operator ends it.
FairSpec == /\ Spec
            /\ \A p \in Agents : WF_vars(AgentStep(p))
            /\ \A c \in Reconciles : WF_vars(ReconcileEnds(c))

-----------------------------------------------------------------------------
(* Properties.                                                             *)

Vetted == Vouched \cap setting.resolves

\* A pass whose plan is made and that still reads the tree.
Applying(p) == stage[p] \in {"accept", "publish", "apply", "hung"}

(* While a pass applies, the tree directory holds the revision it selected *)
(* and planned from, so the content it writes is of that revision whoever  *)
(* else runs on the host (source.go:309-320, agent.go:159-172).            *)
TreeIsPlanned ==
  \A p \in Agents : Applying(p) => tree = planned[p] /\ planned[p] = sel[p].revision

(* Nothing is applied that no configured rule vouches for and, under the   *)
(* descendant requirement, nothing older than or beside what the host has  *)
(* accepted, be it chosen or fallen back to (last-known-good.md:86-98).    *)
AppliesNothingOlder ==
  \A p \in Agents : Applying(p) =>
    /\ planned[p] \in Vetted
    /\ setting.descendant /\ accepted # None => IsAncestor(accepted, planned[p])

(* A pass that has not ended holds the lock, and no other process is       *)
(* between observing and verifying meanwhile (locking.md:41-51).           *)
OnePassAtATime ==
  /\ \A p \in Agents : stage[p] \notin {"sleep", "down"} => lock = p
  /\ \A c \in Reconciles : command[c] = "in" => lock = c

(* However passes hang, fail or die, the lock is free again and again, so  *)
(* the host is not left converged and quiet (agent.go:177-178).            *)
LockIsReleased == []<>(lock = Nobody)

\* The revision the rules pick from what the remote holds, when it is usable.
Due(c) ==
  /\ c \in setting.resolves
  /\ clone.made # "half"
  /\ IF setting.require = "signed-tag"
       THEN /\ Newest({t \in remote.tags \cap setting.trusted : IsAncestor(t, remote.tip)}) = {c}
            /\ accepted # None => IsAncestor(accepted, c)
       ELSE /\ remote.tip = c /\ c \in Vouched
            /\ setting.descendant /\ accepted # None => IsAncestor(accepted, c)

(* Once the remote offers a usable revision and keeps offering it, a host  *)
(* accepts it and stays there, whatever failed or crashed before.          *)
EventuallyCurrent ==
  <>[](\E c \in Commits : Due(c)) => <>[](\E c \in Commits : Due(c) /\ accepted = c)

\* The accepted revision, seen as a ratchet.
Ratchet == INSTANCE Ratchet WITH
  vetted <- Vetted, ordered <- setting.descendant, pointer <- accepted

(* Selecting, falling back, writing and renaming the pointer file, crashes *)
(* in between and clears at any time amount to the ratchet: only vetted    *)
(* revisions, never backwards unless an operator made the host forget      *)
(* (revision.go:9-11).                                                     *)
KeepsRatchet == Ratchet!Spec

-----------------------------------------------------------------------------
(* What the documentation says and the code does not do.                   *)

(* "When a newer revision fails to resolve, the agent reports the failure  *)
(* and keeps reconciling that accepted revision"                           *)
(* (docs/reconciliation/last-known-good.md:61-62).                         *)
KeepsLastKnownGood ==
  [][\A p \in Agents : stage[p] = "selected" /\ stage'[p] = "sleep" => sel[p].accepted = None]_vars

(* "Removed so a half-made clone is not mistaken for a usable one on the   *)
(* next pass, which would then fetch into it" (internal/git/git.go:183).   *)
NoFetchIntoHalfAClone == \A p \in Agents : stage[p] = "fetch" => clone.made # "half"
=============================================================================

-------------------------------- MODULE Pass --------------------------------
(***************************************************************************)
(* Reconciliation passes over one host: observe.Host, plan.Build,          *)
(* reconcile.Apply with enforce, verify and block, and the outcome.        *)
(*                                                                         *)
(* Resource i is the i-th of graph.Order(), so an edge always leads from a *)
(* smaller number to a larger one: module Graph shows the order does that, *)
(* and that every target has one owner.  A pass reads every target, plans  *)
(* from what it read and then changes the host one resource at a time, all *)
(* of it against a host others change too.                                 *)
(*                                                                         *)
(* A target is "gone", "wrong" (a correctable field differs), "odd" (only  *)
(* fields the provider never corrects differ) or "right".                  *)
(***************************************************************************)
EXTENDS Integers, FiniteSets

CONSTANTS
  N,         \* resources in the manifest
  Worlds,    \* manifests, provider sets and modes to reconcile
  MaxFaults  \* bound on drift, failures and abandoned passes together

Resources == 1..N
EdgeKinds == {"requires", "restartOn", "reloadOn"}
Edge == [from : Resources, to : Resources, kind : EdgeKinds]
Targets == {"gone", "wrong", "odd", "right"}

World == [edges  : SUBSET Edge,
          wanted : [Resources -> {"present", "absent"}],
          served : [Resources -> BOOLEAN],    \* a provider serves the type
          mode   : {"enforce", "observe"}]

ASSUME NAssumption == N \in Nat \ {0}
ASSUME FaultsAssumption == MaxFaults \in Nat
ASSUME WorldsAssumption ==
  /\ Worlds \subseteq World
  /\ \A w \in Worlds : \A e \in w.edges : e.from < e.to

VARIABLES
  world,    \* what is reconciled, fixed for the behaviour
  host,     \* what every target really holds
  phase,    \* where the pass is
  at,       \* the resource the current loop has reached
  seen,     \* observe.State: what each target held when it was read
  step,     \* plan.Plan: the action, the trigger and the error of each step
  verdict,  \* the state each resource is reported with
  failed,   \* resources reported with an error, r.Err # nil
  blocked,  \* the keys of Apply's blocked map
  applied,  \* Apply's applied flag
  outcome,  \* the outcome of the last pass that reported, "none" otherwise
  faults    \* how many faults have happened

(* History: none of these is read by a guard of the code.                  *)
VARIABLES
  touched,  \* resources whose provider was asked to change them this pass
  owed,     \* triggering edges whose source changed and whose target has
            \* not been restarted or reloaded since
  stale,    \* resources that drifted since the pass last read them
  calm,     \* no fault since this pass began
  settled   \* the previous pass ended well and no fault has happened since it began

vars == <<world, host, phase, at, seen, step, verdict, failed, blocked,
          applied, outcome, faults, touched, owed, stale, calm, settled>>

Actions == {"none", "create", "update", "remove", "skip"}
Step == [action : Actions, trigger : BOOLEAN, err : BOOLEAN]
Verdicts == {"waiting", "converged", "drifted", "failed", "blocked", "skipped"}
Outcomes == {"none", "converged", "changed", "drifted", "failed"}

NoStep == [action |-> "none", trigger |-> FALSE, err |-> FALSE]

StateShape ==
  /\ world \in Worlds
  /\ host \in [Resources -> Targets]
  /\ phase \in {"idle", "observe", "plan", "apply", "verify"}
  /\ at \in 1..(N + 1)
  /\ phase \in {"observe", "plan", "verify"} => at <= N
  /\ seen \in [Resources -> Targets \cup {"unread", "unserved", "error"}]
  /\ step \in [Resources -> Step]
  /\ verdict \in [Resources -> Verdicts]
  /\ failed \subseteq Resources
  /\ blocked \subseteq Resources
  /\ outcome \in Outcomes
  /\ faults \in 0..MaxFaults
  /\ touched \subseteq Resources
  /\ owed \subseteq world.edges
  /\ stale \subseteq Resources

Flags ==
  /\ applied \in BOOLEAN
  /\ calm \in BOOLEAN
  /\ settled \in BOOLEAN

TypeOK == StateShape /\ Flags

-----------------------------------------------------------------------------
(* The graph.                                                              *)

Edges == world.edges
Triggers(e) == e.kind \in {"restartOn", "reloadOn"}
Successors(r) == {e.to : e \in {f \in Edges : f.from = r}}

\* What a search from r finds that enters nothing in the visited set.
Reached(r, visited) ==
  LET closed == {S \in SUBSET Resources :
                   /\ Successors(r) \ visited \subseteq S
                   /\ \A q \in S : Successors(q) \ visited \subseteq S}
  IN  {q \in Resources : \A S \in closed : q \in S}

\* Everything that waits on r, at any distance.
Downstream(r) == Reached(r, {})

\* block: everything downstream that is not blocked already.
BlockNeighbours(r, B) == B \cup Successors(r)   \* defect: only direct dependents
Block(r, B) == B \cup Reached(r, B)

-----------------------------------------------------------------------------
(* plan.Build.                                                             *)

Exists(t) == t # "gone"
Changes(a) == a \in {"create", "update", "remove"}

\* decide: the action for a target that was read, from what was declared.
DecideIgnoringAbsence(wanted, t) ==             \* defect: absent and gone is removed again
  IF wanted = "present"
    THEN IF ~Exists(t) THEN "create" ELSE IF t = "right" THEN "none" ELSE "update"
    ELSE "remove"
Decide(wanted, t) ==
  IF wanted = "present"
    THEN IF ~Exists(t) THEN "create" ELSE IF t = "right" THEN "none" ELSE "update"
    ELSE IF Exists(t) THEN "remove" ELSE "none"

\* firedTriggers: dependencies r reacts to that this plan changes.
FiredByFirstEdge(r) ==                          \* defect: looks at one edge alone
  {e \in Edges : /\ e.to = r /\ Triggers(e) /\ Changes(step[e.from].action)
                 /\ \A f \in Edges : f.to = r => e.from <= f.from}
Fired(r) == {e \in Edges : e.to = r /\ Triggers(e) /\ Changes(step[e.from].action)}

\* One iteration of Build's loop: the step of the resource it has reached.
Planned(r) ==
  LET unread == seen[r] = "error"
      own == IF seen[r] = "unserved" THEN "skip"
             ELSE IF unread THEN "none" ELSE Decide(world.wanted[r], seen[r])
      fired == Fired(r) # {}
  IN  [action  |-> IF fired /\ own = "none" THEN "update" ELSE own,
       trigger |-> fired,
       err     |-> unread]

-----------------------------------------------------------------------------
(* Verification and outcome.                                               *)

\* The state a verified target is reported with, and whether that is an error.
VerifyByExistence(wanted, t) ==                 \* defect: fields are not read back
  IF (wanted = "present") # Exists(t) THEN [state |-> "drifted", err |-> TRUE]
  ELSE [state |-> "converged", err |-> FALSE]
Verify(wanted, t) ==
  IF (wanted = "present") # Exists(t) THEN [state |-> "drifted", err |-> TRUE]
  ELSE IF t = "wrong" THEN [state |-> "drifted", err |-> TRUE]
  ELSE IF t = "odd" THEN [state |-> "drifted", err |-> FALSE]
  ELSE [state |-> "converged", err |-> FALSE]

\* The target holds what was declared, as far as the provider corrects it.
Holds(wanted, t) == IF wanted = "present" THEN t \in {"right", "odd"} ELSE t = "gone"

OutcomeActedFirst(states, errs, acted) ==       \* defect: acting outranks failing
  IF acted THEN "changed"
  ELSE IF \E r \in Resources : states[r] \in {"failed", "blocked"} \/ r \in errs THEN "failed"
  ELSE IF \E r \in Resources : states[r] = "drifted" THEN "drifted"
  ELSE "converged"
OutcomeOf(states, errs, acted) ==
  IF \E r \in Resources : states[r] \in {"failed", "blocked"} \/ r \in errs THEN "failed"
  ELSE IF \E r \in Resources : states[r] = "drifted" THEN "drifted"
  ELSE IF acted THEN "changed"
  ELSE "converged"

\* state.HostFrom: failure outweighs a gap in coverage, which outweighs drift.
HostState(states) ==
  IF \E r \in Resources : states[r] \in {"failed", "blocked"} THEN "failed"
  ELSE IF \E r \in Resources : states[r] = "skipped" THEN "degraded"
  ELSE IF \E r \in Resources : states[r] = "drifted" THEN "drifted"
  ELSE "converged"

-----------------------------------------------------------------------------
(* The pass.                                                               *)

Init ==
  /\ world \in Worlds
  /\ host \in {h \in [Resources -> Targets] :
                 \A r \in Resources : world.wanted[r] = "absent" => h[r] \in {"gone", "wrong"}}
  /\ phase = "idle" /\ at = 1
  /\ seen = [r \in Resources |-> "unread"]
  /\ step = [r \in Resources |-> NoStep]
  /\ verdict = [r \in Resources |-> "waiting"]
  /\ failed = {} /\ blocked = {}
  /\ applied = FALSE /\ outcome = "none" /\ faults = 0
  /\ touched = {} /\ owed = {} /\ stale = {} /\ calm = TRUE /\ settled = FALSE

\* What can stand at a target; one declared absent is there or it is not.
Possible(r) == IF world.wanted[r] = "present" THEN Targets ELSE {"gone", "wrong"}

\* What a provider that does its work leaves at a target.
Repaired(r) ==
  IF world.wanted[r] = "absent" THEN {"gone"}
  ELSE IF host[r] = "wrong" THEN {"right", "odd"}
  ELSE IF host[r] = "odd" THEN {"odd"} ELSE {"right"}

\* Something goes wrong that the program does not choose.
Fault ==
  /\ faults < MaxFaults
  /\ faults' = faults + 1
  /\ calm' = FALSE
  /\ settled' = FALSE

NoFault == UNCHANGED <<faults, calm, settled>>

\* What Apply's blocked map holds when it is made.
BlockedAtStartCarried == blocked                \* defect: the map outlives its pass
BlockedAtStart == {}

\* A pass starts from nothing: no observation, plan or verdict is carried over.
Begin ==
  /\ phase = "idle"
  /\ phase' = "observe" /\ at' = 1
  /\ seen' = [r \in Resources |-> "unread"]
  /\ step' = [r \in Resources |-> NoStep]
  /\ verdict' = [r \in Resources |-> "waiting"]
  /\ failed' = {} /\ blocked' = BlockedAtStart
  /\ applied' = FALSE
  /\ touched' = {} /\ stale' = {}
  /\ settled' = (calm /\ outcome \in {"converged", "changed"})
  /\ calm' = TRUE
  /\ UNCHANGED <<world, host, outcome, faults, owed>>

\* The loops of observe.Host and plan.Build end when every resource is done.
AdvancePastTheEnd(next) ==                      \* defect: one iteration too many
  IF at > N THEN phase' = next /\ at' = 1 ELSE at' = at + 1 /\ UNCHANGED phase
Advance(next) ==
  IF at = N THEN phase' = next /\ at' = 1 ELSE at' = at + 1 /\ UNCHANGED phase

\* observe.Host reads one target; an error stays with the resource.
ObserveNext ==
  /\ phase = "observe"
  /\ \/ /\ seen' = [seen EXCEPT ![at] = IF world.served[at] THEN host[at] ELSE "unserved"]
        /\ NoFault
     \/ /\ world.served[at]
        /\ seen' = [seen EXCEPT ![at] = "error"]
        /\ Fault
  /\ Advance("plan")
  /\ stale' = stale \ {at}
  /\ UNCHANGED <<world, host, step, verdict, failed, blocked, applied, outcome, touched, owed>>

PlanNext ==
  /\ phase = "plan"
  /\ step' = [step EXCEPT ![at] = Planned(at)]
  /\ Advance("apply")
  /\ NoFault
  /\ UNCHANGED <<world, host, seen, verdict, failed, blocked, applied, outcome, touched, owed, stale>>

\* The branch of Apply's switch a step takes.
BranchIgnoringBlocks(r) ==                      \* defect: the blocked map is not consulted
  IF step[r].err THEN "unread"
  ELSE IF step[r].action = "skip" THEN "skipped"
  ELSE IF ~Changes(step[r].action) THEN "converged"
  ELSE IF world.mode = "observe" THEN "drifted"
  ELSE "enforce"
Branch(r) ==
  IF step[r].err THEN "unread"
  ELSE IF step[r].action = "skip" THEN "skipped"
  ELSE IF r \in blocked THEN "blocked"
  ELSE IF ~Changes(step[r].action) THEN "converged"
  ELSE IF world.mode = "observe" THEN "drifted"
  ELSE "enforce"

\* Appends the verdict on the resource the loop has reached and moves on.  A
\* verdict with an error blocks what depends on the resource.
SettleBlockingMore(state, err) ==               \* defect: skips and odd drift block too
  /\ verdict' = [verdict EXCEPT ![at] = state]
  /\ failed' = IF err THEN failed \cup {at} ELSE failed
  /\ blocked' = IF state # "converged" THEN Block(at, blocked) ELSE blocked
  /\ phase' = "apply"
  /\ at' = at + 1
Settle(state, err) ==
  /\ verdict' = [verdict EXCEPT ![at] = state]
  /\ failed' = IF err THEN failed \cup {at} ELSE failed
  /\ blocked' = IF err THEN Block(at, blocked) ELSE blocked
  /\ phase' = "apply"
  /\ at' = at + 1

\* Every branch of the switch that leaves the host alone.
ReportWithoutActing ==
  /\ phase = "apply" /\ at <= N
  /\ LET branch == Branch(at)
     IN  /\ branch # "enforce"
         /\ IF branch = "unread" THEN Settle("failed", TRUE) ELSE Settle(branch, FALSE)
  /\ NoFault
  /\ UNCHANGED <<world, host, seen, step, applied, outcome, touched, owed, stale>>

\* enforce gives up before the provider runs: CheckIdentity found the target
\* to be a protected path under another name.
EnforceRefused ==
  /\ phase = "apply" /\ at <= N /\ Branch(at) = "enforce"
  /\ Settle("failed", TRUE)
  /\ applied' = TRUE
  /\ Fault
  /\ UNCHANGED <<world, host, seen, step, outcome, touched, owed, stale>>

TriggersFrom(r) == {e \in Edges : e.from = r /\ Triggers(e)}
TriggersInto(r) == {e \in Edges : e.to = r /\ Triggers(e)}

\* The provider's Apply fails or is cut off by the action timeout, with
\* whatever it had done by then left on the host.
ApplyFails ==
  /\ phase = "apply" /\ at <= N /\ Branch(at) = "enforce"
  /\ \E t \in Possible(at) :
       /\ host' = [host EXCEPT ![at] = t]
       /\ owed' = IF t # host[at] THEN owed \cup TriggersFrom(at) ELSE owed
  /\ Settle("failed", TRUE)
  /\ applied' = TRUE
  /\ touched' = touched \cup {at}
  /\ Fault
  /\ UNCHANGED <<world, seen, step, outcome, stale>>

\* The provider reports success, having done the work or, a fault, not.
ApplySucceeds ==
  /\ phase = "apply" /\ at <= N /\ Branch(at) = "enforce"
  /\ \E t \in Possible(at) :
       /\ host' = [host EXCEPT ![at] = t]
       /\ IF t \in Repaired(at) THEN NoFault ELSE Fault
  /\ owed' = (IF step[at].trigger THEN owed \ TriggersInto(at) ELSE owed)
               \cup TriggersFrom(at)
  /\ phase' = "verify"
  /\ applied' = TRUE
  /\ touched' = touched \cup {at}
  /\ UNCHANGED <<world, at, seen, step, verdict, failed, blocked, outcome, stale>>

\* The target is read again, and that reading decides the verdict.
VerifyNext ==
  /\ phase = "verify"
  /\ \/ /\ LET v == Verify(world.wanted[at], host[at]) IN Settle(v.state, v.err)
        /\ NoFault
     \/ /\ Settle("failed", TRUE)
        /\ Fault
  /\ stale' = stale \ {at}
  /\ UNCHANGED <<world, host, seen, step, applied, outcome, touched, owed>>

\* The loop is over and the result is reported.
Finish ==
  /\ phase = "apply" /\ at = N + 1
  /\ outcome' = OutcomeOf(verdict, failed, applied)
  /\ phase' = "idle" /\ at' = 1
  /\ NoFault
  /\ UNCHANGED <<world, host, seen, step, verdict, failed, blocked, applied, touched, owed, stale>>

\* The pass timeout, a stop or a crash: nothing is reported or undone.
Abandon ==
  /\ phase # "idle"
  /\ phase' = "idle" /\ at' = 1
  /\ outcome' = "none"
  /\ Fault
  /\ UNCHANGED <<world, host, seen, step, verdict, failed, blocked, applied, touched, owed, stale>>

\* Somebody else changes a target, or another resource's action does.
Drift(r) ==
  /\ \E t \in Possible(r) \ {host[r]} : host' = [host EXCEPT ![r] = t]
  /\ stale' = stale \cup {r}
  /\ Fault
  /\ UNCHANGED <<world, phase, at, seen, step, verdict, failed, blocked, applied, outcome,
                 touched, owed>>

Agent == \/ Begin
         \/ ObserveNext
         \/ PlanNext
         \/ ReportWithoutActing
         \/ EnforceRefused
         \/ ApplyFails
         \/ ApplySucceeds
         \/ VerifyNext
         \/ Finish

Next == Agent \/ Abandon \/ \E r \in Resources : Drift(r)

Spec == Init /\ [][Next]_vars

\* The schedule starts pass after pass and a pass is a loop that runs on.
FairSpec == Spec /\ WF_vars(Agent)

-----------------------------------------------------------------------------
(* Properties.                                                             *)

Reported == phase = "idle" /\ outcome # "none"

(* A resource is acted on only when everything it waits for, at any        *)
(* distance, has been settled in this pass without an error: a dependent   *)
(* is never attempted against a prerequisite that is not in place          *)
(* (reconcile.go:254-255).                                                 *)
PrerequisitesHold ==
  \A r \in touched, d \in Resources :
    r \in Downstream(d) => /\ verdict[d] \in {"converged", "drifted", "skipped"}
                           /\ d \notin failed

(* A failure stops nothing but what waits for it: a resource reported      *)
(* blocked is downstream of one that failed (reconcile.go:95-97).          *)
BlockedOnlyBehindAFailure ==
  \A r \in Resources : verdict[r] = "blocked" => \E d \in failed : r \in Downstream(d)

(* A resource reported converged held what was declared when the pass last *)
(* read it, whatever its provider claimed, so it still does unless it      *)
(* drifted after that (reconcile.go:164-166).                              *)
ConvergedWasRead ==
  \A r \in Resources : verdict[r] = "converged" /\ r \notin stale =>
    host[r] = IF world.wanted[r] = "present" THEN "right" ELSE "gone"

(* Converged means the plan was empty, changed means actions applied and   *)
(* every affected resource verified (state.go:109-112); and the host's own *)
(* state never looks better than the outcome (state.go:139-168).           *)
OutcomeMeansWhatItSays ==
  Reported =>
    /\ outcome = "converged" => touched = {} /\ \A r \in Resources : ~Changes(step[r].action)
    /\ outcome = "changed" => touched # {} /\ \A r \in touched : verdict[r] = "converged"
    /\ outcome \in {"converged", "changed"} => failed = {} /\ blocked = {}
    /\ HostState(verdict) = "converged" => outcome \in {"converged", "changed"}

(* A pass that follows a converged or changed one on an undisturbed host   *)
(* acts on nothing (docs/resources/lifecycle.md:110-111).                  *)
SecondPassIsEmpty == settled => touched = {}

(* A pass that reports changed has restarted or reloaded everything that   *)
(* reacts to what it changed, except where nothing serves the resource.    *)
ChangedMeansReacted ==
  Reported /\ outcome = "changed" =>
    \A e \in owed : e.from \in touched => verdict[e.to] = "skipped"

(* A restart or reload has a cause: something it reacts to was changed and *)
(* verified earlier in the same pass (plan.go:126-135, reconcile.go:147).  *)
ReactionHasACause ==
  \A r \in touched : step[r].trigger =>
    \E e \in TriggersInto(r) : e.from \in touched /\ e.from \notin failed

(* Once nothing goes wrong any more, the host reaches the declared state   *)
(* and stays there: no fault leaves a pass unable to finish the work.      *)
EventuallyDeclared ==
  world.mode = "enforce" =>
    <>[](\A r \in Resources : world.served[r] => Holds(world.wanted[r], host[r]))

-----------------------------------------------------------------------------
(* The contract of a pass, and how this module keeps it.                   *)

Status(r) ==
  IF verdict[r] = "waiting" THEN "open"
  ELSE IF r \in failed \cup blocked THEN "unsound"
  ELSE IF verdict[r] = "skipped" THEN "uncovered"
  ELSE "sound"

Contract == INSTANCE PassContract WITH
  edges <- Edges, status <- [r \in Resources |-> Status(r)], acted <- touched

(* Observing, planning, applying and verifying amount to the contract: no  *)
(* interleaving with drift, errors and abandoned passes settles a resource *)
(* early, acts on one behind a failure or hides that it stands behind one. *)
KeepsContract == Contract!Spec

-----------------------------------------------------------------------------
(* The inductive invariant behind PrerequisitesHold and KeepsContract.     *)

\* Being unsound spreads along every edge, and verdicts say so.
UnsoundSpreads ==
  /\ \A e \in Edges : e.from \in failed \cup blocked => e.to \in blocked
  /\ \A r \in Resources : verdict[r] = "failed" => r \in failed
  /\ \A r \in Resources : verdict[r] = "blocked" => r \in blocked

\* What was acted on was not blocked, and came after all smaller resources.
ActedInOrder ==
  \A r \in touched : r \notin blocked /\ \A d \in 1..(r - 1) : verdict[d] # "waiting"

\* How far the loop of Apply has come.
LoopPosition ==
  /\ \A r \in failed : verdict[r] # "waiting"
  /\ phase \in {"observe", "plan"} =>
       /\ touched = {} /\ failed = {} /\ blocked = {}
       /\ \A r \in Resources : verdict[r] = "waiting"
  /\ phase \in {"apply", "verify"} => \A r \in Resources : verdict[r] = "waiting" <=> r >= at
  /\ phase = "apply" => \A r \in touched : r < at
  /\ phase = "verify" => at \in touched /\ \A r \in touched : r <= at

IInv == TypeOK /\ UnsoundSpreads /\ ActedInOrder /\ LoopPosition

-----------------------------------------------------------------------------
(* What the documentation says and the code does not do.                   *)

(* "Service.restartOn lists resources whose change should cause the        *)
(* service to restart" (docs/resources/dependencies.md:70-71): a host      *)
(* reported converged or changed has no reaction left to make.             *)
NoReactionLost == Reported /\ outcome \in {"converged", "changed"} => owed = {}
=============================================================================

---------------------------- MODULE AgentProofs ----------------------------
(***************************************************************************)
(* Proofs about module Agent, for any number of agents and commands, every *)
(* history, and every number of faults and of moves of people: types,      *)
(* mutual exclusion, what a pass applies, and that the accepted revision   *)
(* is a ratchet.                                                           *)
(***************************************************************************)
EXTENDS Agent, TLAPS

Selection == [accepted : Revision, revision : Revision, cause : Causes]
Clone == [made : {"no", "half", "whole"}, tip : Revision, tags : SUBSET Commits,
          has : SUBSET Commits]

-----------------------------------------------------------------------------
(* Types, action by action.                                                *)

LEMMA SettingFacts ==
  ASSUME TypeOK
  PROVE  /\ setting \in Setting
         /\ setting.require \in {"none", "signed-commit", "signed-tag"}
         /\ setting.descendant \in BOOLEAN
         /\ Vouched \subseteq Commits /\ Vetted \subseteq Commits
<1>1. setting \in Setting
  BY SettingsAssumption DEF TypeOK
<1> QED
  BY <1>1 DEF Setting, Vouched, Vetted

LEMMA CloneFacts ==
  NoClone \in Clone /\ HalfClone \in Clone
BY DEF Clone, NoClone, HalfClone, Revision

LEMMA FetchedFacts ==
  ASSUME TypeOK
  PROVE  \A c \in Fetched : c \in Clone /\ [c EXCEPT !.made = "whole"] \in Clone
<1> DEFINE led == Reachable({remote.tip} \cup remote.tags)
<1>1. led \subseteq Commits /\ clone \in Clone /\ remote.tip \in Commits
       /\ remote.tags \subseteq Commits
  BY DEF TypeOK, Reachable, Clone
<1>2. clone.made \in {"no", "half", "whole"} /\ clone.has \subseteq Commits
  BY <1>1 DEF Clone
<1> HIDE DEF led
<1>3. Fetched \subseteq Clone
  <2>1. Fetched = [made : {clone.made},
                   tip  : {IF clone.made = "half" THEN None ELSE remote.tip},
                   tags : {remote.tags},
                   has  : {led, clone.has \cup led}]
    BY DEF Fetched, led
  <2>2. (IF clone.made = "half" THEN None ELSE remote.tip) \in Revision
    BY <1>1 DEF Revision
  <2> QED
    BY <1>1, <1>2, <2>1, <2>2 DEF Clone
<1> QED
  BY <1>3 DEF Clone

\* What the configured rule picks is a commit it vouches for.
LEMMA CandidateFacts ==
  ASSUME TypeOK, NEW held
  PROVE  Candidate(held) \subseteq Vouched
<1>1. clone.tip \in Revision
  BY DEF TypeOK
<1>2. CASE setting.require = "none"
  BY <1>1, <1>2 DEF Candidate, Vouched, Revision
<1>3. CASE setting.require = "signed-commit"
  BY <1>3 DEF Candidate, Vouched
<1>4. CASE setting.require = "signed-tag"
  <2>1. Candidate(held) = Newest(TagCandidates(held))
    BY <1>4 DEF Candidate
  <2>2. Newest(TagCandidates(held)) \subseteq setting.trusted
    BY DEF Newest, TagCandidates
  <2> QED
    BY <1>4, <2>1, <2>2 DEF Vouched
<1> QED
  BY <1>2, <1>3, <1>4, SettingFacts

LEMMA GotoFacts ==
  ASSUME TypeOK, NEW p \in Agents, NEW s \in Stages, Goto(p, s)
  PROVE  /\ stage' \in [Agents -> Stages] /\ stage'[p] = s
         /\ \A q \in Agents \ {p} : stage'[q] = stage[q]
BY DEF Goto, TypeOK

LEMMA FaultFacts ==
  ASSUME TypeOK, Fault \/ NoFault
  PROVE  faults' \in 0..MaxFaults
BY BoundsAssumption DEF TypeOK, Fault, NoFault

\* A fallback selects the accepted revision, if there is one.
LEMMA FallBackFacts ==
  ASSUME TypeOK, NEW p \in Agents, NEW cause \in Causes, FallBack(p, cause)
  PROVE  /\ stage' \in [Agents -> Stages] /\ sel' \in [Agents -> Selection]
         /\ \A q \in Agents \ {p} : stage'[q] = stage[q]
         /\ \/ stage'[p] = "error"
            \/ /\ stage'[p] = "replace" /\ sel[p].accepted # None
               /\ sel'[p] = [accepted |-> sel[p].accepted, revision |-> sel[p].accepted, cause |-> cause]
<1>1. sel \in [Agents -> Selection] /\ stage \in [Agents -> Stages]
  BY DEF TypeOK, Selection
<1>2. sel[p] \in Selection
  BY <1>1
<1>3. CASE sel[p].accepted = None
  BY <1>1, <1>3 DEF FallBack, Goto, Stages
<1>4. CASE sel[p].accepted # None
  <2>1. sel' = [sel EXCEPT ![p].revision = sel[p].accepted, ![p].cause = cause]
    BY <1>4 DEF FallBack
  <2>2. sel'[p] = [accepted |-> sel[p].accepted, revision |-> sel[p].accepted, cause |-> cause]
    BY <1>1, <1>2, <2>1 DEF Selection
  <2>3. sel' \in [Agents -> Selection]
    BY <1>1, <1>2, <2>1, <2>2 DEF Selection
  <2> QED
    BY <1>1, <1>4, <2>2, <2>3 DEF FallBack, Goto, Stages
<1> QED
  BY <1>3, <1>4

LEMMA EndFacts ==
  ASSUME TypeOK, NEW p \in Agents, End(p)
  PROVE  /\ stage' \in [Agents -> Stages] /\ sel' \in [Agents -> Selection]
         /\ planned' \in [Agents -> Revision] /\ lock' = Nobody
         /\ stage'[p] = "sleep" /\ \A q \in Agents \ {p} : stage'[q] = stage[q]
<1>1. Blank \in Selection /\ None \in Revision
  BY DEF Blank, Selection, Revision, Causes
<1> QED
  BY <1>1 DEF End, Goto, TypeOK, Selection, Stages

LEMMA SelectKeepsTypes ==
  ASSUME TypeOK, NEW p \in Agents, SelectStep(p)
  PROVE  TypeOK'
<1> USE DEF SelectStep
<1>1. /\ clone \in Clone /\ sel \in [Agents -> Selection] /\ sel[p] \in Selection
      /\ accepted \in Revision \cup {Torn} /\ faults \in 0..MaxFaults
      /\ {"source", "refused"} \subseteq Causes
      /\ {"error", "clone", "fetch", "choose", "replace", "checkout", "selected"} \subseteq Stages
  BY DEF TypeOK, Clone, Selection, Causes, Stages
<1>2. SUFFICES /\ clone' \in Clone /\ sel' \in [Agents -> Selection]
               /\ stage' \in [Agents -> Stages] /\ tree' \in Revision
               /\ faults' \in 0..MaxFaults
               /\ UNCHANGED <<setting, remote, accepted, moves, lock, temp, planned, command>>
  BY DEF TypeOK, Clone, Selection
<1>3. CASE ReadPointer(p)
  <2>1. accepted # Torn => [Blank EXCEPT !.accepted = accepted] \in Selection
    BY <1>1 DEF Blank, Selection, Revision, Causes
  <2>2. sel' \in [Agents -> Selection] /\ stage' \in [Agents -> Stages]
    BY <1>1, <1>3, <2>1 DEF ReadPointer, Goto, TypeOK
  <2> QED
    BY <1>1, <1>3, <2>2 DEF ReadPointer, NoFault, TypeOK
<1>4. CASE EnsureClone(p)
  <2>1. clone' \in Clone
    BY <1>1, <1>4, FetchedFacts, CloneFacts DEF EnsureClone
  <2>2. sel' \in [Agents -> Selection] /\ stage' \in [Agents -> Stages]
    BY <1>1, <1>4, FallBackFacts, GotoFacts DEF EnsureClone
  <2> QED
    BY <1>4, <2>1, <2>2, FaultFacts DEF EnsureClone, TypeOK
<1>5. CASE Fetch(p)
  <2>1. clone' \in Clone
    BY <1>1, <1>5, FetchedFacts DEF Fetch
  <2>2. sel' \in [Agents -> Selection] /\ stage' \in [Agents -> Stages]
    BY <1>1, <1>5, FallBackFacts, GotoFacts DEF Fetch
  <2> QED
    BY <1>5, <2>1, <2>2, FaultFacts DEF Fetch, TypeOK
<1>6. CASE Choose(p)
  <2> DEFINE chosen == {c \in Candidate(accepted) : Current(c, sel[p].accepted)}
  <2>1. chosen \subseteq Commits
    BY CandidateFacts, SettingFacts
  <2>2. CASE (\E c \in chosen : sel' = [sel EXCEPT ![p].revision = c]) /\ Goto(p, "replace")
    <3>1. sel' \in [Agents -> Selection]
      BY <1>1, <2>1, <2>2 DEF Selection, Revision
    <3> QED
      BY <1>1, <1>6, <2>2, <3>1, GotoFacts, FaultFacts DEF Choose, TypeOK
  <2>3. CASE FallBack(p, "refused") \/ FallBack(p, "source")
    BY <1>1, <1>6, <2>3, FallBackFacts, FaultFacts DEF Choose, TypeOK
  <2> QED
    BY <1>6, <2>2, <2>3 DEF Choose
<1>7. CASE Replace(p)
  BY <1>1, <1>7, GotoFacts, FaultFacts DEF Replace, TypeOK, Revision
<1>8. CASE Checkout(p)
  <2>1. tree' \in Revision /\ faults' \in 0..MaxFaults
    BY <1>1, <1>8, FaultFacts DEF Checkout, Selection, Revision
  <2>2. sel' \in [Agents -> Selection] /\ stage' \in [Agents -> Stages]
    BY <1>1, <1>8, FallBackFacts, GotoFacts DEF Checkout
  <2> QED
    BY <1>1, <1>8, <2>1, <2>2 DEF Checkout
<1> QED
  BY <1>3, <1>4, <1>5, <1>6, <1>7, <1>8 DEF Select

LEMMA AgentKeepsTypes ==
  ASSUME TypeOK, NEW p \in Agents, AgentStep(p) \/ Crash(p)
  PROVE  TypeOK'
<1>1. CASE Tick(p)
  <2>1. lock' \in Processes \cup {Nobody} /\ stage' \in [Agents -> Stages]
    BY <1>1 DEF Tick, Take, Goto, TypeOK, Processes, Stages
  <2> QED
    BY <1>1, <2>1, FaultFacts DEF Tick, TypeOK
<1>2. CASE SelectStep(p)
  BY <1>2, SelectKeepsTypes
<1>3. CASE SelectFailed(p)
  BY <1>3, EndFacts, FaultFacts DEF SelectFailed, TypeOK, Selection
<1>4. CASE Resolve(p)
  <2>1. CASE End(p)
    BY <1>4, <2>1, EndFacts, FaultFacts DEF Resolve, TypeOK, Selection
  <2>2. CASE Goto(p, "accept")
    <3>1. stage' \in [Agents -> Stages]
      BY <2>2, GotoFacts DEF Stages
    <3>2. planned' \in [Agents -> Revision] /\ UNCHANGED <<sel, lock>> /\ faults' \in 0..MaxFaults
      <4>1. stage'[p] = "accept"
        BY <2>2, GotoFacts DEF Stages
      <4>2. ~End(p)
        BY <4>1, EndFacts
      <4> QED
        BY <1>4, <4>2, FaultFacts DEF Resolve, TypeOK
    <3> QED
      BY <1>4, <3>1, <3>2 DEF Resolve, TypeOK
  <2> QED
    BY <1>4, <2>1, <2>2 DEF Resolve
<1>5. CASE WriteTemp(p)
  <2>1. stage' \in [Agents -> Stages]
    BY <1>5, GotoFacts DEF WriteTemp, Written, Stages
  <2>2. temp' \in Revision \cup {Torn}
    <3>1. temp \in Revision \cup {Torn} /\ sel[p].revision \in Revision
      BY DEF TypeOK
    <3>2. temp' \in {temp, sel[p].revision, Torn}
      BY <1>5 DEF WriteTemp
    <3> QED
      BY <3>1, <3>2
  <2>3. faults' \in 0..MaxFaults
    <3>1. Fault \/ NoFault
      BY <1>5 DEF WriteTemp
    <3> QED
      BY <3>1, FaultFacts
  <2> QED
    BY <1>5, <2>1, <2>2, <2>3 DEF WriteTemp, TypeOK
<1>6. CASE Publish(p)
  <2>1. stage' \in [Agents -> Stages]
    BY <1>6, GotoFacts DEF Publish, Stages
  <2> QED
    BY <1>6, <2>1, FaultFacts DEF Publish, TypeOK, Revision
<1>7. CASE Apply(p)
  <2>1. CASE End(p)
    BY <1>7, <2>1, EndFacts, FaultFacts DEF Apply, TypeOK, Selection
  <2>2. CASE ~End(p)
    <3>1. stage' \in [Agents -> Stages]
      BY <1>7, <2>2, GotoFacts DEF Apply, Stages
    <3> QED
      BY <1>7, <2>2, <3>1, FaultFacts DEF Apply, TypeOK
  <2> QED
    BY <2>1, <2>2
<1>8. CASE Timeout(p)
  <2>1. clone' \in Clone
    BY <1>8, CloneFacts DEF Timeout, TypeOK, Clone
  <2>2. End(p) /\ tree' \in Revision /\ faults' \in 0..MaxFaults
    BY <1>8, FaultFacts DEF Timeout, TypeOK, Revision
  <2> QED
    BY <1>8, <2>1, <2>2, EndFacts DEF Timeout, TypeOK, Selection, Clone
<1>9. CASE Restart(p)
  <2>1. stage' \in [Agents -> Stages]
    BY <1>9, GotoFacts DEF Restart, Stages
  <2> QED
    BY <1>9, <2>1, FaultFacts DEF Restart, TypeOK
<1>10. CASE Crash(p)
  <2>1. clone' \in Clone /\ temp' \in Revision \cup {Torn}
    BY <1>10, CloneFacts DEF Crash, TypeOK, Clone
  <2>2. Blank \in Selection /\ None \in Revision
    BY DEF Blank, Selection, Revision, Causes
  <2>3. /\ stage' \in [Agents -> Stages] /\ sel' \in [Agents -> Selection]
        /\ planned' \in [Agents -> Revision] /\ lock' = Nobody
    BY <1>10, <2>2, GotoFacts DEF Crash, TypeOK, Selection, Stages
  <2> QED
    BY <1>10, <2>1, <2>3, FaultFacts DEF Crash, TypeOK, Selection, Clone
<1> QED
  BY <1>1, <1>2, <1>3, <1>4, <1>5, <1>6, <1>7, <1>8, <1>9, <1>10 DEF AgentStep

LEMMA TypesAreKept == TypeOK /\ [Next]_vars => TypeOK'
<1> SUFFICES ASSUME TypeOK, [Next]_vars PROVE TypeOK'
  OBVIOUS
<1>1. ASSUME NEW p \in Agents, AgentStep(p) \/ Crash(p) PROVE TypeOK'
  BY <1>1, AgentKeepsTypes
<1>2. ASSUME NEW c \in Reconciles, CommandStep(c) PROVE TypeOK'
  <2>1. /\ command' \in [Reconciles -> {"out", "waiting", "in", "done"}]
        /\ lock' \in Processes \cup {Nobody}
    BY <1>2 DEF CommandStep, Reconcile, ReconcileEnds, Take, TypeOK, Processes
  <2> QED
    BY <1>2, <2>1 DEF CommandStep, Reconcile, ReconcileEnds, sourceVars, TypeOK
<1>3. CASE People
  <2>1. moves' \in 0..MaxMoves
    BY <1>3, BoundsAssumption DEF People, Push, Clear, TypeOK
  <2>2. remote' \in [tip : Commits, tags : SUBSET Commits]
    BY <1>3 DEF People, Push, Clear, TypeOK
  <2>3. accepted' \in Revision \cup {Torn}
    BY <1>3 DEF People, Push, Clear, TypeOK, Revision
  <2> QED
    BY <1>3, <2>1, <2>2, <2>3 DEF People, Push, Clear, TypeOK
<1>4. CASE UNCHANGED vars
  BY <1>4 DEF vars, TypeOK
<1> QED
  BY <1>1, <1>2, <1>3, <1>4 DEF Next

-----------------------------------------------------------------------------
(* The inductive invariant: what is true of one pass at each of its steps. *)

Idle(p) == stage[p] \in {"sleep", "down"}

\* c is allowed after a.
Follows(a, c) == setting.descendant /\ a # None => IsAncestor(a, c)

Selecting == {"clone", "fetch", "choose"}
Materialising == {"replace", "checkout", "selected"}
Accepting == {"accept", "publish"}
Working == {"apply", "hung"}

\* The baseline was vetted, and only this pass or an operator moves it.
BaselineHolds(p) ==
  /\ stage[p] \in Selecting \cup Materialising \cup Accepting \cup Working =>
       sel[p].accepted \in Vetted \cup {None}
  /\ stage[p] \in Selecting \cup Materialising \cup Accepting =>
       accepted \in {sel[p].accepted, None}
  /\ stage[p] \in Working => accepted \in {sel[p].accepted, sel[p].revision, None}

\* What was selected is vouched for and follows the baseline.
SelectionHolds(p) ==
  stage[p] \in Materialising \cup Accepting \cup Working =>
    /\ sel[p].revision \in Vouched
    /\ Follows(sel[p].accepted, sel[p].revision)

\* The tree, and the plan made from it, are of the selected revision.
PlanHolds(p) ==
  /\ stage[p] = "selected" => tree = sel[p].revision
  /\ stage[p] \in Accepting \cup Working =>
       tree = sel[p].revision /\ planned[p] = tree /\ tree \in setting.resolves
  /\ stage[p] = "publish" => temp = sel[p].revision

PassHolds(p) == BaselineHolds(p) /\ SelectionHolds(p) /\ PlanHolds(p)

Inv ==
  /\ TypeOK
  /\ OnePassAtATime
  /\ accepted \in Vetted \cup {None}
  /\ \A p \in Agents : PassHolds(p)

-----------------------------------------------------------------------------
LEMMA FollowsFacts ==
  ASSUME NEW c \in Commits
  PROVE  Follows(None, c) /\ Follows(c, c)
BY HistoryAssumption DEF Follows, IsAncestor

\* Whoever is in a pass is there alone.
LEMMA Alone ==
  ASSUME OnePassAtATime, NEW p \in Agents, ~Idle(p)
  PROVE  /\ lock = p
         /\ \A q \in Agents \ {p} : Idle(q)
         /\ \A c \in Reconciles : command[c] # "in"
<1>1. lock = p
  BY DEF OnePassAtATime, Idle
<1> QED
  BY <1>1, ProcessesAssumption DEF OnePassAtATime, Idle

LEMMA IdlePassHolds ==
  ASSUME NEW p \in Agents, Idle(p)
  PROVE  PassHolds(p)
BY DEF Idle, PassHolds, BaselineHolds, SelectionHolds, PlanHolds, Selecting,
       Materialising, Accepting, Working

LEMMA IdlePassHoldsPrime ==
  ASSUME NEW p \in Agents, Idle(p)'
  PROVE  PassHolds(p)'
BY DEF Idle, PassHolds, BaselineHolds, SelectionHolds, PlanHolds, Selecting,
       Materialising, Accepting, Working

\* A step of a pass leaves the other processes where they are, so only what is
\* true of that pass is in question.
LEMMA PassMoves ==
  ASSUME Inv, NEW p \in Agents, ~Idle(p),
         TypeOK',
         \A q \in Agents \ {p} : stage'[q] = stage[q],
         command' = command,
         lock' = lock \/ (lock' = Nobody /\ Idle(p)'),
         accepted' \in (Vetted \cup {None})',
         PassHolds(p)'
  PROVE  Inv'
<1>1. /\ lock = p
      /\ \A q \in Agents \ {p} : Idle(q)
      /\ \A c \in Reconciles : command[c] # "in"
  BY Alone DEF Inv
<1>2. \A q \in Agents \ {p} : Idle(q)'
  BY <1>1 DEF Idle
<1>3. OnePassAtATime'
  BY <1>1, <1>2 DEF OnePassAtATime, Idle
<1>4. \A q \in Agents : PassHolds(q)'
  BY <1>2, IdlePassHoldsPrime
<1> QED
  BY <1>3, <1>4 DEF Inv

\* runOnce returns or the process dies.
LEMMA PassStops ==
  ASSUME Inv, NEW p \in Agents, ~Idle(p), TypeOK',
         \A q \in Agents \ {p} : stage'[q] = stage[q],
         Idle(p)', lock' = Nobody,
         UNCHANGED <<setting, accepted, command>>
  PROVE  Inv'
<1>1. accepted' \in (Vetted \cup {None})'
  BY DEF Inv, Vetted, Vouched
<1>2. PassHolds(p)'
  BY IdlePassHoldsPrime
<1> QED
  BY <1>1, <1>2, PassMoves

-----------------------------------------------------------------------------
LEMMA SelectKeepsInv ==
  ASSUME Inv, NEW p \in Agents, SelectStep(p), TypeOK'
  PROVE  Inv'
<1> USE DEF SelectStep
<1>0. /\ TypeOK /\ sel \in [Agents -> Selection] /\ sel[p] \in Selection
      /\ PassHolds(p) /\ accepted \in Vetted \cup {None}
      /\ Vetted \subseteq Vouched /\ Vouched \subseteq Commits
  BY SettingFacts DEF Inv, TypeOK, Selection, Vetted
<1>1. /\ ~Idle(p)
      /\ UNCHANGED <<setting, accepted, lock, temp, planned, command>>
  BY DEF Select, ReadPointer, EnsureClone, Fetch, Choose, Replace, Checkout, Idle
<1>2. Vetted' = Vetted /\ Vouched' = Vouched
  BY <1>1 DEF Vetted, Vouched
\* What a fallback leads to, from any step that has read the pointer.
<1>3. ASSUME NEW cause \in Causes, FallBack(p, cause),
             stage[p] \in Selecting \cup {"checkout"}
      PROVE  PassHolds(p)' /\ \A q \in Agents \ {p} : stage'[q] = stage[q]
  <2>1. CASE stage'[p] = "error"
    BY <1>0, <1>3, <2>1, FallBackFacts
       DEF PassHolds, BaselineHolds, SelectionHolds, PlanHolds, Selecting,
           Materialising, Accepting, Working
  <2>2. CASE stage'[p] # "error"
    <3>1. /\ stage'[p] = "replace" /\ sel[p].accepted # None
          /\ sel'[p] = [accepted |-> sel[p].accepted, revision |-> sel[p].accepted, cause |-> cause]
      BY <1>0, <1>3, <2>2, FallBackFacts
    <3>2. sel[p].accepted \in Vetted \cup {None} /\ accepted \in {sel[p].accepted, None}
      BY <1>0, <1>3 DEF PassHolds, BaselineHolds, Materialising
    <3>3. sel'[p].accepted = sel[p].accepted /\ sel'[p].revision = sel[p].accepted
      BY <3>1
    <3>4. sel[p].accepted \in Vetted /\ sel[p].accepted \in Commits
      BY <1>0, <3>1, <3>2
    <3>5. Follows(sel[p].accepted, sel[p].accepted)
      BY <3>4, FollowsFacts
    <3>6. BaselineHolds(p)'
      BY <1>1, <1>2, <3>1, <3>2, <3>3 DEF BaselineHolds, Selecting, Materialising, Accepting, Working
    <3>7. SelectionHolds(p)'
      BY <1>0, <1>1, <1>2, <3>3, <3>4, <3>5 DEF SelectionHolds, Follows
    <3>8. PlanHolds(p)'
      BY <3>1 DEF PlanHolds, Accepting, Working
    <3> QED
      BY <1>0, <1>3, <3>6, <3>7, <3>8, FallBackFacts DEF PassHolds
  <2> QED
    BY <1>0, <1>3, <2>1, <2>2, FallBackFacts
\* A step to another place before the plan that leaves the selection alone.
<1>4. ASSUME NEW s \in Stages, Goto(p, s), UNCHANGED sel,
             \/ stage[p] \in Selecting /\ s \in Selecting
             \/ stage[p] \in Materialising /\ s = "checkout"
             \/ stage[p] \in Materialising /\ s = "selected" /\ tree' = sel[p].revision
             \/ s = "error"
      PROVE  PassHolds(p)' /\ \A q \in Agents \ {p} : stage'[q] = stage[q]
  <2>1. stage'[p] = s /\ \A q \in Agents \ {p} : stage'[q] = stage[q]
    BY <1>0, <1>4, GotoFacts
  <2>2. BaselineHolds(p)'
    BY <1>0, <1>1, <1>2, <1>4, <2>1
       DEF PassHolds, BaselineHolds, Selecting, Materialising, Accepting, Working
  <2>3. SelectionHolds(p)'
    BY <1>0, <1>1, <1>2, <1>4, <2>1
       DEF PassHolds, SelectionHolds, Follows, Selecting, Materialising, Accepting, Working
  <2>4. PlanHolds(p)'
    BY <1>0, <1>1, <1>2, <1>4, <2>1
       DEF PassHolds, PlanHolds, Selecting, Materialising, Accepting, Working
  <2> QED
    BY <2>1, <2>2, <2>3, <2>4 DEF PassHolds
<1>5. SUFFICES PassHolds(p)' /\ \A q \in Agents \ {p} : stage'[q] = stage[q]
  <2>1. accepted' \in (Vetted \cup {None})'
    BY <1>0, <1>1, <1>2
  <2> QED
    BY <1>1, <2>1, PassMoves
<1>6. CASE ReadPointer(p)
  <2>1. accepted # Torn
    BY <1>0, NamesAssumption
  <2>2. Goto(p, "clone") /\ sel' = [sel EXCEPT ![p] = [Blank EXCEPT !.accepted = accepted]]
    BY <1>6, <2>1 DEF ReadPointer
  <2>3. sel'[p].accepted = accepted
    BY <1>0, <2>2 DEF Blank
  <2>4. stage'[p] = "clone" /\ \A q \in Agents \ {p} : stage'[q] = stage[q]
    BY <1>0, <2>2, GotoFacts DEF Stages
  <2>5. BaselineHolds(p)'
    BY <1>0, <1>1, <1>2, <2>3, <2>4
       DEF BaselineHolds, Selecting, Materialising, Accepting, Working
  <2>6. SelectionHolds(p)' /\ PlanHolds(p)'
    BY <2>4 DEF SelectionHolds, PlanHolds, Materialising, Accepting, Working
  <2> QED
    BY <2>4, <2>5, <2>6 DEF PassHolds
<1>7. CASE EnsureClone(p)
  <2>1. CASE FallBack(p, "source")
    BY <1>3, <1>7, <2>1 DEF EnsureClone, Causes, Selecting
  <2>2. CASE ~FallBack(p, "source")
    BY <1>4, <1>7, <2>2 DEF EnsureClone, Stages, Selecting
  <2> QED
    BY <2>1, <2>2
<1>8. CASE Fetch(p)
  <2>1. CASE FallBack(p, "source")
    BY <1>3, <1>8, <2>1 DEF Fetch, Causes, Selecting
  <2>2. CASE ~FallBack(p, "source")
    BY <1>4, <1>8, <2>2 DEF Fetch, Stages, Selecting
  <2> QED
    BY <2>1, <2>2
<1>9. CASE Choose(p)
  <2> DEFINE chosen == {c \in Candidate(accepted) : Current(c, sel[p].accepted)}
  <2>1. CASE FallBack(p, "refused") \/ FallBack(p, "source")
    BY <1>3, <1>9, <2>1 DEF Choose, Causes, Selecting
  <2>2. CASE ~(FallBack(p, "refused") \/ FallBack(p, "source"))
    <3>1. PICK c \in chosen : sel' = [sel EXCEPT ![p].revision = c]
      BY <1>9, <2>2 DEF Choose
    <3>2. c \in Vouched /\ Current(c, sel[p].accepted)
      BY <1>0, <3>1, CandidateFacts
    <3>3. stage'[p] = "replace" /\ \A q \in Agents \ {p} : stage'[q] = stage[q]
      BY <1>0, <1>9, <2>2, GotoFacts DEF Choose, Stages
    <3>4. sel'[p].accepted = sel[p].accepted /\ sel'[p].revision = c
      BY <1>0, <3>1 DEF Selection
    <3>5. Follows(sel[p].accepted, c)
      BY <3>2 DEF Current, Follows
    <3>6. stage[p] = "choose"
      BY <1>9 DEF Choose
    <3>7. BaselineHolds(p)'
      BY <1>0, <1>1, <1>2, <3>3, <3>4, <3>6
         DEF PassHolds, BaselineHolds, Selecting, Materialising, Accepting, Working
    <3>8. SelectionHolds(p)'
      BY <1>1, <1>2, <3>2, <3>4, <3>5 DEF SelectionHolds, Follows
    <3>9. PlanHolds(p)'
      BY <3>3 DEF PlanHolds, Accepting, Working
    <3> QED
      BY <3>3, <3>7, <3>8, <3>9 DEF PassHolds
  <2> QED
    BY <2>1, <2>2
<1>10. CASE Replace(p)
  BY <1>4, <1>10 DEF Replace, Stages, Materialising
<1>11. CASE Checkout(p)
  <2>1. CASE FallBack(p, "source")
    BY <1>3, <1>11, <2>1 DEF Checkout, Causes
  <2>2. CASE ~FallBack(p, "source")
    BY <1>4, <1>11, <2>2 DEF Checkout, Stages, Materialising
  <2> QED
    BY <2>1, <2>2
<1> QED
  BY <1>6, <1>7, <1>8, <1>9, <1>10, <1>11 DEF Select

\* The steps of a pass after the source is selected.
LEMMA PassStepKeepsInv ==
  ASSUME Inv, NEW p \in Agents, TypeOK',
         Resolve(p) \/ WriteTemp(p) \/ Publish(p) \/ Apply(p)
  PROVE  Inv'
<1>0. /\ TypeOK /\ stage \in [Agents -> Stages]
      /\ PassHolds(p) /\ accepted \in Vetted \cup {None}
      /\ Vetted \subseteq Commits
  BY SettingFacts DEF Inv, TypeOK
<1>1. /\ ~Idle(p)
      /\ UNCHANGED <<setting, tree, command>>
  BY DEF Resolve, WriteTemp, Publish, Apply, Idle
<1>2. Vetted' = Vetted /\ Vouched' = Vouched
  BY <1>1 DEF Vetted, Vouched
<1>3. CASE End(p) /\ UNCHANGED accepted
  BY <1>0, <1>1, <1>3, PassStops, EndFacts DEF Idle
<1>4. CASE Resolve(p) /\ ~End(p)
  <2>1. /\ stage[p] = "selected" /\ tree \in setting.resolves
        /\ planned' = [planned EXCEPT ![p] = tree]
        /\ Goto(p, "accept") /\ UNCHANGED <<sel, lock, accepted>>
    BY <1>4 DEF Resolve
  <2>2. stage'[p] = "accept" /\ \A q \in Agents \ {p} : stage'[q] = stage[q]
    BY <1>0, <2>1, GotoFacts DEF Stages
  <2>3. planned'[p] = tree
    BY <1>0, <2>1 DEF TypeOK
  <2>4. BaselineHolds(p)'
    BY <1>0, <1>2, <2>1, <2>2
       DEF PassHolds, BaselineHolds, Selecting, Materialising, Accepting, Working
  <2>5. SelectionHolds(p)'
    BY <1>0, <1>1, <1>2, <2>1, <2>2
       DEF PassHolds, SelectionHolds, Follows, Materialising, Accepting, Working
  <2>6. PlanHolds(p)'
    BY <1>0, <1>1, <2>1, <2>2, <2>3 DEF PassHolds, PlanHolds, Accepting, Working
  <2> QED
    BY <1>0, <1>1, <1>2, <2>1, <2>2, <2>4, <2>5, <2>6, PassMoves DEF PassHolds
<1>5. CASE WriteTemp(p)
  <2>1. /\ stage[p] = "accept"
        /\ UNCHANGED <<sel, lock, accepted, planned>>
        /\ Goto(p, "apply") \/ (Goto(p, "publish") /\ temp' = sel[p].revision)
    BY <1>5 DEF WriteTemp, Written
  <2>2. /\ stage'[p] = "apply" \/ (stage'[p] = "publish" /\ temp' = sel[p].revision)
        /\ \A q \in Agents \ {p} : stage'[q] = stage[q]
    BY <1>0, <2>1, GotoFacts DEF Stages
  <2>3. BaselineHolds(p)'
    BY <1>0, <1>2, <2>1, <2>2
       DEF PassHolds, BaselineHolds, Selecting, Materialising, Accepting, Working
  <2>4. SelectionHolds(p)'
    BY <1>0, <1>1, <1>2, <2>1, <2>2
       DEF PassHolds, SelectionHolds, Follows, Materialising, Accepting, Working
  <2>5. PlanHolds(p)'
    BY <1>0, <1>1, <2>1, <2>2 DEF PassHolds, PlanHolds, Accepting, Working
  <2> QED
    BY <1>0, <1>1, <1>2, <2>1, <2>2, <2>3, <2>4, <2>5, PassMoves DEF PassHolds
<1>6. CASE Publish(p)
  <2>1. /\ stage[p] = "publish" /\ Goto(p, "apply")
        /\ accepted' \in {accepted, temp}
        /\ UNCHANGED <<sel, lock, planned>>
    BY <1>6 DEF Publish
  <2>2. stage'[p] = "apply" /\ \A q \in Agents \ {p} : stage'[q] = stage[q]
    BY <1>0, <2>1, GotoFacts DEF Stages
  <2>3. temp = sel[p].revision /\ sel[p].revision \in Vetted
    BY <1>0, <2>1 DEF PassHolds, PlanHolds, SelectionHolds, Accepting, Vetted
  <2>4. BaselineHolds(p)'
    BY <1>0, <1>2, <2>1, <2>2, <2>3
       DEF PassHolds, BaselineHolds, Selecting, Materialising, Accepting, Working
  <2>5. SelectionHolds(p)'
    BY <1>0, <1>1, <1>2, <2>1, <2>2
       DEF PassHolds, SelectionHolds, Follows, Materialising, Accepting, Working
  <2>6. PlanHolds(p)'
    BY <1>0, <1>1, <2>1, <2>2 DEF PassHolds, PlanHolds, Accepting, Working
  <2>7. accepted' \in (Vetted \cup {None})'
    BY <1>0, <1>2, <2>1, <2>3
  <2> QED
    BY <1>1, <2>1, <2>2, <2>4, <2>5, <2>6, <2>7, PassMoves DEF PassHolds
<1>7. CASE Apply(p) /\ ~End(p)
  <2>1. /\ stage[p] = "apply" /\ Goto(p, "hung")
        /\ UNCHANGED <<sel, lock, planned, accepted, temp>>
    BY <1>7 DEF Apply
  <2>2. stage'[p] = "hung" /\ \A q \in Agents \ {p} : stage'[q] = stage[q]
    BY <1>0, <2>1, GotoFacts DEF Stages
  <2>3. PassHolds(p)'
    <3>1. BaselineHolds(p)'
      BY <1>0, <1>2, <2>1, <2>2
         DEF PassHolds, BaselineHolds, Selecting, Materialising, Accepting, Working
    <3>2. SelectionHolds(p)'
      BY <1>0, <1>1, <1>2, <2>1, <2>2
         DEF PassHolds, SelectionHolds, Follows, Materialising, Accepting, Working
    <3>3. PlanHolds(p)'
      BY <1>0, <1>1, <2>1, <2>2 DEF PassHolds, PlanHolds, Accepting, Working
    <3> QED
      BY <3>1, <3>2, <3>3 DEF PassHolds
  <2> QED
    BY <1>0, <1>1, <1>2, <2>1, <2>2, <2>3, PassMoves
<1> QED
  BY <1>3, <1>4, <1>5, <1>6, <1>7 DEF Resolve, Apply

LEMMA AgentKeepsInv ==
  ASSUME Inv, NEW p \in Agents, AgentStep(p) \/ Crash(p), TypeOK'
  PROVE  Inv'
<1>0. TypeOK /\ stage \in [Agents -> Stages]
  BY DEF Inv, TypeOK
<1>1. CASE SelectStep(p)
  BY <1>1, SelectKeepsInv
<1>2. CASE Resolve(p) \/ WriteTemp(p) \/ Publish(p) \/ Apply(p)
  BY <1>2, PassStepKeepsInv
<1>3. CASE SelectFailed(p) \/ Timeout(p)
  <2>1. End(p) /\ ~Idle(p) /\ UNCHANGED <<setting, accepted, command>>
    BY <1>3 DEF SelectFailed, Timeout, Idle
  <2> QED
    BY <1>0, <2>1, EndFacts, PassStops DEF Idle
<1>4. CASE Crash(p)
  <2>1. /\ stage'[p] = "down" /\ \A q \in Agents \ {p} : stage'[q] = stage[q]
        /\ ~Idle(p) /\ lock' = Nobody /\ UNCHANGED <<setting, accepted, command>>
    BY <1>0, <1>4, GotoFacts DEF Crash, Idle, Stages
  <2> QED
    BY <2>1, PassStops DEF Idle
\* A pass begins, or an idle process stays idle.
<1>5. CASE Tick(p) \/ Restart(p)
  <2>1. /\ Idle(p) /\ stage[p] \in Stages
        /\ UNCHANGED <<setting, accepted, tree, sel, planned, temp, command>>
        /\ \/ lock = Nobody /\ lock' = p /\ Goto(p, "select")
           \/ lock' = lock /\ (Goto(p, "sleep") \/ UNCHANGED stage)
    BY <1>0, <1>5 DEF Tick, Take, Restart, Idle
  <2>2. /\ \/ lock = Nobody /\ lock' = p /\ stage'[p] = "select"
           \/ lock' = lock /\ stage'[p] \in {"sleep", "down"}
        /\ \A q \in Agents \ {p} : stage'[q] = stage[q]
    BY <1>0, <2>1, GotoFacts DEF Stages, Idle
  <2>3. OnePassAtATime'
    BY <2>1, <2>2, ProcessesAssumption DEF Inv, OnePassAtATime, Processes
  <2>4. PassHolds(p)'
    BY <2>2 DEF PassHolds, BaselineHolds, SelectionHolds, PlanHolds, Selecting,
                Materialising, Accepting, Working
  <2>5. \A q \in Agents \ {p} : PassHolds(q)'
    <3> TAKE q \in Agents \ {p}
    <3>1. PassHolds(q) /\ stage'[q] = stage[q]
      BY <2>2 DEF Inv
    <3> QED
      BY <2>1, <3>1 DEF PassHolds, BaselineHolds, SelectionHolds, PlanHolds, Follows, Vetted, Vouched
  <2>6. accepted' \in (Vetted \cup {None})'
    BY <2>1 DEF Inv, Vetted, Vouched
  <2> QED
    BY <2>3, <2>4, <2>5, <2>6 DEF Inv
<1> QED
  BY <1>1, <1>2, <1>3, <1>4, <1>5 DEF AgentStep

LEMMA OthersKeepInv ==
  ASSUME Inv, TypeOK',
         (\E c \in Reconciles : CommandStep(c)) \/ People \/ UNCHANGED vars
  PROVE  Inv'
<1>1. /\ UNCHANGED <<setting, tree, stage, sel, planned, temp>>
      /\ accepted' \in {accepted, None}
  BY DEF CommandStep, Reconcile, ReconcileEnds, People, Push, Clear, vars, sourceVars
<1>2. \A q \in Agents : PassHolds(q)'
  <2> TAKE q \in Agents
  <2>1. PassHolds(q)
    BY DEF Inv
  <2> QED
    BY <1>1, <2>1 DEF PassHolds, BaselineHolds, SelectionHolds, PlanHolds, Follows, Vetted, Vouched
<1>3. accepted' \in (Vetted \cup {None})'
  BY <1>1 DEF Inv, Vetted, Vouched
<1>4. OnePassAtATime'
  <2>1. CASE UNCHANGED <<lock, command>>
    BY <1>1, <2>1 DEF Inv, OnePassAtATime
  <2>2. ASSUME NEW c \in Reconciles, CommandStep(c) PROVE OnePassAtATime'
    <3>1. command \in [Reconciles -> {"out", "waiting", "in", "done"}]
      BY DEF Inv, TypeOK
    <3>2. CASE Reconcile(c) /\ Take(c)
      BY <1>1, <3>1, <3>2, ProcessesAssumption
         DEF Reconcile, Take, Inv, OnePassAtATime, Processes
    <3>3. CASE Reconcile(c) /\ ~Take(c)
      BY <1>1, <3>1, <3>3 DEF Reconcile, Inv, OnePassAtATime
    <3>4. CASE ReconcileEnds(c)
      BY <1>1, <3>1, <3>4, ProcessesAssumption DEF ReconcileEnds, Inv, OnePassAtATime
    <3> QED
      BY <2>2, <3>2, <3>3, <3>4 DEF CommandStep
  <2> QED
    BY <2>1, <2>2 DEF People, vars
<1> QED
  BY <1>2, <1>3, <1>4 DEF Inv

LEMMA InvInit == Init => Inv
<1> SUFFICES ASSUME Init PROVE Inv
  OBVIOUS
<1> USE DEF Init, SourceInit
<1>1. TypeOK
  <2>1. setting \in Setting /\ remote \in [tip : Commits, tags : SUBSET Commits]
    BY SettingsAssumption
  <2>2. Vouched \subseteq Commits
    BY <2>1 DEF Setting, Vouched
  <2>3. Blank \in [accepted : Revision, revision : Revision, cause : Causes]
    BY DEF Blank, Revision, Causes
  <2> QED
    BY <2>1, <2>2, <2>3, CloneFacts, BoundsAssumption DEF TypeOK, Clone, Revision, Stages
<1>2. OnePassAtATime
  BY DEF OnePassAtATime
<1>3. \A p \in Agents : PassHolds(p)
  BY IdlePassHolds DEF Idle
<1> QED
  BY <1>1, <1>2, <1>3 DEF Inv, Vetted

(* Every reachable state satisfies the inductive invariant.                *)
THEOREM AgentInvariant == Spec => []Inv
<1>1. Inv /\ [Next]_vars => Inv'
  <2> SUFFICES ASSUME Inv, [Next]_vars PROVE Inv'
    OBVIOUS
  <2>1. TypeOK'
    BY TypesAreKept DEF Inv
  <2>2. CASE \E p \in Agents : AgentStep(p) \/ Crash(p)
    BY <2>1, <2>2, AgentKeepsInv
  <2>3. CASE (\E c \in Reconciles : CommandStep(c)) \/ People \/ UNCHANGED vars
    BY <2>1, <2>3, OthersKeepInv
  <2> QED
    BY <2>2, <2>3 DEF Next
<1> QED
  BY InvInit, <1>1, PTL DEF Spec

(* What the agents share and what each of them remembers keeps its type.   *)
THEOREM AgentTypeOK == Spec => []TypeOK
<1>1. Inv => TypeOK
  BY DEF Inv
<1> QED
  BY AgentInvariant, <1>1, PTL

(* However many agents were started and commands are run on a host, one    *)
(* process at a time is between taking the lock and ending its pass        *)
(* (locking.md:41-51).                                                     *)
THEOREM AgentMutualExclusion == Spec => []OnePassAtATime
<1>1. Inv => OnePassAtATime
  BY DEF Inv
<1> QED
  BY AgentInvariant, <1>1, PTL

(* A pass that applies reads the tree it planned from and selected         *)
(* (source.go:309-320, agent.go:159-172).                                  *)
THEOREM AgentTree == Spec => []TreeIsPlanned
<1>1. Inv => TreeIsPlanned
  BY DEF Inv, PassHolds, PlanHolds, TreeIsPlanned, Applying, Accepting, Working
<1> QED
  BY AgentInvariant, <1>1, PTL

(* In any history a pass applies only what verifies and resolves, and      *)
(* under the descendant requirement nothing that does not follow what the  *)
(* host has accepted (last-known-good.md:86-98).                           *)
THEOREM AgentNothingOlder == Spec => []AppliesNothingOlder
<1>1. Inv => AppliesNothingOlder
  <2> SUFFICES ASSUME Inv, NEW p \in Agents, Applying(p)
               PROVE  /\ planned[p] \in Vetted
                      /\ setting.descendant /\ accepted # None => IsAncestor(accepted, planned[p])
    BY DEF AppliesNothingOlder
  <2>1. PassHolds(p) /\ stage[p] \in Accepting \cup Working /\ TypeOK
    BY DEF Inv, Applying, Accepting, Working
  <2>2. /\ planned[p] = sel[p].revision /\ planned[p] \in Vetted
        /\ Follows(sel[p].accepted, sel[p].revision)
    BY <2>1 DEF PassHolds, PlanHolds, SelectionHolds, Vetted
  <2>3. accepted \in {sel[p].accepted, sel[p].revision, None}
    BY <2>1 DEF PassHolds, BaselineHolds, Accepting, Working
  <2>4. Follows(sel[p].revision, sel[p].revision)
    BY <2>1, <2>2, SettingFacts, FollowsFacts
  <2> QED
    BY <2>2, <2>3, <2>4 DEF Follows
<1> QED
  BY AgentInvariant, <1>1, PTL

(* Selecting, falling back, writing and renaming the pointer, crashes and  *)
(* clears, by any number of agents in any history, amount to the ratchet   *)
(* (revision.go:9-11).                                                     *)
THEOREM AgentKeepsRatchet == Spec => KeepsRatchet
<1> USE DEF Ratchet!IsAncestor, IsAncestor
<1>1. Init => Ratchet!Init
  BY DEF Init, SourceInit, Ratchet!Init, Vetted
<1>2. Inv /\ [Next]_vars => [Ratchet!Next]_(Ratchet!vars)
  <2> SUFFICES ASSUME Inv, [Next]_vars PROVE [Ratchet!Next]_(Ratchet!vars)
    OBVIOUS
  <2>1. UNCHANGED setting
    BY DEF Next, AgentStep, Tick, SelectStep, Select, ReadPointer, EnsureClone, Fetch, Choose,
           Replace, Checkout, SelectFailed, Resolve, WriteTemp, Publish, Apply, Timeout, Restart,
           Crash, CommandStep, Reconcile, ReconcileEnds, People, Push, Clear, sourceVars, vars
  <2>2. Vetted' = Vetted
    BY <2>1 DEF Vetted, Vouched
  <2>3. CASE UNCHANGED accepted
    BY <2>1, <2>2, <2>3 DEF Ratchet!vars
  <2>4. CASE accepted' = None
    BY <2>1, <2>2, <2>4 DEF Ratchet!Next, Ratchet!Forget
  <2>5. ASSUME NEW p \in Agents, Publish(p), accepted' = temp
        PROVE  Ratchet!Next
    <3>1. PassHolds(p) /\ stage[p] = "publish" /\ TypeOK
      BY <2>5 DEF Inv, Publish
    <3>2. temp \in Vetted /\ Follows(accepted, temp)
      <4>1. temp = sel[p].revision /\ temp \in Vetted /\ Follows(sel[p].accepted, temp)
        BY <3>1 DEF PassHolds, PlanHolds, SelectionHolds, Accepting, Vetted
      <4>2. accepted \in {sel[p].accepted, None}
        BY <3>1 DEF PassHolds, BaselineHolds, Accepting
      <4> QED
        BY <4>1, <4>2 DEF Follows
    <3>3. temp \in Commits
      BY <3>1, <3>2, SettingFacts
    <3>4. Ratchet!Advance(temp)
      BY <2>1, <2>2, <2>5, <3>2 DEF Ratchet!Advance, Follows
    <3> QED
      BY <3>3, <3>4 DEF Ratchet!Next
  <2>6. \/ accepted' \in {accepted, None}
        \/ \E p \in Agents : Publish(p) /\ accepted' = temp
    BY DEF Next, AgentStep, Tick, SelectStep, Select, ReadPointer, EnsureClone, Fetch, Choose,
           Replace, Checkout, SelectFailed, Resolve, WriteTemp, Publish, Apply, Timeout, Restart,
           Crash, CommandStep, Reconcile, ReconcileEnds, People, Push, Clear, sourceVars, vars
  <2> QED
    BY <2>3, <2>4, <2>5, <2>6
<1> QED
  BY AgentInvariant, <1>1, <1>2, PTL DEF Spec, KeepsRatchet, Ratchet!Spec

=============================================================================

----------------------------- MODULE PassProofs -----------------------------
(***************************************************************************)
(* Proofs about module Pass, for every manifest, graph, provider set and   *)
(* number of faults.  First its order: types, that nothing is acted on     *)
(* behind a failure, and that passes implement PassContract.  Then what it *)
(* reports: that verdicts and the outcome are true of the host, that       *)
(* reactions have a cause and none is left out of a changed pass, and that *)
(* a pass over a settled host acts on nothing.                             *)
(***************************************************************************)
EXTENDS Pass, TLAPS

USE NAssumption, FaultsAssumption

(* A search finds the successors it may enter, everything they lead to,    *)
(* and in a graph in order only what comes later.                          *)
LEMMA ReachedFacts ==
  ASSUME TypeOK, NEW r \in Resources, NEW B \in SUBSET Resources
  PROVE  /\ Successors(r) \ B \subseteq Reached(r, B)
         /\ \A q \in Reached(r, B) : Successors(q) \ B \subseteq Reached(r, B)
         /\ Reached(r, B) \subseteq Resources
         /\ \A q \in Reached(r, B) : q > r
<1>1. \A q \in Resources : Successors(q) \subseteq {p \in Resources : p > q}
  BY WorldsAssumption DEF TypeOK, StateShape, World, Edge, Edges, Successors, Resources
<1> DEFINE later == {p \in Resources : p > r}
<1>2. /\ Successors(r) \ B \subseteq later
      /\ \A q \in later : Successors(q) \ B \subseteq later
  BY <1>1 DEF Resources
<1>3. Reached(r, B) \subseteq later
  BY <1>2 DEF Reached
<1>4. Successors(r) \ B \subseteq Reached(r, B)
  BY <1>1 DEF Reached
<1>5. ASSUME NEW q \in Reached(r, B), NEW p \in Successors(q) \ B
      PROVE  p \in Reached(r, B)
  BY <1>1, <1>5 DEF Reached
<1> QED
  BY <1>3, <1>4, <1>5

(* Blocking everything downstream of a resource that fails leaves a map    *)
(* every successor of an unsound resource stands in, and adds only later   *)
(* resources to it.                                                        *)
LEMMA BlockFacts ==
  ASSUME TypeOK, UnsoundSpreads, NEW r \in Resources
  PROVE  /\ Block(r, blocked) \subseteq Resources
         /\ blocked \subseteq Block(r, blocked)
         /\ \A q \in Block(r, blocked) \ blocked : q > r
         /\ \A e \in Edges : e.from \in failed \cup {r} \cup Block(r, blocked)
                                => e.to \in Block(r, blocked)
<1> DEFINE found == Reached(r, blocked)
<1>1. blocked \in SUBSET Resources
  BY DEF TypeOK, StateShape
<1>2. /\ Successors(r) \ blocked \subseteq found
      /\ \A q \in found : Successors(q) \ blocked \subseteq found
      /\ found \subseteq Resources
      /\ \A q \in found : q > r
  BY <1>1, ReachedFacts
<1>3. \A e \in Edges : e.to \in Successors(e.from)
  BY DEF Successors
<1>4. ASSUME NEW e \in Edges, e.from \in failed \cup {r} \cup Block(r, blocked)
      PROVE  e.to \in Block(r, blocked)
  BY <1>2, <1>3, <1>4 DEF Block, UnsoundSpreads
<1> QED
  BY <1>1, <1>2, <1>4 DEF Block

-----------------------------------------------------------------------------
(* Types.                                                                  *)

LEMMA PlannedType ==
  ASSUME StateShape, NEW r \in Resources
  PROVE  Planned(r) \in Step
<1> DEFINE own == IF seen[r] = "unserved" THEN "skip"
                  ELSE IF seen[r] = "error" THEN "none" ELSE Decide(world.wanted[r], seen[r])
<1>1. own \in Actions
  BY DEF Actions, Decide
<1>2. (IF Fired(r) # {} /\ own = "none" THEN "update" ELSE own) \in Actions
  BY <1>1 DEF Actions
<1> HIDE DEF own
<1>3. Planned(r) = [action  |-> IF Fired(r) # {} /\ own = "none" THEN "update" ELSE own,
                    trigger |-> Fired(r) # {}, err |-> seen[r] = "error"]
  BY DEF Planned, own
<1>4. ASSUME NEW a \in Actions, NEW t \in BOOLEAN, NEW e \in BOOLEAN
      PROVE  [action |-> a, trigger |-> t, err |-> e] \in Step
  BY DEF Step
<1>5. (Fired(r) # {}) \in BOOLEAN /\ (seen[r] = "error") \in BOOLEAN
  OBVIOUS
<1> QED
  BY <1>2, <1>3, <1>4, <1>5, Zenon

LEMMA SettleType ==
  ASSUME TypeOK, UnsoundSpreads, at \in Resources,
         NEW s \in Verdicts, NEW err \in BOOLEAN, Settle(s, err)
  PROVE  /\ verdict' \in [Resources -> Verdicts]
         /\ failed' \subseteq Resources
         /\ blocked' \subseteq Resources
         /\ phase' = "apply"
         /\ at' \in 1..(N + 1)
<1>1. Block(at, blocked) \subseteq Resources
  BY BlockFacts
<1>2. verdict' = [verdict EXCEPT ![at] = s] /\ phase' = "apply" /\ at' = at + 1
  BY DEF Settle
<1>3. CASE err
  <2>1. failed' = failed \cup {at} /\ blocked' = Block(at, blocked)
    BY <1>3 DEF Settle
  <2> QED
    BY <1>1, <1>2, <2>1 DEF TypeOK, StateShape, Resources
<1>4. CASE ~err
  <2>1. failed' = failed /\ blocked' = blocked
    BY <1>4 DEF Settle
  <2> QED
    BY <1>2, <2>1 DEF TypeOK, StateShape, Resources
<1> QED
  BY <1>3, <1>4

LEMMA AtInside ==
  ASSUME StateShape
  PROVE  /\ phase \in {"observe", "plan", "verify"} => at \in Resources
         /\ at <= N => at \in Resources
BY DEF StateShape, Resources

LEMMA FlagStep == Flags /\ [Next]_vars => Flags'
<1> SUFFICES ASSUME Flags, [Next]_vars PROVE Flags'
  OBVIOUS
<1>1. Fault \/ NoFault => calm' \in BOOLEAN /\ settled' \in BOOLEAN
  BY DEF Fault, NoFault, Flags
<1>2. CASE Begin
  <2>1. settled' \in BOOLEAN
    BY <1>2 DEF Begin
  <2> QED
    BY <1>2, <2>1 DEF Begin, Flags
<1>3. CASE ObserveNext \/ PlanNext \/ ReportWithoutActing \/ VerifyNext \/ Finish \/ Abandon
             \/ \E r \in Resources : Drift(r)
  <2>1. (Fault \/ NoFault) /\ applied' = applied
    BY <1>3 DEF ObserveNext, PlanNext, ReportWithoutActing, VerifyNext, Finish, Abandon, Drift
  <2> QED
    BY <1>1, <2>1 DEF Flags
<1>4. CASE EnforceRefused \/ ApplyFails \/ ApplySucceeds
  <2>1. (Fault \/ NoFault) /\ applied' = TRUE
    BY <1>4 DEF EnforceRefused, ApplyFails, ApplySucceeds
  <2> QED
    BY <1>1, <2>1 DEF Flags
<1>5. CASE UNCHANGED vars
  BY <1>5 DEF vars, Flags
<1> QED
  BY <1>2, <1>3, <1>4, <1>5 DEF Next, Agent

LEMMA TypeInit == Init => TypeOK
<1> SUFFICES ASSUME Init PROVE TypeOK
  OBVIOUS
<1>1. NoStep \in Step
  BY DEF NoStep, Step, Actions
<1>2. Flags
  BY DEF Init, Flags
<1>3. StateShape
  BY <1>1 DEF Init, StateShape, Resources, Targets, Verdicts, Outcomes
<1> QED
  BY <1>2, <1>3 DEF TypeOK

LEMMA ShapeStep == TypeOK /\ UnsoundSpreads /\ [Next]_vars => StateShape'
<1> SUFFICES ASSUME TypeOK, UnsoundSpreads, [Next]_vars PROVE StateShape'
  OBVIOUS
<1> StateShape
  BY DEF TypeOK
<1> USE AtInside
<1>0. Fault \/ NoFault => faults' \in 0..MaxFaults
  BY DEF Fault, NoFault, StateShape
<1>1. CASE Begin
  <2>1. NoStep \in Step
    BY DEF NoStep, Step, Actions
  <2> QED
    BY <1>1, <2>1 DEF Begin, BlockedAtStart, StateShape, Resources, Verdicts
<1>2. CASE ObserveNext
  <2>1. at \in Resources /\ (Fault \/ NoFault)
    BY <1>2 DEF ObserveNext
  <2>2. /\ seen' \in [Resources -> Targets \cup {"unread", "unserved", "error"}]
        /\ stale' \subseteq Resources
    BY <1>2, <2>1 DEF ObserveNext, StateShape
  <2>3. /\ phase' \in {"observe", "plan"} /\ at' \in 1..N
    BY <1>2, <2>1 DEF ObserveNext, Advance, StateShape, Resources
  <2> QED
    BY <1>0, <1>2, <2>1, <2>2, <2>3 DEF ObserveNext, StateShape
<1>3. CASE PlanNext
  <2>1. at \in Resources /\ Planned(at) \in Step
    BY <1>3, PlannedType DEF PlanNext
  <2>2. /\ phase' \in {"plan", "apply"} /\ at' \in 1..N
    BY <1>3, <2>1 DEF PlanNext, Advance, StateShape, Resources
  <2> QED
    BY <1>0, <1>3, <2>1, <2>2 DEF PlanNext, StateShape
<1>4. CASE ReportWithoutActing
  <2>1. /\ at \in Resources
        /\ \E s \in Verdicts, err \in BOOLEAN : Settle(s, err)
    BY <1>4 DEF ReportWithoutActing, Branch, Verdicts
  <2> QED
    BY <1>0, <1>4, <2>1, SettleType DEF ReportWithoutActing, StateShape
<1>5. CASE EnforceRefused
  <2>1. Settle("failed", TRUE) /\ "failed" \in Verdicts /\ at \in Resources
    BY <1>5 DEF EnforceRefused, Verdicts
  <2> QED
    BY <1>0, <1>5, <2>1, SettleType DEF EnforceRefused, StateShape
<1>6. CASE ApplyFails
  <2>1. Settle("failed", TRUE) /\ "failed" \in Verdicts /\ at \in Resources
    BY <1>6 DEF ApplyFails, Verdicts
  <2>2. host' \in [Resources -> Targets] /\ owed' \subseteq world.edges
    BY <1>6, <2>1 DEF ApplyFails, StateShape, Possible, Targets, TriggersFrom, Edges
  <2>3. touched' \subseteq Resources
    BY <1>6, <2>1 DEF ApplyFails, StateShape
  <2> QED
    BY <1>0, <1>6, <2>1, <2>2, <2>3, SettleType DEF ApplyFails, StateShape
<1>7. CASE ApplySucceeds
  <2>1. at \in Resources /\ (Fault \/ NoFault)
    BY <1>7 DEF ApplySucceeds
  <2>2. host' \in [Resources -> Targets] /\ owed' \subseteq world.edges
    BY <1>7, <2>1 DEF ApplySucceeds, StateShape, Possible, Targets, TriggersFrom, TriggersInto, Edges
  <2> QED
    BY <1>0, <1>7, <2>1, <2>2 DEF ApplySucceeds, StateShape, Resources
<1>8. CASE VerifyNext
  <2>1. /\ at \in Resources /\ (Fault \/ NoFault)
        /\ \E s \in Verdicts, err \in BOOLEAN : Settle(s, err)
    BY <1>8 DEF VerifyNext, Verify, Verdicts
  <2> QED
    BY <1>0, <1>8, <2>1, SettleType DEF VerifyNext, StateShape
<1>9. CASE Finish
  BY <1>0, <1>9 DEF Finish, OutcomeOf, Outcomes, StateShape
<1>10. CASE Abandon
  BY <1>0, <1>10 DEF Abandon, Outcomes, StateShape
<1>11. ASSUME NEW r \in Resources, Drift(r) PROVE StateShape'
  BY <1>0, <1>11 DEF Drift, Possible, Targets, StateShape
<1>12. CASE UNCHANGED vars
  BY <1>12 DEF vars, StateShape
<1> QED
  BY <1>1, <1>2, <1>3, <1>4, <1>5, <1>6, <1>7, <1>8, <1>9, <1>10, <1>11, <1>12 DEF Next, Agent

-----------------------------------------------------------------------------
(* The inductive invariant.                                                *)

\* A verdict that says what Settle records, on a resource whose turn it is.
Due(s, err) ==
  /\ phase \in {"apply", "verify"}
  /\ at \in Resources
  /\ Settle(s, err)
  /\ world' = world
  /\ s = "failed" => err
  /\ s = "blocked" => at \in blocked
  /\ touched' \in {touched, touched \cup {at}}
  /\ at \in touched' => at \notin blocked

LEMMA DueKeeps ==
  ASSUME IInv, NEW s \in Verdicts \ {"waiting"}, NEW err \in BOOLEAN, Due(s, err)
  PROVE  UnsoundSpreads' /\ ActedInOrder' /\ LoopPosition'
<1>1. /\ verdict' = [verdict EXCEPT ![at] = s]
      /\ phase' = "apply" /\ at' = at + 1 /\ at \in Resources
      /\ failed' = IF err THEN failed \cup {at} ELSE failed
      /\ blocked' = IF err THEN Block(at, blocked) ELSE blocked
  BY DEF Due, Settle
<1>2. \A r \in Resources : verdict'[r] = IF r = at THEN s ELSE verdict[r]
  BY <1>1 DEF IInv, TypeOK, StateShape
<1>3. /\ blocked \subseteq blocked'
      /\ \A r \in blocked' \ blocked : r > at
      /\ \A e \in Edges : e.from \in failed' \cup blocked' => e.to \in blocked'
  <2>1. CASE err
    BY <1>1, <2>1, BlockFacts DEF IInv
  <2>2. CASE ~err
    BY <1>1, <2>2 DEF IInv, UnsoundSpreads
  <2> QED
    BY <2>1, <2>2
<1>4. Edges' = Edges
  BY DEF Due, Edges
<1>5. failed \subseteq failed' /\ (err => at \in failed')
  BY <1>1
<1>6. UnsoundSpreads'
  <2>1. \A r \in Resources : verdict[r] = "failed" => r \in failed
    BY DEF IInv, UnsoundSpreads
  <2>2. \A r \in Resources : verdict'[r] = "failed" => r \in failed'
    BY <1>2, <1>5, <2>1 DEF Due
  <2>3. \A r \in Resources : verdict'[r] = "blocked" => r \in blocked'
    BY <1>2, <1>3 DEF IInv, UnsoundSpreads, Due
  <2> QED
    BY <1>3, <1>4, <2>2, <2>3 DEF UnsoundSpreads
<1>7. \A r \in Resources : verdict[r] = "waiting" <=> r >= at
  BY DEF Due, IInv, LoopPosition
<1>8. \A r \in touched' : r \in Resources /\ r <= at
  BY <1>1 DEF Due, IInv, LoopPosition, TypeOK, StateShape, Resources
<1>9. \A r \in Resources : verdict'[r] = "waiting" <=> r >= at + 1
  BY <1>1, <1>2, <1>7 DEF Resources
<1>10. ActedInOrder'
  <2>1. \A r \in touched' : r \notin blocked'
    BY <1>1, <1>3, <1>8 DEF Due, IInv, ActedInOrder, Resources
  <2>2. \A r \in touched' : \A d \in 1..(r - 1) : d \in Resources /\ ~(d >= at + 1)
    BY <1>1, <1>8 DEF Resources
  <2> QED
    BY <1>9, <2>1, <2>2 DEF ActedInOrder
<1>11. LoopPosition'
  <2>1. \A r \in failed' : r \in Resources /\ (r = at \/ r \in failed)
    BY <1>1 DEF IInv, TypeOK, StateShape
  <2>2. \A r \in failed' : verdict'[r] # "waiting"
    BY <1>2, <2>1 DEF IInv, LoopPosition
  <2>3. \A r \in touched' : r < at + 1
    BY <1>1, <1>8 DEF Resources
  <2> QED
    BY <1>1, <1>9, <2>2, <2>3 DEF LoopPosition
<1> QED
  BY <1>6, <1>10, <1>11

(* The steps that settle a resource, each with what it settles it with.    *)
LEMMA SettlingSteps ==
  ASSUME IInv, ReportWithoutActing \/ EnforceRefused \/ ApplyFails \/ VerifyNext
  PROVE  \E s \in Verdicts \ {"waiting"}, err \in BOOLEAN : Due(s, err)
<1>0. phase = "verify" => at \in touched /\ at \notin blocked
  BY DEF IInv, LoopPosition, ActedInOrder
<1>1. phase = "apply" /\ at <= N => at \in Resources /\ at \notin touched
  BY AtInside DEF IInv, TypeOK, LoopPosition, StateShape, Resources
<1>2. CASE ReportWithoutActing
  <2>1. at \in Resources /\ at \notin touched /\ phase = "apply"
    BY <1>1, <1>2 DEF ReportWithoutActing
  <2>2. CASE Branch(at) = "unread"
    <3>1. Due("failed", TRUE)
      BY <1>2, <2>1, <2>2 DEF ReportWithoutActing, Due
    <3> QED
      BY <3>1 DEF Verdicts
  <2>3. CASE Branch(at) # "unread"
    <3>1. Branch(at) \in Verdicts \ {"waiting", "failed"}
      BY <1>2, <2>3 DEF ReportWithoutActing, Branch, Verdicts
    <3>2. Branch(at) = "blocked" => at \in blocked
      BY DEF Branch
    <3>3. Due(Branch(at), FALSE)
      BY <1>2, <2>1, <2>3, <3>1, <3>2 DEF ReportWithoutActing, Due
    <3> QED
      BY <3>1, <3>3
  <2> QED
    BY <2>2, <2>3
<1>3. CASE EnforceRefused
  <2>1. Due("failed", TRUE)
    BY <1>1, <1>3 DEF EnforceRefused, Due
  <2> QED
    BY <2>1 DEF Verdicts
<1>4. CASE ApplyFails
  <2>1. at \notin blocked
    BY <1>4 DEF ApplyFails, Branch
  <2>2. Due("failed", TRUE)
    BY <1>1, <1>4, <2>1 DEF ApplyFails, Due
  <2> QED
    BY <2>2 DEF Verdicts
<1>5. CASE VerifyNext
  <2>1. at \in Resources /\ phase = "verify"
    BY <1>5, AtInside DEF VerifyNext, IInv, TypeOK
  <2>2. CASE Settle("failed", TRUE)
    <3>1. Due("failed", TRUE)
      BY <1>0, <1>5, <2>1, <2>2 DEF VerifyNext, Due
    <3> QED
      BY <3>1 DEF Verdicts
  <2>3. ASSUME NEW v, v = Verify(world.wanted[at], host[at]), Settle(v.state, v.err)
        PROVE  \E s \in Verdicts \ {"waiting"}, err \in BOOLEAN : Due(s, err)
    <3>1. /\ v.state \in {"drifted", "converged"}
          /\ v.err \in BOOLEAN
      BY <2>3 DEF Verify
    <3>2. Due(v.state, v.err)
      BY <1>0, <1>5, <2>1, <2>3, <3>1 DEF VerifyNext, Due
    <3> QED
      BY <3>1, <3>2 DEF Verdicts
  <2> QED
    BY <1>5, <2>2, <2>3 DEF VerifyNext
<1> QED
  BY <1>2, <1>3, <1>4, <1>5

LEMMA InvInit == Init => IInv
<1> SUFFICES ASSUME Init PROVE IInv
  OBVIOUS
<1>1. UnsoundSpreads
  BY DEF Init, UnsoundSpreads
<1>2. ActedInOrder /\ LoopPosition
  BY DEF Init, ActedInOrder, LoopPosition
<1> QED
  BY <1>1, <1>2, TypeInit DEF IInv

LEMMA InvStep == IInv /\ [Next]_vars => IInv'
<1> SUFFICES ASSUME IInv, [Next]_vars PROVE UnsoundSpreads' /\ ActedInOrder' /\ LoopPosition'
  BY ShapeStep, FlagStep DEF TypeOK, IInv
<1> TypeOK /\ StateShape /\ Flags /\ UnsoundSpreads /\ ActedInOrder /\ LoopPosition
  BY DEF IInv, TypeOK
<1>1. CASE Begin
  <2>1. Edges' = Edges
    BY <1>1 DEF Begin, Edges
  <2>2. failed' = {} /\ blocked' = {} /\ touched' = {} /\ phase' = "observe"
    BY <1>1 DEF Begin, BlockedAtStart
  <2>3. \A r \in Resources : verdict'[r] = "waiting"
    BY <1>1 DEF Begin
  <2> QED
    BY <2>1, <2>2, <2>3 DEF UnsoundSpreads, ActedInOrder, LoopPosition
<1>2. CASE ObserveNext
  <2>1. /\ phase' \in {"observe", "plan"}
        /\ phase = "observe"
    BY <1>2 DEF ObserveNext, Advance
  <2> QED
    BY <1>2, <2>1 DEF ObserveNext, UnsoundSpreads, ActedInOrder, LoopPosition, Edges
<1>3. CASE PlanNext
  <2>1. /\ phase = "plan" /\ at \in Resources
        /\ phase' = "plan" \/ (phase' = "apply" /\ at' = 1)
    BY <1>3, AtInside DEF PlanNext, Advance
  <2>2. /\ UNCHANGED <<world, verdict, failed, blocked, touched>>
        /\ touched = {} /\ failed = {} /\ blocked = {}
        /\ \A r \in Resources : verdict[r] = "waiting"
    BY <1>3, <2>1 DEF PlanNext, LoopPosition
  <2>3. \A r \in Resources : r >= 1
    BY DEF Resources
  <2> QED
    BY <2>1, <2>2, <2>3 DEF UnsoundSpreads, ActedInOrder, LoopPosition, Edges
<1>4. CASE ReportWithoutActing \/ EnforceRefused \/ ApplyFails \/ VerifyNext
  BY <1>4, SettlingSteps, DueKeeps
<1>5. CASE ApplySucceeds
  <2>1. /\ phase = "apply" /\ at \in Resources /\ at \notin blocked
    BY <1>5, AtInside DEF ApplySucceeds, Branch
  <2>2. /\ phase' = "verify"
        /\ UNCHANGED <<world, at, verdict, failed, blocked>>
        /\ touched' = touched \cup {at}
    BY <1>5 DEF ApplySucceeds
  <2>3. UnsoundSpreads'
    BY <2>2 DEF UnsoundSpreads, Edges
  <2>4. \A d \in 1..(at - 1) : verdict[d] # "waiting"
    BY <2>1 DEF LoopPosition, Resources
  <2>5. ActedInOrder'
    BY <2>1, <2>2, <2>4 DEF ActedInOrder
  <2>6. \A r \in touched' : r <= at
    BY <2>1, <2>2 DEF LoopPosition, StateShape, Resources
  <2>7. LoopPosition'
    BY <2>1, <2>2, <2>6 DEF LoopPosition
  <2> QED
    BY <2>3, <2>5, <2>7
<1>6. CASE Finish
  BY <1>6 DEF Finish, UnsoundSpreads, ActedInOrder, LoopPosition, Edges
<1>7. CASE Abandon
  BY <1>7 DEF Abandon, UnsoundSpreads, ActedInOrder, LoopPosition, Edges
<1>8. ASSUME NEW r \in Resources, Drift(r)
      PROVE  UnsoundSpreads' /\ ActedInOrder' /\ LoopPosition'
  BY <1>8 DEF Drift, UnsoundSpreads, ActedInOrder, LoopPosition, Edges
<1>9. CASE UNCHANGED vars
  BY <1>9 DEF vars, UnsoundSpreads, ActedInOrder, LoopPosition, Edges
<1> QED
  BY <1>1, <1>2, <1>3, <1>4, <1>5, <1>6, <1>7, <1>8, <1>9 DEF Next, Agent

(* The inductive invariant holds in every reachable state.                 *)
THEOREM PassInvariant == Spec => []IInv
<1>1. Init => IInv
  BY InvInit
<1>2. IInv /\ [Next]_vars => IInv'
  BY InvStep
<1> QED
  BY <1>1, <1>2, PTL DEF Spec

(* Every variable keeps its type: the loops of observe.Host, plan.Build    *)
(* and reconcile.Apply stay inside the graph's order.                      *)
THEOREM PassTypeOK == Spec => []TypeOK
<1>1. IInv => TypeOK
  BY DEF IInv
<1> QED
  BY <1>1, PassInvariant, PTL

(* Whatever is behind an unsound resource is in the blocked map, at any    *)
(* distance.                                                               *)
LEMMA UnsoundReaches ==
  ASSUME TypeOK, UnsoundSpreads, NEW d \in failed \cup blocked
  PROVE  Downstream(d) \subseteq blocked
<1>1. \A e \in Edges : e.from \in failed \cup blocked => e.to \in blocked
  BY DEF UnsoundSpreads
<1>2. Successors(d) \subseteq blocked /\ \A q \in blocked : Successors(q) \subseteq blocked
  BY <1>1 DEF Successors
<1>3. blocked \in SUBSET Resources
  BY DEF TypeOK, StateShape
<1> QED
  BY <1>2, <1>3 DEF Downstream, Reached

(* In any graph, with any drift, errors and abandoned passes, a resource   *)
(* is acted on only after everything it waits for was settled without an   *)
(* error in the same pass.                                                 *)
THEOREM PassPrerequisites == Spec => []PrerequisitesHold
<1>1. IInv => PrerequisitesHold
  <2> SUFFICES ASSUME IInv, NEW r \in touched, NEW d \in Resources, r \in Downstream(d)
               PROVE  verdict[d] \in {"converged", "drifted", "skipped"} /\ d \notin failed
    BY DEF PrerequisitesHold
  <2>1. TypeOK /\ StateShape /\ UnsoundSpreads /\ ActedInOrder
    BY DEF IInv, TypeOK
  <2>2. r > d /\ r \in Resources
    BY <2>1, ReachedFacts DEF Downstream
  <2>3. verdict[d] # "waiting"
    BY <2>1, <2>2 DEF ActedInOrder, Resources
  <2>4. d \notin failed /\ d \notin blocked
    BY <2>1, UnsoundReaches DEF ActedInOrder
  <2>5. verdict[d] # "failed" /\ verdict[d] # "blocked"
    BY <2>1, <2>4 DEF UnsoundSpreads
  <2>6. verdict[d] \in Verdicts
    BY <2>1 DEF StateShape
  <2> QED
    BY <2>3, <2>4, <2>5, <2>6 DEF Verdicts
<1> QED
  BY <1>1, PassInvariant, PTL

-----------------------------------------------------------------------------
(* A failure stops nothing but what waits for it.                          *)

\* Every key of the blocked map is downstream of a resource that failed.
BlockedHasACause == \A r \in blocked : \E d \in failed : r \in Downstream(d)

(* Skipping what is blocked already finds nothing the search would not.    *)
LEMMA ReachedShrinks ==
  ASSUME NEW r \in Resources, NEW B \in SUBSET Resources
  PROVE  Reached(r, B) \subseteq Downstream(r)
<1>1. \A S : Successors(r) \ {} \subseteq S => Successors(r) \ B \subseteq S
  OBVIOUS
<1>2. \A S \in SUBSET Resources :
        (\A q \in S : Successors(q) \ {} \subseteq S) => (\A q \in S : Successors(q) \ B \subseteq S)
  OBVIOUS
<1> QED
  BY <1>1, <1>2 DEF Downstream, Reached

LEMMA CauseStep == IInv /\ BlockedHasACause /\ [Next]_vars => BlockedHasACause'
<1> SUFFICES ASSUME IInv, BlockedHasACause, [Next]_vars PROVE BlockedHasACause'
  OBVIOUS
<1>1. world' = world => \A d \in Resources : Downstream(d)' = Downstream(d)
  BY DEF Downstream, Reached, Successors, Edges
<1>2. failed \in SUBSET Resources /\ blocked \in SUBSET Resources
  BY DEF IInv, TypeOK, StateShape
<1>3. ASSUME NEW s \in Verdicts, NEW err \in BOOLEAN, Due(s, err) PROVE BlockedHasACause'
  <2>1. world' = world /\ at \in Resources
    BY <1>3 DEF Due
  <2>2. CASE err
    <3>1. failed' = failed \cup {at} /\ blocked' = blocked \cup Reached(at, blocked)
      BY <1>3, <2>2 DEF Due, Settle, Block
    <3>2. Reached(at, blocked) \subseteq Downstream(at)
      BY <1>2, <2>1, ReachedShrinks
    <3> QED
      BY <1>1, <1>2, <2>1, <3>1, <3>2 DEF BlockedHasACause
  <2>3. CASE ~err
    BY <1>1, <1>2, <1>3, <2>1, <2>3 DEF Due, Settle, BlockedHasACause
  <2> QED
    BY <2>2, <2>3
<1>4. CASE Begin
  BY <1>4 DEF Begin, BlockedAtStart, BlockedHasACause
<1>5. CASE UNCHANGED <<world, failed, blocked>>
  BY <1>1, <1>2, <1>5 DEF BlockedHasACause
<1> QED
  BY <1>3, <1>4, <1>5, SettlingSteps
  DEF Next, Agent, ObserveNext, PlanNext, ApplySucceeds, Finish, Abandon, Drift, vars

(* In any graph a resource reported blocked is downstream of one that      *)
(* failed: siblings of a failure are still reconciled.                     *)
THEOREM PassBlockedBehindFailure == Spec => []BlockedOnlyBehindAFailure
<1>1. Init => BlockedHasACause
  BY DEF Init, BlockedHasACause
<1>2. IInv /\ BlockedHasACause => BlockedOnlyBehindAFailure
  BY DEF IInv, UnsoundSpreads, BlockedHasACause, BlockedOnlyBehindAFailure
<1> QED
  BY <1>1, <1>2, CauseStep, PassInvariant, PTL DEF Spec

-----------------------------------------------------------------------------
(* Passes implement PassContract.                                          *)

(* Settling a resource is the contract's Settle.                           *)
LEMMA DueImplements ==
  ASSUME IInv, NEW s \in Verdicts \ {"waiting"}, NEW err \in BOOLEAN, Due(s, err)
  PROVE  Contract!Settle(at)
<1> DEFINE status == [r \in Resources |-> Status(r)]
<1>0. TypeOK /\ StateShape /\ UnsoundSpreads
  BY DEF IInv, TypeOK
<1>1. /\ verdict' = [verdict EXCEPT ![at] = s]
      /\ at \in Resources /\ world' = world
      /\ failed' = IF err THEN failed \cup {at} ELSE failed
      /\ blocked' = IF err THEN Block(at, blocked) ELSE blocked
  BY DEF Due, Settle
<1>2. \A r \in Resources : verdict[r] = "waiting" <=> r >= at
  BY DEF Due, IInv, LoopPosition
<1>3. \A r \in blocked' \ blocked : r > at
  BY <1>0, <1>1, BlockFacts
<1>4. blocked \subseteq blocked'
  BY <1>0, <1>1, BlockFacts
<1>5. \A d \in Contract!Before(at) : d \in Resources /\ d < at
  BY <1>0, <1>1, WorldsAssumption
  DEF Contract!Before, StateShape, Edges, World, Edge, Resources
<1>6. Contract!Ready(at)
  <2>1. status[at] = "open"
    BY <1>1, <1>2 DEF Status, Resources
  <2>2. \A d \in Contract!Before(at) : status[d] # "open"
    BY <1>1, <1>2, <1>5 DEF Status, Resources
  <2> QED
    BY <2>1, <2>2 DEF Contract!Ready
<1>7. at \notin blocked => Contract!Stands(at)
  <2> SUFFICES ASSUME at \notin blocked, NEW e \in Edges, e.to = at
               PROVE  status[e.from] # "unsound"
    BY DEF Contract!Stands, Contract!Before
  <2>1. e.from \notin failed \cup blocked
    BY <1>0 DEF UnsoundSpreads
  <2> QED
    BY <1>5, <2>1 DEF Status, Contract!Before
<1>8. PICK a \in Resources : a = at
  BY <1>1
<1>9. status' = [status EXCEPT ![at] = Status(a)']
  <2> SUFFICES ASSUME NEW r \in Resources, r # a PROVE Status(r)' = Status(r)
    BY <1>8
  <2>1. verdict'[r] = verdict[r]
    BY <1>0, <1>1, <1>8 DEF StateShape
  <2>2. CASE r < a
    <3>1. r \in failed' <=> r \in failed
      BY <1>1, <1>8
    <3>2. r \in blocked' <=> r \in blocked
      BY <1>3, <1>4, <1>8, <2>2 DEF Resources
    <3> QED
      BY <2>1, <3>1, <3>2 DEF Status
  <2>3. CASE r > a
    BY <1>2, <1>8, <2>1, <2>3 DEF Status, Resources
  <2> QED
    BY <2>2, <2>3 DEF Resources
<1>10. verdict'[a] = s
  BY <1>0, <1>1, <1>8 DEF StateShape
<1>11. /\ Status(a)' \in {"sound", "unsound", "uncovered"}
       /\ at \in blocked => Status(a)' = "unsound"
  BY <1>4, <1>8, <1>10 DEF Status
<1>12. touched' = touched \/ (Contract!Stands(at) /\ touched' = touched \cup {at})
  BY <1>7 DEF Due
<1>13. Edges' = Edges
  BY <1>1 DEF Edges
<1> QED
  BY <1>6, <1>7, <1>9, <1>11, <1>12, <1>13 DEF Contract!Settle

(* A provider that reports success acts where the contract allows it.      *)
LEMMA ActImplements ==
  ASSUME IInv, ApplySucceeds
  PROVE  Contract!Act(at)
<1> DEFINE status == [r \in Resources |-> Status(r)]
<1>0. TypeOK /\ StateShape /\ UnsoundSpreads
  BY DEF IInv, TypeOK
<1>1. phase = "apply" /\ at \in Resources /\ at \notin blocked
  BY <1>0, AtInside DEF ApplySucceeds, Branch
<1>2. \A r \in Resources : verdict[r] = "waiting" <=> r >= at
  BY <1>1 DEF IInv, LoopPosition
<1>3. UNCHANGED <<Edges, status>> /\ touched' = touched \cup {at}
  BY DEF ApplySucceeds, Edges, Status
<1>4. \A d \in Contract!Before(at) : d \in Resources /\ d < at /\ d \notin failed \cup blocked
  BY <1>0, <1>1, WorldsAssumption
  DEF Contract!Before, StateShape, Edges, World, Edge, Resources, UnsoundSpreads
<1>5. \A d \in Contract!Before(at) : status[d] # "open" /\ status[d] # "unsound"
  BY <1>1, <1>2, <1>4 DEF Status, Resources
<1>6. status[at] = "open"
  BY <1>1, <1>2 DEF Status, Resources
<1> QED
  BY <1>3, <1>5, <1>6 DEF Contract!Act, Contract!Ready, Contract!Stands

(* Every step of the passes is a step of the contract or a stutter.        *)
LEMMA ContractStep == IInv /\ [Next]_vars => [Contract!Next]_(Contract!vars)
<1> SUFFICES ASSUME IInv, [Next]_vars PROVE [Contract!Next]_(Contract!vars)
  OBVIOUS
<1>1. at \in Resources /\ Contract!Settle(at) => Contract!Next
  BY DEF Contract!Next
<1>2. at \in Resources /\ Contract!Act(at) => Contract!Next
  BY DEF Contract!Next
<1>3. CASE ReportWithoutActing \/ EnforceRefused \/ ApplyFails \/ VerifyNext
  BY <1>1, <1>3, SettlingSteps, DueImplements DEF Due
<1>4. CASE ApplySucceeds
  <2>1. at \in Resources
    BY <1>4, AtInside DEF ApplySucceeds, IInv, TypeOK
  <2> QED
    BY <1>2, <1>4, <2>1, ActImplements
<1>5. CASE Begin
  BY <1>5 DEF Begin, Contract!Next, Contract!Open, Status, Edges
<1>6. CASE UNCHANGED <<world, verdict, failed, blocked, touched>>
  BY <1>6 DEF Contract!vars, Status, Edges
<1> QED
  BY <1>3, <1>4, <1>5, <1>6
  DEF Next, Agent, ObserveNext, PlanNext, Finish, Abandon, Drift, vars

(* Whatever drifts, fails or is cut off, observing, planning, enforcing    *)
(* and verifying settle the resources as PassContract promises.            *)
THEOREM PassKeepsContract == Spec => KeepsContract
<1>1. Init => Contract!Init
  BY DEF Init, Contract!Init, Status
<1> QED
  BY <1>1, ContractStep, PassInvariant, PTL DEF Spec, KeepsContract, Contract!Spec

-----------------------------------------------------------------------------
(* What a pass reports.                                                    *)


\* What a target holds when nothing is left to do.
Want(r) == IF world.wanted[r] = "present" THEN "right" ELSE "gone"

\* What was read of a target stays true until it drifts or is acted on.
ReadingStands ==
  \A r \in Resources :
    /\ seen[r] \in Targets /\ r \notin stale \cup touched => host[r] = seen[r]
    /\ seen[r] = "unserved" => ~world.served[r]

\* The plan is made in order from what was read, and kept.
PlanStands ==
  /\ phase \in {"plan", "apply", "verify"} => \A r \in Resources : seen[r] # "unread"
  /\ phase = "observe" => \A r \in 1..(at - 1) : seen[r] # "unread"
  /\ phase = "plan" => \A r \in 1..(at - 1) : step[r] = Planned(r)
  /\ phase \in {"apply", "verify"} \/ (phase = "idle" /\ \E r \in Resources : verdict[r] # "waiting")
       \/ touched # {} => \A r \in Resources : seen[r] # "unread" /\ step[r] = Planned(r)

\* Whether a resource was acted on and how it was settled follow its step.
VerdictsFollowSteps ==
  /\ \A r \in touched : Changes(step[r].action) /\ ~step[r].err /\ world.mode = "enforce"
  /\ \A r \in Resources :
       /\ verdict[r] = "converged" /\ r \notin touched => ~Changes(step[r].action) /\ ~step[r].err
       /\ verdict[r] = "drifted" /\ r \notin touched => world.mode = "observe"
       /\ verdict[r] = "skipped" => step[r].action = "skip"
       /\ verdict[r] = "converged" => step[r].action # "skip"
  /\ \A r \in failed : verdict[r] \in {"failed", "drifted"}

\* Something was tried when the applied flag is set, and only then.
AppliedMeansTried ==
  /\ applied => touched # {} \/ failed # {}
  /\ touched # {} => applied

\* A reaction is owed after its turn only when it was tried and failed.
OwedUntilReacted ==
  /\ \A e \in owed : Triggers(e)
  /\ \A e \in owed : e.from \in touched /\ e.to \in touched /\ step[e.to].trigger => e.to \in failed

\* What was reported is what the verdicts amount to.
ReportStands ==
  Reported => /\ outcome = OutcomeOf(verdict, failed, applied)
              /\ \A r \in Resources : verdict[r] # "waiting"

\* An undisturbed pass has nothing stale, and one after a good pass nothing to do.
QuietStays ==
  /\ calm => stale = {}
  /\ settled => /\ calm /\ touched = {}
                /\ \A r \in Resources :
                     /\ world.served[r] => host[r] = Want(r)
                     /\ seen[r] \in {"unread", "unserved", Want(r)}
                     /\ step[r].action \in {"none", "skip"} /\ ~step[r].err

OInv == /\ IInv /\ BlockedHasACause
        /\ ReadingStands /\ PlanStands /\ VerdictsFollowSteps /\ AppliedMeansTried
        /\ OwedUntilReacted /\ ReportStands /\ ConvergedWasRead /\ QuietStays

-----------------------------------------------------------------------------
(* How a resource is settled.                                              *)

\* Settling the resource the loop has reached with a verdict its step, its
\* target and what was tried of it bear out.
BorneOut(s, err) ==
  /\ at \in Resources /\ phase \in {"apply", "verify"} /\ Settle(s, err)
  /\ UNCHANGED <<world, seen, step, outcome>>
  /\ touched' \in {touched, touched \cup {at}}
  /\ applied' = applied \/ (applied' = TRUE /\ (at \in touched' \/ err))
  /\ at \in touched' => /\ Changes(step[at].action) /\ ~step[at].err /\ world.mode = "enforce"
                        /\ applied' = TRUE
  /\ s = "converged" => /\ step[at].action # "skip"
                        /\ at \notin touched' => ~Changes(step[at].action) /\ ~step[at].err
                        /\ at \notin stale' => host'[at] = Want(at)
  /\ s = "drifted" /\ at \notin touched' => world.mode = "observe"
  /\ s = "skipped" => step[at].action = "skip"
  /\ err => s \in {"failed", "drifted"}
  /\ at \in touched' => err \/ phase = "verify"
  /\ stale' \in {stale, stale \ {at}}
  /\ at \in stale \ stale' => at \in touched'
  /\ \A r \in Resources : r # at \/ r \notin touched' => host'[r] = host[r]
  /\ owed' \in {owed, owed \cup TriggersFrom(at)}

\* What is planned from a reading that differs in nothing leaves the target alone.
LEMMA NothingToDo ==
  ASSUME OInv, NEW r \in Resources, r \notin stale \cup touched,
         step[r] = Planned(r), ~Changes(step[r].action), ~step[r].err,
         step[r].action # "skip", seen[r] # "unread"
  PROVE  host[r] = Want(r)
<1>1. StateShape /\ ReadingStands
  BY DEF OInv, IInv, TypeOK
<1>2. seen[r] # "error" /\ seen[r] # "unserved"
  <2>1. Planned(r).err = (seen[r] = "error")
    BY DEF Planned
  <2>2. seen[r] = "unserved" => Planned(r).action = "skip"
    BY DEF Planned
  <2> QED
    BY <2>1, <2>2
<1>3. seen[r] \in Targets /\ host[r] = seen[r]
  BY <1>1, <1>2 DEF StateShape, ReadingStands
<1>4. step[r].action = IF Fired(r) # {} /\ Decide(world.wanted[r], seen[r]) = "none"
                         THEN "update" ELSE Decide(world.wanted[r], seen[r])
  BY <1>2 DEF Planned
<1>5. ~Changes(Decide(world.wanted[r], seen[r]))
  BY <1>4 DEF Changes, Decide
<1> QED
  BY <1>3, <1>5 DEF Changes, Decide, Exists, Want, Targets

LEMMA SettledSoundly ==
  ASSUME OInv, ReportWithoutActing \/ EnforceRefused \/ ApplyFails \/ VerifyNext
  PROVE  \E s \in Verdicts \ {"waiting"}, err \in BOOLEAN : BorneOut(s, err)
<1>0. /\ IInv /\ TypeOK /\ StateShape /\ LoopPosition /\ PlanStands /\ VerdictsFollowSteps
      /\ AppliedMeansTried
  BY DEF OInv, IInv, TypeOK
<1>1. phase = "apply" /\ at <= N => at \in Resources /\ at \notin touched
  BY <1>0, AtInside DEF LoopPosition, StateShape, Resources
<1>2. CASE ReportWithoutActing
  <2>1. /\ at \in Resources /\ at \notin touched /\ phase = "apply"
        /\ UNCHANGED <<world, host, seen, step, applied, outcome, touched, owed, stale>>
    BY <1>1, <1>2 DEF ReportWithoutActing
  <2>2. CASE Branch(at) = "unread"
    <3>1. Settle("failed", TRUE)
      BY <1>2, <2>2 DEF ReportWithoutActing
    <3>2. BorneOut("failed", TRUE)
      BY <2>1, <3>1 DEF BorneOut
    <3> QED
      BY <3>2 DEF Verdicts
  <2>3. CASE Branch(at) # "unread"
    <3>1. Settle(Branch(at), FALSE) /\ Branch(at) # "enforce"
      BY <1>2, <2>3 DEF ReportWithoutActing
    <3>2. Branch(at) \in {"skipped", "blocked", "converged", "drifted"}
      BY <2>3, <3>1 DEF Branch
    <3>3. step[at] = Planned(at) /\ seen[at] # "unread"
      BY <1>0, <2>1 DEF PlanStands
    <3>4. Branch(at) = "converged" =>
            step[at].action # "skip" /\ ~Changes(step[at].action) /\ ~step[at].err
      BY DEF Branch
    <3>5. Branch(at) = "converged" /\ at \notin stale => host[at] = Want(at)
      BY <2>1, <3>3, <3>4, NothingToDo
    <3>6. Branch(at) = "drifted" => world.mode = "observe"
      BY DEF Branch
    <3>7. Branch(at) = "skipped" => step[at].action = "skip"
      BY DEF Branch
    <3>8. BorneOut(Branch(at), FALSE)
      BY <2>1, <3>1, <3>4, <3>5, <3>6, <3>7 DEF BorneOut
    <3> QED
      BY <3>2, <3>8 DEF Verdicts
  <2> QED
    BY <2>2, <2>3
<1>3. Branch(at) = "enforce" => /\ Changes(step[at].action) /\ ~step[at].err
                                /\ world.mode \in {"enforce", "observe"} => world.mode = "enforce"
  BY DEF Branch
<1>4. world.mode \in {"enforce", "observe"}
  BY <1>0, WorldsAssumption DEF StateShape, World
<1>5. CASE EnforceRefused
  <2>1. BorneOut("failed", TRUE)
    BY <1>1, <1>5 DEF EnforceRefused, BorneOut
  <2> QED
    BY <2>1 DEF Verdicts
<1>6. CASE ApplyFails
  <2>1. /\ at \in Resources /\ Settle("failed", TRUE) /\ phase = "apply"
        /\ UNCHANGED <<world, seen, step, outcome, stale>>
        /\ applied' = TRUE /\ touched' = touched \cup {at}
        /\ Branch(at) = "enforce"
    BY <1>1, <1>6 DEF ApplyFails
  <2>2. \A r \in Resources : r # at => host'[r] = host[r]
    BY <1>0, <1>6 DEF ApplyFails, StateShape
  <2>3. owed' \in {owed, owed \cup TriggersFrom(at)}
    BY <1>6 DEF ApplyFails
  <2>4. BorneOut("failed", TRUE)
    BY <1>3, <1>4, <2>1, <2>2, <2>3 DEF BorneOut
  <2> QED
    BY <2>4 DEF Verdicts
<1>7. CASE VerifyNext
  <2>1. /\ at \in Resources /\ phase = "verify" /\ at \in touched
        /\ UNCHANGED <<world, host, seen, step, applied, outcome, touched, owed>>
        /\ stale' = stale \ {at}
    BY <1>0, <1>7, AtInside DEF VerifyNext, LoopPosition
  <2>2. /\ Changes(step[at].action) /\ ~step[at].err /\ world.mode = "enforce" /\ applied = TRUE
    BY <1>0, <2>1 DEF VerdictsFollowSteps, AppliedMeansTried, OInv, IInv, TypeOK, Flags
  <2>3. CASE Settle("failed", TRUE)
    <3>1. BorneOut("failed", TRUE)
      BY <2>1, <2>2, <2>3 DEF BorneOut
    <3> QED
      BY <3>1 DEF Verdicts
  <2>4. ASSUME NEW v, v = Verify(world.wanted[at], host[at]), Settle(v.state, v.err)
        PROVE  \E s \in Verdicts \ {"waiting"}, err \in BOOLEAN : BorneOut(s, err)
    <3>1. /\ v.state \in {"drifted", "converged"}
          /\ v.err \in BOOLEAN
          /\ v.err => v.state = "drifted"
      BY <2>4 DEF Verify
    <3>2. host[at] \in Targets /\ world.wanted[at] \in {"present", "absent"}
      BY <1>0, <2>1, WorldsAssumption DEF StateShape, World
    <3>3. v.state = "converged" => host[at] = Want(at)
      BY <2>4, <3>2 DEF Verify, Exists, Want, Targets
    <3>4. step[at].action # "skip"
      BY <2>2 DEF Changes
    <3>5. BorneOut(v.state, v.err)
      BY <2>1, <2>2, <2>4, <3>1, <3>3, <3>4 DEF BorneOut
    <3> QED
      BY <3>1, <3>5 DEF Verdicts
  <2> QED
    BY <1>7, <2>3, <2>4 DEF VerifyNext
<1> QED
  BY <1>2, <1>5, <1>6, <1>7

-----------------------------------------------------------------------------
(* Every step keeps each part of the invariant.                            *)

\* What settling a resource does to the verdicts and the failures.
LEMMA SettleSays ==
  ASSUME StateShape, NEW s, NEW err \in BOOLEAN, at \in Resources, Settle(s, err)
  PROVE  /\ \A r \in Resources : verdict'[r] = IF r = at THEN s ELSE verdict[r]
         /\ failed' = IF err THEN failed \cup {at} ELSE failed
         /\ phase' = "apply" /\ at' = at + 1
BY DEF StateShape, Settle

LEMMA ReadingStep == OInv /\ [Next]_vars => ReadingStands'
<1> SUFFICES ASSUME OInv, [Next]_vars PROVE ReadingStands'
  OBVIOUS
<1> IInv /\ TypeOK /\ StateShape /\ LoopPosition /\ ReadingStands
  BY DEF OInv, IInv, TypeOK
<1>1. CASE Begin
  BY <1>1 DEF Begin, ReadingStands, Targets
<1>2. CASE ObserveNext
  <2>1. at \in Resources
    BY <1>2, AtInside DEF ObserveNext
  <2>2. /\ UNCHANGED <<world, host, touched>> /\ stale' = stale \ {at}
        /\ \E x : /\ seen' = [seen EXCEPT ![at] = x]
                  /\ x \in Targets => x = host[at]
                  /\ x = "unserved" => ~world.served[at]
    BY <1>2, <2>1 DEF ObserveNext, Targets, StateShape
  <2> QED
    BY <2>1, <2>2 DEF ReadingStands, StateShape
<1>3. CASE ReportWithoutActing \/ EnforceRefused \/ ApplyFails \/ VerifyNext
  <2>1. PICK s \in Verdicts \ {"waiting"}, err \in BOOLEAN : BorneOut(s, err)
    BY <1>3, SettledSoundly
  <2> QED
    BY <2>1 DEF BorneOut, ReadingStands
<1>4. CASE ApplySucceeds
  <2>1. /\ UNCHANGED <<world, seen, stale>> /\ touched' = touched \cup {at}
        /\ \A r \in Resources : r # at => host'[r] = host[r]
    BY <1>4 DEF ApplySucceeds, StateShape
  <2> QED
    BY <2>1 DEF ReadingStands
<1>5. ASSUME NEW d \in Resources, Drift(d) PROVE ReadingStands'
  <2>1. /\ UNCHANGED <<world, seen, touched>> /\ stale' = stale \cup {d}
        /\ \A r \in Resources : r # d => host'[r] = host[r]
    BY <1>5 DEF Drift, StateShape
  <2> QED
    BY <2>1 DEF ReadingStands
<1>6. CASE PlanNext \/ Finish \/ Abandon \/ UNCHANGED vars
  BY <1>6 DEF PlanNext, Finish, Abandon, vars, ReadingStands
<1> QED
  BY <1>1, <1>2, <1>3, <1>4, <1>5, <1>6 DEF Next, Agent

\* What a resource is planned to do looks at what was read of it and at the
\* steps of what it reacts to.
LEMMA PlannedLooksBack ==
  ASSUME NEW r \in Resources, world' = world, seen' = seen,
         \A e \in Edges : e.to = r => step'[e.from] = step[e.from]
  PROVE  \A q \in Resources : q = r => Planned(q)' = Planned(q)
<1>1. ASSUME NEW q \in Resources, q = r PROVE Planned(q)' = Planned(q)
  <2>1. Fired(q)' = Fired(q)
    BY <1>1 DEF Fired, Edges
  <2> QED
    BY <2>1 DEF Planned
<1> QED
  BY <1>1

LEMMA PlanStep == OInv /\ [Next]_vars => PlanStands'
<1> SUFFICES ASSUME OInv, [Next]_vars PROVE PlanStands'
  OBVIOUS
<1> IInv /\ TypeOK /\ StateShape /\ LoopPosition /\ PlanStands
  BY DEF OInv, IInv, TypeOK
<1>1. CASE Begin
  <2>1. phase' = "observe" /\ at' = 1 /\ touched' = {}
    BY <1>1 DEF Begin
  <2> QED
    BY <2>1 DEF PlanStands
<1>2. CASE ObserveNext
  <2>1. at \in Resources /\ phase = "observe"
    BY <1>2, AtInside DEF ObserveNext
  <2>2. /\ touched' = {}
        /\ \E x : seen' = [seen EXCEPT ![at] = x] /\ x # "unread"
    BY <1>2, <2>1 DEF ObserveNext, Targets, StateShape, LoopPosition
  <2>3. \A r \in 1..at : seen'[r] # "unread"
    BY <2>1, <2>2 DEF PlanStands, StateShape, Resources
  <2>4. (phase' = "plan" /\ at' = 1 /\ at = N) \/ (phase' = "observe" /\ at' = at + 1)
    BY <1>2, <2>1 DEF ObserveNext, Advance
  <2> QED
    BY <2>1, <2>2, <2>3, <2>4 DEF PlanStands, Resources
<1>3. CASE PlanNext
  <2>1. at \in Resources /\ phase = "plan"
    BY <1>3, AtInside DEF PlanNext
  <2>2. /\ step' = [step EXCEPT ![at] = Planned(at)]
        /\ UNCHANGED <<world, seen, touched>> /\ touched = {}
    BY <1>3, <2>1 DEF PlanNext, LoopPosition
  <2>3. ASSUME NEW r \in 1..at PROVE step'[r] = Planned(r)'
    <3>1. r \in Resources /\ r \in Int /\ at \in Int /\ r <= at
      BY <2>1 DEF Resources
    <3>2. \A e \in Edges : e.to = r => e.from \in Resources /\ e.from < at
      BY <2>1, WorldsAssumption DEF StateShape, World, Edge, Edges, Resources
    <3>3. \A e \in Edges : e.to = r => step'[e.from] = step[e.from]
      BY <2>1, <2>2, <3>2 DEF StateShape, Resources
    <3>4. Planned(r)' = Planned(r)
      BY <2>2, <3>1, <3>3, PlannedLooksBack
    <3>5. step'[r] = Planned(r)
      BY <2>1, <2>2, <3>1 DEF PlanStands, StateShape, Resources
    <3> QED
      BY <3>4, <3>5
  <2>4. (phase' = "apply" /\ at = N) \/ (phase' = "plan" /\ at' = at + 1)
    BY <1>3, <2>1 DEF PlanNext, Advance
  <2>5. \A r \in Resources : seen'[r] # "unread"
    BY <2>1, <2>2 DEF PlanStands
  <2> QED
    BY <2>1, <2>2, <2>3, <2>4, <2>5 DEF PlanStands, Resources
<1>4. ASSUME UNCHANGED <<world, seen, step>>,
             phase' \in {"observe", "plan"} => phase' = phase /\ at' = at,
             phase' \in {"apply", "verify"} => phase \in {"apply", "verify"},
             phase' = "idle" => \/ phase = "idle" /\ verdict' = verdict
                                \/ phase \in {"apply", "verify"}
                                \/ \A r \in Resources : verdict'[r] = "waiting",
             touched' # {} => touched # {} \/ phase = "apply"
      PROVE  PlanStands'
  <2>1. \A r \in Resources : Planned(r)' = Planned(r)
    BY <1>4, PlannedLooksBack
  <2>2. \A r \in 1..(at - 1) : r \in Resources
    BY DEF StateShape, Resources
  <2> QED
    BY <1>4, <2>1, <2>2 DEF PlanStands
<1>5. CASE ReportWithoutActing \/ EnforceRefused \/ ApplyFails \/ VerifyNext
  <2>1. PICK s \in Verdicts \ {"waiting"}, err \in BOOLEAN : BorneOut(s, err)
    BY <1>5, SettledSoundly
  <2>2. /\ UNCHANGED <<world, seen, step>> /\ phase' = "apply" /\ phase \in {"apply", "verify"}
        /\ touched' # {} => touched # {} \/ phase = "apply"
    BY <2>1 DEF BorneOut, Settle, LoopPosition
  <2> QED
    BY <1>4, <2>2
<1>6. CASE ApplySucceeds \/ Finish \/ (\E r \in Resources : Drift(r)) \/ UNCHANGED vars
  BY <1>4, <1>6 DEF ApplySucceeds, Finish, Drift, vars
<1>7. CASE Abandon
  <2>1. phase \in {"observe", "plan"} => \A r \in Resources : verdict'[r] = "waiting"
    BY <1>7 DEF Abandon, LoopPosition
  <2> QED
    BY <1>4, <1>7, <2>1 DEF Abandon, StateShape
<1> QED
  BY <1>1, <1>2, <1>3, <1>5, <1>6, <1>7 DEF Next, Agent

LEMMA VerdictsStep == OInv /\ [Next]_vars => VerdictsFollowSteps'
<1> SUFFICES ASSUME OInv, [Next]_vars PROVE VerdictsFollowSteps'
  OBVIOUS
<1> IInv /\ TypeOK /\ StateShape /\ LoopPosition /\ VerdictsFollowSteps
  BY DEF OInv, IInv, TypeOK
<1>1. CASE Begin
  BY <1>1 DEF Begin, VerdictsFollowSteps
<1>2. CASE ObserveNext \/ PlanNext
  <2>1. phase \in {"observe", "plan"} /\ UNCHANGED <<verdict, failed, touched>>
    BY <1>2 DEF ObserveNext, PlanNext
  <2> QED
    BY <2>1 DEF VerdictsFollowSteps, LoopPosition
<1>3. CASE ReportWithoutActing \/ EnforceRefused \/ ApplyFails \/ VerifyNext
  <2>1. PICK s \in Verdicts \ {"waiting"}, err \in BOOLEAN : BorneOut(s, err)
    BY <1>3, SettledSoundly
  <2>2. /\ \A r \in Resources : verdict'[r] = IF r = at THEN s ELSE verdict[r]
        /\ failed' = IF err THEN failed \cup {at} ELSE failed
    BY <2>1, SettleSays DEF BorneOut
  <2>3. \A r \in touched' : Changes(step[r].action) /\ ~step[r].err /\ world.mode = "enforce"
    BY <2>1 DEF BorneOut, VerdictsFollowSteps
  <2>4. \A r \in failed' : r \in Resources /\ verdict'[r] \in {"failed", "drifted"}
    <3>1. err => s \in {"failed", "drifted"}
      BY <2>1 DEF BorneOut
    <3>2. at \in Resources
      BY <2>1 DEF BorneOut
    <3>3. verdict[at] = "waiting"
      BY <2>1 DEF BorneOut, LoopPosition, Resources
    <3>4. at \notin failed
      BY <3>3 DEF LoopPosition
    <3> QED
      BY <2>2, <3>1, <3>2, <3>4 DEF VerdictsFollowSteps, StateShape
  <2> QED
    BY <2>1, <2>2, <2>3, <2>4 DEF BorneOut, VerdictsFollowSteps
<1>4. CASE ApplySucceeds
  <2>1. /\ UNCHANGED <<world, step, verdict, failed>> /\ touched' = touched \cup {at}
        /\ Branch(at) = "enforce" /\ at \in Resources /\ phase = "apply"
    BY <1>4, AtInside DEF ApplySucceeds
  <2>2. Changes(step[at].action) /\ ~step[at].err /\ world.mode = "enforce"
    BY <2>1, WorldsAssumption DEF Branch, StateShape, World
  <2> QED
    BY <2>1, <2>2 DEF VerdictsFollowSteps
<1>5. CASE UNCHANGED <<world, step, verdict, failed, touched>>
  BY <1>5 DEF VerdictsFollowSteps
<1> QED
  BY <1>1, <1>2, <1>3, <1>4, <1>5 DEF Next, Agent, Finish, Abandon, Drift, vars

LEMMA AppliedStep == OInv /\ [Next]_vars => AppliedMeansTried'
<1> SUFFICES ASSUME OInv, [Next]_vars PROVE AppliedMeansTried'
  OBVIOUS
<1> IInv /\ TypeOK /\ StateShape /\ LoopPosition /\ AppliedMeansTried
  BY DEF OInv, IInv, TypeOK
<1>1. CASE Begin
  BY <1>1 DEF Begin, AppliedMeansTried
<1>2. CASE ReportWithoutActing \/ EnforceRefused \/ ApplyFails \/ VerifyNext
  <2>1. PICK s \in Verdicts \ {"waiting"}, err \in BOOLEAN : BorneOut(s, err)
    BY <1>2, SettledSoundly
  <2>2. failed' = IF err THEN failed \cup {at} ELSE failed
    BY <2>1, SettleSays DEF BorneOut
  <2>3. touched \subseteq touched' /\ failed \subseteq failed' /\ (err => failed' # {})
    BY <2>1, <2>2 DEF BorneOut
  <2>4. applied' => touched' # {} \/ failed' # {}
    BY <2>1, <2>3 DEF BorneOut, AppliedMeansTried
  <2>5. touched' # {} => applied'
    <3>1. CASE at \in touched'
      BY <2>1, <3>1 DEF BorneOut
    <3>2. CASE at \notin touched'
      <4>1. touched' = touched
        BY <2>1, <3>2 DEF BorneOut
      <4>2. applied => applied'
        BY <2>1 DEF BorneOut
      <4> QED
        BY <4>1, <4>2 DEF AppliedMeansTried
    <3> QED
      BY <3>1, <3>2
  <2> QED
    BY <2>4, <2>5 DEF AppliedMeansTried
<1>3. CASE ApplySucceeds
  BY <1>3 DEF ApplySucceeds, AppliedMeansTried
<1>4. CASE UNCHANGED <<applied, touched, failed>>
  BY <1>4 DEF AppliedMeansTried
<1> QED
  BY <1>1, <1>2, <1>3, <1>4
  DEF Next, Agent, ObserveNext, PlanNext, Finish, Abandon, Drift, vars

LEMMA OwedStep == OInv /\ [Next]_vars => OwedUntilReacted'
<1> SUFFICES ASSUME OInv, [Next]_vars PROVE OwedUntilReacted'
  OBVIOUS
<1> IInv /\ TypeOK /\ StateShape /\ LoopPosition /\ OwedUntilReacted
  BY DEF OInv, IInv, TypeOK
<1>0. \A e \in Edges : e.from \in Resources /\ e.to \in Resources /\ e.from < e.to
  BY WorldsAssumption DEF StateShape, World, Edge, Edges
<1>1. CASE Begin
  BY <1>1 DEF Begin, OwedUntilReacted
<1>2. CASE ReportWithoutActing \/ EnforceRefused \/ ApplyFails \/ VerifyNext
  <2>1. PICK s \in Verdicts \ {"waiting"}, err \in BOOLEAN : BorneOut(s, err)
    BY <1>2, SettledSoundly
  <2>2. failed' = IF err THEN failed \cup {at} ELSE failed
    BY <2>1, SettleSays DEF BorneOut
  <2>3. \A r \in touched' : r = at \/ r \in touched
    BY <2>1 DEF BorneOut
  <2>4. \A r \in touched' : r <= at
    BY <2>1, <2>3 DEF BorneOut, LoopPosition, StateShape, Resources
  <2>5. \A e \in owed' : e \in owed \/ e \in TriggersFrom(at)
    BY <2>1 DEF BorneOut
  <2>6. \A e \in owed' : Triggers(e)
    BY <2>5 DEF OwedUntilReacted, TriggersFrom
  <2>7. ASSUME NEW e \in owed', e.from \in touched', e.to \in touched', step[e.to].trigger
        PROVE  e.to \in failed'
    <3>1. e \in Edges
      BY <2>5 DEF TriggersFrom, StateShape, Edges
    <3>2. CASE e \in TriggersFrom(at)
      BY <1>0, <2>1, <2>4, <2>7, <3>1, <3>2 DEF TriggersFrom, BorneOut, Resources
    <3>3. CASE e \in owed /\ e.to = at
      <4>1. err \/ phase = "verify"
        BY <2>1, <2>7, <3>3 DEF BorneOut
      <4>2. phase = "verify" => at \in touched
        BY DEF LoopPosition
      <4>3. e.from \in touched
        BY <1>0, <2>3, <2>7, <3>1, <3>3 DEF Resources
      <4> QED
        BY <2>2, <2>7, <3>3, <4>1, <4>2, <4>3 DEF OwedUntilReacted
    <3>4. CASE e \in owed /\ e.to # at
      <4>1. e.to \in touched
        BY <2>3, <2>7, <3>4
      <4>2. e.from # at
        BY <1>0, <2>1, <2>4, <2>7, <3>1 DEF BorneOut, Resources
      <4> QED
        BY <2>2, <2>3, <2>7, <3>4, <4>1, <4>2 DEF OwedUntilReacted
    <3> QED
      BY <2>5, <3>2, <3>3, <3>4
  <2>8. step' = step
    BY <2>1 DEF BorneOut
  <2> QED
    BY <2>6, <2>7, <2>8 DEF OwedUntilReacted, Triggers
<1>3. CASE ApplySucceeds
  <2>1. /\ UNCHANGED <<step, failed>> /\ touched' = touched \cup {at}
        /\ owed' = (IF step[at].trigger THEN owed \ TriggersInto(at) ELSE owed) \cup TriggersFrom(at)
        /\ at \in Resources /\ phase = "apply"
    BY <1>3, AtInside DEF ApplySucceeds
  <2>2. \A r \in touched : r < at
    BY <2>1 DEF LoopPosition
  <2>3. \A e \in owed' : Triggers(e)
    BY <2>1 DEF OwedUntilReacted, TriggersFrom
  <2>4. ASSUME NEW e \in owed', e.from \in touched', e.to \in touched', step[e.to].trigger
        PROVE  e.to \in failed
    <3>1. e \in Edges
      BY <2>1 DEF TriggersFrom, StateShape, Edges
    <3>2. e.from # at
      BY <1>0, <2>1, <2>2, <2>4, <3>1 DEF Resources
    <3>3. e \in owed /\ e.from \in touched
      BY <2>1, <2>4, <3>2 DEF TriggersFrom
    <3>4. e.to # at
      BY <2>1, <2>3, <2>4, <3>1, <3>2 DEF TriggersInto, TriggersFrom
    <3> QED
      BY <2>1, <2>4, <3>3, <3>4 DEF OwedUntilReacted
  <2> QED
    BY <2>1, <2>3, <2>4 DEF OwedUntilReacted, Triggers
<1>4. CASE PlanNext
  BY <1>4 DEF PlanNext, OwedUntilReacted, LoopPosition, Triggers
<1>5. CASE UNCHANGED <<step, failed, touched, owed>>
  BY <1>5 DEF OwedUntilReacted, Triggers
<1> QED
  BY <1>1, <1>2, <1>3, <1>4, <1>5
  DEF Next, Agent, ObserveNext, Finish, Abandon, Drift, vars

LEMMA ReportStep == OInv /\ [Next]_vars => ReportStands'
<1> SUFFICES ASSUME OInv, [Next]_vars PROVE ReportStands'
  OBVIOUS
<1> IInv /\ TypeOK /\ StateShape /\ LoopPosition /\ ReportStands
  BY DEF OInv, IInv, TypeOK
<1>1. CASE Finish
  <2>1. /\ UNCHANGED <<verdict, failed, applied>> /\ outcome' = OutcomeOf(verdict, failed, applied)
        /\ phase = "apply" /\ at = N + 1
    BY <1>1 DEF Finish
  <2>2. \A r \in Resources : verdict[r] # "waiting"
    BY <2>1 DEF LoopPosition, Resources
  <2> QED
    BY <2>1, <2>2 DEF ReportStands, OutcomeOf
<1>2. CASE Abandon
  BY <1>2 DEF Abandon, ReportStands, Reported
<1>3. CASE UNCHANGED <<phase, verdict, failed, applied, outcome>>
  BY <1>3 DEF ReportStands, Reported, OutcomeOf
<1>4. CASE phase' # "idle"
  BY <1>4 DEF ReportStands, Reported
<1>5. CASE ReportWithoutActing \/ EnforceRefused \/ ApplyFails \/ VerifyNext
  BY <1>4, <1>5, SettledSoundly DEF BorneOut, Settle
<1>6. CASE ObserveNext \/ PlanNext
  BY <1>4, <1>6 DEF ObserveNext, PlanNext, Advance
<1> QED
  BY <1>1, <1>2, <1>3, <1>4, <1>5, <1>6 DEF Next, Agent, Begin, ApplySucceeds, Drift, vars

LEMMA ConvergedStep == OInv /\ [Next]_vars => ConvergedWasRead'
<1> SUFFICES ASSUME OInv, [Next]_vars PROVE ConvergedWasRead'
  OBVIOUS
<1> IInv /\ TypeOK /\ StateShape /\ LoopPosition /\ ConvergedWasRead
  BY DEF OInv, IInv, TypeOK
<1>1. CASE Begin
  BY <1>1 DEF Begin, ConvergedWasRead
<1>2. CASE ObserveNext
  BY <1>2 DEF ObserveNext, LoopPosition, ConvergedWasRead
<1>3. CASE ReportWithoutActing \/ EnforceRefused \/ ApplyFails \/ VerifyNext
  <2>1. PICK s \in Verdicts \ {"waiting"}, err \in BOOLEAN : BorneOut(s, err)
    BY <1>3, SettledSoundly
  <2>2. \A r \in Resources : verdict'[r] = IF r = at THEN s ELSE verdict[r]
    BY <2>1, SettleSays DEF BorneOut
  <2>3. ASSUME NEW r \in Resources, r # at, verdict'[r] = "converged", r \notin stale'
        PROVE  host'[r] = Want(r)
    BY <2>1, <2>2, <2>3 DEF BorneOut, ConvergedWasRead, Want
  <2> QED
    BY <2>1, <2>2, <2>3 DEF BorneOut, ConvergedWasRead, Want
<1>4. CASE ApplySucceeds
  <2>1. /\ UNCHANGED <<world, verdict, stale>> /\ phase = "apply" /\ at \in Resources
        /\ \A r \in Resources : r # at => host'[r] = host[r]
    BY <1>4, AtInside DEF ApplySucceeds, StateShape
  <2>2. verdict[at] = "waiting"
    BY <2>1 DEF LoopPosition, Resources
  <2> QED
    BY <2>1, <2>2 DEF ConvergedWasRead
<1>5. ASSUME NEW d \in Resources, Drift(d) PROVE ConvergedWasRead'
  <2>1. /\ UNCHANGED <<world, verdict>> /\ stale' = stale \cup {d}
        /\ \A r \in Resources : r # d => host'[r] = host[r]
    BY <1>5 DEF Drift, StateShape
  <2> QED
    BY <2>1 DEF ConvergedWasRead
<1>6. CASE UNCHANGED <<world, host, verdict, stale>>
  BY <1>6 DEF ConvergedWasRead
<1> QED
  BY <1>1, <1>2, <1>3, <1>4, <1>5, <1>6 DEF Next, Agent, PlanNext, Finish, Abandon, vars

\* A pass without faults over a host where everything served is in place
\* finds nothing to do.
LEMMA QuietStep == OInv /\ [Next]_vars => QuietStays'
<1> SUFFICES ASSUME OInv, [Next]_vars PROVE QuietStays'
  OBVIOUS
<1> /\ IInv /\ TypeOK /\ StateShape /\ LoopPosition /\ ReadingStands /\ PlanStands
    /\ ReportStands /\ ConvergedWasRead /\ VerdictsFollowSteps /\ QuietStays
  BY DEF OInv, IInv, TypeOK
<1>1. CASE Begin
  <2>1. /\ UNCHANGED <<world, host>> /\ stale' = {} /\ touched' = {} /\ calm' = TRUE
        /\ \A r \in Resources : seen'[r] = "unread" /\ step'[r] = NoStep
        /\ settled' = (calm /\ outcome \in {"converged", "changed"})
    BY <1>1 DEF Begin
  <2>2. ASSUME settled', NEW r \in Resources, world.served[r] PROVE host[r] = Want(r)
    <3>1. calm /\ Reported /\ outcome \in {"converged", "changed"}
      BY <1>1, <2>1, <2>2 DEF Begin, Reported
    <3>2. verdict[r] \in {"converged", "skipped"}
      BY <3>1 DEF ReportStands, OutcomeOf, StateShape, Verdicts
    <3>3. verdict[r] # "skipped"
      <4> SUFFICES ASSUME verdict[r] = "skipped" PROVE FALSE
        OBVIOUS
      <4>1. phase = "idle" /\ step[r] = Planned(r) /\ step[r].action = "skip"
        BY <3>1 DEF Reported, PlanStands, VerdictsFollowSteps
      <4>2. seen[r] = "unserved"
        BY <4>1 DEF Planned, Decide
      <4> QED
        BY <2>2, <4>2 DEF ReadingStands
    <3>4. r \notin stale
      BY <3>1 DEF QuietStays
    <3> QED
      BY <3>2, <3>3, <3>4 DEF ConvergedWasRead, Want
  <2>3. NoStep.action = "none" /\ ~NoStep.err
    BY DEF NoStep
  <2> QED
    BY <2>1, <2>2, <2>3 DEF QuietStays, Want
<1>2. CASE Fault
  BY <1>2 DEF Fault, QuietStays
<1>3. CASE NoFault /\ ObserveNext
  <2>1. /\ at \in Resources /\ UNCHANGED <<world, host, step, touched, calm, settled>>
        /\ stale' = stale \ {at}
    BY <1>3, AtInside DEF ObserveNext, NoFault
  <2>2. settled => seen' = [seen EXCEPT ![at] = IF world.served[at] THEN host[at] ELSE "unserved"]
    BY <1>3 DEF ObserveNext, NoFault, Fault
  <2> QED
    BY <2>1, <2>2 DEF QuietStays, Want, StateShape
<1>4. CASE NoFault /\ PlanNext
  <2>1. /\ at \in Resources /\ phase = "plan" /\ step' = [step EXCEPT ![at] = Planned(at)]
        /\ UNCHANGED <<world, host, seen, touched, stale, calm, settled>>
    BY <1>4, AtInside DEF PlanNext, NoFault
  <2>2. ASSUME settled PROVE Planned(at).action \in {"none", "skip"} /\ ~Planned(at).err
    <3>1. seen[at] \in {"unserved", Want(at)}
      BY <2>1, <2>2 DEF QuietStays, PlanStands
    <3>2. Fired(at) = {}
      BY <2>2, WorldsAssumption DEF QuietStays, Fired, Changes, StateShape, World, Edge, Edges
    <3>3. seen[at] = Want(at) => Decide(world.wanted[at], seen[at]) = "none"
      BY DEF Decide, Want, Exists
    <3>4. Want(at) \notin {"error", "unserved"}
      BY DEF Want
    <3> QED
      BY <3>1, <3>2, <3>3, <3>4 DEF Planned
  <2> QED
    BY <2>1, <2>2 DEF QuietStays, Want, StateShape
<1>5. CASE NoFault /\ (ReportWithoutActing \/ VerifyNext)
  <2>1. /\ UNCHANGED <<world, host, seen, step, touched, calm, settled>>
        /\ stale' \subseteq stale
    BY <1>5 DEF NoFault, ReportWithoutActing, VerifyNext
  <2> QED
    BY <2>1 DEF QuietStays, Want
<1>6. CASE NoFault /\ ApplySucceeds
  <2>1. Changes(step[at].action) /\ at \in Resources
    BY <1>6, AtInside DEF ApplySucceeds, Branch
  <2>2. ~settled /\ UNCHANGED <<stale, calm, settled>>
    BY <1>6, <2>1 DEF ApplySucceeds, NoFault, QuietStays, Changes
  <2> QED
    BY <2>2 DEF QuietStays
<1>7. CASE Finish
  BY <1>7 DEF Finish, NoFault, QuietStays, Want
<1>8. CASE UNCHANGED vars
  BY <1>8 DEF vars, QuietStays, Want
<1>9. ObserveNext \/ PlanNext \/ ReportWithoutActing \/ ApplySucceeds \/ VerifyNext => Fault \/ NoFault
  BY DEF ObserveNext, PlanNext, ReportWithoutActing, ApplySucceeds, VerifyNext
<1>10. EnforceRefused \/ ApplyFails \/ Abandon \/ (\E r \in Resources : Drift(r)) => Fault
  BY DEF EnforceRefused, ApplyFails, Abandon, Drift
<1> QED
  BY <1>1, <1>2, <1>3, <1>4, <1>5, <1>6, <1>7, <1>8, <1>9, <1>10 DEF Next, Agent

LEMMA OutcomeInit == Init => OInv
<1> SUFFICES ASSUME Init PROVE OInv
  OBVIOUS
<1>1. IInv /\ BlockedHasACause
  BY InvInit DEF Init, BlockedHasACause
<1>2. ReadingStands /\ PlanStands /\ VerdictsFollowSteps /\ AppliedMeansTried
  BY DEF Init, ReadingStands, PlanStands, VerdictsFollowSteps, AppliedMeansTried, Targets
<1>3. OwedUntilReacted /\ ReportStands /\ ConvergedWasRead /\ QuietStays
  BY DEF Init, OwedUntilReacted, ReportStands, Reported, ConvergedWasRead, QuietStays
<1> QED
  BY <1>1, <1>2, <1>3 DEF OInv

(* What was read, planned, reported and left undone agree in every         *)
(* reachable state.                                                        *)
THEOREM PassOutcomeInvariant == Spec => []OInv
<1>1. OInv /\ [Next]_vars => OInv'
  <2> SUFFICES ASSUME OInv, [Next]_vars PROVE OInv'
    OBVIOUS
  <2>1. IInv' /\ BlockedHasACause'
    BY InvStep, CauseStep DEF OInv
  <2>2. ReadingStands' /\ PlanStands' /\ VerdictsFollowSteps' /\ AppliedMeansTried'
    BY ReadingStep, PlanStep, VerdictsStep, AppliedStep
  <2>3. OwedUntilReacted' /\ ReportStands' /\ ConvergedWasRead' /\ QuietStays'
    BY OwedStep, ReportStep, ConvergedStep, QuietStep
  <2> QED
    BY <2>1, <2>2, <2>3 DEF OInv
<1> QED
  BY <1>1, OutcomeInit, PTL DEF Spec

-----------------------------------------------------------------------------
(* What a reader of a report may rely on.                                  *)

(* A target reported converged held what was declared when it was last     *)
(* read, and holds it until it drifts, whatever its provider claimed.      *)
THEOREM PassConvergedWasRead == Spec => []ConvergedWasRead
<1>1. OInv => ConvergedWasRead
  BY DEF OInv
<1> QED
  BY <1>1, PassOutcomeInvariant, PTL

(* A pass that follows a good one on a host nobody disturbed acts on       *)
(* nothing.                                                                *)
THEOREM PassSecondIsEmpty == Spec => []SecondPassIsEmpty
<1>1. OInv => SecondPassIsEmpty
  BY DEF OInv, QuietStays, SecondPassIsEmpty
<1> QED
  BY <1>1, PassOutcomeInvariant, PTL

\* What was to be changed and was settled soundly was acted on.
LEMMA ChangesWereMade ==
  ASSUME OInv, NEW r \in Resources, Changes(step[r].action),
         verdict[r] \in {"converged", "skipped"} \/ (verdict[r] = "drifted" /\ world.mode = "enforce")
  PROVE  r \in touched
<1>1. VerdictsFollowSteps
  BY DEF OInv
<1>2. step[r].action # "skip"
  BY DEF Changes
<1>3. world.mode = "enforce" => world.mode # "observe"
  OBVIOUS
<1> QED
  BY <1>1, <1>2, <1>3 DEF VerdictsFollowSteps

(* Converged means nothing was to be done, changed means everything acted  *)
(* on was verified, neither hides a failure, and the host's own state is   *)
(* never better than the outcome.                                          *)
THEOREM PassOutcomeMeans == Spec => []OutcomeMeansWhatItSays
<1>1. OInv => OutcomeMeansWhatItSays
  <2> SUFFICES ASSUME OInv, Reported PROVE OutcomeMeansWhatItSays
    BY DEF OutcomeMeansWhatItSays
  <2>0. /\ StateShape /\ Flags /\ VerdictsFollowSteps /\ AppliedMeansTried /\ BlockedHasACause
        /\ UnsoundSpreads
    BY DEF OInv, IInv, TypeOK
  <2>1. /\ outcome = OutcomeOf(verdict, failed, applied)
        /\ \A r \in Resources : verdict[r] # "waiting"
    BY DEF OInv, ReportStands
  <2>2. ASSUME outcome \in {"converged", "changed"}
        PROVE  /\ failed = {} /\ blocked = {}
               /\ \A r \in Resources : verdict[r] \in {"converged", "skipped"}
    <3>1. failed = {} /\ \A r \in Resources : verdict[r] \notin {"failed", "blocked", "drifted"}
      BY <2>0, <2>1, <2>2 DEF OutcomeOf, StateShape
    <3>2. blocked = {}
      BY <2>0, <3>1 DEF BlockedHasACause
    <3> QED
      BY <2>0, <2>1, <3>1, <3>2 DEF StateShape, Verdicts
  <2>3. ASSUME outcome = "converged"
        PROVE  touched = {} /\ \A r \in Resources : ~Changes(step[r].action)
    <3>1. ~applied
      BY <2>1, <2>3 DEF OutcomeOf
    <3>2. touched = {}
      BY <2>0, <3>1 DEF AppliedMeansTried
    <3> QED
      BY <2>2, <2>3, <3>2, ChangesWereMade
  <2>4. ASSUME outcome = "changed"
        PROVE  touched # {} /\ \A r \in touched : verdict[r] = "converged"
    <3>1. applied
      BY <2>0, <2>1, <2>4 DEF OutcomeOf, Flags
    <3>2. touched # {}
      BY <2>0, <2>2, <2>4, <3>1 DEF AppliedMeansTried
    <3>3. \A r \in touched : step[r].action # "skip"
      BY <2>0 DEF VerdictsFollowSteps, Changes
    <3> QED
      BY <2>0, <2>2, <2>4, <3>2, <3>3 DEF VerdictsFollowSteps, StateShape
  <2>5. ASSUME HostState(verdict) = "converged" PROVE outcome \in {"converged", "changed"}
    <3>1. \A r \in Resources : verdict[r] \notin {"failed", "blocked", "skipped", "drifted"}
      BY <2>5 DEF HostState
    <3>2. failed = {}
      BY <2>0, <3>1 DEF VerdictsFollowSteps, StateShape
    <3> QED
      BY <2>1, <3>1, <3>2 DEF OutcomeOf
  <2> QED
    BY <2>2, <2>3, <2>4, <2>5 DEF OutcomeMeansWhatItSays
<1> QED
  BY <1>1, PassOutcomeInvariant, PTL

\* A step is triggered when something the resource reacts to changes.
LEMMA TriggeredWhenFired ==
  ASSUME NEW r \in Resources
  PROVE  Planned(r).trigger <=> Fired(r) # {}
<1> DEFINE fired == Fired(r) # {}
<1>1. \A a, b, c : [action |-> a, trigger |-> b, err |-> c].trigger = b
  OBVIOUS
<1>2. \E a, c : Planned(r) = [action |-> a, trigger |-> fired, err |-> c]
  BY DEF Planned
<1> HIDE DEF fired
<1>3. Planned(r).trigger = fired
  BY <1>1, <1>2, Zenon
<1> QED
  BY <1>3, Zenon DEF fired

\* What reacts to something this plan changes is to be changed itself, unless
\* nothing serves it.
LEMMA ReactionsArePlanned ==
  ASSUME OInv, NEW e \in Edges, Triggers(e), Changes(step[e.from].action),
         e.to \in Resources, step[e.to] = Planned(e.to)
  PROVE  /\ step[e.to].trigger
         /\ Changes(step[e.to].action) \/ step[e.to].action = "skip"
<1>1. e \in Fired(e.to)
  BY DEF Fired
<1>2. Fired(e.to) # {}
  BY <1>1
<1>3. step[e.to].trigger
  BY <1>2, TriggeredWhenFired, Zenon
<1>4. step[e.to].action \in {"create", "update", "remove", "skip"}
  BY <1>2 DEF Planned, Decide
<1> QED
  BY <1>3, <1>4 DEF Changes

(* Nothing that reacts to a change of a pass reported changed is left      *)
(* without its restart or reload, except where nothing serves it.          *)
THEOREM PassChangedMeansReacted == Spec => []ChangedMeansReacted
<1>1. OInv => ChangedMeansReacted
  <2> SUFFICES ASSUME OInv, Reported, outcome = "changed", NEW e \in owed, e.from \in touched,
                      verdict[e.to] # "skipped"
               PROVE  FALSE
    BY DEF ChangedMeansReacted
  <2>0. /\ StateShape /\ VerdictsFollowSteps /\ OwedUntilReacted /\ PlanStands
    BY DEF OInv, IInv, TypeOK
  <2>1. /\ failed = {}
        /\ \A r \in Resources : verdict[r] \notin {"failed", "blocked", "drifted", "waiting"}
    BY <2>0 DEF OInv, ReportStands, OutcomeOf, StateShape
  <2>2. e \in Edges /\ e.to \in Resources
    BY <2>0, WorldsAssumption DEF StateShape, World, Edge, Edges
  <2>3. verdict[e.to] = "converged"
    BY <2>0, <2>1, <2>2 DEF StateShape, Verdicts
  <2>4. Triggers(e) /\ Changes(step[e.from].action)
    BY <2>0 DEF OwedUntilReacted, VerdictsFollowSteps
  <2>5. step[e.to] = Planned(e.to)
    BY <2>0, <2>2 DEF PlanStands
  <2>6. step[e.to].trigger /\ (Changes(step[e.to].action) \/ step[e.to].action = "skip")
    BY <2>2, <2>4, <2>5, ReactionsArePlanned
  <2>7. Changes(step[e.to].action)
    BY <2>0, <2>2, <2>3, <2>6 DEF VerdictsFollowSteps
  <2>8. e.to \in touched
    BY <2>2, <2>3, <2>7, ChangesWereMade
  <2> QED
    BY <2>0, <2>1, <2>6, <2>8 DEF OwedUntilReacted
<1> QED
  BY <1>1, PassOutcomeInvariant, PTL

(* A restart or reload happens only after something it reacts to was       *)
(* acted on in the same pass without an error.                             *)
THEOREM PassReactionHasACause == Spec => []ReactionHasACause
<1>1. OInv => ReactionHasACause
  <2> SUFFICES ASSUME OInv, NEW r \in touched, step[r].trigger
               PROVE  \E e \in TriggersInto(r) : e.from \in touched /\ e.from \notin failed
    BY DEF ReactionHasACause
  <2>0. /\ StateShape /\ VerdictsFollowSteps /\ PlanStands /\ UnsoundSpreads /\ ActedInOrder
    BY DEF OInv, IInv, TypeOK
  <2>1. r \in Resources /\ step[r] = Planned(r)
    BY <2>0 DEF StateShape, PlanStands
  <2>2. PICK e \in Edges : e.to = r /\ Triggers(e) /\ Changes(step[e.from].action)
    <3>1. Fired(r) # {}
      BY <2>1, TriggeredWhenFired, Zenon
    <3> QED
      BY <3>1 DEF Fired
  <2>3. e.from \in Resources /\ e.from < r
    BY <2>0, <2>2, WorldsAssumption DEF StateShape, World, Edge, Edges
  <2>4. e.from \notin failed \cup blocked
    BY <2>0, <2>2 DEF UnsoundSpreads, ActedInOrder
  <2>5. verdict[e.from] # "waiting"
    BY <2>0, <2>1, <2>3 DEF ActedInOrder, Resources
  <2>6. verdict[e.from] \in {"converged", "drifted", "skipped"}
    BY <2>0, <2>3, <2>4, <2>5 DEF StateShape, Verdicts, UnsoundSpreads
  <2>7. world.mode = "enforce"
    BY <2>0 DEF VerdictsFollowSteps
  <2>8. e.from \in touched
    BY <2>2, <2>3, <2>6, <2>7, ChangesWereMade
  <2> QED
    BY <2>2, <2>4, <2>8 DEF TriggersInto
<1> QED
  BY <1>1, PassOutcomeInvariant, PTL
=============================================================================

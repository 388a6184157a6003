---------------------------- MODULE PassContract ----------------------------
(***************************************************************************)
(* What one reconciliation pass promises about the resources of a graph,   *)
(* without observing, planning or providers: a resource is settled after   *)
(* everything it waits for, it is acted on only if all of that stands, and *)
(* what waits for something unsound is unsound itself.                     *)
(***************************************************************************)
EXTENDS Integers

CONSTANT Resources
VARIABLES
  edges,   \* who waits for whom
  status,  \* "open" until settled
  acted    \* resources the host was changed for in this pass

vars == <<edges, status, acted>>

Before(r) == {e.from : e \in {f \in edges : f.to = r}}

Init ==
  /\ status = [r \in Resources |-> "open"]
  /\ acted = {}

\* A pass begins, whatever became of the one before it.
Open ==
  /\ status' = [r \in Resources |-> "open"]
  /\ acted' = {}
  /\ UNCHANGED edges

Ready(r) == status[r] = "open" /\ \A d \in Before(r) : status[d] # "open"
Stands(r) == \A d \in Before(r) : status[d] # "unsound"

Act(r) ==
  /\ Ready(r) /\ Stands(r)
  /\ acted' = acted \cup {r}
  /\ UNCHANGED <<edges, status>>

Settle(r) ==
  /\ Ready(r)
  /\ \E s \in {"sound", "unsound", "uncovered"} :
       /\ ~Stands(r) => s = "unsound"
       /\ status' = [status EXCEPT ![r] = s]
  /\ acted' = acted \/ (Stands(r) /\ acted' = acted \cup {r})
  /\ UNCHANGED edges

Next == Open \/ \E r \in Resources : Act(r) \/ Settle(r)

Spec == Init /\ [][Next]_vars
=============================================================================

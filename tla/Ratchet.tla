------------------------------- MODULE Ratchet -------------------------------
(***************************************************************************)
(* What the accepted revision promises, without clones, locks, passes or   *)
(* files: it only ever moves to a commit that was vetted and that descends *)
(* from the one it leaves, and only an operator can make a host forget it. *)
(***************************************************************************)
EXTENDS History

CONSTANTS None
VARIABLES
  vetted,   \* commits that verify, and resolve and validate for this host
  ordered,  \* the descendant requirement is on
  pointer   \* the accepted revision, None before first contact

vars == <<vetted, ordered, pointer>>

Init == pointer \in vetted \cup {None}

Advance(c) ==
  /\ c \in vetted
  /\ ordered /\ pointer # None => IsAncestor(pointer, c)
  /\ pointer' = c
  /\ UNCHANGED <<vetted, ordered>>

Forget ==
  /\ pointer' = None
  /\ UNCHANGED <<vetted, ordered>>

Next == Forget \/ \E c \in Commits : Advance(c)

Spec == Init /\ [][Next]_vars
=============================================================================

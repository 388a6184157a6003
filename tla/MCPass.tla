------------------------------- MODULE MCPass -------------------------------
(***************************************************************************)
(* Three resources in the graphs where something can go wrong: a chain, a  *)
(* fork of two triggers and a triangle, all served and declared present or *)
(* with a gap in coverage, a target to remove, or a pass that only looks.  *)
(***************************************************************************)
EXTENDS Pass

MCN == 3

E(from, to, kind) == [from |-> from, to |-> to, kind |-> kind]

Chain == {E(1, 2, "requires"), E(2, 3, "reloadOn")}
Fork == {E(1, 3, "restartOn"), E(2, 3, "restartOn"), E(2, 3, "requires")}
Triangle == {E(1, 2, "requires"), E(1, 3, "restartOn"), E(2, 3, "requires")}

W(edges, absent, unserved, mode) ==
  [edges  |-> edges,
   wanted |-> [r \in Resources |-> IF r \in absent THEN "absent" ELSE "present"],
   served |-> [r \in Resources |-> r \notin unserved],
   mode   |-> mode]

MCWorlds ==
  {W(g, {}, {}, "enforce") : g \in {Chain, Fork, Triangle}}
    \cup {W(Chain, {3}, {}, "enforce"), W(Fork, {1}, {}, "enforce"),
          W(Chain, {}, {2}, "enforce"), W(Fork, {}, {1}, "enforce"),
          W(Triangle, {2}, {}, "observe")}
=============================================================================

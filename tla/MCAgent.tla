------------------------------- MODULE MCAgent -------------------------------
(***************************************************************************)
(* A branch that is built on and broken, a branch beside it, and the merge *)
(* that mends it:                                                          *)
(*                                                                         *)
(*     base -- good -- broken -- mended                                    *)
(*         \-- fork ------------/                                          *)
(*                                                                         *)
(* broken does not resolve, and whoever signs left fork (or its tag) out   *)
(* under signed-commit.  Two agents and one datum reconcile share a host.  *)
(***************************************************************************)
EXTENDS Agent

CONSTANTS base, good, broken, mended, fork

MCCommits == {base, good, broken, mended, fork}

MCDescends ==
  {<<c, c>> : c \in MCCommits} \cup {<<base, c>> : c \in MCCommits}
    \cup {<<c, mended>> : c \in MCCommits} \cup {<<good, broken>>}

S(require, descendant, trusted) ==
  [require |-> require, descendant |-> descendant, trusted |-> trusted,
   resolves |-> MCCommits \ {broken}]

MCSettings ==
  {S("none", FALSE, {}), S("signed-commit", TRUE, MCCommits \ {fork}),
   S("signed-tag", TRUE, MCCommits \ {base})}

MCRemotes == {[tip |-> good, tags |-> {}], [tip |-> mended, tags |-> {good, fork}]}
=============================================================================

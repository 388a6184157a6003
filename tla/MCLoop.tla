------------------------------- MODULE MCLoop -------------------------------
(***************************************************************************)
(* Two hosts with an interval of two: one whose ticks lie between the      *)
(* boundaries, and one whose splay is longer than its interval, so that    *)
(* its offset is as well.                                                  *)
(***************************************************************************)
EXTENDS Loop

Host(hash, splay) == [hash |-> hash, interval |-> 2, splay |-> splay, period |-> 16]

MCSettings == {Host(5, 2), Host(7, 4)}
MCPasses == 1..5
MCNever == 0
=============================================================================

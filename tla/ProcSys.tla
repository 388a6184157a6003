------------------------------- MODULE ProcSys -------------------------------
(***************************************************************************)
(* Provider proc-sys: one kernel parameter, in the running kernel and in   *)
(* the provider's file under sysctl.d.  A value is text; tidy says that it *)
(* has single spaces only, as what is read back always has.                *)
(***************************************************************************)
EXTENDS Provider

Text(value, tidy) == [value |-> value, tidy |-> tidy]
Unset == Text("unset", TRUE)                          \* no such parameter, or no file

Parameter(running, stored) == [running |-> running, stored |-> stored]

Normalise(text) == Text(text.value, TRUE)

Observe(type, d, host) ==
  LET managed == host.stored # Unset
      seen == There([value |-> Normalise(host.running),
                     persisted |-> IF managed /\ Normalise(host.stored) = d.value THEN "true" ELSE "false"])
  IN  [seen EXCEPT !.exists = managed,
                   !.unobservable = IF host.running = Unset THEN {"value"} ELSE {},
                   !.desired = IF Present(d) THEN [value |-> d.value, persisted |-> "true"] ELSE <<>>]

SetCalls == <<"write", "persist">>

Calls(type, d, host, action, trigger) ==
  IF action = "remove" THEN <<"unpersist">> ELSE SetCalls

\* Beside writing what was asked for, the kernel may refuse it.
Effect(type, d, host, call) ==
  CASE call = "write"     -> IF host.running = Unset THEN {} ELSE {[host EXCEPT !.running = Normalise(d.value)]}
    [] call = "persist"   -> {[host EXCEPT !.stored = d.value]}
    [] call = "unpersist" -> {[host EXCEPT !.stored = Unset]}
=============================================================================

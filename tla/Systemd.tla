------------------------------- MODULE Systemd -------------------------------
(***************************************************************************)
(* Provider systemd: one unit, as one systemctl show call reports it.      *)
(***************************************************************************)
EXTENDS Provider, Sequences

Unit(load, active, file) == [load |-> load, active |-> active, file |-> file]

Exists(unit) == unit.load # "not-found"
Running(unit) == unit.active = "active"

\* A static or masked unit has no answer to whether it starts at boot.
EnablementKnownOfAll(unit) == TRUE                    \* defect: what cannot be enabled reads as disabled
EnablementKnown(unit) == unit.file \in {"enabled", "enabled-runtime", "disabled"}
Enabled(unit) == unit.file \in {"enabled", "enabled-runtime"}

Observe(type, d, host) ==
  LET unit == host.unit
      known == EnablementKnown(unit)
  IN  IF ~Exists(unit) THEN NotThere
      ELSE [There([f \in {"state"} \cup (IF known THEN {"enabled"} ELSE {}) |->
                     IF f = "state" THEN IF Running(unit) THEN "running" ELSE "stopped"
                                    ELSE IF Enabled(unit) THEN "true" ELSE "false"])
              EXCEPT !.unobservable = IF known THEN {} ELSE {"enabled"}]

-----------------------------------------------------------------------------
(* Apply reads the unit once and then makes at most two calls.             *)

SetEnabled(d, unit) ==
  IF "enabled" \notin DOMAIN d \/ ~EnablementKnown(unit) \/ Enabled(unit) = (d.enabled = "true") THEN <<>>
  ELSE IF d.enabled = "true" THEN <<"enable">> ELSE <<"disable">>

SetRunningRestarting(d, unit, trigger) ==             \* defect: every action restarts
  IF d.state = "stopped" THEN <<"stop">> ELSE <<"restart">>
SetRunning(d, unit, trigger) ==
  IF d.state = "stopped" THEN IF Running(unit) THEN <<"stop">> ELSE <<>>
  ELSE IF ~Running(unit) THEN <<"start">>
  ELSE IF trigger = "none" THEN <<>> ELSE <<trigger>>

Calls(type, d, host, action, trigger) ==
  IF action = "remove" \/ ~Exists(host.unit) THEN <<"refuse">>
  ELSE SetEnabled(d, host.unit) \o SetRunning(d, host.unit, trigger)

\* systemctl succeeds once the unit has come up, and it may go down again.
Effect(type, d, host, call) ==
  LET unit == host.unit
      usable == Exists(unit) /\ unit.load # "masked"
  IN  {[host EXCEPT !.unit = u] : u \in
        CASE call = "refuse" -> {}
          [] call \in {"enable", "disable"} ->
               IF ~usable THEN {}
               ELSE IF unit.file = "static" THEN {unit}
               ELSE {[unit EXCEPT !.file = IF call = "enable" THEN "enabled" ELSE "disabled"]}
          [] call \in {"start", "restart"} -> IF usable THEN {[unit EXCEPT !.active = "active"]} ELSE {}
          [] call = "stop" -> IF Exists(unit) THEN {[unit EXCEPT !.active = "inactive"]} ELSE {}
          [] call = "reload" -> IF usable /\ Running(unit) THEN {unit} ELSE {}}
=============================================================================

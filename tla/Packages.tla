------------------------------ MODULE Packages ------------------------------
(***************************************************************************)
(* Providers apt and dnf, serving Package: one package, by the status and  *)
(* version the package manager has for it.  Versions are numbers, in the   *)
(* manager's own order.                                                    *)
(***************************************************************************)
EXTENDS Provider

CONSTANT Versions  \* the versions the configured sources offer

\* Removed but not purged, a package is not installed.
Package(manager, status, version) == [manager |-> manager, status |-> status, version |-> version]
Installed(host) == host.status = "installed"

Observe(type, d, host) ==
  IF Installed(host) THEN There([version |-> host.version]) ELSE NotThere

\* dnf install does not go backwards, so rpm's order picks the verb.
VerbUpwards(version, host) == "install"               \* defect: a pin below what is installed
Verb(version, host) ==
  IF host.manager = "apt" \/ ~Installed(host) \/ version > host.version THEN "install"
  ELSE IF version = host.version THEN "leave" ELSE "downgrade"

Calls(type, d, host, action, trigger) ==
  IF action = "remove" THEN <<"erase">>
  ELSE IF "version" \notin DOMAIN d THEN <<"upgrade">>
  ELSE IF Verb(d.version, host) = "leave" THEN <<>> ELSE <<Verb(d.version, host)>>

\* A transaction as the managers carry it out; removing leaves configuration.
Newest == CHOOSE v \in Versions : \A w \in Versions : w <= v
Backwards(d, host) == Installed(host) /\ d.version < host.version
At(version, host) == Package(host.manager, "installed", version)

Effect(type, d, host, call) ==
  CASE call = "upgrade"   -> {At(Newest, host)}
    [] call = "install"   -> IF d.version \notin Versions THEN {}
                             ELSE IF host.manager = "dnf" /\ Backwards(d, host) THEN {host}
                             ELSE {At(d.version, host)}
    [] call = "downgrade" -> IF d.version \in Versions /\ Backwards(d, host) THEN {At(d.version, host)} ELSE {}
    [] call = "erase"     -> {IF Installed(host) THEN Package(host.manager, "config-files", 0) ELSE host}
=============================================================================

----------------------------- MODULE Capability -----------------------------
(***************************************************************************)
(* Which provider serves a resource type on this host                      *)
(* (internal/capability/capability.go), from what os-release says the host *)
(* is and what the host has.                                               *)
(***************************************************************************)
EXTENDS Sequences, SequencesExt, FiniteSets, TLC

\* candidates().  No distribution is one that any may use; what a provider
\* needs is there or not, apart from the programs it runs.
Candidates ==
  {[name |-> "posix",     types |-> {"File", "Directory", "Symlink"}, claims |-> {},                  needs |-> "nothing"],
   [name |-> "apt",       types |-> {"Package", "Repository"},        claims |-> {"debian"},          needs |-> "nothing"],
   [name |-> "dnf",       types |-> {"Package", "Repository"},        claims |-> {"fedora", "rhel"},  needs |-> "nothing"],
   [name |-> "linuxuser", types |-> {"User", "Group"},                claims |-> {},                  needs |-> "shadow"],
   [name |-> "procsys",   types |-> {"Sysctl"},                       claims |-> {},                  needs |-> "proc"],
   [name |-> "systemd",   types |-> {"Service"},                      claims |-> {},                  needs |-> "systemd"]}

\* osrelease.ReadFrom: a host without the file, or without an ID, is linux.
ReadFrom(file) == IF "id" \in DOMAIN file THEN file ELSE [id |-> "linux", like |-> file.like]

Identifiers(release) == <<release.id>> \o release.like

-----------------------------------------------------------------------------
(* pick, for the candidates of one type that can work here.                *)

Best(candidates, identifier) == {c \in candidates : identifier \in c.claims}
General(candidates) == {c \in candidates : c.claims = {}}

\* The candidates for the closest identifier that anybody claims, else the general ones.
PickFurthest(candidates, release) ==               \* defect: ID_LIKE is read from the far end
  LET i == SelectLastInSeq(Identifiers(release), LAMBDA id : Best(candidates, id) # {})
  IN  IF i = 0 THEN General(candidates) ELSE Best(candidates, Identifiers(release)[i])
Pick(candidates, release) ==
  LET i == SelectInSeq(Identifiers(release), LAMBDA id : Best(candidates, id) # {})
  IN  IF i = 0 THEN General(candidates) ELSE Best(candidates, Identifiers(release)[i])

-----------------------------------------------------------------------------
(* selectFrom and NewSet.                                                  *)

For(candidates, type) == {c \in candidates : type \in c.types}
Usable(candidates, has) == {c \in candidates : c.needs \in has \cup {"nothing"}}
Types(candidates) == UNION {c.types : c \in candidates}

Picked(machine, type) == Pick(For(Usable(machine.candidates, machine.has), type), ReadFrom(machine.release))

\* Two that are equally specific: somebody has to choose.
IsAmbiguous(machine) == \E type \in Types(machine.candidates) : Cardinality(Picked(machine, type)) > 1

Served(machine) == {type \in Types(machine.candidates) : Picked(machine, type) # {}}

\* A provider that is picked for a type is registered for all of its types,
\* the type last in the order overriding.
One(machine, type) == CHOOSE c \in Picked(machine, type) : TRUE
NewSet(machine, order) ==
  LET Registers(type, t) == type \in Served(machine) /\ t \in One(machine, type).types
  IN  [t \in UNION {One(machine, type).types : type \in Served(machine)} |->
         One(machine, order[SelectLastInSeq(order, LAMBDA type : Registers(type, t))]).name]

\* Why a type is not served: what was ruled out waits for something, or nobody
\* has written a provider for this distribution.
Unserved(machine) ==
  [type \in Types(machine.candidates) \ Served(machine) |->
     {c.needs : c \in For(machine.candidates \ Usable(machine.candidates, machine.has), type)}]
=============================================================================

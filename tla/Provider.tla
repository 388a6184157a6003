------------------------------ MODULE Provider ------------------------------
(***************************************************************************)
(* What a provider is to the engine: an observation that is compared with  *)
(* the declared fields, the action that follows from the comparison, and   *)
(* the verdict once the action has been carried out.                       *)
(*                                                                         *)
(* A declaration d maps field names to values; an observation maps the     *)
(* fields that were read back to theirs.                                   *)
(***************************************************************************)
EXTENDS Naturals, FiniteSets

Paths == {"File", "Directory", "Symlink"}

\* The field that names the target, for the types that have one.
Identity(type) == IF type \in Paths THEN {"path"}
                  ELSE IF type = "Repository" THEN {"id"} ELSE {}

Declared(d, f, default) == IF f \in DOMAIN d THEN d[f] ELSE default

Present(d) == Declared(d, "state", "present") # "absent"

-----------------------------------------------------------------------------

NotThere == [exists |-> FALSE, fields |-> <<>>, desired |-> <<>>, unobservable |-> {}, uncorrectable |-> {}]
There(fields) == [NotThere EXCEPT !.exists = TRUE, !.fields = fields]

\* A provider may restate the declaration in the form it observes.
DesiredOr(d, seen) == IF DOMAIN seen.desired = {} THEN d ELSE seen.desired

NotComparable == {"source", "template", "secretRef", "passwordRef", "validate",
                  "allowPrivileged", "system", "unsigned", "suite"}

\* Of most types, state says whether there is to be a target, which is not a
\* field to compare; of a Service it is.
ComparableNeverState(f, v) == f # "state" /\ f \notin NotComparable  \* defect: a stopped service looks converged
Comparable(f, v) == IF f = "state" THEN v \notin {"present", "absent"} ELSE f \notin NotComparable

Compare(type, d, seen) ==
  {f \in DOMAIN d \ (Identity(type) \cup seen.unobservable) :
     /\ Comparable(f, d[f])
     /\ f \in DOMAIN seen.fields => seen.fields[f] # d[f]}

Decide(type, d, seen) ==
  IF Present(d) # seen.exists THEN IF Present(d) THEN "create" ELSE "remove"
  ELSE IF Present(d) /\ Compare(type, DesiredOr(d, seen), seen) # {} THEN "update"
  ELSE "none"

\* verify, and what a pass that had nothing to do says.
Verify(type, d, seen) ==
  LET left == IF seen.exists THEN Compare(type, DesiredOr(d, seen), seen) ELSE {}
  IN  IF Present(d) # seen.exists \/ ~(left \subseteq seen.uncorrectable) THEN "failed"
      ELSE IF left # {} THEN "drifted"
      ELSE "converged"
=============================================================================

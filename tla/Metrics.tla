------------------------------ MODULE Metrics ------------------------------
(***************************************************************************)
(* What the agent serves between passes (internal/metrics/metrics.go): a   *)
(* registry that three calls change and a scrape only reads.               *)
(*                                                                         *)
(* A time stands for the pass it was taken in, so a timestamp is the name  *)
(* of a pass, or Never, which is served as zero.  Outcomes other than      *)
(* failed are not told apart, and counters of passes, which nothing reads  *)
(* and no restart keeps, are left out.                                     *)
(***************************************************************************)
EXTENDS Naturals

CONSTANT Never

NoReport == [pass |-> Never, fine |-> FALSE]

\* NewRegistry.
Empty == [latest |-> NoReport, attempt |-> Never, success |-> Never, failures |-> 0]

\* A report was made; unless its outcome is failed, this is also the last success.
RecordPassAsSuccess(registry, report, failures) ==    \* defect: a failed pass is a success as well
  [latest |-> report, attempt |-> report.pass, success |-> report.pass, failures |-> failures]
RecordPass(registry, report, failures) ==
  [latest   |-> report,
   attempt  |-> report.pass,
   success  |-> IF report.fine THEN report.pass ELSE registry.success,
   failures |-> failures]

\* A pass began, whatever becomes of it.
RecordAttempt(registry, pass) == [registry EXCEPT !.attempt = pass]

\* A pass ended without a report.
RecordFailure(registry, failures) == [registry EXCEPT !.failures = failures]
=============================================================================

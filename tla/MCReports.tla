------------------------------ MODULE MCReports ------------------------------
(***************************************************************************)
(* Two writers, one reader and a directory that keeps two reports: enough  *)
(* passes to prune what has an equal time, and to prune twice.             *)
(***************************************************************************)
EXTENDS Reports
=============================================================================

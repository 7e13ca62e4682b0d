------------------------- MODULE MCReloaderReports -------------------------
(* Constants of ReloaderReports for TLC. *)
EXTENDS ReloaderReports

MCWriters == {"evaluator", "collector"}
MCSpecs == SUBSET Workloads
============================================================================

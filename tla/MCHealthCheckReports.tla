------------------------ MODULE MCHealthCheckReports ------------------------
(* Constants of HealthCheckReports for TLC. *)
EXTENDS HealthCheckReports

MCWriters == {"evaluator", "collector"}
=============================================================================

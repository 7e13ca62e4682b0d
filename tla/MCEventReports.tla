--------------------------- MODULE MCEventReports ---------------------------
(* Constants of EventReports for TLC. *)
EXTENDS EventReports

MCWriters == {"evaluator", "collector"} \cup Subs
MCSpecs == [matching : Matches, events : SUBSET Events]
=============================================================================

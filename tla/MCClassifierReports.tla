------------------------ MODULE MCClassifierReports ------------------------
(* Constants of ClassifierReports for TLC. *)
EXTENDS ClassifierReports

MCWriters == {"evaluator", "collector"}

\* An upgrade to the next release.
MCVersions == {[release |-> 1, suffix |-> 1], [release |-> 2, suffix |-> 0]}

\* Both criteria, with a script that wants pods and no nodes; and a version only.
MCClassifierSpecs ==
    {[constraints |-> {[comparison |-> "LessThan", release |-> 2]},
      selectors |-> {"pods", "nodes"}, accepts |-> {{"pods"}}],
     [constraints |-> {[comparison |-> "GreaterThan", release |-> 1]},
      selectors |-> {}, accepts |-> NoScript]}
============================================================================

------------------------- MODULE MCEvaluationQueue -------------------------
(* Constants for model checking EvaluationQueue. *)
EXTENDS EvaluationQueue

PlainLoops == {"classifier", "healthCheck", "eventSource"}
ReloaderLoop == {"reloader"}
============================================================================

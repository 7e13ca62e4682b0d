----------------------------- MODULE MCWatchers -----------------------------
(* Constants for model checking Watchers. *)
EXTENDS Watchers

OneCRD == {<<"a.io", "v1", "A">>}
=============================================================================

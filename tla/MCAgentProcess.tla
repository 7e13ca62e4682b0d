--------------------------- MODULE MCAgentProcess ---------------------------
(* Instances of AgentProcess for TLC. *)
EXTENDS AgentProcess

\* A kind whose GVKs are watched and the one whose are not.
MCOrder == <<"eventSource", "reloader">>

\* Either CRD can come later; of the GVKs there may or may not be resources.
MCClusters == {[crds |-> {"eventSource"}, objects |-> {"deployments"}],
               [crds |-> {"reloader"}, objects |-> {"deployments", "services"}]}
=============================================================================

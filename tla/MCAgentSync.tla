---------------------------- MODULE MCAgentSync -----------------------------
(* AgentSync with configurations that differ in port and in enablement.    *)
EXTENDS AgentSync

CONSTANTS a1, i1, i2

Stream(port, enabled) ==
  [protocol |-> "tcp", domain |-> NoDomain, path_prefix |-> << >>, strip_path |-> FALSE,
   public_port |-> port, target |-> 1, enabled |-> enabled]

TwoRoutes == {Stream(1000, TRUE), Stream(1001, TRUE), Stream(1001, FALSE)}

(* Identifiers are drawn at random, so which of them comes first does not  *)
(* matter: every behaviour is one of these, with its routes renamed.       *)
InOrder == i2 \in issued' => i1 \in issued'
=============================================================================

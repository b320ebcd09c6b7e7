--------------------------- MODULE MCManagedKeys ----------------------------
(* Managed keys with addresses that differ, or of which two collide. *)
EXTENDS ManagedKeys

CONSTANTS a1, a2, a3, k1, k2

DistinctAddresses == [a \in Agents |-> a]
CollidingAddresses == [a \in Agents |-> IF a = a3 THEN a2 ELSE a]

(* Keys are alike, and so are the agents that collide: every behaviour is  *)
(* one of these, with its keys and agents renamed.                         *)
MCInit == Init /\ hostkey[a1] = k1 /\ (hostkey[a3] = k1 => hostkey[a2] = k1)

MCSpec == MCInit /\ [][Next]_vars /\ Fairness
=============================================================================

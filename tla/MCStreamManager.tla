--------------------------- MODULE MCStreamManager ---------------------------
(* StreamManager with two routes, two ports and a session, begun with the  *)
(* first route published and the second absent, or waiting for its port.   *)
EXTENDS StreamManager

CONSTANTS i1, i2, p1, p2, w1, w2, w3, s1

PublishedAt(i, p) == routes[i] # None /\ routes[i] = [enabled |-> TRUE, ready |-> TRUE, port |-> p]

MCInit ==
  /\ Init
  /\ foreign = {}
  /\ PublishedAt(i1, p1)
  /\ routes[i2] = None \/ PublishedAt(i2, p1)

MCSpec == MCInit /\ [][Next]_vars /\ Fairness
=============================================================================

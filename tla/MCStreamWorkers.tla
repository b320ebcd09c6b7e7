--------------------------- MODULE MCStreamWorkers ---------------------------
(* The two kinds of worker that the Manager's start chooses from by the    *)
(* protocol of a route: two TCP workers on shared slots, to one of which   *)
(* two clients connect and to the other a third, or a UDP worker with one  *)
(* client, whose sessions follow on each other. The choice is made once,   *)
(* and workers of the other kind are never begun.                          *)
EXTENDS TcpWorker, UdpWorker, TLC

VARIABLE protocol   \* the protocol of the routes

MCInit ==
  /\ protocol \in {"tcp", "udp"}
  /\ Init
  /\ UdpInit

MCNext ==
  \/ protocol = "tcp" /\ Next /\ UNCHANGED << protocol, udpVars >>
  \/ protocol = "udp" /\ UdpNext /\ UNCHANGED << protocol, vars >>

(* Before a worker begins, nothing of it is ready to run: the fairness of  *)
(* the kind that is not chosen asks for nothing.                           *)
MCSpec ==
  /\ MCInit
  /\ [][MCNext]_<< protocol, vars, udpVars >>
  /\ Fairness
  /\ UdpFairness

CONSTANTS w1, w2, c1, c2, c3, s1, s2

TwoAndOne == c1 :> w1 @@ c2 :> w1 @@ c3 :> w2

(* The clients of one TCP worker are alike, and so are the sessions of a   *)
(* UDP client: every behaviour is one of these, with connections and       *)
(* sessions renamed.                                                       *)
InOrder ==
  /\ owner'[c2] # None => owner'[c1] # None
  /\ clientOf'[s2] # None => clientOf'[s1] # None
=============================================================================

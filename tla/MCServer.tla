------------------------------- MODULE MCServer -------------------------------
(* Server with two web routes and two extra ports. *)
EXTENDS Server

CONSTANTS r1, r2, p1, p2

(* A bound: other programs leave the second port alone, and it has at most *)
(* one route, an http one.                                                 *)
SecondPortQuiet ==
  /\ foreign' \subseteq {p1}
  /\ \A i \in Ids : routes'[i] # None /\ routes'[i].port = p2 => i = r2 /\ routes'[i].scheme = "http"
=============================================================================

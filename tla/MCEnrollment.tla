---------------------------- MODULE MCEnrollment ----------------------------
(* Enrollment with two hosts. *)
EXTENDS Enrollment

CONSTANTS h1, h2, t1, t2, c1, c2, c3

(* Claims are drawn at random and tokens are alike: every behaviour is one *)
(* in which the first host is given the first token and claims are drawn   *)
(* in order, with its claims and tokens renamed.                           *)
InOrder == (c2 \in drawn' => c1 \in drawn') /\ (c3 \in drawn' => c2 \in drawn')
MCInit == Init /\ given[h1] = t1

MCSpec == MCInit /\ [][Next]_vars /\ Fairness
=============================================================================

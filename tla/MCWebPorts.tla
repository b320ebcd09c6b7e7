----------------------------- MODULE MCWebPorts -----------------------------
(* The extra ports of one or two web routes. *)
EXTENDS WebPorts

CONSTANTS r1, r2, p1, p2
=============================================================================

---------------------------- MODULE MCReconciler ----------------------------
(* Reconciler with routes on ports of their own, or on one that was freed  *)
(* and allocated again.                                                    *)
EXTENDS Reconciler, TLC

CONSTANTS i1, i2, i3, t1, p1, p2, p3

Tcp == [enabled |-> TRUE, valid |-> TRUE, udp |-> FALSE, target |-> t1]
Udp == [Tcp EXCEPT !.udp = TRUE]
Off == [Tcp EXCEPT !.enabled = FALSE]
Bad == [Tcp EXCEPT !.valid = FALSE]

AllSettings == {Tcp, Udp, Off, Bad}
TcpSettings == {Tcp, Off}

SharedPorts == i1 :> 1 @@ i2 :> 2 @@ i3 :> 1
OnePort == i1 :> 1 @@ i2 :> 1
=============================================================================

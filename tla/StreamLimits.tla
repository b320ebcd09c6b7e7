---------------------------- MODULE StreamLimits ----------------------------
(* The capacities that the Manager gives its workers, TCP and UDP alike    *)
(* (New of internal/tcpedge/manager.go).                                   *)
EXTENDS Naturals, FiniteSets

CONSTANTS
  GlobalLimit,   \* capacity of globalSlots, which all workers share
  RouteLimit,    \* capacity of each worker's routeSlots
  None

ASSUME LimitsAssumption == GlobalLimit \in Nat /\ RouteLimit \in Nat
=============================================================================

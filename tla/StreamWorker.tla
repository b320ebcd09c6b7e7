---------------------------- MODULE StreamWorker ----------------------------
(***************************************************************************)
(* What the stream edge's Manager expects of its streamWorkers, whether    *)
(* they carry TCP or UDP: sessions are opened before beginStop only, and   *)
(* within the limits of the route and of all workers together; finishStop  *)
(* returns once the loop and every session have ended. A worker whose loop *)
(* failed opens no more sessions, and those it has go on.                  *)
(***************************************************************************)
EXTENDS Naturals, FiniteSets

CONSTANTS Workers, Sessions, GlobalLimit, RouteLimit

ASSUME LimitsAssumption == GlobalLimit \in Nat /\ RouteLimit \in Nat

VARIABLES
  phase,   \* worker -> "unused", "serving", "dead", "stopping", "draining", "stopped"
  open     \* worker -> its open sessions

workerVars == << phase, open >>

Moves(w, from, to) ==
  /\ phase[w] \in from
  /\ phase' = [phase EXCEPT ![w] = to]
  /\ UNCHANGED open

Start(w) == Moves(w, {"unused", "stopped"}, "serving")

AllOpen == UNION {open[w] : w \in Workers}

Open(w, s) ==
  /\ phase[w] = "serving"
  /\ s \notin AllOpen
  /\ Cardinality(open[w]) < RouteLimit
  /\ Cardinality(AllOpen) < GlobalLimit
  /\ open' = [open EXCEPT ![w] = @ \cup {s}]
  /\ UNCHANGED phase

Close(w, s) ==
  /\ s \in open[w]
  /\ open' = [open EXCEPT ![w] = @ \ {s}]
  /\ UNCHANGED phase

LoopEnds(w) == Moves(w, {"serving"}, "dead") \/ Moves(w, {"stopping"}, "draining")

BeginStop(w) == Moves(w, {"serving"}, "stopping") \/ Moves(w, {"dead"}, "draining")

FinishStop(w) == open[w] = {} /\ Moves(w, {"draining"}, "stopped")

(* running() of a worker: its loop has not ended. *)
Running(w) == phase[w] \in {"serving", "stopping"}

(* Its listener, or public socket, is open. *)
Listening(w) == phase[w] \in {"serving", "dead"}

WorkerInit ==
  /\ phase \in [Workers -> {"unused", "serving"}]
  /\ open = [w \in Workers |-> {}]

WorkerNext ==
  \E w \in Workers :
    \/ \E s \in Sessions : Open(w, s) \/ Close(w, s)
    \/ Start(w) \/ LoopEnds(w) \/ BeginStop(w) \/ FinishStop(w)

WorkerSpec == WorkerInit /\ [][WorkerNext]_workerVars
=============================================================================

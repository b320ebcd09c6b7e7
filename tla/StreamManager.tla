---------------------------- MODULE StreamManager ----------------------------
(***************************************************************************)
(* The Manager of the stream edge (internal/tcpedge/manager.go): every     *)
(* poll it lists the routes, stops the workers that no longer serve what   *)
(* is wanted, starts those that are missing and publishes what it found.   *)
(* The routes change, workers fail and sessions come and go between any    *)
(* two of its steps. The workers are those of StreamWorker, which          *)
(* TcpWorker and UdpWorker implement.                                      *)
(*                                                                         *)
(* A port here is a protocol with a public port. The client and the remote *)
(* port of a route never change, so that sameTarget compares identifiers   *)
(* and ports. The store admits no stream route without a public port.      *)
(***************************************************************************)
EXTENDS StreamWorker

CONSTANTS Ids, Ports, None,
  MaxChanges   \* bound on changes of the store, and of ports held elsewhere

ASSUME NoneAssumption == None \notin Ids \cup Ports \cup Workers \cup Sessions
ASSUME MaxChangesAssumption == MaxChanges \in Nat

VARIABLES
  routes,      \* identifier -> the stored route, None when there is none
  foreign,     \* ports that other programs hold
  changes,     \* changes of these two so far
  served,      \* worker -> the route and port it was started for
  authorized,  \* workers that hold an accepted connection, or a datagram, to serve
  workers,     \* port -> the worker of the Manager
  statuses,    \* what PublicStatus reads
  pc, todo, current,   \* where reconcile is
  desired,     \* port -> the route to serve, as listed
  next,        \* the statuses to publish
  background   \* workers that stopAll left to finish

store == << routes, foreign, changes >>
edge == << workerVars, served, authorized >>
pass == << pc, todo, current, desired, next >>
vars == << store, edge, workers, statuses, pass, background >>

Route == [enabled : BOOLEAN, ready : BOOLEAN, port : Ports]
State(status, worker) == [status |-> status, worker |-> worker]
States == [status : {"disabled", "waiting_agent", "pending", "conflict", "bind_error",
                     "published", "none"},
           worker : Workers \cup {None}]
Unknown == State("none", None)

TypeOK ==
  /\ phase \in [Workers -> {"unused", "serving", "dead", "stopping", "draining", "stopped"}]
  /\ open \in [Workers -> SUBSET Sessions]
  /\ routes \in [Ids -> Route \cup {None}]
  /\ foreign \subseteq Ports
  /\ changes \in 0 .. MaxChanges
  /\ served \in [Workers -> [id : Ids, port : Ports] \cup {None}]
  /\ authorized \subseteq Workers
  /\ workers \in [Ports -> Workers \cup {None}]
  /\ statuses \in [Ids -> States] /\ next \in [Ids -> States]
  /\ pc \in {"wait", "stop", "finish", "start", "stopAll", "leave", "down"}
  /\ todo \subseteq Ports
  /\ current \in Ports \cup {None}
  /\ desired \in [Ports -> Ids \cup {None}]
  /\ background \subseteq Workers

Nothing == [p \in Ports |-> None]
NoStatuses == [i \in Ids |-> Unknown]

Init ==
  /\ WorkerInit /\ phase = [w \in Workers |-> "unused"]
  /\ routes \in [Ids -> Route \cup {None}]
  /\ foreign \in SUBSET Ports
  /\ changes = 0
  /\ served = [w \in Workers |-> None]
  /\ authorized = {}
  /\ workers = Nothing
  /\ statuses = NoStatuses /\ next = NoStatuses
  /\ pc = "wait"
  /\ todo = {}
  /\ current = None
  /\ desired = Nothing
  /\ background = {}

Publishable(r) == r # None /\ r.enabled /\ r.ready

-----------------------------------------------------------------------------
(* The store. What an administrator writes waits for the agent, which may  *)
(* have reported by the time anyone looks; whether its report is fresh and *)
(* good then changes by itself.                                            *)
Change ==
  /\ changes < MaxChanges
  /\ changes' = changes + 1
  /\ UNCHANGED << edge, workers, statuses, pass, background >>

Configure(i) ==
  /\ Change
  /\ \E r \in Route : routes' = [routes EXCEPT ![i] = r]
  /\ UNCHANGED foreign

Delete(i) ==
  /\ Change
  /\ routes[i] # None
  /\ routes' = [routes EXCEPT ![i] = None]
  /\ UNCHANGED foreign

AgentReports(i) ==
  /\ Change
  /\ routes[i] # None
  /\ routes' = [routes EXCEPT ![i].ready = ~ @]
  /\ UNCHANGED foreign

(* Another program takes a free port, or leaves it.                        *)
ListenersOn(p) == {w \in Workers : Listening(w) /\ served[w].port = p}

Foreign(p) ==
  /\ Change
  /\ foreign' = IF p \in foreign THEN foreign \ {p} ELSE foreign \cup {p}
  /\ p \in foreign \/ ListenersOn(p) = {}
  /\ UNCHANGED routes

-----------------------------------------------------------------------------
(* The workers, and authorizeAcceptedRoute, which reads the route again.   *)

Authorize(w) ==
  /\ phase[w] = "serving"
  /\ Publishable(routes[served[w].id])
  /\ routes[served[w].id].port = served[w].port
  /\ authorized' = authorized \cup {w}
  /\ UNCHANGED << store, workerVars, served, workers, statuses, pass, background >>

Admit(w, s) ==
  /\ w \in authorized
  /\ Open(w, s)
  /\ authorized' = authorized \ {w}
  /\ UNCHANGED << store, served, workers, statuses, pass, background >>

SessionEnds(w, s) ==
  /\ Close(w, s)
  /\ UNCHANGED << store, served, authorized, workers, statuses, pass, background >>

StopServing(w) == BeginStop(w) /\ authorized' = authorized \ {w}

WorkerFails(w) ==
  /\ LoopEnds(w)
  /\ authorized' = authorized \ {w}
  /\ UNCHANGED << store, served, workers, statuses, pass, background >>

-----------------------------------------------------------------------------
(* reconcile.                                                              *)

Candidates(p) == {i \in Ids : Publishable(routes[i]) /\ routes[i].port = p}

Classified(i) ==
  LET r == routes[i] IN
  IF r = None THEN Unknown
  ELSE IF ~r.enabled THEN State("disabled", None)
  ELSE IF ~r.ready THEN State("waiting_agent", None)
  ELSE IF Cardinality(Candidates(r.port)) > 1 THEN State("conflict", None)
  ELSE State("pending", None)

ListRoutes ==
  /\ pc = "wait"
  /\ pc' = "stop"
  /\ desired' = [p \in Ports |-> IF Cardinality(Candidates(p)) = 1
                                   THEN CHOOSE i \in Candidates(p) : TRUE ELSE None]
  /\ next' = [i \in Ids |-> Classified(i)]
  /\ todo' = {p \in Ports : workers[p] # None}
  /\ UNCHANGED << store, edge, workers, statuses, current, background >>

(* Mutant: a port that no route wants any more is left alone. *)
WantedByNobodyElse(p) ==
  desired[p] \in {None, served[workers[p]].id} /\ Running(workers[p])

(* Mutant: whether the worker runs is not looked at. *)
WantedDead(p) == desired[p] = served[workers[p]].id

Wanted(p) == desired[p] = served[workers[p]].id /\ Running(workers[p])

Keep(p) ==
  /\ pc = "stop"
  /\ p \in todo
  /\ Wanted(p)
  /\ todo' = todo \ {p}
  /\ UNCHANGED << store, edge, workers, statuses, pc, current, desired, next, background >>

(* Mutant: a worker that does not run is forgotten, not stopped. *)
RetireRunning(p) ==
  /\ pc = "stop"
  /\ p \in todo
  /\ ~Wanted(p)
  /\ todo' = todo \ {p}
  /\ IF Running(workers[p])
       THEN StopServing(workers[p]) /\ pc' = "finish" /\ current' = p /\ UNCHANGED workers
       ELSE workers' = [workers EXCEPT ![p] = None] /\ UNCHANGED << workerVars, authorized, pc, current >>
  /\ UNCHANGED << store, served, statuses, desired, next, background >>

Retire(p) ==
  /\ pc = "stop"
  /\ p \in todo
  /\ ~Wanted(p)
  /\ StopServing(workers[p])
  /\ pc' = "finish"
  /\ todo' = todo \ {p}
  /\ current' = p
  /\ UNCHANGED << store, served, workers, statuses, desired, next, background >>

(* reconcile waits in finishStop. *)
Retired ==
  /\ pc = "finish"
  /\ FinishStop(workers[current])
  /\ workers' = [workers EXCEPT ![current] = None]
  /\ pc' = "stop"
  /\ current' = None
  /\ UNCHANGED << store, served, authorized, statuses, todo, desired, next, background >>

AllVisited ==
  /\ pc = "stop"
  /\ todo = {}
  /\ pc' = "start"
  /\ todo' = {p \in Ports : desired[p] # None}
  /\ UNCHANGED << store, edge, workers, statuses, current, desired, next, background >>

Published(p, w) ==
  /\ next' = [next EXCEPT ![desired[p]] = State("published", w)]
  /\ todo' = todo \ {p}
  /\ UNCHANGED << store, pc, current, desired, background >>

KeepStarted(p) ==
  /\ pc = "start"
  /\ p \in todo
  /\ workers[p] # None
  /\ Published(p, workers[p])
  /\ UNCHANGED << edge, workers, statuses >>

(* A worker object that nothing refers to stands for a new one; which of   *)
(* them does not matter.                                                   *)
Fresh(w) ==
  /\ phase[w] \in {"unused", "stopped"}
  /\ \A i \in Ids : statuses[i].worker # w /\ next[i].worker # w

CanBind(p) == p \notin foreign /\ ListenersOn(p) = {}

(* publishStatus shows the worker before the pass is over. *)
StartWorker(p, w) ==
  /\ pc = "start"
  /\ p \in todo
  /\ workers[p] = None
  /\ CanBind(p)
  /\ Fresh(w) /\ w = CHOOSE v \in Workers : Fresh(v)
  /\ Start(w)
  /\ served' = [served EXCEPT ![w] = [id |-> desired[p], port |-> p]]
  /\ workers' = [workers EXCEPT ![p] = w]
  /\ statuses' = [statuses EXCEPT ![desired[p]] = State("published", w)]
  /\ Published(p, w)
  /\ UNCHANGED authorized

BindFails(p) ==
  /\ pc = "start"
  /\ p \in todo
  /\ workers[p] = None
  /\ ~CanBind(p)
  /\ next' = [next EXCEPT ![desired[p]] = State("bind_error", None)]
  /\ todo' = todo \ {p}
  /\ UNCHANGED << store, edge, workers, statuses, pc, current, desired, background >>

Publish ==
  /\ pc = "start"
  /\ todo = {}
  /\ pc' = "wait"
  /\ statuses' = next
  /\ next' = NoStatuses
  /\ desired' = Nothing
  /\ UNCHANGED << store, edge, workers, todo, current, background >>

-----------------------------------------------------------------------------
(* stopAll, when the routes cannot be listed or the server shuts down.     *)

ListFails ==
  /\ pc = "wait"
  /\ pc' \in {"stopAll", "leave"}
  /\ UNCHANGED << store, edge, workers, statuses, todo, current, desired, next, background >>

StopOne(p) ==
  /\ pc \in {"stopAll", "leave"}
  /\ workers[p] # None
  /\ StopServing(workers[p])
  /\ background' = background \cup {workers[p]}
  /\ workers' = [workers EXCEPT ![p] = None]
  /\ UNCHANGED << store, served, statuses, pass >>

FinishOne(w) ==
  /\ w \in background
  /\ FinishStop(w)
  /\ background' = background \ {w}
  /\ UNCHANGED << store, served, authorized, workers, statuses, pass >>

(* All have finished, or five seconds have passed. *)
StoppedAll ==
  /\ pc \in {"stopAll", "leave"}
  /\ workers = Nothing
  /\ pc' = IF pc = "stopAll" THEN "wait" ELSE "down"
  /\ statuses' = NoStatuses
  /\ UNCHANGED << store, edge, workers, todo, current, desired, next, background >>

Reconcile ==
  \/ ListRoutes \/ Retired \/ AllVisited \/ Publish \/ StoppedAll
  \/ \E p \in Ports :
       \/ Keep(p) \/ Retire(p) \/ KeepStarted(p) \/ BindFails(p) \/ StopOne(p)
       \/ \E w \in Workers : StartWorker(p, w)

Next ==
  \/ \E i \in Ids : Configure(i) \/ Delete(i) \/ AgentReports(i)
  \/ \E p \in Ports : Foreign(p)
  \/ \E w \in Workers :
       \/ Authorize(w) \/ WorkerFails(w) \/ FinishOne(w)
       \/ \E s \in Sessions : Admit(w, s) \/ SessionEnds(w, s)
  \/ Reconcile \/ ListFails

Spec == Init /\ [][Next]_vars

(* The ticker and the goroutines keep running, and a worker that is        *)
(* stopping gets through with it: StopTerminates of TcpWorker and          *)
(* UdpWorker. Nobody need connect, hang up, report or configure.           *)
Stopping(w) == phase[w] \in {"stopping", "draining"}

Fairness ==
  /\ WF_vars(Reconcile \/ ListFails)
  /\ \A w \in Workers :
       /\ WF_vars(FinishOne(w))
       /\ WF_vars(Stopping(w) /\ WorkerFails(w))
       /\ \A s \in Sessions : WF_vars(Stopping(w) /\ SessionEnds(w, s))

FairSpec == Spec /\ Fairness

-----------------------------------------------------------------------------
(* Mutant: whether the worker runs is not looked at. *)
PublicStatusRecorded(i) ==
  LET r == routes[i] IN
  IF r = None THEN "none"
  ELSE IF ~r.enabled THEN "disabled"
  ELSE IF ~r.ready THEN "waiting_agent"
  ELSE IF statuses[i] = Unknown THEN "pending" ELSE statuses[i].status

PublicStatus(i) ==
  LET r == routes[i]
      state == statuses[i]
  IN
  IF r = None THEN "none"
  ELSE IF ~r.enabled THEN "disabled"
  ELSE IF ~r.ready THEN "waiting_agent"
  ELSE IF state = Unknown THEN "pending"
  ELSE IF state.status = "published" /\ ~Running(state.worker) THEN "pending"
  ELSE state.status

(* Every public port that is bound belongs to the worker the Manager keeps *)
(* for it, or will stop; no worker is forgotten while it listens. So a     *)
(* start only fails to bind on a port that another program holds, though   *)
(* ports pass from route to route and dead workers' listeners stay bound.  *)
ListenersOwned ==
  \A w \in Workers : Listening(w) => workers[served[w].port] = w

(* A route shown as published has a worker of its own, whatever worker     *)
(* objects came and went: one that accepts on the port the Manager keeps   *)
(* it for, or one whose loop is about to end, while the pass that retires  *)
(* it or stopAll waits for just that. (That port may be one the route has  *)
(* left since the last pass: Settles says that the next one sees to it.)   *)
BeingStopped(w) ==
  \/ pc = "finish" /\ workers[current] = w
  \/ pc \in {"stopAll", "leave"} /\ w \in background

PublishedIsServed ==
  \A i \in Ids : PublicStatus(i) = "published" =>
    LET w == statuses[i].worker IN
    /\ served[w].id = i
    /\ \/ phase[w] = "serving" /\ workers[served[w].port] = w
       \/ phase[w] = "stopping" /\ BeingStopped(w)

(* The sessions of a route that is withdrawn for good come to an end,      *)
(* although its clients never hang up and lists fail.                      *)
WithdrawnDrains ==
  \A i \in Ids :
    <>[]~Publishable(routes[i])
      => <>[](\A w \in Workers : open[w] # {} => served[w].id # i)

(* When routes, foreign programs and workers are left alone and lists      *)
(* succeed, every route that can be published is, on its own port, and     *)
(* every other route shows why it is not.                                  *)
Undisturbed ==
  /\ UNCHANGED store
  /\ ~ListFails
  /\ \A w \in Workers : phase[w] = "serving" => phase'[w] # "dead"

Expected(i) ==
  LET p == routes[i].port IN
  IF Cardinality(Candidates(p)) > 1 THEN "conflict"
  ELSE IF p \in foreign THEN "bind_error" ELSE "published"

Settled ==
  pc # "down" =>
    \A i \in Ids : Publishable(routes[i]) =>
      /\ PublicStatus(i) = Expected(i)
      /\ Expected(i) = "published" => served[statuses[i].worker].port = routes[i].port

Settles == <>[][Undisturbed]_vars => <>[]Settled

=============================================================================

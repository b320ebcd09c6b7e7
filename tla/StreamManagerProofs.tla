------------------------- MODULE StreamManagerProofs -------------------------
(***************************************************************************)
(* Proofs about StreamManager, for any routes, ports, workers, sessions    *)
(* and limits.                                                             *)
(*                                                                         *)
(* Argument. The worker a port is assigned was started for that port, so   *)
(* no two ports share one, and it stops listening before it is given up.   *)
(* What has been visited is what is desired, so a worker that is kept is   *)
(* shown for the route it was started for; and no status shows a worker    *)
(* that is started again for another. Since every worker the Manager stops *)
(* or waits for is one it holds, it uses StreamWorker by its operations    *)
(* only, and what holds of any such workers holds of its own.              *)
(***************************************************************************)
EXTENDS StreamManager, FiniteSetTheorems, TLAPS

USE NoneAssumption, MaxChangesAssumption, LimitsAssumption

Assignment == [id : Ids, port : Ports]

(* The worker of a port serves it, except while reconcile waits for it to  *)
(* finish, and is not one that stopAll left behind.                        *)
Assigned ==
  \A p \in Ports : workers[p] # None =>
    /\ served[workers[p]] \in Assignment /\ served[workers[p]].port = p
    /\ workers[p] \notin background
    /\ IF pc = "finish" /\ current = p THEN phase[workers[p]] \in {"stopping", "draining"}
                                       ELSE phase[workers[p]] \in {"serving", "dead"}

(* Whatever is being stopped no longer listens. *)
Stops ==
  /\ pc = "finish" => current \in Ports /\ workers[current] # None
  /\ \A w \in background : phase[w] \in {"stopping", "draining"}

(* Every listener has been assigned a port. *)
Owned ==
  \A w \in Workers : Listening(w) =>
    served[w] \in Assignment /\ workers[served[w].port] = w

(* The ports a pass has been through hold what is desired, or nothing. *)
Visited ==
  /\ pc \in {"stop", "finish"} =>
       /\ \A p \in todo : workers[p] # None
       /\ pc = "finish" => current \notin todo
       /\ \A p \in Ports \ todo :
            workers[p] # None /\ ~(pc = "finish" /\ p = current) => desired[p] = served[workers[p]].id
  /\ pc = "start" =>
       /\ \A p \in Ports : workers[p] # None => desired[p] = served[workers[p]].id
       /\ \A p \in todo : desired[p] # None

(* A status names a worker of its own route. *)
Shows(shown) ==
  \A i \in Ids : shown[i].status = "published" =>
    /\ shown[i].worker \in Workers
    /\ served[shown[i].worker] \in Assignment
    /\ served[shown[i].worker].id = i

Shown == Shows(statuses) /\ Shows(next)

IInv == TypeOK /\ Assigned /\ Stops /\ Owned /\ Visited /\ Shown

-----------------------------------------------------------------------------
(* Type correctness, of each part of the state.                            *)

Phases == {"unused", "serving", "dead", "stopping", "draining", "stopped"}

EdgeTypeOK ==
  /\ phase \in [Workers -> Phases]
  /\ open \in [Workers -> SUBSET Sessions]
  /\ served \in [Workers -> Assignment \cup {None}]
  /\ authorized \subseteq Workers

StoreTypeOK ==
  /\ routes \in [Ids -> Route \cup {None}]
  /\ foreign \subseteq Ports
  /\ changes \in 0 .. MaxChanges

PassTypeOK ==
  /\ pc \in {"wait", "stop", "finish", "start", "stopAll", "leave", "down"}
  /\ todo \subseteq Ports
  /\ current \in Ports \cup {None}
  /\ desired \in [Ports -> Ids \cup {None}]

ManagerTypeOK ==
  /\ workers \in [Ports -> Workers \cup {None}]
  /\ statuses \in [Ids -> States] /\ next \in [Ids -> States]
  /\ background \subseteq Workers

(* The parts are the whole. *)
LEMMA TypeParts == TypeOK <=> EdgeTypeOK /\ StoreTypeOK /\ PassTypeOK /\ ManagerTypeOK
BY DEF TypeOK, EdgeTypeOK, StoreTypeOK, PassTypeOK, ManagerTypeOK, Phases, Assignment

(* What is shown of a worker is a state. *)
LEMMA StateType ==
  ASSUME NEW status \in {"disabled", "waiting_agent", "pending", "conflict", "bind_error",
                         "published", "none"},
         NEW w \in Workers \cup {None}
  PROVE  State(status, w) \in States
BY DEF State, States

(* A pass over the stored routes finds a route to serve, or none, and      *)
(* classifies every route (RoutesForEdge and desiredRoutes).               *)
LEMMA ListedType ==
  /\ [p \in Ports |-> IF Cardinality(Candidates(p)) = 1
                         THEN CHOOSE i \in Candidates(p) : TRUE ELSE None] \in [Ports -> Ids \cup {None}]
  /\ [i \in Ids |-> Classified(i)] \in [Ids -> States]
<1>1. ASSUME NEW p \in Ports, Cardinality(Candidates(p)) = 1
      PROVE  (CHOOSE i \in Candidates(p) : TRUE) \in Ids
  <2>1. Candidates(p) # {} /\ Candidates(p) \subseteq Ids
    BY <1>1, FS_EmptySet DEF Candidates
  <2>2. (CHOOSE i \in Candidates(p) : TRUE) \in Candidates(p)
    BY <2>1
  <2>. QED  BY <2>1, <2>2
<1>2. ASSUME NEW i \in Ids
      PROVE  Classified(i) \in States
  BY StateType DEF Classified, Unknown
<1>. QED  BY <1>1, <1>2

(* No status is a state of all routes. *)
LEMMA NoStatusesType == NoStatuses \in [Ids -> States] /\ Nothing \in [Ports -> Workers \cup {None}]
                        /\ Nothing \in [Ports -> Ids \cup {None}]
<1>1. Unknown \in States
  BY StateType DEF Unknown
<1>. QED  BY <1>1 DEF NoStatuses, Nothing

-----------------------------------------------------------------------------
(* At first no worker is used, and nothing is shown. *)
LEMMA InitInvariant == Init => IInv
<1>. SUFFICES ASSUME Init PROVE IInv
  OBVIOUS
<1>1. EdgeTypeOK /\ StoreTypeOK /\ PassTypeOK /\ ManagerTypeOK
  <2>1. EdgeTypeOK
    BY DEF Init, WorkerInit, EdgeTypeOK, Phases
  <2>2. StoreTypeOK
    BY DEF Init, StoreTypeOK
  <2>3. PassTypeOK /\ ManagerTypeOK
    BY NoStatusesType DEF Init, PassTypeOK, ManagerTypeOK
  <2>. QED  BY <2>1, <2>2, <2>3
<1>2. Assigned /\ Stops /\ Visited
  BY DEF Init, Assigned, Stops, Visited, Nothing
<1>3. Owned
  BY DEF Init, Owned, Listening
<1>4. Shown
  BY DEF Init, Shown, Shows, NoStatuses, Unknown, State
<1>. QED  BY <1>1, <1>2, <1>3, <1>4, TypeParts DEF IInv

-----------------------------------------------------------------------------
(* Around the Manager.                                                     *)

(* What administrators, agents and other programs do concerns the store. *)
LEMMA ChangeKeeps ==
  ASSUME IInv,
         \/ \E i \in Ids : Configure(i) \/ Delete(i) \/ AgentReports(i)
         \/ \E p \in Ports : Foreign(p)
  PROVE  IInv'
<1>0. EdgeTypeOK /\ StoreTypeOK /\ PassTypeOK /\ ManagerTypeOK
  BY TypeParts DEF IInv
<1>1. /\ changes' \in 0 .. MaxChanges
      /\ UNCHANGED << edge, workers, statuses, pass, background >>
  BY <1>0 DEF Configure, Delete, AgentReports, Foreign, Change, StoreTypeOK
<1>2. foreign' \subseteq Ports
  BY <1>0 DEF Configure, Delete, AgentReports, Foreign, StoreTypeOK
<1>3. routes' \in [Ids -> Route \cup {None}]
  <2>1. ASSUME NEW i \in Ids, Configure(i) \/ Delete(i)
        PROVE  routes' \in [Ids -> Route \cup {None}]
    BY <1>0, <2>1 DEF Configure, Delete, StoreTypeOK
  <2>2. ASSUME NEW i \in Ids, AgentReports(i)
        PROVE  routes' \in [Ids -> Route \cup {None}]
    <3>. DEFINE r == [routes[i] EXCEPT !.ready = ~ @]
    <3>1. routes[i] \in Route
      BY <1>0, <2>2 DEF AgentReports, StoreTypeOK
    <3>2. r \in Route
      BY <3>1 DEF Route
    <3>3. routes' = [routes EXCEPT ![i] = r]
      BY <2>2, Zenon DEF AgentReports
    <3>. HIDE DEF r
    <3>. QED  BY <1>0, <3>2, <3>3 DEF StoreTypeOK
  <2>3. ASSUME NEW p \in Ports, Foreign(p)
        PROVE  routes' \in [Ids -> Route \cup {None}]
    BY <1>0, <2>3 DEF Foreign, StoreTypeOK
  <2>. QED  BY <2>1, <2>2, <2>3
<1>4. TypeOK'
  BY <1>0, <1>1, <1>2, <1>3 DEF EdgeTypeOK, PassTypeOK, ManagerTypeOK, TypeOK, edge, pass,
    workerVars, Phases, Assignment
<1>5. Assigned' /\ Stops' /\ Owned' /\ Visited' /\ Shown'
  BY <1>1 DEF IInv, Assigned, Stops, Owned, Listening, Visited, Shown, Shows, edge, pass, workerVars
<1>. QED  BY <1>4, <1>5 DEF IInv

(* What happens to the sessions of workers disturbs no phase. *)
LEMMA SessionKeeps ==
  ASSUME IInv, NEW w \in Workers, Authorize(w) \/ \E s \in Sessions : Admit(w, s) \/ SessionEnds(w, s)
  PROVE  IInv'
<1>0. EdgeTypeOK /\ StoreTypeOK /\ PassTypeOK /\ ManagerTypeOK
  BY TypeParts DEF IInv
<1>1. UNCHANGED << store, phase, served, workers, statuses, pass, background >>
  BY DEF Authorize, Admit, SessionEnds, Open, Close, workerVars
<1>2. authorized' \subseteq Workers /\ open' \in [Workers -> SUBSET Sessions]
  BY <1>0 DEF Authorize, Admit, SessionEnds, Open, Close, workerVars, EdgeTypeOK
<1>3. TypeOK'
  BY <1>0, <1>1, <1>2 DEF EdgeTypeOK, StoreTypeOK, PassTypeOK, ManagerTypeOK, TypeOK, store, pass,
    Phases, Assignment
<1>4. Assigned' /\ Stops' /\ Owned' /\ Visited' /\ Shown'
  BY <1>1 DEF IInv, Assigned, Stops, Owned, Listening, Visited, Shown, Shows, pass
<1>. QED  BY <1>3, <1>4 DEF IInv

(* A loop that ends leaves its worker where it was, listening or stopping. *)
LEMMA WorkerFailsKeeps ==
  ASSUME IInv, NEW w \in Workers, WorkerFails(w)
  PROVE  IInv'
<1>0. EdgeTypeOK /\ StoreTypeOK /\ PassTypeOK /\ ManagerTypeOK
  BY TypeParts DEF IInv
<1>1. /\ UNCHANGED << store, open, served, workers, statuses, pass, background >>
      /\ \/ phase[w] = "serving" /\ phase' = [phase EXCEPT ![w] = "dead"]
         \/ phase[w] = "stopping" /\ phase' = [phase EXCEPT ![w] = "draining"]
  BY DEF WorkerFails, LoopEnds, Moves
<1>2. authorized' \subseteq Workers /\ phase' \in [Workers -> Phases]
  BY <1>0, <1>1 DEF WorkerFails, EdgeTypeOK, Phases
<1>3. TypeOK'
  BY <1>0, <1>1, <1>2 DEF EdgeTypeOK, StoreTypeOK, PassTypeOK, ManagerTypeOK, TypeOK, store, pass,
    Phases, Assignment
<1>4. \A v \in Workers :
        /\ phase[v] \in {"serving", "dead"} <=> phase'[v] \in {"serving", "dead"}
        /\ phase[v] \in {"stopping", "draining"} <=> phase'[v] \in {"stopping", "draining"}
  BY <1>0, <1>1 DEF EdgeTypeOK
<1>5. Assigned' /\ Stops'
  BY <1>0, <1>1, <1>4 DEF IInv, Assigned, Stops, pass, ManagerTypeOK
<1>6. Owned' /\ Visited' /\ Shown'
  BY <1>1, <1>4 DEF IInv, Owned, Listening, Visited, Shown, Shows, pass
<1>. QED  BY <1>3, <1>5, <1>6 DEF IInv

(* A worker that stopAll left finishes: it is nobody's. *)
LEMMA FinishOneKeeps ==
  ASSUME IInv, NEW w \in Workers, FinishOne(w)
  PROVE  IInv'
<1>0. EdgeTypeOK /\ StoreTypeOK /\ PassTypeOK /\ ManagerTypeOK
  BY TypeParts DEF IInv
<1>1. /\ UNCHANGED << store, open, served, authorized, workers, statuses, pass >>
      /\ phase' = [phase EXCEPT ![w] = "stopped"]
      /\ w \in background /\ phase[w] = "draining" /\ background' = background \ {w}
  BY DEF FinishOne, FinishStop, Moves
<1>2. phase' \in [Workers -> Phases]
  BY <1>0, <1>1 DEF EdgeTypeOK, Phases
<1>3. TypeOK'
  BY <1>0, <1>1, <1>2 DEF EdgeTypeOK, StoreTypeOK, PassTypeOK, ManagerTypeOK, TypeOK, store, pass,
    Phases, Assignment
<1>4. \A v \in Workers : v # w => phase'[v] = phase[v]
  BY <1>0, <1>1 DEF EdgeTypeOK
<1>5. phase'[w] = "stopped"
  BY <1>0, <1>1 DEF EdgeTypeOK
<1>6. Assigned' /\ Stops'
  BY <1>0, <1>1, <1>4 DEF IInv, Assigned, Stops, pass, ManagerTypeOK
<1>7. Owned' /\ Visited' /\ Shown'
  BY <1>1, <1>4, <1>5 DEF IInv, Owned, Listening, Visited, Shown, Shows, pass
<1>. QED  BY <1>3, <1>6, <1>7 DEF IInv

-----------------------------------------------------------------------------
(* reconcile, where it leaves the workers alone.                           *)

(* A pass that leaves the workers alone goes on from what it has visited. *)
LEMMA PassKeeps ==
  ASSUME IInv, UNCHANGED << store, edge, workers, background >>,
         PassTypeOK', statuses' \in [Ids -> States], next' \in [Ids -> States],
         pc # "finish", pc' # "finish", Visited', Shown'
  PROVE  IInv'
<1>0. EdgeTypeOK /\ StoreTypeOK /\ PassTypeOK /\ ManagerTypeOK
  BY TypeParts DEF IInv
<1>1. TypeOK'
  BY <1>0 DEF EdgeTypeOK, StoreTypeOK, PassTypeOK, ManagerTypeOK, TypeOK, store, edge, workerVars,
    Phases, Assignment
<1>2. Assigned' /\ Stops' /\ Owned'
  BY DEF IInv, Assigned, Stops, Owned, Listening, edge, workerVars
<1>. QED  BY <1>1, <1>2 DEF IInv

(* The listing, its failure, and the ends of the loops over the ports. *)
LEMMA LoopsKeep ==
  ASSUME IInv, ListRoutes \/ AllVisited \/ Publish \/ StoppedAll \/ ListFails
  PROVE  IInv'
<1>0. EdgeTypeOK /\ StoreTypeOK /\ PassTypeOK /\ ManagerTypeOK /\ Shown
  BY TypeParts DEF IInv
<1>1. CASE ListRoutes
  <2>1. PassTypeOK' /\ next' \in [Ids -> States]
    BY <1>0, <1>1, ListedType DEF ListRoutes, PassTypeOK
  <2>2. Shows(next)'
    <3>1. \A i \in Ids : Classified(i).status # "published"
      BY DEF Classified, State, Unknown
    <3>. QED  BY <1>1, <3>1 DEF ListRoutes, Shows
  <2>3. Shown' /\ Visited'
    BY <1>0, <1>1, <2>2 DEF ListRoutes, Shown, Shows, Visited, edge
  <2>. QED  BY <1>0, <1>1, <2>1, <2>3, PassKeeps DEF ListRoutes, ManagerTypeOK
<1>2. CASE AllVisited
  <2>1. PassTypeOK' /\ Visited' /\ Shown'
    BY <1>0, <1>2 DEF AllVisited, PassTypeOK, IInv, Visited, Shown, Shows, edge
  <2>. QED  BY <1>0, <1>2, <2>1, PassKeeps DEF AllVisited, ManagerTypeOK
<1>3. CASE Publish
  <2>1. PassTypeOK'
    BY <1>0, <1>3, NoStatusesType DEF Publish, PassTypeOK
  <2>2. Visited'
    BY <1>3 DEF Publish, Visited
  <2>3. Shown'
    BY <1>0, <1>3 DEF Publish, Shown, Shows, NoStatuses, Unknown, State, edge
  <2>. QED  BY <1>0, <1>3, <2>1, <2>2, <2>3, PassKeeps, NoStatusesType DEF Publish, ManagerTypeOK
<1>4. CASE StoppedAll
  <2>1. PassTypeOK' /\ Visited'
    BY <1>0, <1>4 DEF StoppedAll, PassTypeOK, Visited
  <2>2. Shown'
    BY <1>0, <1>4 DEF StoppedAll, Shown, Shows, NoStatuses, Unknown, State, edge
  <2>. QED  BY <1>0, <1>4, <2>1, <2>2, PassKeeps, NoStatusesType DEF StoppedAll, ManagerTypeOK
<1>5. CASE ListFails
  <2>1. PassTypeOK' /\ Visited' /\ Shown'
    BY <1>0, <1>5 DEF ListFails, PassTypeOK, Visited, Shown, Shows, edge
  <2>. QED  BY <1>0, <1>5, <2>1, PassKeeps DEF ListFails, ManagerTypeOK
<1>. QED  BY <1>1, <1>2, <1>3, <1>4, <1>5

(* A port whose worker is kept, or whose worker cannot be started. *)
LEMMA PortsKeep ==
  ASSUME IInv, NEW p \in Ports, Keep(p) \/ KeepStarted(p) \/ BindFails(p)
  PROVE  IInv'
<1>0. EdgeTypeOK /\ StoreTypeOK /\ PassTypeOK /\ ManagerTypeOK /\ Shown /\ Visited
  BY TypeParts DEF IInv
<1>1. CASE Keep(p)
  <2>1. PassTypeOK' /\ Shown'
    BY <1>0, <1>1 DEF Keep, PassTypeOK, Shown, Shows, edge
  <2>2. Visited'
    BY <1>0, <1>1 DEF Keep, Wanted, Visited, edge
  <2>. QED  BY <1>0, <1>1, <2>1, <2>2, PassKeeps DEF Keep, ManagerTypeOK
<1>2. CASE KeepStarted(p)
  <2>. DEFINE s == State("published", workers[p])
  <2>1. /\ next' = [next EXCEPT ![desired[p]] = s]
        /\ pc = "start" /\ todo' = todo \ {p} /\ p \in todo
        /\ UNCHANGED << store, edge, workers, statuses, pc, current, desired, background >>
    BY <1>2 DEF KeepStarted, Published
  <2>2. /\ workers[p] \in Workers /\ desired[p] \in Ids
        /\ served[workers[p]] \in Assignment /\ served[workers[p]].id = desired[p]
    BY <1>0, <1>2, <2>1 DEF KeepStarted, Visited, ManagerTypeOK, IInv, Assigned, PassTypeOK
  <2>3. s \in States /\ s.worker = workers[p]
    BY <2>2, StateType DEF State
  <2>. HIDE DEF s
  <2>4. PassTypeOK' /\ Visited' /\ next' \in [Ids -> States] /\ statuses' \in [Ids -> States]
    BY <1>0, <2>1, <2>3 DEF PassTypeOK, Visited, ManagerTypeOK, edge
  <2>5. Shown'
    BY <1>0, <2>1, <2>2, <2>3 DEF Shown, Shows, ManagerTypeOK, edge
  <2>. QED  BY <2>1, <2>4, <2>5, PassKeeps
<1>3. CASE BindFails(p)
  <2>. DEFINE s == State("bind_error", None)
  <2>1. /\ next' = [next EXCEPT ![desired[p]] = s]
        /\ pc = "start" /\ todo' = todo \ {p}
        /\ UNCHANGED << store, edge, workers, statuses, pc, current, desired, background >>
    BY <1>3 DEF BindFails
  <2>2. s \in States /\ s.status = "bind_error"
    BY StateType DEF State
  <2>. HIDE DEF s
  <2>3. PassTypeOK' /\ Visited' /\ next' \in [Ids -> States] /\ statuses' \in [Ids -> States]
    BY <1>0, <2>1, <2>2 DEF PassTypeOK, Visited, ManagerTypeOK, edge
  <2>4. Shown'
    BY <1>0, <2>1, <2>2 DEF Shown, Shows, ManagerTypeOK, edge
  <2>. QED  BY <2>1, <2>3, <2>4, PassKeeps
<1>. QED  BY <1>1, <1>2, <1>3

-----------------------------------------------------------------------------
(* reconcile and stopAll, where they stop and start workers.               *)

(* beginStop: the worker of a port listens no longer, its loop and its     *)
(* sessions have yet to end.                                               *)
LEMMA StopEffect ==
  ASSUME IInv, NEW p \in Ports, workers[p] # None, StopServing(workers[p]), UNCHANGED served
  PROVE  /\ workers[p] \in Workers
         /\ EdgeTypeOK'
         /\ phase'[workers[p]] \in {"stopping", "draining"}
         /\ \A v \in Workers : v # workers[p] => phase'[v] = phase[v]
         /\ \A q \in Ports : q # p => workers[q] # workers[p]
<1>0. EdgeTypeOK /\ ManagerTypeOK
  BY TypeParts DEF IInv
<1>1. workers[p] \in Workers
  BY <1>0 DEF ManagerTypeOK
<1>2. /\ authorized' \subseteq Workers /\ UNCHANGED open
      /\ \/ phase' = [phase EXCEPT ![workers[p]] = "stopping"]
         \/ phase' = [phase EXCEPT ![workers[p]] = "draining"]
  BY <1>0 DEF StopServing, BeginStop, Moves, EdgeTypeOK
<1>3. \A q \in Ports : q # p => workers[q] # workers[p]
  BY DEF IInv, Assigned
<1>. QED  BY <1>0, <1>1, <1>2, <1>3 DEF EdgeTypeOK, Phases

(* An unwanted worker is stopped, and reconcile waits for it. *)
LEMMA RetireKeeps ==
  ASSUME IInv, NEW p \in Ports, Retire(p)
  PROVE  IInv'
<1>0. EdgeTypeOK /\ StoreTypeOK /\ PassTypeOK /\ ManagerTypeOK /\ Visited
  BY TypeParts DEF IInv
<1>1. /\ pc = "stop" /\ pc' = "finish" /\ p \in todo /\ todo' = todo \ {p} /\ current' = p
      /\ UNCHANGED << store, served, workers, statuses, desired, next, background >>
      /\ StopServing(workers[p]) /\ workers[p] # None
  BY <1>0 DEF Retire, Visited
<1>2. /\ workers[p] \in Workers /\ EdgeTypeOK'
      /\ phase'[workers[p]] \in {"stopping", "draining"}
      /\ \A v \in Workers : v # workers[p] => phase'[v] = phase[v]
      /\ \A q \in Ports : q # p => workers[q] # workers[p]
  BY <1>1, StopEffect
<1>3. TypeOK'
  BY <1>0, <1>1, <1>2 DEF EdgeTypeOK, StoreTypeOK, PassTypeOK, ManagerTypeOK, TypeOK, store,
    Phases, Assignment
<1>4. Assigned'
  BY <1>0, <1>1, <1>2 DEF IInv, Assigned, ManagerTypeOK
<1>5. Stops' /\ Visited' /\ Shown'
  BY <1>0, <1>1, <1>2 DEF IInv, Stops, Visited, Shown, Shows, ManagerTypeOK
<1>6. Owned'
  BY <1>1, <1>2 DEF IInv, Owned, Listening
<1>. QED  BY <1>3, <1>4, <1>5, <1>6 DEF IInv

(* The worker has stopped, and its port is free. *)
LEMMA RetiredKeeps ==
  ASSUME IInv, Retired
  PROVE  IInv'
<1>0. EdgeTypeOK /\ StoreTypeOK /\ PassTypeOK /\ ManagerTypeOK /\ Visited
  BY TypeParts DEF IInv
<1>. DEFINE w == workers[current]
<1>1. /\ pc = "finish" /\ pc' = "stop" /\ current' = None
      /\ phase' = [phase EXCEPT ![w] = "stopped"] /\ phase[w] = "draining"
      /\ workers' = [workers EXCEPT ![current] = None]
      /\ UNCHANGED << store, open, served, authorized, statuses, todo, desired, next, background >>
  BY DEF Retired, FinishStop, Moves
<1>2. current \in Ports /\ w \in Workers /\ current \notin todo
  BY <1>0, <1>1 DEF IInv, Stops, ManagerTypeOK, Visited
<1>3. /\ \A v \in Workers : v # w => phase'[v] = phase[v]
      /\ \A q \in Ports : q # current => workers[q] # w /\ workers'[q] = workers[q]
      /\ workers'[current] = None /\ w \notin background /\ phase'[w] = "stopped"
  BY <1>0, <1>1, <1>2 DEF EdgeTypeOK, ManagerTypeOK, IInv, Assigned
<1>4. TypeOK'
  BY <1>0, <1>1, <1>2 DEF EdgeTypeOK, StoreTypeOK, PassTypeOK, ManagerTypeOK, TypeOK, store,
    Phases, Assignment
<1>. HIDE DEF w
<1>5. Assigned'
  BY <1>0, <1>1, <1>2, <1>3 DEF IInv, Assigned, ManagerTypeOK
<1>6. Stops' /\ Shown'
  BY <1>0, <1>1, <1>3 DEF IInv, Stops, Shown, Shows, ManagerTypeOK
<1>7. Visited'
  BY <1>0, <1>1, <1>2, <1>3 DEF Visited
<1>8. Owned'
  <2>. SUFFICES ASSUME NEW v \in Workers, Listening(v)'
                PROVE  served'[v] \in Assignment /\ workers'[served'[v].port] = v
    BY DEF Owned
  <2>1. v # w /\ Listening(v)
    BY <1>3 DEF Listening
  <2>2. served[v] \in Assignment /\ workers[served[v].port] = v /\ served[v].port \in Ports
    BY <2>1 DEF IInv, Owned, Assignment
  <2>3. served[v].port # current
    BY <2>1, <2>2 DEF w
  <2>. QED  BY <1>1, <1>3, <2>2, <2>3
<1>. QED  BY <1>4, <1>5, <1>6, <1>7, <1>8 DEF IInv

(* stopAll leaves a worker to finish in the background. *)
LEMMA StopOneKeeps ==
  ASSUME IInv, NEW p \in Ports, StopOne(p)
  PROVE  IInv'
<1>0. EdgeTypeOK /\ StoreTypeOK /\ PassTypeOK /\ ManagerTypeOK
  BY TypeParts DEF IInv
<1>. DEFINE w == workers[p]
<1>1. /\ pc \in {"stopAll", "leave"} /\ w # None /\ StopServing(w)
      /\ background' = background \cup {w} /\ workers' = [workers EXCEPT ![p] = None]
      /\ UNCHANGED << store, served, statuses, pc, todo, current, desired, next >>
  BY DEF StopOne, pass
<1>2. /\ w \in Workers /\ EdgeTypeOK'
      /\ phase'[w] \in {"stopping", "draining"}
      /\ \A v \in Workers : v # w => phase'[v] = phase[v]
      /\ \A q \in Ports : q # p => workers[q] # w
  BY <1>1, StopEffect
<1>3. workers'[p] = None /\ \A q \in Ports : q # p => workers'[q] = workers[q]
  BY <1>0, <1>1 DEF ManagerTypeOK
<1>4. TypeOK'
  BY <1>0, <1>1, <1>2 DEF EdgeTypeOK, StoreTypeOK, PassTypeOK, ManagerTypeOK, TypeOK, store,
    Phases, Assignment
<1>. HIDE DEF w
<1>5. Assigned'
  BY <1>0, <1>1, <1>2, <1>3 DEF IInv, Assigned, ManagerTypeOK
<1>6. Stops' /\ Visited' /\ Shown'
  BY <1>0, <1>1, <1>2 DEF IInv, Stops, Visited, Shown, Shows, ManagerTypeOK
<1>7. Owned'
  <2>. SUFFICES ASSUME NEW v \in Workers, Listening(v)'
                PROVE  served'[v] \in Assignment /\ workers'[served'[v].port] = v
    BY DEF Owned
  <2>1. v # w /\ Listening(v)
    BY <1>2 DEF Listening
  <2>2. served[v] \in Assignment /\ workers[served[v].port] = v /\ served[v].port \in Ports
    BY <2>1 DEF IInv, Owned, Assignment
  <2>3. served[v].port # p
    BY <2>1, <2>2 DEF w
  <2>. QED  BY <1>1, <1>3, <2>2, <2>3
<1>. QED  BY <1>4, <1>5, <1>6, <1>7 DEF IInv

(* A fresh worker is shown of no route, and owned by no port, until it is  *)
(* started for one.                                                        *)
LEMMA StartWorkerKeeps ==
  ASSUME IInv, NEW p \in Ports, NEW w \in Workers, StartWorker(p, w)
  PROVE  IInv'
<1>0. EdgeTypeOK /\ StoreTypeOK /\ PassTypeOK /\ ManagerTypeOK /\ Visited /\ Shown
  BY TypeParts DEF IInv
<1>. DEFINE s == State("published", w)
           a == [id |-> desired[p], port |-> p]
<1>1. /\ pc = "start" /\ p \in todo /\ workers[p] = None /\ Fresh(w)
      /\ phase[w] \in {"unused", "stopped"} /\ phase' = [phase EXCEPT ![w] = "serving"]
      /\ served' = [served EXCEPT ![w] = a]
      /\ workers' = [workers EXCEPT ![p] = w]
      /\ statuses' = [statuses EXCEPT ![desired[p]] = s]
      /\ next' = [next EXCEPT ![desired[p]] = s]
      /\ todo' = todo \ {p}
      /\ UNCHANGED << store, open, authorized, pc, current, desired, background >>
  BY DEF StartWorker, Start, Moves, Published
<1>2. desired[p] \in Ids
  BY <1>0, <1>1 DEF Visited, PassTypeOK
<1>3. s \in States /\ s.worker = w /\ a \in Assignment /\ a.id = desired[p] /\ a.port = p
  BY <1>2, StateType DEF State, Assignment
<1>. HIDE DEF s, a
<1>4. /\ phase'[w] = "serving" /\ served'[w] = a /\ workers'[p] = w
      /\ \A v \in Workers : v # w => phase'[v] = phase[v] /\ served'[v] = served[v]
      /\ \A q \in Ports : q # p => workers'[q] = workers[q]
  BY <1>0, <1>1 DEF EdgeTypeOK, ManagerTypeOK
<1>5. \A q \in Ports : workers[q] # w
  BY <1>0, <1>1 DEF IInv, Assigned, ManagerTypeOK
<1>6. EdgeTypeOK' /\ PassTypeOK' /\ ManagerTypeOK' /\ StoreTypeOK'
  <2>1. EdgeTypeOK'
    BY <1>0, <1>1, <1>3 DEF EdgeTypeOK, Phases
  <2>2. PassTypeOK' /\ ManagerTypeOK'
    BY <1>0, <1>1, <1>3 DEF PassTypeOK, ManagerTypeOK
  <2>3. StoreTypeOK'
    BY <1>0, <1>1 DEF StoreTypeOK, store
  <2>. QED  BY <2>1, <2>2, <2>3
<1>7. TypeOK'
  BY <1>6 DEF EdgeTypeOK, StoreTypeOK, PassTypeOK, ManagerTypeOK, TypeOK, Phases, Assignment
<1>8. Assigned'
  <2>. SUFFICES ASSUME NEW q \in Ports, workers'[q] # None
                PROVE  /\ served'[workers'[q]] \in Assignment /\ served'[workers'[q]].port = q
                       /\ workers'[q] \notin background'
                       /\ phase'[workers'[q]] \in {"serving", "dead"}
    BY <1>1 DEF Assigned
  <2>1. CASE q = p
    BY <1>1, <1>3, <1>4, <2>1 DEF IInv, Stops
  <2>2. CASE q # p
    BY <1>0, <1>1, <1>4, <1>5, <2>2 DEF IInv, Assigned, ManagerTypeOK
  <2>. QED  BY <2>1, <2>2
<1>9. Stops'
  BY <1>1, <1>4 DEF IInv, Stops
<1>10. Owned'
  <2>. SUFFICES ASSUME NEW v \in Workers, Listening(v)'
                PROVE  served'[v] \in Assignment /\ workers'[served'[v].port] = v
    BY DEF Owned
  <2>1. CASE v = w
    BY <1>3, <1>4, <2>1
  <2>2. CASE v # w
    <3>1. served[v] \in Assignment /\ workers[served[v].port] = v /\ served[v].port \in Ports
      BY <1>4, <2>2 DEF IInv, Owned, Listening, Assignment
    <3>2. served[v].port # p
      BY <1>1, <3>1, NoneAssumption
    <3>. QED  BY <1>4, <2>2, <3>1, <3>2
  <2>. QED  BY <2>1, <2>2
<1>11. Visited'
  BY <1>0, <1>1, <1>3, <1>4, <1>5 DEF Visited, ManagerTypeOK, IInv, Assigned
<1>12. Shown'
  <2>1. \A i \in Ids : statuses[i].worker # w /\ next[i].worker # w
    BY <1>1 DEF Fresh
  <2>. QED  BY <1>0, <1>1, <1>2, <1>3, <1>4, <2>1 DEF Shown, Shows, ManagerTypeOK
<1>. QED  BY <1>7, <1>8, <1>9, <1>10, <1>11, <1>12 DEF IInv

-----------------------------------------------------------------------------
(* The invariant is inductive. *)
THEOREM Invariant == Spec => []IInv
<1>1. IInv /\ [Next]_vars => IInv'
  <2>. SUFFICES ASSUME IInv, [Next]_vars PROVE IInv'
    OBVIOUS
  <2>1. CASE \/ \E i \in Ids : Configure(i) \/ Delete(i) \/ AgentReports(i)
             \/ \E p \in Ports : Foreign(p)
    BY <2>1, ChangeKeeps
  <2>2. ASSUME NEW w \in Workers,
               \/ Authorize(w) \/ WorkerFails(w) \/ FinishOne(w)
               \/ \E s \in Sessions : Admit(w, s) \/ SessionEnds(w, s)
        PROVE  IInv'
    BY <2>2, SessionKeeps, WorkerFailsKeeps, FinishOneKeeps
  <2>3. CASE Reconcile \/ ListFails
    BY <2>3, LoopsKeep, PortsKeep, RetireKeeps, RetiredKeeps, StopOneKeeps, StartWorkerKeeps
    DEF Reconcile
  <2>4. CASE UNCHANGED vars
    BY <2>4 DEF vars, store, edge, pass, workerVars, IInv, TypeOK, Assigned, Stops, Owned,
      Listening, Visited, Shown, Shows
  <2>. QED  BY <2>1, <2>2, <2>3, <2>4 DEF Next
<1>. QED  BY InitInvariant, <1>1, PTL DEF Spec

(* No worker is forgotten while it listens: reconcile and stopAll stop it  *)
(* before they give up its port.                                           *)
THEOREM ListenersAreOwned == Spec => []ListenersOwned
<1>1. IInv => ListenersOwned
  BY DEF IInv, Owned, ListenersOwned
<1>. QED  BY <1>1, Invariant, PTL

(* Where workers on their way out are: in the hands of reconcile, which    *)
(* waits for them, or of stopAll; and what is shown meanwhile. A pass      *)
(* shows none of the latter, and stopAll clears what it shows at its end.  *)
Leaving ==
  \A w \in Workers : Stopping(w) =>
    \/ w \in background
    \/ pc = "finish" /\ workers[current] = w

ShownIsHeld ==
  /\ \A i \in Ids : next[i].status = "published" => pc = "start" /\ next[i].worker \notin background
  /\ \A i \in Ids : statuses[i].status = "published" /\ statuses[i].worker \in background
       => pc \in {"stopAll", "leave"}

(* Around the Manager, and in a pass that stops and starts nobody, no      *)
(* worker begins to leave.                                                 *)
LEMMA LeavingKeptAround ==
  ASSUME Leaving,
         \/ \E i \in Ids : Configure(i) \/ Delete(i) \/ AgentReports(i)
         \/ \E p \in Ports : Foreign(p) \/ Keep(p) \/ KeepStarted(p) \/ BindFails(p)
         \/ \E w \in Workers : Authorize(w) \/ \E s \in Sessions : Admit(w, s) \/ SessionEnds(w, s)
         \/ ListRoutes \/ AllVisited \/ Publish \/ StoppedAll \/ ListFails
  PROVE  Leaving'
<1>1. UNCHANGED << phase, workers, background >> /\ (pc = "finish" => UNCHANGED << pc, current >>)
  <2>1. ASSUME NEW i \in Ids, Configure(i) \/ Delete(i) \/ AgentReports(i)
        PROVE  UNCHANGED << phase, workers, background, pc, current >>
    BY <2>1, Zenon DEF Configure, Delete, AgentReports, Change, edge, pass, workerVars
  <2>2. ASSUME NEW p \in Ports, Foreign(p)
        PROVE  UNCHANGED << phase, workers, background, pc, current >>
    BY <2>2, Zenon DEF Foreign, Change, edge, pass, workerVars
  <2>3. ASSUME NEW p \in Ports, Keep(p) \/ KeepStarted(p) \/ BindFails(p)
        PROVE  UNCHANGED << phase, workers, background >> /\ pc # "finish"
    BY <2>3 DEF Keep, KeepStarted, BindFails, Published, edge, workerVars
  <2>4. ASSUME NEW w \in Workers, Authorize(w) \/ \E s \in Sessions : Admit(w, s) \/ SessionEnds(w, s)
        PROVE  UNCHANGED << phase, workers, background, pc, current >>
    BY <2>4, Zenon DEF Authorize, Admit, SessionEnds, Open, Close, pass, workerVars
  <2>5. CASE ListRoutes \/ AllVisited \/ Publish \/ StoppedAll \/ ListFails
    BY <2>5 DEF ListRoutes, AllVisited, Publish, StoppedAll, ListFails, edge, workerVars
  <2>. QED  BY <2>1, <2>2, <2>3, <2>4, <2>5
<1>. QED  BY <1>1 DEF Leaving, Stopping

(* Who begins to leave is waited for by who sends it, and one whom nobody  *)
(* waits for any more has left.                                            *)
LEMMA LeavingKept ==
  ASSUME IInv, Leaving, [Next]_vars
  PROVE  Leaving'
<1>0. EdgeTypeOK /\ StoreTypeOK /\ PassTypeOK /\ ManagerTypeOK
  BY TypeParts DEF IInv
<1>1. ASSUME NEW w \in Workers, WorkerFails(w)
      PROVE  Leaving'
  <2>1. /\ UNCHANGED << workers, pc, current, background >>
        /\ \A v \in Workers : Stopping(v)' => Stopping(v)
    BY <1>0, <1>1 DEF WorkerFails, LoopEnds, Moves, Stopping, EdgeTypeOK, pass
  <2>. QED  BY <2>1 DEF Leaving
<1>2. ASSUME NEW w \in Workers, FinishOne(w)
      PROVE  Leaving'
  <2>1. /\ UNCHANGED << workers, pc, current >> /\ background' = background \ {w}
        /\ \A v \in Workers : Stopping(v)' => Stopping(v) /\ v # w
    BY <1>0, <1>2 DEF FinishOne, FinishStop, Moves, Stopping, EdgeTypeOK, pass
  <2>. QED  BY <2>1 DEF Leaving
<1>3. ASSUME NEW p \in Ports, Retire(p)
      PROVE  Leaving'
  <2>1. /\ UNCHANGED << workers, background, served >> /\ pc # "finish" /\ pc' = "finish" /\ current' = p
        /\ workers[p] # None /\ StopServing(workers[p])
    BY <1>0, <1>3 DEF Retire, IInv, Visited
  <2>2. \A v \in Workers : v # workers[p] => phase'[v] = phase[v]
    BY <2>1, StopEffect
  <2>. QED  BY <2>1, <2>2 DEF Leaving, Stopping
<1>4. CASE Retired
  <2>. DEFINE w == workers[current]
  <2>1. w \in Workers /\ phase' = [phase EXCEPT ![w] = "stopped"] /\ UNCHANGED background
    BY <1>0, <1>4 DEF Retired, FinishStop, Moves, IInv, Stops, ManagerTypeOK
  <2>. HIDE DEF w
  <2>2. \A v \in Workers : Stopping(v)' => Stopping(v) /\ v # w
    BY <1>0, <2>1 DEF Stopping, EdgeTypeOK
  <2>. QED  BY <2>1, <2>2 DEF Leaving, w
<1>5. ASSUME NEW p \in Ports, StopOne(p)
      PROVE  Leaving'
  <2>1. /\ background' = background \cup {workers[p]} /\ pc # "finish" /\ UNCHANGED served
        /\ workers[p] # None /\ StopServing(workers[p])
    BY <1>5 DEF StopOne
  <2>2. \A v \in Workers : v # workers[p] => phase'[v] = phase[v]
    BY <2>1, StopEffect
  <2>. QED  BY <2>1, <2>2 DEF Leaving, Stopping
<1>6. ASSUME NEW p \in Ports, NEW w \in Workers, StartWorker(p, w)
      PROVE  Leaving'
  <2>1. UNCHANGED background /\ pc # "finish" /\ phase' = [phase EXCEPT ![w] = "serving"]
    BY <1>6 DEF StartWorker, Start, Moves, Published
  <2>2. \A v \in Workers : Stopping(v)' => Stopping(v)
    BY <1>0, <2>1 DEF Stopping, EdgeTypeOK
  <2>. QED  BY <2>1, <2>2 DEF Leaving
<1>7. CASE UNCHANGED vars
  BY <1>7 DEF vars, edge, workerVars, pass, Leaving, Stopping
<1>. QED  BY <1>1, <1>2, <1>3, <1>4, <1>5, <1>6, <1>7, LeavingKeptAround DEF Next, Reconcile

(* Nothing is shown of a worker in the hands of stopAll once it is over,   *)
(* and nothing new meanwhile.                                              *)
LEMMA ShownIsHeldKept ==
  ASSUME IInv, ShownIsHeld, [Next]_vars
  PROVE  ShownIsHeld'
<1>0. EdgeTypeOK /\ StoreTypeOK /\ PassTypeOK /\ ManagerTypeOK
  BY TypeParts DEF IInv
<1>1. CASE \/ \E i \in Ids : Configure(i) \/ Delete(i) \/ AgentReports(i)
           \/ \E p \in Ports : Foreign(p) \/ Keep(p) \/ Retire(p)
           \/ \E w \in Workers : \/ Authorize(w) \/ WorkerFails(w) \/ FinishOne(w)
                                 \/ \E s \in Sessions : Admit(w, s) \/ SessionEnds(w, s)
           \/ AllVisited \/ Retired \/ ListFails \/ UNCHANGED vars
  <2>1. /\ UNCHANGED << statuses, next >> /\ background' \subseteq background
        /\ pc = "start" => pc' = "start"
        /\ pc \in {"stopAll", "leave"} => pc' = pc
    BY <1>1 DEF Configure, Delete, AgentReports, Foreign, Change, Keep, Retire, Authorize,
      WorkerFails, FinishOne, Admit, SessionEnds, AllVisited, Retired, ListFails, vars, pass
  <2>. QED  BY <2>1 DEF ShownIsHeld
<1>2. CASE ListRoutes
  <2>1. \A i \in Ids : Classified(i).status # "published"
    BY DEF Classified, State, Unknown
  <2>. QED  BY <1>2, <2>1 DEF ListRoutes, ShownIsHeld
<1>3. CASE Publish \/ StoppedAll
  <2>1. \A i \in Ids : NoStatuses[i].status # "published"
    BY DEF NoStatuses, Unknown, State
  <2>2. CASE Publish
    BY <2>1, <2>2 DEF Publish, ShownIsHeld
  <2>3. CASE StoppedAll
    BY <2>1, <2>3 DEF StoppedAll, ShownIsHeld
  <2>. QED  BY <1>3, <2>2, <2>3
<1>4. ASSUME NEW p \in Ports, BindFails(p)
      PROVE  ShownIsHeld'
  <2>. DEFINE s == State("bind_error", None)
  <2>1. s.status # "published"
    BY DEF State
  <2>2. UNCHANGED << statuses, background, pc >> /\ next' = [next EXCEPT ![desired[p]] = s]
    BY <1>4 DEF BindFails
  <2>. HIDE DEF s
  <2>. QED  BY <1>0, <2>1, <2>2 DEF ShownIsHeld, ManagerTypeOK
<1>5. ASSUME NEW p \in Ports, KeepStarted(p)
      PROVE  ShownIsHeld'
  <2>. DEFINE s == State("published", workers[p])
  <2>1. s.worker \notin background
    BY <1>5 DEF KeepStarted, State, IInv, Assigned
  <2>2. /\ UNCHANGED << statuses, background, pc >> /\ pc = "start"
        /\ next' = [next EXCEPT ![desired[p]] = s]
    BY <1>5 DEF KeepStarted, Published
  <2>. HIDE DEF s
  <2>. QED  BY <1>0, <2>1, <2>2 DEF ShownIsHeld, ManagerTypeOK
<1>6. ASSUME NEW p \in Ports, NEW w \in Workers, StartWorker(p, w)
      PROVE  ShownIsHeld'
  <2>. DEFINE s == State("published", w)
  <2>1. s.worker \notin background
    BY <1>6 DEF StartWorker, Fresh, State, IInv, Stops
  <2>2. /\ UNCHANGED << background, pc >> /\ pc = "start"
        /\ next' = [next EXCEPT ![desired[p]] = s]
        /\ statuses' = [statuses EXCEPT ![desired[p]] = s]
    BY <1>6 DEF StartWorker, Published
  <2>. HIDE DEF s
  <2>. QED  BY <1>0, <2>1, <2>2 DEF ShownIsHeld, ManagerTypeOK
<1>7. ASSUME NEW p \in Ports, StopOne(p)
      PROVE  ShownIsHeld'
  BY <1>7 DEF StopOne, pass, ShownIsHeld
<1>. QED  BY <1>1, <1>2, <1>3, <1>4, <1>5, <1>6, <1>7 DEF Next, Reconcile

(* PublicStatus never takes the worker of one route for that of another,   *)
(* nor a worker that listens no longer for one that does, but in the short *)
(* while that reconcile or stopAll waits for the very loop it has stopped. *)
THEOREM PublishedIsItsOwn == Spec => []PublishedIsServed
<1>1. Init => Leaving /\ ShownIsHeld
  BY DEF Init, Leaving, ShownIsHeld, Stopping, NoStatuses, Unknown, State
<1>2. IInv /\ Leaving /\ ShownIsHeld /\ [Next]_vars => (Leaving /\ ShownIsHeld)'
  BY LeavingKept, ShownIsHeldKept
<1>3. IInv /\ Leaving /\ ShownIsHeld => PublishedIsServed
  <2>. SUFFICES ASSUME IInv, Leaving, ShownIsHeld, NEW i \in Ids, PublicStatus(i) = "published",
                       NEW w, w = statuses[i].worker
                PROVE  /\ served[w].id = i
                       /\ \/ phase[w] = "serving" /\ workers[served[w].port] = w
                          \/ phase[w] = "stopping" /\ BeingStopped(w)
    BY DEF PublishedIsServed
  <2>1. statuses[i].status = "published" /\ phase[w] \in {"serving", "stopping"}
    BY DEF PublicStatus, Running
  <2>2. w \in Workers /\ served[w].id = i
    BY <2>1 DEF IInv, Shown, Shows
  <2>3. CASE phase[w] = "serving"
    BY <2>2, <2>3 DEF IInv, Owned, Listening
  <2>4. CASE phase[w] = "stopping"
    BY <2>1, <2>2, <2>4 DEF Leaving, Stopping, ShownIsHeld, BeingStopped
  <2>. QED  BY <2>1, <2>2, <2>3, <2>4
<1>. QED  BY <1>1, <1>2, <1>3, Invariant, PTL DEF Spec

-----------------------------------------------------------------------------
(* The workers the Manager handles, which TcpWorker and UdpWorker          *)
(* implement.                                                              *)

(* Every step of the Manager and around it is at most one step of one      *)
(* worker that exists: reconcile and stopAll hold a worker where they call *)
(* its beginStop or finishStop.                                            *)
LEMMA WorkerStep ==
  ASSUME IInv, [Next]_vars
  PROVE  [WorkerNext]_workerVars
<1>0. EdgeTypeOK /\ ManagerTypeOK /\ PassTypeOK
  BY TypeParts DEF IInv
<1>1. ASSUME NEW i \in Ids, Configure(i) \/ Delete(i) \/ AgentReports(i)
      PROVE  UNCHANGED workerVars
  BY <1>1 DEF Configure, Delete, AgentReports, Change, edge
<1>2. ASSUME NEW p \in Ports, Foreign(p)
      PROVE  UNCHANGED workerVars
  BY <1>2 DEF Foreign, Change, edge
<1>3. ASSUME NEW w \in Workers,
             \/ Authorize(w) \/ WorkerFails(w) \/ FinishOne(w)
             \/ \E s \in Sessions : Admit(w, s) \/ SessionEnds(w, s)
      PROVE  [WorkerNext]_workerVars
  BY <1>3 DEF Authorize, WorkerFails, FinishOne, Admit, SessionEnds, WorkerNext
<1>4. CASE ListRoutes \/ AllVisited \/ Publish \/ StoppedAll \/ ListFails
  BY <1>4 DEF ListRoutes, AllVisited, Publish, StoppedAll, ListFails, edge
<1>5. CASE Retired
  <2>1. workers[current] \in Workers
    BY <1>0, <1>5 DEF Retired, IInv, Stops, ManagerTypeOK
  <2>. QED  BY <1>5, <2>1 DEF Retired, WorkerNext
<1>6. ASSUME NEW p \in Ports, Keep(p) \/ KeepStarted(p) \/ BindFails(p)
      PROVE  UNCHANGED workerVars
  BY <1>6 DEF Keep, KeepStarted, BindFails, edge
<1>7. ASSUME NEW p \in Ports, Retire(p)
      PROVE  WorkerNext
  <2>1. workers[p] \in Workers
    BY <1>0, <1>7 DEF Retire, IInv, Visited, ManagerTypeOK
  <2>. QED  BY <1>7, <2>1 DEF Retire, StopServing, WorkerNext
<1>8. ASSUME NEW p \in Ports, StopOne(p)
      PROVE  WorkerNext
  <2>1. workers[p] \in Workers
    BY <1>0, <1>8 DEF StopOne, ManagerTypeOK
  <2>. QED  BY <1>8, <2>1 DEF StopOne, StopServing, WorkerNext
<1>9. ASSUME NEW p \in Ports, NEW w \in Workers, StartWorker(p, w)
      PROVE  WorkerNext
  BY <1>9 DEF StartWorker, WorkerNext
<1>10. CASE UNCHANGED vars
  BY <1>10 DEF vars, edge
<1>. QED
  BY <1>1, <1>2, <1>3, <1>4, <1>5, <1>6, <1>7, <1>8, <1>9, <1>10 DEF Next, Reconcile

(* The Manager uses its workers by the operations of streamWorker, in the  *)
(* order these allow: it starts none twice, begins no stop of one that is  *)
(* stopping, and takes none for stopped before its sessions have ended.    *)
THEOREM KeepsToItsWorkers == Spec => WorkerSpec
<1>1. Init => WorkerInit
  BY DEF Init
<1>. QED  BY <1>1, WorkerStep, Invariant, PTL DEF Spec, WorkerSpec

(* What the limits and the stops of workers amount to: slots are shared by *)
(* all workers, a session is one worker's, and a worker that is not in use *)
(* has none.                                                               *)
SessionsKnown ==
  /\ phase \in [Workers -> Phases]
  /\ open \in [Workers -> SUBSET Sessions]
  /\ IsFiniteSet(AllOpen) /\ Cardinality(AllOpen) <= GlobalLimit
  /\ \A w \in Workers :
       /\ IsFiniteSet(open[w]) /\ Cardinality(open[w]) <= RouteLimit
       /\ phase[w] \in {"unused", "stopped"} => open[w] = {}
       /\ \A v \in Workers \ {w} : open[v] \cap open[w] = {}


LEMMA SessionsKnownInit == WorkerInit => SessionsKnown
<1>. SUFFICES ASSUME WorkerInit PROVE SessionsKnown
  OBVIOUS
<1>1. AllOpen = {} /\ \A w \in Workers : open[w] = {}
  BY DEF WorkerInit, AllOpen
<1>. QED  BY <1>1, FS_EmptySet DEF WorkerInit, SessionsKnown, Phases

(* There is room for one more below a limit. *)
LEMMA RoomForOne ==
  ASSUME NEW S, IsFiniteSet(S), NEW x, x \notin S, NEW limit \in Nat, Cardinality(S) < limit
  PROVE  IsFiniteSet(S \cup {x}) /\ Cardinality(S \cup {x}) <= limit
<1>1. Cardinality(S) \in Nat
  BY FS_CardinalityType
<1>2. IsFiniteSet(S \cup {x}) /\ Cardinality(S \cup {x}) = Cardinality(S) + 1
  BY FS_AddElement
<1>. QED  BY <1>1, <1>2

(* A session that is opened is nobody's, and there is room for it. *)
LEMMA OpenKeeps ==
  ASSUME SessionsKnown, NEW w \in Workers, NEW s \in Sessions, Open(w, s)
  PROVE  SessionsKnown'
<1>1. /\ phase[w] = "serving" /\ s \notin AllOpen /\ UNCHANGED phase
      /\ Cardinality(open[w]) < RouteLimit /\ Cardinality(AllOpen) < GlobalLimit
      /\ open' = [open EXCEPT ![w] = open[w] \cup {s}]
  BY DEF Open
<1>2. /\ open'[w] = open[w] \cup {s} /\ open' \in [Workers -> SUBSET Sessions]
      /\ \A v \in Workers \ {w} : open'[v] = open[v]
  BY <1>1 DEF SessionsKnown
<1>3. AllOpen' = AllOpen \cup {s} /\ \A v \in Workers : s \notin open[v]
  BY <1>1, <1>2 DEF AllOpen
<1>4. IsFiniteSet(AllOpen') /\ Cardinality(AllOpen') <= GlobalLimit
  BY <1>1, <1>3, RoomForOne DEF SessionsKnown
<1>5. IsFiniteSet(open'[w]) /\ Cardinality(open'[w]) <= RouteLimit
  <2>1. IsFiniteSet(open[w]) /\ s \notin open[w]
    BY <1>3 DEF SessionsKnown
  <2>2. IsFiniteSet(open[w] \cup {s}) /\ Cardinality(open[w] \cup {s}) <= RouteLimit
    BY <1>1, <2>1, RoomForOne
  <2>. QED  BY <1>2, <2>2
<1>6. \A u, v \in Workers : u # v => open'[u] \cap open'[v] = {}
  BY <1>2, <1>3 DEF SessionsKnown
<1>. QED  BY <1>1, <1>2, <1>4, <1>5, <1>6 DEF SessionsKnown

(* A session that ends leaves the others. *)
LEMMA CloseKeeps ==
  ASSUME SessionsKnown, NEW w \in Workers, NEW s \in Sessions, Close(w, s)
  PROVE  SessionsKnown'
<1>1. UNCHANGED phase /\ open' = [open EXCEPT ![w] = open[w] \ {s}]
  BY DEF Close
<1>2. open' \in [Workers -> SUBSET Sessions] /\ \A v \in Workers : open'[v] \subseteq open[v]
  BY <1>1 DEF SessionsKnown
<1>3. AllOpen' \subseteq AllOpen
  BY <1>2 DEF AllOpen
<1>4. IsFiniteSet(AllOpen') /\ Cardinality(AllOpen') <= GlobalLimit
  BY <1>3, FS_Subset, FS_CardinalityType DEF SessionsKnown
<1>5. \A v \in Workers : IsFiniteSet(open'[v]) /\ Cardinality(open'[v]) <= RouteLimit
  BY <1>2, FS_Subset, FS_CardinalityType DEF SessionsKnown
<1>6. \A u, v \in Workers : u # v => open'[u] \cap open'[v] = {}
  BY <1>2 DEF SessionsKnown
<1>7. \A v \in Workers : phase'[v] \in {"unused", "stopped"} => open'[v] = {}
  BY <1>1, <1>2 DEF SessionsKnown
<1>. QED  BY <1>1, <1>2, <1>4, <1>5, <1>6, <1>7 DEF SessionsKnown

(* A worker is through with a stop when its last session is. *)
LEMMA MoveKeeps ==
  ASSUME SessionsKnown, NEW w \in Workers,
         Start(w) \/ LoopEnds(w) \/ BeginStop(w) \/ FinishStop(w)
  PROVE  SessionsKnown'
<1>1. PICK to \in Phases : phase' = [phase EXCEPT ![w] = to] /\ UNCHANGED open
                         /\ (to \in {"unused", "stopped"} => open[w] = {})
  BY DEF Start, LoopEnds, BeginStop, FinishStop, Moves, Phases
<1>2. AllOpen' = AllOpen /\ phase' \in [Workers -> Phases]
  BY <1>1 DEF AllOpen, SessionsKnown
<1>3. \A v \in Workers : phase'[v] \in {"unused", "stopped"} => open[v] = {}
  BY <1>1 DEF SessionsKnown
<1>. QED  BY <1>1, <1>2, <1>3 DEF SessionsKnown

(* The workers the Manager handles, and any that keep to StreamWorker, as  *)
(* those of TCP and UDP do, hold sessions within the limits that every     *)
(* route and the edge as a whole have (acquireSlot), each one of a single  *)
(* worker; and one that was stopped holds none when it is started again.   *)
THEOREM WorkersKeepLimits == WorkerSpec => []SessionsKnown
<1>1. SessionsKnown /\ [WorkerNext]_workerVars => SessionsKnown'
  <2>. SUFFICES ASSUME SessionsKnown, [WorkerNext]_workerVars PROVE SessionsKnown'
    OBVIOUS
  <2>1. CASE WorkerNext
    BY <2>1, OpenKeeps, CloseKeeps, MoveKeeps DEF WorkerNext
  <2>2. CASE UNCHANGED workerVars
    BY <2>2 DEF workerVars, SessionsKnown, AllOpen
  <2>. QED  BY <2>1, <2>2
<1>. QED  BY SessionsKnownInit, <1>1, PTL DEF WorkerSpec

(* So do the workers between the steps of the Manager. *)
THEOREM SessionsWithinLimits == Spec => []SessionsKnown
BY KeepsToItsWorkers, WorkersKeepLimits, PTL
=============================================================================

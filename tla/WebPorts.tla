------------------------------ MODULE WebPorts ------------------------------
(***************************************************************************)
(* Extra ports of web routes: edge.PortsManager (internal/edge/ports.go)   *)
(* polls the routes and keeps one HTTP or HTTPS server for every public    *)
(* port that enabled web routes name. A poll lists the routes, stops the   *)
(* servers nobody wants with their scheme, starts the missing ones and     *)
(* then publishes what it found, while routes change and servers fail.     *)
(* Each server accepts in a goroutine of its own (http.Server.Serve), and  *)
(* a stop waits for that goroutine, though not for ever.                   *)
(***************************************************************************)
EXTENDS Naturals

CONSTANTS
  Ids,        \* web routes
  Ports,      \* public ports other than the edge's own
  None,
  MaxFaults   \* bound on failed listings, failing servers and cancellations

Schemes == {"http", "https"}

ASSUME NoneAssumption == None \notin Schemes
ASSUME MaxFaultsAssumption == MaxFaults \in Nat

VARIABLES
  routes,     \* enabled web routes: id -> port and scheme, None for the edge's own port
  foreign,    \* ports held by other programs
  listening,  \* port -> scheme of the socket the manager's servers accept on
  servers,    \* port -> scheme of the entry in PortsManager.servers
  serve,      \* port -> where the goroutine of its last server is in Serve
  halting,    \* the port that stop is at work on
  gaveUp,     \* ports whose stop no longer waited, with the socket still open
  desired,    \* port -> what the poll in progress found
  built,      \* port -> status, as collected by the poll in progress
  statuses,   \* port -> status, as PortStatus tells
  pc,         \* where Run is
  faults

serverOf == << listening, servers, serve, halting, gaveUp >>
poll == << desired, built, statuses >>
vars == << routes, foreign, serverOf, poll, pc, faults >>

Status == {"published", "bind_error", "conflict"}
Clear == [p \in Ports |-> None]

TypeOK ==
  /\ routes \in [Ids -> [port : Ports \cup {None}, scheme : Schemes] \cup {None}]
  /\ foreign \subseteq Ports
  /\ listening \in [Ports -> Schemes \cup {None}]
  /\ servers \in [Ports -> Schemes \cup {None}]
  /\ serve \in [Ports -> {"off", "starting", "accepting", "returned"}]
  /\ halting \in Ports \cup {None}
  /\ gaveUp \subseteq Ports
  /\ desired \in [Ports -> Schemes \cup {"conflict", None}]
  /\ built \in [Ports -> Status \cup {None}]
  /\ statuses \in [Ports -> Status \cup {None}]
  /\ pc \in {"idle", "stop", "start", "exit", "done"}
  /\ faults \in 0 .. MaxFaults

NoServers ==
  /\ listening = Clear /\ servers = Clear
  /\ serve = [p \in Ports |-> "off"] /\ halting = None /\ gaveUp = {}

Init ==
  /\ routes = [i \in Ids |-> None]
  /\ foreign = {}
  /\ NoServers
  /\ desired = Clear /\ built = Clear /\ statuses = Clear
  /\ pc = "idle"
  /\ faults = 0

Fault == faults < MaxFaults /\ faults' = faults + 1

-----------------------------------------------------------------------------
(* Around the manager.                                                     *)

Configure(i) ==
  /\ \E p \in Ports \cup {None}, s \in Schemes : routes' = [routes EXCEPT ![i] = [port |-> p, scheme |-> s]]
  /\ UNCHANGED << foreign, serverOf, poll, pc, faults >>

Withdraw(i) ==
  /\ routes' = [routes EXCEPT ![i] = None]
  /\ UNCHANGED << foreign, serverOf, poll, pc, faults >>

OtherProgram(p) ==
  /\ \/ p \notin foreign /\ listening[p] = None /\ foreign' = foreign \cup {p}
     \/ foreign' = foreign \ {p}
  /\ UNCHANGED << routes, serverOf, poll, pc, faults >>

-----------------------------------------------------------------------------
(* The goroutine of a server. Shutdown closes the listeners that Serve has *)
(* come to track; a Serve that starts after it closes its own and returns. *)

Told(p) == halting = p \/ p \in gaveUp

ServeBegins(p) ==
  /\ serve[p] = "starting"
  /\ ~Told(p)
  /\ serve' = [serve EXCEPT ![p] = "accepting"]
  /\ UNCHANGED << routes, foreign, listening, servers, halting, gaveUp, poll, pc, faults >>

ServeReturns(p) ==
  /\ serve[p] \in {"starting", "accepting"}
  /\ Told(p)
  /\ listening' = [listening EXCEPT ![p] = None]
  /\ serve' = [serve EXCEPT ![p] = IF p \in gaveUp THEN "off" ELSE "returned"]
  /\ gaveUp' = gaveUp \ {p}
  /\ UNCHANGED << routes, foreign, servers, halting, poll, pc, faults >>

(* Accept fails for good: the socket is gone, the entry is not. *)
ServeFails(p) ==
  /\ serve[p] = "accepting"
  /\ ~Told(p)
  /\ Fault
  /\ listening' = [listening EXCEPT ![p] = None]
  /\ serve' = [serve EXCEPT ![p] = "returned"]
  /\ UNCHANGED << routes, foreign, servers, halting, gaveUp, poll, pc >>

-----------------------------------------------------------------------------
(* A poll.                                                                 *)

SchemesOn(p) == {routes[i].scheme : i \in {j \in Ids : routes[j] # None /\ routes[j].port = p}}

(* Routes that disagree on the scheme of a port fail closed. *)
Listed ==
  [p \in Ports |-> CASE SchemesOn(p) = {} -> None
                     [] SchemesOn(p) = Schemes -> "conflict"
                     [] OTHER -> CHOOSE s \in SchemesOn(p) : TRUE]

ListRoutes ==
  /\ pc = "idle"
  /\ pc' = "stop"
  /\ desired' = Listed
  /\ built' = [p \in Ports |-> IF Listed[p] = "conflict" THEN "conflict" ELSE None]
  /\ UNCHANGED << routes, foreign, serverOf, statuses, faults >>

ListFails ==
  /\ pc = "idle"
  /\ Fault
  /\ UNCHANGED << routes, foreign, serverOf, poll, pc >>

Unwanted(p) == servers[p] # None /\ desired[p] # servers[p]

(* stop: Shutdown closes a tracked listener at once, and waits for the     *)
(* connections or, at last, has Close end them ...                         *)
Shutdown(p) ==
  /\ halting = None
  /\ halting' = p
  /\ listening' = [listening EXCEPT ![p] = IF serve[p] = "accepting" THEN None ELSE @]
  /\ UNCHANGED << routes, foreign, servers, serve, gaveUp, poll, pc, faults >>

StopUnwanted(p) == pc = "stop" /\ Unwanted(p) /\ Shutdown(p)

Forget(p) ==
  /\ halting' = None
  /\ servers' = [servers EXCEPT ![p] = None]
  /\ serve' = [serve EXCEPT ![p] = IF listening[p] = None THEN "off" ELSE @]
  /\ UNCHANGED << routes, foreign, listening, poll, pc >>

(* Mutant: the entry goes without a wait for its goroutine. *)
StoppedUnawaited(p) ==
  /\ halting = p
  /\ Forget(p)
  /\ UNCHANGED << gaveUp, faults >>

(* ... then the entry goes, once Serve has returned or after five seconds. *)
Stopped(p) ==
  /\ halting = p
  /\ serve[p] = "returned"
  /\ Forget(p)
  /\ UNCHANGED << gaveUp, faults >>

WaitTimesOut(p) ==
  /\ halting = p
  /\ serve[p] # "returned"
  /\ Fault
  /\ Forget(p)
  /\ gaveUp' = IF listening[p] = None THEN gaveUp ELSE gaveUp \cup {p}

AllStopped ==
  /\ pc = "stop"
  /\ halting = None
  /\ \A p \in Ports : ~Unwanted(p)
  /\ pc' = "start"
  /\ UNCHANGED << routes, foreign, serverOf, poll, faults >>

Pending(p) == pc = "start" /\ desired[p] \in Schemes /\ built[p] = None

(* An entry counts as a listener. *)
KeepServer(p) ==
  /\ Pending(p)
  /\ servers[p] # None
  /\ built' = [built EXCEPT ![p] = "published"]
  /\ UNCHANGED << routes, foreign, serverOf, desired, statuses, pc, faults >>

CanBind(p) == p \notin foreign /\ listening[p] = None

StartServer(p) ==
  /\ Pending(p)
  /\ servers[p] = None
  /\ CanBind(p)
  /\ listening' = [listening EXCEPT ![p] = desired[p]]
  /\ servers' = [servers EXCEPT ![p] = desired[p]]
  /\ serve' = [serve EXCEPT ![p] = "starting"]
  /\ built' = [built EXCEPT ![p] = "published"]
  /\ UNCHANGED << routes, foreign, halting, gaveUp, desired, statuses, pc, faults >>

BindFails(p) ==
  /\ Pending(p)
  /\ servers[p] = None
  /\ ~CanBind(p)
  /\ built' = [built EXCEPT ![p] = "bind_error"]
  /\ UNCHANGED << routes, foreign, serverOf, desired, statuses, pc, faults >>

Publish ==
  /\ pc = "start"
  /\ \A p \in Ports : ~Pending(p)
  /\ statuses' = built
  /\ pc' = "idle"
  /\ UNCHANGED << routes, foreign, serverOf, desired, built, faults >>

(* The context is cancelled: stopAll. *)
Cancel ==
  /\ pc = "idle"
  /\ Fault
  /\ pc' = "exit"
  /\ UNCHANGED << routes, foreign, serverOf, poll >>

StopAll(p) == pc = "exit" /\ servers[p] # None /\ Shutdown(p)

Exited ==
  /\ pc = "exit"
  /\ servers = Clear
  /\ statuses' = Clear
  /\ pc' = "done"
  /\ UNCHANGED << routes, foreign, serverOf, desired, built, faults >>

Reconcile ==
  \/ ListRoutes \/ AllStopped \/ Publish \/ Exited
  \/ \E p \in Ports :
       \/ StopUnwanted(p) \/ StopAll(p) \/ Stopped(p)
       \/ KeepServer(p) \/ StartServer(p) \/ BindFails(p)

Goroutine(p) == ServeBegins(p) \/ ServeReturns(p)

Next ==
  \/ Reconcile \/ ListFails \/ Cancel
  \/ \E i \in Ids : Configure(i) \/ Withdraw(i)
  \/ \E p \in Ports : OtherProgram(p) \/ Goroutine(p) \/ ServeFails(p) \/ WaitTimesOut(p)

Spec == Init /\ [][Next]_vars

(* The ticker keeps ticking, a poll goes on, and goroutines run. *)
FairSpec == Spec /\ WF_vars(Reconcile) /\ \A p \in Ports : WF_vars(Goroutine(p))

-----------------------------------------------------------------------------
(* No socket outlives the entry that would close it, through polls, bind   *)
(* errors, changes of scheme and stopAll, and once Run is over none is     *)
(* left; except where stop gave up waiting for Serve. Shutdown alone does  *)
(* not ensure it: of a server that has only just been started it closes    *)
(* nothing.                                                                *)
ListenersOwned ==
  \A p \in Ports : listening[p] # None =>
    \/ servers[p] = listening[p] /\ pc # "done"
    \/ p \in gaveUp

(* What is to be served on a port, and a server of that scheme that        *)
(* stopped by itself, which reconcile does not look for.                   *)
Served(p) == IF Listed[p] = "conflict" THEN None ELSE Listed[p]
Dead(p) == faults > 0 /\ servers[p] = Served(p) /\ listening[p] = None

(* "PortStatus reports the listener state for a web route's extra port": a *)
(* port does not stay published once its listener has failed.              *)
PublishedIsServed ==
  \A p \in Ports :
    (statuses[p] = "published" /\ listening[p] = None) ~> (statuses[p] # "published" \/ listening[p] # None)
=============================================================================

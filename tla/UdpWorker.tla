------------------------------ MODULE UdpWorker ------------------------------
(***************************************************************************)
(* A UDP worker of the stream edge (internal/tcpedge/manager.go): the      *)
(* receive loop, which alone opens sessions, one backend reader for each   *)
(* session, the expiry of idle sessions, and beginStop and finishStop. Any *)
(* of them may drop a session, and the code's dropSession lets one of them *)
(* do it. Global slots are shared with workers that are not modelled here. *)
(* Names that TcpWorker has too begin with Udp here.                       *)
(***************************************************************************)
EXTENDS StreamLimits

CONSTANTS
  Clients,       \* addresses datagrams come from
  Sessions       \* udpSession objects, each allocated once

ASSUME SessionsAssumption == None \notin Clients \cup Sessions

(* The goroutines that may drop a session: the readers are known by their  *)
(* sessions, the others by these names.                                    *)
Actors == {"serve", "expire", "stop"} \cup Sessions

ASSUME NamesAssumption == Sessions \cap {"serve", "expire", "stop"} = {}

VARIABLES
  udpServe,        \* where the receive loop is
  client, udpHand, \* the sender and the session of the datagram it holds
  sessions,        \* client -> its session
  clientOf,        \* session -> its client
  backends,        \* sessions whose backend connection is open
  idle,            \* sessions last seen before the cutoff
  reader,          \* session -> where its readBackend is
  expire,          \* where expireIdleSessions is
  expired,         \* the sessions it has found idle
  drop,            \* goroutine -> how far its dropSession is, and of which session
  udpStopping,     \* how far beginStop and finishStop are
  snapshot,        \* the sessions beginStop has yet to drop
  udpRouteSlots, udpGlobalSlots, \* slots taken
  elsewhere,       \* the global slots that other workers have taken
  accounted        \* session -> how often its traffic was observed

loop == << udpServe, client, udpHand >>
table == << sessions, clientOf, backends, idle >>
expiry == << expire, expired >>
stop == << udpStopping, snapshot >>
udpSlots == << udpRouteSlots, udpGlobalSlots, elsewhere >>
udpVars == << loop, table, reader, expiry, drop, stop, udpSlots, accounted >>

UdpServing ==
  {"read", "authorize", "global", "route", "dial", "insert", "routeBack",
   "globalBack", "touch", "write"}
Holding == {"route", "dial", "insert", "routeBack", "globalBack"}

UdpTypeOK ==
  /\ udpServe \in UdpServing \cup {"exited"}
  /\ client \in Clients \cup {None}
  /\ udpHand \in Sessions \cup {None}
  /\ sessions \in [Clients -> Sessions \cup {None}]
  /\ clientOf \in [Sessions -> Clients \cup {None}]
  /\ backends \subseteq Sessions
  /\ idle \subseteq Sessions
  /\ reader \in [Sessions -> {"none", "read", "exited"}]
  /\ expire \in {"tick", "drop", "exited"}
  /\ expired \subseteq Sessions
  /\ drop \in [Actors -> [at : {"no", "check", "close", "route", "global"},
                          session : Sessions \cup {None}]]
  /\ udpStopping \in {"no", "flagged", "cancelled", "unbound", "begun", "finished"}
  /\ snapshot \subseteq Sessions
  /\ udpRouteSlots \in 0 .. RouteLimit
  /\ udpGlobalSlots \in 0 .. GlobalLimit
  /\ elsewhere \in 0 .. GlobalLimit
  /\ accounted \in [Sessions -> 0 .. 1]

NoDrop == [at |-> "no", session |-> None]

UdpInit ==
  /\ udpServe = "read"
  /\ client = None
  /\ udpHand = None
  /\ sessions = [c \in Clients |-> None]
  /\ clientOf = [s \in Sessions |-> None]
  /\ backends = {}
  /\ idle = {}
  /\ reader = [s \in Sessions |-> "none"]
  /\ expire = "tick"
  /\ expired = {}
  /\ drop = [a \in Actors |-> NoDrop]
  /\ udpStopping = "no"
  /\ snapshot = {}
  /\ udpRouteSlots = 0
  /\ udpGlobalSlots = 0
  /\ elsewhere = 0
  /\ accounted = [s \in Sessions |-> 0]

Known == {s \in Sessions : \E c \in Clients : sessions[c] = s}
Stopped == udpStopping # "no"
Cancelled == udpStopping \notin {"no", "flagged"}
Bound == udpStopping \in {"no", "flagged", "cancelled"}

-----------------------------------------------------------------------------
(* dropSession, by any goroutine.                                          *)

Free(a) == drop[a].at = "no"
Drop(a, s) == drop' = [drop EXCEPT ![a] = [at |-> "check", session |-> s]]

DropAt(a, from, to) ==
  /\ drop[a].at = from
  /\ drop' = [drop EXCEPT ![a] = IF to = "no" THEN NoDrop ELSE [@ EXCEPT !.at = to]]

(* Only the goroutine that finds the session in the table goes on. *)
DropCheck(a) ==
  LET s == drop[a].session
      current == sessions[clientOf[s]] = s
  IN
  /\ drop[a].at = "check"
  /\ DropAt(a, "check", IF current THEN "close" ELSE "no")
  /\ sessions' = IF current THEN [sessions EXCEPT ![clientOf[s]] = None] ELSE sessions
  /\ UNCHANGED << loop, clientOf, backends, idle, reader, expiry, stop, udpSlots,
                  accounted >>

DropClose(a) ==
  /\ DropAt(a, "close", "route")
  /\ backends' = backends \ {drop[a].session}
  /\ UNCHANGED << loop, sessions, clientOf, idle, reader, expiry, stop, udpSlots,
                  accounted >>

DropRouteSlot(a) ==
  /\ DropAt(a, "route", "global")
  /\ udpRouteSlots' = udpRouteSlots - 1
  /\ UNCHANGED << loop, table, reader, expiry, stop, udpGlobalSlots, elsewhere, accounted >>

DropGlobalSlot(a) ==
  /\ DropAt(a, "global", "no")
  /\ udpGlobalSlots' = udpGlobalSlots - 1
  /\ accounted' = [accounted EXCEPT ![drop[a].session] = @ + 1]
  /\ UNCHANGED << loop, table, reader, expiry, stop, udpRouteSlots, elsewhere >>

Dropping(a) == DropCheck(a) \/ DropClose(a) \/ DropRouteSlot(a) \/ DropGlobalSlot(a)

-----------------------------------------------------------------------------
(* The receive loop.                                                       *)

UdpServeAt(from, to) ==
  /\ Free("serve")
  /\ udpServe = from
  /\ udpServe' = to

Receive(c) ==
  /\ Bound
  /\ UdpServeAt("read", IF sessions[c] = None THEN "authorize" ELSE "touch")
  /\ client' = c
  /\ udpHand' = sessions[c]
  /\ UNCHANGED << table, reader, expiry, drop, stop, udpSlots, accounted >>

(* Any error of a read ends the loop, and closes nothing. *)
ReceiveFails ==
  /\ UdpServeAt("read", "exited")
  /\ UNCHANGED << client, udpHand, table, reader, expiry, drop, stop, udpSlots, accounted >>

UdpAuthorize ==
  /\ \/ UdpServeAt("authorize", "global")
     \/ UdpServeAt("authorize", "read")
  /\ UNCHANGED << client, udpHand, table, reader, expiry, drop, stop, udpSlots, accounted >>

UdpTakeGlobalSlot ==
  /\ \/ /\ UdpServeAt("global", "route")
        /\ udpGlobalSlots < GlobalLimit
        /\ udpGlobalSlots' = udpGlobalSlots + 1
     \/ /\ UdpServeAt("global", "read")
        /\ udpGlobalSlots = GlobalLimit
        /\ UNCHANGED udpGlobalSlots
  /\ UNCHANGED << client, udpHand, table, reader, expiry, drop, stop, udpRouteSlots, elsewhere,
                  accounted >>

UdpTakeRouteSlot ==
  /\ \/ /\ UdpServeAt("route", "dial")
        /\ udpRouteSlots < RouteLimit
        /\ udpRouteSlots' = udpRouteSlots + 1
     \/ /\ UdpServeAt("route", "globalBack")
        /\ udpRouteSlots = RouteLimit
        /\ UNCHANGED udpRouteSlots
  /\ UNCHANGED << client, udpHand, table, reader, expiry, drop, stop, udpGlobalSlots,
                  elsewhere, accounted >>

(* A dial that completed before the context was cancelled has succeeded. *)
UdpDial ==
  /\ \/ /\ UdpServeAt("dial", "insert")
        /\ ~Cancelled
        /\ \E s \in {t \in Sessions : clientOf[t] = None} :
             /\ udpHand' = s
             /\ clientOf' = [clientOf EXCEPT ![s] = client]
             /\ backends' = backends \cup {s}
     \/ /\ UdpServeAt("dial", "routeBack")
        /\ UNCHANGED << udpHand, clientOf, backends >>
  /\ UNCHANGED << client, sessions, idle, reader, expiry, drop, stop, udpSlots, accounted >>

(* Mutant: a refused session keeps its slots. *)
InsertRefusedKeepsSlots ==
  /\ \/ /\ UdpServeAt("insert", "touch")
        /\ ~Stopped
        /\ sessions' = [sessions EXCEPT ![client] = udpHand]
        /\ reader' = [reader EXCEPT ![udpHand] = "read"]
        /\ UNCHANGED << udpHand, backends >>
     \/ /\ UdpServeAt("insert", "read")
        /\ Stopped
        /\ backends' = backends \ {udpHand}
        /\ udpHand' = None
        /\ UNCHANGED << sessions, reader >>
  /\ UNCHANGED << client, clientOf, idle, expiry, drop, stop, udpSlots, accounted >>

(* Mutant: a refused session's connection stays open. *)
InsertRefusedStaysOpen ==
  /\ \/ /\ UdpServeAt("insert", "touch")
        /\ ~Stopped
        /\ sessions' = [sessions EXCEPT ![client] = udpHand]
        /\ reader' = [reader EXCEPT ![udpHand] = "read"]
        /\ UNCHANGED udpHand
     \/ /\ UdpServeAt("insert", "routeBack")
        /\ Stopped
        /\ udpHand' = None
        /\ UNCHANGED << sessions, reader >>
  /\ UNCHANGED << client, clientOf, backends, idle, expiry, drop, stop, udpSlots, accounted >>

(* Mutant: stopped is not looked at. *)
InsertRegardless ==
  /\ UdpServeAt("insert", "touch")
  /\ sessions' = [sessions EXCEPT ![client] = udpHand]
  /\ reader' = [reader EXCEPT ![udpHand] = "read"]
  /\ UNCHANGED << client, udpHand, clientOf, backends, idle, expiry, drop, stop, udpSlots,
                  accounted >>

(* Into the table, unless the worker was stopped. That another session of  *)
(* the client was opened meanwhile cannot be: only this loop opens any.    *)
Insert ==
  /\ \/ /\ UdpServeAt("insert", "touch")
        /\ ~Stopped
        /\ sessions' = [sessions EXCEPT ![client] = udpHand]
        /\ reader' = [reader EXCEPT ![udpHand] = "read"]
        /\ UNCHANGED << udpHand, backends >>
     \/ /\ UdpServeAt("insert", "routeBack")
        /\ Stopped
        /\ backends' = backends \ {udpHand}
        /\ udpHand' = None
        /\ UNCHANGED << sessions, reader >>
  /\ UNCHANGED << client, clientOf, idle, expiry, drop, stop, udpSlots, accounted >>

RouteSlotBack ==
  /\ UdpServeAt("routeBack", "globalBack")
  /\ udpRouteSlots' = udpRouteSlots - 1
  /\ UNCHANGED << client, udpHand, table, reader, expiry, drop, stop, udpGlobalSlots,
                  elsewhere, accounted >>

GlobalSlotBack ==
  /\ UdpServeAt("globalBack", "read")
  /\ udpGlobalSlots' = udpGlobalSlots - 1
  /\ UNCHANGED << client, udpHand, table, reader, expiry, drop, stop, udpRouteSlots, elsewhere,
                  accounted >>

Touch ==
  /\ UdpServeAt("touch", "write")
  /\ idle' = idle \ {udpHand}
  /\ UNCHANGED << client, udpHand, sessions, clientOf, backends, reader, expiry, drop, stop,
                  udpSlots, accounted >>

Write ==
  /\ udpHand \in backends
  /\ UdpServeAt("write", "read")
  /\ udpHand' = None
  /\ UNCHANGED << client, table, reader, expiry, drop, stop, udpSlots, accounted >>

(* The connection was closed, here or by the agent's relay. *)
WriteFails ==
  /\ UdpServeAt("write", "read")
  /\ Drop("serve", udpHand)
  /\ udpHand' = None
  /\ UNCHANGED << client, table, reader, expiry, stop, udpSlots, accounted >>

UdpServe ==
  \/ UdpAuthorize \/ UdpTakeGlobalSlot \/ UdpTakeRouteSlot \/ UdpDial \/ Insert
  \/ RouteSlotBack \/ GlobalSlotBack \/ Touch

-----------------------------------------------------------------------------
(* readBackend.                                                            *)

BackendSpeaks(s) ==
  /\ reader[s] = "read"
  /\ s \in backends
  /\ Bound
  /\ idle' = idle \ {s}
  /\ UNCHANGED << loop, sessions, clientOf, backends, reader, expiry, drop, stop, udpSlots,
                  accounted >>

(* The backend connection or the public socket is closed. *)
ReadFails(s) ==
  /\ reader[s] = "read"
  /\ reader' = [reader EXCEPT ![s] = "exited"]
  /\ Drop(s, s)
  /\ UNCHANGED << loop, table, expiry, stop, udpSlots, accounted >>

(* expireIdleSessions: what is idle is collected under the mutex, and      *)
(* dropped after it, whether or not it has been used again since.          *)
GrowIdle(s) ==
  /\ s \in Known
  /\ s \notin idle
  /\ idle' = idle \cup {s}
  /\ UNCHANGED << loop, sessions, clientOf, backends, reader, expiry, drop, stop, udpSlots,
                  accounted >>

CollectIdle ==
  /\ expire = "tick"
  /\ Known \cap idle # {}
  /\ expire' = "drop"
  /\ expired' = Known \cap idle
  /\ UNCHANGED << loop, table, reader, drop, stop, udpSlots, accounted >>

DropIdle ==
  /\ expire = "drop"
  /\ Free("expire")
  /\ IF expired = {}
       THEN expire' = "tick" /\ UNCHANGED << expired, drop >>
       ELSE \E s \in expired :
              Drop("expire", s) /\ expired' = expired \ {s} /\ UNCHANGED expire
  /\ UNCHANGED << loop, table, reader, stop, udpSlots, accounted >>

ExpireExits ==
  /\ expire = "tick"
  /\ Cancelled
  /\ expire' = "exited"
  /\ UNCHANGED << loop, table, reader, expired, drop, stop, udpSlots, accounted >>

-----------------------------------------------------------------------------
(* beginStop, in the order of its calls, and finishStop.                   *)

UdpStopAt(from, to) ==
  /\ udpStopping = from
  /\ udpStopping' = to

UdpFlagStopped ==
  /\ UdpStopAt("no", "flagged")
  /\ snapshot' = Known
  /\ UNCHANGED << loop, table, reader, expiry, drop, udpSlots, accounted >>

CancelAndUnbind ==
  /\ UdpStopAt("flagged", "cancelled") \/ UdpStopAt("cancelled", "unbound")
  /\ UNCHANGED << loop, table, reader, expiry, drop, snapshot, udpSlots, accounted >>

DropSnapshot ==
  /\ udpStopping = "unbound"
  /\ Free("stop")
  /\ IF snapshot = {}
       THEN udpStopping' = "begun" /\ UNCHANGED << snapshot, drop >>
       ELSE \E s \in snapshot :
              Drop("stop", s) /\ snapshot' = snapshot \ {s} /\ UNCHANGED udpStopping
  /\ UNCHANGED << loop, table, reader, expiry, udpSlots, accounted >>

(* Mutant: the WaitGroup does not count the readers. *)
FinishStopUnread ==
  /\ udpServe = "exited" /\ expire = "exited"
  /\ UdpStopAt("begun", "finished")
  /\ UNCHANGED << loop, table, reader, expiry, drop, snapshot, udpSlots, accounted >>

(* The WaitGroup counts the receive loop, the expiry and the readers. *)
UdpFinishStop ==
  /\ udpServe = "exited" /\ expire = "exited"
  /\ \A s \in Sessions : reader[s] # "read" /\ Free(s)
  /\ UdpStopAt("begun", "finished")
  /\ UNCHANGED << loop, table, reader, expiry, drop, snapshot, udpSlots, accounted >>

(* The other workers take and give back global slots. *)
Elsewhere ==
  /\ \/ /\ udpGlobalSlots < GlobalLimit
        /\ udpGlobalSlots' = udpGlobalSlots + 1
        /\ elsewhere' = elsewhere + 1
     \/ elsewhere > 0 /\ udpGlobalSlots' = udpGlobalSlots - 1 /\ elsewhere' = elsewhere - 1
  /\ UNCHANGED << loop, table, reader, expiry, drop, stop, udpRouteSlots, accounted >>

UdpNext ==
  \/ \E c \in Clients : Receive(c)
  \/ ReceiveFails \/ UdpServe \/ Write \/ WriteFails
  \/ \E s \in Sessions : BackendSpeaks(s) \/ ReadFails(s) \/ GrowIdle(s)
  \/ CollectIdle \/ DropIdle \/ ExpireExits
  \/ \E a \in Actors : Dropping(a)
  \/ UdpFlagStopped \/ CancelAndUnbind \/ DropSnapshot \/ UdpFinishStop
  \/ Elsewhere

UdpSpec == UdpInit /\ [][UdpNext]_udpVars

(* Goroutines keep running; calls return once what they use is closed, and *)
(* a write or a read on an open connection may wait for ever.              *)
UdpFairness ==
  /\ WF_udpVars(UdpServe)
  /\ WF_udpVars(~Bound /\ ReceiveFails)
  /\ WF_udpVars(udpHand \notin backends /\ WriteFails)
  /\ \A s \in Sessions : WF_udpVars(s \notin backends /\ ReadFails(s))
  /\ WF_udpVars(DropIdle) /\ WF_udpVars(ExpireExits)
  /\ \A a \in Actors : WF_udpVars(Dropping(a))
  /\ WF_udpVars(CancelAndUnbind) /\ WF_udpVars(DropSnapshot) /\ WF_udpVars(UdpFinishStop)

UdpFairSpec == UdpSpec /\ UdpFairness

-----------------------------------------------------------------------------
Leaving == {a \in Actors : drop[a].at \in {"close", "route"}}

(* Every session and every refusal in progress holds one slot of each      *)
(* kind, and gives it back once, whoever of the receive loop, a reader,    *)
(* the expiry and beginStop drops it first (dropSession).                  *)
UdpSlotsBalanced ==
  /\ udpRouteSlots = Cardinality(Known) + Cardinality(Leaving)
                    + (IF udpServe \in {"dial", "insert", "routeBack"} THEN 1 ELSE 0)
  /\ udpGlobalSlots = Cardinality(Known)
                     + Cardinality({a \in Actors : drop[a].at \in {"close", "route", "global"}})
                     + (IF udpServe \in Holding THEN 1 ELSE 0) + elsewhere

(* No open backend connection is lost sight of: it is in the table, or in  *)
(* the hands of the one goroutine that will close it.                      *)
BackendsInHand ==
  \A s \in backends :
    \/ s \in Known
    \/ \E a \in Leaving : drop[a].session = s
    \/ udpServe = "insert" /\ udpHand = s

(* When finishStop has returned every session's traffic was observed, once *)
(* each, and its connection and slots are gone.                            *)
UdpStoppedIsQuiet ==
  udpStopping = "finished" =>
    /\ Known = {} /\ backends = {} /\ udpRouteSlots = 0
    /\ \A s \in Sessions : reader[s] # "none" => accounted[s] = 1

(* Nothing leaks, in any of the three ways: slots, connections, or either  *)
(* after a stop.                                                           *)
SessionsLeakNothing == UdpSlotsBalanced /\ BackendsInHand /\ UdpStoppedIsQuiet

(* Every stop ends, although writes and reads of open connections and the  *)
(* expiry's round may be in progress and dials be pending. A worker is     *)
(* stopped once, so that this is to be at rest for ever again.             *)
UdpStopTerminates == []<>(udpStopping \in {"no", "finished"})

(* A UDP worker is a streamWorker as the Manager takes it.                 *)
UdpStreamWorker ==
  INSTANCE StreamWorker WITH
    Workers <- {"this"},
    phase <- [w \in {"this"} |->
                IF udpStopping = "finished" THEN "stopped"
                ELSE IF ~Stopped
                  THEN IF udpServe = "exited" THEN "dead" ELSE "serving"
                  ELSE IF udpServe = "exited" THEN "draining" ELSE "stopping"],
    open <- [w \in {"this"} |-> Known \cup {drop[a].session : a \in Leaving}]

UdpImplementsStreamWorker == UdpStreamWorker!WorkerSpec
=============================================================================

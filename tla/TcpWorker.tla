------------------------------ MODULE TcpWorker ------------------------------
(***************************************************************************)
(* The TCP workers of the stream edge (internal/tcpedge/manager.go): the   *)
(* accept loop of each, one proxy goroutine per connection, and beginStop  *)
(* and finishStop as the Manager calls them, over the connection slots     *)
(* that all the workers share. Every step that another goroutine can see   *)
(* is a step here: taking and giving back each of the two slots, tracking  *)
(* under the worker's mutex, and the four parts of beginStop.              *)
(***************************************************************************)
EXTENDS StreamLimits

CONSTANTS
  Workers,
  Conns,         \* connections that clients open, each at most once
  Target         \* connection -> the worker whose port its client connects to

ASSUME TargetAssumption == Target \in [Conns -> Workers]
ASSUME NoneAssumption == None \notin Workers \cup Conns

VARIABLES
  serve,         \* worker -> where its accept loop is
  hand,          \* worker -> the connection the accept loop holds
  listening,     \* worker -> whether its listener is open
  stopped,       \* worker -> stopped, under its mutex
  cancelled,     \* worker -> its context is done
  tracked,       \* worker -> active: the ends of connections it may close
  stopping,      \* worker -> how far beginStop and finishStop are
  globalSlots, routeSlots,   \* slots taken
  proxy,         \* connection -> where its proxy goroutine is
  owner,         \* connection -> the worker that accepted it
  halves,        \* connection -> the copyStream goroutines still running
  ends           \* the ends of connections that are open

slots == << globalSlots, routeSlots >>
stops == << stopped, cancelled, stopping >>
conns == << proxy, owner, halves >>
vars == << serve, hand, listening, stops, tracked, slots, conns, ends >>

Client(c) == << c, "client" >>
Backend(c) == << c, "backend" >>
Ends == Conns \X {"client", "backend"}

Serving == {"accept", "authorize", "global", "route", "track", "routeBack", "globalBack", "refuse"}
Proxying == {"dial", "dialed", "copy", "closeBackend", "closeClient", "routeBack", "globalBack"}

TypeOK ==
  /\ serve \in [Workers -> Serving \cup {"exited"}]
  /\ hand \in [Workers -> Conns \cup {None}]
  /\ listening \in [Workers -> BOOLEAN]
  /\ stopped \in [Workers -> BOOLEAN]
  /\ cancelled \in [Workers -> BOOLEAN]
  /\ tracked \in [Workers -> SUBSET Ends]
  /\ stopping \in [Workers -> {"no", "flagged", "cancelled", "unbound", "begun", "finished"}]
  /\ globalSlots \in 0 .. GlobalLimit
  /\ routeSlots \in [Workers -> 0 .. RouteLimit]
  /\ proxy \in [Conns -> Proxying \cup {"none", "done"}]
  /\ owner \in [Conns -> Workers \cup {None}]
  /\ halves \in [Conns -> SUBSET {"inbound", "outbound"}]
  /\ ends \subseteq Ends

Init ==
  /\ serve = [w \in Workers |-> "accept"]
  /\ hand = [w \in Workers |-> None]
  /\ listening = [w \in Workers |-> TRUE]
  /\ stopped = [w \in Workers |-> FALSE]
  /\ cancelled = [w \in Workers |-> FALSE]
  /\ tracked = [w \in Workers |-> {}]
  /\ stopping = [w \in Workers |-> "no"]
  /\ globalSlots = 0
  /\ routeSlots = [w \in Workers |-> 0]
  /\ proxy = [c \in Conns |-> "none"]
  /\ owner = [c \in Conns |-> None]
  /\ halves = [c \in Conns |-> {}]
  /\ ends = {}

-----------------------------------------------------------------------------
(* The accept loop.                                                        *)

ServeAt(w, from, to) ==
  /\ serve[w] = from
  /\ serve' = [serve EXCEPT ![w] = to]

Accept(w, c) ==
  /\ ServeAt(w, "accept", "authorize")
  /\ listening[w]
  /\ Target[c] = w
  /\ owner[c] = None
  /\ owner' = [owner EXCEPT ![c] = w]
  /\ hand' = [hand EXCEPT ![w] = c]
  /\ ends' = ends \cup {Client(c)}
  /\ UNCHANGED << listening, stops, tracked, slots, proxy, halves >>

(* Any error of Accept ends the loop, and closes nothing. *)
AcceptFails(w) ==
  /\ ServeAt(w, "accept", "exited")
  /\ UNCHANGED << hand, listening, stops, tracked, slots, conns, ends >>

(* The Manager reads the route again: it may have changed, or be unreadable. *)
Authorize(w) ==
  /\ \/ ServeAt(w, "authorize", "global")
     \/ ServeAt(w, "authorize", "refuse")
  /\ UNCHANGED << hand, listening, stops, tracked, slots, conns, ends >>

TakeGlobalSlot(w) ==
  /\ \/ /\ globalSlots < GlobalLimit
        /\ globalSlots' = globalSlots + 1
        /\ ServeAt(w, "global", "route")
     \/ /\ globalSlots = GlobalLimit
        /\ ServeAt(w, "global", "refuse")
        /\ UNCHANGED globalSlots
  /\ UNCHANGED << hand, listening, stops, tracked, routeSlots, conns, ends >>

TakeRouteSlot(w) ==
  /\ \/ /\ routeSlots[w] < RouteLimit
        /\ routeSlots' = [routeSlots EXCEPT ![w] = @ + 1]
        /\ ServeAt(w, "route", "track")
     \/ /\ routeSlots[w] = RouteLimit
        /\ ServeAt(w, "route", "globalBack")
        /\ UNCHANGED routeSlots
  /\ UNCHANGED << hand, listening, stops, tracked, globalSlots, conns, ends >>

(* Mutant: stopped is not looked at. *)
TrackRegardless(w) ==
  LET c == hand[w] IN
  /\ ServeAt(w, "track", "accept")
  /\ tracked' = [tracked EXCEPT ![w] = @ \cup {Client(c)}]
  /\ proxy' = [proxy EXCEPT ![c] = "dial"]
  /\ hand' = [hand EXCEPT ![w] = None]
  /\ UNCHANGED << listening, stops, slots, owner, halves, ends >>

(* track, and the start of the proxy goroutine. *)
Track(w) ==
  LET c == hand[w] IN
  /\ ~stopped[w]
  /\ ServeAt(w, "track", "accept")
  /\ tracked' = [tracked EXCEPT ![w] = @ \cup {Client(c)}]
  /\ proxy' = [proxy EXCEPT ![c] = "dial"]
  /\ hand' = [hand EXCEPT ![w] = None]
  /\ UNCHANGED << listening, stops, slots, owner, halves, ends >>

(* Mutant: a refused connection keeps its slots. *)
TrackRefusedKeepsSlots(w) ==
  /\ stopped[w]
  /\ ServeAt(w, "track", "refuse")
  /\ UNCHANGED << hand, listening, stops, tracked, slots, conns, ends >>

TrackRefused(w) ==
  /\ stopped[w]
  /\ ServeAt(w, "track", "routeBack")
  /\ UNCHANGED << hand, listening, stops, tracked, slots, conns, ends >>

(* releaseSlot gives the route's slot back first. *)
ServeGivesRouteSlotBack(w) ==
  /\ ServeAt(w, "routeBack", "globalBack")
  /\ routeSlots' = [routeSlots EXCEPT ![w] = @ - 1]
  /\ UNCHANGED << hand, listening, stops, tracked, globalSlots, conns, ends >>

ServeGivesGlobalSlotBack(w) ==
  /\ ServeAt(w, "globalBack", "refuse")
  /\ globalSlots' = globalSlots - 1
  /\ UNCHANGED << hand, listening, stops, tracked, routeSlots, conns, ends >>

Refuse(w) ==
  /\ ServeAt(w, "refuse", "accept")
  /\ ends' = ends \ {Client(hand[w])}
  /\ hand' = [hand EXCEPT ![w] = None]
  /\ UNCHANGED << listening, stops, tracked, slots, conns >>

Serve(w) ==
  \/ Authorize(w) \/ TakeGlobalSlot(w) \/ TakeRouteSlot(w)
  \/ Track(w) \/ TrackRefused(w)
  \/ ServeGivesRouteSlotBack(w) \/ ServeGivesGlobalSlotBack(w) \/ Refuse(w)

-----------------------------------------------------------------------------
(* A proxy goroutine. Its deferred calls run in the reverse of the order   *)
(* the code lists them in.                                                 *)

ProxyAt(c, from, to) ==
  /\ proxy[c] = from
  /\ proxy' = [proxy EXCEPT ![c] = to]

(* A dial that completed before the context was cancelled has succeeded. *)
Dial(c) ==
  /\ \/ /\ ProxyAt(c, "dial", "dialed")
        /\ ~cancelled[owner[c]]
        /\ ends' = ends \cup {Backend(c)}
     \/ ProxyAt(c, "dial", "closeClient") /\ UNCHANGED ends
  /\ UNCHANGED << serve, hand, listening, stops, tracked, slots, owner, halves >>

(* Mutant: stopped is not looked at. *)
TrackBackendRegardless(c) ==
  /\ ProxyAt(c, "dialed", "copy")
  /\ tracked' = [tracked EXCEPT ![owner[c]] = @ \cup {Backend(c)}]
  /\ halves' = [halves EXCEPT ![c] = {"inbound", "outbound"}]
  /\ UNCHANGED << serve, hand, listening, stops, slots, owner, ends >>

TrackBackend(c) ==
  LET w == owner[c] IN
  /\ \/ /\ ProxyAt(c, "dialed", "copy")
        /\ ~stopped[w]
        /\ tracked' = [tracked EXCEPT ![w] = @ \cup {Backend(c)}]
        /\ halves' = [halves EXCEPT ![c] = {"inbound", "outbound"}]
        /\ UNCHANGED ends
     \/ /\ ProxyAt(c, "dialed", "closeClient")
        /\ stopped[w]
        /\ ends' = ends \ {Backend(c)}
        /\ UNCHANGED << tracked, halves >>
  /\ UNCHANGED << serve, hand, listening, stops, slots, owner >>

Source(c, half) == IF half = "inbound" THEN Client(c) ELSE Backend(c)

(* A copy ends with its source: at its end of file, or when it is closed. *)
CopyEnds(c, half) ==
  /\ half \in halves[c]
  /\ halves' = [halves EXCEPT ![c] = @ \ {half}]
  /\ UNCHANGED << serve, hand, listening, stops, tracked, slots, proxy, owner, ends >>

CopiesDone(c) ==
  /\ halves[c] = {}
  /\ ProxyAt(c, "copy", "closeBackend")
  /\ UNCHANGED << serve, hand, listening, stops, tracked, slots, owner, halves, ends >>

CloseEnd(c, end) ==
  /\ ends' = ends \ {end}
  /\ tracked' = [tracked EXCEPT ![owner[c]] = @ \ {end}]
  /\ UNCHANGED << serve, hand, listening, stops, slots, owner, halves >>

CloseBackend(c) == ProxyAt(c, "closeBackend", "closeClient") /\ CloseEnd(c, Backend(c))
CloseClient(c) == ProxyAt(c, "closeClient", "routeBack") /\ CloseEnd(c, Client(c))

GiveRouteSlotBack(c) ==
  /\ ProxyAt(c, "routeBack", "globalBack")
  /\ routeSlots' = [routeSlots EXCEPT ![owner[c]] = @ - 1]
  /\ UNCHANGED << serve, hand, listening, stops, tracked, globalSlots, owner, halves, ends >>

GiveGlobalSlotBack(c) ==
  /\ ProxyAt(c, "globalBack", "done")
  /\ globalSlots' = globalSlots - 1
  /\ UNCHANGED << serve, hand, listening, stops, tracked, routeSlots, owner, halves, ends >>

Proxy(c) ==
  \/ Dial(c) \/ TrackBackend(c) \/ CopiesDone(c) \/ CloseBackend(c) \/ CloseClient(c)
  \/ GiveRouteSlotBack(c) \/ GiveGlobalSlotBack(c)

-----------------------------------------------------------------------------
(* beginStop, in the order of its calls, and finishStop.                   *)

StopAt(w, from, to) ==
  /\ stopping[w] = from
  /\ stopping' = [stopping EXCEPT ![w] = to]

FlagStopped(w) ==
  /\ StopAt(w, "no", "flagged")
  /\ stopped' = [stopped EXCEPT ![w] = TRUE]
  /\ UNCHANGED << serve, hand, listening, cancelled, tracked, slots, conns, ends >>

CancelContext(w) ==
  /\ StopAt(w, "flagged", "cancelled")
  /\ cancelled' = [cancelled EXCEPT ![w] = TRUE]
  /\ UNCHANGED << serve, hand, listening, stopped, tracked, slots, conns, ends >>

CloseListener(w) ==
  /\ StopAt(w, "cancelled", "unbound")
  /\ listening' = [listening EXCEPT ![w] = FALSE]
  /\ UNCHANGED << serve, hand, stopped, cancelled, tracked, slots, conns, ends >>

CloseActive(w) ==
  /\ StopAt(w, "unbound", "begun")
  /\ ends' = ends \ tracked[w]
  /\ UNCHANGED << serve, hand, listening, stopped, cancelled, tracked, slots, conns >>

Running(w) == {c \in Conns : owner[c] = w /\ proxy[c] \in Proxying}

(* Mutant: the WaitGroup counts the accept loop alone. *)
FinishStopAlone(w) ==
  /\ serve[w] = "exited"
  /\ StopAt(w, "begun", "finished")
  /\ UNCHANGED << serve, hand, listening, stopped, cancelled, tracked, slots, conns, ends >>

(* The WaitGroup counts the accept loop and the proxies. *)
FinishStop(w) ==
  /\ serve[w] = "exited"
  /\ Running(w) = {}
  /\ StopAt(w, "begun", "finished")
  /\ UNCHANGED << serve, hand, listening, stopped, cancelled, tracked, slots, conns, ends >>

Stop(w) == CancelContext(w) \/ CloseListener(w) \/ CloseActive(w) \/ FinishStop(w)

Next ==
  \/ \E w \in Workers :
       \/ \E c \in Conns : Accept(w, c)
       \/ Serve(w) \/ AcceptFails(w) \/ FlagStopped(w) \/ Stop(w)
  \/ \E c \in Conns :
       \/ Proxy(c)
       \/ \E half \in {"inbound", "outbound"} : CopyEnds(c, half)

Spec == Init /\ [][Next]_vars

(* Goroutines keep running and calls return, Accept once the listener is   *)
(* closed; nobody need connect, fail or say anything.                      *)
AcceptOnClosed(w) == ~listening[w] /\ AcceptFails(w)
CopyOfClosedEnds(c, half) == Source(c, half) \notin ends /\ CopyEnds(c, half)

Fairness ==
  /\ \A w \in Workers : WF_vars(Serve(w)) /\ WF_vars(AcceptOnClosed(w)) /\ WF_vars(Stop(w))
  /\ \A c \in Conns : WF_vars(Proxy(c))
  /\ \A c \in Conns, half \in {"inbound", "outbound"} : WF_vars(CopyOfClosedEnds(c, half))

FairSpec == Spec /\ Fairness

-----------------------------------------------------------------------------
RouteHolders(w) ==
  {c \in Conns : owner[c] = w /\ proxy[c] \in Proxying \ {"globalBack"}}
    \cup (IF serve[w] \in {"track", "routeBack"} THEN {hand[w]} ELSE {})

GlobalHolders ==
  {c \in Conns : proxy[c] \in Proxying}
    \cup {hand[w] : w \in {v \in Workers : serve[v] \in {"route", "track", "routeBack", "globalBack"}}}

(* A slot is taken for every connection on its way in or out, and for no   *)
(* other, whichever of the refusals of the accept loop or ends of a proxy  *)
(* gave its slots back (acquireSlot, releaseSlot).                         *)
SlotsBalanced ==
  /\ globalSlots = Cardinality(GlobalHolders)
  /\ \A w \in Workers : routeSlots[w] = Cardinality(RouteHolders(w))

(* Once beginStop has returned no connection is being copied with an open  *)
(* end, however its accept or its dial raced with the stop (track).        *)
BegunClosesCopies ==
  \A c \in Conns :
    owner[c] # None /\ proxy[c] = "copy" /\ stopping[owner[c]] = "begun"
      => Client(c) \notin ends /\ Backend(c) \notin ends

(* Once finishStop has returned the worker holds no connection, no slot    *)
(* and no entry of its active set.                                         *)
StoppedIsQuiet ==
  \A w \in Workers : stopping[w] = "finished" =>
    /\ \A c \in Conns : owner[c] = w => {Client(c), Backend(c)} \cap ends = {}
    /\ tracked[w] = {}
    /\ routeSlots[w] = 0

(* Nothing leaks, in any of the three ways: slots while connections come   *)
(* and go, connections from a stop, or either after it.                    *)
NothingLeaks == SlotsBalanced /\ BegunClosesCopies /\ StoppedIsQuiet

(* Every stop ends: the Manager's reconcile, which waits in finishStop,    *)
(* is not held up by peers that keep their connections open or by a dial.  *)
(* A worker is stopped once, so that this is to be at rest for ever again. *)
StopTerminates == []<>(\A w \in Workers : stopping[w] \in {"no", "finished"})

(* A TCP worker is a streamWorker as the Manager takes it.                 *)
Worker ==
  INSTANCE StreamWorker WITH
    Sessions <- Conns,
    phase <- [w \in Workers |->
                IF stopping[w] = "finished" THEN "stopped"
                ELSE IF stopping[w] = "no"
                  THEN IF serve[w] = "exited" THEN "dead" ELSE "serving"
                  ELSE IF serve[w] = "exited" THEN "draining" ELSE "stopping"],
    open <- [w \in Workers |->
               {c \in Conns : owner[c] = w /\ proxy[c] \in Proxying \ {"globalBack"}}]

ImplementsStreamWorker == Worker!WorkerSpec
=============================================================================

----------------------------- MODULE TcpProofs ------------------------------
(***************************************************************************)
(* Proofs about TcpWorker for any workers, connections and limits.         *)
(*                                                                         *)
(* Argument. Where a connection's goroutine is tells which slots it has    *)
(* taken, which ends are open and who will close them: HoldsGlobal and     *)
(* HoldsRoute count the slots, EndsKnown names who closes an end, StopsHold*)
(* says what each part of a stop has achieved.                             *)
(***************************************************************************)
EXTENDS TcpWorker, FiniteSetTheorems, TLAPS

USE NoneAssumption, LimitsAssumption

(* Where the proxy has its client's end tracked, and its backend's.        *)
Carrying == {"dial", "dialed", "copy", "closeBackend", "closeClient"}
Copying == {"copy", "closeBackend"}

(* The accept loop holds a connection of its own that has no proxy yet.    *)
HandsHeld ==
  /\ \A w \in Workers :
       serve[w] \notin {"accept", "exited"} =>
         hand[w] \in Conns /\ owner[hand[w]] = w /\ proxy[hand[w]] = "none"
  /\ \A c \in Conns : proxy[c] # "none" => owner[c] \in Workers

InHand(c, at) == owner[c] \in Workers /\ hand[owner[c]] = c /\ serve[owner[c]] \in at

(* Who has taken a slot, connection by connection.                         *)
HoldsGlobal(c) ==
  proxy[c] \in Proxying \/ InHand(c, {"route", "track", "routeBack", "globalBack"})
HoldsRoute(c) ==
  proxy[c] \in Proxying \ {"globalBack"} \/ InHand(c, {"track", "routeBack"})

TcpSlots ==
  /\ IsFiniteSet(GlobalHolders)
  /\ globalSlots = Cardinality(GlobalHolders)
  /\ \A w \in Workers :
       /\ IsFiniteSet(RouteHolders(w))
       /\ routeSlots[w] = Cardinality(RouteHolders(w))

(* An end that is open, or tracked, is somebody's to close.                *)
EndsKnown ==
  \A c \in Conns :
    /\ Client(c) \in ends =>
         proxy[c] \in Carrying \/ InHand(c, Serving \ {"accept"})
    /\ Backend(c) \in ends => proxy[c] \in Copying \cup {"dialed"}
    /\ \A w \in Workers :
         /\ Client(c) \in tracked[w] <=> owner[c] = w /\ proxy[c] \in Carrying
         /\ Backend(c) \in tracked[w] <=> owner[c] = w /\ proxy[c] \in Copying

(* What the steps of a stop have achieved.                                 *)
StopsHold ==
  \A w \in Workers :
    /\ stopped[w] <=> stopping[w] # "no"
    /\ cancelled[w] <=> stopping[w] \notin {"no", "flagged"}
    /\ stopping[w] \in {"begun", "finished"} =>
         \A c \in Conns :
           owner[c] = w /\ proxy[c] \in Copying => Client(c) \notin ends /\ Backend(c) \notin ends
    /\ stopping[w] = "finished" =>
         serve[w] = "exited" /\ \A c \in Conns : owner[c] = w => proxy[c] \notin Proxying

TcpInv == TypeOK /\ HandsHeld /\ TcpSlots /\ EndsKnown /\ StopsHold

(* The two ends of a connection, and those of others, are all different.   *)
LEMMA EndsApart ==
  /\ \A c, d \in Conns : /\ Client(c) = Client(d) => c = d
                         /\ Backend(c) = Backend(d) => c = d
                         /\ Client(c) # Backend(d)
  /\ \A c \in Conns : Client(c) \in Ends /\ Backend(c) \in Ends
  /\ \A e \in Ends : \E c \in Conns : e = Client(c) \/ e = Backend(c)
BY DEF Client, Backend, Ends

(* The holders of slots are the connections that hold them.                *)
HoldersMatch ==
  /\ GlobalHolders = {c \in Conns : HoldsGlobal(c)}
  /\ \A w \in Workers : RouteHolders(w) = {c \in Conns : owner[c] = w /\ HoldsRoute(c)}

(* The model counts a connection of the accept loop by its worker.          *)
LEMMA HoldersAre == HandsHeld => HoldersMatch
<1>. SUFFICES ASSUME HandsHeld PROVE HoldersMatch
  OBVIOUS
<1>. DEFINE held == {"route", "track", "routeBack", "globalBack"}
<1>1. GlobalHolders = {c \in Conns : HoldsGlobal(c)}
  <2>1. ASSUME NEW c \in GlobalHolders
        PROVE  c \in Conns /\ HoldsGlobal(c)
    <3>1. CASE \E w \in Workers : serve[w] \in held /\ c = hand[w]
      <4>1. PICK w \in Workers : serve[w] \in held /\ c = hand[w]
        BY <3>1
      <4>2. c \in Conns /\ owner[c] = w
        BY <4>1 DEF HandsHeld
      <4>. QED  BY <4>1, <4>2 DEF HoldsGlobal, InHand
    <3>. QED  BY <2>1, <3>1 DEF GlobalHolders, HoldsGlobal
  <2>2. ASSUME NEW c \in Conns, HoldsGlobal(c)
        PROVE  c \in GlobalHolders
    BY <2>2 DEF GlobalHolders, HoldsGlobal, InHand
  <2>. QED  BY <2>1, <2>2
<1>2. ASSUME NEW w \in Workers
      PROVE  RouteHolders(w) = {c \in Conns : owner[c] = w /\ HoldsRoute(c)}
  <2>1. ASSUME NEW c \in RouteHolders(w)
        PROVE  c \in Conns /\ owner[c] = w /\ HoldsRoute(c)
    BY <2>1 DEF RouteHolders, HoldsRoute, InHand, HandsHeld
  <2>2. ASSUME NEW c \in Conns, owner[c] = w, HoldsRoute(c)
        PROVE  c \in RouteHolders(w)
    BY <2>2 DEF RouteHolders, HoldsRoute, InHand
  <2>. QED  BY <2>1, <2>2
<1>. QED  BY <1>1, <1>2 DEF HoldersMatch

(* A count follows its set when one element comes or goes.                 *)
LEMMA CountFollows ==
  ASSUME NEW S, NEW T, NEW x, NEW n, NEW m, IsFiniteSet(S), n = Cardinality(S),
         \/ T = S /\ m = n
         \/ x \notin S /\ T = S \cup {x} /\ m = n + 1
         \/ x \in S /\ T = S \ {x} /\ m = n - 1
  PROVE  IsFiniteSet(T) /\ m = Cardinality(T) /\ m \in Nat
<1>1. IsFiniteSet(T) /\ m = Cardinality(T)
  <2>1. CASE x \notin S /\ T = S \cup {x} /\ m = n + 1
    BY <2>1, FS_AddElement
  <2>2. CASE x \in S /\ T = S \ {x} /\ m = n - 1
    BY <2>2, FS_RemoveElement
  <2>. QED  BY <2>1, <2>2
<1>2. Cardinality(T) \in Nat
  BY <1>1, FS_CardinalityType
<1>. QED  BY <1>1, <1>2

(* So every count of slots follows what one connection takes or gives back. *)
LEMMA TcpSlotsFollow ==
  ASSUME HandsHeld, HandsHeld', TcpSlots, NEW c \in Conns,
         \A d \in Conns \ {c} : /\ HoldsGlobal(d)' <=> HoldsGlobal(d)
                                /\ HoldsRoute(d)' <=> HoldsRoute(d)
                                /\ owner'[d] = owner[d],
         \/ (HoldsGlobal(c)' <=> HoldsGlobal(c)) /\ globalSlots' = globalSlots
         \/ HoldsGlobal(c)' /\ ~HoldsGlobal(c) /\ globalSlots' = globalSlots + 1
         \/ ~HoldsGlobal(c)' /\ HoldsGlobal(c) /\ globalSlots' = globalSlots - 1,
         HoldsRoute(c) \/ HoldsRoute(c)' => owner'[c] = owner[c],
         \A w \in Workers :
           \/ (HoldsRoute(c)' <=> HoldsRoute(c)) /\ routeSlots'[w] = routeSlots[w]
           \/ owner[c] # w /\ routeSlots'[w] = routeSlots[w]
           \/ owner[c] = w /\ HoldsRoute(c)' /\ ~HoldsRoute(c) /\ routeSlots'[w] = routeSlots[w] + 1
           \/ owner[c] = w /\ ~HoldsRoute(c)' /\ HoldsRoute(c) /\ routeSlots'[w] = routeSlots[w] - 1
  PROVE  /\ TcpSlots'
         /\ globalSlots' \in Nat
         /\ \A w \in Workers : routeSlots'[w] \in Nat
<1>1. HoldersMatch
  BY HoldersAre
<1>2. HoldersMatch'
  BY HoldersAre, PTL
<1>4. /\ IsFiniteSet(GlobalHolders')
      /\ globalSlots' = Cardinality(GlobalHolders')
      /\ globalSlots' \in Nat
  <2>1. \/ GlobalHolders' = GlobalHolders /\ globalSlots' = globalSlots
        \/ /\ c \notin GlobalHolders /\ globalSlots' = globalSlots + 1
           /\ GlobalHolders' = GlobalHolders \cup {c}
        \/ /\ c \in GlobalHolders /\ globalSlots' = globalSlots - 1
           /\ GlobalHolders' = GlobalHolders \ {c}
    BY <1>1, <1>2 DEF HoldersMatch
  <2>2. IsFiniteSet(GlobalHolders) /\ globalSlots = Cardinality(GlobalHolders)
    BY DEF TcpSlots
  <2>3. PICK T, m : T = GlobalHolders' /\ m = globalSlots'
    OBVIOUS
  <2>4. IsFiniteSet(T) /\ m = Cardinality(T) /\ m \in Nat
    BY <2>1, <2>2, <2>3, CountFollows
  <2>. QED  BY <2>3, <2>4
<1>5. ASSUME NEW w \in Workers
      PROVE  /\ IsFiniteSet(RouteHolders(w)')
             /\ routeSlots'[w] = Cardinality(RouteHolders(w)')
             /\ routeSlots'[w] \in Nat
  <2>0. /\ RouteHolders(w) = {d \in Conns : owner[d] = w /\ HoldsRoute(d)}
        /\ RouteHolders(w)' = {d \in Conns : owner'[d] = w /\ HoldsRoute(d)'}
    BY <1>1, <1>2 DEF HoldersMatch
  <2>1. \/ RouteHolders(w)' = RouteHolders(w) /\ routeSlots'[w] = routeSlots[w]
        \/ /\ c \notin RouteHolders(w)
           /\ RouteHolders(w)' = RouteHolders(w) \cup {c} /\ routeSlots'[w] = routeSlots[w] + 1
        \/ /\ c \in RouteHolders(w)
           /\ RouteHolders(w)' = RouteHolders(w) \ {c} /\ routeSlots'[w] = routeSlots[w] - 1
    BY <2>0
  <2>2. IsFiniteSet(RouteHolders(w)) /\ routeSlots[w] = Cardinality(RouteHolders(w))
    BY DEF TcpSlots
  <2>3. PICK S, T, n, m : /\ S = RouteHolders(w) /\ n = routeSlots[w]
                          /\ T = RouteHolders(w)' /\ m = routeSlots'[w]
    OBVIOUS
  <2>4. /\ IsFiniteSet(S) /\ n = Cardinality(S)
        /\ \/ T = S /\ m = n
           \/ c \notin S /\ T = S \cup {c} /\ m = n + 1
           \/ c \in S /\ T = S \ {c} /\ m = n - 1
    BY <2>1, <2>2, <2>3
  <2>5. IsFiniteSet(T) /\ m = Cardinality(T) /\ m \in Nat
    BY ONLY <2>4, CountFollows
  <2>. QED  BY <2>3, <2>5
<1>. QED  BY <1>4, <1>5 DEF TcpSlots

(* And none changes while every connection holds what it held.             *)
LEMMA TcpSlotsStay ==
  ASSUME HandsHeld, HandsHeld', TcpSlots, UNCHANGED slots,
         \A c \in Conns : /\ HoldsGlobal(c)' <=> HoldsGlobal(c)
                          /\ HoldsRoute(c)' <=> HoldsRoute(c)
                          /\ HoldsRoute(c) => owner'[c] = owner[c]
  PROVE  TcpSlots'
<1>1. HoldersMatch
  BY HoldersAre
<1>2. HoldersMatch'
  BY HoldersAre, PTL
<1>3. GlobalHolders' = GlobalHolders
  BY <1>1, <1>2 DEF HoldersMatch
<1>4. ASSUME NEW w \in Workers
      PROVE  RouteHolders(w)' = RouteHolders(w)
  BY <1>1, <1>2 DEF HoldersMatch
<1>. QED  BY <1>3, <1>4 DEF TcpSlots, slots

(* Whatever the accept loop does with the connection it holds.             *)
LEMMA TcpServeKeeps ==
  ASSUME TcpInv, NEW w \in Workers, Serve(w)
  PROVE  TcpInv'
<1>1. /\ TypeOK /\ HandsHeld /\ TcpSlots /\ EndsKnown /\ StopsHold
      /\ serve[w] \in Serving \ {"accept"}
      /\ hand[w] \in Conns /\ owner[hand[w]] = w /\ proxy[hand[w]] = "none"
  BY DEF TcpInv, Serve, Authorize, TakeGlobalSlot, TakeRouteSlot, Track,
    TrackRefused, ServeGivesRouteSlotBack, ServeGivesGlobalSlotBack, Refuse,
    ServeAt, HandsHeld, Serving
<1>2. HandsHeld'
  BY DEF TcpInv, TypeOK, Serve, Authorize, TakeGlobalSlot, TakeRouteSlot,
    Track, TrackRefused, ServeGivesRouteSlotBack, ServeGivesGlobalSlotBack,
    Refuse, ServeAt, slots, stops, conns, HandsHeld, Serving, Proxying
<1>3. EndsKnown'
  <2>1. CASE Track(w) \/ Refuse(w)
    BY <1>1, <2>1, EndsApart DEF TypeOK, Track, Refuse, ServeAt, slots, stops, conns,
      HandsHeld, Serving, Proxying, EndsKnown, InHand, Carrying, Copying
  <2>2. CASE \/ Authorize(w) \/ TakeGlobalSlot(w) \/ TakeRouteSlot(w) \/ TrackRefused(w)
             \/ ServeGivesRouteSlotBack(w) \/ ServeGivesGlobalSlotBack(w)
    BY <1>1, <2>2 DEF TypeOK, Authorize, TakeGlobalSlot, TakeRouteSlot, TrackRefused,
      ServeGivesRouteSlotBack, ServeGivesGlobalSlotBack, ServeAt, stops, conns,
      HandsHeld, Serving, EndsKnown, InHand
  <2>. QED  BY <2>1, <2>2 DEF Serve
<1>4. StopsHold'
  BY EndsApart DEF TcpInv, TypeOK, Serve, Authorize, TakeGlobalSlot,
    TakeRouteSlot, Track, TrackRefused, ServeGivesRouteSlotBack,
    ServeGivesGlobalSlotBack, Refuse, ServeAt, slots, stops, conns,
    HandsHeld, Serving, Proxying, StopsHold, Carrying, Copying
<1>c. PICK c \in Conns : c = hand[w] /\ owner[c] = w /\ proxy[c] = "none"
  BY <1>1
<1>5. TcpSlots' /\ globalSlots' \in Nat /\ \A v \in Workers : routeSlots'[v] \in Nat
  <2>1. \A d \in Conns \ {c} : /\ HoldsGlobal(d)' <=> HoldsGlobal(d)
                               /\ HoldsRoute(d)' <=> HoldsRoute(d)
                               /\ owner'[d] = owner[d]
    BY <1>1, <1>c DEF TypeOK, Serve, Authorize, TakeGlobalSlot, TakeRouteSlot,
      Track, TrackRefused, ServeGivesRouteSlotBack, ServeGivesGlobalSlotBack,
      Refuse, ServeAt, slots, stops, conns, Serving, Proxying,
      HoldsGlobal, HoldsRoute, InHand
  <2>2. /\ owner'[c] = owner[c]
        /\ \/ (HoldsGlobal(c)' <=> HoldsGlobal(c)) /\ globalSlots' = globalSlots
           \/ HoldsGlobal(c)' /\ ~HoldsGlobal(c) /\ globalSlots' = globalSlots + 1
           \/ ~HoldsGlobal(c)' /\ HoldsGlobal(c) /\ globalSlots' = globalSlots - 1
    BY <1>1, <1>c DEF TypeOK, Serve, Authorize, TakeGlobalSlot, TakeRouteSlot,
      Track, TrackRefused, ServeGivesRouteSlotBack, ServeGivesGlobalSlotBack,
      Refuse, ServeAt, slots, stops, conns, Serving, Proxying,
      HoldsGlobal, HoldsRoute, InHand
  <2>3. ASSUME NEW v \in Workers
        PROVE  \/ (HoldsRoute(c)' <=> HoldsRoute(c)) /\ routeSlots'[v] = routeSlots[v]
               \/ owner[c] # v /\ routeSlots'[v] = routeSlots[v]
               \/ owner[c] = v /\ HoldsRoute(c)' /\ ~HoldsRoute(c) /\ routeSlots'[v] = routeSlots[v] + 1
               \/ owner[c] = v /\ ~HoldsRoute(c)' /\ HoldsRoute(c) /\ routeSlots'[v] = routeSlots[v] - 1
    <3>1. CASE TakeRouteSlot(w) \/ ServeGivesRouteSlotBack(w)
      BY <1>1, <1>c, <3>1 DEF TypeOK, TakeRouteSlot, ServeGivesRouteSlotBack, ServeAt, stops, conns,
        Serving, Proxying, HoldsRoute, InHand
    <3>2. CASE ~(TakeRouteSlot(w) \/ ServeGivesRouteSlotBack(w))
      <4>1. routeSlots' = routeSlots
        BY <3>2, Zenon DEF Serve, Authorize, TakeGlobalSlot, Track, TrackRefused,
          ServeGivesGlobalSlotBack, Refuse, slots
      <4>2. HoldsRoute(c)' <=> HoldsRoute(c)
        BY <1>1, <1>c, <3>2 DEF TypeOK, Serve, Authorize, TakeGlobalSlot, Track, TrackRefused,
          ServeGivesGlobalSlotBack, Refuse, ServeAt, stops, conns, Serving, Proxying, HoldsRoute, InHand
      <4>. QED  BY <4>1, <4>2
    <3>. QED  BY <3>1, <3>2
  <2>. QED  BY <1>1, <1>2, <2>1, <2>2, <2>3, TcpSlotsFollow
<1>6. TypeOK'
  <2>1. CASE Track(w)
    BY <1>1, <2>1, EndsApart DEF TypeOK, Track, ServeAt, slots, stops, Serving, Proxying
  <2>5. CASE Refuse(w)
    BY <1>1, <2>5 DEF TypeOK, Refuse, ServeAt, slots, stops, conns, Serving
  <2>2. CASE Authorize(w) \/ TrackRefused(w)
    BY <1>1, <2>2 DEF TypeOK, Authorize, TrackRefused, ServeAt, slots,
      stops, conns, Serving
  <2>3. CASE TakeGlobalSlot(w) \/ ServeGivesGlobalSlotBack(w)
    BY <1>1, <1>5, <2>3 DEF TypeOK, TakeGlobalSlot, ServeGivesGlobalSlotBack,
      ServeAt, stops, conns, Serving
  <2>4. CASE TakeRouteSlot(w) \/ ServeGivesRouteSlotBack(w)
    BY <1>1, <1>5, <2>4 DEF TypeOK, TakeRouteSlot, ServeGivesRouteSlotBack, ServeAt,
      stops, conns, Serving
  <2>. QED  BY <2>1, <2>5, <2>2, <2>3, <2>4 DEF Serve
<1>. QED  BY <1>2, <1>3, <1>4, <1>5, <1>6 DEF TcpInv

(* Whatever a proxy goroutine does.                                        *)
LEMMA TcpProxyKeeps ==
  ASSUME TcpInv, NEW c \in Conns, Proxy(c)
  PROVE  TcpInv'
<1>1. /\ TypeOK /\ HandsHeld /\ TcpSlots /\ EndsKnown /\ StopsHold
      /\ proxy[c] \in Proxying /\ owner[c] \in Workers
  BY DEF TcpInv, Proxy, Dial, TrackBackend, CopiesDone, CloseBackend,
    CloseClient, GiveRouteSlotBack, GiveGlobalSlotBack, ProxyAt, HandsHeld,
    Proxying
<1>2. HandsHeld'
  BY DEF TcpInv, TypeOK, Proxy, Dial, TrackBackend, CopiesDone,
    CloseBackend, CloseClient, GiveRouteSlotBack, GiveGlobalSlotBack, ProxyAt,
    CloseEnd, slots, stops, conns, HandsHeld, Proxying
<1>3. EndsKnown'
  <2>1. CASE TrackBackend(c)
    BY <1>1, <2>1, EndsApart DEF TypeOK, TrackBackend, ProxyAt, slots, stops, conns,
      HandsHeld, Serving, Proxying, EndsKnown, InHand, Carrying, Copying
  <2>3. CASE CloseBackend(c) \/ CloseClient(c)
    BY <1>1, <2>3, EndsApart DEF TypeOK, CloseBackend, CloseClient, ProxyAt, CloseEnd,
      slots, stops, conns, HandsHeld, Serving, Proxying, EndsKnown, InHand, Carrying, Copying
  <2>2. CASE Dial(c) \/ CopiesDone(c) \/ GiveRouteSlotBack(c) \/ GiveGlobalSlotBack(c)
    BY <1>1, <2>2, EndsApart DEF TypeOK, Dial, CopiesDone, GiveRouteSlotBack,
      GiveGlobalSlotBack, ProxyAt, slots, stops, conns, HandsHeld, Serving, Proxying,
      EndsKnown, InHand, Carrying, Copying
  <2>. QED  BY <2>1, <2>2, <2>3 DEF Proxy
<1>4. StopsHold'
  BY EndsApart DEF TcpInv, TypeOK, Proxy, Dial, TrackBackend, CopiesDone,
    CloseBackend, CloseClient, GiveRouteSlotBack, GiveGlobalSlotBack, ProxyAt,
    CloseEnd, slots, stops, conns, HandsHeld, Serving, Proxying,
    StopsHold, Carrying, Copying
<1>5. TcpSlots' /\ globalSlots' \in Nat /\ \A v \in Workers : routeSlots'[v] \in Nat
  <2>1. \A d \in Conns \ {c} : /\ HoldsGlobal(d)' <=> HoldsGlobal(d)
                               /\ HoldsRoute(d)' <=> HoldsRoute(d)
                               /\ owner'[d] = owner[d]
    BY <1>1 DEF TypeOK, Proxy, Dial, TrackBackend, CopiesDone,
      CloseBackend, CloseClient, GiveRouteSlotBack, GiveGlobalSlotBack,
      ProxyAt, CloseEnd, slots, stops, conns, Proxying, HoldsGlobal,
      HoldsRoute, InHand
  <2>2. /\ owner'[c] = owner[c]
        /\ \/ (HoldsGlobal(c)' <=> HoldsGlobal(c)) /\ globalSlots' = globalSlots
           \/ HoldsGlobal(c)' /\ ~HoldsGlobal(c) /\ globalSlots' = globalSlots + 1
           \/ ~HoldsGlobal(c)' /\ HoldsGlobal(c) /\ globalSlots' = globalSlots - 1
    BY <1>1 DEF TypeOK, HandsHeld, Proxy, Dial, TrackBackend, CopiesDone,
      CloseBackend, CloseClient, GiveRouteSlotBack, GiveGlobalSlotBack,
      ProxyAt, CloseEnd, slots, stops, conns, Proxying, HoldsGlobal,
      HoldsRoute, InHand
  <2>3. ASSUME NEW v \in Workers
        PROVE  \/ (HoldsRoute(c)' <=> HoldsRoute(c)) /\ routeSlots'[v] = routeSlots[v]
               \/ owner[c] # v /\ routeSlots'[v] = routeSlots[v]
               \/ owner[c] = v /\ HoldsRoute(c)' /\ ~HoldsRoute(c) /\ routeSlots'[v] = routeSlots[v] + 1
               \/ owner[c] = v /\ ~HoldsRoute(c)' /\ HoldsRoute(c) /\ routeSlots'[v] = routeSlots[v] - 1
    BY <1>1 DEF TypeOK, HandsHeld, Proxy, Dial, TrackBackend, CopiesDone,
      CloseBackend, CloseClient, GiveRouteSlotBack, GiveGlobalSlotBack,
      ProxyAt, CloseEnd, slots, stops, conns, Proxying, HoldsGlobal,
      HoldsRoute, InHand
  <2>. QED  BY <1>1, <1>2, <2>1, <2>2, <2>3, TcpSlotsFollow
<1>6. TypeOK'
  <2>1. CASE TrackBackend(c)
    BY <1>1, <2>1, EndsApart DEF TypeOK, TrackBackend, ProxyAt, slots, stops, conns, Proxying
  <2>4. CASE CloseBackend(c)
    BY <1>1, <2>4, EndsApart DEF TypeOK, CloseBackend, ProxyAt, CloseEnd, slots, stops,
      conns, Proxying
  <2>5. CASE CloseClient(c)
    BY <1>1, <2>5, EndsApart DEF TypeOK, CloseClient, ProxyAt, CloseEnd, slots, stops,
      conns, Proxying
  <2>2. CASE Dial(c) \/ CopiesDone(c)
    BY <1>1, <2>2, EndsApart DEF TypeOK, Dial, CopiesDone, ProxyAt, slots, stops,
      conns, Proxying
  <2>3. CASE GiveRouteSlotBack(c) \/ GiveGlobalSlotBack(c)
    BY <1>1, <1>5, <2>3 DEF TypeOK, GiveRouteSlotBack, GiveGlobalSlotBack, ProxyAt,
      stops, conns, Proxying
  <2>. QED  BY <2>1, <2>2, <2>3, <2>4, <2>5 DEF Proxy
<1>. QED  BY <1>2, <1>3, <1>4, <1>5, <1>6 DEF TcpInv

(* Connections come, copies end, the loop fails and stops proceed without  *)
(* a slot changing hands.                                                  *)
TcpOtherStep ==
  \/ \E w \in Workers :
       \/ \E c \in Conns : Accept(w, c)
       \/ AcceptFails(w) \/ FlagStopped(w) \/ Stop(w)
  \/ \E c \in Conns, half \in {"inbound", "outbound"} : CopyEnds(c, half)

(* The invariant across these steps.                                       *)
LEMMA TcpOthersKeep == TcpInv /\ TcpOtherStep => TcpInv'
<1>. SUFFICES ASSUME TcpInv, TcpOtherStep PROVE TcpInv'
  OBVIOUS
<1>1. TypeOK /\ HandsHeld /\ TcpSlots /\ EndsKnown /\ StopsHold
  BY DEF TcpInv
<1>0. TypeOK'
  <2>1. ASSUME NEW w \in Workers, NEW c \in Conns, Accept(w, c)
        PROVE  TypeOK'
    BY <1>1, <2>1, EndsApart DEF TypeOK, Accept, ServeAt, stops, slots,
      Serving
  <2>2. ASSUME NEW c \in Conns, NEW half, CopyEnds(c, half)
        PROVE  TypeOK'
    BY <1>1, <2>2 DEF TypeOK, CopyEnds, stops, slots
  <2>3. ASSUME NEW w \in Workers, AcceptFails(w)
        PROVE  TypeOK'
    BY <1>1, <2>3 DEF TypeOK, AcceptFails, ServeAt, stops, slots, conns
  <2>4. ASSUME NEW w \in Workers, FlagStopped(w) \/ Stop(w)
        PROVE  TypeOK'
    BY <1>1, <2>4 DEF TypeOK, FlagStopped, Stop, CancelContext, CloseListener,
      CloseActive, FinishStop, StopAt, slots, conns
  <2>. QED  BY <2>1, <2>2, <2>3, <2>4 DEF TcpOtherStep
<1>2. HandsHeld'
  <2>1. ASSUME NEW w \in Workers, NEW c \in Conns, Accept(w, c)
        PROVE  HandsHeld'
    BY <1>1, <2>1 DEF TypeOK, Accept, ServeAt, HandsHeld
  <2>2. ASSUME NEW c \in Conns, NEW half, CopyEnds(c, half)
        PROVE  HandsHeld'
    BY <1>1, <2>2 DEF CopyEnds, HandsHeld
  <2>3. ASSUME NEW w \in Workers, AcceptFails(w)
        PROVE  HandsHeld'
    BY <1>1, <2>3 DEF TypeOK, AcceptFails, ServeAt, HandsHeld, conns
  <2>4. ASSUME NEW w \in Workers, FlagStopped(w) \/ Stop(w)
        PROVE  HandsHeld'
    BY <1>1, <2>4 DEF FlagStopped, Stop, CancelContext, CloseListener,
      CloseActive, FinishStop, HandsHeld, conns
  <2>. QED  BY <2>1, <2>2, <2>3, <2>4 DEF TcpOtherStep
<1>3. EndsKnown'
  BY <1>1, EndsApart DEF TypeOK, TcpOtherStep, Accept, CopyEnds, AcceptFails,
    FlagStopped, Stop, CancelContext, CloseListener, CloseActive,
    FinishStop, StopAt, ServeAt, slots, stops, conns, HandsHeld,
    Serving, Proxying, EndsKnown, InHand, Carrying, Copying
<1>4. StopsHold'
  BY <1>1, EndsApart DEF TypeOK, TcpOtherStep, Accept, CopyEnds, AcceptFails,
    FlagStopped, Stop, CancelContext, CloseListener, CloseActive,
    FinishStop, StopAt, ServeAt, slots, stops, conns, HandsHeld,
    Serving, Proxying, StopsHold, EndsKnown, InHand, Carrying, Copying, Running
<1>5. TcpSlots'
  <2>1. UNCHANGED slots
    BY DEF TcpOtherStep, Accept, CopyEnds, AcceptFails, FlagStopped, Stop,
      CancelContext, CloseListener, CloseActive, FinishStop, slots
  <2>2. \A c \in Conns : /\ HoldsGlobal(c)' <=> HoldsGlobal(c)
                         /\ HoldsRoute(c)' <=> HoldsRoute(c)
                         /\ HoldsRoute(c) => owner'[c] = owner[c]
    BY <1>1 DEF TypeOK, TcpOtherStep, Accept, CopyEnds, AcceptFails,
      FlagStopped, Stop, CancelContext, CloseListener, CloseActive,
      FinishStop, StopAt, ServeAt, conns, HandsHeld, Serving, Proxying,
      InHand, HoldsGlobal, HoldsRoute
  <2>. QED  BY <1>1, <1>2, <2>1, <2>2, TcpSlotsStay
<1>. QED  BY <1>0, <1>2, <1>3, <1>4, <1>5 DEF TcpInv

(* The invariant at the start.                                             *)
LEMMA TcpInitInvariant == Init => TcpInv
<1>. SUFFICES ASSUME Init PROVE TcpInv
  OBVIOUS
<1>1. TypeOK /\ HandsHeld /\ EndsKnown /\ StopsHold
  BY DEF Init, TypeOK, Serving, HandsHeld, EndsKnown, StopsHold,
    InHand, Carrying, Copying, Proxying
<1>2. TcpSlots
  <2>1. GlobalHolders = {} /\ \A w \in Workers : RouteHolders(w) = {}
    BY DEF Init, GlobalHolders, RouteHolders, Proxying
  <2>. QED  BY <2>1, FS_EmptySet DEF Init, TcpSlots
<1>. QED  BY <1>1, <1>2 DEF TcpInv

(* The invariant across every step.                                        *)
LEMMA TcpNextInvariant == TcpInv /\ [Next]_vars => TcpInv'
<1>. SUFFICES ASSUME TcpInv, [Next]_vars PROVE TcpInv'
  OBVIOUS
<1>1. ASSUME NEW w \in Workers, Serve(w) PROVE TcpInv'
  BY <1>1, TcpServeKeeps
<1>2. ASSUME NEW c \in Conns, Proxy(c) PROVE TcpInv'
  BY <1>2, TcpProxyKeeps
<1>3. ASSUME NEW w \in Workers, NEW c \in Conns, Accept(w, c) PROVE TcpInv'
  BY <1>3, TcpOthersKeep DEF TcpOtherStep
<1>4. ASSUME NEW c \in Conns, NEW half \in {"inbound", "outbound"}, CopyEnds(c, half)
      PROVE  TcpInv'
  BY <1>4, TcpOthersKeep DEF TcpOtherStep
<1>5. ASSUME NEW w \in Workers, AcceptFails(w) \/ FlagStopped(w) \/ Stop(w)
      PROVE  TcpInv'
  BY <1>5, TcpOthersKeep DEF TcpOtherStep
<1>6. CASE UNCHANGED vars
  BY <1>6 DEF vars, stops, slots, conns, TcpInv, TypeOK, HandsHeld, EndsKnown,
    StopsHold, InHand, TcpSlots, GlobalHolders, RouteHolders
<1>. QED  BY <1>1, <1>2, <1>3, <1>4, <1>5, <1>6 DEF Next

(* Throughout every execution of the TCP workers of a host.                *)
THEOREM TcpInvariant == Spec => []TcpInv
BY TcpInitInvariant, TcpNextInvariant, PTL DEF Spec

(* All modules mean the same by the number of elements.                    *)
LEMMA SameCount ==
  ASSUME NEW S
  PROVE  Worker!Cardinality(S) = Cardinality(S)
BY DEF Worker!Cardinality, Cardinality

(* What the invariant says of slots, of copies and of a worker at rest.    *)
LEMMA TcpQuiet == TcpInv => NothingLeaks
<1>. SUFFICES ASSUME TcpInv PROVE NothingLeaks
  OBVIOUS
<1>1. TypeOK /\ HandsHeld /\ TcpSlots /\ EndsKnown /\ StopsHold
  BY DEF TcpInv
<1>2. BegunClosesCopies
  BY <1>1 DEF BegunClosesCopies, StopsHold, TypeOK, Copying
<1>3. StoppedIsQuiet
  <2>. SUFFICES ASSUME NEW w \in Workers, stopping[w] = "finished"
                PROVE  /\ \A c \in Conns : owner[c] = w => {Client(c), Backend(c)} \cap ends = {}
                       /\ tracked[w] = {}
                       /\ routeSlots[w] = 0
    BY DEF StoppedIsQuiet
  <2>1. serve[w] = "exited" /\ \A c \in Conns : owner[c] = w => proxy[c] \notin Proxying
    BY <1>1 DEF StopsHold
  <2>2. \A c \in Conns : owner[c] = w => {Client(c), Backend(c)} \cap ends = {}
    BY <1>1, <2>1 DEF EndsKnown, InHand, Serving, Carrying, Copying, Proxying
  <2>3. tracked[w] = {}
    BY <1>1, <2>1, EndsApart DEF EndsKnown, TypeOK, Carrying, Copying, Proxying
  <2>4. RouteHolders(w) = {}
    BY <2>1 DEF RouteHolders
  <2>5. routeSlots[w] = 0
    BY <1>1, <2>4, FS_EmptySet DEF TcpSlots
  <2>. QED  BY <2>2, <2>3, <2>5
<1>4. SlotsBalanced
  BY <1>1, SameCount DEF TcpSlots, SlotsBalanced
<1>. QED  BY <1>2, <1>3, <1>4 DEF NothingLeaks

(* acquireSlot and releaseSlot, track and untrack, beginStop and finishStop *)
(* between them leak neither a slot nor a connection, however accepting,    *)
(* dialling, copying and stopping interleave.                              *)
THEOREM TcpLeaksNothing == Spec => []NothingLeaks
BY TcpInvariant, TcpQuiet, PTL

(* A TCP worker as the Manager takes it.                                   *)
TcpPhase ==
  [w \in Workers |->
     IF stopping[w] = "finished" THEN "stopped"
     ELSE IF stopping[w] = "no"
       THEN IF serve[w] = "exited" THEN "dead" ELSE "serving"
       ELSE IF serve[w] = "exited" THEN "draining" ELSE "stopping"]
TcpOpenAt(w) == {c \in Conns : owner[c] = w /\ proxy[c] \in Proxying \ {"globalBack"}}
TcpOpen == [w \in Workers |-> TcpOpenAt(w)]
TcpStep == [Worker!WorkerNext]_(Worker!workerVars)

(* Serving a connection does not change the phase.                         *)
LEMMA TcpPhasesStay ==
  ASSUME TcpInv, NEW w \in Workers, Serve(w)
  PROVE  TcpPhase' = TcpPhase
<1>1. /\ TypeOK /\ UNCHANGED stopping /\ serve[w] # "exited"
      /\ \E to \in Serving : serve' = [serve EXCEPT ![w] = to]
  BY DEF TcpInv, Serve, Authorize, TakeGlobalSlot, TakeRouteSlot, Track,
    TrackRefused, ServeGivesRouteSlotBack, ServeGivesGlobalSlotBack, Refuse,
    ServeAt, stops, Serving
<1>. QED  BY <1>1 DEF TcpPhase, TypeOK, Serving

(* What changes neither phase nor sessions is no step of a streamWorker.   *)
LEMMA TcpStutters ==
  ASSUME TcpPhase' = TcpPhase, TcpOpen' = TcpOpen
  PROVE  TcpStep
BY DEF TcpStep, TcpPhase, TcpOpen, TcpOpenAt, Worker!workerVars

(* track opens the session, and there is room for it.                      *)
LEMMA TrackMaps ==
  ASSUME TcpInv, NEW w \in Workers, Track(w)
  PROVE  TcpStep
<1>1. TypeOK /\ HandsHeld /\ TcpSlots /\ StopsHold
  BY DEF TcpInv
<1>2. PICK c \in Conns : c = hand[w] /\ owner[c] = w /\ proxy[c] = "none"
  BY <1>1 DEF Track, ServeAt, HandsHeld
<1>3. serve[w] = "track" /\ stopping[w] = "no"
  BY <1>1 DEF Track, ServeAt, StopsHold, TypeOK
<1>4. TcpPhase' = TcpPhase /\ TcpPhase[w] = "serving"
  BY <1>3, TcpPhasesStay DEF Serve, TcpPhase
<1>5. /\ TcpOpen' = [TcpOpen EXCEPT ![w] = @ \cup {c}]
      /\ \A v \in Workers : c \notin TcpOpen[v]
  <2>1. \A v \in Workers : c \notin TcpOpenAt(v)
    BY <1>2 DEF TcpOpenAt, Proxying
  <2>2. TcpOpenAt(w)' = TcpOpenAt(w) \cup {c}
    BY <1>1, <1>2 DEF Track, TcpOpenAt, TypeOK, Proxying
  <2>3. \A v \in Workers \ {w} : TcpOpenAt(v)' = TcpOpenAt(v)
    BY <1>1, <1>2 DEF Track, TcpOpenAt, TypeOK
  <2>. QED  BY <2>1, <2>2, <2>3 DEF TcpOpen
<1>6. Cardinality(TcpOpen[w]) < RouteLimit
  <2>1. RouteHolders(w) = TcpOpenAt(w) \cup {c}
    BY <1>2, <1>3 DEF TcpOpenAt, RouteHolders
  <2>2. c \in RouteHolders(w) /\ TcpOpen[w] = RouteHolders(w) \ {c}
    BY <1>5, <2>1 DEF TcpOpen
  <2>3. IsFiniteSet(RouteHolders(w)) /\ Cardinality(RouteHolders(w)) \in 0 .. RouteLimit
    BY <1>1 DEF TcpSlots, TypeOK
  <2>4. Cardinality(TcpOpen[w]) = Cardinality(RouteHolders(w)) - 1
    BY <2>2, <2>3, FS_RemoveElement
  <2>. QED  BY <2>3, <2>4
<1>7. Cardinality(UNION {TcpOpen[v] : v \in Workers}) < GlobalLimit
  <2>1. /\ c \in GlobalHolders
        /\ UNION {TcpOpen[v] : v \in Workers} \subseteq GlobalHolders \ {c}
    BY <1>2, <1>3, <1>5 DEF TcpOpen, TcpOpenAt, GlobalHolders
  <2>2. IsFiniteSet(GlobalHolders) /\ Cardinality(GlobalHolders) \in 0 .. GlobalLimit
    BY <1>1 DEF TcpSlots, TypeOK
  <2>3. /\ IsFiniteSet(GlobalHolders \ {c})
        /\ Cardinality(GlobalHolders \ {c}) = Cardinality(GlobalHolders) - 1
    BY <2>1, <2>2, FS_RemoveElement
  <2>4. /\ IsFiniteSet(UNION {TcpOpen[v] : v \in Workers})
        /\ Cardinality(UNION {TcpOpen[v] : v \in Workers}) <= Cardinality(GlobalHolders \ {c})
    BY <2>1, <2>3, FS_Subset
  <2>5. Cardinality(UNION {TcpOpen[v] : v \in Workers}) \in Nat
    BY <2>4, FS_CardinalityType
  <2>. HIDE DEF TcpOpen, GlobalHolders
  <2>. QED  BY <2>2, <2>3, <2>4, <2>5
<1>8. Worker!Open(w, c)
  <2>1. /\ c \notin UNION {TcpOpen[v] : v \in Workers}
        /\ Worker!Cardinality(TcpOpen[w]) < RouteLimit
        /\ Worker!Cardinality(UNION {TcpOpen[v] : v \in Workers}) < GlobalLimit
    BY <1>5, <1>6, <1>7, SameCount
  <2>2. TcpOpen' = [TcpOpen EXCEPT ![w] = TcpOpen[w] \cup {c}]
    BY <1>5
  <2>. QED  BY <1>4, <2>1, <2>2, Zenon DEF Worker!Open, Worker!AllOpen, TcpPhase, TcpOpen,
    TcpOpenAt
<1>. QED  BY <1>8 DEF TcpStep, Worker!WorkerNext

(* Nothing else of the accept loop opens one.                              *)
LEMMA TcpServeMaps ==
  ASSUME TcpInv, NEW w \in Workers, Serve(w)
  PROVE  TcpStep
<1>1. CASE Track(w)
  BY <1>1, TrackMaps
<1>2. CASE ~Track(w)
  <2>1. TcpOpen' = TcpOpen
    BY <1>2 DEF Serve, Authorize, TakeGlobalSlot, TakeRouteSlot, TrackRefused,
      ServeGivesRouteSlotBack, ServeGivesGlobalSlotBack, Refuse, conns, TcpOpen,
      TcpOpenAt
  <2>. QED  BY <2>1, TcpPhasesStay, TcpStutters
<1>. QED  BY <1>1, <1>2

(* A session is closed once its route's slot has been given back.          *)
LEMMA ProxyMaps ==
  ASSUME TcpInv, NEW c \in Conns, Proxy(c)
  PROVE  TcpStep
<1>1. TypeOK /\ HandsHeld
  BY DEF TcpInv
<1>2. TcpPhase' = TcpPhase
  BY DEF Proxy, Dial, TrackBackend, CopiesDone, CloseBackend, CloseClient,
    GiveRouteSlotBack, GiveGlobalSlotBack, CloseEnd, stops, TcpPhase
<1>3. CASE GiveRouteSlotBack(c)
  <2>1. owner[c] \in Workers /\ c \in TcpOpen[owner[c]]
    BY <1>1, <1>3 DEF GiveRouteSlotBack, ProxyAt, HandsHeld, TcpOpen, TcpOpenAt,
      Proxying
  <2>2. TcpOpen' = [TcpOpen EXCEPT ![owner[c]] = @ \ {c}]
    <3>1. TcpOpenAt(owner[c])' = TcpOpenAt(owner[c]) \ {c}
      BY <1>1, <1>3 DEF GiveRouteSlotBack, ProxyAt, TcpOpenAt, TypeOK, Proxying
    <3>2. \A v \in Workers \ {owner[c]} : TcpOpenAt(v)' = TcpOpenAt(v)
      BY <1>1, <1>3 DEF GiveRouteSlotBack, ProxyAt, TcpOpenAt, TypeOK, Proxying
    <3>3. owner'[c] = owner[c]
      BY <1>3 DEF GiveRouteSlotBack
    <3>. QED  BY <2>1, <3>1, <3>2, <3>3 DEF TcpOpen
  <2>3. PICK w \in Workers : w = owner[c]
    BY <2>1
  <2>4. c \in TcpOpen[w] /\ TcpOpen' = [TcpOpen EXCEPT ![w] = TcpOpen[w] \ {c}]
    BY <2>1, <2>2, <2>3
  <2>5. Worker!Close(w, c)
    BY <1>2, <2>4, Zenon DEF Worker!Close, TcpPhase, TcpOpen, TcpOpenAt
  <2>. QED  BY <2>5 DEF TcpStep, Worker!WorkerNext
<1>4. CASE ~GiveRouteSlotBack(c)
  <2>1. TcpOpen' = TcpOpen
    BY <1>1, <1>4 DEF Proxy, Dial, TrackBackend, CopiesDone, CloseBackend,
      CloseClient, GiveGlobalSlotBack, CloseEnd, ProxyAt, TcpOpen, TcpOpenAt,
      TypeOK, Proxying
  <2>. QED  BY <1>2, <2>1, TcpStutters
<1>. QED  BY <1>3, <1>4

(* The accept loop ends in a worker that serves or is being stopped.       *)
LEMMA LoopMaps ==
  ASSUME TcpInv, NEW w \in Workers, AcceptFails(w)
  PROVE  TcpStep
<1>1. TypeOK /\ StopsHold
  BY DEF TcpInv
<1>2. TcpOpen' = TcpOpen
  BY DEF AcceptFails, conns, TcpOpen, TcpOpenAt
<1>3. serve[w] = "accept" /\ stopping[w] # "finished"
  BY <1>1 DEF AcceptFails, ServeAt, StopsHold
<1>4. \/ TcpPhase[w] = "serving" /\ TcpPhase' = [TcpPhase EXCEPT ![w] = "dead"]
      \/ TcpPhase[w] = "stopping" /\ TcpPhase' = [TcpPhase EXCEPT ![w] = "draining"]
  BY <1>1, <1>3 DEF AcceptFails, ServeAt, stops, TcpPhase, TypeOK
<1>5. Worker!LoopEnds(w)
  BY <1>2, <1>4 DEF Worker!LoopEnds, Worker!Moves, TcpPhase, TcpOpen, TcpOpenAt
<1>. QED  BY <1>5 DEF TcpStep, Worker!WorkerNext

(* beginStop is its first step, finishStop its last.                       *)
LEMMA TcpStopMaps ==
  ASSUME TcpInv, NEW w \in Workers, FlagStopped(w) \/ Stop(w)
  PROVE  TcpStep
<1>1. TypeOK
  BY DEF TcpInv
<1>2. TcpOpen' = TcpOpen
  BY DEF FlagStopped, Stop, CancelContext, CloseListener, CloseActive,
    FinishStop, conns, TcpOpen, TcpOpenAt
<1>3. CASE FlagStopped(w)
  <2>1. \/ TcpPhase[w] = "serving" /\ TcpPhase' = [TcpPhase EXCEPT ![w] = "stopping"]
        \/ TcpPhase[w] = "dead" /\ TcpPhase' = [TcpPhase EXCEPT ![w] = "draining"]
    <3>1. /\ stopping[w] = "no" /\ UNCHANGED serve
          /\ stopping' = [stopping EXCEPT ![w] = "flagged"]
      BY <1>3 DEF FlagStopped, StopAt
    <3>2. stopping'[w] = "flagged" /\ \A v \in Workers \ {w} : stopping'[v] = stopping[v]
      BY <1>1, <3>1 DEF TypeOK
    <3>3. \A v \in Workers \ {w} : TcpPhase'[v] = TcpPhase[v]
      BY <3>1, <3>2 DEF TcpPhase
    <3>4. TcpPhase[w] = (IF serve[w] = "exited" THEN "dead" ELSE "serving")
      BY <3>1 DEF TcpPhase
    <3>5. TcpPhase'[w] = (IF serve[w] = "exited" THEN "draining" ELSE "stopping")
      BY <3>1, <3>2 DEF TcpPhase
    <3>6. TcpPhase' = [TcpPhase EXCEPT ![w] = TcpPhase'[w]]
      BY <3>3 DEF TcpPhase
    <3>. QED  BY <3>4, <3>5, <3>6, Zenon
  <2>2. Worker!BeginStop(w)
    BY <1>2, <2>1 DEF Worker!BeginStop, Worker!Moves, TcpPhase, TcpOpen, TcpOpenAt
  <2>. QED  BY <2>2 DEF TcpStep, Worker!WorkerNext
<1>4. CASE CancelContext(w) \/ CloseListener(w) \/ CloseActive(w)
  <2>1. TcpPhase' = TcpPhase
    BY <1>1, <1>4 DEF CancelContext, CloseListener, CloseActive, StopAt, TcpPhase,
      TypeOK
  <2>. QED  BY <1>2, <2>1, TcpStutters
<1>5. CASE FinishStop(w)
  <2>1. TcpOpen[w] = {}
    BY <1>5 DEF FinishStop, Running, TcpOpen, TcpOpenAt
  <2>2. TcpPhase[w] = "draining" /\ TcpPhase' = [TcpPhase EXCEPT ![w] = "stopped"]
    BY <1>1, <1>5 DEF FinishStop, StopAt, TcpPhase, TypeOK
  <2>3. Worker!FinishStop(w)
    BY <1>2, <2>1, <2>2 DEF Worker!FinishStop, Worker!Moves, TcpPhase, TcpOpen, TcpOpenAt
  <2>. QED  BY <2>3 DEF TcpStep, Worker!WorkerNext
<1>. QED  BY <1>3, <1>4, <1>5 DEF Stop

(* So every step is one of a streamWorker, or none.                        *)
LEMMA TcpStepsMap == TcpInv /\ [Next]_vars => TcpStep
<1>. SUFFICES ASSUME TcpInv, [Next]_vars PROVE TcpStep
  OBVIOUS
<1>1. ASSUME NEW w \in Workers, Serve(w) PROVE TcpStep
  BY <1>1, TcpServeMaps
<1>2. ASSUME NEW c \in Conns, Proxy(c) PROVE TcpStep
  BY <1>2, ProxyMaps
<1>3. ASSUME NEW w \in Workers, NEW c \in Conns, Accept(w, c) PROVE TcpStep
  <2>1. TcpOpen' = TcpOpen
    BY <1>3 DEF TcpInv, TypeOK, HandsHeld, Accept, TcpOpen, TcpOpenAt, Proxying
  <2>2. TcpPhase' = TcpPhase
    BY <1>3 DEF TcpInv, TypeOK, Accept, ServeAt, stops, TcpPhase
  <2>. QED  BY <2>1, <2>2, TcpStutters
<1>4. ASSUME NEW c \in Conns, NEW half \in {"inbound", "outbound"}, CopyEnds(c, half)
      PROVE  TcpStep
  BY <1>4, TcpStutters DEF CopyEnds, TcpOpen, TcpOpenAt, TcpPhase, stops
<1>5. ASSUME NEW w \in Workers, AcceptFails(w) \/ FlagStopped(w) \/ Stop(w)
      PROVE  TcpStep
  BY <1>5, LoopMaps, TcpStopMaps
<1>6. CASE UNCHANGED vars
  BY <1>6, TcpStutters DEF vars, stops, conns, TcpOpen, TcpOpenAt, TcpPhase
<1>. QED  BY <1>1, <1>2, <1>3, <1>4, <1>5, <1>6 DEF Next

(* All the workers serve at the start.                                     *)
LEMMA TcpInitMaps == Init => Worker!WorkerInit
BY DEF Init, Worker!WorkerInit, Proxying

(* A TCP worker is a streamWorker as the Manager takes it: it opens         *)
(* sessions within both limits and before a stop only, and finishStop finds *)
(* none left.                                                              *)
THEOREM TcpImplements == Spec => ImplementsStreamWorker
<1>1. Spec => Worker!WorkerInit /\ [][Worker!WorkerNext]_(Worker!workerVars)
  BY TcpInvariant, TcpInitMaps, TcpStepsMap, PTL DEF Spec, TcpStep
<1>. QED  BY <1>1 DEF ImplementsStreamWorker, Worker!WorkerSpec

-----------------------------------------------------------------------------
=============================================================================

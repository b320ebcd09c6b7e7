----------------------------- MODULE UdpProofs ------------------------------
(***************************************************************************)
(* Proofs about UdpWorker for any clients, sessions and limits.            *)
(*                                                                         *)
(* Argument. A session is in the table, in the hands of one dropSession, or*)
(* accounted for (LivesKnown, DropsApart): that is who holds its slots.    *)
(***************************************************************************)
EXTENDS UdpWorker, FiniteSetTheorems, TLAPS

USE SessionsAssumption, LimitsAssumption, NamesAssumption

(* Where a drop has taken its session out of the table.                    *)
Departing == {a \in Actors : drop[a].at \in {"close", "route", "global"}}

TableKept ==
  \A c \in Clients : sessions[c] # None => clientOf[sessions[c]] = c

(* What the receive loop and the expiry hold.                              *)
LoopsHold ==
  /\ udpServe \in {"authorize", "global", "route", "dial", "insert"} =>
       client \in Clients /\ sessions[client] = None
  /\ udpServe = "insert" =>
       udpHand \in Sessions /\ clientOf[udpHand] = client /\ reader[udpHand] = "none"
  /\ udpServe \in {"touch", "write"} => udpHand \in Sessions /\ reader[udpHand] # "none"
  /\ udpServe # "read" => Free("serve")
  /\ expire # "drop" => Free("expire")
  /\ \A s \in expired \cup snapshot : reader[s] # "none"

(* A session is in the table, being dropped, or accounted for.             *)
LivesKnown ==
  \A s \in Sessions :
    /\ clientOf[s] = None => reader[s] = "none" /\ s \notin backends
    /\ reader[s] = "none" => s \notin Known /\ accounted[s] = 0
    /\ reader[s] # "none" =>
         s \in Known \/ accounted[s] = 1 \/ \E a \in Departing : drop[a].session = s
    /\ reader[s] # "exited" => Free(s)
    /\ s \in Known => accounted[s] = 0
    /\ s \in backends =>
         \/ s \in Known
         \/ \E a \in Departing : drop[a].at = "close" /\ drop[a].session = s
         \/ udpServe = "insert" /\ udpHand = s

(* One goroutine drops it.                                                 *)
DropsApart ==
  \A a \in Actors :
    /\ ~Free(a) => drop[a].session \in Sessions /\ reader[drop[a].session] # "none"
    /\ a \in Departing =>
         /\ drop[a].session \notin Known /\ accounted[drop[a].session] = 0
         /\ \A b \in Departing : drop[b].session = drop[a].session => a = b

(* What beginStop and finishStop have achieved.                            *)
UdpStops ==
  /\ Stopped =>
       \A s \in Known \ snapshot : drop["stop"].at = "check" /\ drop["stop"].session = s
  /\ udpStopping # "unbound" => Free("stop")
  /\ udpStopping \in {"begun", "finished"} => snapshot = {}
  /\ udpStopping = "finished" =>
       /\ udpServe = "exited" /\ expire = "exited"
       /\ \A s \in Sessions : reader[s] # "read" /\ Free(s)

UdpSlots ==
  /\ IsFiniteSet(Known) /\ IsFiniteSet(Leaving) /\ IsFiniteSet(Departing)
  /\ udpRouteSlots = Cardinality(Known) + Cardinality(Leaving)
                    + (IF udpServe \in {"dial", "insert", "routeBack"} THEN 1 ELSE 0)
  /\ udpGlobalSlots = Cardinality(Known) + Cardinality(Departing)
                     + (IF udpServe \in Holding THEN 1 ELSE 0) + elsewhere

UdpInv ==
  /\ UdpTypeOK
  /\ TableKept
  /\ LoopsHold
  /\ LivesKnown
  /\ DropsApart
  /\ UdpStops
  /\ UdpSlots

(* A count follows its set when one element comes or goes.                 *)
LEMMA CountFollows ==
  ASSUME NEW S, NEW T, NEW x, NEW n, NEW m, IsFiniteSet(S), n = Cardinality(S),
         \/ T = S /\ m = n
         \/ x \notin S /\ T = S \cup {x} /\ m = n + 1
         \/ x \in S /\ T = S \ {x} /\ m = n - 1
  PROVE  IsFiniteSet(T) /\ m = Cardinality(T) /\ m \in Nat
<1>1. IsFiniteSet(T) /\ m = Cardinality(T)
  <2>1. CASE x \notin S /\ T = S \cup {x} /\ m = n + 1
    BY <2>1, FS_AddElement
  <2>2. CASE x \in S /\ T = S \ {x} /\ m = n - 1
    BY <2>2, FS_RemoveElement
  <2>. QED  BY <2>1, <2>2
<1>2. Cardinality(T) \in Nat
  BY <1>1, FS_CardinalityType
<1>. QED  BY <1>1, <1>2

(* A set has one size, whatever the module it is counted in.               *)
LEMMA UdpCount ==
  ASSUME NEW S
  PROVE  UdpStreamWorker!Cardinality(S) = Cardinality(S)
BY DEF UdpStreamWorker!Cardinality, Cardinality

(* The counts are numbers.                                                 *)
LEMMA CountsAreNumbers ==
  ASSUME UdpSlots
  PROVE  /\ Cardinality(Known) \in Nat
         /\ Cardinality(Leaving) \in Nat
         /\ Cardinality(Departing) \in Nat
BY FS_CardinalityType DEF UdpSlots

(* The receive loop between slots: a datagram comes, is refused, or goes.  *)
LEMMA LoopKeeps ==
  ASSUME UdpInv, \/ \E c \in Clients : Receive(c)
                 \/ ReceiveFails \/ UdpAuthorize \/ Touch \/ Write
  PROVE  UdpInv'
<1>1. /\ UdpTypeOK /\ TableKept /\ LoopsHold
      /\ LivesKnown /\ DropsApart /\ UdpStops /\ UdpSlots
  BY DEF UdpInv
<1>2. UdpTypeOK'
  BY <1>1 DEF UdpTypeOK, Receive, ReceiveFails, UdpAuthorize, Touch, Write,
    UdpServeAt, table, expiry, stop, udpSlots, UdpServing
<1>3. TableKept'
  BY <1>1 DEF TableKept, Receive, ReceiveFails, UdpAuthorize, Touch, Write,
    table
<1>4. LoopsHold'
  BY <1>1 DEF UdpTypeOK, LoopsHold, LivesKnown, Receive, ReceiveFails, UdpAuthorize,
    Touch, Write, UdpServeAt, table, expiry, stop, Known, Free
<1>5. LivesKnown'
  BY <1>1 DEF LivesKnown, Receive, ReceiveFails, UdpAuthorize, Touch, Write,
    UdpServeAt, table, Known, Free, Departing
<1>6. DropsApart'
  BY <1>1 DEF DropsApart, Receive, ReceiveFails, UdpAuthorize, Touch, Write,
    table, Known, Free, Departing
<1>7. UdpStops'
  BY <1>1 DEF UdpStops, Receive, ReceiveFails, UdpAuthorize, Touch, Write,
    UdpServeAt, table, stop, Known, Stopped, Free
<1>8. UNCHANGED << Known, Leaving, Departing, udpSlots >>
  BY <1>1 DEF Receive, ReceiveFails, UdpAuthorize, Touch, Write, Known,
    Leaving, Departing, table
<1>9. /\ udpServe' \in {"dial", "insert", "routeBack"} <=> udpServe \in {"dial", "insert", "routeBack"}
      /\ udpServe' \in Holding <=> udpServe \in Holding
  BY DEF Receive, ReceiveFails, UdpAuthorize, Touch, Write, UdpServeAt,
    Holding
<1>10. UdpSlots'
  <2>. HIDE DEF Known, Leaving, Departing
  <2>. QED  BY <1>1, <1>8, <1>9 DEF UdpSlots, udpSlots
<1>. QED  BY <1>2, <1>3, <1>4, <1>5, <1>6, <1>7, <1>10 DEF UdpInv

(* What backends send, and the expiry until it drops.                      *)
LEMMA ExpiryKeeps ==
  ASSUME UdpInv, \/ \E s \in Sessions : BackendSpeaks(s) \/ GrowIdle(s)
                 \/ CollectIdle \/ ExpireExits
  PROVE  UdpInv'
<1>1. /\ UdpTypeOK /\ TableKept /\ LoopsHold
      /\ LivesKnown /\ DropsApart /\ UdpStops /\ UdpSlots
  BY DEF UdpInv
<1>2. UdpTypeOK'
  BY <1>1 DEF UdpTypeOK, BackendSpeaks, GrowIdle, CollectIdle, ExpireExits,
    loop, table, expiry, stop, udpSlots
<1>3. TableKept'
  BY <1>1 DEF TableKept, BackendSpeaks, GrowIdle, CollectIdle, ExpireExits,
    table
<1>4. LoopsHold'
  BY <1>1 DEF UdpTypeOK, LoopsHold, LivesKnown, BackendSpeaks, GrowIdle, CollectIdle,
    ExpireExits, loop, table, expiry, stop, Free
<1>5. LivesKnown'
  BY <1>1 DEF LivesKnown, BackendSpeaks, GrowIdle, CollectIdle, ExpireExits,
    loop, table, Known, Free, Departing
<1>6. DropsApart'
  BY <1>1 DEF DropsApart, BackendSpeaks, GrowIdle, CollectIdle, ExpireExits,
    table, Known, Free, Departing
<1>7. UdpStops'
  BY <1>1 DEF UdpStops, BackendSpeaks, GrowIdle, CollectIdle, ExpireExits,
    table, stop, Known, Stopped, Free
<1>8. UNCHANGED << Known, Leaving, Departing, udpSlots >>
  BY <1>1 DEF BackendSpeaks, GrowIdle, CollectIdle, ExpireExits, Known,
    Leaving, Departing, table
<1>9. /\ udpServe' \in {"dial", "insert", "routeBack"} <=> udpServe \in {"dial", "insert", "routeBack"}
      /\ udpServe' \in Holding <=> udpServe \in Holding
  BY DEF BackendSpeaks, GrowIdle, CollectIdle, ExpireExits, loop, Holding
<1>10. UdpSlots'
  <2>. HIDE DEF Known, Leaving, Departing
  <2>. QED  BY <1>1, <1>8, <1>9 DEF UdpSlots, udpSlots
<1>. QED  BY <1>2, <1>3, <1>4, <1>5, <1>6, <1>7, <1>10 DEF UdpInv

(* The steps of a stop that drop nothing.                                  *)
LEMMA StopKeeps ==
  ASSUME UdpInv, UdpFlagStopped \/ CancelAndUnbind \/ UdpFinishStop
  PROVE  UdpInv'
<1>1. /\ UdpTypeOK /\ TableKept /\ LoopsHold
      /\ LivesKnown /\ DropsApart /\ UdpStops /\ UdpSlots
  BY DEF UdpInv
<1>2. UdpTypeOK'
  BY <1>1 DEF UdpTypeOK, UdpFlagStopped, CancelAndUnbind, UdpFinishStop, UdpStopAt,
    loop, table, expiry, udpSlots, Known
<1>3. TableKept'
  BY <1>1 DEF TableKept, UdpFlagStopped, CancelAndUnbind, UdpFinishStop, table
<1>4. LoopsHold'
  BY <1>1 DEF LoopsHold, LivesKnown, UdpFlagStopped, CancelAndUnbind, UdpFinishStop,
    loop, table, expiry, Known, Free
<1>5. LivesKnown'
  BY <1>1 DEF LivesKnown, UdpFlagStopped, CancelAndUnbind, UdpFinishStop, loop,
    table, Known, Free, Departing
<1>6. DropsApart'
  BY <1>1 DEF DropsApart, UdpFlagStopped, CancelAndUnbind, UdpFinishStop, table,
    Known, Free, Departing
<1>7. UdpStops'
  BY <1>1 DEF UdpStops, UdpFlagStopped, CancelAndUnbind, UdpFinishStop, UdpStopAt,
    loop, table, expiry, Known, Stopped, Free
<1>8. UNCHANGED << Known, Leaving, Departing, udpSlots >>
  BY <1>1 DEF UdpFlagStopped, CancelAndUnbind, UdpFinishStop, Known, Leaving,
    Departing, table
<1>9. /\ udpServe' \in {"dial", "insert", "routeBack"} <=> udpServe \in {"dial", "insert", "routeBack"}
      /\ udpServe' \in Holding <=> udpServe \in Holding
  BY DEF UdpFlagStopped, CancelAndUnbind, UdpFinishStop, UdpStopAt, loop, Holding
<1>10. UdpSlots'
  <2>. HIDE DEF Known, Leaving, Departing
  <2>. QED  BY <1>1, <1>8, <1>9 DEF UdpSlots, udpSlots
<1>. QED  BY <1>2, <1>3, <1>4, <1>5, <1>6, <1>7, <1>10 DEF UdpInv

(* Slots are taken and given back, by the receive loop and by others.      *)
LEMMA SlotsKeep ==
  ASSUME UdpInv, \/ UdpTakeGlobalSlot \/ UdpTakeRouteSlot \/ Elsewhere
                 \/ RouteSlotBack \/ GlobalSlotBack
  PROVE  UdpInv'
<1>1. /\ UdpTypeOK /\ TableKept /\ LoopsHold
      /\ LivesKnown /\ DropsApart /\ UdpStops /\ UdpSlots
  BY DEF UdpInv
<1>3. TableKept'
  BY <1>1 DEF TableKept, UdpTakeGlobalSlot, UdpTakeRouteSlot, RouteSlotBack,
    GlobalSlotBack, Elsewhere, table
<1>4. LoopsHold'
  BY <1>1 DEF LoopsHold, UdpTakeGlobalSlot, UdpTakeRouteSlot, RouteSlotBack,
    GlobalSlotBack, Elsewhere, UdpServeAt, loop, table, expiry, stop,
    Free
<1>5. LivesKnown'
  BY <1>1 DEF LivesKnown, UdpTakeGlobalSlot, UdpTakeRouteSlot, RouteSlotBack,
    GlobalSlotBack, Elsewhere, UdpServeAt, loop, table, Known, Free,
    Departing
<1>6. DropsApart'
  BY <1>1 DEF DropsApart, UdpTakeGlobalSlot, UdpTakeRouteSlot, RouteSlotBack,
    GlobalSlotBack, Elsewhere, table, Known, Free, Departing
<1>7. UdpStops'
  BY <1>1 DEF UdpStops, UdpTakeGlobalSlot, UdpTakeRouteSlot, RouteSlotBack,
    GlobalSlotBack, Elsewhere, UdpServeAt, loop, table, expiry, stop,
    Known, Stopped, Free
<1>8. UNCHANGED << Known, Leaving, Departing >>
  BY DEF UdpTakeGlobalSlot, UdpTakeRouteSlot, RouteSlotBack, GlobalSlotBack,
    Elsewhere, Known, Leaving, Departing, table
<1>9. /\ UdpSlots' /\ udpRouteSlots' \in 0 .. RouteLimit
      /\ udpGlobalSlots' \in 0 .. GlobalLimit /\ elsewhere' \in 0 .. GlobalLimit
  <2>1. CASE UdpTakeGlobalSlot
    <3>. HIDE DEF Known, Leaving, Departing
    <3>. QED  BY <1>1, <1>8, <2>1, CountsAreNumbers DEF UdpSlots, UdpTypeOK, UdpTakeGlobalSlot,
      UdpServeAt, Holding
  <2>2. CASE UdpTakeRouteSlot
    <3>. HIDE DEF Known, Leaving, Departing
    <3>. QED  BY <1>1, <1>8, <2>2, CountsAreNumbers DEF UdpSlots, UdpTypeOK, UdpTakeRouteSlot,
      UdpServeAt, Holding
  <2>3. CASE RouteSlotBack
    <3>. HIDE DEF Known, Leaving, Departing
    <3>. QED  BY <1>1, <1>8, <2>3, CountsAreNumbers DEF UdpSlots, UdpTypeOK, RouteSlotBack,
      UdpServeAt, Holding
  <2>4. CASE GlobalSlotBack
    <3>. HIDE DEF Known, Leaving, Departing
    <3>. QED  BY <1>1, <1>8, <2>4, CountsAreNumbers DEF UdpSlots, UdpTypeOK, GlobalSlotBack,
      UdpServeAt, Holding
  <2>5. CASE Elsewhere
    <3>. HIDE DEF Known, Leaving, Departing
    <3>. QED  BY <1>1, <1>8, <2>5, CountsAreNumbers DEF UdpSlots, UdpTypeOK, Elsewhere,
      loop, Holding
  <2>. QED  BY <2>1, <2>2, <2>3, <2>4, <2>5
<1>2. UdpTypeOK'
  BY <1>1, <1>9 DEF UdpTypeOK, UdpTakeGlobalSlot, UdpTakeRouteSlot, RouteSlotBack,
    GlobalSlotBack, Elsewhere, UdpServeAt, loop, table, expiry, stop,
    UdpServing
<1>. QED  BY <1>2, <1>3, <1>4, <1>5, <1>6, <1>7, <1>9 DEF UdpInv

(* A session is allocated, which only the receive loop holds.              *)
LEMMA DialKeeps ==
  ASSUME UdpInv, UdpDial
  PROVE  UdpInv'
<1>1. /\ UdpTypeOK /\ TableKept /\ LoopsHold
      /\ LivesKnown /\ DropsApart /\ UdpStops /\ UdpSlots
  BY DEF UdpInv
<1>2. UdpTypeOK'
  BY <1>1 DEF UdpTypeOK, UdpDial, UdpServeAt, expiry, stop, udpSlots, UdpServing
<1>3. TableKept'
  BY <1>1 DEF UdpTypeOK, TableKept, UdpDial
<1>4. LoopsHold'
  BY <1>1 DEF UdpTypeOK, LoopsHold, LivesKnown, UdpDial, UdpServeAt, expiry, stop,
    Free
<1>5. LivesKnown'
  BY <1>1 DEF UdpTypeOK, LoopsHold, LivesKnown, UdpDial, UdpServeAt, Known, Free,
    Departing
<1>6. DropsApart'
  BY <1>1 DEF DropsApart, UdpDial, Known, Free, Departing
<1>7. UdpStops'
  BY <1>1 DEF UdpStops, UdpDial, UdpServeAt, stop, Known, Stopped, Free
<1>8. UNCHANGED << Known, Leaving, Departing, udpSlots >>
  BY <1>1 DEF UdpDial, Known, Leaving, Departing
<1>9. /\ udpServe' \in {"dial", "insert", "routeBack"} <=> udpServe \in {"dial", "insert", "routeBack"}
      /\ udpServe' \in Holding <=> udpServe \in Holding
  BY DEF UdpDial, UdpServeAt, loop, Holding
<1>10. UdpSlots'
  <2>. HIDE DEF Known, Leaving, Departing
  <2>. QED  BY <1>1, <1>8, <1>9 DEF UdpSlots, udpSlots
<1>. QED  BY <1>2, <1>3, <1>4, <1>5, <1>6, <1>7, <1>10 DEF UdpInv

(* It enters the table, or is closed.                                      *)
LEMMA InsertKeeps ==
  ASSUME UdpInv, Insert
  PROVE  UdpInv'
<1>1. /\ UdpTypeOK /\ TableKept /\ LoopsHold
      /\ LivesKnown /\ DropsApart /\ UdpStops /\ UdpSlots
  BY DEF UdpInv
<1>2. UdpTypeOK'
  BY <1>1 DEF UdpTypeOK, Insert, UdpServeAt, expiry, stop, udpSlots, UdpServing
<1>3. TableKept'
  BY <1>1 DEF UdpTypeOK, TableKept, LoopsHold, Insert, UdpServeAt
<1>4. LoopsHold'
  BY <1>1 DEF UdpTypeOK, LoopsHold, Insert, UdpServeAt, expiry, stop, Free
<1>5. LivesKnown'
  BY <1>1 DEF UdpTypeOK, LoopsHold, LivesKnown, Insert, UdpServeAt, Known, Free,
    Departing
<1>6. DropsApart'
  BY <1>1 DEF UdpTypeOK, LoopsHold, DropsApart, Insert, UdpServeAt, Known, Free,
    Departing
<1>7. UdpStops'
  BY <1>1 DEF UdpStops, Insert, UdpServeAt, stop, Known, Stopped, Free
<1>8. UdpSlots'
  <2>1. UNCHANGED << Leaving, Departing, udpSlots >> /\ udpServe = "insert"
    BY DEF Insert, UdpServeAt, Leaving, Departing
  <2>2. CASE udpServe' = "touch"
    <3>1. udpHand \notin Known /\ Known' = Known \cup {udpHand}
      BY <1>1, <2>2 DEF Insert, UdpServeAt, Known, UdpTypeOK, LoopsHold, LivesKnown
    <3>2. IsFiniteSet(Known') /\ Cardinality(Known') = Cardinality(Known) + 1
      BY <1>1, <3>1, FS_AddElement DEF UdpSlots
    <3>. HIDE DEF Known, Leaving, Departing
    <3>. QED  BY <1>1, <2>1, <2>2, <3>2, CountsAreNumbers DEF UdpSlots, udpSlots, Holding
  <2>3. CASE udpServe' = "routeBack"
    <3>1. Known' = Known
      BY <2>3 DEF Insert, UdpServeAt, Known
    <3>. HIDE DEF Known, Leaving, Departing
    <3>. QED  BY <1>1, <2>1, <2>3, <3>1 DEF UdpSlots, udpSlots, Holding
  <2>. QED  BY <2>2, <2>3 DEF Insert, UdpServeAt
<1>. QED  BY <1>2, <1>3, <1>4, <1>5, <1>6, <1>7, <1>8 DEF UdpInv

(* A failed write drops its session.                                       *)
LEMMA WriteFailsKeeps ==
  ASSUME UdpInv, WriteFails
  PROVE  UdpInv'
<1>1. /\ UdpTypeOK /\ TableKept /\ LoopsHold
      /\ LivesKnown /\ DropsApart /\ UdpStops /\ UdpSlots
  BY DEF UdpInv
<1>2. UdpTypeOK'
  BY <1>1 DEF UdpTypeOK, WriteFails, UdpServeAt, Drop, table, expiry, stop,
    udpSlots, UdpServing
<1>3. TableKept'
  BY <1>1 DEF TableKept, WriteFails, table
<1>4. LoopsHold'
  BY <1>1 DEF LoopsHold, WriteFails, UdpServeAt, Drop, expiry, stop, Free
<1>5. LivesKnown'
  BY <1>1 DEF LivesKnown, WriteFails, UdpServeAt, Drop, table, Known, Free,
    Departing
<1>6. DropsApart'
  BY <1>1 DEF LoopsHold, DropsApart, WriteFails, UdpServeAt, Drop, table, Known,
    Free, Departing
<1>7. UdpStops'
  BY <1>1 DEF UdpStops, WriteFails, UdpServeAt, Drop, table, stop, Known,
    Stopped, Free
<1>8. UNCHANGED << Known, Leaving, Departing, udpSlots >>
  BY <1>1 DEF WriteFails, UdpServeAt, Drop, Known, Leaving, Departing, table,
    Free
<1>9. /\ udpServe' \in {"dial", "insert", "routeBack"} <=> udpServe \in {"dial", "insert", "routeBack"}
      /\ udpServe' \in Holding <=> udpServe \in Holding
  BY DEF WriteFails, UdpServeAt, Drop, loop, Holding
<1>10. UdpSlots'
  <2>. HIDE DEF Known, Leaving, Departing
  <2>. QED  BY <1>1, <1>8, <1>9 DEF UdpSlots, udpSlots
<1>. QED  BY <1>2, <1>3, <1>4, <1>5, <1>6, <1>7, <1>10 DEF UdpInv

(* And so does a failed read.                                              *)
LEMMA ReadFailsKeeps ==
  ASSUME UdpInv, NEW s \in Sessions, ReadFails(s)
  PROVE  UdpInv'
<1>1. /\ UdpTypeOK /\ TableKept /\ LoopsHold
      /\ LivesKnown /\ DropsApart /\ UdpStops /\ UdpSlots
  BY DEF UdpInv
<1>2. UdpTypeOK'
  BY <1>1 DEF UdpTypeOK, ReadFails, Drop, loop, table, expiry, stop,
    udpSlots, Actors
<1>3. TableKept'
  BY <1>1 DEF TableKept, ReadFails, table
<1>4. LoopsHold'
  BY <1>1 DEF LoopsHold, ReadFails, Drop, loop, table, expiry, stop,
    Free
<1>5. LivesKnown'
  BY <1>1 DEF UdpTypeOK, LivesKnown, ReadFails, Drop, loop, table, Known,
    Free, Departing
<1>6. DropsApart'
  BY <1>1 DEF DropsApart, ReadFails, Drop, table, Known, Free, Departing
<1>7. UdpStops'
  BY <1>1 DEF UdpStops, ReadFails, Drop, table, stop, Known, Stopped,
    Free
<1>8. UNCHANGED << Known, Leaving, Departing, udpSlots >>
  <2>1. Free(s)
    BY <1>1 DEF ReadFails, LivesKnown
  <2>. QED  BY <1>1, <2>1 DEF ReadFails, Drop, Known, Leaving, Departing,
    table, Free
<1>9. /\ udpServe' \in {"dial", "insert", "routeBack"} <=> udpServe \in {"dial", "insert", "routeBack"}
      /\ udpServe' \in Holding <=> udpServe \in Holding
  BY DEF ReadFails, Drop, loop, Holding
<1>10. UdpSlots'
  <2>. HIDE DEF Known, Leaving, Departing
  <2>. QED  BY <1>1, <1>8, <1>9 DEF UdpSlots, udpSlots
<1>. QED  BY <1>2, <1>3, <1>4, <1>5, <1>6, <1>7, <1>10 DEF UdpInv

(* The expiry drops what it has found idle, one after the other.            *)
LEMMA DropIdleKeeps ==
  ASSUME UdpInv, DropIdle
  PROVE  UdpInv'
<1>1. /\ UdpTypeOK /\ TableKept /\ LoopsHold
      /\ LivesKnown /\ DropsApart /\ UdpStops /\ UdpSlots
  BY DEF UdpInv
<1>2. CASE expired = {}
  <2>1. UdpTypeOK'
    BY <1>1, <1>2 DEF UdpTypeOK, DropIdle, loop, table, stop, udpSlots
  <2>2. TableKept'
    BY <1>1, <1>2 DEF TableKept, DropIdle, table
  <2>3. LoopsHold'
    BY <1>1, <1>2 DEF LoopsHold, DropIdle, loop, table, stop, Free
  <2>4. LivesKnown'
    BY <1>1, <1>2 DEF LivesKnown, DropIdle, loop, table, Known, Free, Departing
  <2>5. DropsApart'
    BY <1>1, <1>2 DEF DropsApart, DropIdle, table, Known, Free, Departing
  <2>6. UdpStops'
    BY <1>1, <1>2 DEF UdpStops, DropIdle, table, stop, Known, Stopped, Free
  <2>7. UNCHANGED << Known, Leaving, Departing, udpSlots, loop >>
    BY <1>2 DEF DropIdle, Drop, Known, Leaving, Departing, table
  <2>8. UdpSlots'
    <3>. HIDE DEF Known, Leaving, Departing
    <3>. QED  BY <1>1, <2>7 DEF UdpSlots, udpSlots, loop
  <2>. QED  BY <2>1, <2>2, <2>3, <2>4, <2>5, <2>6, <2>8 DEF UdpInv
<1>3. ASSUME expired # {}
      PROVE  UdpInv'
  <2>0. /\ Free("expire") /\ expire = "drop"
        /\ UNCHANGED << loop, table, reader, stop, udpSlots, accounted, expire >>
    BY <1>3 DEF DropIdle
  <2>9. PICK s \in expired : Drop("expire", s) /\ expired' = expired \ {s}
    BY <1>3 DEF DropIdle
  <2>1. UdpTypeOK'
    BY <1>1, <2>0, <2>9 DEF UdpTypeOK, Drop, loop, table, stop, udpSlots
  <2>2. TableKept'
    BY <1>1, <2>0, <2>9 DEF TableKept, table
  <2>3. LoopsHold'
    BY <1>1, <2>0, <2>9 DEF LoopsHold, Drop, loop, table, stop, Free
  <2>4. LivesKnown'
    BY <1>1, <2>0, <2>9 DEF LivesKnown, Drop, loop, table, Known, Free, Departing
  <2>5. DropsApart'
    BY <1>1, <2>0, <2>9 DEF UdpTypeOK, LoopsHold, DropsApart, Drop, table, Known, Free,
      Departing
  <2>6. UdpStops'
    BY <1>1, <2>0, <2>9 DEF UdpStops, Drop, table, stop, Known, Stopped, Free
  <2>7. UNCHANGED << Known, Leaving, Departing, udpSlots, loop >>
    BY <1>1, <2>0, <2>9 DEF Drop, Known, Leaving, Departing, table, Free
  <2>8. UdpSlots'
    <3>. HIDE DEF Known, Leaving, Departing
    <3>. QED  BY <1>1, <2>7 DEF UdpSlots, udpSlots, loop
  <2>. QED  BY <2>1, <2>2, <2>3, <2>4, <2>5, <2>6, <2>8 DEF UdpInv
<1>. QED  BY <1>2, <1>3

(* beginStop drops what was in the table.                                  *)
LEMMA DropSnapshotKeeps ==
  ASSUME UdpInv, DropSnapshot
  PROVE  UdpInv'
<1>1. /\ UdpTypeOK /\ TableKept /\ LoopsHold
      /\ LivesKnown /\ DropsApart /\ UdpStops /\ UdpSlots
  BY DEF UdpInv
<1>2. CASE snapshot = {}
  <2>1. UdpTypeOK'
    BY <1>1, <1>2 DEF UdpTypeOK, DropSnapshot, loop, table, expiry, udpSlots
  <2>2. TableKept'
    BY <1>1, <1>2 DEF TableKept, DropSnapshot, table
  <2>3. LoopsHold'
    BY <1>1, <1>2 DEF LoopsHold, DropSnapshot, loop, table, expiry, Free
  <2>4. LivesKnown'
    BY <1>1, <1>2 DEF LivesKnown, DropSnapshot, loop, table, Known, Free,
      Departing
  <2>5. DropsApart'
    BY <1>1, <1>2 DEF DropsApart, DropSnapshot, table, Known, Free, Departing
  <2>6. UdpStops'
    BY <1>1, <1>2 DEF UdpStops, DropSnapshot, table, Known, Stopped, Free
  <2>7. UNCHANGED << Known, Leaving, Departing, udpSlots, loop >>
    BY <1>2 DEF DropSnapshot, Drop, Known, Leaving, Departing, table
  <2>8. UdpSlots'
    <3>. HIDE DEF Known, Leaving, Departing
    <3>. QED  BY <1>1, <2>7 DEF UdpSlots, udpSlots, loop
  <2>. QED  BY <2>1, <2>2, <2>3, <2>4, <2>5, <2>6, <2>8 DEF UdpInv
<1>3. ASSUME snapshot # {}
      PROVE  UdpInv'
  <2>0. /\ Free("stop") /\ udpStopping = "unbound"
        /\ UNCHANGED << loop, table, reader, expiry, udpSlots, accounted, udpStopping >>
    BY <1>3 DEF DropSnapshot
  <2>9. PICK s \in snapshot : Drop("stop", s) /\ snapshot' = snapshot \ {s}
    BY <1>3 DEF DropSnapshot
  <2>1. UdpTypeOK'
    BY <1>1, <2>0, <2>9 DEF UdpTypeOK, Drop, loop, table, expiry, udpSlots
  <2>2. TableKept'
    BY <1>1, <2>0, <2>9 DEF TableKept, table
  <2>3. LoopsHold'
    BY <1>1, <2>0, <2>9 DEF LoopsHold, Drop, loop, table, expiry, Free
  <2>4. LivesKnown'
    BY <1>1, <2>0, <2>9 DEF LivesKnown, Drop, loop, table, Known, Free, Departing
  <2>5. DropsApart'
    BY <1>1, <2>0, <2>9 DEF UdpTypeOK, LoopsHold, DropsApart, Drop, table, Known, Free,
      Departing
  <2>6. UdpStops'
    BY <1>1, <2>0, <2>9 DEF UdpTypeOK, UdpStops, Drop, table, Actors, Known,
      Stopped, Free
  <2>7. UNCHANGED << Known, Leaving, Departing, udpSlots, loop >>
    BY <1>1, <2>0, <2>9 DEF Drop, Known, Leaving, Departing, table, Free
  <2>8. UdpSlots'
    <3>. HIDE DEF Known, Leaving, Departing
    <3>. QED  BY <1>1, <2>7 DEF UdpSlots, udpSlots, loop
  <2>. QED  BY <2>1, <2>2, <2>3, <2>4, <2>5, <2>6, <2>8 DEF UdpInv
<1>. QED  BY <1>2, <1>3

(* dropSession takes a session out of the table at most once.              *)
LEMMA DropCheckKeeps ==
  ASSUME UdpInv, NEW a \in Actors, DropCheck(a)
  PROVE  UdpInv'
<1>1. /\ UdpTypeOK /\ TableKept /\ LoopsHold
      /\ LivesKnown /\ DropsApart /\ UdpStops /\ UdpSlots
  BY DEF UdpInv
<1>2. UdpTypeOK'
  BY <1>1 DEF UdpTypeOK, LivesKnown, DropsApart, DropCheck, DropAt, loop, expiry,
    stop, udpSlots, NoDrop, Free
<1>3. TableKept'
  BY <1>1 DEF UdpTypeOK, TableKept, DropCheck
<1>4. LoopsHold'
  BY <1>1 DEF LoopsHold, DropCheck, DropAt, loop, expiry, stop, Free
<1>5. /\ drop[a].at = "check"
      /\ UNCHANGED << udpServe, udpHand, clientOf, backends, reader, accounted >>
      /\ \A b \in Actors \ {a} : drop'[b] = drop[b]
  BY <1>1 DEF DropCheck, DropAt, loop, UdpTypeOK
<1>6. reader[drop[a].session] # "none"
  BY <1>1, <1>5 DEF DropsApart, Free
<1>7. ASSUME Stopped => \A s \in Known' \ snapshot : drop'["stop"].at = "check" /\ drop'["stop"].session = s
      PROVE  UdpStops'
  BY <1>1, <1>5, <1>7 DEF UdpStops, DropCheck, expiry, stop, Stopped, Free, Actors
<1>8. UNCHANGED << udpSlots, loop >>
  BY DEF DropCheck
<1>9. PICK s \in Sessions, c \in Clients : s = drop[a].session /\ c = clientOf[s]
  BY <1>1 DEF DropCheck, DropsApart, LivesKnown, Free, UdpTypeOK
<1>10. CASE sessions[c] = s
  <2>1. s \in Known /\ Known' = Known \ {s}
    BY <1>1, <1>9, <1>10 DEF DropCheck, Known, UdpTypeOK, TableKept
  <2>2. a \notin Leaving /\ Leaving' = Leaving \cup {a}
    BY <1>1, <1>9, <1>10 DEF DropCheck, DropAt, Leaving, UdpTypeOK, Actors
  <2>3. a \notin Departing /\ Departing' = Departing \cup {a}
    BY <1>1, <1>9, <1>10 DEF DropCheck, DropAt, Departing, UdpTypeOK, Actors
  <2>4. /\ IsFiniteSet(Known') /\ Cardinality(Known') = Cardinality(Known) - 1
        /\ IsFiniteSet(Leaving') /\ Cardinality(Leaving') = Cardinality(Leaving) + 1
        /\ IsFiniteSet(Departing') /\ Cardinality(Departing') = Cardinality(Departing) + 1
    BY <1>1, <2>1, <2>2, <2>3, FS_AddElement, FS_RemoveElement DEF UdpSlots
  <2>5. UdpSlots'
    <3>. HIDE DEF Known, Leaving, Departing
    <3>. QED  BY <1>1, <1>8, <2>4, CountsAreNumbers DEF UdpSlots, udpSlots, loop
  <2>6. drop'[a].at = "close" /\ drop'[a].session = s
    BY <1>1, <1>9, <1>10 DEF DropCheck, DropAt, UdpTypeOK
  <2>7. reader[s] # "none" /\ accounted[s] = 0
    BY <1>1, <1>6, <1>9, <2>1 DEF LivesKnown
  <2>8. \A b \in Departing : b # a /\ drop'[b] = drop[b]
    BY <1>5, <2>3 DEF Departing
  <2>9. LivesKnown'
    <3>. HIDE DEF Known, Departing
    <3>. SUFFICES ASSUME NEW t \in Sessions
                  PROVE  /\ clientOf[t] = None => reader[t] = "none" /\ t \notin backends
                         /\ reader[t] = "none" => t \notin Known' /\ accounted[t] = 0
                         /\ reader[t] # "none" =>
                              t \in Known' \/ accounted[t] = 1 \/ \E b \in Departing' : drop'[b].session = t
                         /\ reader[t] # "exited" => drop'[t].at = "no"
                         /\ t \in Known' => accounted[t] = 0
                         /\ t \in backends =>
                              \/ t \in Known'
                              \/ \E b \in Departing' : drop'[b].at = "close" /\ drop'[b].session = t
                              \/ udpServe = "insert" /\ udpHand = t
      BY <1>5 DEF LivesKnown, Free
    <3>1. reader[t] # "exited" => drop'[t].at = "no"
      BY <1>1, <1>5 DEF LivesKnown, Free, Actors
    <3>2. CASE t = s
      BY <1>1, <2>1, <2>3, <2>6, <2>7, <3>1, <3>2 DEF LivesKnown
    <3>3. CASE t # s
      BY <1>1, <2>1, <2>3, <2>8, <3>1, <3>3 DEF LivesKnown
    <3>. QED  BY <3>2, <3>3
  <2>10. DropsApart'
    <3>. HIDE DEF Known, Departing
    <3>1. \A b \in Departing : drop[b].session # s
      BY <1>1, <2>1 DEF DropsApart, Departing
    <3>2. ASSUME NEW b \in Actors, drop'[b].at # "no"
          PROVE  drop'[b].session \in Sessions /\ reader[drop'[b].session] # "none"
      BY <1>1, <1>5, <1>9, <2>6, <2>7, <3>2 DEF DropsApart, Free
    <3>3. ASSUME NEW b \in Departing'
          PROVE  /\ drop'[b].session \notin Known' /\ accounted[drop'[b].session] = 0
                 /\ \A d \in Departing' : drop'[d].session = drop'[b].session => b = d
      <4>1. CASE b = a
        BY <2>1, <2>3, <2>6, <2>7, <2>8, <3>1, <4>1
      <4>2. CASE b # a
        <5>1. b \in Departing /\ drop'[b].session = drop[b].session
          BY <2>3, <2>8, <3>3, <4>2
        <5>2. drop[b].session \notin Known /\ accounted[drop[b].session] = 0
          BY <1>1, <5>1 DEF DropsApart, Departing
        <5>3. ASSUME NEW d \in Departing', drop'[d].session = drop[b].session
              PROVE  b = d
          <6>1. d \in Departing /\ drop[d].session = drop[b].session
            BY <2>3, <2>6, <2>8, <3>1, <5>1, <5>3
          <6>. QED  BY <1>1, <5>1, <6>1 DEF DropsApart, Departing
        <5>. QED  BY <2>1, <5>1, <5>2, <5>3
      <4>. QED  BY <4>1, <4>2
    <3>. QED  BY <1>5, <3>2, <3>3 DEF DropsApart, Free
  <2>11. UdpStops'
    <3>. HIDE DEF Known
    <3>. QED  BY <1>1, <1>5, <1>7, <1>9, <2>1 DEF UdpStops, Actors
  <2>. QED  BY <1>2, <1>3, <1>4, <2>5, <2>9, <2>10, <2>11 DEF UdpInv
<1>11. CASE sessions[c] # s
  <2>1. UNCHANGED << Known, Leaving, Departing >>
    BY <1>1, <1>9, <1>11 DEF DropCheck, DropAt, NoDrop, Known, Leaving,
      Departing
  <2>2. UdpSlots'
    <3>. HIDE DEF Known, Leaving, Departing
    <3>. QED  BY <1>1, <1>8, <2>1 DEF UdpSlots, udpSlots, loop
  <2>3. drop'[a] = NoDrop /\ a \notin Departing
    BY <1>1, <1>5, <1>9, <1>11 DEF DropCheck, DropAt, UdpTypeOK, Departing
  <2>4. LivesKnown'
    <3>. HIDE DEF Known, Departing
    <3>1. \A b \in Departing : drop'[b] = drop[b]
      BY <1>5, <2>3 DEF Departing
    <3>2. \A t \in Sessions : reader[t] # "exited" => drop'[t].at = "no"
      BY <1>1, <1>5, <2>3 DEF LivesKnown, Free, Actors, NoDrop
    <3>3. Known' = Known /\ Departing' = Departing
      BY <2>1
    <3>. QED  BY <1>1, <1>5, <3>1, <3>2, <3>3 DEF LivesKnown, Free
  <2>5. DropsApart'
    <3>. HIDE DEF Known, Departing
    <3>1. \A b \in Departing : drop'[b] = drop[b]
      BY <1>5, <2>3 DEF Departing
    <3>. QED  BY <1>1, <1>5, <2>1, <2>3, <3>1 DEF DropsApart, Free, NoDrop
  <2>6. s \notin Known
    BY <1>1, <1>9, <1>11 DEF Known, TableKept
  <2>7. UdpStops'
    <3>. HIDE DEF Known
    <3>. QED  BY <1>1, <1>5, <1>7, <1>9, <2>1, <2>6 DEF UdpStops, Actors
  <2>. QED  BY <1>2, <1>3, <1>4, <2>2, <2>4, <2>5, <2>7 DEF UdpInv
<1>. QED  BY <1>10, <1>11

(* It closes the connection.                                               *)
LEMMA DropCloseKeeps ==
  ASSUME UdpInv, NEW a \in Actors, DropClose(a)
  PROVE  UdpInv'
<1>1. /\ UdpTypeOK /\ TableKept /\ LoopsHold
      /\ LivesKnown /\ DropsApart /\ UdpStops /\ UdpSlots
  BY DEF UdpInv
<1>2. UdpTypeOK'
  BY <1>1 DEF UdpTypeOK, DropClose, DropAt, loop, expiry, stop, udpSlots
<1>3. TableKept'
  BY <1>1 DEF TableKept, DropClose
<1>4. LoopsHold'
  BY <1>1 DEF LoopsHold, DropClose, DropAt, loop, expiry, stop, Free
<1>5. LivesKnown'
  BY <1>1 DEF LivesKnown, DropClose, DropAt, loop, Known, Free, Departing
<1>6. DropsApart'
  BY <1>1 DEF DropsApart, DropClose, DropAt, Known, Free, Departing
<1>7. UdpStops'
  BY <1>1 DEF UdpStops, DropClose, DropAt, loop, expiry, stop, Known,
    Stopped, Free
<1>8. UNCHANGED << Known, Leaving, Departing, udpSlots >>
  BY <1>1 DEF DropClose, DropAt, Known, Leaving, Departing
<1>9. /\ udpServe' \in {"dial", "insert", "routeBack"} <=> udpServe \in {"dial", "insert", "routeBack"}
      /\ udpServe' \in Holding <=> udpServe \in Holding
  BY DEF DropClose, loop, Holding
<1>10. UdpSlots'
  <2>. HIDE DEF Known, Leaving, Departing
  <2>. QED  BY <1>1, <1>8, <1>9 DEF UdpSlots, udpSlots
<1>. QED  BY <1>2, <1>3, <1>4, <1>5, <1>6, <1>7, <1>10 DEF UdpInv

(* It gives the slot of the route back.                                     *)
LEMMA DropRouteSlotKeeps ==
  ASSUME UdpInv, NEW a \in Actors, DropRouteSlot(a)
  PROVE  UdpInv'
<1>1. /\ UdpTypeOK /\ TableKept /\ LoopsHold
      /\ LivesKnown /\ DropsApart /\ UdpStops /\ UdpSlots
  BY DEF UdpInv
<1>3. TableKept'
  BY <1>1 DEF TableKept, DropRouteSlot, table
<1>4. LoopsHold'
  BY <1>1 DEF LoopsHold, DropRouteSlot, DropAt, loop, table, expiry, stop,
    Free
<1>5. LivesKnown'
  BY <1>1 DEF LivesKnown, DropRouteSlot, DropAt, loop, table, Known, Free,
    Departing
<1>6. DropsApart'
  BY <1>1 DEF DropsApart, DropRouteSlot, DropAt, table, Known, Free, Departing
<1>7. UdpStops'
  BY <1>1 DEF UdpStops, DropRouteSlot, DropAt, loop, table, expiry, stop,
    Known, Stopped, Free
<1>8. /\ UNCHANGED << Known, Departing, loop, udpGlobalSlots, elsewhere >>
      /\ udpRouteSlots' = udpRouteSlots - 1
  BY <1>1 DEF DropRouteSlot, DropAt, Known, Departing, table, UdpTypeOK, Actors
<1>9. a \in Leaving /\ Leaving' = Leaving \ {a}
  BY <1>1 DEF DropRouteSlot, DropAt, Leaving, UdpTypeOK, Actors
<1>10. /\ IsFiniteSet(Leaving') /\ Cardinality(Leaving') \in Nat
       /\ Cardinality(Leaving') = Cardinality(Leaving) - 1
  BY <1>1, <1>9, FS_RemoveElement, FS_CardinalityType DEF UdpSlots
<1>11. UdpSlots' /\ udpRouteSlots' \in 0 .. RouteLimit
  <2>. HIDE DEF Known, Leaving, Departing
  <2>. QED  BY <1>1, <1>8, <1>10, CountsAreNumbers DEF UdpSlots, loop, UdpTypeOK
<1>2. UdpTypeOK'
  BY <1>1, <1>11 DEF UdpTypeOK, DropRouteSlot, DropAt, loop, table, expiry,
    stop
<1>. QED  BY <1>2, <1>3, <1>4, <1>5, <1>6, <1>7, <1>11 DEF UdpInv

(* And that of all workers, and accounts for the traffic.                  *)
LEMMA DropGlobalSlotKeeps ==
  ASSUME UdpInv, NEW a \in Actors, DropGlobalSlot(a)
  PROVE  UdpInv'
<1>1. /\ UdpTypeOK /\ TableKept /\ LoopsHold
      /\ LivesKnown /\ DropsApart /\ UdpStops /\ UdpSlots
  BY DEF UdpInv
<1>3. TableKept'
  BY <1>1 DEF TableKept, DropGlobalSlot, table
<1>4. LoopsHold'
  BY <1>1 DEF LoopsHold, DropGlobalSlot, DropAt, loop, table, expiry,
    stop, Free
<1>5. LivesKnown'
  BY <1>1 DEF UdpTypeOK, LivesKnown, DropsApart, DropGlobalSlot, DropAt, loop,
    table, Known, Free, Departing
<1>6. DropsApart'
  BY <1>1 DEF UdpTypeOK, DropsApart, DropGlobalSlot, DropAt, table, NoDrop,
    Known, Free, Departing
<1>7. UdpStops'
  BY <1>1 DEF UdpStops, DropGlobalSlot, DropAt, loop, table, expiry, stop,
    Known, Stopped, Free
<1>8. /\ UNCHANGED << Known, Leaving, loop, udpRouteSlots, elsewhere >>
      /\ udpGlobalSlots' = udpGlobalSlots - 1
  BY <1>1 DEF DropGlobalSlot, DropAt, NoDrop, Known, Leaving, table
<1>9. a \in Departing /\ Departing' = Departing \ {a}
  BY <1>1 DEF DropGlobalSlot, DropAt, NoDrop, Departing, UdpTypeOK, Actors
<1>10. /\ IsFiniteSet(Departing') /\ Cardinality(Departing') \in Nat
       /\ Cardinality(Departing') = Cardinality(Departing) - 1
  BY <1>1, <1>9, FS_RemoveElement, FS_CardinalityType DEF UdpSlots
<1>11. UdpSlots' /\ udpGlobalSlots' \in 0 .. GlobalLimit
  <2>. HIDE DEF Known, Leaving, Departing
  <2>. QED  BY <1>1, <1>8, <1>10, CountsAreNumbers DEF UdpSlots, loop, UdpTypeOK
<1>12. accounted' \in [Sessions -> 0 .. 1]
  BY <1>1 DEF UdpTypeOK, DropGlobalSlot, DropAt, DropsApart, Departing, Free
<1>2. UdpTypeOK'
  BY <1>1, <1>11, <1>12 DEF UdpTypeOK, DropGlobalSlot, DropAt, NoDrop, loop,
    table, expiry, stop
<1>. QED  BY <1>2, <1>3, <1>4, <1>5, <1>6, <1>7, <1>11 DEF UdpInv

(* The invariant at the start.                                             *)
LEMMA UdpInitInvariant == UdpInit => UdpInv
<1>. SUFFICES ASSUME UdpInit PROVE UdpInv
  OBVIOUS
<1>1. UdpTypeOK
  <2>1. 0 \in 0 .. RouteLimit /\ 0 \in 0 .. GlobalLimit /\ 0 \in 0 .. 1
    OBVIOUS
  <2>2. NoDrop \in [at : {"no", "check", "close", "route", "global"},
                        session : Sessions \cup {None}]
    BY DEF NoDrop
  <2>. HIDE DEF NoDrop
  <2>. QED  BY <2>1, <2>2 DEF UdpInit, UdpTypeOK, UdpServing
<1>4. TableKept /\ LoopsHold /\ LivesKnown /\ DropsApart /\ UdpStops
  BY DEF UdpInit, TableKept, LoopsHold, LivesKnown, DropsApart, UdpStops, Free, NoDrop,
    Known, Departing, Stopped, Actors
<1>2. Known = {} /\ Leaving = {} /\ Departing = {}
  BY DEF UdpInit, Known, Leaving, Departing, NoDrop
<1>3. UdpSlots
  <2>. HIDE DEF Known, Leaving, Departing
  <2>. QED  BY <1>2, FS_EmptySet DEF UdpInit, UdpSlots, Holding
<1>. QED  BY <1>1, <1>3, <1>4 DEF UdpInv

(* The invariant across every step.                                        *)
LEMMA UdpNextInvariant == UdpInv /\ [UdpNext]_udpVars => UdpInv'
<1>. SUFFICES ASSUME UdpInv, [UdpNext]_udpVars PROVE UdpInv'
  OBVIOUS
<1>1. ASSUME \/ \E c \in Clients : Receive(c)
             \/ ReceiveFails \/ UdpServe \/ Write \/ WriteFails
      PROVE  UdpInv'
  BY <1>1, LoopKeeps, SlotsKeep, DialKeeps, InsertKeeps, WriteFailsKeeps DEF UdpServe
<1>2. ASSUME NEW s \in Sessions, BackendSpeaks(s) \/ ReadFails(s) \/ GrowIdle(s)
      PROVE  UdpInv'
  BY <1>2, ExpiryKeeps, ReadFailsKeeps
<1>3. CASE CollectIdle \/ DropIdle \/ ExpireExits
  BY <1>3, ExpiryKeeps, DropIdleKeeps
<1>4. ASSUME NEW a \in Actors, Dropping(a)
      PROVE  UdpInv'
  BY <1>4, DropCheckKeeps, DropCloseKeeps, DropRouteSlotKeeps, DropGlobalSlotKeeps DEF Dropping
<1>5. CASE UdpFlagStopped \/ CancelAndUnbind \/ DropSnapshot \/ UdpFinishStop
  BY <1>5, StopKeeps, DropSnapshotKeeps
<1>6. CASE Elsewhere
  BY <1>6, SlotsKeep
<1>7. CASE UNCHANGED udpVars
  <2>1. UdpTypeOK' /\ TableKept' /\ LoopsHold'
    BY <1>7 DEF udpVars, loop, table, expiry, stop, udpSlots, UdpInv, UdpTypeOK, TableKept, LoopsHold, Free
  <2>2. LivesKnown' /\ DropsApart'
    BY <1>7 DEF udpVars, loop, table, UdpInv, LivesKnown, DropsApart, Known, Departing, Free
  <2>3. UdpStops' /\ UdpSlots'
    BY <1>7 DEF udpVars, loop, table, expiry, stop, udpSlots, UdpInv, UdpStops, UdpSlots, Known, Leaving,
      Departing, Free, Stopped
  <2>. QED  BY <2>1, <2>2, <2>3 DEF UdpInv
<1>. QED  BY <1>1, <1>2, <1>3, <1>4, <1>5, <1>6, <1>7 DEF UdpNext

(* Throughout every execution of a UDP worker.                             *)
THEOREM UdpInvariant == UdpSpec => []UdpInv
BY UdpInitInvariant, UdpNextInvariant, PTL DEF UdpSpec

(* What the invariant says of slots, of backends and of a worker at rest.  *)
LEMMA UdpQuiet == UdpInv => SessionsLeakNothing
<1>. SUFFICES ASSUME UdpInv PROVE SessionsLeakNothing
  OBVIOUS
<1>1. /\ UdpTypeOK /\ TableKept /\ LoopsHold
      /\ LivesKnown /\ DropsApart /\ UdpStops /\ UdpSlots
  BY DEF UdpInv
<1>2. UdpSlotsBalanced
  BY <1>1, UdpCount DEF UdpSlotsBalanced, UdpSlots, Departing
<1>3. BackendsInHand
  BY <1>1 DEF BackendsInHand, LivesKnown, UdpTypeOK, Departing, Leaving
<1>4. UdpStoppedIsQuiet
  <2>. SUFFICES ASSUME udpStopping = "finished"
                PROVE  /\ Known = {} /\ backends = {} /\ udpRouteSlots = 0
                       /\ \A s \in Sessions : reader[s] # "none" => accounted[s] = 1
    BY DEF UdpStoppedIsQuiet
  <2>1. /\ udpServe = "exited" /\ expire = "exited" /\ snapshot = {}
        /\ \A a \in Actors : drop[a].at = "no"
    BY <1>1 DEF UdpStops, LoopsHold, Free, Actors
  <2>2. Known = {}
    <3>1. drop["stop"].at = "no"
      BY <2>1 DEF Actors
    <3>2. \A s \in Known : drop["stop"].at = "check"
      BY <1>1, <2>1 DEF UdpStops, Stopped
    <3>. QED  BY <3>1, <3>2
  <2>3. Leaving = {} /\ Departing = {}
    BY <2>1 DEF Leaving, Departing
  <2>4. backends = {}
    BY <1>1, <2>1, <2>2 DEF LivesKnown, UdpTypeOK, Departing
  <2>5. udpRouteSlots = 0
    <3>. HIDE DEF Known, Leaving, Departing
    <3>. QED  BY <1>1, <2>1, <2>2, <2>3, FS_EmptySet DEF UdpSlots
  <2>6. \A s \in Sessions : reader[s] # "none" => accounted[s] = 1
    BY <1>1, <2>2, <2>3 DEF LivesKnown
  <2>. QED  BY <2>2, <2>4, <2>5, <2>6
<1>. QED  BY <1>2, <1>3, <1>4 DEF SessionsLeakNothing

(* dropSession, the slots and finishStop of a UDP worker: slots, backends   *)
(* and sessions agree however drops race, and a finished stop leaves none. *)
THEOREM UdpLeaksNothing == UdpSpec => []SessionsLeakNothing
BY UdpInvariant, UdpQuiet, PTL

(* A UDP worker as the Manager takes it.                                   *)
UdpPhase ==
  [w \in {"this"} |->
     IF udpStopping = "finished" THEN "stopped"
     ELSE IF ~Stopped
       THEN IF udpServe = "exited" THEN "dead" ELSE "serving"
       ELSE IF udpServe = "exited" THEN "draining" ELSE "stopping"]
UdpSessions == Known \cup {drop[a].session : a \in Leaving}
UdpOpen == [w \in {"this"} |-> UdpSessions]
UdpStep == [UdpStreamWorker!WorkerNext]_(UdpStreamWorker!workerVars)

(* What changes neither is a stutter.                                      *)
LEMMA UdpStutters ==
  ASSUME UdpPhase' = UdpPhase, UdpOpen' = UdpOpen
  PROVE  UdpStep
BY DEF UdpStep, UdpPhase, UdpOpen, UdpSessions, UdpStreamWorker!workerVars

(* The loop goes on, and nobody drops a session.                           *)
LEMMA UdpLoopMaps ==
  ASSUME UdpInv, \/ \E c \in Clients : Receive(c)
                 \/ UdpAuthorize \/ UdpTakeGlobalSlot \/ UdpTakeRouteSlot
                 \/ UdpDial \/ RouteSlotBack \/ GlobalSlotBack \/ Touch \/ Write
  PROVE  UdpStep
<1>1. UdpPhase' = UdpPhase
  BY DEF Receive, UdpAuthorize, UdpTakeGlobalSlot, UdpTakeRouteSlot, UdpDial,
    RouteSlotBack, GlobalSlotBack, Touch, Write, UdpServeAt, stop,
    Stopped, UdpPhase
<1>2. UdpOpen' = UdpOpen
  BY DEF Receive, UdpAuthorize, UdpTakeGlobalSlot, UdpTakeRouteSlot, UdpDial,
    RouteSlotBack, GlobalSlotBack, Touch, Write, table, UdpOpen, UdpSessions,
    Known, Leaving
<1>. QED  BY <1>1, <1>2, UdpStutters

(* Backends and other workers neither end nor begin a session.             *)
LEMMA UdpOthersMap ==
  ASSUME UdpInv, \/ \E s \in Sessions : BackendSpeaks(s) \/ GrowIdle(s)
                 \/ CollectIdle \/ ExpireExits \/ CancelAndUnbind \/ Elsewhere
  PROVE  UdpStep
<1>1. UdpPhase' = UdpPhase
  BY DEF BackendSpeaks, GrowIdle, CollectIdle, ExpireExits, CancelAndUnbind,
    UdpStopAt, Elsewhere, loop, stop, Stopped, UdpPhase
<1>2. UdpOpen' = UdpOpen
  BY DEF BackendSpeaks, GrowIdle, CollectIdle, ExpireExits, CancelAndUnbind,
    Elsewhere, table, UdpOpen, UdpSessions, Known, Leaving
<1>. QED  BY <1>1, <1>2, UdpStutters

(* A session about to be dropped is still open.                            *)
LEMMA DropStarts ==
  ASSUME UdpTypeOK, NEW a \in Actors, NEW s, Free(a), Drop(a, s), UNCHANGED sessions
  PROVE  UdpOpen' = UdpOpen
<1>1. Known' = Known
  BY DEF Known
<1>2. Leaving' = Leaving /\ a \notin Leaving
  BY DEF UdpTypeOK, Free, Drop, Leaving
<1>3. \A b \in Leaving : drop'[b].session = drop[b].session
  BY <1>2 DEF UdpTypeOK, Drop, Leaving
<1>4. {drop[b].session : b \in Leaving}' = {drop[b].session : b \in Leaving}
  BY <1>2, <1>3
<1>. QED  BY <1>1, <1>4 DEF UdpOpen, UdpSessions

(* Nor does a goroutine that starts to drop one.                           *)
LEMMA UdpDropStartsMap ==
  ASSUME UdpInv, \/ WriteFails \/ DropIdle \/ DropSnapshot
                 \/ \E s \in Sessions : ReadFails(s)
  PROVE  UdpStep
<1>1. UdpPhase' = UdpPhase
  BY DEF WriteFails, ReadFails, DropIdle, DropSnapshot, UdpServeAt, loop,
    stop, Stopped, UdpPhase
<1>2. UdpOpen' = UdpOpen
  <2>1. UdpTypeOK /\ LivesKnown
    BY DEF UdpInv
  <2>2. CASE WriteFails
    BY <2>1, <2>2, DropStarts DEF WriteFails, UdpServeAt, table, Actors
  <2>3. ASSUME NEW s \in Sessions, ReadFails(s)
        PROVE  UdpOpen' = UdpOpen
    BY <2>1, <2>3, DropStarts DEF ReadFails, LivesKnown, table, Actors
  <2>4. CASE UNCHANGED drop /\ (DropIdle \/ DropSnapshot)
    BY <2>4 DEF DropIdle, DropSnapshot, table, UdpOpen, UdpSessions, Known,
      Leaving
  <2>5. CASE DropIdle /\ expired # {}
    BY <2>1, <2>5, DropStarts DEF DropIdle, table, Actors
  <2>6. CASE DropSnapshot /\ snapshot # {}
    BY <2>1, <2>6, DropStarts DEF DropSnapshot, table, Actors
  <2>. QED  BY <2>2, <2>3, <2>4, <2>5, <2>6 DEF DropIdle, DropSnapshot
<1>. QED  BY <1>1, <1>2, UdpStutters

(* A session that enters the table is opened, within both limits.          *)
LEMMA InsertMaps ==
  ASSUME UdpInv, Insert
  PROVE  UdpStep
<1>1. UdpTypeOK /\ LoopsHold /\ LivesKnown /\ DropsApart /\ UdpSlots
  BY DEF UdpInv
<1>2. UdpPhase' = UdpPhase
  BY DEF Insert, UdpServeAt, stop, Stopped, UdpPhase
<1>3. CASE udpServe' = "routeBack"
  <2>1. UdpOpen' = UdpOpen
    BY <1>3 DEF Insert, UdpServeAt, UdpOpen, UdpSessions, Known, Leaving
  <2>. QED  BY <1>2, <2>1, UdpStutters
<1>4. CASE udpServe' = "touch"
  <2>1. PICK s \in Sessions : s = udpHand
    BY <1>1 DEF Insert, UdpServeAt, LoopsHold
  <2>2. s \notin UdpSessions
    BY <1>1, <2>1 DEF Insert, UdpServeAt, LoopsHold, LivesKnown, DropsApart, UdpSessions,
      Leaving, Free
  <2>3. Known' = Known \cup {s}
    BY <1>1, <1>4, <2>1 DEF Insert, UdpServeAt, Known, UdpTypeOK, LoopsHold
  <2>4. UdpSessions' = UdpSessions \cup {s}
    BY <2>3 DEF Insert, UdpSessions, Leaving
  <2>5. IsFiniteSet(UdpSessions) /\ Cardinality(UdpSessions) < RouteLimit
                                 /\ Cardinality(UdpSessions) < GlobalLimit
    <3>. DEFINE Dropped == {drop[a].session : a \in Leaving}
    <3>1. IsFiniteSet(Dropped) /\ Cardinality(Dropped) <= Cardinality(Leaving)
      <4>. DEFINE named == [a \in Leaving |-> drop[a].session]
      <4>1. named \in Surjection(Leaving, Dropped)
        BY DEF Surjection, Dropped, named
      <4>. QED  BY <1>1, <4>1, FS_Surjection DEF UdpSlots
    <3>2. Leaving \subseteq Departing
      BY DEF Leaving, Departing
    <3>3. Cardinality(Leaving) <= Cardinality(Departing)
      BY <1>1, <3>2, FS_Subset DEF UdpSlots
    <3>4. /\ IsFiniteSet(Known \cup Dropped)
          /\ Cardinality(Known \cup Dropped) <= Cardinality(Known) + Cardinality(Dropped)
      <4>. HIDE DEF Dropped
      <4>1. /\ IsFiniteSet(Known \cup Dropped)
            /\ Cardinality(Known \cup Dropped)
                 = Cardinality(Known) + Cardinality(Dropped) - Cardinality(Known \cap Dropped)
        BY <1>1, <3>1, FS_Union DEF UdpSlots
      <4>2. Cardinality(Known \cap Dropped) \in Nat
        BY <1>1, FS_Subset, FS_CardinalityType DEF UdpSlots
      <4>3. Cardinality(Known) \in Nat /\ Cardinality(Dropped) \in Nat
        BY <1>1, <3>1, FS_CardinalityType DEF UdpSlots
      <4>. QED  BY <4>1, <4>2, <4>3
    <3>5. Cardinality(Dropped) \in Nat /\ Cardinality(Known \cup Dropped) \in Nat
      BY <3>1, <3>4, FS_CardinalityType
    <3>6. /\ udpServe = "insert" /\ elsewhere \in Nat
          /\ udpRouteSlots \in 0 .. RouteLimit /\ udpGlobalSlots \in 0 .. GlobalLimit
      BY <1>1 DEF Insert, UdpServeAt, UdpTypeOK
    <3>7. /\ udpRouteSlots = Cardinality(Known) + Cardinality(Leaving) + 1
          /\ udpGlobalSlots = Cardinality(Known) + Cardinality(Departing) + 1 + elsewhere
      BY <1>1, <3>6 DEF UdpSlots, Holding
    <3>8. /\ Cardinality(Known \cup Dropped) < RouteLimit
          /\ Cardinality(Known \cup Dropped) < GlobalLimit
      <4>. HIDE DEF Dropped, Known, Leaving, Departing
      <4>. QED  BY <1>1, <3>1, <3>3, <3>4, <3>5, <3>6, <3>7, CountsAreNumbers
    <3>. QED  BY <3>4, <3>8 DEF UdpSessions
  <2>6. UdpPhase["this"] = "serving"
    BY <1>4 DEF Insert, UdpServeAt, UdpPhase, Stopped
  <2>7. /\ UdpOpen["this"] = UdpSessions
        /\ UNION {UdpOpen[v] : v \in {"this"}} = UdpSessions
        /\ UdpOpen' = [UdpOpen EXCEPT !["this"] = UdpOpen["this"] \cup {s}]
    BY <2>4 DEF UdpOpen
  <2>8. /\ s \notin UNION {UdpOpen[v] : v \in {"this"}}
        /\ UdpStreamWorker!Cardinality(UdpOpen["this"]) < RouteLimit
        /\ UdpStreamWorker!Cardinality(UNION {UdpOpen[v] : v \in {"this"}}) < GlobalLimit
    BY <2>2, <2>5, <2>7, UdpCount
  <2>9. UdpStreamWorker!Open("this", s)
    BY <1>2, <2>6, <2>7, <2>8, Zenon DEF UdpStreamWorker!Open, UdpStreamWorker!AllOpen, UdpPhase, UdpOpen,
      UdpSessions
  <2>. QED  BY <2>9 DEF UdpStep, UdpStreamWorker!WorkerNext
<1>. QED  BY <1>3, <1>4 DEF Insert, UdpServeAt

(* One that has given its route slot back is closed.                       *)
LEMMA DropMaps ==
  ASSUME UdpInv, NEW a \in Actors, Dropping(a)
  PROVE  UdpStep
<1>1. UdpTypeOK /\ TableKept /\ LivesKnown /\ DropsApart
  BY DEF UdpInv
<1>2. UdpPhase' = UdpPhase
  BY DEF Dropping, DropCheck, DropClose, DropRouteSlot, DropGlobalSlot,
    loop, stop, Stopped, UdpPhase
<1>3. PICK s \in Sessions : s = drop[a].session
  BY <1>1 DEF Dropping, DropCheck, DropClose, DropRouteSlot, DropGlobalSlot,
    DropAt, DropsApart, Free
<1>4. CASE DropCheck(a)
  <2>1. PICK c \in Clients : c = clientOf[s]
    BY <1>1, <1>3, <1>4 DEF DropCheck, DropsApart, LivesKnown, Free, UdpTypeOK
  <2>2. CASE sessions[c] = s
    <3>1. s \in Known /\ Known' = Known \ {s}
      BY <1>1, <1>3, <1>4, <2>1, <2>2 DEF DropCheck, Known, UdpTypeOK, TableKept
    <3>2. /\ Leaving' = Leaving \cup {a}
          /\ \A b \in Actors : drop'[b].session = drop[b].session
      BY <1>1, <1>3, <1>4, <2>1, <2>2 DEF DropCheck, DropAt, Leaving, UdpTypeOK,
        Actors
    <3>3. {drop[b].session : b \in Leaving}' = {drop[b].session : b \in Leaving} \cup {s}
      BY <1>3, <3>2 DEF Leaving
    <3>. QED  BY <1>2, <3>1, <3>3, UdpStutters DEF UdpOpen, UdpSessions
  <2>3. CASE sessions[c] # s
    <3>1. Known' = Known
      BY <1>3, <1>4, <2>1, <2>3 DEF DropCheck, Known
    <3>2. /\ Leaving' = Leaving
          /\ \A b \in Leaving : drop'[b].session = drop[b].session
      BY <1>1, <1>3, <1>4, <2>1, <2>3 DEF DropCheck, DropAt, NoDrop, Leaving,
        UdpTypeOK, Actors
    <3>3. {drop[b].session : b \in Leaving}' = {drop[b].session : b \in Leaving}
      BY <3>2
    <3>. QED  BY <1>2, <3>1, <3>3, UdpStutters DEF UdpOpen, UdpSessions
  <2>. QED  BY <2>2, <2>3
<1>5. CASE DropClose(a) \/ DropGlobalSlot(a)
  <2>1. Known' = Known
    BY <1>5 DEF DropClose, DropGlobalSlot, table, Known
  <2>2. /\ Leaving' = Leaving
        /\ \A b \in Leaving : drop'[b].session = drop[b].session
    BY <1>1, <1>5 DEF DropClose, DropGlobalSlot, DropAt, NoDrop, Leaving,
      UdpTypeOK, Actors
  <2>3. {drop[b].session : b \in Leaving}' = {drop[b].session : b \in Leaving}
    BY <2>2
  <2>. QED  BY <1>2, <2>1, <2>3, UdpStutters DEF UdpOpen, UdpSessions
<1>6. CASE DropRouteSlot(a)
  <2>1. Known' = Known /\ s \notin Known
    BY <1>1, <1>3, <1>6 DEF DropRouteSlot, DropAt, table, Known, DropsApart,
      Departing
  <2>2. /\ a \in Leaving /\ Leaving' = Leaving \ {a}
        /\ \A b \in Actors : drop'[b].session = drop[b].session
    BY <1>1, <1>6 DEF DropRouteSlot, DropAt, Leaving, UdpTypeOK, Actors
  <2>3. \A b \in Leaving \ {a} : drop[b].session # s
    BY <1>1, <1>3, <2>2 DEF DropsApart, Leaving, Departing
  <2>4. {drop[b].session : b \in Leaving}' = {drop[b].session : b \in Leaving} \ {s}
    BY <1>3, <2>2, <2>3 DEF Leaving
  <2>5. s \in UdpSessions /\ UdpSessions' = UdpSessions \ {s}
    BY <1>3, <2>1, <2>2, <2>4 DEF UdpSessions
  <2>6. s \in UdpOpen["this"] /\ UdpOpen' = [UdpOpen EXCEPT !["this"] = UdpOpen["this"] \ {s}]
    BY <2>5 DEF UdpOpen
  <2>7. UdpStreamWorker!Close("this", s)
    BY <1>2, <2>6, Zenon DEF UdpStreamWorker!Close, UdpPhase, UdpOpen, UdpSessions
  <2>. QED  BY <2>7 DEF UdpStep, UdpStreamWorker!WorkerNext
<1>. QED  BY <1>4, <1>5, <1>6 DEF Dropping

(* The receive loop ends, and a stop begins and finishes.                  *)
LEMMA UdpStopMaps ==
  ASSUME UdpInv, ReceiveFails \/ UdpFlagStopped \/ UdpFinishStop
  PROVE  UdpStep
<1>1. UdpInv /\ UdpTypeOK /\ LoopsHold /\ UdpStops
  BY DEF UdpInv
<1>2. UdpOpen' = UdpOpen
  BY DEF ReceiveFails, UdpFlagStopped, UdpFinishStop, table, UdpOpen, UdpSessions,
    Known, Leaving
<1>3. CASE ReceiveFails
  <2>1. \/ UdpPhase["this"] = "serving" /\ UdpPhase' = [UdpPhase EXCEPT !["this"] = "dead"]
        \/ UdpPhase["this"] = "stopping" /\ UdpPhase' = [UdpPhase EXCEPT !["this"] = "draining"]
    BY <1>1, <1>3 DEF ReceiveFails, UdpServeAt, stop, Stopped, UdpStops, UdpPhase
  <2>2. UdpStreamWorker!LoopEnds("this")
    BY <1>2, <2>1 DEF UdpStreamWorker!LoopEnds, UdpStreamWorker!Moves, UdpPhase, UdpOpen, UdpSessions
  <2>. QED  BY <2>2 DEF UdpStep, UdpStreamWorker!WorkerNext
<1>4. CASE UdpFlagStopped
  <2>1. \/ UdpPhase["this"] = "serving" /\ UdpPhase' = [UdpPhase EXCEPT !["this"] = "stopping"]
        \/ UdpPhase["this"] = "dead" /\ UdpPhase' = [UdpPhase EXCEPT !["this"] = "draining"]
    BY <1>4 DEF UdpFlagStopped, UdpStopAt, loop, Stopped, UdpPhase
  <2>2. UdpStreamWorker!BeginStop("this")
    BY <1>2, <2>1 DEF UdpStreamWorker!BeginStop, UdpStreamWorker!Moves, UdpPhase, UdpOpen, UdpSessions
  <2>. QED  BY <2>2 DEF UdpStep, UdpStreamWorker!WorkerNext
<1>5. CASE UdpFinishStop
  <2>1. UdpPhase["this"] = "draining" /\ UdpPhase' = [UdpPhase EXCEPT !["this"] = "stopped"]
    BY <1>5 DEF UdpFinishStop, UdpStopAt, Stopped, UdpPhase
  <2>2. UdpOpen["this"] = {}
    <3>1. UdpInv' /\ udpStopping' = "finished" /\ UNCHANGED << table, drop >>
      BY <1>5, StopKeeps DEF UdpFinishStop, UdpStopAt
    <3>2. SessionsLeakNothing'
      BY <3>1, UdpQuiet, PTL
    <3>3. Known' = {}
      BY <3>1, <3>2 DEF SessionsLeakNothing, UdpStoppedIsQuiet
    <3>4. Leaving = {}
      BY <1>1, <1>5 DEF UdpFinishStop, UdpStopAt, LoopsHold, UdpStops, Free, Leaving,
        Actors
    <3>. QED  BY <3>1, <3>3, <3>4 DEF UdpOpen, UdpSessions, Known, table
  <2>3. UdpStreamWorker!FinishStop("this")
    BY <1>2, <2>1, <2>2, Zenon DEF UdpStreamWorker!FinishStop, UdpStreamWorker!Moves, UdpPhase, UdpOpen,
      UdpSessions
  <2>. QED  BY <2>3 DEF UdpStep, UdpStreamWorker!WorkerNext
<1>. QED  BY <1>3, <1>4, <1>5

(* Every step is one of StreamWorker's, or none.                           *)
LEMMA UdpStepsMap == UdpInv /\ [UdpNext]_udpVars => UdpStep
<1>. SUFFICES ASSUME UdpInv, [UdpNext]_udpVars PROVE UdpStep
  OBVIOUS
<1>1. ASSUME \/ \E c \in Clients : Receive(c)
             \/ ReceiveFails \/ UdpServe \/ Write \/ WriteFails
      PROVE  UdpStep
  BY <1>1, UdpLoopMaps, InsertMaps, UdpStopMaps, UdpDropStartsMap DEF UdpServe
<1>2. ASSUME NEW s \in Sessions, BackendSpeaks(s) \/ ReadFails(s) \/ GrowIdle(s)
      PROVE  UdpStep
  BY <1>2, UdpOthersMap, UdpDropStartsMap
<1>3. CASE CollectIdle \/ DropIdle \/ ExpireExits
  BY <1>3, UdpOthersMap, UdpDropStartsMap
<1>4. ASSUME NEW a \in Actors, Dropping(a)
      PROVE  UdpStep
  BY <1>4, DropMaps
<1>5. CASE UdpFlagStopped \/ CancelAndUnbind \/ DropSnapshot \/ UdpFinishStop
  BY <1>5, UdpStopMaps, UdpOthersMap, UdpDropStartsMap
<1>6. CASE Elsewhere
  BY <1>6, UdpOthersMap
<1>7. CASE UNCHANGED udpVars
  BY <1>7, UdpStutters DEF udpVars, loop, table, stop, UdpPhase, Stopped,
    UdpOpen, UdpSessions, Known, Leaving
<1>. QED  BY <1>1, <1>2, <1>3, <1>4, <1>5, <1>6, <1>7 DEF UdpNext

(* A fresh worker serves and has no session.                               *)
LEMMA UdpInitMaps == UdpInit => UdpStreamWorker!WorkerInit
BY DEF UdpInit, UdpStreamWorker!WorkerInit, Known, Leaving, NoDrop, Stopped

(* A UDP worker keeps what the Manager relies on: phases in order, limits,  *)
(* and no session left when FinishStop returns.                            *)
THEOREM UdpImplements == UdpSpec => UdpImplementsStreamWorker
<1>1. UdpSpec => UdpStreamWorker!WorkerInit /\ [][UdpStreamWorker!WorkerNext]_(UdpStreamWorker!workerVars)
  BY UdpInvariant, UdpInitMaps, UdpStepsMap, PTL DEF UdpSpec, UdpStep
<1>. QED  BY <1>1 DEF UdpImplementsStreamWorker, UdpStreamWorker!WorkerSpec
=============================================================================

----------------------------- MODULE ServerProofs -----------------------------
(***************************************************************************)
(* Proofs about Server and the web ports it serves, for any routes, ports  *)
(* and faults.                                                             *)
(*                                                                         *)
(* Argument. The index of the old schema tells which rows may still carry  *)
(* the old scheme: it goes only after they have been rewritten, so while   *)
(* it is there nobody has asked for anything but https, and once it is     *)
(* gone every row says what was asked. A socket's entry goes only after    *)
(* its goroutine has returned, and by then, whether Shutdown found it      *)
(* accepting or not, the socket is closed (ReturnedClosed); or else after  *)
(* the wait for it was given up.                                           *)
(***************************************************************************)
EXTENDS Server, TLAPS

USE NoneAssumption, MaxFaultsAssumption

Stages == {"down", "add columns", "rewrite", "drop index", "create indexes", "record", "keys", "up"}

ServerTypeOK ==
  /\ TypeOK
  /\ stage \in Stages
  /\ asked \in [Ids -> Schemes \cup {None}]

(* The rows say what was asked of them. *)
AsAsked == \A i \in Ids : routes[i] # None => routes[i].scheme = asked[i]

(* The index stands for rows of the old schema, of which only https was    *)
(* ever asked; past the statement that drops it, it is gone.               *)
IndexMarksOld ==
  /\ "routes_http_domain" \in schema =>
       /\ ~Migrated
       /\ \A i \in Ids : routes[i] # None => asked[i] = "https"
  /\ "routes_http_domain" \notin schema => AsAsked
  /\ stage = "rewrite" => "routes_http_domain" \in schema
  /\ stage = "drop index" => AsAsked
  /\ stage \in {"create indexes", "record", "keys", "up"} => "routes_http_domain" \notin schema

(* A server that has returned accepts on nothing. *)
ReturnedClosed == \A p \in Ports : serve[p] = "returned" => listening[p] = None

Owned == ReturnedClosed /\ ListenersOwned

IInv == ServerTypeOK /\ IndexMarksOld /\ Owned

-----------------------------------------------------------------------------
(* The web ports.                                                          *)

(* What a poll finds on a port is a scheme, a conflict or nothing. *)
LEMMA ListedType ==
  ASSUME TypeOK
  PROVE  Listed \in [Ports -> Schemes \cup {"conflict", None}]
<1>. SUFFICES ASSUME NEW p \in Ports PROVE Listed[p] \in Schemes \cup {"conflict", None}
  BY DEF Listed
<1>1. SchemesOn(p) \subseteq Schemes
  BY DEF TypeOK, SchemesOn
<1>2. SchemesOn(p) # {} => (CHOOSE s \in SchemesOn(p) : TRUE) \in SchemesOn(p)
  OBVIOUS
<1>. QED  BY <1>1, <1>2 DEF Listed

(* The manager's steps and its surroundings keep the types. *)
LEMMA PortsType ==
  ASSUME TypeOK, Next
  PROVE  TypeOK'
<1>. USE DEF TypeOK, serverOf, poll
<1>1. Clear \in [Ports -> Status \cup {None}]
  BY DEF Clear
<1>2. CASE ListRoutes
  <2>1. built' \in [Ports -> Status \cup {None}]
    BY <1>2 DEF ListRoutes, Status
  <2>. QED  BY <1>2, <2>1, ListedType DEF ListRoutes
<1>3. CASE AllStopped \/ Publish \/ Exited \/ ListFails \/ Cancel
  BY <1>1, <1>3 DEF AllStopped, Publish, Exited, ListFails, Cancel, Fault
<1>4. ASSUME NEW i \in Ids, Configure(i) \/ Withdraw(i)
      PROVE  TypeOK'
  <2>1. PICK row \in [port : Ports \cup {None}, scheme : Schemes] \cup {None} : routes' = [routes EXCEPT ![i] = row]
    <3>1. CASE Withdraw(i)
      BY <3>1 DEF Withdraw
    <3>2. CASE Configure(i)
      <4>1. PICK p \in Ports \cup {None}, s \in Schemes : routes' = [routes EXCEPT ![i] = [port |-> p, scheme |-> s]]
        BY <3>2 DEF Configure
      <4>2. [port |-> p, scheme |-> s] \in [port : Ports \cup {None}, scheme : Schemes]
        OBVIOUS
      <4>. QED  BY <4>1, <4>2
    <3>. QED  BY <1>4, <3>1, <3>2
  <2>. QED  BY <1>4, <2>1 DEF Configure, Withdraw
<1>5. ASSUME NEW p \in Ports, OtherProgram(p) \/ Goroutine(p) \/ ServeFails(p)
      PROVE  TypeOK'
  BY <1>5 DEF OtherProgram, Goroutine, ServeBegins, ServeReturns, ServeFails, Fault
<1>6. ASSUME NEW p \in Ports, Shutdown(p) \/ Stopped(p) \/ WaitTimesOut(p)
      PROVE  TypeOK'
  BY <1>6 DEF Shutdown, Stopped, WaitTimesOut, Forget, Fault
<1>7. ASSUME NEW p \in Ports, KeepServer(p) \/ StartServer(p) \/ BindFails(p)
      PROVE  TypeOK'
  BY <1>7 DEF KeepServer, StartServer, BindFails, Pending, Status
<1>. QED  BY <1>2, <1>3, <1>4, <1>5, <1>6, <1>7 DEF Next, Reconcile, StopUnwanted, StopAll

(* A socket is closed before its entry goes, or the wait was given up. *)
LEMMA PortsOwned ==
  ASSUME TypeOK, Owned, Next
  PROVE  Owned'
<1>. USE DEF Owned, ReturnedClosed, ListenersOwned, serverOf, poll
<1>0. /\ listening \in [Ports -> Schemes \cup {None}]
      /\ servers \in [Ports -> Schemes \cup {None}]
      /\ serve \in [Ports -> {"off", "starting", "accepting", "returned"}]
  BY DEF TypeOK
<1>1. CASE Exited
  <2>1. \A p \in Ports : servers[p] = None
    BY <1>1 DEF Exited, Clear
  <2>2. \A p \in Ports : listening[p] # None => p \in gaveUp
    BY <2>1
  <2>. QED  BY <1>1, <2>2 DEF Exited
<1>2. CASE ListRoutes \/ AllStopped \/ Publish \/ ListFails \/ Cancel
  BY <1>2 DEF ListRoutes, AllStopped, Publish, ListFails, Cancel
<1>3. ASSUME NEW i \in Ids, Configure(i) \/ Withdraw(i)
      PROVE  Owned'
  BY <1>3 DEF Configure, Withdraw
<1>4. ASSUME NEW p \in Ports, OtherProgram(p) \/ KeepServer(p) \/ BindFails(p)
      PROVE  Owned'
  BY <1>4 DEF OtherProgram, KeepServer, BindFails
<1>5. ASSUME NEW p \in Ports, ServeBegins(p)
      PROVE  Owned'
  BY <1>0, <1>5 DEF ServeBegins
<1>6. ASSUME NEW p \in Ports, ServeReturns(p)
      PROVE  Owned'
  BY <1>0, <1>6 DEF ServeReturns
<1>7. ASSUME NEW p \in Ports, ServeFails(p)
      PROVE  Owned'
  BY <1>0, <1>7 DEF ServeFails
<1>8. ASSUME NEW p \in Ports, Shutdown(p)
      PROVE  Owned'
  BY <1>0, <1>8 DEF Shutdown
<1>9. ASSUME NEW p \in Ports, Stopped(p)
      PROVE  Owned'
  <2>1. listening[p] = None
    BY <1>9 DEF Stopped
  <2>. QED  BY <1>0, <1>9, <2>1 DEF Stopped, Forget
<1>10. ASSUME NEW p \in Ports, WaitTimesOut(p)
       PROVE  Owned'
  <2>1. gaveUp \subseteq gaveUp' /\ (listening[p] # None => p \in gaveUp')
    BY <1>10 DEF WaitTimesOut
  <2>. QED  BY <1>0, <1>10, <2>1 DEF WaitTimesOut, Forget
<1>11. ASSUME NEW p \in Ports, StartServer(p)
       PROVE  Owned'
  BY <1>0, <1>11 DEF StartServer, Pending
<1>. QED  BY <1>1, <1>2, <1>3, <1>4, <1>5, <1>6, <1>7, <1>8, <1>9, <1>10, <1>11
          DEF Next, Reconcile, Goroutine, StopUnwanted, StopAll

(* Polls, listing failures and other programs concern no route. *)
LEMMA RoutesKept ==
  ASSUME \/ Reconcile \/ ListFails \/ Cancel
         \/ \E p \in Ports : OtherProgram(p) \/ Goroutine(p) \/ ServeFails(p) \/ WaitTimesOut(p)
  PROVE  UNCHANGED routes
BY DEF Reconcile, ListFails, Cancel, ListRoutes, AllStopped, Publish, Exited, OtherProgram,
       Goroutine, ServeBegins, ServeReturns, ServeFails, StopUnwanted, StopAll, Shutdown, Stopped,
       WaitTimesOut, Forget, KeepServer, StartServer, BindFails

-----------------------------------------------------------------------------
(* The server.                                                             *)

(* Nothing is served at first, and the index tells what the database is. *)
LEMMA InitInvariant == ServerInit => IInv
<1>. SUFFICES ASSUME ServerInit PROVE IInv
  OBVIOUS
<1>1. routes \in [Ids -> [port : Ports \cup {None}, scheme : Schemes] \cup {None}]
  <2>1. CASE routes = [i \in Ids |-> None]
    BY <2>1
  <2>2. CASE routes \in [Ids -> {None, [port |-> None, scheme |-> "http"]}]
    <3>1. [port |-> None, scheme |-> "http"] \in [port : Ports \cup {None}, scheme : Schemes]
      BY DEF Schemes
    <3>. QED  BY <2>2, <3>1
  <2>. QED  BY <2>1, <2>2 DEF ServerInit
<1>2. ServerTypeOK
  <2>1. /\ Clear \in [Ports -> Schemes \cup {None}]
        /\ Clear \in [Ports -> Schemes \cup {"conflict", None}]
        /\ Clear \in [Ports -> Status \cup {None}]
    BY DEF Clear
  <2>2. asked \in [Ids -> Schemes \cup {None}]
    BY DEF ServerInit, Schemes
  <2>. QED  BY <1>1, <2>1, <2>2 DEF ServerInit, NoServers, ServerTypeOK, TypeOK, Stages
<1>3. IndexMarksOld
  BY DEF ServerInit, IndexMarksOld, AsAsked, Migrated
<1>4. Owned
  BY DEF ServerInit, NoServers, Owned, ReturnedClosed, ListenersOwned, Clear
<1>. QED  BY <1>2, <1>3, <1>4 DEF IInv

(* The statements of the migration, each of which may be the last one. *)
LEMMA StartKeeps ==
  ASSUME IInv, Start
  PROVE  IInv'
<1>. USE DEF Goes
<1>0. ServerTypeOK /\ IndexMarksOld /\ routes \in [Ids -> [port : Ports \cup {None}, scheme : Schemes] \cup {None}]
  BY DEF IInv, ServerTypeOK, TypeOK
<1>1. /\ UNCHANGED << foreign, serverOf, poll, pc, faults, asked >>
      /\ stage' \in Stages
  BY <1>0 DEF Start, Open, AddColumns, Rewrite, DropIndex, CreateIndexes, Record, Serve, After, ServerTypeOK, Stages
<1>2. routes' = routes \/ Rewrite
  BY DEF Start, Open, AddColumns, DropIndex, CreateIndexes, Record, Serve
<1>3. routes' \in [Ids -> [port : Ports \cup {None}, scheme : Schemes] \cup {None}]
  <2>1. CASE Rewrite
    <3>1. \A i \in Ids : routes[i] # None =>
            [routes[i] EXCEPT !.scheme = "https"] \in [port : Ports \cup {None}, scheme : Schemes]
      BY <1>0 DEF Schemes
    <3>. QED  BY <2>1, <3>1 DEF Rewrite
  <2>. QED  BY <1>0, <1>2, <2>1
<1>4. ServerTypeOK'
  BY <1>0, <1>1, <1>3 DEF ServerTypeOK, TypeOK, serverOf, poll
<1>5. Owned'
  BY <1>1 DEF IInv, Owned, ReturnedClosed, ListenersOwned, serverOf
<1>6. IndexMarksOld'
  <2>. USE <1>0 DEF IndexMarksOld, AsAsked, Migrated
  <2>1. CASE Open
    BY <2>1 DEF Open
  <2>2. CASE AddColumns
    BY <2>2 DEF AddColumns, After, Columns
  <2>3. CASE Rewrite
    <3>1. \A i \in Ids : routes'[i] # None => routes[i] # None /\ routes'[i].scheme = "https"
      BY <2>3 DEF Rewrite
    <3>. QED  BY <2>3, <3>1 DEF Rewrite, After
  <2>4. CASE DropIndex
    BY <2>4 DEF DropIndex, After
  <2>5. CASE CreateIndexes
    BY <2>5 DEF CreateIndexes, After, Indexes
  <2>6. CASE Record
    BY <2>6 DEF Record
  <2>7. CASE Serve
    BY <2>7 DEF Serve
  <2>. QED  BY <2>1, <2>2, <2>3, <2>4, <2>5, <2>6, <2>7 DEF Start
<1>. QED  BY <1>4, <1>5, <1>6 DEF IInv

(* The end of the process closes its sockets, and leaves the database. *)
LEMMA EndsKeeps ==
  ASSUME IInv, ShutDown \/ Dies
  PROVE  IInv'
<1>1. Ends /\ faults' \in 0 .. MaxFaults
  BY DEF ShutDown, Dies, Fault, IInv, ServerTypeOK, TypeOK
<1>2. /\ Clear \in [Ports -> Schemes \cup {None}]
      /\ Clear \in [Ports -> Schemes \cup {"conflict", None}]
      /\ Clear \in [Ports -> Status \cup {None}]
  BY DEF Clear
<1>3. ServerTypeOK'
  BY <1>1, <1>2 DEF Ends, IInv, ServerTypeOK, TypeOK, Stages
<1>4. IndexMarksOld'
  BY <1>1 DEF Ends, IInv, IndexMarksOld, AsAsked, Migrated
<1>5. Owned'
  BY <1>1 DEF Ends, Owned, ReturnedClosed, ListenersOwned, Clear
<1>. QED  BY <1>3, <1>4, <1>5 DEF IInv

(* What is asked while the server serves is what the row says. *)
LEMMA AdministerKeeps ==
  ASSUME IInv, NEW i \in Ids, Administer(i)
  PROVE  IInv'
<1>1. Next /\ TypeOK /\ Owned
  BY DEF Administer, Next, IInv, ServerTypeOK
<1>2. TypeOK' /\ Owned'
  BY <1>1, PortsType, PortsOwned
<1>3. /\ asked' = [asked EXCEPT ![i] = IF routes'[i] = None THEN None ELSE routes'[i].scheme]
      /\ UNCHANGED << schema, stage >> /\ stage = "up"
      /\ \A j \in Ids \ {i} : routes'[j] = routes[j]
  BY <1>1 DEF Administer, Configure, Withdraw, TypeOK
<1>4. routes'[i] # None => routes'[i].scheme \in Schemes
  BY <1>2 DEF TypeOK
<1>5. ServerTypeOK'
  BY <1>2, <1>3, <1>4 DEF IInv, ServerTypeOK
<1>6. IndexMarksOld'
  <2>1. asked \in [Ids -> Schemes \cup {None}]
    BY DEF IInv, ServerTypeOK
  <2>. QED  BY <1>3, <2>1 DEF IInv, IndexMarksOld, AsAsked
<1>. QED  BY <1>2, <1>5, <1>6 DEF IInv

(* Serving, and other programs, change neither the rows nor the schema. *)
LEMMA ServingKeeps ==
  ASSUME IInv,
         \/ Serving(Reconcile) \/ Serving(ListFails) \/ Serving(Cancel)
         \/ \E p \in Ports : \/ Serving(Goroutine(p)) \/ Serving(ServeFails(p))
                             \/ Serving(WaitTimesOut(p))
                             \/ OtherProgram(p) /\ UNCHANGED << schema, stage, asked >>
  PROVE  IInv'
<1>1. /\ Next /\ UNCHANGED << schema, stage, asked >>
      /\ \/ Reconcile \/ ListFails \/ Cancel
         \/ \E p \in Ports : OtherProgram(p) \/ Goroutine(p) \/ ServeFails(p) \/ WaitTimesOut(p)
  BY DEF Serving, Next
<1>2. UNCHANGED routes
  BY <1>1, RoutesKept
<1>3. TypeOK' /\ Owned'
  BY <1>1, PortsType, PortsOwned DEF IInv, ServerTypeOK
<1>4. IndexMarksOld'
  BY <1>1, <1>2 DEF IInv, IndexMarksOld, AsAsked, Migrated
<1>. QED  BY <1>1, <1>3, <1>4 DEF IInv, ServerTypeOK

(* The invariant holds through every start, crash and migration. *)
THEOREM Invariant == ServerSpec => []IInv
<1>1. IInv /\ [ServerNext]_serverVars => IInv'
  <2>. SUFFICES ASSUME IInv, [ServerNext]_serverVars PROVE IInv'
    OBVIOUS
  <2>1. CASE ServerNext
    BY <2>1, StartKeeps, EndsKeeps, AdministerKeeps, ServingKeeps DEF ServerNext
  <2>2. CASE UNCHANGED serverVars
    BY <2>2
    DEF serverVars, vars, serverOf, poll, IInv, ServerTypeOK, TypeOK, IndexMarksOld, AsAsked,
        Migrated, Owned, ReturnedClosed, ListenersOwned
  <2>. QED  BY <2>1, <2>2
<1>. QED  BY InitInvariant, <1>1, PTL DEF ServerSpec

-----------------------------------------------------------------------------
(* ensureWebRouteSchema rewrites the old rows once, wherever the migration *)
(* was interrupted: what is served has the scheme last asked for.          *)
THEOREM SchemesAreKept == ServerSpec => []SchemesKept
<1>1. IInv => SchemesKept
  BY DEF IInv, IndexMarksOld, AsAsked, SchemesKept
<1>. QED  BY <1>1, Invariant, PTL

(* Every socket of PortsManager has an entry that will close it, and none  *)
(* is left when Run returns, unless stop gave up waiting for its server.   *)
THEOREM SocketsAreOwned == ServerSpec => []ListenersOwned
<1>1. IInv => ListenersOwned
  BY DEF IInv, Owned
<1>. QED  BY <1>1, Invariant, PTL
===============================================================================

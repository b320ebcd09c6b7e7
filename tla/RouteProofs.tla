---------------------------- MODULE RouteProofs -----------------------------
(***************************************************************************)
(* Proofs about the routes in the database and the two that read them, for *)
(* every number of agents, routes, ports, requests, revisions and faults:  *)
(* RouteStore, then AgentSync and Gateway, whose steps on the database are *)
(* its own.                                                                *)
(***************************************************************************)
EXTENDS AgentSync, Gateway, SequenceTheorems, TLAPS

-----------------------------------------------------------------------------
(***************************************************************************)
(* The database.                                                           *)
(*                                                                         *)
(* Proofs about the database of RouteStore, for any agents, routes, ports  *)
(* and requests.                                                           *)
(*                                                                         *)
(* Argument for EndpointsExclusive. Every check of a create or an update   *)
(* compares stored public ports, of which 0 stands for a default port. It  *)
(* is enough because no stored port is 80 or 443 itself: Normalized stores *)
(* a protocol's own port as 0, and PublicationAllowed refuses the other    *)
(* one as reserved. StoredSettled is that fact.                            *)
(***************************************************************************)

(* Type correctness. *)

(* What the bump of a revision leaves well typed, below the bound.         *)
LEMMA BumpType ==
  ASSUME NEW a \in Agents, agents \in [Agents -> Agent],
         agents[a].desired_revision < MaxRevision, BumpDesiredRevision(a)
  PROVE  /\ agents' \in [Agents -> Agent]
         /\ agents[a].desired_revision + 1 \in Revision
BY MaxRevisionAssumption DEF BumpDesiredRevision, Agent, Revision

(* A new row is well typed. *)
LEMMA NewRowType ==
  ASSUME NEW a \in Agents, NEW c \in Configs, NEW port \in RemotePorts,
         agents \in [Agents -> Agent], agents[a].desired_revision + 1 \in Revision
  PROVE  NewRow(a, c, port) \in Row
BY MaxRevisionAssumption DEF NewRow, Row, Revision

(* The three operations of an administrator keep the database well typed.  *)
LEMMA AdministerType ==
  ASSUME StoreTypeOK, Administer
  PROVE  StoreTypeOK'
<1>. USE DEF StoreTypeOK
<1>1. ASSUME NEW a \in Agents, NEW id \in RouteIds, NEW r \in Requests,
             NEW occupied \in SUBSET RemotePorts, CreateRoute(a, id, r, occupied)
      PROVE  StoreTypeOK'
  <2>1. Normalized(r) \in Configs
    BY DEF Configs
  <2>2. PICK port \in RemotePorts :
          routes' = [i \in DOMAIN routes \cup {id} |->
                       IF i = id THEN NewRow(a, Normalized(r), port) ELSE routes[i]]
    BY <1>1 DEF CreateRoute
  <2>3. agents' \in [Agents -> Agent] /\ NewRow(a, Normalized(r), port) \in Row
    BY <1>1, <2>1, BumpType, NewRowType DEF CreateRoute
  <2>4. routes' \in [DOMAIN routes' -> Row]
    BY <2>2, <2>3
  <2>5. issued' = issued \cup {id}
    BY <1>1 DEF CreateRoute
  <2>. QED  BY <2>2, <2>3, <2>4, <2>5
<1>2. ASSUME NEW id \in RouteIds, NEW r \in Requests, UpdateRoute(id, r)
      PROVE  StoreTypeOK'
  <2>. DEFINE a == routes[id].client_id
  <2>1. id \in DOMAIN routes /\ a \in Agents /\ Normalized(r) \in Configs
    BY <1>2 DEF Configs, UpdateRoute, Row
  <2>2. agents' \in [Agents -> Agent] /\ agents[a].desired_revision + 1 \in Revision
    BY <1>2, <2>1, BumpType DEF UpdateRoute
  <2>3. routes' = [routes EXCEPT ![id].config = Normalized(r),
                                 ![id].desired_revision = agents[a].desired_revision + 1]
    BY <1>2 DEF UpdateRoute
  <2>4. routes' \in [DOMAIN routes -> Row]
    BY <2>1, <2>2, <2>3 DEF Row
  <2>. QED  BY <1>2, <2>2, <2>4 DEF UpdateRoute
<1>3. ASSUME NEW id \in RouteIds, DeleteRoute(id)
      PROVE  StoreTypeOK'
  <2>1. id \in DOMAIN routes /\ routes[id].client_id \in Agents
    BY <1>3 DEF DeleteRoute, Row
  <2>2. agents' \in [Agents -> Agent]
    BY <1>3, <2>1, BumpType DEF DeleteRoute
  <2>. QED  BY <1>3, <2>2 DEF DeleteRoute
<1>. QED  BY <1>1, <1>2, <1>3 DEF Administer

(* A heartbeat of any content keeps the database well typed. *)
LEMMA HeartbeatType ==
  ASSUME StoreTypeOK, NEW a \in Agents, NEW revision \in 0 .. MaxRevision,
         NEW o \in Observations, Heartbeat(a, revision, o)
  PROVE  StoreTypeOK'
<1>1. \A i \in DOMAIN o : /\ o[i].observed_revision \in Revision
                         /\ o[i].tunnel_status \in Reported
  BY DEF Observations, Revision
<1>2. agents' \in [Agents -> Agent]
  BY DEF Heartbeat, StoreTypeOK, Agent, Revision
<1>3. routes' = [i \in DOMAIN routes |->
                   IF i \in Observed(a, o)
                     THEN [routes[i] EXCEPT !.observed_revision = o[i].observed_revision,
                                            !.tunnel_status = o[i].tunnel_status]
                     ELSE routes[i]]
  BY DEF Heartbeat
<1>4. ASSUME NEW i \in DOMAIN routes, i \in Observed(a, o)
      PROVE  [routes[i] EXCEPT !.observed_revision = o[i].observed_revision,
                               !.tunnel_status = o[i].tunnel_status] \in Row
  <2>1. i \in DOMAIN o /\ routes[i] \in Row
    BY <1>4 DEF Observed, StoreTypeOK
  <2>. QED  BY <1>1, <2>1 DEF Row
<1>5. routes' \in [DOMAIN routes -> Row]
  BY <1>3, <1>4 DEF StoreTypeOK
<1>. QED  BY <1>2, <1>5 DEF StoreTypeOK, Heartbeat

(* A database without routes, its agents never heard of, is well typed.    *)
LEMMA StoreInitType == StoreInit => StoreTypeOK
BY MaxRevisionAssumption DEF StoreInit, StoreTypeOK, Agent, Revision, Row

(* So does every step of the store. *)
LEMMA StoreNextType == StoreTypeOK /\ [StoreNext]_storeVars => StoreTypeOK'
<1>. SUFFICES ASSUME StoreTypeOK, [StoreNext]_storeVars PROVE StoreTypeOK'
  OBVIOUS
<1>1. CASE Administer
  BY <1>1, AdministerType
<1>2. ASSUME NEW a \in Agents, NEW revision \in 0 .. MaxRevision, NEW o \in Observations,
             Heartbeat(a, revision, o)
      PROVE  StoreTypeOK'
  BY <1>2, HeartbeatType
<1>3. ASSUME NEW a \in Agents, AgeOut(a)
      PROVE  StoreTypeOK'
  BY <1>3 DEF AgeOut, StoreTypeOK, Agent
<1>4. CASE UNCHANGED storeVars
  BY <1>4 DEF storeVars, StoreTypeOK
<1>. QED  BY <1>1, <1>2, <1>3, <1>4 DEF StoreNext

(* The database is well typed, whatever an agent sends.                    *)
THEOREM StoreTypeCorrect == StoreSpec => []StoreTypeOK
BY StoreInitType, StoreNextType, PTL DEF StoreSpec

-----------------------------------------------------------------------------
(* What the operations do to the database, row by row.                     *)

(* Revisions are natural numbers. *)
LEMMA RevisionNat == Revision \subseteq Nat
BY MaxRevisionAssumption DEF Revision

RowsBounded ==
  \A i \in DOMAIN routes :
    /\ routes[i].desired_revision \in 1 .. agents[routes[i].client_id].desired_revision
    /\ routes[i].observed_revision <= agents[routes[i].client_id].observed_revision

AgentsBounded ==
  \A a \in Agents : agents[a].observed_revision <= agents[a].desired_revision

(* A row is untouched, or it is new or changed and carries a desired       *)
(* revision beyond anything its agent could have read before.              *)
Reconfigured ==
  /\ \A a \in Agents :
       /\ agents'[a].observed_revision = agents[a].observed_revision
       /\ agents'[a].last_seen = agents[a].last_seen
       /\ agents[a].desired_revision <= agents'[a].desired_revision
  /\ issued \subseteq issued'
  /\ \A i \in DOMAIN routes' :
       \/ i \in DOMAIN routes /\ routes'[i] = routes[i]
       \/ /\ IF i \in DOMAIN routes THEN routes'[i].client_id = routes[i].client_id
                                    ELSE i \notin issued
          /\ routes'[i].desired_revision = agents'[routes'[i].client_id].desired_revision
          /\ routes'[i].desired_revision > agents[routes'[i].client_id].desired_revision
          /\ routes'[i].observed_revision <= agents[routes'[i].client_id].observed_revision

(* A bump (UPDATE agents SET desired_revision + 1) raises its agent's        *)
(* revision only.                                                          *)
LEMMA BumpEffect ==
  ASSUME StoreTypeOK, NEW a \in Agents, BumpDesiredRevision(a)
  PROVE  /\ agents'[a].desired_revision = agents[a].desired_revision + 1
         /\ \A b \in Agents :
              /\ agents'[b].observed_revision = agents[b].observed_revision
              /\ agents'[b].last_seen = agents[b].last_seen
              /\ agents[b].desired_revision <= agents'[b].desired_revision
BY MaxRevisionAssumption DEF StoreTypeOK, BumpDesiredRevision, Agent, Revision

(* CreateRoute, UpdateRoute and DeleteRoute change a row only together with  *)
(* the revisions of the agents concerned.                                   *)
LEMMA AdministerEffect ==
  ASSUME StoreTypeOK, RowsBounded, Administer
  PROVE  Reconfigured
<1>. USE DEF StoreTypeOK
<1>0. \A a \in Agents : agents[a].desired_revision \in Nat /\ agents[a].observed_revision \in Nat
  BY MaxRevisionAssumption DEF Agent, Revision
<1>1. ASSUME NEW a \in Agents, NEW id \in RouteIds, NEW r \in Requests,
             NEW occupied \in SUBSET RemotePorts, CreateRoute(a, id, r, occupied)
      PROVE  Reconfigured
  <2>1. PICK port \in RemotePorts :
          routes' = [i \in DOMAIN routes \cup {id} |->
                       IF i = id THEN NewRow(a, Normalized(r), port) ELSE routes[i]]
    BY <1>1 DEF CreateRoute
  <2>2. BumpDesiredRevision(a)
    BY <1>1 DEF CreateRoute
  <2>3. /\ routes'[id].client_id = a
        /\ routes'[id].desired_revision = agents[a].desired_revision + 1
        /\ routes'[id].observed_revision = 0
    BY <2>1 DEF NewRow
  <2>4. \A i \in DOMAIN routes' : i = id \/ (i \in DOMAIN routes /\ routes'[i] = routes[i])
    BY <2>1
  <2>5. issued \subseteq issued' /\ id \notin issued /\ id \notin DOMAIN routes
    BY <1>1 DEF CreateRoute
  <2>. QED  BY <1>0, <2>2, <2>3, <2>4, <2>5, BumpEffect DEF Reconfigured
<1>2. ASSUME NEW id \in RouteIds, NEW r \in Requests, UpdateRoute(id, r)
      PROVE  Reconfigured
  <2>. DEFINE a == routes[id].client_id
  <2>1. /\ id \in DOMAIN routes /\ a \in Agents
        /\ routes[id].observed_revision <= agents[a].observed_revision
    BY <1>2 DEF UpdateRoute, Row, RowsBounded
  <2>2. BumpDesiredRevision(a)
    BY <1>2 DEF UpdateRoute
  <2>3. routes' = [routes EXCEPT ![id].config = Normalized(r),
                                 ![id].desired_revision = agents[a].desired_revision + 1]
    BY <1>2 DEF UpdateRoute
  <2>4. /\ routes'[id].client_id = a
        /\ routes'[id].desired_revision = agents[a].desired_revision + 1
        /\ routes'[id].observed_revision = routes[id].observed_revision
    BY <2>1, <2>3 DEF Row
  <2>5. \A i \in DOMAIN routes' : i = id \/ (i \in DOMAIN routes /\ routes'[i] = routes[i])
    BY <2>3
  <2>6. issued' = issued
    BY <1>2 DEF UpdateRoute
  <2>. QED  BY <1>0, <2>1, <2>2, <2>4, <2>5, <2>6, BumpEffect DEF Reconfigured
<1>3. ASSUME NEW id \in RouteIds, DeleteRoute(id)
      PROVE  Reconfigured
  <2>1. routes[id].client_id \in Agents /\ BumpDesiredRevision(routes[id].client_id)
    BY <1>3 DEF DeleteRoute, Row
  <2>2. /\ issued' = issued
        /\ \A i \in DOMAIN routes' : i \in DOMAIN routes /\ routes'[i] = routes[i]
    BY <1>3 DEF DeleteRoute
  <2>. QED  BY <2>1, <2>2, BumpEffect DEF Reconfigured
<1>. QED  BY <1>1, <1>2, <1>3 DEF Administer

(* An accepted report of a revision: the agent's, and that of the rows     *)
(* written, none of which had changed since.                               *)
Beaten(a, revision, written) ==
  /\ \A b \in Agents :
       /\ agents'[b].desired_revision = agents[b].desired_revision
       /\ agents'[b].observed_revision =
            IF b = a THEN revision ELSE agents[b].observed_revision
  /\ revision >= agents[a].observed_revision
  /\ revision <= agents[a].desired_revision
  /\ DOMAIN routes' = DOMAIN routes
  /\ written \subseteq DOMAIN routes
  /\ \A i \in DOMAIN routes :
       /\ routes'[i].client_id = routes[i].client_id
       /\ routes'[i].desired_revision = routes[i].desired_revision
       /\ Intent(routes'[i]) = Intent(routes[i])
       /\ routes'[i].observed_revision =
            IF i \in written THEN revision ELSE routes[i].observed_revision
  /\ \A i \in written : /\ routes[i].client_id = a
                         /\ routes[i].desired_revision <= revision
                         /\ routes[i].observed_revision <= revision

(* A heartbeat of one revision changes nothing an agent is to run.         *)
LEMMA HeartbeatWrites ==
  ASSUME StoreTypeOK, NEW a \in Agents, NEW revision \in Revision, NEW o,
         \A i \in DOMAIN o : o[i].observed_revision = revision,
         Heartbeat(a, revision, o)
  PROVE  Beaten(a, revision, Observed(a, o))
<1>1. agents \in [Agents -> Agent] /\ routes \in [DOMAIN routes -> Row]
  BY DEF StoreTypeOK
<1>2. agents' = [agents EXCEPT ![a].observed_revision = revision,
                               ![a].last_seen = "fresh"]
  BY DEF Heartbeat
<1>3. \A b \in Agents :
        /\ agents'[b].desired_revision = agents[b].desired_revision
        /\ agents'[b].observed_revision =
             IF b = a THEN revision ELSE agents[b].observed_revision
  BY <1>1, <1>2 DEF Agent
<1>. DEFINE written == Observed(a, o)
<1>4. /\ written \subseteq DOMAIN routes
      /\ \A i \in written : /\ o[i].observed_revision = revision
                             /\ routes[i].client_id = a
                             /\ routes[i].desired_revision <= revision
                             /\ routes[i].observed_revision <= revision
  BY DEF Observed
<1>5. routes' = [i \in DOMAIN routes |->
                   IF i \in written
                     THEN [routes[i] EXCEPT !.observed_revision = o[i].observed_revision,
                                            !.tunnel_status = o[i].tunnel_status]
                     ELSE routes[i]]
  BY DEF Heartbeat
<1>. HIDE DEF written
<1>6. ASSUME NEW i \in DOMAIN routes
      PROVE  /\ routes'[i].client_id = routes[i].client_id
             /\ routes'[i].desired_revision = routes[i].desired_revision
             /\ Intent(routes'[i]) = Intent(routes[i])
             /\ routes'[i].observed_revision =
                  IF i \in written THEN revision ELSE routes[i].observed_revision
  <2>1. routes[i] \in Row
    BY <1>1
  <2>2. CASE i \in written
    <3>1. routes'[i] = [routes[i] EXCEPT !.observed_revision = revision,
                                         !.tunnel_status = o[i].tunnel_status]
      BY <1>4, <1>5, <2>2
    <3>. QED  BY <2>1, <2>2, <3>1 DEF Row, Intent
  <2>3. CASE i \notin written
    BY <1>5, <2>3
  <2>. QED  BY <2>2, <2>3
<1>7. DOMAIN routes' = DOMAIN routes
  BY <1>5
<1>8. revision >= agents[a].observed_revision /\ revision <= agents[a].desired_revision
  BY DEF Heartbeat, HeartbeatAccepted
<1>9. Beaten(a, revision, written)
  BY <1>3, <1>4, <1>6, <1>7, <1>8 DEF Beaten
<1>. QED  BY <1>9 DEF written

-----------------------------------------------------------------------------
(* Revisions announce every change. *)

(* An agent is to run the same if it keeps its rows and none changes in    *)
(* what ListRoutesByAgent hands out.                                       *)
LEMMA DesiredSame ==
  ASSUME NEW a,
         RoutesOf(a)' = RoutesOf(a),
         \A i \in RoutesOf(a) : Intent(routes[i])' = Intent(routes[i])
  PROVE  Desired(a)' = Desired(a)
BY DEF Desired

(* incrementRevision leaves the agent with a greater revision. *)
LEMMA BumpAdvances ==
  ASSUME StoreTypeOK, NEW a \in Agents, BumpDesiredRevision(a)
  PROVE  agents'[a].desired_revision > agents[a].desired_revision
<1>1. agents[a].desired_revision \in Nat
  BY MaxRevisionAssumption DEF StoreTypeOK, Agent, Revision
<1>2. agents'[a].desired_revision = agents[a].desired_revision + 1
  BY DEF BumpDesiredRevision, StoreTypeOK, Agent
<1>. QED  BY <1>1, <1>2

(* Each administrator's operation changes the rows of one agent, whose     *)
(* revision it bumps; a heartbeat writes observations only.                *)
LEMMA StepAdvancesRevision ==
  ASSUME StoreTypeOK, StoreNext, NEW b \in Agents, Desired(b)' # Desired(b)
  PROVE  agents'[b].desired_revision > agents[b].desired_revision
<1>1. ASSUME NEW a \in Agents, NEW id \in RouteIds, NEW r \in Requests,
             NEW occupied \in SUBSET RemotePorts, CreateRoute(a, id, r, occupied)
      PROVE  agents'[b].desired_revision > agents[b].desired_revision
  <2>1. PICK port \in RemotePorts :
          routes' = [i \in DOMAIN routes \cup {id} |->
                       IF i = id THEN NewRow(a, Normalized(r), port) ELSE routes[i]]
    BY <1>1 DEF CreateRoute
  <2>2. id \notin DOMAIN routes
    BY <1>1 DEF CreateRoute, StoreTypeOK
  <2>3. ASSUME b # a
        PROVE  FALSE
    <3>1. routes'[id].client_id = a
      BY <2>1 DEF NewRow
    <3>2. RoutesOf(b)' = RoutesOf(b)
      BY <2>1, <2>2, <2>3, <3>1 DEF RoutesOf
    <3>3. \A i \in RoutesOf(b) : Intent(routes[i])' = Intent(routes[i])
      BY <2>1, <2>2 DEF RoutesOf, Intent
    <3>. QED  BY <3>2, <3>3, DesiredSame
  <2>. QED  BY <1>1, <2>3, BumpAdvances DEF CreateRoute
<1>2. ASSUME NEW id \in RouteIds, NEW r \in Requests, UpdateRoute(id, r)
      PROVE  agents'[b].desired_revision > agents[b].desired_revision
  <2>. DEFINE a == routes[id].client_id
  <2>1. id \in DOMAIN routes /\ a \in Agents /\ BumpDesiredRevision(a)
    BY <1>2 DEF UpdateRoute, StoreTypeOK, Row
  <2>2. /\ DOMAIN routes' = DOMAIN routes
        /\ \A i \in DOMAIN routes \ {id} : routes'[i] = routes[i]
        /\ routes'[id].client_id = a
    BY <1>2 DEF UpdateRoute, StoreTypeOK, Row
  <2>3. ASSUME b # a
        PROVE  FALSE
    <3>1. RoutesOf(b)' = RoutesOf(b)
      BY <2>2, <2>3 DEF RoutesOf
    <3>2. \A i \in RoutesOf(b) : Intent(routes[i])' = Intent(routes[i])
      BY <2>2, <2>3 DEF RoutesOf, Intent
    <3>. QED  BY <3>1, <3>2, DesiredSame
  <2>. QED  BY <2>1, <2>3, BumpAdvances
<1>3. ASSUME NEW id \in RouteIds, DeleteRoute(id)
      PROVE  agents'[b].desired_revision > agents[b].desired_revision
  <2>. DEFINE a == routes[id].client_id
  <2>1. id \in DOMAIN routes /\ a \in Agents /\ BumpDesiredRevision(a)
    BY <1>3 DEF DeleteRoute, StoreTypeOK, Row
  <2>2. routes' = [i \in DOMAIN routes \ {id} |-> routes[i]]
    BY <1>3 DEF DeleteRoute
  <2>3. ASSUME b # a
        PROVE  FALSE
    <3>1. RoutesOf(b)' = RoutesOf(b)
      BY <2>2, <2>3 DEF RoutesOf
    <3>2. \A i \in RoutesOf(b) : Intent(routes[i])' = Intent(routes[i])
      BY <2>2, <2>3 DEF RoutesOf, Intent
    <3>. QED  BY <3>1, <3>2, DesiredSame
  <2>. QED  BY <2>1, <2>3, BumpAdvances
<1>4. ASSUME NEW a \in Agents, NEW revision \in 0 .. MaxRevision, NEW o \in Observations,
             Heartbeat(a, revision, o)
      PROVE  FALSE
  <2>1. /\ DOMAIN routes' = DOMAIN routes
        /\ \A i \in DOMAIN routes :
             /\ routes'[i].client_id = routes[i].client_id
             /\ Intent(routes'[i]) = Intent(routes[i])
    BY <1>4 DEF Heartbeat, StoreTypeOK, Row, Intent
  <2>2. RoutesOf(b)' = RoutesOf(b)
    BY <2>1 DEF RoutesOf
  <2>3. \A i \in RoutesOf(b) : Intent(routes[i])' = Intent(routes[i])
    BY <2>1 DEF RoutesOf
  <2>. QED  BY <2>2, <2>3, DesiredSame
<1>5. ASSUME NEW a \in Agents, AgeOut(a)
      PROVE  FALSE
  BY <1>5, DesiredSame DEF AgeOut, RoutesOf, Intent
<1>. QED  BY <1>1, <1>2, <1>3, <1>4, <1>5 DEF StoreNext, Administer

(* A change of what an agent is to run never keeps its revision, so an     *)
(* agent that compares revisions (acceptDesired) never misses one.         *)
THEOREM ChangesAdvanceRevisions == StoreSpec => ChangeAdvancesRevision
<1>1. StoreTypeOK /\ [StoreNext]_storeVars =>
        [\A a \in Agents :
           Desired(a)' # Desired(a) =>
             agents'[a].desired_revision > agents[a].desired_revision]_storeVars
  BY StepAdvancesRevision
<1>. QED  BY <1>1, StoreTypeCorrect, PTL DEF StoreSpec, ChangeAdvancesRevision

-----------------------------------------------------------------------------
(* No two routes collide. *)

(* A configuration as the store keeps it: port 0 is a web route's default, *)
(* and any other port is not the edge's.                                   *)
Settled(config) ==
  /\ IsWeb(config.protocol) \/ IsStream(config.protocol)
  /\ config.public_port \in Nat
  /\ IsStream(config.protocol) => config.public_port # 0
  /\ config.public_port # 0 => config.public_port \notin ReservedPorts

StoredSettled == \A i \in DOMAIN routes : Settled(routes[i].config)

Apart(c, d) ==
  EffectivePublicPort(c) = EffectivePublicPort(d) =>
    /\ IsWeb(c.protocol)
    /\ c.protocol = d.protocol
    /\ << c.domain, c.path_prefix >> # << d.domain, d.path_prefix >>

(* EndpointsExclusive, one pair of rows at a time. *)
Exclusive ==
  \A i, j \in DOMAIN routes : i # j =>
    /\ routes[i].remote_port # routes[j].remote_port
    /\ Apart(routes[i].config, routes[j].config)

(* Ranges that start at 0 or at 1 hold numbers, whatever they end at. *)
LEMMA RangesAreNumbers ==
  ASSUME NEW last \in Nat
  PROVE  /\ \A n \in 0 .. last : n \in Nat
         /\ \A n \in 1 .. last : n \in Nat /\ n # 0
OBVIOUS

(* The highest port is a number. *)
LEMMA MaxPortIsNumber == MaxPort \in Nat
BY DEF MaxPort

(* No protocol is both a web and a stream protocol. *)
LEMMA ProtocolsApart ==
  ASSUME NEW protocol
  PROVE  ~(IsStream(protocol) /\ IsWeb(protocol))
BY DEF IsWeb, IsStream

(* A valid public port is a number, and 0 only on a web route. *)
LEMMA PortNumbers ==
  ASSUME NEW protocol, NEW port,
         \/ IsWeb(protocol) /\ port \in 0 .. MaxPort
         \/ IsStream(protocol) /\ port \in 1 .. MaxPort
  PROVE  port \in Nat /\ (IsStream(protocol) => port # 0 /\ ~IsWeb(protocol))
<1>1. /\ \A n \in 0 .. MaxPort : n \in Nat
      /\ \A n \in 1 .. MaxPort : n \in Nat /\ n # 0
  BY RangesAreNumbers, MaxPortIsNumber, Zenon
<1>. QED  BY <1>1, ProtocolsApart, Zenon

(* Admission and normalisation together keep the edge's own ports out of   *)
(* the column: each protocol's own becomes 0, the other's is reserved.     *)
LEMMA NormalizedSettled ==
  ASSUME {80, 443} \subseteq ReservedPorts, NEW r \in Requests, Admissible(r)
  PROVE  Settled(Normalized(r))
<1>. DEFINE protocol == r.protocol
            port == r.public_port
<1>1. r = [f \in ConfigFields |-> r[f]]
  BY RequestsAssumption
<1>2. \/ IsWeb(protocol) /\ port \in 0 .. MaxPort
      \/ IsStream(protocol) /\ port \in 1 .. MaxPort
  BY Zenon DEF Admissible, Valid, ValidWeb, ValidStream
<1>3. /\ IsStream(protocol) => port \notin ReservedPorts
      /\ IsWeb(protocol) /\ port # 0 /\ port # DefaultPublicPort(protocol) =>
           port \notin ReservedPorts
  BY Zenon DEF Admissible, PublicationAllowed
<1>4. port \in Nat /\ (IsStream(protocol) => port # 0 /\ ~IsWeb(protocol))
  BY <1>2, PortNumbers, Zenon
<1>5. CASE IsWeb(protocol) /\ port = DefaultPublicPort(protocol)
  <2>1. Normalized(r) = [r EXCEPT !.public_port = 0]
    BY <1>5 DEF Normalized
  <2>2. Normalized(r).protocol = protocol /\ Normalized(r).public_port = 0
    BY <1>1, <2>1 DEF ConfigFields
  <2>. QED  BY <1>4, <1>5, <2>2 DEF Settled
<1>6. CASE ~(IsWeb(protocol) /\ port = DefaultPublicPort(protocol))
  <2>1. Normalized(r) = r
    BY <1>6 DEF Normalized
  <2>2. port # 0 => port \notin ReservedPorts
    BY <1>2, <1>3, <1>6, Zenon
  <2>3. Settled(r)
    BY <1>2, <1>4, <2>2, Zenon DEF Settled
  <2>. QED  BY <2>1, <2>3
<1>. QED  BY <1>5, <1>6

(* What ensurePublicPortAvailable and the unique indexes find about one    *)
(* other row, which compares stored ports, keeps effective ports apart.    *)
LEMMA ChecksSuffice ==
  ASSUME {80, 443} \subseteq ReservedPorts,
         NEW c, NEW d, Settled(c), Settled(d), ~SameEndpoint(c, d),
         c.public_port # 0 /\ d.public_port = c.public_port =>
           IF IsStream(c.protocol) THEN ~IsWeb(d.protocol) ELSE d.protocol = c.protocol
  PROVE  Apart(c, d) /\ Apart(d, c)
<1>. DEFINE Port(e) == EffectivePublicPort(e)
<1>. SUFFICES ASSUME Port(c) = Port(d)
              PROVE  /\ IsWeb(c.protocol)
                     /\ c.protocol = d.protocol
                     /\ << c.domain, c.path_prefix >> # << d.domain, d.path_prefix >>
  BY DEF Apart
<1>1. \A e : Settled(e) /\ IsWeb(e.protocol) /\ e.public_port = 0 =>
        Port(e) \in ReservedPorts /\ Port(e) = IF e.protocol = "http" THEN 80 ELSE 443
  BY DEF EffectivePublicPort, DefaultPublicPort, IsWeb
<1>2. \A e : Settled(e) /\ e.public_port # 0 =>
        Port(e) = e.public_port /\ Port(e) \notin ReservedPorts
  BY DEF EffectivePublicPort, Settled
<1>3. c.public_port = 0 <=> d.public_port = 0
  BY <1>1, <1>2 DEF Settled, IsStream, IsWeb
<1>4. CASE c.public_port = 0
  <2>1. IsWeb(c.protocol) /\ IsWeb(d.protocol)
    BY <1>3, <1>4 DEF Settled
  <2>2. c.protocol = d.protocol
    BY <1>1, <1>3, <1>4, <2>1 DEF IsWeb
  <2>. QED  BY <1>3, <1>4, <2>1, <2>2 DEF SameEndpoint
<1>5. CASE c.public_port # 0
  <2>1. c.public_port = d.public_port
    BY <1>2, <1>3, <1>5
  <2>2. ~IsStream(c.protocol)
    BY <1>5, <2>1 DEF SameEndpoint, Settled
  <2>3. IsWeb(c.protocol) /\ c.protocol = d.protocol
    BY <1>5, <2>1, <2>2 DEF Settled
  <2>. QED  BY <2>1, <2>3 DEF SameEndpoint
<1>. QED  BY <1>4, <1>5

(* A request that passes every check against some rows may join them.      *)
LEMMA AdmittedApart ==
  ASSUME {80, 443} \subseteq ReservedPorts, StoredSettled,
         NEW r \in Requests, NEW others \in SUBSET DOMAIN routes, Admissible(r),
         PublicPortAvailable(Normalized(r), others), EndpointFree(Normalized(r), others)
  PROVE  /\ Settled(Normalized(r))
         /\ \A i \in others : /\ Apart(Normalized(r), routes[i].config)
                             /\ Apart(routes[i].config, Normalized(r))
<1>1. Settled(Normalized(r))
  BY NormalizedSettled
<1>2. ASSUME NEW c, NEW i \in others, c = Normalized(r)
      PROVE  Apart(c, routes[i].config) /\ Apart(routes[i].config, c)
  <2>1. Settled(c) /\ Settled(routes[i].config)
    BY <1>1, <1>2 DEF StoredSettled
  <2>2. ~SameEndpoint(c, routes[i].config)
    BY <1>2 DEF EndpointFree
  <2>3. c.public_port # 0 /\ routes[i].config.public_port = c.public_port =>
          IF IsStream(c.protocol) THEN ~IsWeb(routes[i].config.protocol)
                                  ELSE routes[i].config.protocol = c.protocol
    BY <1>2 DEF PublicPortAvailable
  <2>. QED  BY <2>1, <2>2, <2>3, ChecksSuffice
<1>. QED  BY <1>1, <1>2

(* The inductive invariant. *)
StoreInv ==
  /\ StoreTypeOK
  /\ {80, 443} \subseteq ReservedPorts =>
       Exclusive /\ StoredSettled

(* Every operation of the store keeps its rows admitted and apart. *)
LEMMA StoreStepExclusive ==
  ASSUME StoreInv, StoreNext, {80, 443} \subseteq ReservedPorts
  PROVE  Exclusive' /\ StoredSettled'
<1>1. StoredSettled
  BY DEF StoreInv
<1>2. ASSUME NEW a \in Agents, NEW id \in RouteIds, NEW r \in Requests,
             NEW occupied \in SUBSET RemotePorts, CreateRoute(a, id, r, occupied)
      PROVE  Exclusive' /\ StoredSettled'
  <2>. DEFINE config == Normalized(r)
  <2>1. PICK port \in RemotePorts :
          /\ Allocated(port, occupied)
          /\ routes' = [i \in DOMAIN routes \cup {id} |->
                          IF i = id THEN NewRow(a, config, port) ELSE routes[i]]
    BY <1>2 DEF CreateRoute
  <2>2. /\ Settled(config)
        /\ \A i \in DOMAIN routes : /\ Apart(config, routes[i].config)
                                   /\ Apart(routes[i].config, config)
    BY <1>1, <1>2, AdmittedApart DEF CreateRoute
  <2>3. \A i \in DOMAIN routes : routes[i].remote_port # port
    BY <2>1 DEF Allocated, FreePorts
  <2>4. id \notin DOMAIN routes
    BY <1>2 DEF CreateRoute, StoreInv, StoreTypeOK
  <2>5. /\ routes'[id].config = config
        /\ routes'[id].remote_port = port
        /\ DOMAIN routes' = DOMAIN routes \cup {id}
        /\ \A i \in DOMAIN routes : routes'[i] = routes[i]
    BY <2>1, <2>4 DEF NewRow
  <2>. HIDE DEF config
  <2>. QED  BY <2>2, <2>3, <2>5 DEF StoreInv, Exclusive, StoredSettled
<1>3. ASSUME NEW id \in RouteIds, NEW r \in Requests, UpdateRoute(id, r)
      PROVE  Exclusive' /\ StoredSettled'
  <2>. DEFINE config == Normalized(r)
              others == DOMAIN routes \ {id}
  <2>1. /\ Settled(config)
        /\ \A i \in others : /\ Apart(config, routes[i].config)
                            /\ Apart(routes[i].config, config)
    BY <1>1, <1>3, AdmittedApart DEF UpdateRoute
  <2>2. /\ id \in DOMAIN routes
        /\ DOMAIN routes' = DOMAIN routes
        /\ \A i \in others : routes'[i] = routes[i]
        /\ routes'[id].config = config
        /\ routes'[id].remote_port = routes[id].remote_port
    BY <1>3 DEF UpdateRoute, StoreInv, StoreTypeOK, Row
  <2>. HIDE DEF config
  <2>. QED  BY <2>1, <2>2 DEF StoreInv, Exclusive, StoredSettled
<1>4. ASSUME NEW id \in RouteIds, DeleteRoute(id)
      PROVE  Exclusive' /\ StoredSettled'
  <2>1. routes' = [i \in DOMAIN routes \ {id} |-> routes[i]]
    BY <1>4 DEF DeleteRoute
  <2>. QED  BY <2>1 DEF StoreInv, Exclusive, StoredSettled
<1>5. ASSUME NEW a \in Agents, NEW revision \in 0 .. MaxRevision, NEW o \in Observations,
             Heartbeat(a, revision, o)
      PROVE  Exclusive' /\ StoredSettled'
  <2>1. /\ DOMAIN routes' = DOMAIN routes
        /\ \A i \in DOMAIN routes :
             /\ routes'[i].remote_port = routes[i].remote_port
             /\ routes'[i].config = routes[i].config
    BY <1>5 DEF Heartbeat, StoreInv, StoreTypeOK, Row
  <2>. QED  BY <2>1 DEF StoreInv, Exclusive, StoredSettled
<1>6. ASSUME NEW a \in Agents, AgeOut(a)
      PROVE  Exclusive' /\ StoredSettled'
  BY <1>6 DEF AgeOut, StoreInv, Exclusive, StoredSettled
<1>. QED  BY <1>2, <1>3, <1>4, <1>5, <1>6 DEF StoreNext, Administer

(* However requests interleave, no two routes share a port of either side  *)
(* unless the edge can tell them apart: the pairwise comparison of stored  *)
(* ports in ensurePublicPortAvailable and the indexes is enough.           *)
THEOREM EndpointsStayExclusive == StoreSpec => []EndpointsExclusive
<1>1. StoreInit => StoreInv
  BY StoreInitType DEF StoreInv, Exclusive, StoredSettled, StoreInit
<1>2. StoreInv /\ [StoreNext]_storeVars => StoreInv'
  <2>1. ASSUME StoreInv, StoreNext
        PROVE  StoreInv'
    BY <2>1, StoreNextType, StoreStepExclusive DEF StoreInv
  <2>2. ASSUME StoreInv, UNCHANGED storeVars
        PROVE  StoreInv'
    BY <2>2 DEF StoreInv, StoreTypeOK, Exclusive, StoredSettled, storeVars
  <2>. QED  BY <2>1, <2>2
<1>3. StoreInv => EndpointsExclusive
  BY DEF StoreInv, Exclusive, Apart, EndpointsExclusive
<1>. QED  BY <1>1, <1>2, <1>3, PTL DEF StoreSpec

-----------------------------------------------------------------------------
(* What admission leaves in the rows, whatever ports are reserved.         *)

(* Every row's configuration was admitted, and no two rows hold the same   *)
(* remote port or the same public endpoint.                                *)
Admitted(config) == \E r \in Requests : Admissible(r) /\ config = Normalized(r)

Distinct ==
  \A i, j \in DOMAIN routes : i # j =>
    /\ routes[i].remote_port # routes[j].remote_port
    /\ ~SameEndpoint(routes[i].config, routes[j].config)

RowsAdmitted == (\A i \in DOMAIN routes : Admitted(routes[i].config)) /\ Distinct

(* Two configurations that conflict do so whichever came first. *)
LEMMA SameEndpointSymmetric ==
  ASSUME NEW c, NEW d, SameEndpoint(c, d)
  PROVE  SameEndpoint(d, c)
BY DEF SameEndpoint

(* Every operation of the store keeps its rows admitted and distinct.      *)
LEMMA StoreStepAdmitted ==
  ASSUME StoreTypeOK, RowsAdmitted, [StoreNext]_storeVars
  PROVE  RowsAdmitted'
<1>1. ASSUME NEW a \in Agents, NEW id \in RouteIds, NEW r \in Requests,
             NEW occupied \in SUBSET RemotePorts, CreateRoute(a, id, r, occupied)
      PROVE  RowsAdmitted'
  <2>. DEFINE config == Normalized(r)
  <2>1. PICK port \in RemotePorts :
          /\ Allocated(port, occupied)
          /\ routes' = [i \in DOMAIN routes \cup {id} |->
                          IF i = id THEN NewRow(a, config, port) ELSE routes[i]]
    BY <1>1 DEF CreateRoute
  <2>2. Admitted(config)
    BY <1>1 DEF CreateRoute, Admitted
  <2>3. \A i \in DOMAIN routes : routes[i].remote_port # port
    BY <2>1 DEF Allocated, FreePorts
  <2>4. id \notin DOMAIN routes
    BY <1>1 DEF CreateRoute, StoreTypeOK
  <2>5. /\ routes'[id].config = config
        /\ routes'[id].remote_port = port
        /\ DOMAIN routes' = DOMAIN routes \cup {id}
        /\ \A i \in DOMAIN routes : routes'[i] = routes[i]
    BY <2>1, <2>4 DEF NewRow
  <2>6. \A i \in DOMAIN routes : ~SameEndpoint(config, routes[i].config)
    BY <1>1 DEF CreateRoute, EndpointFree
  <2>. HIDE DEF config
  <2>7. \A i \in DOMAIN routes : ~SameEndpoint(routes[i].config, config)
    BY <2>6, SameEndpointSymmetric
  <2>8. \A i \in DOMAIN routes' : Admitted(routes'[i].config)
    BY <2>2, <2>5 DEF RowsAdmitted
  <2>9. Distinct'
    BY <2>3, <2>5, <2>6, <2>7 DEF RowsAdmitted, Distinct
  <2>. QED  BY <2>8, <2>9 DEF RowsAdmitted
<1>2. ASSUME NEW id \in RouteIds, NEW r \in Requests, UpdateRoute(id, r)
      PROVE  RowsAdmitted'
  <2>. DEFINE config == Normalized(r)
              others == DOMAIN routes \ {id}
  <2>1. Admitted(config)
    BY <1>2 DEF UpdateRoute, Admitted
  <2>2. /\ id \in DOMAIN routes
        /\ DOMAIN routes' = DOMAIN routes
        /\ \A i \in others : routes'[i] = routes[i]
        /\ routes'[id].config = config
        /\ routes'[id].remote_port = routes[id].remote_port
    BY <1>2 DEF UpdateRoute, StoreTypeOK, Row
  <2>3. \A i \in others : ~SameEndpoint(config, routes[i].config)
    BY <1>2 DEF UpdateRoute, EndpointFree
  <2>. HIDE DEF config
  <2>4. \A i \in others : ~SameEndpoint(routes[i].config, config)
    BY <2>3, SameEndpointSymmetric
  <2>5. \A i \in DOMAIN routes' : Admitted(routes'[i].config)
    BY <2>1, <2>2 DEF RowsAdmitted
  <2>6. Distinct'
    BY <2>2, <2>3, <2>4 DEF RowsAdmitted, Distinct
  <2>. QED  BY <2>5, <2>6 DEF RowsAdmitted
<1>3. ASSUME NEW id \in RouteIds, DeleteRoute(id)
      PROVE  RowsAdmitted'
  <2>1. routes' = [i \in DOMAIN routes \ {id} |-> routes[i]]
    BY <1>3 DEF DeleteRoute
  <2>2. \A i \in DOMAIN routes' : i \in DOMAIN routes /\ routes'[i] = routes[i]
    BY <2>1
  <2>. QED  BY <2>2 DEF RowsAdmitted, Distinct
<1>4. ASSUME NEW a \in Agents, NEW revision \in 0 .. MaxRevision, NEW o \in Observations,
             Heartbeat(a, revision, o)
      PROVE  RowsAdmitted'
  <2>1. /\ DOMAIN routes' = DOMAIN routes
        /\ \A i \in DOMAIN routes :
             /\ routes'[i].remote_port = routes[i].remote_port
             /\ routes'[i].config = routes[i].config
    BY <1>4 DEF Heartbeat, StoreTypeOK, Row
  <2>. QED  BY <2>1 DEF RowsAdmitted, Distinct
<1>5. ASSUME UNCHANGED routes
      PROVE  RowsAdmitted'
  BY <1>5 DEF RowsAdmitted, Distinct
<1>6. ASSUME (\E a \in Agents : AgeOut(a)) \/ UNCHANGED storeVars
      PROVE  RowsAdmitted'
  BY <1>5, <1>6 DEF AgeOut, storeVars
<1>. QED  BY <1>1, <1>2, <1>3, <1>4, <1>6 DEF StoreNext, Administer

-----------------------------------------------------------------------------
(***************************************************************************)
(* The synchronisation with the agents.                                    *)
(*                                                                         *)
(* Proofs about AgentSync for every number of agents, routes, ports,       *)
(* configurations, revisions and faults.                                   *)
(*                                                                         *)
(* Argument. A row's desired_revision is the agent revision of its last    *)
(* change. So whoever holds a pair (revision, routes) of which the         *)
(* revision was read first knows the present configuration of every row    *)
(* whose desired_revision is at most that revision: FetchCurrent for an    *)
(* exchange, ReportsCurrent for a report. Heartbeat's guard lets an        *)
(* observation through only for such rows, hence SeenCurrent.              *)
(***************************************************************************)

(* The revisions a process remembers were the server's. *)
ProcBounded ==
  \A a \in Agents :
    /\ proc[a].reconciled <= proc[a].accepted.revision
    /\ proc[a].accepted.revision <= agents[a].desired_revision

(* A revision just read is at least what the agent has been told, has      *)
(* reported or has in flight.                                              *)
FetchBounded ==
  \A a \in Agents : proc[a].pc \in {"reading", "answered"} =>
    /\ fetch[a].revision <= agents[a].desired_revision
    /\ agents[a].observed_revision <= fetch[a].revision
    /\ proc[a].accepted.revision <= fetch[a].revision
    /\ \A m \in reports : m.agent = a => m.revision <= fetch[a].revision

FetchCurrent ==
  \A a \in Agents : proc[a].pc = "answered" =>
    \A i \in DOMAIN routes :
      routes[i].client_id = a /\ routes[i].desired_revision <= fetch[a].revision =>
        fetch[a].routes[i] = Intent(routes[i])

ReportsCurrent ==
  \A m \in reports :
    /\ m.revision <= agents[m.agent].desired_revision
    /\ \A i \in DOMAIN routes :
         routes[i].client_id = m.agent /\ routes[i].desired_revision <= m.revision =>
           /\ m.observations[i].intent = Intent(routes[i])
           /\ m.observations[i].tunnel_status # "none"

(* While a process waits for the answer to a report, nothing newer than    *)
(* what it accepted has been or will be reported for its agent.            *)
ReportingLatest ==
  /\ \A m \in reports : m.live => proc[m.agent].pc = "reporting"
  /\ \A m, n \in reports : m.live /\ n.live /\ m.agent = n.agent => m = n
  /\ \A a \in Agents : proc[a].pc = "reporting" =>
       /\ agents[a].observed_revision <= proc[a].accepted.revision
       /\ \A m \in reports : m.agent = a => m.revision <= proc[a].accepted.revision

SeenCurrent ==
  \A i \in DOMAIN routes :
    routes[i].observed_revision >= routes[i].desired_revision =>
      seen[i] = Intent(routes[i]) /\ i \in covered

IInv ==
  /\ SyncTypeOK
  /\ ProcBounded
  /\ FetchBounded
  /\ FetchCurrent
  /\ ReportsCurrent
  /\ ReportingLatest
  /\ RowsBounded
  /\ AgentsBounded
  /\ SeenCurrent

-----------------------------------------------------------------------------
(* Type correctness. *)

(* Giving up an exchange leaves a well-typed process. *)
LEMMA GiveUpType ==
  ASSUME NEW p \in Process
  PROVE  GiveUp(p) \in Process
<1>1. NoState \in DesiredState
  BY MaxRevisionAssumption DEF NoState, DesiredState, Revision
<1>2. Booted("down") \in Process
  BY <1>1, MaxRevisionAssumption DEF Booted, Process, Phase, Revision
<1>3. [p EXCEPT !.pc = "idle"] \in Process
  BY DEF Process, Phase
<1>. QED  BY <1>2, <1>3 DEF GiveUp

(* A fault counted within the bound. *)
LEMMA FaultType ==
  ASSUME faults \in 0 .. MaxFaults, Fault
  PROVE  faults' \in 0 .. MaxFaults
BY MaxFaultsAssumption DEF Fault

(* Turning an agent's live reports into late ones keeps them reports. *)
LEMMA AbandonType ==
  ASSUME reports \subseteq Report, NEW a
  PROVE  Abandon(a) \subseteq Report
<1>1. ASSUME NEW m \in reports
      PROVE  [m EXCEPT !.live = FALSE] \in Report
  BY DEF Report
<1>. QED  BY <1>1 DEF Abandon

(* A heartbeat stores only well-typed rows and revisions. *)
LEMMA HandleType ==
  ASSUME SyncTypeOK, NEW m \in reports, Handle(m)
  PROVE  /\ StoreTypeOK'
         /\ fetch' \in [Agents -> DesiredState]
         /\ reports' \subseteq Report
         /\ seen' \in [RouteIds -> Intents \cup {NoIntent}]
         /\ covered' \subseteq RouteIds
<1>1. /\ m \in Report /\ m.agent \in Agents /\ m.revision \in Revision
      /\ m.observations \in [RouteIds -> Observation]
  BY DEF SyncTypeOK, Report
<1>2. DOMAIN routes \subseteq RouteIds
  BY DEF SyncTypeOK, StoreTypeOK
<1>. DEFINE written == Observed(m.agent, Stored(m))
<1>3. /\ written \subseteq DOMAIN routes
      /\ \A i \in written : /\ m.observations[i].tunnel_status \in Reported
                            /\ Stored(m)[i].observed_revision = m.revision
                            /\ Stored(m)[i].tunnel_status = m.observations[i].tunnel_status
  BY <1>1, <1>2 DEF Observed, Stored, Observation
<1>4. CASE Heartbeat(m.agent, m.revision, Stored(m))
  <2>1. agents' = [agents EXCEPT ![m.agent].observed_revision = m.revision,
                                 ![m.agent].last_seen = "fresh"]
    BY <1>4 DEF Heartbeat
  <2>2. agents' \in [Agents -> Agent]
    BY <1>1, <2>1 DEF SyncTypeOK, StoreTypeOK, Agent
  <2>3. routes' = [i \in DOMAIN routes |->
                     IF i \in written
                       THEN [routes[i] EXCEPT
                               !.observed_revision = Stored(m)[i].observed_revision,
                               !.tunnel_status = Stored(m)[i].tunnel_status]
                       ELSE routes[i]]
    BY <1>4 DEF Heartbeat
  <2>4. ASSUME NEW i \in DOMAIN routes, i \in written
        PROVE  [routes[i] EXCEPT
                  !.observed_revision = Stored(m)[i].observed_revision,
                  !.tunnel_status = Stored(m)[i].tunnel_status] \in Row
    <3>1. routes[i] \in Row
      BY DEF SyncTypeOK, StoreTypeOK
    <3>2. Stored(m)[i].observed_revision \in Revision /\ Stored(m)[i].tunnel_status \in Reported
      BY <1>1, <1>3, <2>4
    <3>. QED  BY <3>1, <3>2 DEF Row
  <2>5. routes' \in [DOMAIN routes -> Row]
    BY <2>3, <2>4 DEF SyncTypeOK, StoreTypeOK
  <2>6. StoreTypeOK'
    BY <1>4, <2>2, <2>5 DEF SyncTypeOK, StoreTypeOK, Heartbeat
  <2>7. CASE /\ seen' = [i \in RouteIds |-> IF i \in written THEN m.observations[i].intent
                                                            ELSE seen[i]]
             /\ covered' = (covered \ RoutesOf(m.agent)) \cup written
    <3>1. seen' \in [RouteIds -> Intents \cup {NoIntent}]
      BY <1>1, <2>7 DEF SyncTypeOK, Observation
    <3>2. covered' \subseteq RouteIds
      BY <1>2, <1>3, <2>7 DEF SyncTypeOK
    <3>. QED  BY <2>6, <3>1, <3>2 DEF Handle, SyncTypeOK
  <2>8. CASE UNCHANGED << storeVars, seen, covered >>
    BY <2>6, <2>8 DEF Handle, SyncTypeOK
  <2>. QED  BY <2>7, <2>8 DEF Handle
<1>5. CASE UNCHANGED << storeVars, seen, covered >>
  BY <1>5 DEF Handle, SyncTypeOK, StoreTypeOK, storeVars
<1>. QED  BY <1>4, <1>5 DEF Handle

(* Everything is well typed at first: nothing is stored or in flight.        *)
LEMMA InitType == Init => SyncTypeOK
<1>. SUFFICES ASSUME Init PROVE SyncTypeOK
  OBVIOUS
<1>1. 0 \in Revision
  BY MaxRevisionAssumption DEF Revision
<1>2. NoState \in DesiredState
  BY <1>1 DEF NoState, DesiredState
<1>3. Booted("down") \in Process
  BY <1>1, <1>2 DEF Booted, Process, Phase
<1>4. StoreTypeOK
  BY <1>1 DEF Init, StoreInit, StoreTypeOK, Agent, Row
<1>. QED  BY <1>2, <1>3, <1>4, MaxFaultsAssumption DEF Init, SyncTypeOK

(* Every step, of an administrator, the server or an agent, keeps the types. *)
LEMMA NextType == SyncTypeOK /\ [Next]_vars => SyncTypeOK'
<1>. SUFFICES ASSUME SyncTypeOK, [Next]_vars PROVE SyncTypeOK'
  OBVIOUS
<1>1. NoState \in DesiredState
  BY MaxRevisionAssumption DEF NoState, DesiredState, Revision
<1>2. CASE Admin
  BY <1>2, AdministerType DEF Admin, syncVars, SyncTypeOK
<1>3. ASSUME NEW a \in Agents, Stale(a)
      PROVE  SyncTypeOK'
  <2>1. faults' \in 0 .. MaxFaults
    BY <1>3, FaultType DEF Stale, SyncTypeOK
  <2>2. StoreTypeOK'
    BY <1>3 DEF Stale, AgeOut, SyncTypeOK, StoreTypeOK, Agent
  <2>. QED  BY <1>3, <2>1, <2>2 DEF Stale, SyncTypeOK
<1>4. ASSUME NEW a \in Agents, Start(a)
      PROVE  SyncTypeOK'
  <2>1. Booted("idle") \in Process
    BY <1>1, MaxRevisionAssumption DEF Booted, Process, Phase, Revision
  <2>. QED  BY <1>4, <2>1 DEF Start, SyncTypeOK, StoreTypeOK, storeVars
<1>5. ASSUME NEW a \in Agents, Ask(a)
      PROVE  SyncTypeOK'
  BY <1>5 DEF Ask, SyncTypeOK, StoreTypeOK, storeVars, Process, Phase
<1>6. ASSUME NEW a \in Agents, ReadRevision(a)
      PROVE  SyncTypeOK'
  <2>1. agents[a].desired_revision \in Revision
    BY DEF SyncTypeOK, StoreTypeOK, Agent
  <2>2. [NoState EXCEPT !.revision = agents[a].desired_revision] \in DesiredState
    BY <1>1, <2>1 DEF DesiredState
  <2>3. proc' \in [Agents -> Process]
    BY <1>6 DEF ReadRevision, SyncTypeOK, Process, Phase
  <2>4. fetch' \in [Agents -> DesiredState]
    BY <1>6, <2>2 DEF ReadRevision, SyncTypeOK
  <2>. QED  BY <1>6, <2>3, <2>4 DEF ReadRevision, SyncTypeOK, StoreTypeOK, storeVars
<1>7. ASSUME NEW a \in Agents, ReadRoutes(a)
      PROVE  SyncTypeOK'
  <2>. DEFINE read == [i \in RouteIds |-> IF i \in RoutesOf(a) THEN Intent(routes[i]) ELSE NoIntent]
  <2>1. \A i \in DOMAIN routes : Intent(routes[i]) \in Intents
    BY DEF SyncTypeOK, StoreTypeOK, Row, Intents, Intent
  <2>2. read \in [RouteIds -> Intents \cup {NoIntent}]
    BY <2>1 DEF RoutesOf
  <2>3. proc' \in [Agents -> Process]
    BY <1>7 DEF ReadRoutes, SyncTypeOK, Process, Phase
  <2>4. fetch' = [fetch EXCEPT ![a].routes = read]
    BY <1>7 DEF ReadRoutes
  <2>5. fetch' \in [Agents -> DesiredState]
    BY <2>2, <2>4 DEF SyncTypeOK, DesiredState
  <2>. QED  BY <1>7, <2>3, <2>5 DEF ReadRoutes, SyncTypeOK, StoreTypeOK, storeVars
<1>8. ASSUME NEW a \in Agents, FetchFails(a)
      PROVE  SyncTypeOK'
  <2>1. PICK p \in Process : proc' = [proc EXCEPT ![a] = GiveUp(p)]
    <3>1. proc[a] \in Process
      BY DEF SyncTypeOK
    <3>2. ASSUME NEW r \in {proc[a].reconciled, proc[a].accepted.revision}
          PROVE  [proc[a] EXCEPT !.reconciled = r] \in Process
      BY <3>1 DEF Process, DesiredState
    <3>3. [proc[a] EXCEPT !.has_cached = FALSE] \in Process
      BY <3>1 DEF Process
    <3>. QED  BY <1>8, <3>2, <3>3 DEF FetchFails
  <2>2. proc' \in [Agents -> Process]
    BY <2>1, GiveUpType DEF SyncTypeOK
  <2>3. faults' \in 0 .. MaxFaults
    BY <1>8, FaultType DEF FetchFails, SyncTypeOK
  <2>. QED  BY <1>1, <1>8, <2>2, <2>3 DEF FetchFails, SyncTypeOK, StoreTypeOK, storeVars
<1>9. ASSUME NEW a \in Agents, RefuseDesired(a)
      PROVE  SyncTypeOK'
  <2>1. proc' \in [Agents -> Process]
    BY <1>9, GiveUpType DEF RefuseDesired, SyncTypeOK
  <2>. QED  BY <1>1, <1>9, <2>1 DEF RefuseDesired, SyncTypeOK, StoreTypeOK, storeVars
<1>10. ASSUME NEW a \in Agents, NEW o \in Outcomes(fetch[a], proc[a].reconciled), Reconcile(a, o)
       PROVE  SyncTypeOK'
  <2>1. /\ fetch[a] \in DesiredState
        /\ o.revision \in Revision
        /\ o.tunnel \in [RouteIds -> Reported \cup {"none"}]
    BY DEF SyncTypeOK, Outcomes, DesiredState, Process
  <2>2. proc' \in [Agents -> Process]
    <3>1. proc[a] \in Process
      BY DEF SyncTypeOK
    <3>. DEFINE p == [proc[a] EXCEPT !.pc = "reporting", !.has_accepted = TRUE,
                                     !.accepted = fetch[a], !.has_cached = TRUE,
                                     !.reconciled = o.revision]
    <3>2. p \in Process
      BY <2>1, <3>1 DEF Process, Phase
    <3>3. proc' = [proc EXCEPT ![a] = p]
      BY <1>10 DEF Reconcile
    <3>. QED  BY <3>2, <3>3 DEF SyncTypeOK
  <2>3. ReportOf(a, fetch[a], o) \in Report
    <3>1. \A i \in RouteIds :
            [tunnel_status |-> o.tunnel[i], intent |-> fetch[a].routes[i]] \in Observation
      BY <2>1 DEF Observation, DesiredState
    <3>. QED  BY <2>1, <3>1 DEF ReportOf, Report
  <2>4. reports' \subseteq Report
    BY <1>10, <2>3 DEF Reconcile, SyncTypeOK
  <2>5. faults' \in 0 .. MaxFaults
    BY <1>10, FaultType DEF Reconcile, SyncTypeOK
  <2>. QED  BY <1>1, <1>10, <2>2, <2>4, <2>5 DEF Reconcile, SyncTypeOK, StoreTypeOK, storeVars
<1>11. ASSUME NEW a \in Agents, ReportTimesOut(a)
       PROVE  SyncTypeOK'
  <2>1. proc' \in [Agents -> Process]
    BY <1>11, GiveUpType DEF ReportTimesOut, SyncTypeOK
  <2>2. reports' \subseteq Report /\ faults' \in 0 .. MaxFaults
    BY <1>11, AbandonType, FaultType DEF ReportTimesOut, SyncTypeOK
  <2>. QED  BY <1>11, <2>1, <2>2 DEF ReportTimesOut, SyncTypeOK, StoreTypeOK, storeVars
<1>12. ASSUME NEW a \in Agents, Crash(a)
       PROVE  SyncTypeOK'
  <2>1. Booted("down") \in Process
    BY <1>1, MaxRevisionAssumption DEF Booted, Process, Phase, Revision
  <2>2. reports' \subseteq Report /\ faults' \in 0 .. MaxFaults
    BY <1>12, AbandonType, FaultType DEF Crash, SyncTypeOK
  <2>. QED  BY <1>1, <1>12, <2>1, <2>2 DEF Crash, SyncTypeOK, StoreTypeOK, storeVars
<1>13. ASSUME NEW m \in reports, HandleLive(m) \/ HandleAnswerLost(m) \/ HandleLate(m)
       PROVE  SyncTypeOK'
  <2>1. Handle(m)
    BY <1>13 DEF HandleLive, HandleAnswerLost, HandleLate
  <2>2. proc[m.agent] \in Process
    BY DEF SyncTypeOK, Report
  <2>3. [proc[m.agent] EXCEPT !.pc = "idle", !.started = TRUE] \in Process
    BY <2>2 DEF Process, Phase
  <2>4. proc' \in [Agents -> Process]
    BY <1>13, <2>2, <2>3, GiveUpType DEF HandleLive, HandleAnswerLost, HandleLate, SyncTypeOK
  <2>5. faults' \in 0 .. MaxFaults
    BY <1>13, FaultType DEF HandleLive, HandleAnswerLost, HandleLate, SyncTypeOK
  <2>. QED  BY <2>1, <2>4, <2>5, HandleType DEF SyncTypeOK
<1>14. ASSUME NEW m \in reports, LoseReport(m)
       PROVE  SyncTypeOK'
  BY <1>14 DEF LoseReport, SyncTypeOK, StoreTypeOK, storeVars
<1>15. CASE UNCHANGED vars
  BY <1>15 DEF vars, SyncTypeOK, StoreTypeOK
<1>. QED
  BY <1>2, <1>3, <1>4, <1>5, <1>6, <1>7, <1>8, <1>9, <1>10, <1>11, <1>12, <1>13, <1>14, <1>15
  DEF Next

(* Every variable keeps its type. *)
THEOREM TypeCorrect == Spec => []SyncTypeOK
BY InitType, NextType, PTL DEF Spec

-----------------------------------------------------------------------------
(* What the steps of the server do to the database, row by row.            *)

(* A heartbeat changes nothing an agent is to run.                         *)
LEMMA HeartbeatEffect ==
  ASSUME SyncTypeOK, NEW m \in reports, Heartbeat(m.agent, m.revision, Stored(m))
  PROVE  Beaten(m.agent, m.revision, Observed(m.agent, Stored(m)))
<1>1. /\ m.agent \in Agents
      /\ m.revision \in Revision
  BY DEF SyncTypeOK, Report
<1>2. \A i \in DOMAIN Stored(m) : Stored(m)[i].observed_revision = m.revision
  BY DEF Stored
<1>. QED  BY <1>1, <1>2, HeartbeatWrites DEF SyncTypeOK

-----------------------------------------------------------------------------
(* The inductive invariant.                                                *)

(* Every revision anywhere is a number, every owner an agent. *)
LEMMA Numbers ==
  ASSUME SyncTypeOK
  PROVE  /\ \A a \in Agents :
              /\ agents[a].desired_revision \in Nat
              /\ agents[a].observed_revision \in Nat
              /\ fetch[a].revision \in Nat
              /\ proc[a].accepted.revision \in Nat
              /\ proc[a].reconciled \in Nat
         /\ \A m \in reports : m.revision \in Nat /\ m.agent \in Agents /\ m.live \in BOOLEAN
         /\ \A i \in DOMAIN routes :
              /\ i \in RouteIds
              /\ routes[i].client_id \in Agents
              /\ routes[i].desired_revision \in Nat
              /\ routes[i].observed_revision \in Nat
<1>1. Revision \subseteq Nat
  BY RevisionNat
<1>2. \A a \in Agents : /\ agents[a].desired_revision \in Nat
                        /\ agents[a].observed_revision \in Nat
  BY <1>1 DEF SyncTypeOK, StoreTypeOK, Agent
<1>3. \A a \in Agents : /\ fetch[a].revision \in Nat
                        /\ proc[a].accepted.revision \in Nat
                        /\ proc[a].reconciled \in Nat
  BY <1>1 DEF SyncTypeOK, DesiredState, Process
<1>4. \A m \in reports : m.revision \in Nat /\ m.agent \in Agents /\ m.live \in BOOLEAN
  BY <1>1 DEF SyncTypeOK, Report
<1>5. \A i \in DOMAIN routes :
        /\ i \in RouteIds
        /\ routes[i].client_id \in Agents
        /\ routes[i].desired_revision \in Nat
        /\ routes[i].observed_revision \in Nat
  BY <1>1 DEF SyncTypeOK, StoreTypeOK, Row
<1>. QED  BY <1>2, <1>3, <1>4, <1>5

(* An empty database and idle processes satisfy the invariant. *)
LEMMA InitInvariant == Init => IInv
<1>. SUFFICES ASSUME Init PROVE IInv
  OBVIOUS
<1>1. /\ DOMAIN routes = {} /\ reports = {}
      /\ \A a \in Agents : /\ proc[a] = Booted("down")
                           /\ agents[a].desired_revision = 0
                           /\ agents[a].observed_revision = 0
  BY DEF Init, StoreInit
<1>2. \A a \in Agents : /\ proc[a].pc = "down"
                        /\ proc[a].reconciled = 0
                        /\ proc[a].accepted.revision = 0
  BY <1>1 DEF Booted, NoState
<1>. QED
  BY <1>1, <1>2, InitType
  DEF IInv, ProcBounded, FetchBounded, FetchCurrent, ReportsCurrent, ReportingLatest,
      RowsBounded, AgentsBounded, SeenCurrent

(* Steps of an administrator. *)
LEMMA AdminInvariant ==
  ASSUME IInv, SyncTypeOK', Admin
  PROVE  IInv'
<1>1. SyncTypeOK /\ StoreTypeOK /\ RowsBounded
  BY DEF IInv, SyncTypeOK
<1>2. Reconfigured
  BY <1>1, AdministerEffect DEF Admin
<1>3. UNCHANGED << proc, fetch, reports, faults, seen, covered >>
  BY DEF Admin, syncVars
<1>4. \A i \in DOMAIN routes' :
        /\ routes'[i].client_id \in Agents
        /\ routes'[i].desired_revision \in Nat
        /\ routes'[i].observed_revision \in Nat
  <2>1. routes' \in [DOMAIN routes' -> Row]
    BY DEF SyncTypeOK, StoreTypeOK
  <2>. QED  BY <2>1, RevisionNat DEF Row
<1>5. \A a \in Agents : agents'[a].desired_revision \in Nat /\ agents'[a].observed_revision \in Nat
  BY RevisionNat DEF SyncTypeOK, StoreTypeOK, Agent
<1>. USE <1>1, <1>3, <1>5, Numbers
<1>6. ProcBounded'
  BY <1>2 DEF IInv, ProcBounded, Reconfigured
<1>7. FetchBounded'
  BY <1>2 DEF IInv, FetchBounded, Reconfigured
<1>8. FetchCurrent'
  BY <1>2, <1>4 DEF IInv, FetchCurrent, FetchBounded, Reconfigured
<1>9. ReportsCurrent'
  BY <1>2, <1>4 DEF IInv, ReportsCurrent, Reconfigured
<1>10. ReportingLatest'
  BY <1>2 DEF IInv, ReportingLatest, Reconfigured
<1>11. RowsBounded'
  BY <1>2, <1>4 DEF IInv, RowsBounded, Reconfigured
<1>12. AgentsBounded'
  BY <1>2 DEF IInv, AgentsBounded, Reconfigured
<1>13. SeenCurrent'
  BY <1>2, <1>4 DEF IInv, SeenCurrent, AgentsBounded, Reconfigured
<1>. QED  BY <1>6, <1>7, <1>8, <1>9, <1>10, <1>11, <1>12, <1>13 DEF IInv

(* Process a leaves its exchange: it is not reading or waiting afterwards, *)
(* remembers no more than it did, and has no live report left. The server  *)
(* is not involved.                                                        *)
Retires(a) ==
  /\ proc'[a].pc \in {"down", "idle", "asking"}
  /\ proc'[a].reconciled <= proc'[a].accepted.revision
  /\ proc'[a].accepted.revision <= agents[a].desired_revision
  /\ \A b \in Agents \ {a} : proc'[b] = proc[b] /\ fetch'[b] = fetch[b]
  /\ \A n \in reports' :
       /\ n.live => n \in reports /\ n.agent # a
       /\ \E m \in reports : n.agent = m.agent /\ n.revision = m.revision
                             /\ n.observations = m.observations
  /\ UNCHANGED << storeVars, seen, covered >>

(* Leaving an exchange (SyncOnce returns) keeps the invariant. *)
LEMMA RetiresInvariant ==
  ASSUME IInv, SyncTypeOK', NEW a \in Agents, Retires(a)
  PROVE  IInv'
<1>1. SyncTypeOK /\ UNCHANGED << agents, routes, seen, covered >>
  BY DEF IInv, Retires, storeVars
<1>. USE <1>1, Numbers
<1>2. \A b \in Agents : b = a \/ (proc'[b] = proc[b] /\ fetch'[b] = fetch[b])
  BY DEF Retires
<1>3. proc'[a].pc \notin {"reading", "answered", "reporting"}
  BY DEF Retires
<1>4. ProcBounded'
  BY <1>2 DEF IInv, ProcBounded, Retires
<1>5. FetchBounded'
  BY <1>2, <1>3 DEF IInv, FetchBounded, Retires
<1>6. FetchCurrent'
  BY <1>2, <1>3 DEF IInv, FetchCurrent
<1>7. ReportsCurrent'
  BY DEF IInv, ReportsCurrent, Retires
<1>8. ReportingLatest'
  <2>1. \A n \in reports' : n.live => proc'[n.agent].pc = "reporting"
    BY <1>2 DEF IInv, ReportingLatest, Retires
  <2>3. ASSUME NEW k \in reports', NEW n \in reports', k.live, n.live, k.agent = n.agent
        PROVE  k = n
    BY <2>3 DEF IInv, ReportingLatest, Retires
  <2>2. ASSUME NEW b \in Agents, proc'[b].pc = "reporting"
        PROVE  /\ agents'[b].observed_revision <= proc'[b].accepted.revision
               /\ \A n \in reports' : n.agent = b => n.revision <= proc'[b].accepted.revision
    <3>1. b # a /\ proc'[b] = proc[b]
      BY <1>2, <1>3, <2>2
    <3>. QED  BY <2>2, <3>1 DEF IInv, ReportingLatest, Retires
  <2>. QED  BY <2>1, <2>2, <2>3 DEF ReportingLatest
<1>9. RowsBounded' /\ AgentsBounded' /\ SeenCurrent'
  BY DEF IInv, RowsBounded, AgentsBounded, SeenCurrent
<1>. QED  BY <1>4, <1>5, <1>6, <1>7, <1>8, <1>9 DEF IInv

(* A process that gave up remembers no more than before. *)
LEMMA GiveUpEffect ==
  ASSUME NEW p \in Process, NEW bound \in Nat,
         p.reconciled <= p.accepted.revision, p.accepted.revision <= bound
  PROVE  /\ GiveUp(p).pc \in {"idle", "down"}
         /\ GiveUp(p).reconciled <= GiveUp(p).accepted.revision
         /\ GiveUp(p).accepted.revision <= bound
<1>1. CASE p.started
  <2>1. GiveUp(p) = [p EXCEPT !.pc = "idle"]
    BY <1>1 DEF GiveUp
  <2>. QED  BY <2>1 DEF Process
<1>2. CASE ~p.started
  <2>1. GiveUp(p) = Booted("down")
    BY <1>2 DEF GiveUp
  <2>. QED  BY <2>1 DEF Booted, NoState
<1>. QED  BY <1>1, <1>2

(* Abandoned reports are the same reports, no longer live. *)
LEMMA AbandonEffect ==
  ASSUME reports \subseteq Report, NEW a
  PROVE  \A n \in Abandon(a) :
           /\ n.live => n \in reports /\ n.agent # a
           /\ \E m \in reports : n.agent = m.agent /\ n.revision = m.revision
                                 /\ n.observations = m.observations
<1>. SUFFICES ASSUME NEW m \in reports,
                     NEW n, n = IF m.agent = a THEN [m EXCEPT !.live = FALSE] ELSE m
              PROVE  /\ n.agent = m.agent /\ n.revision = m.revision
                     /\ n.observations = m.observations
                     /\ n.live => n \in reports /\ n.agent # a
  BY DEF Abandon
<1>. QED  BY DEF Report

(* Steps of an agent's process that read nothing keep the invariant:        *)
(* starting, refusing an answer, failing, crashing.                        *)
LEMMA LocalInvariant ==
  ASSUME IInv, SyncTypeOK', NEW a \in Agents,
         \/ Start(a) \/ Ask(a) \/ FetchFails(a) \/ RefuseDesired(a)
         \/ ReportTimesOut(a) \/ Crash(a)
  PROVE  IInv'
<1>1. /\ SyncTypeOK
      /\ proc \in [Agents -> Process] /\ proc[a] \in Process
      /\ fetch \in [Agents -> DesiredState] /\ reports \subseteq Report
      /\ agents[a].desired_revision \in Nat
  BY Numbers DEF IInv, SyncTypeOK
<1>2. /\ proc[a].reconciled <= proc[a].accepted.revision
      /\ proc[a].accepted.revision <= agents[a].desired_revision
  BY DEF IInv, ProcBounded
<1>3. proc[a].pc # "reporting" => \A m \in reports : m.live => m.agent # a
  BY DEF IInv, ReportingLatest
<1>4. SUFFICES Retires(a)
  BY RetiresInvariant
<1>5. \A pc : /\ Booted(pc).pc = pc
              /\ Booted(pc).reconciled <= Booted(pc).accepted.revision
              /\ Booted(pc).accepted.revision <= agents[a].desired_revision
  BY <1>1 DEF Booted, NoState
<1>6. CASE Start(a)
  BY <1>1, <1>3, <1>5, <1>6 DEF Start, Retires
<1>7. CASE Ask(a)
  BY <1>1, <1>2, <1>3, <1>7 DEF Ask, Retires, Process
<1>8. CASE FetchFails(a)
  <2>1. PICK p \in Process :
          /\ proc' = [proc EXCEPT ![a] = GiveUp(p)]
          /\ p.reconciled <= p.accepted.revision
          /\ p.accepted.revision <= agents[a].desired_revision
    <3>1. ASSUME NEW r \in {proc[a].reconciled, proc[a].accepted.revision}
          PROVE  LET p == [proc[a] EXCEPT !.reconciled = r]
                 IN  /\ p \in Process
                     /\ p.reconciled <= p.accepted.revision
                     /\ p.accepted.revision <= agents[a].desired_revision
      <4>1. proc[a].accepted.revision \in Nat /\ r \in Revision
        BY <1>1, Numbers DEF Process, DesiredState
      <4>2. r <= proc[a].accepted.revision
        BY <1>2, <4>1
      <4>3. [proc[a] EXCEPT !.reconciled = r] \in Process
        BY <1>1, <4>1 DEF Process
      <4>4. /\ [proc[a] EXCEPT !.reconciled = r].reconciled = r
            /\ [proc[a] EXCEPT !.reconciled = r].accepted = proc[a].accepted
        BY <1>1 DEF Process
      <4>. QED  BY <1>2, <4>2, <4>3, <4>4
    <3>2. LET p == [proc[a] EXCEPT !.has_cached = FALSE]
          IN  /\ p \in Process
              /\ p.reconciled <= p.accepted.revision
              /\ p.accepted.revision <= agents[a].desired_revision
      BY <1>1, <1>2 DEF Process
    <3>. QED  BY <1>8, <3>1, <3>2 DEF FetchFails
  <2>2. proc'[a] = GiveUp(p) /\ \A b \in Agents \ {a} : proc'[b] = proc[b]
    BY <1>1, <2>1
  <2>3. proc[a].pc # "reporting"
    BY <1>8 DEF FetchFails
  <2>. QED  BY <1>1, <1>3, <1>8, <2>1, <2>2, <2>3, GiveUpEffect DEF FetchFails, Retires
<1>9. CASE RefuseDesired(a)
  <2>1. proc'[a] = GiveUp(proc[a]) /\ \A b \in Agents \ {a} : proc'[b] = proc[b]
    BY <1>1, <1>9 DEF RefuseDesired
  <2>2. proc[a].pc # "reporting"
    BY <1>9 DEF RefuseDesired
  <2>. QED  BY <1>1, <1>2, <1>3, <1>9, <2>1, <2>2, GiveUpEffect DEF RefuseDesired, Retires
<1>10. CASE ReportTimesOut(a)
  <2>1. proc'[a] = GiveUp(proc[a]) /\ \A b \in Agents \ {a} : proc'[b] = proc[b]
    BY <1>1, <1>10 DEF ReportTimesOut
  <2>. QED  BY <1>1, <1>2, <1>10, <2>1, GiveUpEffect, AbandonEffect DEF ReportTimesOut, Retires
<1>11. CASE Crash(a)
  <2>1. proc'[a] = Booted("down") /\ \A b \in Agents \ {a} : proc'[b] = proc[b]
    BY <1>1, <1>11 DEF Crash
  <2>. QED  BY <1>1, <1>5, <1>11, <2>1, AbandonEffect DEF Crash, Retires
<1>. QED  BY <1>6, <1>7, <1>8, <1>9, <1>10, <1>11

(* The two reads of SyncAgent. *)
LEMMA ReadRevisionInvariant ==
  ASSUME IInv, SyncTypeOK', NEW a \in Agents, ReadRevision(a)
  PROVE  IInv'
<1>1. /\ SyncTypeOK /\ proc \in [Agents -> Process] /\ fetch \in [Agents -> DesiredState]
      /\ UNCHANGED << agents, routes, issued, reports, faults, seen, covered >>
  BY DEF IInv, SyncTypeOK, ReadRevision, storeVars
<1>. USE <1>1, Numbers
<1>2. /\ proc[a].pc = "asking" /\ proc'[a].pc = "reading"
      /\ proc'[a].accepted = proc[a].accepted /\ proc'[a].reconciled = proc[a].reconciled
      /\ fetch'[a].revision = agents[a].desired_revision
      /\ \A b \in Agents \ {a} : proc'[b] = proc[b] /\ fetch'[b] = fetch[b]
  BY DEF ReadRevision, Process, NoState
<1>3. ProcBounded'
  BY <1>2 DEF IInv, ProcBounded
<1>4. FetchBounded'
  <2>1. /\ agents[a].observed_revision <= agents[a].desired_revision
        /\ proc[a].accepted.revision <= agents[a].desired_revision
        /\ \A m \in reports : m.agent = a => m.revision <= agents[a].desired_revision
    BY DEF IInv, AgentsBounded, ProcBounded, ReportsCurrent
  <2>. QED  BY <1>2, <2>1 DEF IInv, FetchBounded
<1>5. FetchCurrent'
  BY <1>2 DEF IInv, FetchCurrent
<1>6. ReportsCurrent' /\ RowsBounded' /\ AgentsBounded' /\ SeenCurrent'
  BY DEF IInv, ReportsCurrent, RowsBounded, AgentsBounded, SeenCurrent
<1>7. ReportingLatest'
  BY <1>2 DEF IInv, ReportingLatest
<1>. QED  BY <1>3, <1>4, <1>5, <1>6, <1>7 DEF IInv

(* SyncAgent's second read: the routes go with a revision read before them. *)
LEMMA ReadRoutesInvariant ==
  ASSUME IInv, SyncTypeOK', NEW a \in Agents, ReadRoutes(a)
  PROVE  IInv'
<1>1. /\ SyncTypeOK /\ proc \in [Agents -> Process] /\ fetch \in [Agents -> DesiredState]
      /\ UNCHANGED << agents, routes, issued, reports, faults, seen, covered >>
  BY DEF IInv, SyncTypeOK, ReadRoutes, storeVars
<1>. USE <1>1, Numbers
<1>2. /\ proc[a].pc = "reading" /\ proc'[a].pc = "answered"
      /\ proc'[a].accepted = proc[a].accepted /\ proc'[a].reconciled = proc[a].reconciled
      /\ \A b \in Agents \ {a} : proc'[b] = proc[b] /\ fetch'[b] = fetch[b]
  BY DEF ReadRoutes, Process
<1>3. /\ fetch'[a].revision = fetch[a].revision
      /\ fetch'[a].routes =
           [i \in RouteIds |-> IF i \in RoutesOf(a) THEN Intent(routes[i]) ELSE NoIntent]
  BY DEF ReadRoutes, DesiredState
<1>4. ProcBounded'
  BY <1>2 DEF IInv, ProcBounded
<1>5. FetchBounded'
  BY <1>2, <1>3 DEF IInv, FetchBounded
<1>6. FetchCurrent'
  BY <1>2, <1>3 DEF IInv, FetchCurrent, RoutesOf
<1>7. ReportsCurrent' /\ RowsBounded' /\ AgentsBounded' /\ SeenCurrent'
  BY DEF IInv, ReportsCurrent, RowsBounded, AgentsBounded, SeenCurrent
<1>8. ReportingLatest'
  BY <1>2 DEF IInv, ReportingLatest
<1>. QED  BY <1>4, <1>5, <1>6, <1>7, <1>8 DEF IInv

(* A reconciliation reports on the state just read, at its revision or at  *)
(* an older one.                                                           *)
LEMMA ReconcileInvariant ==
  ASSUME IInv, SyncTypeOK', NEW a \in Agents,
         NEW o \in Outcomes(fetch[a], proc[a].reconciled), Reconcile(a, o)
  PROVE  IInv'
<1>1. /\ SyncTypeOK /\ proc \in [Agents -> Process] /\ fetch \in [Agents -> DesiredState]
      /\ UNCHANGED << agents, routes, issued, seen, covered >>
  BY DEF IInv, SyncTypeOK, Reconcile, storeVars
<1>. USE <1>1, Numbers
<1>. DEFINE d == fetch[a]
            n == ReportOf(a, d, o)
<1>2. /\ proc[a].pc = "answered" /\ reports' = reports \cup {n}
      /\ \A b \in Agents \ {a} : proc'[b] = proc[b] /\ fetch'[b] = fetch[b]
  BY DEF Reconcile
<1>3. proc'[a].pc = "reporting" /\ proc'[a].accepted = d /\ proc'[a].reconciled = o.revision
  <2>1. proc' = [proc EXCEPT ![a] = [proc[a] EXCEPT !.pc = "reporting", !.has_accepted = TRUE,
                                                    !.accepted = d, !.has_cached = TRUE,
                                                    !.reconciled = o.revision]]
    BY DEF Reconcile
  <2>. QED  BY <2>1 DEF Process
<1>4. /\ o.revision = d.revision \/ o.revision = proc[a].reconciled
      /\ \A i \in RouteIds : o.tunnel[i] \in StatusesOf(d.routes[i])
  BY DEF Outcomes
<1>5. /\ n.agent = a /\ n.live /\ n.revision = o.revision
      /\ \A i \in RouteIds : /\ n.observations[i].intent = d.routes[i]
                             /\ n.observations[i].tunnel_status = o.tunnel[i]
  BY DEF ReportOf
<1>6. /\ d.revision <= agents[a].desired_revision
      /\ agents[a].observed_revision <= d.revision
      /\ proc[a].accepted.revision <= d.revision
      /\ \A m \in reports : m.agent = a => m.revision <= d.revision
      /\ proc[a].reconciled <= proc[a].accepted.revision
  BY <1>2 DEF IInv, FetchBounded, ProcBounded
<1>7. o.revision \in Nat /\ o.revision <= d.revision
  BY <1>4, <1>6
<1>8. ProcBounded'
  BY <1>2, <1>3, <1>6, <1>7 DEF IInv, ProcBounded
<1>9. FetchBounded'
  BY <1>2, <1>3, <1>5 DEF IInv, FetchBounded
<1>10. FetchCurrent'
  BY <1>2, <1>3 DEF IInv, FetchCurrent
<1>11. ReportsCurrent'
  <2>1. n.revision <= agents[a].desired_revision
    BY <1>5, <1>6, <1>7
  <2>2. ASSUME NEW i \in DOMAIN routes, routes[i].client_id = a,
               routes[i].desired_revision <= n.revision
        PROVE  /\ n.observations[i].intent = Intent(routes[i])
               /\ n.observations[i].tunnel_status # "none"
    <3>1. i \in RouteIds /\ d.routes[i] = Intent(routes[i])
      BY <1>2, <1>5, <1>7, <2>2 DEF IInv, FetchCurrent
    <3>2. n.observations[i].intent = d.routes[i] /\ n.observations[i].tunnel_status = o.tunnel[i]
      BY <1>5, <3>1
    <3>3. o.tunnel[i] # "none"
      <4>1. Intent(routes[i]) \in Intents
        BY DEF SyncTypeOK, StoreTypeOK, Row, Intent, Intents
      <4>2. d.routes[i] # NoIntent
        BY <3>1, <4>1, NoIntentAssumption
      <4>. QED  BY <1>4, <3>1, <4>2 DEF StatusesOf
    <3>. QED  BY <3>1, <3>2, <3>3
  <2>. QED  BY <1>2, <1>5, <2>1, <2>2 DEF IInv, ReportsCurrent
<1>12. ReportingLatest'
  BY <1>2, <1>3, <1>5, <1>6, <1>7 DEF IInv, ReportingLatest
<1>13. RowsBounded' /\ AgentsBounded' /\ SeenCurrent'
  BY DEF IInv, RowsBounded, AgentsBounded, SeenCurrent
<1>. QED  BY <1>8, <1>9, <1>10, <1>11, <1>12, <1>13 DEF IInv

(* The sender of a report the server handles stops waiting for it; other   *)
(* processes do not notice.                                                *)
LEMMA SenderEffect ==
  ASSUME IInv, NEW m \in reports, HandleLive(m) \/ HandleAnswerLost(m) \/ HandleLate(m)
  PROVE  /\ Handle(m)
         /\ \A b \in Agents :
              /\ proc'[b] = proc[b] \/ proc'[b].pc \in {"idle", "down"}
              /\ proc'[b].reconciled <= proc'[b].accepted.revision
              /\ proc'[b].accepted.revision <= agents[b].desired_revision
         /\ \A b \in Agents : ~m.live \/ b # m.agent => proc'[b] = proc[b]
<1>. DEFINE a == m.agent
<1>1. /\ SyncTypeOK /\ a \in Agents /\ proc \in [Agents -> Process] /\ proc[a] \in Process
      /\ agents[a].desired_revision \in Nat
  BY Numbers DEF IInv, SyncTypeOK
<1>2. \A b \in Agents : /\ proc[b].reconciled <= proc[b].accepted.revision
                        /\ proc[b].accepted.revision <= agents[b].desired_revision
  BY DEF IInv, ProcBounded
<1>3. CASE HandleLate(m)
  BY <1>2, <1>3 DEF HandleLate
<1>4. CASE HandleLive(m) \/ HandleAnswerLost(m)
  <2>1. PICK p : /\ proc' = [proc EXCEPT ![a] = p]
                 /\ \/ p = GiveUp(proc[a])
                    \/ p = [proc[a] EXCEPT !.pc = "idle", !.started = TRUE]
    BY <1>4 DEF HandleLive, HandleAnswerLost
  <2>2. /\ p.pc \in {"idle", "down"}
        /\ p.reconciled <= p.accepted.revision
        /\ p.accepted.revision <= agents[a].desired_revision
    <3>1. CASE p = GiveUp(proc[a])
      BY <1>1, <1>2, <3>1, GiveUpEffect
    <3>2. CASE p = [proc[a] EXCEPT !.pc = "idle", !.started = TRUE]
      BY <1>1, <1>2, <3>2 DEF Process
    <3>. QED  BY <2>1, <3>1, <3>2
  <2>3. proc'[a] = p /\ \A b \in Agents \ {a} : proc'[b] = proc[b]
    BY <1>1, <2>1
  <2>. QED  BY <1>1, <1>2, <1>4, <2>2, <2>3 DEF HandleLive, HandleAnswerLost
<1>. QED  BY <1>3, <1>4

(* What a handled report leaves in the rows it wrote, and in the others.   *)
LEMMA WrittenCurrent ==
  ASSUME IInv, SyncTypeOK', NEW m \in reports, Handle(m),
         Heartbeat(m.agent, m.revision, Stored(m)),
         seen' = [i \in RouteIds |-> IF i \in Observed(m.agent, Stored(m))
                                       THEN m.observations[i].intent
                                       ELSE seen[i]],
         covered' = (covered \ RoutesOf(m.agent)) \cup Observed(m.agent, Stored(m))
  PROVE  SeenCurrent' /\ RowsBounded'
<1>. DEFINE written == Observed(m.agent, Stored(m))
<1>1. SyncTypeOK
  BY DEF IInv
<1>. USE Numbers, <1>1
<1>0. Beaten(m.agent, m.revision, written)
  BY HeartbeatEffect
<1>. USE <1>0 DEF Beaten
<1>2. \A i \in DOMAIN routes :
        i \in written <=> /\ routes[i].client_id = m.agent
                          /\ m.observations[i].tunnel_status # "none"
                          /\ routes[i].desired_revision <= m.revision
                          /\ routes[i].observed_revision <= m.revision
  BY DEF Observed, Stored
<1>3. written \subseteq DOMAIN routes
  BY DEF Observed
<1>4. \A i \in DOMAIN routes :
        routes[i].client_id = m.agent /\ routes[i].desired_revision <= m.revision =>
          /\ m.observations[i].intent = Intent(routes[i])
          /\ m.observations[i].tunnel_status # "none"
  BY DEF IInv, ReportsCurrent
<1>5. \A i \in DOMAIN routes :
        routes[i].observed_revision <= agents[routes[i].client_id].observed_revision
  BY DEF IInv, RowsBounded
<1>6. ASSUME NEW i \in DOMAIN routes,
             routes'[i].observed_revision >= routes'[i].desired_revision
      PROVE  seen'[i] = Intent(routes'[i]) /\ i \in covered'
  <2>1. CASE i \in written
    <3>1. seen'[i] = m.observations[i].intent
      BY <2>1
    <3>. QED  BY <1>2, <1>4, <2>1, <3>1
  <2>2. CASE i \notin written
    <3>1. routes[i].observed_revision >= routes[i].desired_revision
      BY <1>6, <2>2
    <3>2. seen'[i] = seen[i] /\ seen[i] = Intent(routes[i]) /\ i \in covered
      BY <2>2, <3>1 DEF IInv, SeenCurrent
    <3>3. routes[i].client_id # m.agent
      <4>1. SUFFICES ASSUME routes[i].client_id = m.agent PROVE FALSE
        OBVIOUS
      <4>2. routes[i].observed_revision <= m.revision
        BY <1>5, <4>1
      <4>3. routes[i].desired_revision <= m.revision
        BY <3>1, <4>2
      <4>. QED  BY <1>2, <1>4, <2>2, <4>1, <4>2, <4>3
    <3>4. i \in covered'
      BY <3>2, <3>3 DEF RoutesOf
    <3>. QED  BY <3>2, <3>4
  <2>. QED  BY <2>1, <2>2
<1>7. SeenCurrent'
  BY <1>6 DEF SeenCurrent
<1>8. RowsBounded'
  <2>1. ASSUME NEW i \in DOMAIN routes
        PROVE  /\ routes'[i].desired_revision \in
                    1 .. agents'[routes'[i].client_id].desired_revision
               /\ routes'[i].observed_revision <=
                    agents'[routes'[i].client_id].observed_revision
    <3>1. routes'[i].desired_revision \in 1 .. agents'[routes'[i].client_id].desired_revision
      BY DEF IInv, RowsBounded
    <3>. DEFINE b == routes[i].client_id
    <3>2. /\ b \in Agents /\ routes'[i].client_id = b
          /\ m.revision \in Nat /\ routes[i].observed_revision \in Nat
          /\ agents[b].observed_revision \in Nat
      OBVIOUS
    <3>3. agents'[b].observed_revision = IF b = m.agent THEN m.revision
                                                       ELSE agents[b].observed_revision
      BY <3>2
    <3>4. m.revision >= agents[m.agent].observed_revision
      OBVIOUS
    <3>5. routes[i].observed_revision <= agents'[b].observed_revision
      BY <1>5, <3>2, <3>3, <3>4
    <3>6. routes'[i].observed_revision <= agents'[b].observed_revision
      BY <1>2, <3>2, <3>3, <3>5
    <3>. QED  BY <3>1, <3>2, <3>6
  <2>. QED  BY <2>1 DEF RowsBounded
<1>. QED  BY <1>7, <1>8

(* Heartbeat, live or late, keeps what is seen and published current. *)
LEMMA HandleInvariant ==
  ASSUME IInv, SyncTypeOK', NEW m \in reports,
         HandleLive(m) \/ HandleAnswerLost(m) \/ HandleLate(m)
  PROVE  IInv'
<1>1. /\ SyncTypeOK /\ Handle(m) /\ reports' = reports \ {m} /\ UNCHANGED fetch
      /\ m.agent \in Agents /\ m.revision \in Nat
  BY SenderEffect, Numbers DEF IInv, Handle
<1>2. \A b \in Agents : proc'[b] = proc[b] \/ proc'[b].pc \in {"idle", "down"}
  BY SenderEffect
<1>. USE <1>1, Numbers
(* A refused report leaves the database alone; an accepted one leaves every *)
(* row's intent and every desired revision alone.                          *)
<1>3. /\ \A b \in Agents :
           /\ agents'[b].desired_revision = agents[b].desired_revision
           /\ \/ agents'[b].observed_revision = agents[b].observed_revision
              \/ b = m.agent /\ agents'[b].observed_revision = m.revision
      /\ DOMAIN routes' = DOMAIN routes
      /\ \A i \in DOMAIN routes :
           /\ routes'[i].client_id = routes[i].client_id
           /\ routes'[i].desired_revision = routes[i].desired_revision
           /\ Intent(routes'[i]) = Intent(routes[i])
      /\ AgentsBounded' /\ SeenCurrent' /\ RowsBounded'
  <2>1. CASE Heartbeat(m.agent, m.revision, Stored(m))
    <3>1. CASE /\ seen' = [i \in RouteIds |-> IF i \in Observed(m.agent, Stored(m))
                                                THEN m.observations[i].intent
                                                ELSE seen[i]]
               /\ covered' = (covered \ RoutesOf(m.agent)) \cup Observed(m.agent, Stored(m))
      <4>1. SeenCurrent' /\ RowsBounded'
        BY <2>1, <3>1, WrittenCurrent
      <4>2. AgentsBounded'
        BY <2>1, HeartbeatEffect DEF Beaten, IInv, AgentsBounded
      <4>. QED  BY <2>1, <4>1, <4>2, HeartbeatEffect DEF Beaten
    <3>2. CASE ~Accepted(m)
      BY <2>1, <3>2 DEF Heartbeat, Accepted
    <3>. QED  BY <3>1, <3>2 DEF Handle
  <2>2. CASE UNCHANGED << storeVars, seen, covered >>
    BY <2>2 DEF IInv, storeVars, AgentsBounded, SeenCurrent, RowsBounded
  <2>. QED  BY <2>1, <2>2 DEF Handle
<1>4. ProcBounded'
  BY <1>3, SenderEffect DEF ProcBounded
<1>5. FetchBounded'
  BY <1>2, <1>3 DEF IInv, FetchBounded
<1>6. FetchCurrent'
  BY <1>2, <1>3 DEF IInv, FetchCurrent
<1>7. ReportsCurrent'
  BY <1>3 DEF IInv, ReportsCurrent
<1>8. ReportingLatest'
  <2>1. ASSUME NEW n \in reports', n.live
        PROVE  proc'[n.agent].pc = "reporting"
    <3>1. n \in reports /\ n # m /\ proc[n.agent].pc = "reporting"
      BY <2>1 DEF IInv, ReportingLatest
    <3>2. ~m.live \/ n.agent # m.agent
      BY <2>1, <3>1 DEF IInv, ReportingLatest
    <3>. QED  BY <3>1, <3>2, SenderEffect
  <2>2. \A k, n \in reports' : k.live /\ n.live /\ k.agent = n.agent => k = n
    BY DEF IInv, ReportingLatest
  <2>3. ASSUME NEW b \in Agents, proc'[b].pc = "reporting"
        PROVE  /\ agents'[b].observed_revision <= proc'[b].accepted.revision
               /\ \A n \in reports' : n.agent = b => n.revision <= proc'[b].accepted.revision
    <3>1. proc'[b] = proc[b]
      BY <1>2, <2>3
    <3>. QED  BY <1>3, <2>3, <3>1 DEF IInv, ReportingLatest
  <2>. QED  BY <2>1, <2>2, <2>3 DEF ReportingLatest
<1>. QED  BY <1>3, <1>4, <1>5, <1>6, <1>7, <1>8 DEF IInv

(* last_seen growing old (PublicationReadyAt) changes no other state. *)
LEMMA StaleInvariant ==
  ASSUME IInv, SyncTypeOK', NEW a \in Agents, Stale(a)
  PROVE  IInv'
<1>1. /\ SyncTypeOK
      /\ UNCHANGED << routes, proc, fetch, reports, seen, covered >>
      /\ agents' = [agents EXCEPT ![a].last_seen = "stale"]
  BY DEF IInv, Stale, AgeOut
<1>2. \A b \in Agents : /\ agents'[b].desired_revision = agents[b].desired_revision
                        /\ agents'[b].observed_revision = agents[b].observed_revision
  BY <1>1 DEF SyncTypeOK, StoreTypeOK, Agent
<1>3. \A i \in DOMAIN routes : routes[i].client_id \in Agents
  BY <1>1, Numbers
<1>4. \A m \in reports : m.agent \in Agents
  BY <1>1, Numbers
<1>. QED
  BY <1>1, <1>2, <1>3, <1>4
  DEF IInv, ProcBounded, FetchBounded, FetchCurrent, ReportsCurrent, ReportingLatest,
      RowsBounded, AgentsBounded, SeenCurrent

(* A late report that is lost leaves everything else alone. *)
LEMMA LoseInvariant ==
  ASSUME IInv, SyncTypeOK', NEW m \in reports, LoseReport(m)
  PROVE  IInv'
<1>1. /\ reports' = reports \ {m}
      /\ UNCHANGED << agents, routes, proc, fetch, seen, covered >>
  BY DEF LoseReport, storeVars
<1>. QED
  BY <1>1
  DEF IInv, ProcBounded, FetchBounded, FetchCurrent, ReportsCurrent, ReportingLatest,
      RowsBounded, AgentsBounded, SeenCurrent

(* IInv is inductive: one step of the proof per action. *)
LEMMA NextInvariant == IInv /\ [Next]_vars => IInv'
<1>. SUFFICES ASSUME IInv, [Next]_vars PROVE IInv'
  OBVIOUS
<1>1. SyncTypeOK'
  BY NextType DEF IInv
<1>2. CASE Admin
  BY <1>1, <1>2, AdminInvariant
<1>3. ASSUME NEW a \in Agents, Stale(a)
      PROVE  IInv'
  BY <1>1, <1>3, StaleInvariant
<1>4. ASSUME NEW a \in Agents,
             \/ Start(a) \/ Ask(a) \/ FetchFails(a) \/ RefuseDesired(a)
             \/ ReportTimesOut(a) \/ Crash(a)
      PROVE  IInv'
  BY <1>1, <1>4, LocalInvariant
<1>5. ASSUME NEW a \in Agents, ReadRevision(a)
      PROVE  IInv'
  BY <1>1, <1>5, ReadRevisionInvariant
<1>6. ASSUME NEW a \in Agents, ReadRoutes(a)
      PROVE  IInv'
  BY <1>1, <1>6, ReadRoutesInvariant
<1>7. ASSUME NEW a \in Agents, NEW o \in Outcomes(fetch[a], proc[a].reconciled), Reconcile(a, o)
      PROVE  IInv'
  BY <1>1, <1>7, ReconcileInvariant
<1>8. ASSUME NEW m \in reports, HandleLive(m) \/ HandleAnswerLost(m) \/ HandleLate(m)
      PROVE  IInv'
  BY <1>1, <1>8, HandleInvariant
<1>9. ASSUME NEW m \in reports, LoseReport(m)
      PROVE  IInv'
  BY <1>1, <1>9, LoseInvariant
<1>10. CASE UNCHANGED vars
  BY <1>1, <1>10
  DEF vars, IInv, ProcBounded, FetchBounded, FetchCurrent, ReportsCurrent, ReportingLatest,
      RowsBounded, AgentsBounded, SeenCurrent
<1>. QED
  BY <1>2, <1>3, <1>4, <1>5, <1>6, <1>7, <1>8, <1>9, <1>10 DEF Next

(* The inductive invariant holds throughout, whatever is delayed, repeated,  *)
(* lost or crashed between SyncAgent, Reconcile and Heartbeat.              *)
THEOREM Invariant == Spec => []IInv
BY InitInvariant, NextInvariant, PTL DEF Spec

-----------------------------------------------------------------------------
(* What is published is what its agent last reported on (SyncAgent reads   *)
(* the revision first, Heartbeat compares it row by row).                  *)
THEOREM PublicationIsSound == Spec => []PublicationSound
<1>1. IInv => PublicationSound
  BY DEF IInv, SeenCurrent, PublicationSound, Ready, PublicationReady
<1>. QED  BY <1>1, Invariant, PTL

(* A route is kept ready by no report that leaves it out: the report that  *)
(* refreshed last_seen_at wrote the route too.                             *)
THEOREM ReadyRoutesAreReported == Spec => []ReadyIsReported
<1>1. IInv => ReadyIsReported
  BY DEF IInv, SeenCurrent, ReadyIsReported, Ready, PublicationReady
<1>. QED  BY <1>1, Invariant, PTL

(* Desired revisions never go back for a process (acceptDesired).          *)
THEOREM RevisionsNeverGoBack == Spec => []NeverRollback
<1>1. ASSUME IInv
      PROVE  NeverRollback
  BY <1>1, Numbers DEF IInv, FetchBounded, NeverRollback, Rollback
<1>. QED  BY <1>1, Invariant, PTL

(* Heartbeat never refuses a report at the revision just accepted.         *)
THEOREM LiveReportsAreAccepted == Spec => []LiveReportAccepted
<1>1. ASSUME IInv
      PROVE  LiveReportAccepted
  <2>. SUFFICES ASSUME NEW m \in reports, m.live,
                       m.revision = proc[m.agent].accepted.revision
                PROVE  Accepted(m)
    BY DEF LiveReportAccepted
  <2>1. m.agent \in Agents
    BY <1>1, Numbers DEF IInv
  <2>2. agents[m.agent].observed_revision <= m.revision
    BY <1>1, <2>1 DEF IInv, ReportingLatest
  <2>3. m.revision <= agents[m.agent].desired_revision
    BY <1>1, <2>1 DEF IInv, ReportsCurrent
  <2>. QED  BY <1>1, <2>1, <2>2, <2>3, Numbers DEF Accepted, HeartbeatAccepted, Stored, IInv
<1>. QED  BY <1>1, Invariant, PTL

-----------------------------------------------------------------------------
(* The store implements the promise of Publication. Every route that is    *)
(* ready carries its present intent, so whatever leaves the intents alone  *)
(* is a Refresh; creating or updating a route is a Configure, because the  *)
(* row's desired revision is then beyond anything observed of it.          *)

Wanted == [i \in DOMAIN routes |-> Intent(routes[i])]
Live == [i \in DOMAIN routes |-> IF Ready(i) THEN seen[i] ELSE NoIntent]
Published == {i \in DOMAIN routes : Ready(i)}

(* Traffic reaches the intents of the ready routes, and nothing else. *)
LiveFollows ==
  /\ Live = [i \in DOMAIN Wanted |-> IF i \in Published THEN Wanted[i] ELSE NoIntent]
  /\ Published \subseteq RouteIds

(* It is so in every state of the system. *)
LEMMA LiveIsWanted == IInv => LiveFollows
<1>. SUFFICES ASSUME IInv PROVE LiveFollows
  OBVIOUS
<1>1. \A i \in DOMAIN routes : Ready(i) => seen[i] = Intent(routes[i])
  BY DEF IInv, SeenCurrent, Ready, PublicationReady
<1>2. DOMAIN routes \subseteq RouteIds
  BY DEF IInv, SyncTypeOK, StoreTypeOK
<1>. QED  BY <1>1, <1>2 DEF LiveFollows, Live, Wanted, Published

(* A step that leaves every intent alone publishes and withdraws at most. *)
LEMMA RefreshStep ==
  ASSUME IInv', Wanted' = Wanted
  PROVE  Promise!Next
<1>1. LiveFollows'
  BY LiveIsWanted, PTL
<1>2. Live' = [i \in DOMAIN Wanted |-> IF i \in Published' THEN Wanted[i] ELSE NoIntent]
  BY <1>1 DEF LiveFollows
<1>3. Published' \in SUBSET RouteIds
  BY <1>1 DEF LiveFollows
<1>. QED  BY <1>2, <1>3 DEF Promise!Next, Promise!Refresh, Wanted, Live

(* A heartbeat, and whatever agents do, leaves every intent alone. *)
LEMMA IntentsKept ==
  ASSUME DOMAIN routes' = DOMAIN routes,
         \A i \in DOMAIN routes : Intent(routes'[i]) = Intent(routes[i])
  PROVE  Wanted' = Wanted
BY DEF Wanted

(* CreateRoute and UpdateRoute configure a route, DeleteRoute removes one. *)
LEMMA AdministerStep ==
  ASSUME IInv, IInv', Admin
  PROVE  Promise!Next
<1>1. /\ SyncTypeOK /\ StoreTypeOK /\ RowsBounded /\ AgentsBounded
      /\ \A i \in DOMAIN routes : routes[i].client_id \in Agents
  BY Numbers DEF IInv, SyncTypeOK
<1>2. /\ Administer /\ seen' = seen
      /\ \A a \in Agents : agents'[a].last_seen = agents[a].last_seen
  BY <1>1, AdministerEffect DEF Admin, syncVars, Reconfigured
(* A row the request leaves alone stays as ready as it was. *)
<1>3. ASSUME NEW i \in DOMAIN routes, routes'[i] = routes[i]
      PROVE  Ready(i)' <=> Ready(i)
  BY <1>1, <1>2, <1>3 DEF Ready
(* A row that is new or changed is wanted as it is now, and not ready.     *)
<1>4. ASSUME NEW id \in RouteIds, DOMAIN routes' = DOMAIN routes \cup {id},
             \A i \in DOMAIN routes \ {id} : routes'[i] = routes[i],
             routes'[id].observed_revision < routes'[id].desired_revision
      PROVE  Promise!Next
  <2>. DEFINE w == Intent(routes'[id])
  <2>1. w \in Intents
    BY <1>4 DEF IInv, SyncTypeOK, StoreTypeOK, Row, Intent, Intents
  <2>2. ~Ready(id)'
    <3>1. routes'[id].observed_revision \in Nat /\ routes'[id].desired_revision \in Nat
      BY <1>4, RevisionNat DEF IInv, SyncTypeOK, StoreTypeOK, Row
    <3>. QED  BY <1>4, <3>1 DEF Ready, PublicationReady
  <2>3. Wanted' = [i \in DOMAIN Wanted \cup {id} |-> IF i = id THEN w ELSE Wanted[i]]
    BY <1>4 DEF Wanted
  <2>4. Live' = [i \in DOMAIN Wanted \cup {id} |-> IF i = id THEN NoIntent ELSE Live[i]]
    <3>1. \A i \in DOMAIN routes \ {id} : Ready(i)' <=> Ready(i)
      BY <1>3, <1>4
    <3>. QED  BY <1>2, <1>4, <2>2, <3>1 DEF Live, Wanted
  <2>. HIDE DEF w
  <2>. QED  BY <2>1, <2>3, <2>4 DEF Promise!Next, Promise!Configure, Wanted, Live
<1>5. ASSUME NEW a \in Agents, NEW id \in RouteIds, NEW r \in Requests,
             NEW occupied \in SUBSET RemotePorts, CreateRoute(a, id, r, occupied)
      PROVE  Promise!Next
  <2>1. PICK port \in RemotePorts :
          routes' = [i \in DOMAIN routes \cup {id} |->
                       IF i = id THEN NewRow(a, Normalized(r), port) ELSE routes[i]]
    BY <1>5 DEF CreateRoute
  <2>2. /\ routes'[id].desired_revision = agents[a].desired_revision + 1
        /\ routes'[id].observed_revision = 0
    BY <2>1 DEF NewRow
  <2>3. /\ DOMAIN routes' = DOMAIN routes \cup {id}
        /\ \A i \in DOMAIN routes \ {id} : routes'[i] = routes[i]
    BY <2>1
  <2>4. routes'[id].observed_revision < routes'[id].desired_revision
    BY <1>1, <2>2, Numbers
  <2>. QED  BY <1>4, <2>3, <2>4
<1>6. ASSUME NEW id \in RouteIds, NEW r \in Requests, UpdateRoute(id, r)
      PROVE  Promise!Next
  <2>. DEFINE a == routes[id].client_id
  <2>1. /\ id \in DOMAIN routes /\ a \in Agents /\ routes \in [DOMAIN routes -> Row]
        /\ routes[id].observed_revision <= agents[a].desired_revision
    BY <1>1, <1>6, Numbers DEF UpdateRoute, RowsBounded, AgentsBounded, StoreTypeOK
  <2>2. routes' = [routes EXCEPT ![id].config = Normalized(r),
                                 ![id].desired_revision = agents[a].desired_revision + 1]
    BY <1>6 DEF UpdateRoute
  <2>3. /\ DOMAIN routes' = DOMAIN routes \cup {id}
        /\ \A i \in DOMAIN routes \ {id} : routes'[i] = routes[i]
    BY <2>1, <2>2
  <2>4. /\ routes'[id].desired_revision = agents[a].desired_revision + 1
        /\ routes'[id].observed_revision = routes[id].observed_revision
    BY <2>1, <2>2 DEF Row
  <2>5. routes'[id].observed_revision < routes'[id].desired_revision
    BY <1>1, <2>1, <2>4, Numbers
  <2>. QED  BY <1>4, <2>3, <2>5
<1>7. ASSUME NEW id \in RouteIds, DeleteRoute(id)
      PROVE  Promise!Next
  <2>1. id \in DOMAIN routes /\ routes' = [i \in DOMAIN routes \ {id} |-> routes[i]]
    BY <1>7 DEF DeleteRoute
  <2>2. Wanted' = [i \in DOMAIN Wanted \ {id} |-> Wanted[i]]
    BY <2>1 DEF Wanted
  <2>3. Live' = [i \in DOMAIN Wanted \ {id} |-> Live[i]]
    <3>1. \A i \in DOMAIN routes \ {id} : Ready(i)' <=> Ready(i)
      BY <1>3, <2>1
    <3>. QED  BY <1>2, <2>1, <3>1 DEF Live, Wanted
  <2>4. Promise!Remove(id)
    BY <2>1, <2>2, <2>3 DEF Promise!Remove, Wanted, Live
  <2>. QED  BY <2>4 DEF Promise!Next
<1>. QED  BY <1>2, <1>5, <1>6, <1>7 DEF Administer

(* Every step of the system maps to a step of the promise. *)
LEMMA NextStep == IInv /\ IInv' /\ [Next]_vars => [Promise!Next]_(Promise!vars)
<1>. SUFFICES ASSUME IInv, IInv', [Next]_vars PROVE [Promise!Next]_(Promise!vars)
  OBVIOUS
<1>1. SyncTypeOK
  BY DEF IInv
<1>2. CASE Admin
  BY <1>2, AdministerStep
<1>3. CASE UNCHANGED routes
  <2>1. Wanted' = Wanted
    BY <1>3 DEF Wanted
  <2>. QED  BY <2>1, RefreshStep
<1>4. ASSUME NEW m \in reports, Heartbeat(m.agent, m.revision, Stored(m))
      PROVE  Promise!Next
  <2>1. Wanted' = Wanted
    BY <1>1, <1>4, HeartbeatEffect, IntentsKept DEF Beaten
  <2>. QED  BY <2>1, RefreshStep
<1>5. ASSUME NEW m \in reports, HandleLive(m) \/ HandleAnswerLost(m) \/ HandleLate(m) \/ LoseReport(m)
      PROVE  Heartbeat(m.agent, m.revision, Stored(m)) \/ UNCHANGED routes
  BY <1>5 DEF HandleLive, HandleAnswerLost, HandleLate, LoseReport, Handle, storeVars
<1>6. ASSUME NEW a \in Agents,
             \/ Stale(a) \/ Start(a) \/ Ask(a) \/ ReadRevision(a) \/ ReadRoutes(a)
             \/ FetchFails(a) \/ RefuseDesired(a) \/ ReportTimesOut(a) \/ Crash(a)
             \/ \E o \in Outcomes(fetch[a], proc[a].reconciled) : Reconcile(a, o)
      PROVE  UNCHANGED routes
  BY <1>6 DEF Stale, AgeOut, Start, Ask, ReadRevision, ReadRoutes, FetchFails, RefuseDesired,
              ReportTimesOut, Crash, Reconcile, storeVars
<1>7. CASE UNCHANGED vars
  BY <1>3, <1>7 DEF vars
<1>. QED  BY <1>2, <1>3, <1>4, <1>5, <1>6, <1>7 DEF Next

(* No routes are wanted or published at first. *)
LEMMA InitStep == Init => Promise!Init
<1>. SUFFICES ASSUME Init PROVE Promise!Init
  OBVIOUS
<1>1. DOMAIN routes = {}
  BY DEF Init, StoreInit
<1>. QED  BY <1>1 DEF Promise!Init

(* SyncAgent, Reconcile and Heartbeat, with whatever is delayed, repeated or *)
(* lost between them, publish a route only as it is wanted at the time.    *)
THEOREM ImplementsPromise == Spec => PublicationPromise
<1>1. Init => Promise!Init
  BY InitStep
<1>2. IInv /\ IInv' /\ [Next]_vars => [Promise!Next]_(Promise!vars)
  BY NextStep
<1>3. Spec => []IInv
  BY Invariant
<1>. QED  BY <1>1, <1>2, <1>3, PTL DEF Spec, PublicationPromise, Promise!Spec

-----------------------------------------------------------------------------
(***************************************************************************)
(* The gateway.                                                            *)
(*                                                                         *)
(* Proofs about Gateway for any agents, routes, requests, listeners and    *)
(* paths.                                                                  *)
(*                                                                         *)
(* Argument. What a request is answered by depends on the rows alone:      *)
(* every row was admitted and no two are the same endpoint (RowsAdmitted). *)
(* Where its connection ends depends on revisions: a row is selected only  *)
(* once its agent reported a revision that covers it, the agent runs at    *)
(* least what it reported (RunsReported), whatever it runs is the present  *)
(* intent of every row that revision covers (RunsCurrent), and a row that  *)
(* changes leaves the selected intent behind for good (SelectedWasReady).  *)
(* Whose connection it is depends on authorized_keys: whoever runs, was    *)
(* heard of or is connected to was let in, and no two agents that were     *)
(* share an address (Access).                                              *)
(***************************************************************************)

Runs == [revision : Revision, desired : UNION {[S -> Intents] : S \in SUBSET RouteIds}]

Selections == [route : RouteIds, agent : Agents, intent : Intents,
               upstream : {None} \cup Connections, dialled : BOOLEAN]

GatewayTypeOK ==
  /\ StoreTypeOK
  /\ running \in [Agents -> {None} \cup Runs]
  /\ serving \in [Clients -> {None} \cup Selections]
  /\ pool \subseteq Connections

RunsReported ==
  \A a \in Agents : running[a] # None =>
    /\ agents[a].observed_revision <= running[a].revision
    /\ running[a].revision <= agents[a].desired_revision

RunsCurrent ==
  \A a \in Agents : running[a] # None =>
    LET desired == running[a].desired
    IN  /\ \A i \in RoutesOf(a) : routes[i].desired_revision <= running[a].revision =>
             i \in DOMAIN desired /\ desired[i] = Intent(routes[i])
        /\ \A i, j \in DOMAIN desired : desired[i].remote_port = desired[j].remote_port => i = j

(* The row a request was selected for: still as it was, and observed, or   *)
(* of a later revision, or gone and never to return.                       *)
RowWasReady(s) ==
  /\ s.route \in issued
  /\ s.route \in DOMAIN routes =>
       LET row == routes[s.route]
       IN  /\ row.client_id = s.agent
           /\ \/ Intent(row) = s.intent /\ row.desired_revision <= row.observed_revision
              \/ row.desired_revision > s.intent.desired_revision

SelectedWasReady == \A c \in Clients : serving[c] # None => RowWasReady(serving[c])

DialledHasUpstream ==
  \A c \in Clients : serving[c] # None /\ serving[c].dialled => serving[c].upstream # None

Access ==
  /\ letIn \subseteq Agents /\ Writable(letIn)
  /\ \A a \in Agents : agents[a].last_seen # "never" => a \in letIn
  /\ \A a \in Agents : running[a] # None => a \in letIn
  /\ \A c \in Clients : serving[c] # None => serving[c].agent \in letIn
  /\ \A k \in pool : k.agent \in letIn

GatewayIInv ==
  /\ GatewayTypeOK
  /\ Access
  /\ RowsAdmitted
  /\ RowsBounded
  /\ AgentsBounded
  /\ RunsReported
  /\ RunsCurrent
  /\ SelectedWasReady
  /\ DialledHasUpstream
  /\ NeverAnotherAgent
  /\ DialReachesPublished

-----------------------------------------------------------------------------
(* What requests are answered by.                                          *)

(* Normalisation changes nothing but the public port. *)
LEMMA NormalizedKeeps ==
  ASSUME NEW r \in Requests
  PROVE  /\ Normalized(r).protocol = r.protocol
         /\ Normalized(r).domain = r.domain
         /\ Normalized(r).path_prefix = r.path_prefix
         /\ Normalized(r).target = r.target
<1>1. r = [f \in ConfigFields |-> r[f]]
  BY RequestsAssumption
<1>2. CASE Normalized(r) = [r EXCEPT !.public_port = 0]
  BY <1>1, <1>2 DEF ConfigFields
<1>3. CASE Normalized(r) = r
  BY <1>3
<1>. QED  BY <1>2, <1>3 DEF Normalized

(* Prefixes are sequences. *)
LEMMA PrefixType ==
  ASSUME NEW config \in Configs
  PROVE  config.path_prefix \in Seq(Segments)
BY SegmentsAssumption, NormalizedKeeps DEF Configs

(* usesReservedDomain and Validate: an admitted route on the console's     *)
(* domain is an HTTPS route below a prefix of its own.                     *)
LEMMA ConsoleIsReserved ==
  ASSUME NEW config, Admitted(config), IsWeb(config.protocol), config.domain = PublicHost
  PROVE  /\ config.protocol = "https"
         /\ config.path_prefix # << >>
         /\ config.path_prefix[1] \notin ReservedSegments
<1>1. PICK r \in Requests : Admissible(r) /\ config = Normalized(r)
  BY DEF Admitted
<1>2. /\ r.protocol = config.protocol /\ r.domain = config.domain
      /\ r.path_prefix = config.path_prefix
  BY <1>1, NormalizedKeeps
<1>3. PublicHost # NoDomain
  BY <1>1, <1>2, ProtocolsApart, Zenon DEF Admissible, Valid, ValidWeb, ValidStream
<1>4. ~UsesReservedDomain(r)
  BY <1>1 DEF Admissible
<1>. QED  BY <1>2, <1>3, <1>4, Zenon DEF UsesReservedDomain

(* Every row that may be selected is ready and matches.                    *)
LEMMA SelectedMatches ==
  ASSUME NEW listener, NEW host, NEW path, NEW i \in Selected(listener, host, path)
  PROVE  i \in DOMAIN routes /\ Ready(i) /\ RouteMatches(routes[i].config, listener, host, path)
BY DEF Selected

(* Who answers: a selected route where there is one, unless the console's  *)
(* name is to be redirected.                                               *)
LEMMA AnsweredByRoute ==
  ASSUME NEW listener, NEW host, NEW path, NEW i, Routed(i) \in Answers(listener, host, path)
  PROVE  i \in Selected(listener, host, path)
<1>1. \A handler : handler # "route" => Routed(i) # By(handler)
  BY DEF Routed, By
<1>2. \A j : Routed(i) = Routed(j) => i = j
  BY DEF Routed
<1>3. /\ Routed(i) # By("control") /\ Routed(i) # By("redirect")
      /\ Routed(i) # By("not_found") /\ Routed(i) # By("autocert")
  BY <1>1
<1>4. \A S : Routed(i) \in {Routed(j) : j \in S} => i \in S
  BY <1>2
<1>5. Routed(i) \in GatewayAnswers(listener, host, path) => i \in Selected(listener, host, path)
  BY <1>3, <1>4, Zenon DEF GatewayAnswers
<1>. QED  BY <1>3, <1>4, <1>5 DEF Answers

(* "The control plane keeps /, /api, /assets, and /healthz" (edge.go).     *)
LEMMA ConsoleInvariant == GatewayTypeOK /\ RowsAdmitted => ConsoleReachable
<1>. SUFFICES ASSUME GatewayTypeOK, RowsAdmitted,
                     NEW listener \in Listeners, NEW path \in Paths,
                     listener.scheme = "https", listener.default, ControlPath(path)
              PROVE  Answers(listener, PublicHost, path) = {By("control")}
  BY DEF ConsoleReachable
<1>1. ASSUME NEW i \in Selected(listener, PublicHost, path)
      PROVE  FALSE
  <2>. DEFINE config == routes[i].config
              prefix == config.path_prefix
  <2>1. /\ i \in DOMAIN routes
        /\ IsWeb(config.protocol) /\ config.domain = PublicHost
        /\ MatchesPath(config, path)
    BY <1>1, SelectedMatches DEF RouteMatches
  <2>2. config \in Configs /\ Admitted(config)
    BY <2>1 DEF GatewayTypeOK, StoreTypeOK, Row, RowsAdmitted
  <2>3. prefix # << >> /\ prefix[1] \notin ReservedSegments
    BY <2>1, <2>2, ConsoleIsReserved
  <2>4. prefix \in Seq(Segments) /\ path \in Seq(Segments)
    BY <2>2, PrefixType, SegmentsAssumption
  <2>. HIDE DEF prefix
  <2>5. Len(prefix) <= Len(path) /\ \A k \in 1 .. Len(prefix) : prefix[k] = path[k]
    BY <2>1 DEF MatchesPath, prefix
  <2>6. Len(prefix) \in Nat /\ Len(prefix) # 0 /\ Len(path) \in Nat
    BY <2>3, <2>4, EmptySeq, LenProperties
  <2>7. path # << >> /\ prefix[1] = path[1]
    BY <2>4, <2>5, <2>6, EmptySeq, LenProperties
  <2>. QED  BY <2>3, <2>7 DEF ControlPath
<1>2. Selected(listener, PublicHost, path) = {}
  BY <1>1
<1>3. ~Challenge(listener, path)
  BY DEF Challenge
<1>. QED  BY <1>2, <1>3 DEF Answers

(* A ready web route is the only candidate for its own address: a longer   *)
(* prefix does not match, and another row of the same prefix would be the  *)
(* same endpoint.                                                          *)
LEMMA OwnAddressSelects ==
  ASSUME GatewayTypeOK, RowsAdmitted, NEW i \in DOMAIN routes,
         IsWeb(routes[i].config.protocol), Ready(i)
  PROVE  LET config == routes[i].config
         IN  Selected(ListenerOf(config), config.domain, config.path_prefix) = {i}
<1>. DEFINE config == routes[i].config
            listener == ListenerOf(config)
            candidate(j) == /\ j \in DOMAIN routes
                            /\ Ready(j)
                            /\ RouteMatches(routes[j].config, listener, config.domain, config.path_prefix)
            size(j) == Len(routes[j].config.path_prefix)
<1>1. \A j \in DOMAIN routes : routes[j].config.path_prefix \in Seq(Segments)
  BY PrefixType DEF GatewayTypeOK, StoreTypeOK, Row
<1>2. \A j \in DOMAIN routes : size(j) \in Nat
  BY <1>1, LenProperties
<1>3. /\ listener.scheme = config.protocol
      /\ listener.port = EffectivePublicPort(config)
      /\ listener.default <=> config.public_port = 0
  BY DEF ListenerOf
<1>4. config.protocol # ""
  BY DEF IsWeb
<1>5. \A other : OnListener(other, listener) <=>
        /\ other.protocol = config.protocol
        /\ other.public_port = config.public_port
  <2>1. config.public_port # 0 => listener.port = config.public_port
    BY <1>3 DEF EffectivePublicPort
  <2>. QED  BY <1>3, <1>4, <2>1 DEF OnListener
<1>6. candidate(i)
  <2>1. MatchesPath(config, config.path_prefix)
    BY <1>2 DEF MatchesPath
  <2>. QED  BY <1>5, <2>1 DEF RouteMatches
<1>7. ASSUME NEW j, candidate(j)
      PROVE  size(j) <= size(i) /\ (size(i) <= size(j) => j = i)
  <2>. DEFINE other == routes[j].config
  <2>1. /\ j \in DOMAIN routes
        /\ other.protocol = config.protocol
        /\ other.public_port = config.public_port
        /\ other.domain = config.domain
        /\ MatchesPath(other, config.path_prefix)
    BY <1>5, <1>7 DEF RouteMatches
  <2>2. size(j) <= size(i)
    BY <2>1 DEF MatchesPath
  <2>3. ASSUME size(i) <= size(j)
        PROVE  j = i
    <3>1. Len(other.path_prefix) = Len(config.path_prefix)
      BY <1>2, <2>1, <2>2, <2>3
    <3>2. \A k \in 1 .. Len(other.path_prefix) : other.path_prefix[k] = config.path_prefix[k]
      BY <2>1 DEF MatchesPath
    <3>3. other.path_prefix \in Seq(Segments) /\ config.path_prefix \in Seq(Segments)
      BY <1>1, <2>1
    <3>4. other.path_prefix = config.path_prefix
      BY <3>1, <3>2, <3>3, SeqEqual
    <3>5. SameEndpoint(other, config)
      BY <2>1, <3>4 DEF SameEndpoint
    <3>. QED  BY <2>1, <3>5 DEF RowsAdmitted, Distinct
  <2>. QED  BY <2>2, <2>3
<1>8. \A j : j \in Selected(listener, config.domain, config.path_prefix) <=>
        candidate(j) /\ \A k : candidate(k) => size(k) <= size(j)
  BY DEF Selected
<1>. HIDE DEF candidate, size
<1>9. \A j : j \in Selected(listener, config.domain, config.path_prefix) <=> j = i
  BY <1>6, <1>7, <1>8
<1>. QED  BY <1>9

(* What is published is served at its own address, with a certificate.     *)
LEMMA RoutedInvariant == GatewayTypeOK /\ RowsAdmitted => PublishedIsRouted
<1>. SUFFICES ASSUME GatewayTypeOK, RowsAdmitted, NEW i \in DOMAIN routes,
                     IsWeb(routes[i].config.protocol), Ready(i)
              PROVE  LET config == routes[i].config
                     IN  /\ \/ Challenge(ListenerOf(config), config.path_prefix)
                            \/ Answers(ListenerOf(config), config.domain, config.path_prefix)
                                 = {Routed(i)}
                         /\ config.protocol = "https" => CertificateAllowed(config.domain)
  BY DEF PublishedIsRouted
<1>. DEFINE config == routes[i].config
            listener == ListenerOf(config)
<1>1. Selected(listener, config.domain, config.path_prefix) = {i}
  BY OwnAddressSelects
<1>2. listener.scheme = config.protocol
  BY DEF ListenerOf
<1>3. ~(listener.scheme = "http" /\ config.domain = PublicHost)
  BY <1>2, ConsoleIsReserved DEF RowsAdmitted
<1>4. config.protocol = "https" => CertificateAllowed(config.domain)
  BY DEF CertificateAllowed, HTTPSDomainEnabled, Ready, PublicationReady
<1>. HIDE DEF config, listener
<1>5. GatewayAnswers(listener, config.domain, config.path_prefix) = {Routed(i)}
  BY <1>1 DEF GatewayAnswers
<1>6. \/ Challenge(listener, config.path_prefix)
      \/ Answers(listener, config.domain, config.path_prefix) = {Routed(i)}
  BY <1>1, <1>3, <1>5 DEF Answers
<1>. QED  BY <1>4, <1>6 DEF config, listener

-----------------------------------------------------------------------------
(* Type correctness, and that the gateway and the agents use the database  *)
(* through its operations only.                                            *)

(* What an agent runs assigns intents to routes. *)
LEMMA RunsType ==
  ASSUME NEW s \in Runs
  PROVE  /\ s.revision \in Revision
         /\ DOMAIN s.desired \subseteq RouteIds
         /\ \A i \in DOMAIN s.desired : s.desired[i] \in Intents
BY DEF Runs

(* The intent of a row is well typed. *)
LEMMA IntentType ==
  ASSUME StoreTypeOK, NEW i \in DOMAIN routes
  PROVE  /\ i \in RouteIds
         /\ routes[i].client_id \in Agents
         /\ Intent(routes[i]) \in Intents
BY DEF StoreTypeOK, Row, Intent, Intents

(* What an agent reports of what it runs. *)
RunReport(s) ==
  [i \in DOMAIN s.desired |->
     [observed_revision |-> s.revision,
      tunnel_status |-> IF s.desired[i].config.enabled THEN "up" ELSE "disabled"]]

(* It is one the heartbeat handler accepts. *)
LEMMA ReportType ==
  ASSUME NEW s \in Runs
  PROVE  RunReport(s) \in Observations
<1>. DEFINE S == DOMAIN s.desired
<1>1. S \in SUBSET RouteIds /\ s.revision \in 0 .. MaxRevision
  BY RunsType DEF Revision
<1>2. RunReport(s) \in [S -> [observed_revision : 0 .. MaxRevision, tunnel_status : Reported]]
  BY <1>1, StatusesAssumption DEF RunReport
<1>. HIDE DEF S
<1>. QED  BY <1>1, <1>2 DEF Observations

(* The steps that change the database. *)
StoreSteps ==
  \/ Administer
  \/ \E a \in Agents : AgeOut(a)
  \/ \E a \in Agents : AgentReports(a)

(* A step of the gateway is one of the store's operations or none. *)
LEMMA StepOfStore == GatewayTypeOK /\ [GatewayNext]_gatewayVars => [StoreNext]_storeVars
<1>. SUFFICES ASSUME GatewayTypeOK, [GatewayNext]_gatewayVars PROVE [StoreNext]_storeVars
  OBVIOUS
<1>1. ASSUME NEW a \in Agents, AgentReports(a)
      PROVE  StoreNext
  <2>1. running[a] \in Runs
    BY <1>1 DEF AgentReports, GatewayTypeOK
  <2>2. running[a].revision \in 0 .. MaxRevision /\ RunReport(running[a]) \in Observations
    BY <2>1, RunsType, ReportType DEF Revision
  <2>3. Heartbeat(a, running[a].revision, RunReport(running[a]))
    BY <1>1 DEF AgentReports, RunReport
  <2>. QED  BY <2>2, <2>3 DEF StoreNext
<1>2. CASE UNCHANGED storeVars
  BY <1>2
<1>3. CASE GatewayNext
  <2>1. StoreSteps \/ UNCHANGED storeVars
    BY <1>3, Zenon
    DEF GatewayNext, StoreSteps, AgentRegisters, AgentSyncs, AgentDies, Receive, Reuse, Dial, Finish, CloseIdle
  <2>. QED  BY <1>1, <1>2, <2>1 DEF StoreSteps, StoreNext
<1>. QED  BY <1>2, <1>3 DEF gatewayVars, storeVars

(* Whoever serves a connection is an agent on that address that holds the  *)
(* forward.                                                                *)
LEMMA ForwardsAre ==
  ASSUME NEW address, NEW port, NEW k \in Forwards(address, port)
  PROVE  /\ k \in Connections /\ k # None
         /\ BindAddress(k.agent) = address /\ k.agent \in Agents
         /\ running[k.agent] # None
         /\ \E i \in DOMAIN running[k.agent].desired :
              /\ running[k.agent].desired[i].remote_port = port
              /\ running[k.agent].desired[i].config.target = k.target
BY NoConnectionAssumption DEF Forwards, Connections

(* Of the agents let in only the request's own has its address.            *)
LEMMA SameAgent ==
  ASSUME Access, NEW c \in Clients, serving[c] # None,
         NEW a \in letIn, BindAddress(a) = BindAddress(serving[c].agent)
  PROVE  a = serving[c].agent
BY DEF Access, Writable

(* So whatever accepts its connection is its agent's.                      *)
LEMMA ForwardsOfAgent ==
  ASSUME Access, NEW c \in Clients, serving[c] # None, NEW port,
         NEW k \in Forwards(BindAddress(serving[c].agent), port)
  PROVE  k.agent = serving[c].agent
<1>1. /\ k.agent \in Agents /\ running[k.agent] # None
      /\ BindAddress(k.agent) = BindAddress(serving[c].agent)
  BY ForwardsAre
<1>2. k.agent \in letIn
  BY <1>1 DEF Access
<1>. QED  BY <1>1, <1>2, SameAgent

(* Nothing runs and nothing is stored at first.                            *)
LEMMA GatewayInitType == GatewayInit => GatewayTypeOK
BY StoreInitType DEF GatewayInit, GatewayTypeOK

(* A request's selection is changed by the steps that serve it only.       *)
LEMMA ServingSteps ==
  ASSUME GatewayTypeOK, GatewayNext, NEW c \in Clients
  PROVE  \/ serving'[c] = serving[c]
         \/ serving'[c] = None
         \/ \E listener \in Listeners, host \in Hosts, path \in Paths :
              Receive(c, listener, host, path)
         \/ Reuse(c)
         \/ Dial(c)
<1>. USE DEF GatewayTypeOK
<1>1. ASSUME NEW a \in Agents, AgentDies(a)
      PROVE  serving'[c] = serving[c] \/ serving'[c] = None
  BY <1>1 DEF AgentDies
<1>2. ASSUME NEW d \in Clients, NEW listener \in Listeners, NEW host \in Hosts,
             NEW path \in Paths, Receive(d, listener, host, path)
      PROVE  d = c \/ serving'[c] = serving[c]
  BY <1>2 DEF Receive
<1>3. ASSUME NEW d \in Clients, Reuse(d) \/ Dial(d)
      PROVE  d = c \/ serving'[c] = serving[c]
  BY <1>3 DEF Reuse, Dial
<1>4. ASSUME NEW d \in Clients, Finish(d)
      PROVE  serving'[c] = None \/ serving'[c] = serving[c]
  BY <1>4 DEF Finish
<1>5. ASSUME \/ Administer /\ UNCHANGED << running, serving, pool >>
             \/ \E a \in Agents : \/ AgeOut(a) /\ UNCHANGED << running, serving, pool >>
                                  \/ AgentRegisters(a) \/ AgentSyncs(a)
                                  \/ AgentReports(a)
             \/ \E k \in pool : CloseIdle(k)
      PROVE  serving'[c] = serving[c]
  BY <1>5, Zenon DEF AgentRegisters, AgentSyncs, AgentReports, CloseIdle
<1>. QED  BY <1>1, <1>2, <1>3, <1>4, <1>5, Zenon DEF GatewayNext

(* What selecting a route and connecting to its agent writes.              *)
LEMMA ReceiveEffect ==
  ASSUME GatewayTypeOK, NEW c \in Clients, NEW listener, NEW host, NEW path,
         Receive(c, listener, host, path)
  PROVE  \E i \in DOMAIN routes :
           /\ Ready(i)
           /\ serving'[c] = [route |-> i, agent |-> routes[i].client_id,
                             intent |-> Intent(routes[i]), upstream |-> None,
                             dialled |-> FALSE]
<1>1. PICK i \in DOMAIN routes :
        /\ Routed(i) \in Answers(listener, host, path)
        /\ serving' = [serving EXCEPT ![c] = [route |-> i, agent |-> routes[i].client_id,
                                              intent |-> Intent(routes[i]), upstream |-> None,
                                              dialled |-> FALSE]]
  BY DEF Receive
<1>2. Ready(i)
  BY <1>1, AnsweredByRoute, SelectedMatches
<1>. QED  BY <1>1, <1>2 DEF GatewayTypeOK

(* A reused connection has the address of the request's agent. *)
LEMMA ReuseEffect ==
  ASSUME GatewayTypeOK, NEW c \in Clients, Reuse(c)
  PROVE  /\ serving[c] \in Selections /\ serving[c].upstream = None
         /\ \E k \in pool : /\ k \in Connections /\ k # None
                            /\ BindAddress(k.agent) = BindAddress(serving[c].agent)
                            /\ serving'[c] = [serving[c] EXCEPT !.upstream = k]
<1>1. serving[c] \in Selections /\ serving[c].upstream = None
  BY DEF GatewayTypeOK, Reuse, Waiting
<1>2. PICK k \in Idle(c) : serving' = [serving EXCEPT ![c].upstream = k]
  BY DEF Reuse
<1>3. /\ k \in pool /\ k \in Connections /\ k # None
      /\ BindAddress(k.agent) = BindAddress(serving[c].agent)
  BY NoConnectionAssumption DEF Idle, GatewayTypeOK
<1>4. serving'[c] = [serving[c] EXCEPT !.upstream = k]
  BY <1>2 DEF GatewayTypeOK
<1>. QED  BY <1>1, <1>3, <1>4

(* A dialled connection is one the forwards on its address give. *)
LEMMA DialEffect ==
  ASSUME GatewayTypeOK, NEW c \in Clients, Dial(c), serving'[c] # None
  PROVE  /\ serving[c] \in Selections /\ serving[c].upstream = None
         /\ \E k \in Forwards(BindAddress(serving[c].agent), serving[c].intent.remote_port) :
              serving'[c] = [serving[c] EXCEPT !.upstream = k, !.dialled = TRUE]
<1>1. serving[c] \in Selections /\ serving[c].upstream = None
  BY DEF GatewayTypeOK, Dial, Waiting
<1>. DEFINE reached == Forwards(BindAddress(serving[c].agent), serving[c].intent.remote_port)
<1>2. \/ \E k \in reached :
            serving' = [serving EXCEPT ![c].upstream = k, ![c].dialled = TRUE]
      \/ serving' = [serving EXCEPT ![c] = None]
  BY DEF Dial
<1>. HIDE DEF reached
<1>3. ~(serving' = [serving EXCEPT ![c] = None])
  BY DEF GatewayTypeOK
<1>4. PICK k \in reached : serving' = [serving EXCEPT ![c].upstream = k, ![c].dialled = TRUE]
  BY <1>2, <1>3
<1>5. serving'[c] = [serving[c] EXCEPT !.upstream = k, !.dialled = TRUE]
  BY <1>4 DEF GatewayTypeOK
<1>. QED  BY <1>1, <1>4, <1>5 DEF reached

(* Every selection stays one of a route, whatever becomes of it.           *)
LEMMA ServingType ==
  ASSUME GatewayTypeOK, GatewayNext, NEW c \in Clients
  PROVE  serving'[c] \in {None} \cup Selections
<1>1. serving[c] \in {None} \cup Selections
  BY DEF GatewayTypeOK
<1>2. ASSUME NEW listener, NEW host, NEW path, Receive(c, listener, host, path)
      PROVE  serving'[c] \in Selections
  <2>1. PICK i \in DOMAIN routes :
          serving'[c] = [route |-> i, agent |-> routes[i].client_id,
                         intent |-> Intent(routes[i]), upstream |-> None, dialled |-> FALSE]
    BY <1>2, ReceiveEffect
  <2>. QED  BY <2>1, IntentType DEF GatewayTypeOK, Selections
<1>3. CASE Reuse(c)
  BY <1>3, ReuseEffect DEF Selections
<1>4. CASE Dial(c)
  <2>1. CASE serving'[c] # None
    <3>1. PICK k \in Forwards(BindAddress(serving[c].agent), serving[c].intent.remote_port) :
            serving'[c] = [serving[c] EXCEPT !.upstream = k, !.dialled = TRUE]
      BY <1>4, <2>1, DialEffect
    <3>2. k \in Connections /\ serving[c] \in Selections
      BY <1>4, <2>1, ForwardsAre, DialEffect
    <3>. HIDE DEF Forwards
    <3>. QED  BY <3>1, <3>2 DEF Selections
  <2>. QED  BY <2>1
<1>. QED  BY <1>1, <1>2, <1>3, <1>4, ServingSteps, Zenon

(* Every variable keeps its type.                                          *)
LEMMA GatewayNextType == GatewayTypeOK /\ [GatewayNext]_gatewayVars => GatewayTypeOK'
<1>. SUFFICES ASSUME GatewayTypeOK, [GatewayNext]_gatewayVars PROVE GatewayTypeOK'
  OBVIOUS
<1>1. StoreTypeOK'
  BY StepOfStore, StoreNextType DEF GatewayTypeOK
<1>2. CASE UNCHANGED gatewayVars
  BY <1>1, <1>2 DEF gatewayVars, GatewayTypeOK
<1>3. CASE GatewayNext
  <2>1. DOMAIN serving' = Clients /\ serving' = [c \in DOMAIN serving' |-> serving'[c]]
    BY <1>3
    DEF GatewayTypeOK, GatewayNext, AgentRegisters, AgentSyncs, AgentReports, AgentDies, Receive, Reuse, Dial,
        Finish, CloseIdle
  <2>2. serving' \in [Clients -> {None} \cup Selections]
    BY <1>3, <2>1, ServingType
  <2>3. running' \in [Agents -> {None} \cup Runs]
    <3>1. ASSUME NEW a \in Agents, AgentSyncs(a)
          PROVE  running' \in [Agents -> {None} \cup Runs]
      <4>. DEFINE s == [revision |-> agents[a].desired_revision, desired |-> Desired(a)]
      <4>1. RoutesOf(a) \in SUBSET RouteIds
        BY DEF GatewayTypeOK, StoreTypeOK, RoutesOf
      <4>2. Desired(a) \in [RoutesOf(a) -> Intents]
        BY IntentType DEF GatewayTypeOK, RoutesOf, Desired
      <4>3. agents[a].desired_revision \in Revision
        BY DEF GatewayTypeOK, StoreTypeOK, Agent
      <4>4. s \in Runs
        BY <4>1, <4>2, <4>3 DEF Runs
      <4>5. running' = [running EXCEPT ![a] = s]
        BY <3>1 DEF AgentSyncs
      <4>. HIDE DEF s
      <4>. QED  BY <4>4, <4>5 DEF GatewayTypeOK
    <3>2. ASSUME NEW a \in Agents, AgentDies(a)
          PROVE  running' \in [Agents -> {None} \cup Runs]
      BY <3>2 DEF AgentDies, GatewayTypeOK
    <3>3. \/ \E a \in Agents : AgentSyncs(a) \/ AgentDies(a)
          \/ running' = running
      BY <1>3, Zenon DEF GatewayNext, AgentRegisters, AgentReports, Receive, Reuse, Dial, Finish, CloseIdle
    <3>. QED  BY <3>1, <3>2, <3>3 DEF GatewayTypeOK
  <2>4. pool' \subseteq Connections
    <3>1. ASSUME NEW c \in Clients, Finish(c)
          PROVE  pool' \subseteq Connections
      <4>1. serving[c].upstream \in Connections
        BY <3>1 DEF Finish, Waiting, GatewayTypeOK, Selections
      <4>. QED  BY <3>1, <4>1 DEF Finish, GatewayTypeOK
    <3>2. (\E c \in Clients : Finish(c)) \/ pool' \subseteq pool
      BY <1>3 DEF GatewayNext, AgentRegisters, AgentSyncs, AgentReports, AgentDies, Receive, Reuse, Dial, CloseIdle
    <3>. QED  BY <3>1, <3>2 DEF GatewayTypeOK
  <2>. QED  BY <1>1, <2>2, <2>3, <2>4 DEF GatewayTypeOK
<1>. QED  BY <1>2, <1>3

-----------------------------------------------------------------------------
(* What becomes of the rows under whatever agents run and requests hold.   *)

(* Revisions are numbers, owners are agents. *)
LEMMA GatewayNumbers ==
  ASSUME GatewayTypeOK
  PROVE  /\ \A a \in Agents : /\ agents[a].desired_revision \in Nat
                             /\ agents[a].observed_revision \in Nat
         /\ \A i \in DOMAIN routes : /\ i \in RouteIds
                                    /\ routes[i].client_id \in Agents
                                    /\ routes[i].desired_revision \in Nat
                                    /\ routes[i].observed_revision \in Nat
<1>1. \A a \in Agents : /\ agents[a].desired_revision \in Nat
                        /\ agents[a].observed_revision \in Nat
  BY RevisionNat DEF GatewayTypeOK, StoreTypeOK, Agent
<1>2. \A i \in DOMAIN routes : /\ i \in RouteIds
                               /\ routes[i].client_id \in Agents
                               /\ routes[i].desired_revision \in Nat
                               /\ routes[i].observed_revision \in Nat
  BY RevisionNat DEF GatewayTypeOK, StoreTypeOK, Row
<1>. QED  BY <1>1, <1>2

(* So are the revisions agents run and requests remember. *)
LEMMA HeldNumbers ==
  ASSUME GatewayTypeOK
  PROVE  /\ \A a \in Agents : running[a] # None => running[a].revision \in Nat
         /\ \A c \in Clients : serving[c] # None =>
              /\ serving[c].agent \in Agents
              /\ serving[c].intent.desired_revision \in Nat
<1>1. \A a \in Agents : running[a] # None => running[a].revision \in Nat
  BY RevisionNat, RunsType DEF GatewayTypeOK
<1>2. \A c \in Clients : serving[c] # None =>
        serving[c].agent \in Agents /\ serving[c].intent.desired_revision \in Nat
  BY RevisionNat DEF GatewayTypeOK, Selections, Intents
<1>. QED  BY <1>1, <1>2

(* A step of the database: a row keeps its intent, and its observation     *)
(* with it, or gets a revision beyond its agent's; an agent's last report  *)
(* stays or becomes what it runs.                                          *)
Moves ==
  /\ issued \subseteq issued'
  /\ \A a \in Agents :
       /\ agents[a].desired_revision <= agents'[a].desired_revision
       /\ \/ agents'[a].observed_revision = agents[a].observed_revision
          \/ running[a] # None /\ agents'[a].observed_revision = running[a].revision
  /\ \A i \in DOMAIN routes' :
       \/ /\ i \in DOMAIN routes
          /\ routes'[i].client_id = routes[i].client_id
          /\ Intent(routes'[i]) = Intent(routes[i])
          /\ routes[i].desired_revision <= routes[i].observed_revision =>
               routes'[i].desired_revision <= routes'[i].observed_revision
       \/ /\ IF i \in DOMAIN routes THEN routes'[i].client_id = routes[i].client_id
                                    ELSE i \notin issued
          /\ routes'[i].desired_revision > agents[routes'[i].client_id].desired_revision

(* The rows' revisions stay within their agents'. *)
Bounds == RowsBounded /\ AgentsBounded

(* An intent tells its revision. *)
LEMMA IntentRevision ==
  ASSUME NEW row, NEW other, Intent(row) = Intent(other)
  PROVE  row.desired_revision = other.desired_revision
BY DEF Intent

(* An administrator's operation moves the rows of one agent ahead. *)
LEMMA AdministerMoves ==
  ASSUME GatewayTypeOK, GatewayTypeOK', Bounds, Administer
  PROVE  Moves /\ Bounds'
<1>1. Reconfigured
  BY AdministerEffect DEF GatewayTypeOK, Bounds
<1>2. /\ \A a \in Agents : /\ agents[a].desired_revision \in Nat
                           /\ agents'[a].desired_revision \in Nat
                           /\ agents'[a].observed_revision \in Nat
      /\ \A i \in DOMAIN routes' : /\ routes'[i].client_id \in Agents
                                   /\ routes'[i].desired_revision \in Nat
                                   /\ routes'[i].observed_revision \in Nat
  BY RevisionNat DEF GatewayTypeOK, StoreTypeOK, Agent, Row
<1>3. Moves
  BY <1>1 DEF Reconfigured, Moves
<1>4. RowsBounded'
  BY <1>1, <1>2 DEF Reconfigured, Bounds, RowsBounded
<1>5. AgentsBounded'
  BY <1>1, <1>2, GatewayNumbers DEF Reconfigured, Bounds, AgentsBounded
<1>. QED  BY <1>3, <1>4, <1>5 DEF Bounds

(* A report makes what the agent runs its observation. *)
LEMMA ReportMoves ==
  ASSUME GatewayTypeOK, Bounds, NEW a \in Agents, AgentReports(a)
  PROVE  Moves /\ Bounds'
<1>. DEFINE revision == running[a].revision
            written == Observed(a, RunReport(running[a]))
<1>1. running[a] # None /\ running[a] \in Runs
  BY DEF AgentReports, GatewayTypeOK
<1>2. Heartbeat(a, revision, RunReport(running[a]))
  BY DEF AgentReports, RunReport
<1>3. /\ revision \in Revision
      /\ \A i \in DOMAIN RunReport(running[a]) :
           RunReport(running[a])[i].observed_revision = revision
  BY <1>1, RunsType DEF RunReport
<1>4. Beaten(a, revision, written)
  BY <1>2, <1>3, HeartbeatWrites DEF GatewayTypeOK
<1>5. issued' = issued
  BY <1>2 DEF Heartbeat
<1>6. revision \in Nat
  BY <1>3, RevisionNat
<1>. HIDE DEF revision, written
<1>7. Moves
  <2>1. \A i \in DOMAIN routes :
          routes[i].desired_revision <= routes[i].observed_revision =>
            routes'[i].desired_revision <= routes'[i].observed_revision
    BY <1>4, <1>6, GatewayNumbers DEF Beaten
  <2>2. \A b \in Agents :
          /\ agents[b].desired_revision <= agents'[b].desired_revision
          /\ \/ agents'[b].observed_revision = agents[b].observed_revision
             \/ running[b] # None /\ agents'[b].observed_revision = running[b].revision
    BY <1>1, <1>4, GatewayNumbers DEF Beaten, revision
  <2>. QED  BY <1>4, <1>5, <2>1, <2>2 DEF Beaten, Moves
<1>8. RowsBounded'
  BY <1>4, <1>6, GatewayNumbers DEF Beaten, Bounds, RowsBounded
<1>9. AgentsBounded'
  BY <1>4, <1>6, GatewayNumbers DEF Beaten, Bounds, AgentsBounded
<1>. QED  BY <1>7, <1>8, <1>9 DEF Bounds

(* Time, and steps of requests and connections, move no row. *)
LEMMA StillMoves ==
  ASSUME GatewayTypeOK, Bounds, (\E a \in Agents : AgeOut(a)) \/ UNCHANGED storeVars
  PROVE  Moves /\ Bounds'
<1>1. /\ issued' = issued /\ routes' = routes
      /\ \A a \in Agents : /\ agents'[a].desired_revision = agents[a].desired_revision
                           /\ agents'[a].observed_revision = agents[a].observed_revision
  BY DEF AgeOut, storeVars, GatewayTypeOK, StoreTypeOK, Agent
<1>2. Moves
  BY <1>1, GatewayNumbers DEF Moves
<1>3. Bounds'
  BY <1>1, GatewayNumbers DEF Bounds, RowsBounded, AgentsBounded
<1>. QED  BY <1>2, <1>3

(* Every step moves the database so. *)
LEMMA NextMoves ==
  ASSUME GatewayTypeOK, GatewayTypeOK', Bounds, [GatewayNext]_gatewayVars
  PROVE  Moves /\ Bounds'
<1>1. \/ Administer
      \/ \E a \in Agents : AgentReports(a)
      \/ (\E a \in Agents : AgeOut(a)) \/ UNCHANGED storeVars
  <2>1. CASE GatewayNext
    BY <2>1, Zenon
    DEF GatewayNext, AgentRegisters, AgentSyncs, AgentDies, Receive, Reuse, Dial, Finish, CloseIdle
  <2>2. CASE UNCHANGED gatewayVars
    BY <2>2 DEF gatewayVars, storeVars
  <2>. QED  BY <2>1, <2>2
<1>. QED  BY <1>1, AdministerMoves, ReportMoves, StillMoves

(* What an agent runs stays what it reported last or newer, and the        *)
(* present intent of every row it covers.                                  *)
LEMMA RunningInvariant ==
  ASSUME GatewayIInv, GatewayTypeOK', Moves, RowsAdmitted, GatewayNext
  PROVE  RunsReported' /\ RunsCurrent'
<1>1. GatewayTypeOK
  BY DEF GatewayIInv
<1>2. \A a \in Agents : agents'[a].desired_revision \in Nat /\ agents'[a].observed_revision \in Nat
  BY RevisionNat DEF GatewayTypeOK, StoreTypeOK, Agent
<1>3. ASSUME NEW a \in Agents, running'[a] # None, running'[a] = running[a]
      PROVE  /\ agents'[a].observed_revision <= running'[a].revision
             /\ running'[a].revision <= agents'[a].desired_revision
             /\ \A i \in RoutesOf(a)' : routes'[i].desired_revision <= running'[a].revision =>
                  /\ i \in DOMAIN running'[a].desired
                  /\ running'[a].desired[i] = Intent(routes'[i])
             /\ \A i, j \in DOMAIN running'[a].desired :
                  running'[a].desired[i].remote_port = running'[a].desired[j].remote_port => i = j
  <2>1. /\ agents[a].observed_revision <= running[a].revision
        /\ running[a].revision <= agents[a].desired_revision
        /\ running[a].revision \in Nat
    BY <1>1, <1>3, HeldNumbers DEF GatewayIInv, RunsReported
  <2>2. /\ agents'[a].observed_revision <= running[a].revision
        /\ running[a].revision <= agents'[a].desired_revision
    BY <1>1, <1>2, <2>1, GatewayNumbers DEF Moves
  <2>3. ASSUME NEW i \in RoutesOf(a)', routes'[i].desired_revision <= running[a].revision
        PROVE  /\ i \in DOMAIN running[a].desired
               /\ running[a].desired[i] = Intent(routes'[i])
    <3>1. /\ i \in DOMAIN routes' /\ routes'[i].client_id = a
          /\ routes'[i].desired_revision \in Nat
      BY RevisionNat DEF RoutesOf, GatewayTypeOK, StoreTypeOK, Row
    <3>2. ~(routes'[i].desired_revision > agents[a].desired_revision)
      BY <1>1, <2>1, <2>3, <3>1, GatewayNumbers
    <3>3. /\ i \in DOMAIN routes /\ routes[i].client_id = a
          /\ Intent(routes'[i]) = Intent(routes[i])
      BY <3>1, <3>2 DEF Moves
    <3>4. i \in RoutesOf(a) /\ routes[i].desired_revision <= running[a].revision
      BY <2>3, <3>3, IntentRevision DEF RoutesOf
    <3>. QED  BY <1>3, <3>3, <3>4 DEF GatewayIInv, RunsCurrent
  <2>4. \A i, j \in DOMAIN running[a].desired :
          running[a].desired[i].remote_port = running[a].desired[j].remote_port => i = j
    BY <1>3 DEF GatewayIInv, RunsCurrent
  <2>. QED  BY <1>3, <2>2, <2>3, <2>4
<1>4. ASSUME NEW a \in Agents, AgentSyncs(a)
      PROVE  /\ agents'[a].observed_revision <= running'[a].revision
             /\ running'[a].revision <= agents'[a].desired_revision
             /\ \A i \in RoutesOf(a)' : routes'[i].desired_revision <= running'[a].revision =>
                  /\ i \in DOMAIN running'[a].desired
                  /\ running'[a].desired[i] = Intent(routes'[i])
             /\ \A i, j \in DOMAIN running'[a].desired :
                  running'[a].desired[i].remote_port = running'[a].desired[j].remote_port => i = j
  <2>1. running'[a] = [revision |-> agents[a].desired_revision, desired |-> Desired(a)]
    BY <1>1, <1>4 DEF AgentSyncs, GatewayTypeOK
  <2>2. /\ agents' = agents /\ routes' = routes
        /\ running'[a].revision = agents[a].desired_revision
        /\ running'[a].desired = Desired(a)
    BY <1>4, <2>1 DEF AgentSyncs, storeVars
  <2>3. /\ DOMAIN Desired(a) = RoutesOf(a)
        /\ \A i \in RoutesOf(a) : Desired(a)[i] = Intent(routes[i])
    BY DEF Desired
  <2>4. /\ RoutesOf(a)' = RoutesOf(a)
        /\ RoutesOf(a) \subseteq DOMAIN routes
    BY <2>2 DEF RoutesOf
  <2>5. \A i, j \in RoutesOf(a) :
          Intent(routes[i]).remote_port = Intent(routes[j]).remote_port => i = j
    BY <2>4 DEF RowsAdmitted, Distinct, Intent
  <2>6. agents[a].observed_revision <= agents[a].desired_revision
    BY DEF GatewayIInv, AgentsBounded
  <2>7. agents[a].desired_revision <= agents[a].desired_revision
    BY <1>1, GatewayNumbers
  <2>. QED  BY <2>2, <2>3, <2>4, <2>5, <2>6, <2>7
<1>5. ASSUME NEW a \in Agents, ~AgentSyncs(a), running'[a] # None
      PROVE  running'[a] = running[a]
  <2>1. ASSUME NEW b \in Agents, AgentSyncs(b)
        PROVE  running'[a] = running[a]
    <3>1. a # b
      BY <1>5, <2>1
    <3>. QED  BY <1>1, <2>1, <3>1 DEF AgentSyncs, GatewayTypeOK
  <2>2. ASSUME NEW b \in Agents, AgentDies(b)
        PROVE  running'[a] = running[a]
    <3>1. running' = [running EXCEPT ![b] = None]
      BY <2>2 DEF AgentDies
    <3>. QED  BY <1>1, <1>5, <3>1 DEF GatewayTypeOK
  <2>3. (\E b \in Agents : AgentSyncs(b) \/ AgentDies(b)) \/ running' = running
    BY Zenon DEF GatewayNext, AgentRegisters, AgentReports, Receive, Reuse, Dial, Finish, CloseIdle
  <2>. QED  BY <2>1, <2>2, <2>3
<1>. QED  BY <1>3, <1>4, <1>5 DEF RunsReported, RunsCurrent

(* The row a request was selected for, moved or not.                       *)
LEMMA RowStaysReady ==
  ASSUME GatewayIInv, GatewayTypeOK', Moves, NEW c \in Clients, serving[c] # None
  PROVE  LET s == serving[c]
         IN  /\ s.route \in issued'
             /\ s.route \in DOMAIN routes' =>
                  /\ routes'[s.route].client_id = s.agent
                  /\ \/ /\ Intent(routes'[s.route]) = s.intent
                        /\ s.route \in DOMAIN routes
                        /\ Intent(routes[s.route]) = s.intent
                        /\ routes'[s.route].desired_revision <= routes'[s.route].observed_revision
                     \/ routes'[s.route].desired_revision > s.intent.desired_revision
<1>. DEFINE i == serving[c].route
            intent == serving[c].intent
<1>1. RowWasReady(serving[c])
  BY DEF GatewayIInv, SelectedWasReady
<1>2. i \in issued /\ i \in issued'
  BY <1>1 DEF RowWasReady, Moves
<1>. SUFFICES ASSUME i \in DOMAIN routes'
              PROVE  /\ routes'[i].client_id = serving[c].agent
                     /\ \/ /\ Intent(routes'[i]) = intent
                           /\ i \in DOMAIN routes /\ Intent(routes[i]) = intent
                           /\ routes'[i].desired_revision <= routes'[i].observed_revision
                        \/ routes'[i].desired_revision > intent.desired_revision
  BY <1>2
<1>3. i \in DOMAIN routes /\ routes'[i].client_id = routes[i].client_id
  BY <1>2 DEF Moves
<1>4. /\ routes[i].client_id = serving[c].agent
      /\ \/ Intent(routes[i]) = intent /\ routes[i].desired_revision <= routes[i].observed_revision
         \/ routes[i].desired_revision > intent.desired_revision
  BY <1>1, <1>3 DEF RowWasReady
<1>5. /\ routes[i].client_id \in Agents /\ routes[i].desired_revision \in Nat
      /\ routes'[i].desired_revision \in Nat
      /\ intent.desired_revision \in Nat /\ agents[routes[i].client_id].desired_revision \in Nat
  <2>1. GatewayTypeOK
    BY DEF GatewayIInv
  <2>2. routes'[i].desired_revision \in Nat
    BY RevisionNat DEF GatewayTypeOK, StoreTypeOK, Row
  <2>3. intent.desired_revision \in Nat
    BY <2>1, HeldNumbers
  <2>. QED  BY <1>3, <2>1, <2>2, <2>3, GatewayNumbers
<1>6. routes[i].desired_revision <= agents[routes[i].client_id].desired_revision
  BY <1>3, <1>5 DEF GatewayIInv, RowsBounded
<1>7. Intent(routes[i]) = intent => routes[i].desired_revision = intent.desired_revision
  BY DEF Intent
<1>. HIDE DEF i, intent
<1>8. CASE /\ Intent(routes'[i]) = Intent(routes[i])
           /\ routes[i].desired_revision <= routes[i].observed_revision =>
                routes'[i].desired_revision <= routes'[i].observed_revision
  <2>1. routes'[i].desired_revision = routes[i].desired_revision
    BY <1>8, IntentRevision
  <2>. QED  BY <1>3, <1>4, <1>8, <2>1
<1>9. CASE routes'[i].desired_revision > agents[routes'[i].client_id].desired_revision
  BY <1>3, <1>4, <1>5, <1>6, <1>7, <1>9
<1>. QED  BY <1>3, <1>8, <1>9 DEF Moves

-----------------------------------------------------------------------------
(* The inductive invariant.                                                *)

(* A selection keeps pointing at the row it was made for.                  *)
LEMMA SelectedInvariant ==
  ASSUME GatewayIInv, GatewayTypeOK', Moves, GatewayNext
  PROVE  SelectedWasReady'
<1>. SUFFICES ASSUME NEW c \in Clients, serving'[c] # None
              PROVE  RowWasReady(serving[c])'
  BY DEF SelectedWasReady
<1>1. GatewayTypeOK
  BY DEF GatewayIInv
<1>. DEFINE s == serving[c]
<1>2. ASSUME serving[c] # None,
             /\ serving'[c].route = s.route
             /\ serving'[c].agent = s.agent
             /\ serving'[c].intent = s.intent
      PROVE  RowWasReady(serving[c])'
  BY <1>2, RowStaysReady DEF RowWasReady
<1>3. ASSUME NEW listener, NEW host, NEW path, Receive(c, listener, host, path)
      PROVE  RowWasReady(serving[c])'
  <2>1. PICK i \in DOMAIN routes :
          /\ Ready(i)
          /\ serving'[c] = [route |-> i, agent |-> routes[i].client_id,
                            intent |-> Intent(routes[i]), upstream |-> None,
                            dialled |-> FALSE]
    BY <1>1, <1>3, ReceiveEffect
  <2>2. routes' = routes /\ issued' = issued /\ i \in issued
    BY <1>1, <1>3 DEF Receive, storeVars, GatewayTypeOK, StoreTypeOK
  <2>3. routes[i].desired_revision <= routes[i].observed_revision
    <3>1. routes[i].observed_revision >= routes[i].desired_revision
      BY <2>1 DEF Ready, PublicationReady
    <3>. QED  BY <1>1, <3>1, GatewayNumbers
  <2>. QED  BY <2>1, <2>2, <2>3 DEF RowWasReady
<1>4. CASE Reuse(c)
  <2>1. s \in Selections /\ \E k \in pool : serving'[c] = [s EXCEPT !.upstream = k]
    BY <1>1, <1>4, ReuseEffect
  <2>2. serving[c] # None
    BY <1>4 DEF Reuse, Waiting
  <2>. QED  BY <1>2, <2>1, <2>2 DEF Selections
<1>5. CASE Dial(c)
  <2>1. s \in Selections /\ \E k : serving'[c] = [s EXCEPT !.upstream = k, !.dialled = TRUE]
    BY <1>1, <1>5, DialEffect
  <2>2. serving[c] # None
    BY <1>5 DEF Dial, Waiting
  <2>. QED  BY <1>2, <2>1, <2>2 DEF Selections
<1>6. CASE serving'[c] = serving[c]
  BY <1>2, <1>6
<1>. QED  BY <1>1, <1>3, <1>4, <1>5, <1>6, ServingSteps, Zenon

(* A connection goes to the agent of the route it was opened or picked for. *)
LEMMA UpstreamInvariant ==
  ASSUME GatewayIInv, GatewayTypeOK', GatewayNext
  PROVE  NeverAnotherAgent' /\ DialledHasUpstream'
<1>. SUFFICES ASSUME NEW c \in Clients, serving'[c] # None
              PROVE  /\ serving'[c].upstream # None =>
                          serving'[c].upstream.agent = serving'[c].agent
                     /\ serving'[c].dialled => serving'[c].upstream # None
  BY DEF NeverAnotherAgent, DialledHasUpstream
<1>1. GatewayTypeOK
  BY DEF GatewayIInv
<1>2. CASE serving'[c] = serving[c]
  BY <1>2 DEF GatewayIInv, NeverAnotherAgent, DialledHasUpstream
<1>3. ASSUME NEW listener, NEW host, NEW path, Receive(c, listener, host, path)
      PROVE  serving'[c].upstream = None /\ serving'[c].dialled = FALSE
  <2>1. PICK i \in DOMAIN routes :
          serving'[c] = [route |-> i, agent |-> routes[i].client_id,
                         intent |-> Intent(routes[i]), upstream |-> None, dialled |-> FALSE]
    BY <1>1, <1>3, ReceiveEffect
  <2>. QED  BY <2>1
<1>4. CASE Reuse(c)
  <2>1. PICK k \in pool : /\ k # None /\ BindAddress(k.agent) = BindAddress(serving[c].agent)
                          /\ serving'[c] = [serving[c] EXCEPT !.upstream = k]
    BY <1>1, <1>4, ReuseEffect
  <2>2. serving[c] \in Selections /\ serving[c] # None
    BY <1>1, <1>4, ReuseEffect DEF Reuse, Waiting
  <2>3. serving'[c].upstream = k /\ serving'[c].agent = serving[c].agent
    BY <2>1, <2>2 DEF Selections
  <2>4. k.agent \in letIn
    BY DEF GatewayIInv, Access
  <2>5. k.agent = serving[c].agent
    BY <2>1, <2>2, <2>4, SameAgent DEF GatewayIInv
  <2>. QED  BY <2>1, <2>3, <2>5
<1>5. CASE Dial(c)
  <2>1. PICK k \in Forwards(BindAddress(serving[c].agent), serving[c].intent.remote_port) :
          serving'[c] = [serving[c] EXCEPT !.upstream = k, !.dialled = TRUE]
    BY <1>1, <1>5, DialEffect
  <2>2. serving[c] \in Selections /\ k # None /\ k.agent = serving[c].agent
    <3>1. serving[c] \in Selections
      BY <1>1, <1>5, DialEffect
    <3>2. k # None
      BY ForwardsAre
    <3>3. serving[c] # None
      BY <1>5 DEF Dial, Waiting
    <3>4. k.agent = serving[c].agent
      BY <3>3, ForwardsOfAgent DEF GatewayIInv
    <3>. QED  BY <3>1, <3>2, <3>4
  <2>3. serving'[c].upstream = k /\ serving'[c].agent = serving[c].agent
    BY <2>1, <2>2 DEF Selections
  <2>. QED  BY <2>2, <2>3
<1>. QED  BY <1>1, <1>2, <1>3, <1>4, <1>5, ServingSteps, Zenon

(* What a request dials: had its row not changed since it was selected,    *)
(* its agent runs it, and nothing else on that port.                       *)
LEMMA DialReaches ==
  ASSUME GatewayIInv, NEW c \in Clients, serving[c] # None,
         serving[c].route \in DOMAIN routes,
         Intent(routes[serving[c].route]) = serving[c].intent,
         NEW k \in Forwards(BindAddress(serving[c].agent), serving[c].intent.remote_port)
  PROVE  k.target = serving[c].intent.config.target
<1>. DEFINE i == serving[c].route
            a == serving[c].agent
            intent == serving[c].intent
            desired == running[a].desired
<1>1. GatewayTypeOK /\ RowWasReady(serving[c])
  BY DEF GatewayIInv, SelectedWasReady
<1>2. /\ a \in Agents /\ running[a] # None /\ running[a].revision \in Nat
      /\ \E j \in DOMAIN desired : /\ desired[j].remote_port = intent.remote_port
                                   /\ desired[j].config.target = k.target
  <2>1. /\ a \in Agents /\ running[a] # None
        /\ \E j \in DOMAIN desired : /\ desired[j].remote_port = intent.remote_port
                                     /\ desired[j].config.target = k.target
    <3>1. /\ k.agent = a /\ k.agent \in Agents /\ running[k.agent] # None
          /\ \E j \in DOMAIN running[k.agent].desired :
               /\ running[k.agent].desired[j].remote_port = intent.remote_port
               /\ running[k.agent].desired[j].config.target = k.target
      <4>1. k.agent = a
        BY ForwardsOfAgent DEF GatewayIInv
      <4>. QED  BY <4>1, ForwardsAre
    <3>. QED  BY <3>1, Zenon
  <2>2. running[a].revision \in Nat
    BY <1>1, <2>1, HeldNumbers, Zenon
  <2>. QED  BY <2>1, <2>2, Zenon
<1>3. /\ i \in DOMAIN routes /\ routes[i].client_id = a
      /\ routes[i].desired_revision = intent.desired_revision
      /\ routes[i].desired_revision <= routes[i].observed_revision
      /\ routes[i].desired_revision \in Nat /\ routes[i].observed_revision \in Nat
  <2>1. routes[i].desired_revision = intent.desired_revision
    BY DEF Intent
  <2>2. routes[i].desired_revision \in Nat /\ routes[i].observed_revision \in Nat
    BY <1>1, GatewayNumbers
  <2>3. ~(routes[i].desired_revision > intent.desired_revision)
    BY <2>1, <2>2
  <2>. QED  BY <1>1, <2>1, <2>2, <2>3 DEF RowWasReady
<1>4. routes[i].desired_revision <= running[a].revision
  <2>1. routes[i].observed_revision <= agents[a].observed_revision
    BY <1>3 DEF GatewayIInv, RowsBounded
  <2>2. agents[a].observed_revision <= running[a].revision
    BY <1>2 DEF GatewayIInv, RunsReported
  <2>3. agents[a].observed_revision \in Nat
    BY <1>1, <1>2, GatewayNumbers
  <2>. QED  BY <1>2, <1>3, <2>1, <2>2, <2>3
<1>5. i \in DOMAIN desired /\ desired[i] = intent
  BY <1>2, <1>3, <1>4 DEF GatewayIInv, RunsCurrent, RoutesOf
<1>6. \A j \in DOMAIN desired : desired[j].remote_port = desired[i].remote_port => j = i
  BY <1>2, <1>5 DEF GatewayIInv, RunsCurrent
<1>. QED  BY <1>2, <1>5, <1>6

(* A dialled connection's target stays its intent's, or the row has moved. *)
LEMMA DialInvariant ==
  ASSUME GatewayIInv, GatewayTypeOK', Moves, GatewayNext
  PROVE  DialReachesPublished'
<1>. SUFFICES ASSUME NEW c \in Clients, serving'[c] # None, serving'[c].dialled,
                     serving'[c].route \in DOMAIN routes',
                     Intent(routes'[serving'[c].route]) = serving'[c].intent
              PROVE  serving'[c].upstream.target = serving'[c].intent.config.target
  BY DEF DialReachesPublished
<1>1. GatewayTypeOK
  BY DEF GatewayIInv
<1>2. ASSUME serving[c] # None, serving'[c].route = serving[c].route,
             serving'[c].intent = serving[c].intent
      PROVE  /\ serving[c].route \in DOMAIN routes
             /\ Intent(routes[serving[c].route]) = serving[c].intent
  <2>. DEFINE i == serving[c].route
  <2>1. routes'[i].desired_revision = serving[c].intent.desired_revision
    BY <1>2 DEF Intent
  <2>2. serving[c].intent.desired_revision \in Nat
    BY <1>1, <1>2, HeldNumbers
  <2>3. ~(routes'[i].desired_revision > serving[c].intent.desired_revision)
    BY <2>1, <2>2
  <2>. QED  BY <1>2, <2>3, RowStaysReady
<1>3. CASE serving'[c] = serving[c]
  BY <1>2, <1>3 DEF GatewayIInv, DialReachesPublished
<1>4. ASSUME NEW listener, NEW host, NEW path, Receive(c, listener, host, path)
      PROVE  FALSE
  <2>1. PICK i \in DOMAIN routes :
          serving'[c] = [route |-> i, agent |-> routes[i].client_id,
                         intent |-> Intent(routes[i]), upstream |-> None, dialled |-> FALSE]
    BY <1>1, <1>4, ReceiveEffect
  <2>. QED  BY <2>1
<1>5. ASSUME Reuse(c)
      PROVE  FALSE
  <2>1. /\ serving[c] # None /\ serving[c].upstream = None
        /\ serving[c] \in Selections
    BY <1>1, <1>5, ReuseEffect DEF Reuse, Waiting
  <2>2. PICK k \in pool : serving'[c] = [serving[c] EXCEPT !.upstream = k]
    BY <1>1, <1>5, ReuseEffect
  <2>3. serving[c].dialled
    BY <2>1, <2>2 DEF Selections
  <2>. QED  BY <2>1, <2>3 DEF GatewayIInv, DialledHasUpstream
<1>6. CASE Dial(c)
  <2>1. PICK k \in Forwards(BindAddress(serving[c].agent), serving[c].intent.remote_port) :
          serving'[c] = [serving[c] EXCEPT !.upstream = k, !.dialled = TRUE]
    BY <1>1, <1>6, DialEffect
  <2>2. serving[c] # None /\ serving[c] \in Selections
    BY <1>1, <1>6, DialEffect DEF Dial, Waiting
  <2>3. /\ serving'[c].upstream = k /\ serving'[c].route = serving[c].route
        /\ serving'[c].intent = serving[c].intent
    BY <2>1, <2>2 DEF Selections
  <2>4. k.target = serving[c].intent.config.target
    BY <1>2, <2>2, <2>3, DialReaches
  <2>. QED  BY <2>3, <2>4
<1>. QED  BY <1>1, <1>3, <1>4, <1>5, <1>6, ServingSteps, Zenon

(* Whoever runs, was heard of or is connected to was let in, and so was    *)
(* the agent of every row that was ever ready.                             *)
LEMMA AccessInvariant ==
  ASSUME GatewayIInv, GatewayTypeOK', GatewayNext
  PROVE  Access'
<1>1. GatewayTypeOK /\ Access
  BY DEF GatewayIInv
<1>2. letIn' = letIn \/ \E a \in Agents : AgentRegisters(a)
  BY Zenon DEF GatewayNext, AgentSyncs, AgentReports, AgentDies, Receive, Reuse, Dial, Finish, CloseIdle
<1>3. letIn \subseteq letIn' /\ letIn' \subseteq Agents
  BY <1>1, <1>2 DEF AgentRegisters, Access
<1>4. digest' = digest
  BY Zenon DEF GatewayNext, AgentRegisters, AgentSyncs, AgentReports, AgentDies, Receive, Reuse,
               Dial, Finish, CloseIdle
<1>5. Writable(letIn)'
  <2>1. Writable(letIn')
    BY <1>1, <1>2 DEF AgentRegisters, Access
  <2>. QED  BY <1>4, <2>1 DEF Writable, BindAddress
<1>6. ASSUME NEW a \in Agents, agents'[a].last_seen # "never"
      PROVE  a \in letIn
  <2>1. CASE Administer
    <3>1. Reconfigured
      BY <2>1, AdministerEffect DEF GatewayIInv, GatewayTypeOK
    <3>. QED  BY <1>1, <1>6, <3>1 DEF Reconfigured, Access
  <2>2. ASSUME NEW b \in Agents, AgeOut(b)
        PROVE  a \in letIn
    <3>1. agents'[a].last_seen = agents[a].last_seen \/ (b = a /\ agents[b].last_seen = "fresh")
      BY <1>1, <2>2 DEF AgeOut, GatewayTypeOK, StoreTypeOK, Agent
    <3>. QED  BY <1>1, <1>6, <3>1 DEF Access
  <2>3. ASSUME NEW b \in Agents, AgentReports(b)
        PROVE  a \in letIn
    <3>1. agents' = [agents EXCEPT ![b].observed_revision = running[b].revision,
                                   ![b].last_seen = "fresh"]
      BY <2>3 DEF AgentReports, Heartbeat
    <3>2. a = b \/ agents'[a] = agents[a]
      BY <1>1, <3>1 DEF GatewayTypeOK, StoreTypeOK
    <3>3. running[b] # None
      BY <2>3 DEF AgentReports
    <3>. QED  BY <1>1, <1>6, <3>2, <3>3 DEF Access
  <2>4. CASE UNCHANGED storeVars
    BY <1>1, <1>6, <2>4 DEF storeVars, Access
  <2>. QED  BY <2>1, <2>2, <2>3, <2>4, Zenon
            DEF GatewayNext, AgentRegisters, AgentSyncs, AgentDies, Receive, Reuse, Dial, Finish,
                CloseIdle
<1>7. ASSUME NEW a \in Agents, running'[a] # None
      PROVE  a \in letIn
  <2>1. ASSUME NEW b \in Agents, AgentSyncs(b)
        PROVE  a \in letIn
    <3>1. a = b \/ running'[a] = running[a]
      BY <1>1, <2>1 DEF AgentSyncs, GatewayTypeOK
    <3>. QED  BY <1>1, <1>7, <2>1, <3>1 DEF AgentSyncs, Access
  <2>2. ASSUME NEW b \in Agents, AgentDies(b)
        PROVE  a \in letIn
    <3>1. running'[a] = None \/ running'[a] = running[a]
      BY <1>1, <2>2 DEF AgentDies, GatewayTypeOK
    <3>. QED  BY <1>1, <1>7, <3>1 DEF Access
  <2>3. CASE running' = running
    BY <1>1, <1>7, <2>3 DEF Access
  <2>. QED  BY <2>1, <2>2, <2>3, Zenon
            DEF GatewayNext, AgentRegisters, AgentReports, Receive, Reuse, Dial, Finish, CloseIdle
<1>8. ASSUME NEW c \in Clients, serving'[c] # None
      PROVE  serving'[c].agent \in letIn
  <2>1. ASSUME NEW listener, NEW host, NEW path, Receive(c, listener, host, path)
        PROVE  serving'[c].agent \in letIn
    <3>1. PICK i \in DOMAIN routes :
            /\ Ready(i)
            /\ serving'[c] = [route |-> i, agent |-> routes[i].client_id,
                              intent |-> Intent(routes[i]), upstream |-> None, dialled |-> FALSE]
      BY <1>1, <2>1, ReceiveEffect
    <3>2. agents[routes[i].client_id].last_seen = "fresh"
      BY <3>1 DEF Ready, PublicationReady
    <3>3. serving'[c].agent = routes[i].client_id /\ routes[i].client_id \in Agents
      BY <1>1, <3>1, IntentType DEF GatewayTypeOK
    <3>. QED  BY <1>1, <3>2, <3>3 DEF Access
  <2>2. CASE Reuse(c)
    <3>1. serving[c] \in Selections /\ serving[c] # None
      BY <1>1, <2>2, ReuseEffect DEF Reuse, Waiting
    <3>2. serving'[c].agent = serving[c].agent
      BY <1>1, <2>2, <3>1, ReuseEffect DEF Selections
    <3>. QED  BY <1>1, <3>1, <3>2 DEF Access
  <2>3. CASE Dial(c)
    <3>1. serving[c] \in Selections /\ serving[c] # None
      BY <1>1, <1>8, <2>3, DialEffect DEF Dial, Waiting
    <3>2. serving'[c].agent = serving[c].agent
      BY <1>1, <1>8, <2>3, <3>1, DialEffect DEF Selections
    <3>. QED  BY <1>1, <3>1, <3>2 DEF Access
  <2>4. CASE serving'[c] = serving[c]
    BY <1>1, <1>8, <2>4 DEF Access
  <2>. QED  BY <1>1, <1>8, <2>1, <2>2, <2>3, <2>4, ServingSteps, Zenon
<1>9. ASSUME NEW k \in pool'
      PROVE  k.agent \in letIn
  <2>1. ASSUME NEW c \in Clients, Finish(c)
        PROVE  k.agent \in letIn
    <3>1. serving[c] # None /\ serving[c].upstream # None
      BY <2>1 DEF Finish, Waiting
    <3>2. serving[c].upstream.agent \in letIn
      BY <1>1, <3>1 DEF GatewayIInv, NeverAnotherAgent, Access
    <3>3. k \in pool \/ k = serving[c].upstream
      BY <1>9, <2>1 DEF Finish
    <3>. QED  BY <1>1, <3>2, <3>3 DEF Access
  <2>2. (\E c \in Clients : Finish(c)) \/ pool' \subseteq pool
    BY DEF GatewayNext, AgentRegisters, AgentSyncs, AgentReports, AgentDies, Receive, Reuse, Dial,
           CloseIdle
  <2>. QED  BY <1>1, <1>9, <2>1, <2>2 DEF Access
<1>. QED  BY <1>3, <1>5, <1>6, <1>7, <1>8, <1>9 DEF Access

(* No row, no request and no connection at first.                          *)
LEMMA GatewayInitInvariant == GatewayInit => GatewayIInv
<1>. SUFFICES ASSUME GatewayInit PROVE GatewayIInv
  OBVIOUS
<1>1. GatewayTypeOK
  BY GatewayInitType
<1>2. RowsAdmitted /\ RowsBounded
  BY DEF GatewayInit, StoreInit, RowsAdmitted, Distinct, RowsBounded
<1>3. AgentsBounded
  BY DEF GatewayInit, StoreInit, AgentsBounded
<1>4. \A a \in Agents : running[a] = None
  BY DEF GatewayInit
<1>5. \A c \in Clients : serving[c] = None
  BY DEF GatewayInit
<1>6. Access
  BY <1>4, <1>5 DEF GatewayInit, StoreInit, Access, Writable
<1>. QED  BY <1>1, <1>2, <1>3, <1>4, <1>5, <1>6
          DEF GatewayIInv, RunsReported, RunsCurrent, SelectedWasReady, DialledHasUpstream,
              NeverAnotherAgent, DialReachesPublished

(* Every step keeps it. *)
LEMMA GatewayNextInvariant == GatewayIInv /\ [GatewayNext]_gatewayVars => GatewayIInv'
<1>. SUFFICES ASSUME GatewayIInv, [GatewayNext]_gatewayVars PROVE GatewayIInv'
  OBVIOUS
<1>1. GatewayTypeOK'
  BY GatewayNextType DEF GatewayIInv
<1>2. Moves /\ RowsBounded' /\ AgentsBounded'
  BY <1>1, NextMoves DEF GatewayIInv, Bounds
<1>3. RowsAdmitted'
  BY StepOfStore, StoreStepAdmitted DEF GatewayIInv, GatewayTypeOK
<1>4. CASE GatewayNext
  <2>1. RunsReported' /\ RunsCurrent'
    BY <1>1, <1>2, <1>4, RunningInvariant DEF GatewayIInv
  <2>2. SelectedWasReady'
    BY <1>1, <1>2, <1>4, SelectedInvariant
  <2>3. NeverAnotherAgent' /\ DialledHasUpstream'
    BY <1>1, <1>4, UpstreamInvariant
  <2>4. DialReachesPublished'
    BY <1>1, <1>2, <1>4, DialInvariant
  <2>5. Access'
    BY <1>1, <1>4, AccessInvariant
  <2>. QED  BY <1>1, <1>2, <1>3, <2>1, <2>2, <2>3, <2>4, <2>5 DEF GatewayIInv
<1>5. CASE UNCHANGED gatewayVars
  <2>1. /\ agents' = agents /\ routes' = routes /\ issued' = issued
        /\ running' = running /\ serving' = serving /\ pool' = pool
        /\ letIn' = letIn /\ digest' = digest
    BY <1>5 DEF gatewayVars, storeVars
  <2>2. RunsReported' /\ RunsCurrent'
    BY <2>1 DEF GatewayIInv, RunsReported, RunsCurrent, RoutesOf
  <2>3. SelectedWasReady' /\ DialledHasUpstream'
    BY <2>1 DEF GatewayIInv, SelectedWasReady, RowWasReady, DialledHasUpstream
  <2>4. NeverAnotherAgent' /\ DialReachesPublished'
    BY <2>1 DEF GatewayIInv, NeverAnotherAgent, DialReachesPublished
  <2>5. Access'
    BY <2>1 DEF GatewayIInv, Access, Writable, BindAddress
  <2>. QED  BY <1>1, <1>2, <1>3, <2>2, <2>3, <2>4, <2>5 DEF GatewayIInv
<1>. QED  BY <1>4, <1>5

(* The invariant holds however administrators, agents and requests         *)
(* interleave.                                                             *)
THEOREM GatewayInvariant == GatewaySpec => []GatewayIInv
BY GatewayInitInvariant, GatewayNextInvariant, PTL DEF GatewaySpec

(* The gateway and the agents of this model use the database through its   *)
(* operations only: what RouteStore promises holds here too.               *)
THEOREM ImplementsStore == GatewaySpec => StoreSpec
<1>1. GatewayInit => StoreInit
  BY DEF GatewayInit
<1>2. GatewayIInv => GatewayTypeOK
  BY DEF GatewayIInv
<1>. QED  BY <1>1, <1>2, StepOfStore, GatewayInvariant, PTL DEF GatewaySpec, StoreSpec

(* No two published routes collide on either side while traffic flows.     *)
THEOREM EndpointsStayApart == GatewaySpec => []EndpointsExclusive
BY ImplementsStore, EndpointsStayExclusive, PTL

(* No administrator's operation escapes the agent that compares revisions. *)
THEOREM ChangesAreAnnounced == GatewaySpec => ChangeAdvancesRevision
BY ImplementsStore, ChangesAdvanceRevisions, PTL

(* Whatever is published, the console's own paths reach the console: the   *)
(* admission checks of internal/api are enough for edge's dispatch.        *)
THEOREM ConsoleStaysReachable == GatewaySpec => []ConsoleReachable
<1>1. GatewayIInv => ConsoleReachable
  BY ConsoleInvariant DEF GatewayIInv
<1>. QED  BY <1>1, GatewayInvariant, PTL

(* Every ready web route is the one that answers its own address, unless   *)
(* that lies below autocert's challenge path on the primary HTTP listener. *)
THEOREM PublishedRoutesAnswer == GatewaySpec => []PublishedIsRouted
<1>1. GatewayIInv => PublishedIsRouted
  BY RoutedInvariant DEF GatewayIInv
<1>. QED  BY <1>1, GatewayInvariant, PTL

(* No request goes through another agent's forward, pooled connections,    *)
(* reused remote ports and colliding addresses included.                   *)
THEOREM RequestsStayWithTheirAgent == GatewaySpec => []NeverAnotherAgent
<1>1. GatewayIInv => NeverAnotherAgent
  BY DEF GatewayIInv
<1>. QED  BY <1>1, GatewayInvariant, PTL

(* A connection opened for a request reaches the target its route had, or  *)
(* the route has changed since: the revision checks of Heartbeat and of    *)
(* PublicationReady make a ready route's forward the present one.          *)
THEOREM DialsReachTheirTarget == GatewaySpec => []DialReachesPublished
<1>1. GatewayIInv => DialReachesPublished
  BY DEF GatewayIInv
<1>. QED  BY <1>1, GatewayInvariant, PTL
=============================================================================

----------------------------- MODULE RouteStore -----------------------------
(***************************************************************************)
(* The control plane's database of agents and routes: internal/store with  *)
(* the admission checks internal/api makes before it calls the store.      *)
(*                                                                         *)
(* Every operation is one SQLite transaction over a single connection, so  *)
(* each is one action; a request that fails any check is rolled back as a  *)
(* whole, including the revision bump already made, and changes nothing.   *)
(***************************************************************************)
EXTENDS Routes, FiniteSets

CONSTANTS
  Agents,           \* enrolled agents
  RouteIds,         \* random route identifiers, never issued twice
  RemotePorts,      \* PortRangeStart .. PortRangeEnd
  Requests,         \* route configurations an administrator may submit
  PublicHost,       \* domain of the management console, NoDomain if unset
  ReservedSegments, \* first segments of the control plane's own paths
  ReservedPorts,    \* ports tcpPortReserved refuses
  EdgeProtocols,    \* stream protocols whose edge is switched on
  WebPortsEnabled,  \* whether extra web ports are switched on
  Reported,         \* tunnel statuses an agent may report
  MaxRevision       \* bound on the configuration changes per agent

ConfigFields == {"protocol", "domain", "path_prefix", "strip_path", "public_port",
                 "target", "enabled"}

ASSUME RequestsAssumption == \A r \in Requests : r = [f \in ConfigFields |-> r[f]]
ASSUME RemotePortsAssumption == RemotePorts \subseteq Nat
ASSUME ReportedAssumption == Reported \subseteq {"up", "down", "error", "disabled"}
ASSUME MaxRevisionAssumption == MaxRevision \in Nat

VARIABLES
  agents,   \* agent -> [desired_revision, observed_revision, last_seen]
  routes,   \* the rows: a function from the existing identifiers
  issued    \* identifiers issued so far

storeVars == << agents, routes, issued >>

Configs == {Normalized(r) : r \in Requests}

Revision == 0 .. MaxRevision

Agent == [desired_revision : Revision, observed_revision : Revision,
          last_seen : {"never", "fresh", "stale"}]

Row == [client_id : Agents, config : Configs, remote_port : RemotePorts,
        desired_revision : Revision, observed_revision : Revision,
        tunnel_status : Reported \cup {""}]

StoreTypeOK ==
  /\ agents \in [Agents -> Agent]
  /\ issued \subseteq RouteIds
  /\ DOMAIN routes \subseteq issued
  /\ routes \in [DOMAIN routes -> Row]

StoreInit ==
  /\ agents = [a \in Agents |-> [desired_revision  |-> 0,
                                 observed_revision |-> 0,
                                 last_seen         |-> "never"]]
  /\ routes = [i \in {} |-> {}]
  /\ issued = {}

-----------------------------------------------------------------------------
(* Admission: the checks of the create and update handlers.                *)

(* Mutant: any prefix will do on the management domain. *)
UsesReservedDomainAnyPrefix(r) ==
  /\ IsWeb(r.protocol)
  /\ PublicHost # NoDomain
  /\ r.domain = PublicHost
  /\ \/ r.path_prefix = << >>
     \/ r.protocol # "https"
     \/ r.public_port \notin {0, 443}

(* Only an HTTPS path route on the default port may share the console's    *)
(* domain, and only away from the control plane's paths.                   *)
UsesReservedDomain(r) ==
  /\ IsWeb(r.protocol)
  /\ PublicHost # NoDomain
  /\ r.domain = PublicHost
  /\ \/ r.path_prefix = << >>
     \/ r.protocol # "https"
     \/ r.public_port \notin {0, 443}
     \/ r.path_prefix[1] \in ReservedSegments

PublicationAllowed(r) ==
  /\ IsStream(r.protocol) =>
       r.protocol \in EdgeProtocols /\ r.public_port \notin ReservedPorts
  /\ IsWeb(r.protocol) /\ r.public_port \notin {0, DefaultPublicPort(r.protocol)} =>
       WebPortsEnabled /\ r.public_port \notin ReservedPorts

Admissible(r) == ~UsesReservedDomain(r) /\ PublicationAllowed(r) /\ Valid(r)

(* Mutant: web routes of different schemes may share a port. *)
PublicPortAvailableAnyScheme(config, others) ==
  config.public_port # 0 =>
    \A i \in others :
      routes[i].config.public_port = config.public_port =>
        (IsStream(config.protocol) <=> IsStream(routes[i].config.protocol))

(* ensurePublicPortAvailable, against every row but the one being updated. *)
PublicPortAvailable(config, others) ==
  config.public_port # 0 =>
    \A i \in others :
      LET other == routes[i].config
      IN  other.public_port = config.public_port =>
            IF IsStream(config.protocol)
              THEN ~IsWeb(other.protocol)
              ELSE other.protocol = config.protocol

(* The unique indexes on web endpoints and on stream ports. *)
EndpointFree(config, others) ==
  \A i \in others : ~SameEndpoint(config, routes[i].config)

(* Ports no row holds and the server could bind on its loopback just now.  *)
(* What occupies a loopback port, an agent's forward included, is the      *)
(* environment's choice.                                                   *)
FreePorts(occupied) ==
  {p \in RemotePorts \ occupied : \A i \in DOMAIN routes : routes[i].remote_port # p}

(* allocatePort: the lowest free port. *)
Allocated(port, occupied) ==
  /\ port \in FreePorts(occupied)
  /\ \A q \in FreePorts(occupied) : port <= q

BumpDesiredRevision(a) ==
  agents' = [agents EXCEPT ![a].desired_revision = agents[a].desired_revision + 1]

-----------------------------------------------------------------------------
(* Mutant: the row is written without the port just allocated. *)
NewRowUnallocated(a, config, port) ==
  [client_id         |-> a,
   config            |-> config,
   remote_port       |-> 0,
   desired_revision  |-> agents[a].desired_revision + 1,
   observed_revision |-> 0,
   tunnel_status     |-> ""]

NewRow(a, config, port) ==
  [client_id         |-> a,
   config            |-> config,
   remote_port       |-> port,
   desired_revision  |-> agents[a].desired_revision + 1,
   observed_revision |-> 0,
   tunnel_status     |-> ""]

CreateRoute(a, id, request, occupied) ==
  LET config == Normalized(request)
  IN  /\ agents[a].desired_revision < MaxRevision
      /\ id \notin issued
      /\ Admissible(request)
      /\ PublicPortAvailable(config, DOMAIN routes)
      /\ EndpointFree(config, DOMAIN routes)
      /\ BumpDesiredRevision(a)
      /\ \E port \in RemotePorts :
           /\ Allocated(port, occupied)
           /\ routes' = [i \in DOMAIN routes \cup {id} |->
                           IF i = id THEN NewRow(a, config, port) ELSE routes[i]]
      /\ issued' = issued \cup {id}

(* Mutant: the row keeps the revision of its last configuration. *)
UpdateRouteInPlace(id, request) ==
  LET config == Normalized(request)
      others == DOMAIN routes \ {id}
  IN  /\ id \in DOMAIN routes
      /\ agents[routes[id].client_id].desired_revision < MaxRevision
      /\ Admissible(request)
      /\ PublicPortAvailable(config, others)
      /\ EndpointFree(config, others)
      /\ BumpDesiredRevision(routes[id].client_id)
      /\ routes' = [routes EXCEPT ![id].config = config]
      /\ UNCHANGED issued

(* An update keeps the row's owner, remote port and last observation; only *)
(* the new desired revision tells that the observation is out of date.     *)
UpdateRoute(id, request) ==
  LET config == Normalized(request)
      a == routes[id].client_id
      others == DOMAIN routes \ {id}
  IN  /\ id \in DOMAIN routes
      /\ agents[a].desired_revision < MaxRevision
      /\ Admissible(request)
      /\ PublicPortAvailable(config, others)
      /\ EndpointFree(config, others)
      /\ BumpDesiredRevision(a)
      /\ routes' = [routes EXCEPT ![id].config = config,
                                  ![id].desired_revision = agents[a].desired_revision + 1]
      /\ UNCHANGED issued

(* Mutant: a deletion is not a new revision. *)
DeleteRouteUnrevised(id) ==
  /\ id \in DOMAIN routes
  /\ agents[routes[id].client_id].desired_revision < MaxRevision
  /\ routes' = [i \in DOMAIN routes \ {id} |-> routes[i]]
  /\ UNCHANGED << agents, issued >>

DeleteRoute(id) ==
  /\ id \in DOMAIN routes
  /\ agents[routes[id].client_id].desired_revision < MaxRevision
  /\ BumpDesiredRevision(routes[id].client_id)
  /\ routes' = [i \in DOMAIN routes \ {id} |-> routes[i]]
  /\ UNCHANGED issued

(* Mutant: a heartbeat must be newer than the last one. *)
HeartbeatNewer(a, revision, observations) ==
  /\ revision > agents[a].observed_revision
  /\ revision <= agents[a].desired_revision

(* The revisions a heartbeat may carry: no older than the agent's last     *)
(* accepted one, and nothing the server never asked for.                   *)
HeartbeatAccepted(a, revision, observations) ==
  /\ revision >= agents[a].observed_revision
  /\ revision <= agents[a].desired_revision
  /\ \A i \in DOMAIN observations :
       observations[i].observed_revision <= agents[a].desired_revision

(* Mutant: an observation of the same revision does not replace the last. *)
ObservedOnce(a, observations) ==
  {i \in DOMAIN routes \cap DOMAIN observations :
     /\ routes[i].client_id = a
     /\ routes[i].desired_revision <= observations[i].observed_revision
     /\ routes[i].observed_revision < observations[i].observed_revision}

(* The rows an accepted heartbeat writes: the WHERE clause of its UPDATE.  *)
Observed(a, observations) ==
  {i \in DOMAIN routes \cap DOMAIN observations :
     /\ routes[i].client_id = a
     /\ routes[i].desired_revision <= observations[i].observed_revision
     /\ routes[i].observed_revision <= observations[i].observed_revision}

Heartbeat(a, revision, observations) ==
  /\ HeartbeatAccepted(a, revision, observations)
  /\ agents' = [agents EXCEPT ![a].observed_revision = revision,
                              ![a].last_seen = "fresh"]
  /\ routes' = [i \in DOMAIN routes |->
                  IF i \in Observed(a, observations)
                    THEN [routes[i] EXCEPT
                            !.observed_revision = observations[i].observed_revision,
                            !.tunnel_status = observations[i].tunnel_status]
                    ELSE routes[i]]
  /\ UNCHANGED issued

(* AgentHeartbeatFreshness passes without an accepted heartbeat. *)
AgeOut(a) ==
  /\ agents[a].last_seen = "fresh"
  /\ agents' = [agents EXCEPT ![a].last_seen = "stale"]
  /\ UNCHANGED << routes, issued >>

-----------------------------------------------------------------------------
(* The store on its own, under any heartbeat its endpoints let through.    *)

Administer ==
  \/ \E a \in Agents, id \in RouteIds, r \in Requests, occupied \in SUBSET RemotePorts :
       CreateRoute(a, id, r, occupied)
  \/ \E id \in RouteIds, r \in Requests : UpdateRoute(id, r)
  \/ \E id \in RouteIds : DeleteRoute(id)

Observations ==
  UNION {[S -> [observed_revision : 0 .. MaxRevision, tunnel_status : Reported]] :
           S \in SUBSET RouteIds}

StoreNext ==
  \/ Administer
  \/ \E a \in Agents, revision \in 0 .. MaxRevision, o \in Observations :
       Heartbeat(a, revision, o)
  \/ \E a \in Agents : AgeOut(a)

StoreSpec == StoreInit /\ [][StoreNext]_storeVars

-----------------------------------------------------------------------------
(* However creations and updates interleave, no two routes share a remote  *)
(* port, and two routes share an effective public port only as web routes  *)
(* of one scheme with different endpoints (ensurePublicPortAvailable and   *)
(* the partial indexes, which each see only part of the rule). It needs    *)
(* the edge's own ports 80 and 443 among the reserved ones.                *)
EndpointsExclusive ==
  {80, 443} \subseteq ReservedPorts =>
  \A i, j \in DOMAIN routes :
    LET c == routes[i].config
        d == routes[j].config
    IN  i # j =>
          /\ routes[i].remote_port # routes[j].remote_port
          /\ EffectivePublicPort(c) = EffectivePublicPort(d) =>
               /\ IsWeb(c.protocol)
               /\ c.protocol = d.protocol
               /\ << c.domain, c.path_prefix >> # << d.domain, d.path_prefix >>

(* What an agent is to run: its rows without what was observed of them.    *)
Intent(row) == [config           |-> row.config,
                remote_port      |-> row.remote_port,
                desired_revision |-> row.desired_revision]

RoutesOf(a) == {i \in DOMAIN routes : routes[i].client_id = a}
Desired(a) == [i \in RoutesOf(a) |-> Intent(routes[i])]

Ready(i) == PublicationReady(routes[i], agents[routes[i].client_id].last_seen)

(* Every change of what an agent is to run, deletions included, advances   *)
(* that agent's desired revision; acceptDesired refuses a state that       *)
(* changed without it.                                                     *)
ChangeAdvancesRevision ==
  [][\A a \in Agents :
       Desired(a)' # Desired(a) =>
         agents'[a].desired_revision > agents[a].desired_revision]_storeVars
=============================================================================

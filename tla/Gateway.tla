------------------------------- MODULE Gateway -------------------------------
(***************************************************************************)
(* Public web traffic: the dispatch of the edge's listeners                *)
(* (internal/edge), the gateway's choice of a route and its pooled         *)
(* upstream connections (internal/gateway), over the route store.          *)
(*                                                                         *)
(* A request lists the routes once and is then on its own: rows change,    *)
(* agents move their forwards and die while it is on its way. Agents are   *)
(* reduced to what matters here: each takes over its desired state in one  *)
(* step, reports it in another, and may lose all its connections. Forwards *)
(* are bound to the loopback address of their agent (managed SSH with      *)
(* isolated bindings), a digest that two agents may share.                 *)
(***************************************************************************)
EXTENDS RouteStore

CONSTANTS
  Clients,   \* requests on their way at once
  Listeners, \* [scheme, port, default]; scheme "" on the gateway's own port
  Segments,  \* of paths and path prefixes
  Paths,     \* request paths, as sequences of segments
  Redirects, \* whether WithHTTPSRedirect is given
  ChallengePrefix, \* .well-known/acme-challenge, of autocert's own requests
  Addresses, \* loopback addresses
  MaxIdle,   \* idle upstream connections kept, MaxIdleConns
  None

ASSUME SegmentsAssumption ==
  /\ \A r \in Requests : r.path_prefix \in Seq(Segments)
  /\ Paths \subseteq Seq(Segments)
ASSUME StatusesAssumption == {"up", "disabled"} \subseteq Reported

(* An upstream connection: the agent and the forward it goes through, and  *)
(* the target it leads to.                                                 *)
Connections == [agent : Agents, remote_port : RemotePorts,
                target : {r.target : r \in Requests}]

ASSUME NoConnectionAssumption == None \notin Connections

VARIABLES
  digest,    \* agent -> the address that three octets of its identifier's digest give
  letIn,     \* agents with a line in authorized_keys
  running,   \* agent -> the state it has taken over, [revision, desired]
  serving,   \* client -> the route selected and the connection it goes over
  pool       \* idle upstream connections of the gateway's http.Transport

gatewayVars == << storeVars, digest, letIn, running, serving, pool >>

GatewayInit ==
  /\ StoreInit
  /\ digest \in [Agents -> Addresses]
  /\ letIn = {}
  /\ running = [a \in Agents |-> None]
  /\ serving = [c \in Clients |-> None]
  /\ pool = {}

-----------------------------------------------------------------------------
(* Which route a listener's request belongs to.                            *)

Hosts == {r.domain : r \in Requests} \ {NoDomain}

(* Default-port routes belong to the primary listeners, wherever these are *)
(* bound, and to the gateway's own; other routes to their port's listener. *)
OnListener(config, listener) ==
  \/ listener.scheme = "" /\ config.public_port = 0
  \/ listener.scheme = config.protocol /\ listener.default /\ config.public_port = 0
  \/ listener.scheme = config.protocol /\ ~listener.default /\ config.public_port = listener.port

RouteMatches(config, listener, host, path) ==
  /\ IsWeb(config.protocol)
  /\ config.domain = host
  /\ OnListener(config, listener)
  /\ MatchesPath(config, path)

(* selectRoute takes the first of the longest prefixes in the order of the *)
(* listing: any of them.                                                   *)
Selected(listener, host, path) ==
  LET candidates == {i \in DOMAIN routes :
                       Ready(i) /\ RouteMatches(routes[i].config, listener, host, path)}
  IN  {i \in candidates : \A j \in candidates :
         Len(routes[j].config.path_prefix) <= Len(routes[i].config.path_prefix)}

HTTPSDomainEnabled(host) ==
  \E i \in DOMAIN routes :
    /\ routes[i].config.protocol = "https"
    /\ routes[i].config.domain = host
    /\ routes[i].config.enabled

(* autocert's HostPolicy: names the HTTPS listeners have a certificate for. *)
CertificateAllowed(host) == host = PublicHost \/ HTTPSDomainEnabled(host)

Routed(i) == [by |-> "route", route |-> i]
By(handler) == [by |-> handler, route |-> None]

GatewayAnswers(listener, host, path) ==
  IF Selected(listener, host, path) # {}
    THEN {Routed(i) : i \in Selected(listener, host, path)}
    ELSE {By(IF listener.scheme = "http" /\ Redirects /\ HTTPSDomainEnabled(host)
               THEN "redirect" ELSE "not_found")}

(* autocert's HTTPHandler is wrapped around the primary HTTP listener and  *)
(* keeps every path below the challenges' for itself.                      *)
Challenge(listener, path) ==
  /\ listener.scheme = "http" /\ listener.default
  /\ Len(path) > Len(ChallengePrefix)
  /\ \A i \in 1 .. Len(ChallengePrefix) : path[i] = ChallengePrefix[i]

(* Mutant: the console's own handler goes first. *)
AnswersConsoleFirst(listener, host, path) ==
  CASE Challenge(listener, path) -> {By("autocert")}
    [] listener.scheme = "https" /\ listener.default /\ host = PublicHost -> {By("control")}
    [] listener.scheme = "http" /\ listener.default /\ host = PublicHost -> {By("redirect")}
    [] OTHER -> GatewayAnswers(listener, host, path)

(* On the primary listeners the console's name is redirected to HTTPS, and *)
(* there goes to the control plane unless a route claims the request.      *)
Answers(listener, host, path) ==
  CASE Challenge(listener, path) -> {By("autocert")}
    [] listener.scheme = "https" /\ listener.default /\ host = PublicHost ->
         IF Selected(listener, host, path) # {}
           THEN {Routed(i) : i \in Selected(listener, host, path)}
           ELSE {By("control")}
    [] listener.scheme = "http" /\ listener.default /\ host = PublicHost -> {By("redirect")}
    [] OTHER -> GatewayAnswers(listener, host, path)

-----------------------------------------------------------------------------
(* Agents, their forwards and the connections through them.                *)

(* managedssh.BindAddress: three octets of a digest of the identifier. *)
BindAddress(a) == digest[a]

(* Mutant: whoever registers a key is let in. *)
WritableAlways(lines) == TRUE

(* authorizedkeys.Write refuses a file with two agents on one address. *)
Writable(lines) ==
  \A a, b \in lines : BindAddress(a) = BindAddress(b) => a = b

(* An agent registers its key; where the file cannot be written it is told *)
(* to try again. Nobody is ever taken out of the file (ManagedKeys has the *)
(* registration in its steps).                                             *)
AgentRegisters(a) ==
  /\ a \notin letIn
  /\ Writable(letIn \cup {a})
  /\ letIn' = letIn \cup {a}
  /\ UNCHANGED << storeVars, digest, running, serving, pool >>

(* What accepts connections at an address: the forward there, by the agent *)
(* that holds it and the target it leads to.                               *)
Forwards(address, port) ==
  {k \in Connections :
     /\ BindAddress(k.agent) = address
     /\ k.remote_port = port
     /\ running[k.agent] # None
     /\ \E i \in DOMAIN running[k.agent].desired :
          LET forward == running[k.agent].desired[i]
          IN  /\ forward.config.enabled
              /\ forward.remote_port = port
              /\ forward.config.target = k.target}

(* An agent reconciles its desired state, once sshd has let it in: it      *)
(* verifies that before its first synchronisation. Connections open        *)
(* through a forward outlive its cancellation.                             *)
AgentSyncs(a) ==
  /\ a \in letIn
  /\ running' = [running EXCEPT ![a] = [revision |-> agents[a].desired_revision,
                                        desired  |-> Desired(a)]]
  /\ UNCHANGED << storeVars, digest, letIn, serving, pool >>

AgentReports(a) ==
  /\ running[a] # None
  /\ LET state == running[a]
     IN  Heartbeat(a, state.revision,
           [i \in DOMAIN state.desired |->
              [observed_revision |-> state.revision,
               tunnel_status |-> IF state.desired[i].config.enabled THEN "up" ELSE "disabled"]])
  /\ UNCHANGED << digest, letIn, running, serving, pool >>

(* The agent's ssh goes, and every connection through it. *)
AgentDies(a) ==
  /\ running[a] # None
  /\ running' = [running EXCEPT ![a] = None]
  /\ pool' = {k \in pool : k.agent # a}
  /\ serving' = [c \in Clients |->
                   IF serving[c] # None /\ serving[c].upstream # None /\ serving[c].upstream.agent = a
                     THEN None ELSE serving[c]]
  /\ UNCHANGED << storeVars, digest, letIn >>

-----------------------------------------------------------------------------
(* A request that a route answers: ListRoutes and selectRoute at once ...  *)
Receive(c, listener, host, path) ==
  /\ serving[c] = None
  /\ \E i \in DOMAIN routes :
       /\ Routed(i) \in Answers(listener, host, path)
       /\ serving' = [serving EXCEPT ![c] = [route    |-> i,
                                             agent    |-> routes[i].client_id,
                                             intent   |-> Intent(routes[i]),
                                             upstream |-> None,
                                             dialled  |-> FALSE]]
  /\ UNCHANGED << storeVars, digest, letIn, running, pool >>

Waiting(c) == serving[c] # None /\ serving[c].upstream = None

(* ... the transport's idle connections to the address it wants ...        *)
Idle(c) ==
  {k \in pool : /\ BindAddress(k.agent) = BindAddress(serving[c].agent)
                /\ k.remote_port = serving[c].intent.remote_port}

Reuse(c) ==
  /\ Waiting(c)
  /\ \E k \in Idle(c) :
       /\ serving' = [serving EXCEPT ![c].upstream = k]
       /\ pool' = pool \ {k}
  /\ UNCHANGED << storeVars, digest, letIn, running >>

(* ... or else a new one; with nobody listening the answer is 502 ...      *)
Dial(c) ==
  /\ Waiting(c)
  /\ Idle(c) = {}
  /\ LET reached == Forwards(BindAddress(serving[c].agent), serving[c].intent.remote_port)
     IN  \/ \E k \in reached :
              serving' = [serving EXCEPT ![c].upstream = k, ![c].dialled = TRUE]
         \/ reached = {} /\ serving' = [serving EXCEPT ![c] = None]
  /\ UNCHANGED << storeVars, digest, letIn, running, pool >>

(* ... and once answered the connection is kept, or not.                   *)
Finish(c) ==
  /\ serving[c] # None /\ ~Waiting(c)
  /\ serving' = [serving EXCEPT ![c] = None]
  /\ \/ pool' = pool
     \/ Cardinality(pool) < MaxIdle /\ pool' = pool \cup {serving[c].upstream}
  /\ UNCHANGED << storeVars, digest, letIn, running >>

(* IdleConnTimeout, the oldest of too many, or the far end. *)
CloseIdle(k) ==
  /\ k \in pool
  /\ pool' = pool \ {k}
  /\ UNCHANGED << storeVars, digest, letIn, running, serving >>

GatewayNext ==
  \/ Administer /\ UNCHANGED << digest, letIn, running, serving, pool >>
  \/ \E a \in Agents :
       \/ AgeOut(a) /\ UNCHANGED << digest, letIn, running, serving, pool >>
       \/ AgentRegisters(a) \/ AgentSyncs(a) \/ AgentReports(a) \/ AgentDies(a)
  \/ \E c \in Clients :
       \/ \E listener \in Listeners, host \in Hosts, path \in Paths : Receive(c, listener, host, path)
       \/ Reuse(c) \/ Dial(c) \/ Finish(c)
  \/ \E k \in pool : CloseIdle(k)

GatewaySpec == GatewayInit /\ [][GatewayNext]_gatewayVars

-----------------------------------------------------------------------------
(* Whatever administrators publish, the management domain's root and the   *)
(* control plane's own paths are answered by the control plane: "the       *)
(* control plane keeps /, /api, /assets, and /healthz" (edge.go), which    *)
(* only the admission checks in internal/api ensure.                       *)
ControlPath(path) == path = << >> \/ path[1] \in ReservedSegments

ConsoleReachable ==
  \A listener \in Listeners, path \in Paths :
    listener.scheme = "https" /\ listener.default /\ ControlPath(path) =>
      Answers(listener, PublicHost, path) = {By("control")}

(* What the API calls published is served: a ready web route answers its   *)
(* own address on the listener of its port, as the only candidate and with *)
(* a certificate to be had, next to any other routes. It joins the         *)
(* admission checks, the unique indexes, the prefix and port matching of   *)
(* the gateway and the console's dispatch. The exception is a prefix below *)
(* autocert's challenge path on the primary HTTP listener: the API admits  *)
(* it and calls it published, and autocert answers in its place.           *)
ListenerOf(config) ==
  [scheme  |-> config.protocol,
   port    |-> EffectivePublicPort(config),
   default |-> config.public_port = 0]

PublishedIsRouted ==
  \A i \in DOMAIN routes :
    LET config == routes[i].config
    IN  IsWeb(config.protocol) /\ Ready(i) =>
          /\ \/ Challenge(ListenerOf(config), config.path_prefix)
             \/ Answers(ListenerOf(config), config.domain, config.path_prefix) = {Routed(i)}
          /\ config.protocol = "https" => CertificateAllowed(config.domain)

(* No request ends up with another agent than its route's, though remote   *)
(* ports are handed on between agents, pooled connections outlive the      *)
(* routes they were opened for, and addresses may collide: a request and a *)
(* pooled connection only ever meet by address and port. It rests on       *)
(* authorized_keys letting in one agent per address, and on a ready route  *)
(* having been reported by an agent that was let in.                       *)
NeverAnotherAgent ==
  \A c \in Clients :
    serving[c] # None /\ serving[c].upstream # None =>
      serving[c].upstream.agent = serving[c].agent

(* A request that opens its own connection reaches what its route said     *)
(* when it was selected, or the route has changed since. A request on a    *)
(* pooled connection need not: it may reach the port's earlier target.     *)
DialReachesPublished ==
  \A c \in Clients :
    serving[c] # None /\ serving[c].dialled =>
      \/ serving[c].upstream.target = serving[c].intent.config.target
      \/ serving[c].route \notin DOMAIN routes
      \/ Intent(routes[serving[c].route]) # serving[c].intent
=============================================================================

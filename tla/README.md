# PortLoom in TLA+

PortLoom publishes services that run behind NAT. An administrator describes
routes on a public server; an agent beside the services fetches what it is to
run, keeps OpenSSH remote forwards up through one ControlMaster, and reports what
it observed; the server's edges send public HTTP, TCP and UDP traffic into the
forwards of routes whose agents reported them up. This directory holds TLA+
modules for those parts, the TLC configurations that check them on small
instances, and TLAPS proofs of the most important properties for instances of
every size.

Sources are named relative to `src/`. `PROJECT.json` lists, for every definition
that models code, the lines it stands for.

## 1. The system

| Component | Source | State | Operations | Modelled in |
| --- | --- | --- | --- | --- |
| Route domain | `internal/domain/route.go` | none | validation, normalisation, publication readiness | `Routes` |
| Route store | `internal/store/routes.go`, admission checks in `internal/api/api.go` | SQLite tables `agents`, `routes` | create, update, delete, `SyncAgent`, `Heartbeat` | `RouteStore` |
| Agent synchronisation | `internal/agent/sync.go`, `http_client.go`, `cmd/agent/main.go` | accepted and cached desired state | fetch, accept or refuse, reconcile, report | `AgentSync`, `Publication` |
| Reconciler | `internal/agent/reconciler.go` | `active`, `relays`, `masterReady`, `observedRevision` | `Reconcile` | `Reconciler` |
| Stream manager | `internal/tcpedge/manager.go` | workers by port, statuses | `reconcile`, `stopAll`, `PublicStatus` | `StreamManager`, `StreamWorker` |
| TCP and UDP workers | `internal/tcpedge/manager.go` | slots, connections, sessions | serve, proxy, expire, `beginStop`, `finishStop` | `TcpWorker`, `UdpWorker`, with `StreamLimits` |
| Web port manager | `internal/edge/ports.go` | servers by port, statuses | `reconcile`, start, stop, `PortStatus` | `WebPorts` |
| Enrollment | `internal/agent/enrollment.go`, `internal/store/store.go`, `lists.go` | tokens, claims, credential files | issue, claim, repeat, delete | `Enrollment` |
| Managed SSH keys | `internal/store/ssh_keys.go`, `internal/authorizedkeys`, `internal/agent/managed_ssh.go` | bound keys, `authorized_keys`, ready marker | register, rebuild, verify, mark | `ManagedKeys` |
| ControlMaster runner | `internal/sshctl` | own ssh process, control socket and its identity, flock | ensure, check, forward, cancel, close | `ControlMaster`, `Reconciler` |
| Gateway and edge | `internal/gateway`, `internal/edge` | idle upstream connections | dispatch, route selection, redirect, certificate policy, proxy | `Gateway` |
| Server program, migration 5 | `cmd/server/main.go`, `internal/store/store.go` | schema version, stage | migrate, serve, shut down | `Server` |
| UDP relay, metrics, configuration, web UI, images and installers | `internal/agent/udp_relay.go`, `internal/metrics`, `sshd`, ... | see section 7 | | not modelled |

How they interact. The administrator's requests reach the store through the API.
An agent's HTTP exchanges (`enroll`, `ssh-key`, `desired`, `observed`) are the only
messages; an exchange may fail before or after the server has acted, and a
request whose sender has given up may be handled later. The stream manager, the
web port manager and the gateway only read the store, by polling or per request;
they share the listening sockets of one host. The Reconciler speaks to ssh
through a control socket that any ssh process may create, and by commands that may be
killed at a timeout. The gateway keeps connections into the forwards of agents, which
outlive the routes they were opened for.

What is hard: exchanges that interleave with the administrator and with each
other (torn reads, late reports), restarts of the agent between any two steps,
ssh commands of unknown outcome, goroutines that stop while others accept, dial
and expire, pollers that see the store and the sockets at different times, ssh processes
that outlive the agent that started them, a migration that dies between two statements.
`PROJECT.json` lists the hazards, each at its line with the properties that cover
it.

What makes each component correct:

* store: no two routes on one endpoint; every change reaches the revision of every
  agent concerned; revisions only grow; a status is only stored for the
  configuration it was observed for;
* synchronisation: what is published is what the administrator wants now; every
  refusal and failure heals;
* reconciler: the report says of each route what the agent holds of it; what is
  withdrawn is gone from the server; `up` means a forward is there (it need not be: section 6);
* stream edge: slots are returned once; stops end and leave nothing open; no
  listener is forgotten; what is shown as published is served;
* web ports: no listener is forgotten while anybody can still stop it, one scheme to a port;
* gateway: what is shown as published answers at its own address, the console stays
  reachable, no request gets to another agent;
* ControlMaster: one owner of the control path, no ssh process lost sight of, no socket
  of a live one in use unlinked, and a master in the end;
* server: every route keeps the scheme it was published with through any interrupted
  migration, and the server comes up;
* enrollment: no identity is lost or made twice;
* managed keys: access is never given wrongly, taken away or announced too early.

## 2. Modules

### Routes, RouteStore: the database

`RouteStore` has the two tables (`agents`, `routes`) and the identifiers issued.
`CreateRoute`, `UpdateRoute`, `DeleteRoute` and `Heartbeat` are one action each, as
each is one transaction on the single connection (`MaxOpenConns(1)`); a failed check
undoes the revision bump, hence no step. The checks (`PublicationAllowed`, endpoint
and port conflicts, remote port allocation, the range of an observed revision and
the desired revision of each row) are guards. `Routes` holds the domain rules: web
and stream protocols, normalised ports, `PublicationReady`.

### Gateway: public web traffic

`Gateway` extends `RouteStore`, so that routes change by the very actions and checks of
the store. `Answers` is the dispatch of a listener of any kind (console or gateway,
redirect to HTTPS, and before all of them the ACME handler of autocert that `cmd/server` puts in
front of the HTTP edge: `Challenge`), `Selected` is `selectRoute` (listener, host, longest prefix),
`CertificateAllowed` is the host policy of autocert. A request is received (one listing of
the routes and the selection), reuses an idle connection of the transport or dials, and
finishes; between any two of these steps rows change and agents act. An agent is reduced to
what matters to a request: it takes over its desired state in one step, reports it in
another, and may lose its ssh with all connections through it. Forwards are bound to the
loopback address of their agent, as managed SSH with isolated bindings does. That address is three
octets of a digest (`managedssh/address.go`): `digest` is any assignment of addresses to agents,
and forwards and idle connections are found by address and port alone. `AgentRegisters` is the
check of `authorizedkeys.Write` that keeps a second agent on an address out of the file; an agent
that is not let in forwards nothing.

### AgentSync, Publication: the synchronisation loop

`AgentSync` extends `RouteStore`. A process of an agent goes through `down`, `idle`,
`asking`, `reading`, `answered`, `reporting`. `ReadRevision` and `ReadRoutes` are the two
reads `SyncAgent` makes with no transaction around them. `RefuseDesired` and
`Reconcile` are `acceptDesired` and what follows; `FetchFails` is the cached repair or the
loss of the cache; `Handle*` is the server's side of a report and whether its answer
arrives; a report given up on stays in `reports` and may be handled or lost at any
later time. `Crash` and `GiveUp` follow `run` of `cmd/agent`: a process exits when its
first synchronisation fails. What a reconciliation may report is `Outcomes`;
`Reconciler!ReportAllowed` states the same set of the reconciler itself. `seen` and
`covered` are history variables, which no guard reads.

`Publication` is the abstract promise: traffic reaches a route only as it is wanted
now, and a change withdraws it in the same step. `AgentSync!PublicationPromise`
is that specification under the refinement mapping `live[i]` = the intent last
reported on, when `PublicationReady`.

### Reconciler: ssh forwards

One `Reconcile` is a sequence of steps, one per ssh command, with the
`ControlMaster` (`master`, `remote`) as an external party that may die in between.
`Ambiguous` names the commands that may have taken effect although they failed, as
one killed at its timeout may have; `strays` marks the forwards that such a forwarding command left
behind, which the code does not know of and no guard reads. Relays of UDP routes have ephemeral ports. The action for a route is
chosen by the same conditions as the branches of the loop; routes are visited in any
order, which includes the order of the list.

### ControlMaster: the ssh behind the forwards

`ControlMaster` goes below the commands the `Reconciler` takes for atomic. Agent processes of
one configuration (a second one, or one started after a crash) run `EnsureMaster`,
`CheckMaster`, `Forward` and `Close` step by step: `pc` is the place in the operation, `goal` is
which operation it belongs to. `lock` is the flock on the control path, `path` is whose socket
is there, `own` and `identity` are the runner's managed process and the file it takes for that
process's socket. ssh processes are actors of their own: they connect, find the path
taken or create the socket, exit and unlink it by name, or die and leave it. Each check of a
file and each unlink is a step of its own: between the second `Lstat` and the `Remove` of
`removeStaleControlSocket` (`StaleReinspected`, `StaleRemoved`), and between those of
`cleanupManagedControlSocket` (`Cleanup`, `Unlink`), ssh processes may unlink the path and create
sockets there. `orphans`
notes those whose agent process is gone, which no guard reads; `active` notes whose session
carries the forward, of which the code knows only whether there is one. One goroutine
calls the runner, so its lifecycle gate is never contended.

### StreamWorker, TcpWorker, UdpWorker, StreamManager: the stream edge

`StreamWorker` is what the Manager may assume of its `streamWorker` interface. `TcpWorker`
and `UdpWorker` follow the goroutines (accept or receive loop, one proxy or reader per
session, expiry, the Manager's calls) with a step for each thing another goroutine
can see, and are each checked to implement it. `StreamLimits` has the capacities
the two share; names of `UdpWorker` that would be those of `TcpWorker` begin with `Udp` or `udp`. `StreamManager` extends `StreamWorker`
and models the Manager: a poll is listing, stopping, starting and publishing, with
changes of routes, agents' reports, failing workers and foreign sockets between
any two of them.

### WebPorts, Server, Enrollment, ManagedKeys

`WebPorts` models `PortsManager` in the same manner. The socket (`listening`), the entry
(`servers`) and the goroutine in `Serve` (`serve`) are apart: `Shutdown` closes the listener only of
a server whose goroutine has come to accept; a `Serve` that begins later closes its own and returns;
the entry goes when `stop` has seen the goroutine return, or when its bounded wait has run out (`WaitTimesOut`,
`gaveUp`). `Server` extends it with the life of the
program around it: the statements of migration 5, each of which commits by itself (a column is
added if it is not there, rows are rewritten, an old index is dropped, two are made, the
version is recorded), the rebuild of `authorized_keys`, serving, the shutdown that waits for the
managers, and a death at any of these points followed by another start. `Enrollment` models
`ResolveCredentials` file by file against `ClaimEnrollmentToken`; a claim (request
identifier and agent token) is one model value. `ManagedKeys` models many
`BindAgentSSHKeyAndSync` calls under `sshKeysMu`, the rebuild at start-up, and
`RegisterManagedSSHKeyWithConfig` up to the ready marker.

## 3. Runs

Violation runs state what a comment or a document of the repository says; see
section 6. TLC's symmetry is used in `gateway` only, on route identifiers, agents and addresses; its properties are
invariants and step properties; every other passing run has liveness properties and fairness, for which
it would be unsound. Where values are drawn that nothing tells apart (route identifiers, claims,
sessions, keys), those runs take the behaviours that draw them in one order (`InOrder`, an action constraint,
or `MCInit`): every other behaviour is one of these throughout, with the values renamed, and
neither the specifications nor the properties name any of them.

| Run | Checks | Bounds, and why they are enough |
| --- | --- | --- |
| `gateway` | `EndpointsExclusive`, `ChangeAdvancesRevision`, `ConsoleReachable`, `PublishedIsRouted`, `NeverAnotherAgent`, `DialReachesPublished` | two routes, two agents, two remote ports, two addresses, which the agents may share, one request and one idle connection; three changes in all (`FewChanges`), enough to pass a remote port from one agent to the other; requests that collide in each way the checks and the matching tell apart (normalised port, scheme, prefix of a prefix, console domain and the console's own paths, a prefix below autocert's, stream on a web port, reserved port); whoever can be let in registers before the first change (`FewChanges`) |
| `agent_sync` | `PublicationSound`, `ReadyIsReported`, `NeverRollback`, `LiveReportAccepted`, `PublicationPromise`, `Converges` | two routes of one agent (agents share no rows), two changes, two faults: a torn read, a late report and a restart together |
| `reconciler` | `ReportMatchesActive`, `WithdrawnIsGone`, `ReportAllowed`, `Converges` | three routes, the third on the port of the first; TCP, UDP, disabled and invalid settings; two desired states, one fault; a forwarding command or a cancellation that fails may have taken effect; a relay port for every route |
| `forward_lost` | violation of `TunnelUpExists` | two routes on one port in turn, no fault |
| `control_master` | `OwnedIsLocked`, `NoStrayMaster`, `LiveSocketKept`, `Recovers` | two agent processes, three ssh processes, takeover of sessions, four faults: an orphan, its successor and a process that starts beside both |
| `stream_workers` | `NothingLeaks`, `ImplementsStreamWorker`, `StopTerminates`, `SessionsLeakNothing`, `UdpImplementsStreamWorker`, `UdpStopTerminates` | either kind of worker, by the protocol drawn at the start as `start` of the Manager does, the other kind never begun. TCP: two workers, two clients of one and one of the other, with fewer slots than either: every refusal occurs. UDP: one client and two sessions: its second session while the first is being dropped; other workers take global slots |
| `stream_manager` | `ListenersOwned`, `PublishedIsServed`, `WithdrawnDrains`, `Settles` | two routes, two ports, three workers, one session; begun with the first route published and the second absent or waiting for its port, so that one change makes a move, a conflict or its end; two routes that exchange their ports within one poll take two changes and are not in the instance (the theorem `ListenersAreOwned` covers them) |
| `server` | `ListenersOwned`, `SchemesKept`, `ComesUp` | two routes, two ports, two deaths or failures, from an empty and from an older database: two interruptions of one migration, or one and a change of scheme, with conflicts and moves between ports; other programs take only the first port, and the second has at most one route, of one scheme (`SecondPortQuiet`) |
| `ports_dead` | violation of `PublishedIsServed` | one route |
| `enrollment` | `NoOrphan`, `OneAgentPerToken`, `GrantedRuns` | two hosts, two tokens, three claims, two faults: a claim presented with both tokens |
| `token_deleted` | violation of `EnrolledUnaffected` | one host, one token, two faults: the answer lost, the token deleted |
| `managed_keys` | `FileIsBound`, `ReadyIsAuthorized`, `NeverLocksOut`, `AccessGranted` | three agents, two of which collide on an address, two keys, two faults |

Named bounds. `MaxRevision` bounds configuration changes, `MaxFaults` (`MaxFailures` in the
reconciler) bounds failures, crashes and losses, `MaxChanges` bounds the changes around the stream manager. They stand
in guards of the environment's actions only, never in those of the code, except that
`RouteStore` stops accepting changes at `MaxRevision`, that a deadline of the ssh runner counts
as a fault (`ControlMaster`), and that the transport keeps at most
`MaxIdle` connections (`Gateway`), as its own limit has it. Deadlock checking is off where an
environment may be through with its bound and the program idle.

Every stateful component's module states a type invariant, except `Gateway` and `Server`, which add
little to the modules they extend. All are proved as parts of the inductive invariants of
section 4, and with them the types of the variables `Gateway` and `Server` add.

`NothingLeaks` and `SessionsLeakNothing` say of TCP and UDP workers that slots taken, connections
open and the goroutines that will give them back always agree, that a stop that has begun leaves no connection
unclosed, and that a finished one leaves nothing. A worker is stopped once, so that every stop
ends is `[]<>` of not being in one. `PublishedIsRouted` joins what the
admission checks allow to what the gateway would select; `NeverAnotherAgent` and
`DialReachesPublished` hold for requests that were on their way while rows changed.
`PublishedIsServed` asks of what `PublicStatus` calls published that its worker
was started for that route and listens on the port the Manager keeps it for, or is the very one that
`reconcile` or `stopAll` has told to stop and waits for: its listener is closed then, and the status
says so only when the wait is over.
Exceptions are parts of the properties, each for one thing the code lets happen: `Challenge` in
`PublishedIsRouted`, `strays` in `WithdrawnIsGone` and `Converges`, `gaveUp` in the web ports'
`ListenersOwned`, and in `LiveSocketKept` and `Recovers` an ssh that outlived its agent. Section 6 says
how each comes about.

Every property of a passing run has a mutant: a definition of the model changed the way
a plausible bug would change the code (`Mutant:` comments), under which the property
fails. Mutant definitions are never used by the specifications.

### Fairness

* `AgentSync`: weak fairness of an agent's next step. `Syncer.Run` is a ticker loop and
  the agent's container is restarted; administrators and faults owe nothing, and
  `MaxFaults` makes faults end.
* `Reconciler`: weak fairness of the next step of the process, and of the recovery of
  targets.
* `TcpWorker`, `UdpWorker`: weak fairness of runnable goroutines only. A copy or a read is
  obliged to end only once its end has been closed; peers may be silent for ever and
  blocked writes end only when the connection is closed.
* `ControlMaster`: weak fairness of the supervisor's restart, of the next step of each agent
  process (its ticker and its timeouts go on), and of each ssh: it connects or fails, and it
  exits when told to. That a session without an end dies is nobody's duty.
* `StreamManager`: weak fairness of the poll, and of workers and sessions once they are told
  to stop; sessions of workers that are not stopping may last for ever.
* `Server`, `WebPorts`: weak fairness of the start (the supervisor starts the program again), of
  the poll, of the end of a shutdown, and of each server's goroutine. A stop that gives up waiting for
  one (five seconds) counts as a fault.
* `Enrollment`: weak fairness of each host's next step: a supervisor restarts it, and the
  server answers.
* `ManagedKeys`: weak fairness of the server's start, of the handler that holds the mutex
  and of each agent; strong fairness of getting the mutex for a request that still waits,
  since a Go mutex hands itself over to a waiter that starves. Whether a host is ever
  installed (`Install`) is the operator's choice.

## 4. Proofs

The theorems hold for any sets of agents, routes, ports, configurations, connections and
any bounds. Every invariant, step property and refinement that a passing run checks is proved.

| Module | Theorems | About |
| --- | --- | --- |
| `RouteProofs` | `StoreTypeCorrect`, `ChangesAdvanceRevisions`, `EndpointsStayExclusive` | `RouteStore`: the database alone, under any requests and any heartbeats |
| | `TypeCorrect`, `Invariant`, `PublicationIsSound`, `ReadyRoutesAreReported`, `RevisionsNeverGoBack`, `LiveReportsAreAccepted`, `ImplementsPromise` | `AgentSync`, and that it refines `Publication` |
| | `GatewayInvariant`, `ImplementsStore`, `EndpointsStayApart`, `ChangesAreAnnounced`, `ConsoleStaysReachable`, `PublishedRoutesAnswer`, `RequestsStayWithTheirAgent`, `DialsReachTheirTarget` | `Gateway`: requests in flight while rows change, and that the store is used by its operations only |
| `AgentSshProofs` | `TypeCorrect`, `Invariant`, `OwnersHoldTheLock`, `NoneIsLost`, `LiveSocketsAreKept` | `ControlMaster` |
| | `ReconcileInvariant`, `ReportsMatch`, `WithdrawnRoutesAreGone`, `ReportsAreAllowed` | `Reconciler` |
| `StreamManagerProofs` | `Invariant`, `ListenersAreOwned`, `PublishedIsItsOwn` | `StreamManager` |
| | `KeepsToItsWorkers`, `WorkersKeepLimits`, `SessionsWithinLimits` | that the Manager uses `StreamWorker` by its operations only, and what any workers that keep to it guarantee |
| `TcpProofs` | `TcpInvariant`, `TcpLeaksNothing`, `TcpImplements` | `TcpWorker`, and that it refines `StreamWorker` |
| `UdpProofs` | `UdpInvariant`, `UdpLeaksNothing`, `UdpImplements` | `UdpWorker`, and that it refines `StreamWorker` |
| `ServerProofs` | `Invariant`, `SchemesAreKept`, `SocketsAreOwned` | `Server`, with the `WebPorts` it extends |
| `EnrollmentProofs` | `Invariant`, `NobodyIsOrphaned`, `OneAgent` | `Enrollment` |
| `ManagedKeysProofs` | `Invariant`, `FileStaysBound`, `ReadyStaysAuthorized`, `NobodyIsLockedOut` | `ManagedKeys` |

Each module begins with its argument in a few sentences; what follows here is why the properties are
not inductive and what the invariants add. The proof that a step keeps an invariant
has one lemma for each action, or group of actions that do the same to it.

**Assumptions.** Those the modules state of their constants: bounds and limits are numbers,
requests are records of `ConfigFields`, prefixes are sequences of `Segments`, reported
statuses are among the four there are, and the values for "nothing" (`None`, `NoIntent`,
`Unset`) are none of the things they stand for the absence of. `EndpointsExclusive` carries
its own condition, that 80 and 443 are reserved ports. In `UdpWorker` no session is named as one of
the three goroutines beside the readers (`NamesAssumption`). No fairness is assumed.

**Store.** The handler and the indexes compare stored public
ports, of which 0 stands for a protocol's default, one pair of routes at a time;
`EndpointsExclusive` speaks of the ports routes really occupy. The two agree only if no row holds 80
or 443 itself, so the invariant `StoreInv` adds `StoredSettled`: `Normalized` stores a
protocol's own port as 0 and `PublicationAllowed` refuses the other one as reserved
(`NormalizedSettled`). `ChecksSuffice` then turns the checks against one row into `Apart`.

**Synchronisation.** `AgentSync` and `Gateway` take every step on the database from `RouteStore`,
so their theorems stand beside the store's, on its lemmas. `PublicationSound` says nothing of what is in flight.
`IInv` adds what every holder of a pair (revision, routes) knows. A row's
`desired_revision` is its agent's revision at the row's last change, so a pair whose
revision was read before its routes is right about every row whose `desired_revision`
is at most that revision: `FetchCurrent` says so of an exchange, `ReportsCurrent` of a
report, late ones included. `Heartbeat` writes a status only where the row's
`desired_revision` does not exceed the observed one and the observed revision does not
exceed the agent's; so what it writes is about the stored configuration (`SeenCurrent`).
`ProcBounded`, `FetchBounded`, `RowsBounded` and `AgentsBounded` order the revisions, and
`ReportingLatest` says that nothing newer than what a waiting process accepted can have
been reported, from which `LiveReportAccepted` follows. `ImplementsPromise` is then a step lemma
per operation: a report publishes what it saw, which `SeenCurrent` makes the present intent; a
change of a row raises its `desired_revision` above what was observed, which
withdraws it; every other step leaves `live` alone.

**Gateway.** What answers a request depends on the rows: they are admitted and apart (`RowsAdmitted`),
from which `ConsoleReachable` and `PublishedIsRouted` follow by the order of the dispatch and the
choice of the longest prefix, outside autocert's own paths. Where a connection ends depends on the agents: one runs at least what it
reported (`RunsReported`), what it runs is right about every row its revision covers (`RunsCurrent`),
and a selected row is as it was, and observed, or has a later revision, or is gone and its
identifier never issued again (`SelectedWasReady`). Whose connection a request gets is a matter of
addresses alone: those let in have one each, only they run forwards, report and serve, and a row is ready only if
its agent was let in. `ImplementsStore` carries the theorems of the store
over.

**ControlMaster.** The properties say nothing of a process between two steps of an
operation. `IInv` adds where it
holds the lock (`LockHeld`, by the steps in `Critical`), where it has no ssh of its own and where the
one it has is known to be dead (`OwnKnown`), and of which ssh processes the bound session and
the socket can be (`HolderLives`, `PathServed`: an ssh that has not connected has
neither, so that the start of one takes over nobody's name). `LiveSocketKept` follows
because a process about to unlink holds the lock, and has no ssh or knows it to be dead: a live ssh
at the path would have an owner, who would hold the lock too, so it has none and is an orphan. That the
file checked (`found`) was dead, or was taken for its own, when it was looked at holds until the
unlink; what is at the path by then need not be that file.

**Reconciler.** The properties speak of the end of a `Reconcile`. `ReconcileInv` says what is known on
the way: routes already visited are settled, and a failed withdrawal is remembered in
`cancelFailed` (`Looked`); the route being forwarded is one of them, wanted, with its
relay up and nothing in place (`AtHand`); at the end all are settled (`Told`). `Remembered`, that a
master of the agent's own forwards nothing `active` does not name but `strays`, is what makes withdrawal
complete.
`ReportAllowed` states the reports that `AgentSync` lets an agent make.

**Stream edge.** For the Manager: a port's worker was started for that port and is not
one being left behind (`Assigned`), whatever is being stopped no longer listens (`Stops`), ports already
visited hold what was listed (`Visited`), and statuses, published and to come, name workers of
their own routes (`Shown`). A status shown is of a worker that its port still holds, or of one that is being left behind
(`ShownIsHeld`, `Leaving`: who is being stopped is the pass's own, or `stopAll`'s). From these, every worker that reconcile or stopAll stops or waits for exists, so that each step of
`StreamManager` is a step of one `StreamWorker` or none (`KeepsToItsWorkers`); `SessionsKnown`, the limits and the
emptiness of stopped workers, is inductive for any such workers. With `TcpImplements` and `UdpImplements` this joins the
two sides of the interface. For a TCP worker: the connection of the accept loop has no
proxy yet (`HandsHeld`); the slots taken are as many as the connections whose goroutine is past taking
and before giving back (`TcpSlots`, a count of finite sets); an end that is open or tracked is of a
goroutine that will close it (`EndsKnown`); and what each step of a stop has achieved (`StopsHold`).
For a UDP worker a session is at each moment in the table, in the hands of exactly one dropSession past
its check, or accounted for (`LivesKnown`, `DropsApart`), whichever goroutines race to drop it; the table
is inverse to `clientOf` (`TableKept`), on which the check of dropSession relies; the loops hold
sessions that were inserted, or one that is nobody else's (`LoopsHold`); once stopped nothing enters the
table, and what is in it is in the snapshot or being dropped from there (`UdpStops`); slots
count sessions, drops and the one in the receive loop's hands (`UdpSlots`). The refinements map
goroutines to the phase of `StreamWorker` and sessions that hold a slot of the route to its
open sessions: its limits follow from the slots, and that `FinishStop` leaves no
session open from `NothingLeaks` and `SessionsLeakNothing`.

**Server.** The index of the old schema is dropped after the rows were rewritten and before the version is
recorded, and nobody asked for plain HTTP while it was there; `IndexMarksOld` says so at every
statement a crash can leave the migration at. For the ports: a server that has returned accepts on nothing
(`ReturnedClosed`), whether `Shutdown` closed its listener or it did so itself on starting late; as an entry goes
only after that, or when the wait is given up, a socket has an entry or is one of `gaveUp`.

**Enrollment.** A host has one claim, drawn with both files empty and kept before it is sent
(`FilesHold`); requests, however old, carry it (`RequestsHeld`); an agent's token is used and its secret
is its own (`AgentsMade`); credentials about to be saved are known to the server (`GrantedKnown`).

**Managed keys.** The mutex lets one registration bind at a time (`Mutex`), so what it has listed is what is
bound when it writes (`ListedNow`) and the file it replaces is part of that (`FileListed`): hence the file
only grows. `LiveWaits` and `MarkedRuns` tie markers and answers to the process that waits for them.

Only model-checked: liveness and whatever rests on `ENABLED`, both out of the prover's reach
(`Converges`, `Recovers`, `StopTerminates`, `UdpStopTerminates`, `WithdrawnDrains`, `Settles`, `ComesUp`, `GrantedRuns`,
`AccessGranted`), and the three violations. The theorems are about the modules; that
instances of the runs reach the cases they are about is what TLC and the mutants show.

## 5. Plan

Next modules, in order: `UdpRelay`, composed with `UdpWorker` across the tunnel; the earlier
migrations, in the manner of `Server`; legacy agents, whose forwards share one loopback address,
in `Gateway`; `ControlMaster` under `Reconciler` with several forwards.

Next proofs, in order: `Reconciler` with the outcomes of `ControlMaster` in place of its external master;
the Manager over the workers themselves instead of over `StreamWorker`; step properties below the
liveness ones (what each fair step brings nearer), as far as they can be stated without `ENABLED`.

## 6. Where code and documents disagree

* `forward_lost` (`reconciler.go:185`): a new route that reuses the remote port and target
  of one just deleted loses its forward to the cancellation of the old one, and is
  reported up.
* `ports_dead` (`ports.go:141`): a web port whose server stopped stays published and is not
  reopened.
* `token_deleted` (`lists.go:47`): the comment above it says that used tokens are simply removed
  from the list and enrolled agents are never affected. A repeated claim is recognised by the
  token's row, so a host that was made an agent but lost the answer is refused at every retry once that
  row is gone. `GrantedRuns` is what holds: every other granted host gets through to running.

The models contain further behaviour that no document clearly excludes. An ssh command that is killed
at its timeout may have been obeyed. A forward put in place by one that failed is not in `active`, is
never cancelled, and goes only with the master or when the same forward is asked for again
(`reconciler.go:176`): it outlives its route, which `WithdrawnIsGone` excepts, and holds up the next route
on its remote port if that has another target, which `Converges` excepts (`Blocked`). A forward whose
cancellation failed after taking effect is taken for one still in place (`reconciler.go:155`), so `up` may be
reported without it; `TunnelUpExists`, refuted by `forward_lost` without any fault, is the property that
would notice.

The API admits an http route on the default port with a prefix below `/.well-known/acme-challenge/` and
calls it published once it is ready, but autocert answers every such request on the primary HTTP
listener (`cmd/server/main.go:350`): the exception in `PublishedIsRouted`. Two agents whose
identifiers give one loopback address cannot both be let in, so the second never gets a route up (nor does the
server write the file again: section 7).

A stream route that moved to another port and has been reported on is shown as published before the
next poll has opened that port (`manager.go:236`); `PublishedIsServed` therefore speaks of the port its
worker is kept for, and `Settles` of the route's. In the same poll, while the worker of the old port is stopped,
the route is shown as published by a worker that no longer listens. A web server that does not return
from `Serve` within five seconds of its stop is forgotten with its socket open (`ports.go:198-202`).

An idle connection of the gateway's transport may be kept for 90 seconds (`gateway.go:269`) and leads
to the target its remote port had when it was dialled: a request for a route that has been given
another target, or another route of the same agent on that port, can still reach the earlier one.
`DialReachesPublished` speaks of dialled connections, `NeverAnotherAgent` of all. The redirect
from plain HTTP is decided per host: it asks neither for the path nor for the port nor
whether a route is ready (`edge.go`). A console whose `TM_PUBLIC_HOST` is changed to the name of a
stored route is not checked against it; `ConsoleReachable` is about routes admitted under one name.

An ssh that outlived its agent is where `ControlMaster` gets by with exceptions. It may unlink the path on
exit and leave it to another such ssh's socket between the check and the `Remove` of an agent
process, which then removes that socket (`Replaced`). It may
create the control socket late, while its successor waits for its own ssh: the successor records
that file as its own (`recordManagedControlSocket`), may later remove it under the live orphan (`Mistaken`), and
may go on with a forward that belongs to another master than it thinks (`Misled`). Or the
orphan's socket, live or stale, is at the path when the successor's own ssh has ended:
`cleanupManagedControlSocket` then refuses to remove the changed socket and every later attempt
comes to the same refusal until the agent is restarted (`Squatted`).

## 7. What is left out, and why

Data that no property tells apart: names, payload bytes, paths beyond their first
segments, header and path rewriting, token hashing, JSON. Authentication and the read-only
endpoints of the API: they change none of the state above. Time: timeouts are choices, ages of heartbeats are
`fresh` or `stale`; bounds in seconds are not stated. The web user interface, the
installers, `sysinfo` and configuration parsing keep no protocol state. Metrics are counters
under one mutex that no decision reads (`Forget` has no caller but its test). The UDP relay's
bridges end when either end closes and share nothing but the set `Close` waits for; `UdpWorker` takes
their end as a failed read or write, `Reconciler` a relay as part of bringing a forward up. Agents
without isolated bindings (legacy keys, one shared loopback address) are outside `Gateway`. Of the
migrations only version 5, which rewrites rows, is modelled; the earlier ones add columns and
tables that are not there. A collision of two
agents' bind addresses leaves the server unable to rewrite `authorized_keys` or to start
(`ManagedKeys` contains it); no document says otherwise, so no property states it.

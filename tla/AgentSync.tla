----------------------------- MODULE AgentSync ------------------------------
(***************************************************************************)
(* The synchronisation loop between the control plane and its agents:      *)
(* store.SyncAgent and store.Heartbeat on the server, agent.Syncer on the  *)
(* agent, and the HTTP exchanges between them.                             *)
(*                                                                         *)
(* SyncAgent makes two reads with no transaction around them, so what an   *)
(* administrator does may fall between them and an agent may be handed a   *)
(* revision with routes newer than it. An agent gives up on an exchange by *)
(* timeout; a report it gave up on may still reach the server later, even  *)
(* after newer ones or from a process that has since been replaced.        *)
(*                                                                         *)
(* What a reconciliation achieves is left open here (Outcomes); module     *)
(* Reconciler models how it comes about. Whatever goes wrong in an         *)
(* exchange or a reconciliation is a fault, and there are MaxFaults.       *)
(***************************************************************************)
EXTENDS RouteStore

CONSTANTS MaxFaults, NoIntent

ASSUME MaxFaultsAssumption == MaxFaults \in Nat
ASSUME ReportedAllAssumption == Reported = {"up", "down", "error", "disabled"}

VARIABLES
  proc,     \* the agent's process and what it remembers
  fetch,    \* the desired state its current exchange is assembling
  reports,  \* reports sent and not yet handled by the server
  faults,   \* faults so far
  seen,     \* history: route -> the intent its stored observation is about
  covered   \* history: routes the latest accepted report of their agent wrote

syncVars == << proc, fetch, reports, faults, seen, covered >>
vars == << agents, routes, issued, proc, fetch, reports, faults, seen, covered >>

(* A desired state names every identifier, NoIntent where it has no route. *)
Intents == [config : Configs, remote_port : RemotePorts, desired_revision : Revision]
DesiredState == [revision : Revision, routes : [RouteIds -> Intents \cup {NoIntent}]]
ASSUME NoIntentAssumption == NoIntent \notin Intents
NoState == [revision |-> 0, routes |-> [i \in RouteIds |-> NoIntent]]

Phase == {"down", "idle", "asking", "reading", "answered", "reporting"}

(* A process: its phase; whether its first SyncOnce succeeded (run exits   *)
(* when it does not); the Syncer's accepted and cached desired state, the  *)
(* cached one always being the last accepted; the Reconciler's             *)
(* observedRevision.                                                       *)
Process == [pc : Phase, started : BOOLEAN, has_accepted : BOOLEAN,
            accepted : DesiredState, has_cached : BOOLEAN, reconciled : Revision]

Booted(pc) == [pc |-> pc, started |-> FALSE, has_accepted |-> FALSE,
               accepted |-> NoState, has_cached |-> FALSE, reconciled |-> 0]

(* A report: live while its sender still waits for the answer. It says     *)
(* "none" of a route it does not mention. Each observation carries, as     *)
(* history, the intent it was made for.                                    *)
Observation == [tunnel_status : Reported \cup {"none"}, intent : Intents \cup {NoIntent}]
Report == [agent : Agents, live : BOOLEAN, revision : Revision,
           observations : [RouteIds -> Observation]]

SyncTypeOK ==
  /\ StoreTypeOK
  /\ proc \in [Agents -> Process]
  /\ fetch \in [Agents -> DesiredState]
  /\ reports \subseteq Report
  /\ faults \in 0 .. MaxFaults
  /\ seen \in [RouteIds -> Intents \cup {NoIntent}]
  /\ covered \subseteq RouteIds

Init ==
  /\ StoreInit
  /\ proc = [a \in Agents |-> Booted("down")]
  /\ fetch = [a \in Agents |-> NoState]
  /\ reports = {}
  /\ faults = 0
  /\ seen = [i \in RouteIds |-> NoIntent]
  /\ covered = {}

Fault == faults < MaxFaults /\ faults' = faults + 1

-----------------------------------------------------------------------------
(* An administrator's request, at any time.                                *)
Admin == Administer /\ UNCHANGED syncVars

Stale(a) == AgeOut(a) /\ Fault /\ UNCHANGED << proc, fetch, reports, seen, covered >>

(* The supervisor starts the agent. *)
Start(a) ==
  /\ proc[a].pc = "down"
  /\ proc' = [proc EXCEPT ![a] = Booted("idle")]
  /\ UNCHANGED << storeVars, fetch, reports, faults, seen, covered >>

Ask(a) ==
  /\ proc[a].pc = "idle"
  /\ proc' = [proc EXCEPT ![a].pc = "asking"]
  /\ UNCHANGED << storeVars, fetch, reports, faults, seen, covered >>

(* Mutant: the revision handed out is the next one. *)
ReadNextRevision(a) ==
  /\ proc[a].pc = "asking"
  /\ proc' = [proc EXCEPT ![a].pc = "reading"]
  /\ fetch' = [fetch EXCEPT ![a] = [NoState EXCEPT !.revision = agents[a].desired_revision + 1]]
  /\ UNCHANGED << storeVars, reports, faults, seen, covered >>

(* Mutant: the revision handed out is the highest of the agent's routes. *)
ReadHighestRevision(a) ==
  LET revisions == {0} \cup {routes[i].desired_revision : i \in RoutesOf(a)} IN
  /\ proc[a].pc = "asking"
  /\ proc' = [proc EXCEPT ![a].pc = "reading"]
  /\ fetch' = [fetch EXCEPT ![a] =
                 [NoState EXCEPT !.revision = CHOOSE r \in revisions : \A s \in revisions : s <= r]]
  /\ UNCHANGED << storeVars, reports, faults, seen, covered >>

(* SyncAgent: first the agent's row, then its routes. *)
ReadRevision(a) ==
  /\ proc[a].pc = "asking"
  /\ proc' = [proc EXCEPT ![a].pc = "reading"]
  /\ fetch' = [fetch EXCEPT ![a] = [NoState EXCEPT !.revision = agents[a].desired_revision]]
  /\ UNCHANGED << storeVars, reports, faults, seen, covered >>

ReadRoutes(a) ==
  /\ proc[a].pc = "reading"
  /\ proc' = [proc EXCEPT ![a].pc = "answered"]
  /\ fetch' = [fetch EXCEPT ![a].routes =
                 [i \in RouteIds |-> IF i \in RoutesOf(a) THEN Intent(routes[i]) ELSE NoIntent]]
  /\ UNCHANGED << storeVars, reports, faults, seen, covered >>

(* After a failed exchange a process goes on to its next tick, unless it   *)
(* is still in its first synchronisation: then it exits.                   *)
GiveUp(p) == IF p.started THEN [p EXCEPT !.pc = "idle"] ELSE Booted("down")

(* The fetch fails. With a cached desired state and an error worth a       *)
(* retry the agent repairs its tunnels from the cache, which is not        *)
(* reported; when the cache is too old, or the error is final, it is gone. *)
FetchFails(a) ==
  /\ proc[a].pc \in {"asking", "reading", "answered"}
  /\ Fault
  /\ \/ /\ proc[a].has_cached
        /\ \E r \in {proc[a].reconciled, proc[a].accepted.revision} :
             proc' = [proc EXCEPT ![a] = GiveUp([@ EXCEPT !.reconciled = r])]
     \/ proc' = [proc EXCEPT ![a] = GiveUp([@ EXCEPT !.has_cached = FALSE])]
  /\ fetch' = [fetch EXCEPT ![a] = NoState]
  /\ UNCHANGED << storeVars, reports, seen, covered >>

-----------------------------------------------------------------------------
(* Mutant: the revision already accepted counts as older. *)
RollbackOrRepeat(a) == proc[a].has_accepted /\ fetch[a].revision <= proc[a].accepted.revision

(* acceptDesired: no rollback, and no change within a revision. *)
Rollback(a) == proc[a].has_accepted /\ fetch[a].revision < proc[a].accepted.revision

ChangedInPlace(a) ==
  /\ proc[a].has_accepted
  /\ fetch[a].revision = proc[a].accepted.revision
  /\ fetch[a] # proc[a].accepted

RefuseDesired(a) ==
  /\ proc[a].pc = "answered"
  /\ Rollback(a) \/ ChangedInPlace(a)
  /\ proc' = [proc EXCEPT ![a] = GiveUp(@)]
  /\ fetch' = [fetch EXCEPT ![a] = NoState]
  /\ UNCHANGED << storeVars, reports, faults, seen, covered >>

(* What reconciling desired state d may report. Every route of d gets a    *)
(* status; routes no longer in d are mentioned only when their forward     *)
(* could not be cancelled. A failed cancellation, or a master in unknown   *)
(* state, keeps the report at the revision reconciled before.              *)
StatusesOf(intent) ==
  IF intent = NoIntent THEN {"none", "error"}
  ELSE IF intent.config.enabled THEN {"up", "down", "error"} ELSE {"disabled", "error"}

Outcomes(d, before) ==
  [revision : {d.revision, before},
   tunnel   : {f \in [RouteIds -> Reported \cup {"none"}] :
                 \A i \in RouteIds : f[i] \in StatusesOf(d.routes[i])}]

(* Only a route that is to be published can fail without a cancellation.   *)
CancelFailed(d, tunnel) ==
  \E i \in RouteIds : "up" \notin StatusesOf(d.routes[i]) /\ tunnel[i] = "error"

Flawless(d, outcome) ==
  /\ outcome.revision = d.revision
  /\ \A i \in RouteIds : outcome.tunnel[i] \in {"up", "disabled", "none"}

ReportOf(a, d, outcome) ==
  [agent        |-> a,
   live         |-> TRUE,
   revision     |-> outcome.revision,
   observations |-> [i \in RouteIds |-> [tunnel_status |-> outcome.tunnel[i],
                                         intent        |-> d.routes[i]]]]

(* The answer is accepted and cached, reconciled, and the result sent.     *)
Reconcile(a, outcome) ==
  /\ proc[a].pc = "answered"
  /\ ~Rollback(a) /\ ~ChangedInPlace(a)
  /\ outcome \in Outcomes(fetch[a], proc[a].reconciled)
  /\ CancelFailed(fetch[a], outcome.tunnel) => outcome.revision = proc[a].reconciled
  /\ IF Flawless(fetch[a], outcome) THEN UNCHANGED faults ELSE Fault
  /\ proc' = [proc EXCEPT ![a].pc = "reporting",
                          ![a].has_accepted = TRUE,
                          ![a].accepted = fetch[a],
                          ![a].has_cached = TRUE,
                          ![a].reconciled = outcome.revision]
  /\ fetch' = [fetch EXCEPT ![a] = NoState]
  /\ reports' = reports \cup {ReportOf(a, fetch[a], outcome)}
  /\ UNCHANGED << storeVars, seen, covered >>

-----------------------------------------------------------------------------
(* Mutant: every observation counts for the revision now desired. *)
StoredAsDesired(m) ==
  [i \in {j \in RouteIds : m.observations[j].tunnel_status # "none"} |->
     [observed_revision |-> agents[m.agent].desired_revision,
      tunnel_status     |-> m.observations[i].tunnel_status]]

(* observedAgent gives every observation the revision of its report. *)
Stored(m) ==
  [i \in {j \in RouteIds : m.observations[j].tunnel_status # "none"} |->
     [observed_revision |-> m.revision,
      tunnel_status     |-> m.observations[i].tunnel_status]]

Accepted(m) == HeartbeatAccepted(m.agent, m.revision, Stored(m))

(* The server handles a report: Heartbeat, or a refusal that changes       *)
(* nothing.                                                                *)
Handle(m) ==
  /\ m \in reports
  /\ reports' = reports \ {m}
  /\ \/ /\ Heartbeat(m.agent, m.revision, Stored(m))
        /\ seen' = [i \in RouteIds |-> IF i \in Observed(m.agent, Stored(m))
                                         THEN m.observations[i].intent
                                         ELSE seen[i]]
        /\ covered' = (covered \ RoutesOf(m.agent)) \cup Observed(m.agent, Stored(m))
     \/ /\ ~Accepted(m)
        /\ UNCHANGED << storeVars, seen, covered >>
  /\ UNCHANGED fetch

(* ... and its sender, when still waiting, learns the result ...           *)
HandleLive(m) ==
  /\ m.live
  /\ Handle(m)
  /\ proc' = [proc EXCEPT ![m.agent] =
                IF Accepted(m) THEN [@ EXCEPT !.pc = "idle", !.started = TRUE] ELSE GiveUp(@)]
  /\ UNCHANGED faults

(* ... or the answer is lost ... *)
HandleAnswerLost(m) ==
  /\ m.live
  /\ Handle(m)
  /\ proc' = [proc EXCEPT ![m.agent] = GiveUp(@)]
  /\ Fault

(* ... or nobody waits for it any more. *)
HandleLate(m) ==
  /\ ~m.live
  /\ Handle(m)
  /\ UNCHANGED << proc, faults >>

Abandon(a) == {IF m.agent = a THEN [m EXCEPT !.live = FALSE] ELSE m : m \in reports}

ReportTimesOut(a) ==
  /\ proc[a].pc = "reporting"
  /\ Fault
  /\ proc' = [proc EXCEPT ![a] = GiveUp(@)]
  /\ reports' = Abandon(a)
  /\ UNCHANGED << storeVars, fetch, seen, covered >>

LoseReport(m) ==
  /\ m \in reports
  /\ ~m.live
  /\ reports' = reports \ {m}
  /\ UNCHANGED << storeVars, proc, fetch, faults, seen, covered >>

Crash(a) ==
  /\ proc[a].pc # "down"
  /\ Fault
  /\ proc' = [proc EXCEPT ![a] = Booted("down")]
  /\ fetch' = [fetch EXCEPT ![a] = NoState]
  /\ reports' = Abandon(a)
  /\ UNCHANGED << storeVars, seen, covered >>

-----------------------------------------------------------------------------
Next ==
  \/ Admin
  \/ \E a \in Agents :
       \/ Stale(a) \/ Start(a) \/ Ask(a) \/ ReadRevision(a) \/ ReadRoutes(a)
       \/ FetchFails(a) \/ RefuseDesired(a) \/ ReportTimesOut(a) \/ Crash(a)
       \/ \E o \in Outcomes(fetch[a], proc[a].reconciled) : Reconcile(a, o)
  \/ \E m \in reports :
       HandleLive(m) \/ HandleAnswerLost(m) \/ HandleLate(m) \/ LoseReport(m)

Spec == Init /\ [][Next]_vars

(* The agent's ticker and the server keep running; administrators and      *)
(* faults are under no obligation.                                         *)
Progress(a) ==
  \/ Start(a) \/ Ask(a) \/ ReadRevision(a) \/ ReadRoutes(a) \/ RefuseDesired(a)
  \/ \E o \in Outcomes(fetch[a], proc[a].reconciled) :
       Flawless(fetch[a], o) /\ Reconcile(a, o)
  \/ \E m \in reports : m.agent = a /\ HandleLive(m)

FairSpec == Spec /\ \A a \in Agents : WF_vars(Progress(a))

-----------------------------------------------------------------------------
(* A route receives public traffic only on an observation its agent made   *)
(* for exactly the configuration, port and revision now stored, whatever   *)
(* was read, reported, delayed or restarted in between (SyncAgent's read   *)
(* order and Heartbeat's desired_revision guard).                          *)
PublicationSound ==
  \A i \in DOMAIN routes : Ready(i) => seen[i] = Intent(routes[i])

(* last_seen_at belongs to the agent and tunnel_status to the route: a     *)
(* route that is ready was written by the very report that last refreshed  *)
(* last_seen_at, never kept alive by reports that no longer speak of it.   *)
ReadyIsReported ==
  \A i \in DOMAIN routes : Ready(i) => i \in covered

(* A process never sees the desired revision go back, so the rollback      *)
(* check of acceptDesired only ever stops a foreign or restored database.  *)
NeverRollback ==
  \A a \in Agents : proc[a].pc = "answered" => ~Rollback(a)

(* The report of a process still waiting, made at the revision it has just *)
(* accepted, is never refused as out of range, whatever late reports of    *)
(* earlier exchanges the server handles first.                             *)
LiveReportAccepted ==
  \A m \in reports :
    m.live /\ m.revision = proc[m.agent].accepted.revision => Accepted(m)

(* Once administrators and faults are through, every enabled route becomes *)
(* and stays ready: refused torn reads, dropped caches, exits of an agent  *)
(* in its first synchronisation and refused reports all heal by retrying.  *)
Converges ==
  <>[](\A i \in DOMAIN routes : routes[i].config.enabled => Ready(i))

(* The store implements the abstract promise, when traffic is taken to     *)
(* reach what the agent reported on.                                       *)
Promise ==
  INSTANCE Publication WITH
    Ids <- RouteIds,
    Wants <- Intents,
    Unpublished <- NoIntent,
    wanted <- [i \in DOMAIN routes |-> Intent(routes[i])],
    live <- [i \in DOMAIN routes |-> IF Ready(i) THEN seen[i] ELSE NoIntent]

PublicationPromise == Promise!Spec
=============================================================================

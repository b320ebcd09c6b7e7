----------------------------- MODULE Reconciler -----------------------------
(***************************************************************************)
(* internal/agent/reconciler.go: how an agent turns a desired state into   *)
(* SSH remote forwards of one OpenSSH ControlMaster, and what it reports.  *)
(*                                                                         *)
(* Reconcile holds the Reconciler's mutex, so nothing of the agent runs    *)
(* beside it; the master, the local services and the process itself may    *)
(* fail between any two of its ssh commands, and every command is a step   *)
(* of its own. OpenSSH is external: forwarding what the master already     *)
(* forwards succeeds, forwarding a port it forwards elsewhere fails, and   *)
(* cancelling what is not forwarded succeeds. A command killed at its      *)
(* timeout is an error whether or not the master had already obeyed        *)
(* (Ambiguous).                                                            *)
(***************************************************************************)
EXTENDS Naturals, FiniteSets

CONSTANTS
  Ids,          \* route identifiers, never reused
  Targets,      \* local endpoints of the routes
  RelayPorts,   \* ephemeral ports of the UDP relays
  RemotePort,   \* identifier -> remote port; a deleted route's port is free
  Settings,     \* what a desired state may say of a route
  Unset,
  ManagedSSH,   \* WithMasterReady: the master is verified before the start
  Ambiguous,    \* the commands that may have taken effect when they fail
  MaxRevision,
  MaxFailures

ASSUME AmbiguousAssumption == Ambiguous \subseteq {"forward", "cancel"}
ASSUME BoundsAssumption == MaxRevision \in Nat /\ MaxFailures \in Nat
ASSUME ManagedSSHAssumption == ManagedSSH \in BOOLEAN
ASSUME SettingsAssumption ==
  Settings \subseteq [enabled : BOOLEAN, valid : BOOLEAN, udp : BOOLEAN, target : Targets]

VARIABLES
  desired,           \* the state being, or last, reconciled
  gone,              \* identifiers of deleted routes
  healthy,           \* targets that accept connections
  master,            \* "absent", "own", or "foreign" after a crash
  remote,            \* the forwards of the master
  strays,            \* those of them that a failing command left behind
  active, relays, masterReady, observedRevision,   \* fields of Reconciler
  pc, todo,          \* the routes Reconcile has yet to look at
  job,               \* the route it is forwarding
  statuses,          \* the tunnel statuses reported so far
  cancelFailed,
  failures

forwards == << remote, strays >>
world == << healthy, master, forwards >>
fields == << active, relays, masterReady, observedRevision >>
frame == << todo, job, statuses, cancelFailed >>
reconcileVars ==
  << desired, gone, healthy, master, remote, strays, active, relays,
     masterReady, observedRevision, pc, todo, job, statuses, cancelFailed, failures >>

Forwards == [port : {RemotePort[i] : i \in Ids}, to : Targets \cup RelayPorts]
Relays == [target : Targets, port : RelayPorts]
ASSUME UnsetAssumption ==
  Unset \notin Ids \cup Settings \cup Targets \cup RelayPorts \cup Forwards \cup Relays

Statuses == {"none", "up", "down", "disabled", "error"}

ReconcileTypeOK ==
  /\ desired \in [revision : 0 .. MaxRevision, routes : [Ids -> Settings \cup {Unset}]]
  /\ gone \subseteq Ids
  /\ healthy \subseteq Targets
  /\ master \in {"absent", "own", "foreign"}
  /\ remote \subseteq Forwards
  /\ strays \subseteq remote
  /\ active \in [Ids -> Forwards \cup {Unset}]
  /\ relays \in [Ids -> Relays \cup {Unset}]
  /\ masterReady \in BOOLEAN
  /\ observedRevision \in 0 .. MaxRevision
  /\ pc \in {"down", "idle", "check", "routes", "forward", "reported"}
  /\ todo \subseteq Ids
  /\ job \in Ids \cup {Unset}
  /\ statuses \in [Ids -> Statuses]
  /\ cancelFailed \in BOOLEAN
  /\ failures \in 0 .. MaxFailures

Nothing == [i \in Ids |-> Unset]
Unreported == [i \in Ids |-> "none"]

ReconcileInit ==
  /\ desired = [revision |-> 0, routes |-> Nothing]
  /\ gone = {}
  /\ healthy = Targets
  /\ master = "absent"
  /\ remote = {}
  /\ strays = {}
  /\ active = Nothing
  /\ relays = Nothing
  /\ masterReady = FALSE
  /\ observedRevision = 0
  /\ pc = "down"
  /\ todo = {}
  /\ job = Unset
  /\ statuses = Unreported
  /\ cancelFailed = FALSE
  /\ failures = 0

Listed == {i \in Ids : desired.routes[i] # Unset}

NoForwards == remote' = {} /\ strays' = {}

(* A step that is a fault when faulty holds. *)
Failure(faulty) ==
  IF faulty THEN failures < MaxFailures /\ failures' = failures + 1 ELSE UNCHANGED failures

-----------------------------------------------------------------------------
(* The world around the agent.                                             *)

TargetFails(t) ==
  /\ t \in healthy
  /\ healthy' = healthy \ {t}
  /\ Failure(TRUE)
  /\ UNCHANGED << desired, gone, master, forwards, fields, pc, frame >>

TargetRecovers(t) ==
  /\ t \notin healthy
  /\ healthy' = healthy \cup {t}
  /\ UNCHANGED << desired, gone, master, forwards, fields, pc, frame, failures >>

MasterDies ==
  /\ master # "absent"
  /\ master' = "absent"
  /\ NoForwards
  /\ Failure(TRUE)
  /\ UNCHANGED << desired, gone, healthy, fields, pc, frame >>

(* The process dies. Its ssh child may survive it. *)
AgentCrashes ==
  /\ pc # "down"
  /\ Failure(TRUE)
  /\ pc' = "down"
  /\ \/ /\ master' = IF master = "absent" THEN "absent" ELSE "foreign"
        /\ UNCHANGED forwards
     \/ /\ master' = "absent"
        /\ NoForwards
  /\ active' = Nothing
  /\ relays' = Nothing
  /\ masterReady' = FALSE
  /\ observedRevision' = 0
  /\ todo' = {}
  /\ job' = Unset
  /\ statuses' = Unreported
  /\ cancelFailed' = FALSE
  /\ UNCHANGED << desired, gone, healthy >>

(* With managed SSH the process first obtains a master of its own. *)
StartAgent ==
  /\ pc = "down"
  /\ pc' = "idle"
  /\ masterReady' = ManagedSSH
  /\ IF ManagedSSH THEN master' = "own" /\ NoForwards ELSE UNCHANGED << master, forwards >>
  /\ UNCHANGED << desired, gone, healthy, active, relays, observedRevision, frame, failures >>

-----------------------------------------------------------------------------
(* The ssh commands, as the outcomes they may have on the forwards.        *)

Result(ok, after, faulty) == [ok |-> ok, remote |-> after, faulty |-> faulty]

(* A command fails because there is no master, or at its timeout. *)
CommandFails(command, obeyed) ==
  IF master # "own" THEN {Result(FALSE, remote, FALSE)}
  ELSE {Result(FALSE, after, TRUE) :
          after \in {remote} \cup (IF command \in Ambiguous THEN {obeyed} ELSE {})}

CancelResults(id) ==
  IF active[id] = Unset THEN {Result(TRUE, remote, FALSE)}
  ELSE CommandFails("cancel", remote \ {active[id]}) \cup
       (IF master = "own" THEN {Result(TRUE, remote \ {active[id]}, FALSE)} ELSE {})

PortTaken(f) == \E g \in remote : g.port = f.port /\ g # f

ForwardResults(f) ==
  IF master = "own" /\ PortTaken(f)
    THEN {Result(FALSE, remote, FALSE)}
    ELSE CommandFails("forward", remote \cup {f}) \cup
         (IF master = "own" THEN {Result(TRUE, remote \cup {f}, FALSE)} ELSE {})

-----------------------------------------------------------------------------
(* Reconcile. *)

(* A desired state: the one reconciled last, or the next one fetched, any  *)
(* number of changes later. Revisions count the states fetched. A deleted  *)
(* route never comes back, and no two routes share a port.                 *)
NextDesired ==
  {desired} \cup
  {d \in [revision : {desired.revision + 1}, routes : [Ids -> Settings \cup {Unset}]] :
     /\ d.revision <= MaxRevision
     /\ \A i \in gone : d.routes[i] = Unset
     /\ \A i, j \in Ids :
          i # j /\ RemotePort[i] = RemotePort[j] => Unset \in {d.routes[i], d.routes[j]}}

Begin(d) ==
  /\ pc \in {"idle", "reported"}
  /\ desired' = d
  /\ gone' = gone \cup {i \in Listed : d.routes[i] = Unset}
  /\ pc' = "check"
  /\ todo' = {i \in Ids : d.routes[i] # Unset}
  /\ statuses' = Unreported
  /\ cancelFailed' = FALSE
  /\ UNCHANGED << world, fields, job, failures >>

(* CheckMaster, and Close when it fails. Nothing is assumed of the         *)
(* forwards of a master that could not be closed: all that is known is     *)
(* reported as an error at the previous revision.                          *)
MasterConfirmed ==
  /\ pc = "check"
  /\ masterReady => master = "own"
  /\ pc' = "routes"
  /\ UNCHANGED << desired, gone, world, fields, frame, failures >>

CheckFails == masterReady /\ Failure(master = "own")

(* Mutant: the closed master still counts as ready. *)
MasterClosed ==
  /\ pc = "check"
  /\ CheckFails
  /\ master' = "absent"
  /\ NoForwards
  /\ active' = Nothing
  /\ pc' = "routes"
  /\ UNCHANGED << desired, gone, healthy, relays, masterReady, observedRevision, frame >>

MasterReplaced ==
  /\ pc = "check"
  /\ CheckFails
  /\ master' = "absent"
  /\ NoForwards
  /\ masterReady' = FALSE
  /\ active' = Nothing
  /\ pc' = "routes"
  /\ UNCHANGED << desired, gone, healthy, relays, observedRevision, frame >>

MasterUnknown ==
  /\ pc = "check"
  /\ masterReady
  /\ Failure(TRUE)
  /\ \/ UNCHANGED << master, forwards >>
     \/ master' = "absent" /\ NoForwards
  /\ statuses' = [i \in Ids |-> IF i \in Listed \/ active[i] # Unset THEN "error" ELSE "none"]
  /\ todo' = {}
  /\ pc' = "reported"
  /\ UNCHANGED << desired, gone, healthy, fields, job, cancelFailed >>

(* Mutant: a forward is forgotten even if it could not be cancelled. *)
CancelledAnyway(id, result) ==
  /\ remote' = result.remote
  /\ strays' = strays \cap remote'
  /\ active' = [active EXCEPT ![id] = Unset]
  /\ cancelFailed' = (cancelFailed \/ ~result.ok)

(* cancel(id): a forward that could not be cancelled is kept as active. *)
Cancelled(id, result) ==
  /\ remote' = result.remote
  /\ strays' = strays \cap remote'
  /\ active' = IF result.ok THEN [active EXCEPT ![id] = Unset] ELSE active
  /\ cancelFailed' = (cancelFailed \/ ~result.ok)

Cancel(id) ==
  \E result \in CancelResults(id) : Cancelled(id, result) /\ Failure(result.faulty)

Elsewhere == << desired, gone, healthy, master, masterReady, observedRevision >>

(* Mutant: the status does not depend on the cancellation. *)
WithdrawRegardless(id, status) ==
  /\ Cancel(id)
  /\ todo' = todo \ {id}
  /\ statuses' = [statuses EXCEPT ![id] = status]
  /\ UNCHANGED << Elsewhere, pc, job >>

(* A route that is not to be forwarded: its status, once it is cancelled.  *)
Withdraw(id, status) ==
  /\ Cancel(id)
  /\ todo' = todo \ {id}
  /\ statuses' = [statuses EXCEPT ![id] = IF active'[id] = Unset THEN status ELSE "error"]
  /\ UNCHANGED << Elsewhere, pc, job >>

Looking(id) == pc = "routes" /\ id \in todo
Setting(id) == desired.routes[id]
Publishable(id) == Setting(id).enabled /\ Setting(id).valid

Disabled(id) ==
  /\ Looking(id)
  /\ ~Setting(id).enabled
  /\ Withdraw(id, "disabled")
  /\ UNCHANGED relays

(* Validate or the port range refuses it. *)
Invalid(id) ==
  /\ Looking(id)
  /\ Setting(id).enabled /\ ~Setting(id).valid
  /\ Withdraw(id, "error")
  /\ UNCHANGED relays

TargetDown(id) ==
  /\ Looking(id)
  /\ Publishable(id) /\ ~Setting(id).udp
  /\ Setting(id).target \notin healthy
  /\ Withdraw(id, "down")
  /\ UNCHANGED relays

(* ensureRelay: the relay of the route's target, on a port of its own. The *)
(* relay of an earlier target is closed first, and its port is free again. *)
HasRelay(id) == relays[id] # Unset /\ relays[id].target = Setting(id).target

FreeRelayPorts(id) ==
  {p \in RelayPorts : \A i \in Ids \ {id} : relays[i] # Unset => relays[i].port # p}

EnsureRelay(id) ==
  IF HasRelay(id) THEN UNCHANGED relays
  ELSE \E p \in FreeRelayPorts(id) :
         relays' = [relays EXCEPT ![id] = [target |-> Setting(id).target, port |-> p]]

RelayFails(id) ==
  /\ Looking(id)
  /\ Publishable(id) /\ Setting(id).udp /\ ~HasRelay(id)
  /\ relays' = [relays EXCEPT ![id] = Unset]
  /\ \E result \in CancelResults(id) : Cancelled(id, result)
  /\ Failure(TRUE)
  /\ todo' = todo \ {id}
  /\ statuses' = [statuses EXCEPT ![id] = "error"]
  /\ UNCHANGED << Elsewhere, pc, job >>

ForwardBy(id, given) ==
  [port |-> RemotePort[id],
   to   |-> IF Setting(id).udp THEN given[id].port ELSE Setting(id).target]

Wanted(id) == ForwardBy(id, relays)

(* The forward is up already, or what it replaces is cancelled first. *)
Publish(id) ==
  /\ Looking(id)
  /\ Publishable(id)
  /\ IF Setting(id).udp THEN EnsureRelay(id)
                         ELSE Setting(id).target \in healthy /\ UNCHANGED relays
  /\ IF active[id] = ForwardBy(id, relays')
       THEN /\ todo' = todo \ {id}
            /\ statuses' = [statuses EXCEPT ![id] = "up"]
            /\ UNCHANGED << Elsewhere, forwards, active, cancelFailed, failures, pc, job >>
       ELSE /\ Cancel(id)
            /\ todo' = todo \ {id}
            /\ IF active'[id] = Unset
                 THEN pc' = "forward" /\ job' = id /\ UNCHANGED statuses
                 ELSE /\ statuses' = [statuses EXCEPT ![id] = "error"]
                      /\ UNCHANGED << pc, job >>
            /\ UNCHANGED Elsewhere

(* EnsureMaster replaces any master but a working one of its own. *)
EnsureMaster ==
  /\ pc = "forward" /\ ~masterReady
  /\ masterReady' = TRUE
  /\ master' = "own"
  /\ IF master = "own" THEN UNCHANGED forwards ELSE NoForwards
  /\ UNCHANGED << desired, gone, healthy, active, relays, observedRevision, pc, frame, failures >>

EnsureMasterFails ==
  /\ pc = "forward" /\ ~masterReady
  /\ Failure(TRUE)
  /\ \/ UNCHANGED << master, forwards >>
     \/ master' \in {"absent", "own"} /\ NoForwards
  /\ statuses' = [statuses EXCEPT ![job] = "error"]
  /\ pc' = "routes"
  /\ job' = Unset
  /\ UNCHANGED << desired, gone, healthy, fields, todo, cancelFailed >>

ForwardPort ==
  /\ pc = "forward" /\ masterReady
  /\ \E result \in ForwardResults(Wanted(job)) :
       /\ remote' = result.remote
       /\ strays' = IF result.ok THEN strays \ {Wanted(job)} ELSE strays \cup (remote' \ remote)
       /\ Failure(result.faulty)
       /\ active' = IF result.ok THEN [active EXCEPT ![job] = Wanted(job)] ELSE active
       /\ statuses' = [statuses EXCEPT ![job] = IF result.ok THEN "up" ELSE "error"]
  /\ pc' = "routes"
  /\ job' = Unset
  /\ UNCHANGED << Elsewhere, relays, todo, cancelFailed >>

(* Forwards of routes no longer listed, after all others. *)
Unlisted(id) == id \notin Listed /\ active[id] # Unset /\ statuses[id] = "none"

RemoveUnlisted(id) ==
  /\ pc = "routes" /\ todo = {}
  /\ Unlisted(id)
  /\ Withdraw(id, "none")
  /\ UNCHANGED relays

(* Mutants: the revision is taken over too early, and once too often. *)
FinishRegardless ==
  /\ pc = "routes" /\ todo = {}
  /\ \A id \in Ids : ~Unlisted(id)
  /\ relays' = [i \in Ids |-> IF i \in Listed THEN relays[i] ELSE Unset]
  /\ observedRevision' = desired.revision
  /\ pc' = "reported"
  /\ UNCHANGED << desired, gone, world, active, masterReady, frame, failures >>

FinishAhead ==
  /\ pc = "routes" /\ todo = {}
  /\ \A id \in Ids : ~Unlisted(id)
  /\ relays' = [i \in Ids |-> IF i \in Listed THEN relays[i] ELSE Unset]
  /\ observedRevision' = desired.revision + 1
  /\ pc' = "reported"
  /\ UNCHANGED << desired, gone, world, active, masterReady, frame, failures >>

Finish ==
  /\ pc = "routes" /\ todo = {}
  /\ \A id \in Ids : ~Unlisted(id)
  /\ relays' = [i \in Ids |-> IF i \in Listed THEN relays[i] ELSE Unset]
  /\ observedRevision' = IF cancelFailed THEN observedRevision ELSE desired.revision
  /\ pc' = "reported"
  /\ UNCHANGED << desired, gone, world, active, masterReady, frame, failures >>

-----------------------------------------------------------------------------
Step ==
  \/ StartAgent
  \/ \E d \in NextDesired : Begin(d)
  \/ MasterConfirmed \/ MasterReplaced \/ MasterUnknown
  \/ \E id \in Ids :
       \/ Disabled(id) \/ Invalid(id) \/ TargetDown(id) \/ RelayFails(id)
       \/ Publish(id) \/ RemoveUnlisted(id)
  \/ EnsureMaster \/ EnsureMasterFails \/ ForwardPort \/ Finish

Environment ==
  \/ \E t \in Targets : TargetFails(t) \/ TargetRecovers(t)
  \/ MasterDies \/ AgentCrashes

ReconcileNext == Step \/ Environment

ReconcileSpec == ReconcileInit /\ [][ReconcileNext]_reconcileVars

(* The agent is restarted and its ticker keeps calling Reconcile; local    *)
(* services come back.                                                     *)
FairReconcileSpec ==
  /\ ReconcileSpec
  /\ WF_reconcileVars(Step)
  /\ \A t \in Targets : WF_reconcileVars(TargetRecovers(t))

-----------------------------------------------------------------------------
(* Whatever fails on the way, the report says of each route what the agent *)
(* holds of it: up only with the forward wanted now, down and disabled     *)
(* only with none (each of Reconcile's early exits cancels first).         *)
ReportMatchesActive ==
  pc = "reported" =>
    \A id \in Ids :
      /\ statuses[id] = "up" => id \in Listed /\ active[id] = Wanted(id)
      /\ statuses[id] \in {"down", "disabled", "none"} => active[id] = Unset

(* When a report claims the desired revision without an error, the master  *)
(* forwards nothing but enabled routes to their present targets: what was  *)
(* disabled, deleted or moved is gone from the server. The exception is a  *)
(* forward that ssh had put in place when its command failed: Reconcile    *)
(* does not record it as active and so never cancels it, and it goes only  *)
(* with the master or when the same forward is asked for again.            *)
WithdrawnIsGone ==
  /\ pc = "reported"
  /\ master = "own"
  /\ observedRevision = desired.revision
  /\ \A id \in Ids : statuses[id] # "error"
  => \A f \in remote \ strays : \E id \in Listed : Publishable(id) /\ f = Wanted(id)

(* A report is one of those AgentSync!Outcomes allows: a status for every  *)
(* listed route, errors alone for others, and never a new revision while a *)
(* route that is not to be published could not be cancelled.               *)
ReportAllowed ==
  [][pc # "reported" /\ pc' = "reported" =>
       /\ \A id \in Ids :
            statuses'[id] \in IF id \notin Listed THEN {"none", "error"}
                             ELSE IF Setting(id).enabled THEN {"up", "down", "error"}
                             ELSE {"disabled", "error"}
       /\ observedRevision' \in {observedRevision, desired.revision}
       /\ (\E id \in Ids : /\ statuses'[id] = "error"
                           /\ id \in Listed => ~Setting(id).enabled)
            => observedRevision' = observedRevision]_reconcileVars

(* health.md of the tunnel status: the ControlMaster is valid and the      *)
(* allocated loopback forward exists.                                      *)
TunnelUpExists ==
  pc = "reported" /\ master = "own" =>
    \A id \in Ids : statuses[id] = "up" => Wanted(id) \in remote

(* Once services and the master stay up and nothing is changed, every      *)
(* report is of the desired revision with every publishable route up. The  *)
(* exception is a route whose port such a stray forwards elsewhere: its    *)
(* own forward is refused for as long as this master lives.                *)
Blocked(id) == \E f \in strays : f.port = RemotePort[id] /\ f # Wanted(id)

AllUp ==
  /\ observedRevision = desired.revision
  /\ \A id \in Listed : Publishable(id) /\ ~Blocked(id) => statuses[id] = "up"

Converges == <>[](pc = "reported" => AllUp) /\ []<>(pc = "reported")
=============================================================================

---------------------------- MODULE ControlMaster ----------------------------
(***************************************************************************)
(* The ssh ControlMaster behind an agent's forwards:                       *)
(* internal/sshctl/openssh.go, as internal/agent/reconciler.go drives it.  *)
(*                                                                         *)
(* An agent process owns at most one ssh it has started, and talks to      *)
(* whichever ssh serves the control socket. An flock keeps other agent     *)
(* processes off the socket; it does not bind the ssh processes, which     *)
(* outlive a killed agent, create the socket when they get there, and on a *)
(* clean exit unlink it by name. Every ssh command, file operation and     *)
(* kill is a step of its own. A socket's file identity is the ssh that     *)
(* created it.                                                             *)
(***************************************************************************)
EXTENDS Naturals, FiniteSets

CONSTANTS
  Procs,      \* agent processes, of one configuration
  Masters,    \* ssh processes that exist or are remembered at once
  None,
  Takeover,   \* WithManagedSessionTakeover: a new session ends the holder's
  MaxFaults   \* bound on crashes, shutdowns, losses and timeouts

ASSUME NoneAssumption == None \notin Procs \cup Masters

VARIABLES
  ssh,      \* ssh process -> its state
  path,     \* whose socket is at the control path, None if there is none
  holder,   \* whose session the server's remote port is bound for
  lock,     \* agent process that holds the flock
  proc,     \* agent process -> what OpenSSHRunner and Reconciler remember
  orphans,  \* ssh processes whose agent process is gone
  faults

vars == << ssh, path, holder, lock, proc, orphans, faults >>

(* The steps of the runner's operations, and of the reconciler around them. *)
Stages ==
  {"down", "idle", "check", "forward", "lock", "own", "probe", "evict", "evicted", "stale",
   "reprobe", "reinspect", "remove", "confirm", "start", "await", "identify", "stop", "grace",
   "record", "cleanup", "unlink"}

Known == Masters \cup {None}

(* What an agent process is at, to what end, and what the runner and the    *)
(* reconciler remember.                                                    *)
Process ==
  [pc : Stages, goal : {"none", "ensure", "close", "exit", "fail"},
   own : Known, identity : Known, found : Known, masterReady : BOOLEAN, active : Known]

(* Type invariant: only processes and sockets that exist are remembered.   *)
TypeOK ==
  /\ ssh \in [Masters -> {"dead", "starting", "serving", "detached", "exiting"}]
  /\ path \in Known /\ holder \in Known
  /\ lock \in Procs \cup {None}
  /\ proc \in [Procs -> Process]
  /\ orphans \subseteq Masters
  /\ faults \in Nat

Down == [pc |-> "down", goal |-> "none", own |-> None, identity |-> None,
         found |-> None, masterReady |-> FALSE, active |-> None]

Init ==
  /\ ssh = [m \in Masters |-> "dead"]
  /\ path = None /\ holder = None /\ lock = None
  /\ proc = [p \in Procs |-> Down]
  /\ orphans = {}
  /\ faults = 0

Fault == faults < MaxFaults /\ faults' = faults + 1

At(p, pc) == proc[p].pc = pc

(* What "ssh -O check" finds at the control path. *)
Running == path # None /\ ssh[path] \in {"serving", "exiting"}
Stale == path # None /\ ssh[path] = "dead"

Dead(m) == ssh[m] = "dead"

(* probeMaster does not ask when the process's own ssh is known dead. *)
OwnDead(p) == proc[p].own # None /\ Dead(proc[p].own)

-----------------------------------------------------------------------------
(* How an operation of the runner goes on, and ends.                       *)

GoTo(p, pc) ==
  /\ proc' = [proc EXCEPT ![p].pc = pc]
  /\ UNCHANGED << ssh, path, holder, lock, orphans >>

(* The process is gone: its lock is free and its ssh nobody's. *)
Gone(p) ==
  /\ proc' = [proc EXCEPT ![p] = Down]
  /\ lock' = IF lock = p THEN None ELSE lock
  /\ orphans' = orphans \cup ({proc[p].own} \ {None})
  /\ UNCHANGED << ssh, path, holder >>

(* Mutant: Close gives the lock back whatever came of it. *)
FailUnlocked(p) ==
  IF proc[p].goal = "exit"
    THEN Gone(p)
    ELSE /\ proc' = [proc EXCEPT ![p].pc = "idle", ![p].goal = "none", ![p].found = None]
         /\ lock' = IF proc[p].goal = "close" THEN None ELSE lock
         /\ UNCHANGED << ssh, path, holder, orphans >>

(* Mutant: the ssh is forgotten whether or not it could be stopped. *)
FailForgetting(p) ==
  IF proc[p].goal = "exit"
    THEN Gone(p)
    ELSE /\ proc' = [proc EXCEPT ![p].pc = "idle", ![p].goal = "none", ![p].found = None,
                                 ![p].own = None, ![p].identity = None]
         /\ UNCHANGED << ssh, path, holder, lock, orphans >>

(* An operation that fails keeps the lock; after the Close at the end of   *)
(* its main function the process exits all the same.                       *)
Fail(p) ==
  IF proc[p].goal = "exit"
    THEN Gone(p)
    ELSE /\ proc' = [proc EXCEPT ![p].pc = "idle", ![p].goal = "none", ![p].found = None]
         /\ UNCHANGED << ssh, path, holder, lock, orphans >>

(* Nothing is left at the control path: EnsureMaster starts its own ssh,   *)
(* Close gives the lock back.                                              *)
Cleared(p) ==
  /\ IF proc[p].goal = "ensure"
       THEN /\ proc' = [proc EXCEPT ![p].pc = "start", ![p].found = None]
            /\ UNCHANGED lock
       ELSE /\ proc' = [proc EXCEPT ![p] =
                          IF @.goal = "exit" THEN Down ELSE [Down EXCEPT !.pc = "idle"]]
            /\ lock' = None
  /\ UNCHANGED << ssh, path, holder, orphans >>

-----------------------------------------------------------------------------
(* The reconciler's use of the runner.                                     *)

Boot(p) ==
  /\ At(p, "down")
  /\ GoTo(p, "idle")
  /\ UNCHANGED faults

Tick(p) ==
  /\ At(p, "idle")
  /\ IF proc[p].masterReady
       THEN GoTo(p, "check")
       ELSE /\ proc' = [proc EXCEPT ![p].pc = "lock", ![p].goal = "ensure"]
            /\ UNCHANGED << ssh, path, holder, lock, orphans >>
  /\ UNCHANGED faults

(* Mutant: a failed check is reported, and the master kept as ready. *)
CheckMasterKept(p) ==
  /\ At(p, "check")
  /\ GoTo(p, IF Running /\ ~OwnDead(p) /\ proc[p].active = None THEN "forward" ELSE "idle")
  /\ UNCHANGED faults

(* CheckMaster; when it fails, what is left of the master is closed. *)
CheckMaster(p) ==
  /\ At(p, "check")
  /\ \/ /\ Running /\ ~OwnDead(p)
        /\ GoTo(p, IF proc[p].active # None THEN "idle" ELSE "forward")
        /\ UNCHANGED faults
     \/ /\ IF Running /\ ~OwnDead(p) THEN Fault ELSE UNCHANGED faults
        /\ proc' = [proc EXCEPT ![p].pc = "lock", ![p].goal = "close"]
        /\ UNCHANGED << ssh, path, holder, lock, orphans >>

(* Forward goes through whichever ssh serves the control path; the server  *)
(* binds the remote port for one session. The runner does not know whose   *)
(* it is; active notes it for the properties.                              *)
Forward(p) ==
  /\ At(p, "forward")
  /\ IF Running /\ holder \in {None, path}
       THEN /\ holder' = path
            /\ proc' = [proc EXCEPT ![p].pc = "idle", ![p].active = path]
            /\ UNCHANGED << ssh, path, lock, orphans >>
       ELSE GoTo(p, "idle")
  /\ UNCHANGED faults

(* The context ends: Close, then the process. *)
Shutdown(p) ==
  /\ At(p, "idle")
  /\ Fault
  /\ proc' = [proc EXCEPT ![p].pc = "lock", ![p].goal = "exit"]
  /\ UNCHANGED << ssh, path, holder, lock, orphans >>

Crash(p) ==
  /\ ~At(p, "down")
  /\ Fault
  /\ Gone(p)

-----------------------------------------------------------------------------
(* EnsureMaster and Close.                                                 *)

Lock(p) ==
  /\ At(p, "lock")
  /\ IF lock \in {None, p}
       THEN /\ lock' = p
            /\ proc' = [proc EXCEPT ![p].pc =
                          CASE proc[p].own = None -> "probe"
                            [] proc[p].goal = "ensure" -> "own"
                            [] OTHER -> "stop"]
            /\ UNCHANGED << ssh, path, holder, orphans >>
       ELSE Fail(p)
  /\ UNCHANGED faults

Ready(p) ==
  /\ proc' = [proc EXCEPT ![p].pc = "forward", ![p].goal = "none", ![p].masterReady = TRUE,
                          ![p].identity = IF @ = None THEN path ELSE @]
  /\ UNCHANGED << ssh, path, holder, lock, orphans >>

(* An ssh kept from a failed attempt serves after all, or is replaced. *)
CheckOwn(p) ==
  /\ At(p, "own")
  /\ IF Running /\ ~OwnDead(p)
       THEN /\ proc' = [proc EXCEPT ![p].pc = "forward", ![p].goal = "none", ![p].masterReady = TRUE]
            /\ UNCHANGED << ssh, path, holder, lock, orphans >>
       ELSE GoTo(p, "stop")
  /\ UNCHANGED faults

(* What is at the control path of a process without an ssh of its own. *)
Probe(p) ==
  /\ At(p, "probe")
  /\ CASE path = None -> Cleared(p)
       [] Stale -> GoTo(p, "stale")
       [] Running -> GoTo(p, "evict")
  /\ UNCHANGED faults

(* -O exit to an ssh of another process, and the wait for its end. *)
Evict(p) ==
  /\ At(p, "evict")
  /\ IF Running
       THEN /\ ssh' = [ssh EXCEPT ![path] = "exiting"]
            /\ proc' = [proc EXCEPT ![p].pc = "evicted"]
            /\ UNCHANGED << path, holder, lock, orphans >>
       ELSE Fail(p)
  /\ UNCHANGED faults

Evicted(p) ==
  /\ At(p, "evicted")
  /\ \/ path = None /\ Cleared(p)
     \/ Stale /\ GoTo(p, "stale")
  /\ UNCHANGED faults

(* removeStaleControlSocket: Lstat, a second probe, a second Lstat, Remove  *)
(* of whatever is at the path by then, and a last probe. Nothing keeps ssh *)
(* processes off the path in between.                                      *)
StaleFound(p) ==
  /\ At(p, "stale")
  /\ IF path = None
       THEN Cleared(p)
       ELSE /\ proc' = [proc EXCEPT ![p].pc = "reprobe", ![p].found = path]
            /\ UNCHANGED << ssh, path, holder, lock, orphans >>
  /\ UNCHANGED faults

StaleReprobed(p) ==
  /\ At(p, "reprobe")
  /\ CASE path = None -> GoTo(p, "confirm")
       [] Stale -> GoTo(p, "reinspect")
       [] Running -> Fail(p)
  /\ UNCHANGED faults

StaleReinspected(p) ==
  /\ At(p, "reinspect")
  /\ CASE path = None -> Cleared(p)
       [] path # None /\ path = proc[p].found -> GoTo(p, "remove")
       [] OTHER -> Fail(p)
  /\ UNCHANGED faults

StaleRemoved(p) ==
  /\ At(p, "remove")
  /\ path' = None
  /\ proc' = [proc EXCEPT ![p].pc = "confirm"]
  /\ UNCHANGED << ssh, holder, lock, orphans, faults >>

(* The last probe, or after an absent probe the last Lstat. *)
StaleConfirmed(p) ==
  /\ At(p, "confirm")
  /\ IF path = None THEN Cleared(p) ELSE Fail(p)
  /\ UNCHANGED faults

(* An ssh whose end nobody has still to notice. *)
Unused(m) ==
  /\ Dead(m)
  /\ m # path
  /\ \A p \in Procs : m \notin {proc[p].own, proc[p].identity, proc[p].found}

StartMaster(p) ==
  /\ At(p, "start")
  /\ \E m \in Masters :
       /\ Unused(m)
       /\ ssh' = [ssh EXCEPT ![m] = "starting"]
       /\ proc' = [proc EXCEPT ![p].pc = "await", ![p].own = m]
       /\ orphans' = orphans \ {m}
  /\ UNCHANGED << path, holder, lock, faults >>

(* The readiness loop: a check that succeeds, whoever answers it ... *)
Await(p) ==
  /\ At(p, "await")
  /\ Running /\ ~OwnDead(p)
  /\ GoTo(p, "identify")
  /\ UNCHANGED faults

Identify(p) ==
  /\ At(p, "identify")
  /\ IF path = None THEN GoTo(p, "await") ELSE Ready(p)
  /\ UNCHANGED faults

(* ... one that fails, but finds a socket to remember ... *)
AwaitRecords(p) ==
  /\ At(p, "await")
  /\ ~Running /\ path # None
  /\ proc[p].identity = None
  /\ proc' = [proc EXCEPT ![p].identity = path]
  /\ UNCHANGED << ssh, path, holder, lock, orphans, faults >>

(* ... the end of the ssh, or of the time for it. *)
AwaitEnds(p) ==
  /\ At(p, "await")
  /\ \/ OwnDead(p) /\ UNCHANGED faults
     \/ ~OwnDead(p) /\ ~Running /\ ssh[proc[p].own] # "starting" /\ UNCHANGED faults
     \/ ~OwnDead(p) /\ (Running \/ ssh[proc[p].own] = "starting") /\ Fault
  /\ proc' = [proc EXCEPT ![p].pc = IF OwnDead(p) THEN "record" ELSE "stop", ![p].goal = "fail"]
  /\ UNCHANGED << ssh, path, holder, lock, orphans >>

(* stopManaged: -O exit, a grace period ... *)
StopMaster(p) ==
  /\ At(p, "stop")
  /\ IF OwnDead(p)
       THEN GoTo(p, "record")
       ELSE /\ ssh' = IF Running THEN [ssh EXCEPT ![path] = "exiting"] ELSE ssh
            /\ proc' = [proc EXCEPT ![p].pc = "grace"]
            /\ UNCHANGED << path, holder, lock, orphans >>
  /\ UNCHANGED faults

(* ... and, unless it ends within it, SIGKILL, which leaves the socket ... *)
Ended(p) ==
  /\ At(p, "grace")
  /\ OwnDead(p)
  /\ GoTo(p, "record")
  /\ UNCHANGED faults

Kill(p) ==
  /\ At(p, "grace")
  /\ ~OwnDead(p)
  /\ IF ssh[proc[p].own] = "exiting" THEN Fault ELSE UNCHANGED faults
  /\ proc' = [proc EXCEPT ![p].pc = "record"]
  /\ ssh' = [ssh EXCEPT ![proc[p].own] = "dead"]
  /\ holder' = IF holder = proc[p].own THEN None ELSE holder
  /\ UNCHANGED << path, lock, orphans >>

(* ... recordManagedControlSocket ... *)
RecordSocket(p) ==
  /\ At(p, "record")
  /\ proc' = [proc EXCEPT ![p].pc = "cleanup", ![p].identity = IF @ = None THEN path ELSE @]
  /\ UNCHANGED << ssh, path, holder, lock, orphans, faults >>

(* The ssh is forgotten, and the operation goes on or ends. *)
Forgotten(p) == [proc EXCEPT ![p].own = None, ![p].identity = None, ![p].found = None]

Cleaned(p) ==
  /\ CASE proc[p].goal = "ensure" ->
            /\ proc' = [Forgotten(p) EXCEPT ![p].pc = "probe"]
            /\ UNCHANGED lock
       [] proc[p].goal = "fail" ->
            /\ proc' = [Forgotten(p) EXCEPT ![p].pc = "idle", ![p].goal = "none"]
            /\ UNCHANGED lock
       [] OTHER ->
            /\ proc' = [proc EXCEPT ![p] =
                 IF @.goal = "exit" THEN Down ELSE [Down EXCEPT !.pc = "idle"]]
            /\ lock' = None
  /\ UNCHANGED << ssh, holder, orphans >>

Inspected(p) ==
  /\ proc' = [proc EXCEPT ![p].pc = "unlink", ![p].found = path]
  /\ UNCHANGED << ssh, path, holder, lock, orphans >>

(* Mutant: whatever is at the control path goes. *)
CleanupAny(p) ==
  /\ At(p, "cleanup")
  /\ IF path = None THEN Cleaned(p) /\ UNCHANGED path ELSE Inspected(p)
  /\ UNCHANGED faults

(* ... and cleanupManagedControlSocket: Lstat, which leaves any other file *)
(* than the one recorded ...                                               *)
Cleanup(p) ==
  /\ At(p, "cleanup")
  /\ CASE path = None -> Cleaned(p) /\ UNCHANGED path
       [] path # None /\ path = proc[p].identity -> Inspected(p)
       [] OTHER -> Fail(p)
  /\ UNCHANGED faults

(* ... and Remove, of whatever is at the path by then. *)
Unlink(p) ==
  /\ At(p, "unlink")
  /\ path' = None
  /\ Cleaned(p)
  /\ UNCHANGED faults

(* A command or its context times out, or the ssh does not start. *)
TimesOut(p) ==
  /\ proc[p].pc \in {"own", "probe", "evict", "evicted", "reprobe", "confirm", "start", "grace"}
  /\ Fault
  /\ IF At(p, "own") THEN GoTo(p, "stop") ELSE Fail(p)

Operate(p) ==
  \/ Tick(p) \/ CheckMaster(p) \/ Forward(p)
  \/ Lock(p) \/ CheckOwn(p) \/ Probe(p) \/ Evict(p) \/ Evicted(p)
  \/ StaleFound(p) \/ StaleReprobed(p) \/ StaleReinspected(p) \/ StaleRemoved(p)
  \/ StaleConfirmed(p)
  \/ StartMaster(p) \/ Await(p) \/ Identify(p) \/ AwaitRecords(p) \/ AwaitEnds(p)
  \/ StopMaster(p) \/ Ended(p) \/ Kill(p) \/ RecordSocket(p)
  \/ Cleanup(p) \/ Unlink(p)

-----------------------------------------------------------------------------
(* The ssh processes and the server's session program.                     *)

Freed(m) == holder' = IF holder = m THEN None ELSE holder

(* Connected, an ssh creates the control socket, or goes on without one if *)
(* there is a file already. Its session then ends the one that holds the   *)
(* agent's port (sshd/session.sh, sshd/reap.sh).                           *)
Connects(m) ==
  /\ ssh[m] = "starting"
  /\ path' = IF path = None THEN m ELSE path
  /\ ssh' = [n \in Masters |->
               CASE n = m -> IF path = None THEN "serving" ELSE "detached"
                 [] n # m /\ Takeover /\ n = holder -> "exiting"
                 [] OTHER -> ssh[n]]
  /\ holder' = IF Takeover THEN None ELSE holder
  /\ UNCHANGED << lock, proc, orphans, faults >>

ConnectFails(m) ==
  /\ ssh[m] = "starting"
  /\ Fault
  /\ ssh' = [ssh EXCEPT ![m] = "dead"]
  /\ UNCHANGED << path, holder, lock, proc, orphans >>

(* A clean exit unlinks the control path by name. *)
Exits(m) ==
  /\ \/ ssh[m] = "exiting" /\ UNCHANGED faults
     \/ ssh[m] = "serving" /\ Fault
  /\ ssh' = [ssh EXCEPT ![m] = "dead"]
  /\ path' = None
  /\ Freed(m)
  /\ UNCHANGED << lock, proc, orphans >>

(* Any other end leaves what is there. *)
Dies(m) ==
  /\ ssh[m] \in {"serving", "detached"}
  /\ Fault
  /\ ssh' = [ssh EXCEPT ![m] = "dead"]
  /\ Freed(m)
  /\ UNCHANGED << path, lock, proc, orphans >>

Next ==
  \/ \E p \in Procs : Boot(p) \/ Operate(p) \/ TimesOut(p) \/ Shutdown(p) \/ Crash(p)
  \/ \E m \in Masters : Connects(m) \/ ConnectFails(m) \/ Exits(m) \/ Dies(m)

Spec == Init /\ [][Next]_vars

(* The supervisor restarts the agent, its ticker and timeouts go on, and   *)
(* an ssh connects or fails and exits when told to.                        *)
FairSpec ==
  /\ Spec
  /\ \A p \in Procs : WF_vars(Boot(p)) /\ WF_vars(Operate(p))
  /\ \A m \in Masters : WF_vars(Connects(m)) /\ WF_vars(Exits(m))

-----------------------------------------------------------------------------
(* An agent process that owns an ssh holds the lock, through every failed  *)
(* start, stop and Close: no other process may evict or start one beside.  *)
OwnedIsLocked ==
  \A p \in Procs : proc[p].own # None \/ proc[p].masterReady => lock = p

(* No ssh is lost sight of: each that lives is its process's own, or its   *)
(* process died before it. So a Close that succeeds leaves none behind.    *)
NoStrayMaster ==
  \A m \in Masters : ~Dead(m) => m \in orphans \/ \E p \in Procs : proc[p].own = m

(* An agent process never unlinks the socket of a live ssh that has an     *)
(* agent process of its own. That of an ssh that outlived another agent    *)
(* process it does unlink in two cases: it took the socket for its own     *)
(* ssh's, or the socket came to the path between its Lstat, which saw      *)
(* another file there, and its Remove.                                     *)
Mistaken(p) == path = proc[p].identity
Replaced(p) == proc[p].found \notin {None, path}

LiveSocketKept ==
  [][\A p \in Procs :
       proc'[p] # proc[p] /\ path # None /\ path' # path =>
         Dead(path) \/ (path \in orphans /\ (Mistaken(p) \/ Replaced(p)))]_vars

(* Once the faults are over an agent has its port forwarded through an ssh *)
(* that serves the control path, except where an ssh that outlived its     *)
(* agent came in between: the process took its socket for its own ssh's    *)
(* (recordManagedControlSocket), or its socket, live or stale, is at the   *)
(* control path, where cleanupManagedControlSocket refuses to remove it.   *)
Served ==
  \E p \in Procs : proc[p].active # None /\ proc[p].own # None /\ Running /\ holder = path

Misled ==
  \E p \in Procs : {proc[p].identity, proc[p].active} \ {None, proc[p].own} # {}

Squatted == path \in orphans

Recovers == <>[](Served \/ Misled \/ Squatted)
=============================================================================

--------------------------- MODULE AgentSshProofs ---------------------------
(***************************************************************************)
(* Proofs about what an agent does with ssh.                               *)
(*                                                                         *)
(* ControlMaster, for any number of agent processes and ssh processes,     *)
(* with and without takeover of sessions: the lock is held for whatever a  *)
(* process owns, no ssh is lost sight of, and no live one's socket is      *)
(* unlinked by mistake.                                                    *)
(*                                                                         *)
(* Reconciler, for any routes and any failures of commands, masters,       *)
(* services and the process: what is reported is what is held, and what is *)
(* not to be forwarded is withdrawn.                                       *)
(***************************************************************************)
EXTENDS ControlMaster, Reconciler, TLAPS

(* Where an operation of the runner holds the lock. *)
Critical ==
  {"own", "probe", "evict", "evicted", "stale", "reprobe", "reinspect", "remove", "confirm",
   "start", "await", "identify", "stop", "grace", "record", "cleanup", "unlink"}

(* Where the process has no ssh of its own, and where the one it has is    *)
(* known to be dead.                                                       *)
Without ==
  {"probe", "evict", "evicted", "stale", "reprobe", "reinspect", "remove", "confirm", "start"}
Buried == {"record", "cleanup", "unlink"}

LockHeld ==
  \A p \in Procs :
    proc[p].own # None \/ proc[p].masterReady \/ proc[p].pc \in Critical => lock = p

OwnKnown ==
  \A p \in Procs :
    /\ proc[p].pc \in Without => proc[p].own = None
    /\ proc[p].pc \in Buried /\ proc[p].own # None => Dead(proc[p].own)

HolderLives == holder # None => ssh[holder] \in {"serving", "detached", "exiting"}

PathServed == path # None => ssh[path] \in {"serving", "exiting", "dead"}

IInv == TypeOK /\ LockHeld /\ OwnKnown /\ HolderLives /\ PathServed /\ NoStrayMaster
-----------------------------------------------------------------------------
(* What the ends of operations do to the invariant: GoTo, Fail and Cleared *)
(* are common to most steps.                                               *)

USE NoneAssumption

(* A process that goes on with another goal is a process still (Shutdown). *)
LEMMA GoalTyped ==
  ASSUME NEW q \in Process, NEW stage \in Stages, NEW goal \in {"none", "ensure", "close", "exit", "fail"}
  PROVE  [q EXCEPT !.pc = stage, !.goal = goal] \in Process
BY Zenon DEF Process

(* So is one that also remembers another socket found (Fail).              *)
LEMMA FoundTyped ==
  ASSUME NEW q \in Process, NEW stage \in Stages,
         NEW goal \in {"none", "ensure", "close", "exit", "fail"}, NEW found \in Known
  PROVE  [q EXCEPT !.pc = stage, !.goal = goal, !.found = found] \in Process
BY Zenon DEF Process

(* And one that takes a socket for its own (RecordSocket).                 *)
LEMMA IdentityTyped ==
  ASSUME NEW q \in Process, NEW stage \in Stages, NEW identity \in Known
  PROVE  [q EXCEPT !.pc = stage, !.identity = identity] \in Process
BY Zenon DEF Process

(* Going on to a step that has what it needs keeps the invariant. *)
LEMMA GoToKeeps ==
  ASSUME IInv, NEW p \in Procs, NEW stage \in Stages, GoTo(p, stage), faults' \in Nat,
         stage \in Critical => lock = p,
         stage \in Without => proc[p].own = None,
         stage \in Buried /\ proc[p].own # None => Dead(proc[p].own)
  PROVE  IInv'
BY SMTT(60) DEF IInv, TypeOK, Process, Known, LockHeld, OwnKnown, HolderLives, PathServed, NoStrayMaster, GoTo, Dead

(* So does whatever else a process remembers, if its ssh stays the same.    *)
LEMMA RememberingKeeps ==
  ASSUME IInv, NEW p \in Procs, NEW r \in Process, faults' \in Nat,
         proc' = [proc EXCEPT ![p] = r], UNCHANGED << ssh, path, holder, lock, orphans >>,
         r.own = proc[p].own,
         r.masterReady \/ r.pc \in Critical => lock = p,
         r.pc \in Without => r.own = None,
         r.pc \in Buried /\ r.own # None => Dead(r.own)
  PROVE  IInv'
<1>1. TypeOK'
  BY DEF IInv, TypeOK, Process
<1>2. LockHeld'
  BY DEF IInv, TypeOK, LockHeld
<1>3. OwnKnown'
  BY DEF IInv, TypeOK, OwnKnown, Dead
<1>4. HolderLives' /\ PathServed' /\ NoStrayMaster'
  BY DEF IInv, TypeOK, HolderLives, PathServed, NoStrayMaster, Dead
<1>5. QED  BY <1>1, <1>2, <1>3, <1>4 DEF IInv

(* A process that ends takes its lock with it; its ssh is an orphan. *)
LEMMA GoneKeeps ==
  ASSUME IInv, NEW p \in Procs, Gone(p), faults' \in Nat
  PROVE  IInv'
BY SMTT(60) DEF IInv, TypeOK, Process, Known, LockHeld, OwnKnown, HolderLives, PathServed, NoStrayMaster, Gone, Down, Dead,
  Stages, Critical, Without, Buried

(* A failed operation forgets nothing. *)
LEMMA FailKeeps ==
  ASSUME IInv, NEW p \in Procs, Fail(p), faults' \in Nat
  PROVE  IInv'
<1>1. CASE Gone(p)
  BY <1>1, GoneKeeps
<1>2. CASE ~Gone(p)
  <2> DEFINE r == [proc[p] EXCEPT !.pc = "idle", !.goal = "none", !.found = None]
  <2>1. /\ proc' = [proc EXCEPT ![p].pc = "idle", ![p].goal = "none", ![p].found = None]
        /\ UNCHANGED << ssh, path, holder, lock, orphans >>
    BY <1>2 DEF Fail
  <2>2. proc \in [Procs -> Process]
    BY DEF IInv, TypeOK
  <2>3. proc' = [proc EXCEPT ![p] = r] /\ r \in Process
    <3>1. proc' = [proc EXCEPT ![p] = r]
      BY <2>1, Zenon
    <3>2. r \in Process
      BY <2>2, FoundTyped DEF Stages, Known
    <3>. QED  BY <3>1, <3>2
  <2>4. r.own = proc[p].own /\ r.masterReady = proc[p].masterReady /\ r.pc = "idle"
    BY <2>2, SMT DEF Process
  <2> HIDE DEF r
  <2>5. proc[p].masterReady => lock = p
    BY DEF IInv, LockHeld
  <2>6. QED  BY <2>1, <2>3, <2>4, <2>5, RememberingKeeps DEF Critical, Without, Buried
<1>3. QED  BY <1>1, <1>2

(* With nothing at the control path and no ssh of its own, or a dead one, a *)
(* process may give the lock back.                                         *)
GivesBack(p) ==
  /\ proc' = [proc EXCEPT ![p] = IF @.goal = "exit" THEN Down ELSE [Down EXCEPT !.pc = "idle"]]
  /\ lock' = None
  /\ UNCHANGED << ssh, holder, orphans >>

(* Giving the lock back so keeps the invariant. *)
LEMMA GivingBackKeeps ==
  ASSUME IInv, NEW p \in Procs, GivesBack(p), faults' \in Nat, path' \in {None, path},
         lock = p, proc[p].own # None => Dead(proc[p].own)
  PROVE  IInv'
<1> USE DEF IInv, TypeOK, Process, Known, Dead
<1> DEFINE idle == IF proc[p].goal = "exit" THEN Down ELSE [Down EXCEPT !.pc = "idle"]
<1>1. /\ proc' = [proc EXCEPT ![p] = idle]
      /\ lock' = None /\ UNCHANGED << ssh, holder, orphans >>
  BY DEF GivesBack
<1>2. /\ idle \in Process
      /\ idle.own = None /\ ~idle.masterReady
      /\ idle.pc \notin Critical /\ idle.pc \notin Without /\ idle.pc \notin Buried
  BY DEF Process, Down, Stages, Critical, Without, Buried
<1> HIDE DEF idle
<1>3. TypeOK'
  BY <1>1, <1>2
<1>4. LockHeld'
  BY <1>1, <1>2 DEF LockHeld
<1>5. OwnKnown' /\ HolderLives' /\ PathServed' /\ NoStrayMaster'
  BY <1>1, <1>2 DEF OwnKnown, HolderLives, PathServed, NoStrayMaster
<1>6. QED  BY <1>3, <1>4, <1>5

(* Or EnsureMaster goes on to start an ssh. *)
LEMMA ClearedKeeps ==
  ASSUME IInv, NEW p \in Procs, Cleared(p), faults' \in Nat, proc[p].pc \in Critical, proc[p].own = None
  PROVE  IInv'
<1>0. lock = p
  BY DEF IInv, LockHeld
<1>1. CASE proc[p].goal = "ensure"
  BY <1>0, <1>1, SMTT(60) DEF IInv, TypeOK, Process, Known, Dead, LockHeld, OwnKnown, HolderLives, PathServed,
    NoStrayMaster, Cleared, Stages, Critical, Without, Buried
<1>2. CASE proc[p].goal # "ensure"
  <2>1. GivesBack(p) /\ path' = path
    BY <1>2 DEF Cleared, GivesBack
  <2>2. QED  BY <1>0, <2>1, GivingBackKeeps
<1>3. QED  BY <1>1, <1>2

-----------------------------------------------------------------------------
(* Steps of the agent processes.                                           *)

LEMMA FaultsCounted ==
  ASSUME TypeOK, Fault \/ UNCHANGED faults
  PROVE  faults' \in Nat
BY DEF TypeOK, Fault

(* The reconciler's own steps, and the ends of a process. *)
LEMMA ReconcilerKeeps ==
  ASSUME IInv, NEW p \in Procs,
         Boot(p) \/ Tick(p) \/ CheckMaster(p) \/ Forward(p) \/ Shutdown(p) \/ Crash(p)
  PROVE  IInv'
<1> USE DEF At
<1>0. faults' \in Nat
  BY FaultsCounted DEF IInv, Boot, Tick, CheckMaster, Forward, Shutdown, Crash
<1>1. CASE Boot(p)
  BY <1>0, <1>1, GoToKeeps DEF Boot, Stages, Critical, Without, Buried
<1>2. CASE Tick(p)
  <2>1. CASE GoTo(p, "check")
    BY <1>0, <2>1, GoToKeeps DEF Stages, Critical, Without, Buried
  <2>2. CASE ~GoTo(p, "check")
    BY <1>0, <1>2, <2>2, SMTT(60) DEF Tick, IInv, TypeOK, Process, Known, Dead, LockHeld, OwnKnown,
      HolderLives, PathServed, NoStrayMaster, Stages, Critical, Without, Buried
  <2>3. QED  BY <2>1, <2>2
<1>3. CASE CheckMaster(p)
  <2>1. CASE \E stage \in {"idle", "forward"} : GoTo(p, stage)
    BY <1>0, <2>1, GoToKeeps DEF Stages, Critical, Without, Buried
  <2>2. CASE ~\E stage \in {"idle", "forward"} : GoTo(p, stage)
    <3> DEFINE r == [proc[p] EXCEPT !.pc = "lock", !.goal = "close"]
    <3>1. /\ proc' = [proc EXCEPT ![p].pc = "lock", ![p].goal = "close"]
          /\ UNCHANGED << ssh, path, holder, lock, orphans >>
      BY <1>3, <2>2, Zenon DEF CheckMaster
    <3>2. proc' = [proc EXCEPT ![p] = r]
      BY <3>1, Zenon
    <3>3. proc[p] \in Process /\ "lock" \in Stages
      BY DEF IInv, TypeOK, Stages
    <3>4. r \in Process
      BY <3>3, GoalTyped, Zenon
    <3>5. r.own = proc[p].own /\ r.masterReady = proc[p].masterReady /\ r.pc = "lock"
      BY <3>3, SMT DEF Process
    <3> HIDE DEF r
    <3>6. proc[p].masterReady => lock = p
      BY DEF IInv, LockHeld
    <3>. QED  BY <1>0, <3>1, <3>2, <3>4, <3>5, <3>6, RememberingKeeps DEF Critical, Without, Buried
  <2>3. QED  BY <2>1, <2>2
<1>4. CASE Forward(p)
  <2>1. CASE GoTo(p, "idle")
    BY <1>0, <2>1, GoToKeeps DEF Stages, Critical, Without, Buried
  <2>2. CASE ~GoTo(p, "idle")
    BY <1>0, <1>4, <2>2, SMTT(60) DEF Forward, Running, IInv, TypeOK, Process, Known, Dead,
      LockHeld, OwnKnown, HolderLives, PathServed, NoStrayMaster, Stages, Critical, Without, Buried
  <2>3. QED  BY <2>1, <2>2
<1>5. CASE Shutdown(p)
  <2> DEFINE r == [proc[p] EXCEPT !.pc = "lock", !.goal = "exit"]
  <2>1. /\ proc' = [proc EXCEPT ![p].pc = "lock", ![p].goal = "exit"]
        /\ UNCHANGED << ssh, path, holder, lock, orphans >>
    BY <1>5 DEF Shutdown
  <2>2. proc \in [Procs -> Process] /\ path \in Known
    BY DEF IInv, TypeOK
  <2>3. proc' = [proc EXCEPT ![p] = r] /\ r \in Process
    <3>1. proc' = [proc EXCEPT ![p] = r]
      BY <2>1, Zenon
    <3>2. r \in Process
      BY <2>2, GoalTyped DEF Stages
    <3>. QED  BY <3>1, <3>2
  <2>4. r.own = proc[p].own /\ r.masterReady = proc[p].masterReady /\ r.pc = "lock"
    BY <2>2, SMT DEF Process
  <2> HIDE DEF r
  <2>5. proc[p].masterReady => lock = p
    BY DEF IInv, LockHeld
  <2>6. QED  BY <1>0, <2>1, <2>3, <2>4, <2>5, RememberingKeeps DEF Critical, Without, Buried
<1>6. CASE Crash(p)
  BY <1>0, <1>6, GoneKeeps DEF Crash
<1>7. QED  BY <1>1, <1>2, <1>3, <1>4, <1>5, <1>6

(* From taking the lock to a control path with nothing at it. *)
LEMMA EvictionKeeps ==
  ASSUME IInv, NEW p \in Procs,
         \/ Lock(p) \/ CheckOwn(p) \/ Probe(p) \/ Evict(p) \/ Evicted(p)
         \/ StaleFound(p) \/ StaleReprobed(p) \/ StaleReinspected(p) \/ StaleRemoved(p)
         \/ StaleConfirmed(p)
  PROVE  IInv'
<1> USE DEF At
<1>0. faults' \in Nat
  BY FaultsCounted DEF IInv, Lock, CheckOwn, Probe, Evict, Evicted, StaleFound, StaleReprobed,
    StaleReinspected, StaleRemoved, StaleConfirmed
<1>a. proc[p].pc \in Critical => lock = p
  BY DEF IInv, LockHeld
<1>b. proc[p].pc \in Without => proc[p].own = None
  BY DEF IInv, OwnKnown
<1>1. CASE Lock(p)
  <2>1. CASE lock \in {None, p}
    BY <1>0, <1>1, <2>1, SMTT(60) DEF Lock, IInv, TypeOK, Process, Known, Dead, LockHeld, OwnKnown,
      HolderLives, PathServed, NoStrayMaster, Stages, Critical, Without, Buried
  <2>2. CASE lock \notin {None, p}
    BY <1>0, <1>1, <2>2, FailKeeps DEF Lock
  <2>3. QED  BY <2>1, <2>2
<1>2. CASE CheckOwn(p)
  <2>1. CASE GoTo(p, "stop")
    BY <1>0, <1>2, <1>a, <2>1, GoToKeeps DEF CheckOwn, Stages, Critical, Without, Buried
  <2>2. CASE ~GoTo(p, "stop")
    BY <1>0, <1>2, <2>2, SMTT(60) DEF CheckOwn, IInv, TypeOK, Process, Known, Dead, LockHeld,
      OwnKnown, HolderLives, PathServed, NoStrayMaster, Stages, Critical, Without, Buried
  <2>3. QED  BY <2>1, <2>2
<1>3. CASE Probe(p)
  <2>1. proc[p].pc \in Critical /\ proc[p].pc \in Without
    BY <1>3 DEF Probe, Stages, Critical, Without, Buried
  <2>2. CASE Cleared(p)
    BY <1>0, <1>b, <2>1, <2>2, ClearedKeeps
  <2>3. CASE \E stage \in {"stale", "evict"} : GoTo(p, stage)
    BY <1>0, <1>a, <1>b, <2>1, <2>3, GoToKeeps DEF Stages, Critical, Without, Buried
  <2>4. CASE path = None
    BY <1>3, <2>2, <2>4 DEF Probe, Stale, Running
  <2>5. CASE path # None /\ Stale
    BY <1>3, <2>3, <2>5, SMT DEF Probe, Stale, Running
  <2>6. CASE path # None /\ ~Stale
    <3>1. Running
      BY <2>6 DEF Running, Stale, IInv, PathServed
    <3>2. QED  BY <1>3, <2>3, <2>6, <3>1, SMT DEF Probe
  <2>7. QED  BY <2>4, <2>5, <2>6
<1>4. CASE Evict(p)
  <2>1. CASE Running
    BY <1>0, <1>4, <2>1, SMTT(60) DEF Evict, Running, IInv, TypeOK, Process, Known, Dead, LockHeld,
      OwnKnown, HolderLives, PathServed, NoStrayMaster, Stages, Critical, Without, Buried
  <2>2. CASE ~Running
    BY <1>0, <1>4, <2>2, FailKeeps DEF Evict
  <2>3. QED  BY <2>1, <2>2
<1>5. CASE Evicted(p)
  <2>1. proc[p].pc \in Critical /\ proc[p].pc \in Without
    BY <1>5 DEF Evicted, Stages, Critical, Without, Buried
  <2>2. CASE Cleared(p)
    BY <1>0, <1>b, <2>1, <2>2, ClearedKeeps
  <2>3. CASE GoTo(p, "stale")
    BY <1>0, <1>a, <1>b, <2>1, <2>3, GoToKeeps DEF Stages, Critical, Without, Buried
  <2>4. QED  BY <1>5, <2>2, <2>3 DEF Evicted
<1>6. CASE StaleFound(p)
  <2>1. CASE path = None
    BY <1>0, <1>6, <1>b, <2>1, ClearedKeeps DEF StaleFound, Stages, Critical, Without, Buried
  <2>2. CASE path # None
    <3> DEFINE r == [proc[p] EXCEPT !.pc = "reprobe", !.found = path]
    <3>1. /\ proc' = [proc EXCEPT ![p].pc = "reprobe", ![p].found = path]
          /\ UNCHANGED << ssh, path, holder, lock, orphans >>
      BY <1>6, <2>2, Zenon DEF StaleFound
    <3>2. proc' = [proc EXCEPT ![p] = r]
      BY <3>1, Zenon
    <3>3. proc[p] \in Process /\ path \in Known /\ "reprobe" \in Stages
      BY DEF IInv, TypeOK, Stages
    <3>4. r \in Process
      BY <3>3, Zenon DEF Process
    <3>5. r.own = proc[p].own /\ r.masterReady = proc[p].masterReady /\ r.pc = "reprobe"
      BY <3>3, SMT DEF Process
    <3>6. lock = p /\ proc[p].own = None
      BY <1>6, <1>a, <1>b DEF StaleFound, Critical, Without
    <3> HIDE DEF r
    <3>. QED  BY <1>0, <3>1, <3>2, <3>4, <3>5, <3>6, RememberingKeeps DEF Buried
  <2>3. QED  BY <2>1, <2>2
<1>7. CASE StaleReprobed(p)
  <2>1. proc[p].pc \in Critical /\ proc[p].pc \in Without
    BY <1>7 DEF StaleReprobed, Critical, Without
  <2>2. path = None \/ Stale \/ Running
    BY DEF Running, Stale, IInv, PathServed
  <2>3. Fail(p) \/ \E stage \in {"confirm", "reinspect"} : GoTo(p, stage)
    BY <1>7, <2>2, ZenonT(30) DEF StaleReprobed, Stale, Running
  <2>4. CASE \E stage \in {"confirm", "reinspect"} : GoTo(p, stage)
    BY <1>0, <1>a, <1>b, <2>1, <2>4, GoToKeeps DEF Stages, Critical, Without, Buried
  <2>5. QED  BY <1>0, <2>3, <2>4, FailKeeps
<1>8. CASE StaleReinspected(p)
  <2>1. proc[p].pc \in Critical /\ proc[p].pc \in Without
    BY <1>8 DEF StaleReinspected, Critical, Without
  <2>2. Cleared(p) \/ GoTo(p, "remove") \/ Fail(p)
    BY <1>8, SMT DEF StaleReinspected
  <2>3. CASE Cleared(p)
    BY <1>0, <1>b, <2>1, <2>3, ClearedKeeps
  <2>4. CASE GoTo(p, "remove")
    BY <1>0, <1>a, <1>b, <2>1, <2>4, GoToKeeps DEF Stages, Critical, Without, Buried
  <2>5. QED  BY <1>0, <2>2, <2>3, <2>4, FailKeeps
<1>9. CASE StaleRemoved(p)
  BY <1>0, <1>9, SMTT(60) DEF StaleRemoved, IInv, TypeOK, Process, Known, Dead, LockHeld,
    OwnKnown, HolderLives, PathServed, NoStrayMaster, Stages, Critical, Without, Buried
<1>10. CASE StaleConfirmed(p)
  <2>1. CASE path = None
    BY <1>0, <1>10, <1>b, <2>1, ClearedKeeps DEF StaleConfirmed, Stages, Critical, Without, Buried
  <2>2. CASE path # None
    BY <1>0, <1>10, <2>2, FailKeeps DEF StaleConfirmed
  <2>3. QED  BY <2>1, <2>2
<1>11. QED  BY <1>1, <1>2, <1>3, <1>4, <1>5, <1>6, <1>7, <1>8, <1>9, <1>10

(* A cleanup that is done: with its ssh dead a process may forget it, and  *)
(* goes on to probe, gives up its start, or gives the lock back.           *)
LEMMA CleanedKeeps ==
  ASSUME IInv, NEW p \in Procs, Cleaned(p), faults' \in Nat, path' \in {None, path},
         lock = p, proc[p].own # None => Dead(proc[p].own)
  PROVE  IInv'
<1>0. UNCHANGED << ssh, holder, orphans >>
  BY DEF Cleaned
<1>1. proc \in [Procs -> Process] /\ proc[p] \in Process
  BY DEF IInv, TypeOK
<1>2. ASSUME NEW r \in Process, r.own = None, r.masterReady = proc[p].masterReady,
             r.pc \in {"probe", "idle"}, lock' = lock, proc' = [proc EXCEPT ![p] = r]
      PROVE  IInv'
  <2>1. TypeOK'
    BY <1>0, <1>1, <1>2 DEF IInv, TypeOK, Known
  <2>2. LockHeld' /\ OwnKnown'
    BY <1>0, <1>1, <1>2 DEF IInv, LockHeld, OwnKnown, Dead, Critical, Without, Buried
  <2>3. HolderLives' /\ PathServed'
    BY <1>0 DEF IInv, HolderLives, PathServed
  <2>4. NoStrayMaster'
    BY <1>0, <1>1, <1>2 DEF IInv, NoStrayMaster, Dead
  <2>. QED  BY <2>1, <2>2, <2>3, <2>4 DEF IInv
<1>3. CASE proc[p].goal = "ensure"
  <2> DEFINE r == [proc[p] EXCEPT !.own = None, !.identity = None, !.found = None, !.pc = "probe"]
  <2>1. /\ proc' = [proc EXCEPT ![p].own = None, ![p].identity = None, ![p].found = None, ![p].pc = "probe"]
        /\ lock' = lock
    BY <1>3 DEF Cleaned, Forgotten
  <2>2. proc' = [proc EXCEPT ![p] = r]
    BY <2>1, Zenon
  <2>3. r \in Process
    BY <1>1, Zenon DEF Process, Stages, Known
  <2>4. r.own = None /\ r.pc = "probe" /\ r.masterReady = proc[p].masterReady
    BY <1>1, SMT DEF Process
  <2> HIDE DEF r
  <2>. QED  BY <1>2, <2>1, <2>2, <2>3, <2>4
<1>4. CASE proc[p].goal = "fail"
  <2> DEFINE r == [proc[p] EXCEPT !.own = None, !.identity = None, !.found = None, !.pc = "idle", !.goal = "none"]
  <2>1. /\ proc' = [proc EXCEPT ![p].own = None, ![p].identity = None, ![p].found = None,
                                ![p].pc = "idle", ![p].goal = "none"]
        /\ lock' = lock
    BY <1>4 DEF Cleaned, Forgotten
  <2>2. proc' = [proc EXCEPT ![p] = r]
    BY <2>1, Zenon
  <2>3. r \in Process
    BY <1>1, Zenon DEF Process, Stages, Known
  <2>4. r.own = None /\ r.pc = "idle" /\ r.masterReady = proc[p].masterReady
    BY <1>1, SMT DEF Process
  <2> HIDE DEF r
  <2>. QED  BY <1>2, <2>1, <2>2, <2>3, <2>4
<1>5. CASE proc[p].goal \notin {"ensure", "fail"}
  <2>1. GivesBack(p)
    BY <1>5 DEF Cleaned, GivesBack
  <2>. QED  BY <2>1, GivingBackKeeps
<1>. QED  BY <1>3, <1>4, <1>5

(* What Lstat saw is only to be looked at again.                           *)
LEMMA InspectedKeeps ==
  ASSUME IInv, NEW p \in Procs, Inspected(p), faults' \in Nat,
         lock = p, proc[p].own # None => Dead(proc[p].own)
  PROVE  IInv'
<1> DEFINE r == [proc[p] EXCEPT !.pc = "unlink", !.found = path]
<1>1. /\ proc' = [proc EXCEPT ![p].pc = "unlink", ![p].found = path]
      /\ UNCHANGED << ssh, path, holder, lock, orphans >>
  BY DEF Inspected
<1>2. proc \in [Procs -> Process] /\ proc[p] \in Process /\ path \in Known /\ "unlink" \in Stages
  BY DEF IInv, TypeOK, Stages
<1>3. proc' = [proc EXCEPT ![p] = r]
  BY <1>1, Zenon
<1>4. r \in Process
  BY <1>2, Zenon DEF Process
<1>5. r.own = proc[p].own /\ r.masterReady = proc[p].masterReady /\ r.pc = "unlink"
  BY <1>2, SMT DEF Process
<1> HIDE DEF r
<1>. QED  BY <1>1, <1>3, <1>4, <1>5, RememberingKeeps DEF Without

(* From starting an ssh to the end of it. *)
LEMMA OwnMasterKeeps ==
  ASSUME IInv, NEW p \in Procs,
         \/ StartMaster(p) \/ Await(p) \/ Identify(p) \/ AwaitRecords(p) \/ AwaitEnds(p)
         \/ StopMaster(p) \/ Ended(p) \/ Kill(p) \/ RecordSocket(p) \/ Cleanup(p)
         \/ Unlink(p) \/ TimesOut(p)
  PROVE  IInv'
<1> USE DEF At
<1>0. faults' \in Nat
  BY FaultsCounted DEF IInv, StartMaster, Await, Identify, AwaitRecords, AwaitEnds, StopMaster, Ended, Kill,
    RecordSocket, Cleanup, Unlink, TimesOut
<1>a. proc[p].pc \in Critical => lock = p
  BY DEF IInv, LockHeld
<1>1. CASE StartMaster(p)
  <2>1. PICK m \in Masters :
          /\ Unused(m)
          /\ ssh' = [ssh EXCEPT ![m] = "starting"]
          /\ proc' = [proc EXCEPT ![p].pc = "await", ![p].own = m]
          /\ orphans' = orphans \ {m}
    BY <1>1 DEF StartMaster
  <2>2. holder # m /\ \A q \in Procs : proc[q].own # m
    BY <2>1 DEF Unused, Dead, IInv, HolderLives, TypeOK, Known
  <2>3. proc[p].pc = "start" /\ lock = p /\ UNCHANGED << path, holder, lock, faults >>
    BY <1>1, <1>a DEF StartMaster, Critical
  <2>4. QED
    BY <1>0, <2>1, <2>2, <2>3, SMTT(60) DEF IInv, TypeOK, Process, Known, Dead, LockHeld, OwnKnown,
      HolderLives, PathServed, NoStrayMaster,
      Stages, Critical, Without, Buried
<1>2. CASE Await(p)
  BY <1>0, <1>2, <1>a, GoToKeeps DEF Await, Stages, Critical, Without, Buried
<1>3. CASE Identify(p)
  <2>1. CASE path = None
    BY <1>0, <1>3, <1>a, <2>1, GoToKeeps DEF Identify, Stages, Critical, Without, Buried
  <2>2. CASE path # None
    BY <1>0, <1>3, <2>2, SMTT(60) DEF Identify, Ready, IInv, TypeOK, Process, Known, Dead, LockHeld,
      OwnKnown, HolderLives, PathServed, NoStrayMaster, Stages, Critical, Without, Buried
  <2>3. QED  BY <2>1, <2>2
<1>4. CASE AwaitRecords(p)
  BY <1>0, <1>4, SMTT(60) DEF AwaitRecords, IInv, TypeOK, Process, Known, Dead, LockHeld, OwnKnown,
    HolderLives, PathServed, NoStrayMaster, Stages, Critical, Without, Buried
<1>5. CASE AwaitEnds(p)
  <2> DEFINE r == [proc[p] EXCEPT !.pc = IF OwnDead(p) THEN "record" ELSE "stop", !.goal = "fail"]
  <2>1. /\ proc' = [proc EXCEPT ![p].pc = IF OwnDead(p) THEN "record" ELSE "stop", ![p].goal = "fail"]
        /\ UNCHANGED << ssh, path, holder, lock, orphans >>
    BY <1>5 DEF AwaitEnds
  <2>2. proc \in [Procs -> Process] /\ path \in Known
    BY DEF IInv, TypeOK
  <2>3. proc' = [proc EXCEPT ![p] = r] /\ r \in Process
    <3>1. proc' = [proc EXCEPT ![p] = r]
      BY <2>1, Zenon
    <3>2. r \in Process
      BY <2>2, GoalTyped DEF Stages
    <3>. QED  BY <3>1, <3>2
  <2>4. r.own = proc[p].own /\ r.masterReady = proc[p].masterReady /\ r.pc = (IF OwnDead(p) THEN "record" ELSE "stop")
    BY <2>2, SMT DEF Process
  <2> HIDE DEF r
  <2>5. lock = p
    BY <1>5, <1>a DEF AwaitEnds, Critical
  <2>6. QED  BY <1>0, <2>1, <2>3, <2>4, <2>5, RememberingKeeps DEF Without, Buried, OwnDead
<1>6. CASE StopMaster(p)
  <2>1. CASE OwnDead(p)
    BY <1>0, <1>6, <1>a, <2>1, GoToKeeps DEF StopMaster, OwnDead, Stages, Critical, Without, Buried
  <2>2. CASE ~OwnDead(p)
    BY <1>0, <1>6, <2>2, SMTT(60) DEF StopMaster, Running, IInv, TypeOK, Process, Known, Dead,
      LockHeld, OwnKnown, HolderLives, PathServed, NoStrayMaster, Stages, Critical, Without, Buried
  <2>3. QED  BY <2>1, <2>2
<1>7. CASE Ended(p)
  BY <1>0, <1>7, <1>a, GoToKeeps DEF Ended, OwnDead, Stages, Critical, Without, Buried
<1>8. CASE Kill(p)
  <2>1. /\ proc' = [proc EXCEPT ![p].pc = "record"]
        /\ ssh' = [ssh EXCEPT ![proc[p].own] = "dead"]
        /\ holder' = IF holder = proc[p].own THEN None ELSE holder
        /\ proc[p].pc = "grace" /\ lock = p
        /\ UNCHANGED << path, lock, orphans >>
    BY <1>8, <1>a DEF Kill, Critical
  <2>2. TypeOK'
    <3>1. proc' \in [Procs -> Process]
      <4>. DEFINE r == [proc[p] EXCEPT !.pc = "record"]
      <4>1. proc' = [proc EXCEPT ![p] = r]
        BY <2>1, Zenon
      <4>2. proc \in [Procs -> Process] /\ proc[p] \in Process
        BY DEF IInv, TypeOK
      <4>3. r \in Process
        BY <4>2, SMT DEF Process, Stages
      <4>. HIDE DEF r
      <4>. QED  BY <4>1, <4>2, <4>3
    <3>2. ssh' \in [Masters -> {"dead", "starting", "serving", "detached", "exiting"}]
      BY <2>1 DEF IInv, TypeOK
    <3>3. QED  BY <1>0, <2>1, <3>1, <3>2 DEF IInv, TypeOK, Known
  <2>3. LockHeld'
    BY <2>1 DEF IInv, TypeOK, LockHeld
  <2>4. OwnKnown'
    <3>1. \A m \in Known : m # None /\ (Dead(m) \/ m = proc[p].own) => ssh'[m] = "dead"
      BY <2>1, SMT DEF IInv, TypeOK, Known, Dead
    <3>2. /\ proc'[p].own = proc[p].own /\ proc'[p].pc = "record" /\ proc[p].own \in Known
          /\ \A q \in Procs \ {p} : proc'[q] = proc[q] /\ proc[q].own \in Known
      BY <2>1, SMT DEF IInv, TypeOK, Process
    <3> SUFFICES ASSUME NEW q \in Procs
                 PROVE  /\ proc'[q].pc \in Without => proc'[q].own = None
                        /\ proc'[q].pc \in Buried /\ proc'[q].own # None => ssh'[proc'[q].own] = "dead"
      BY Zenon DEF OwnKnown, Dead
    <3>3. CASE q = p
      BY <3>1, <3>2, <3>3, SMT DEF Without
    <3>4. CASE q # p
      BY <3>1, <3>2, <3>4, SMT DEF IInv, OwnKnown
    <3>5. QED  BY <3>3, <3>4
  <2>5. HolderLives' /\ PathServed'
    BY <2>1 DEF IInv, TypeOK, HolderLives, PathServed, Known
  <2>6. NoStrayMaster'
    BY <2>1 DEF IInv, TypeOK, NoStrayMaster, Dead
  <2>7. QED  BY <2>2, <2>3, <2>4, <2>5, <2>6 DEF IInv
<1>9. CASE RecordSocket(p)
  <2> DEFINE r == [proc[p] EXCEPT !.pc = "cleanup", !.identity = IF @ = None THEN path ELSE @]
  <2>1. /\ proc' = [proc EXCEPT ![p].pc = "cleanup", ![p].identity = IF @ = None THEN path ELSE @]
        /\ UNCHANGED << ssh, path, holder, lock, orphans >>
    BY <1>9 DEF RecordSocket
  <2>2. proc \in [Procs -> Process] /\ path \in Known
    BY DEF IInv, TypeOK
  <2>3. proc' = [proc EXCEPT ![p] = r] /\ r \in Process
    <3>1. proc' = [proc EXCEPT ![p] = r]
      BY <2>1, Zenon
    <3>2. proc[p] \in Process /\ "cleanup" \in Stages
      BY <2>2 DEF Stages
    <3>3. (IF proc[p].identity = None THEN path ELSE proc[p].identity) \in Known
      BY <2>2, <3>2 DEF Process
    <3>4. r \in Process
      BY <3>2, <3>3, IdentityTyped, Zenon
    <3>. QED  BY <3>1, <3>4
  <2>4. r.own = proc[p].own /\ r.masterReady = proc[p].masterReady /\ r.pc = "cleanup"
    BY <2>2, SMT DEF Process
  <2> HIDE DEF r
  <2>5. lock = p /\ (proc[p].own # None => Dead(proc[p].own))
    BY <1>9, <1>a DEF RecordSocket, Critical, Buried, IInv, OwnKnown
  <2>6. QED  BY <1>0, <2>1, <2>3, <2>4, <2>5, RememberingKeeps DEF Without
<1>10. CASE Cleanup(p) \/ Unlink(p)
  <2>1. lock = p /\ (proc[p].own # None => Dead(proc[p].own))
    BY <1>10, <1>a DEF Cleanup, Unlink, Critical, Buried, IInv, OwnKnown
  <2>2. \/ Cleaned(p) /\ path' \in {None, path}
        \/ Inspected(p) \/ Fail(p)
    BY <1>10, SMT DEF Cleanup, Unlink
  <2>3. QED  BY <1>0, <2>1, <2>2, CleanedKeeps, InspectedKeeps, FailKeeps
<1>11. CASE TimesOut(p)
  <2>1. CASE proc[p].pc = "own"
    BY <1>0, <1>11, <1>a, <2>1, GoToKeeps DEF TimesOut, Stages, Critical, Without, Buried
  <2>2. CASE proc[p].pc # "own"
    BY <1>0, <1>11, <2>2, FailKeeps DEF TimesOut
  <2>3. QED  BY <2>1, <2>2
<1>12. QED  BY <1>1, <1>2, <1>3, <1>4, <1>5, <1>6, <1>7, <1>8, <1>9, <1>10, <1>11

-----------------------------------------------------------------------------
(* An ssh lives and dies by itself; none that is dead comes to life. *)
LEMMA MasterKeeps ==
  ASSUME IInv, NEW m \in Masters,
         Connects(m) \/ ConnectFails(m) \/ Exits(m) \/ Dies(m)
  PROVE  IInv'
<1>0. faults' \in Nat
  BY FaultsCounted DEF IInv, Connects, ConnectFails, Exits, Dies
<1>1. CASE Connects(m)
  BY <1>0, <1>1, SMTT(60) DEF Connects, IInv, TypeOK, Process, Known, Dead, LockHeld, OwnKnown,
    HolderLives, PathServed, NoStrayMaster
<1>2. CASE ConnectFails(m)
  BY <1>0, <1>2, SMTT(60) DEF ConnectFails, Fault, IInv, TypeOK, Process, Known, Dead, LockHeld,
    OwnKnown, HolderLives, PathServed, NoStrayMaster
<1>3. CASE Exits(m)
  BY <1>0, <1>3, SMTT(60) DEF Exits, Freed, IInv, TypeOK, Process, Known, Dead, LockHeld, OwnKnown,
    HolderLives, PathServed, NoStrayMaster
<1>4. CASE Dies(m)
  BY <1>0, <1>4, SMTT(60) DEF Dies, Freed, IInv, TypeOK, Process, Known, Dead, LockHeld, OwnKnown,
    HolderLives, PathServed, NoStrayMaster
<1>5. QED  BY <1>1, <1>2, <1>3, <1>4

(* The inductive invariant: what the properties need to know of the steps  *)
(* between taking the lock and giving it back.                             *)
THEOREM Invariant == Spec => []IInv
<1>1. Init => IInv
  BY SMTT(60) DEF Init, Down, IInv, TypeOK, Process, Known, Dead, LockHeld, OwnKnown, HolderLives,
    PathServed, NoStrayMaster, Stages, Critical, Without, Buried
<1>2. IInv /\ [Next]_vars => IInv'
  <2> SUFFICES ASSUME IInv, [Next]_vars PROVE IInv'
    OBVIOUS
  <2>1. ASSUME NEW p \in Procs, Boot(p) \/ Operate(p) \/ TimesOut(p) \/ Shutdown(p) \/ Crash(p)
        PROVE  IInv'
    BY <2>1, ReconcilerKeeps, EvictionKeeps, OwnMasterKeeps DEF Operate
  <2>2. ASSUME NEW m \in Masters, Connects(m) \/ ConnectFails(m) \/ Exits(m) \/ Dies(m)
        PROVE  IInv'
    BY <2>2, MasterKeeps
  <2>3. CASE UNCHANGED vars
    BY <2>3 DEF vars, IInv, TypeOK, Process, Known, Dead, LockHeld, OwnKnown, HolderLives,
      PathServed, NoStrayMaster
  <2>4. QED  BY <2>1, <2>2, <2>3 DEF Next
<1>3. QED  BY <1>1, <1>2, PTL DEF Spec

(* Every variable keeps its type, on every path through EnsureMaster and   *)
(* Close.                                                                  *)
THEOREM TypeCorrect == Spec => []TypeOK
BY Invariant, PTL DEF IInv

(* acquireControlPathLock and the deferred release in Close: whoever owns  *)
(* an ssh, or believes its master ready, holds the flock.                  *)
THEOREM OwnersHoldTheLock == Spec => []OwnedIsLocked
<1>1. IInv => OwnedIsLocked
  BY DEF IInv, LockHeld, OwnedIsLocked
<1>2. QED  BY <1>1, Invariant, PTL

(* An ssh process is remembered by its agent (managedProcess) until it is  *)
(* dead, or outlives it.                                                   *)
THEOREM NoneIsLost == Spec => []NoStrayMaster
<1>1. IInv => NoStrayMaster
  BY DEF IInv
<1>2. QED  BY <1>1, Invariant, PTL

-----------------------------------------------------------------------------
(* What a process has seen at the path was served once, so it cannot come  *)
(* back there; what it will remove as stale was dead when it was probed.   *)
Holding == {"reprobe", "reinspect", "remove", "unlink"}

Seen(p) ==
  /\ proc[p].found # None => ssh[proc[p].found] # "starting"
  /\ proc[p].pc \in Holding => proc[p].found # None
  /\ proc[p].pc = "unlink" => proc[p].found = proc[p].identity
  /\ proc[p].pc \in {"reinspect", "remove"} /\ path = proc[p].found => Dead(path)

AllSeen == \A p \in Procs : Seen(p)

(* No ssh that was seen starts anew, none that is dead comes to life, and  *)
(* nothing comes to the path but the socket of an ssh that was starting.   *)
NoneReturns ==
  /\ \A p \in Procs :
       LET m == proc[p].found
       IN  m # None /\ ssh[m] # "starting" =>
             ssh'[m] # "starting" /\ (ssh[m] = "dead" => ssh'[m] = "dead")
  /\ path' \in {path, None} \/ ssh[path'] = "starting"

(* What was seen stays so while a process goes on without looking.          *)
LEMMA SeenKept ==
  ASSUME IInv, NEW p \in Procs, Seen(p), NoneReturns,
         proc'[p].found \in {None, proc[p].found},
         proc'[p].pc \in Holding => proc'[p] = proc[p]
  PROVE  Seen(p)'
<1>1. CASE proc'[p].found = None
  BY <1>1 DEF Seen, Holding
<1>2. CASE proc'[p].found = proc[p].found /\ proc[p].found # None
  <2>1. proc[p].found \in Masters /\ ssh[proc[p].found] # "starting"
    BY <1>2 DEF IInv, TypeOK, Process, Known, Seen
  <2>2. ssh'[proc[p].found] # "starting"
        /\ (ssh[proc[p].found] = "dead" => ssh'[proc[p].found] = "dead")
    BY <1>2, <2>1 DEF NoneReturns
  <2>3. path' = proc[p].found => path = proc[p].found
    BY <1>2, <2>1 DEF NoneReturns
  <2>. QED  BY <1>2, <2>1, <2>2, <2>3 DEF Seen, Holding, Dead
<1>. QED  BY <1>1, <1>2

(* A process that goes on without looking at the path.                     *)
Unseeing(p) ==
  /\ \A q \in Procs \ {p} : proc'[q] = proc[q]
  /\ proc'[p].found \in {None, proc[p].found}
  /\ proc'[p].pc \notin Holding

(* The ends of operations are of that kind.                                *)
LEMMA EndsUnseeing ==
  ASSUME IInv, NEW p \in Procs, Fail(p) \/ Cleared(p) \/ Gone(p) \/ Cleaned(p)
  PROVE  Unseeing(p) /\ ssh' = ssh
<1> USE DEF Unseeing, Holding
<1>0. proc \in [Procs -> Process] /\ proc[p] \in Process
  BY DEF IInv, TypeOK
<1>1. CASE Gone(p)
  BY <1>0, <1>1, SMT DEF Gone, Down, Process
<1>2. CASE Fail(p)
  BY <1>0, <1>1, <1>2, SMT DEF Fail, Process
<1>3. CASE Cleared(p)
  BY <1>0, <1>3, SMT DEF Cleared, Down, Process
<1>4. CASE Cleaned(p)
  BY <1>0, <1>4, SMT DEF Cleaned, Forgotten, Down, Process
<1>5. QED  BY <1>1, <1>2, <1>3, <1>4

(* A failure is no reason to remove anything.                              *)
LEMMA FailKeepsPath ==
  ASSUME NEW p \in Procs, Fail(p)
  PROVE  UNCHANGED << ssh, path >>
BY DEF Fail, Gone

(* So is going on to any step but those that hold what was seen.           *)
LEMMA GoToUnseeing ==
  ASSUME IInv, NEW p \in Procs, NEW stage \in Stages \ Holding, GoTo(p, stage)
  PROVE  Unseeing(p) /\ ssh' = ssh /\ path' = path
BY SMT DEF IInv, TypeOK, Process, GoTo, Unseeing

(* The steps that look at the path, or hold what was seen there.           *)
Looks(p) == StaleFound(p) \/ StaleReprobed(p) \/ StaleReinspected(p) \/ Cleanup(p)

(* Every other step of an agent process goes on without, and either leaves *)
(* the ssh processes alone or the path.                                    *)
LEMMA StepsUnseeing ==
  ASSUME IInv, NEW p \in Procs,
         Boot(p) \/ Operate(p) \/ TimesOut(p) \/ Shutdown(p) \/ Crash(p), ~Looks(p)
  PROVE  /\ Unseeing(p)
         /\ \/ ssh' = ssh /\ path' \in {path, None}
            \/ path' = path /\ (Evict(p) \/ StartMaster(p) \/ StopMaster(p) \/ Kill(p))
<1> USE DEF At
<1>0. proc \in [Procs -> Process] /\ proc[p] \in Process
  BY DEF IInv, TypeOK
<1>1. CASE Boot(p) \/ Tick(p) \/ CheckMaster(p) \/ Forward(p) \/ Shutdown(p)
  BY <1>0, <1>1, SMT DEF Boot, Tick, CheckMaster, Forward, Shutdown, GoTo, Process, Unseeing, Holding
<1>2. CASE TimesOut(p) \/ Crash(p)
  <2>1. Fail(p) \/ Gone(p) \/ GoTo(p, "stop")
    BY <1>2 DEF TimesOut, Crash
  <2>2. path' = path
    BY <2>1, FailKeepsPath DEF Gone, GoTo
  <2>. QED  BY <2>1, <2>2, EndsUnseeing, GoToUnseeing DEF Stages, Holding
<1>3. CASE Lock(p)
  <2>1. CASE lock \in {None, p}
    BY <1>0, <1>3, <2>1, SMT DEF Lock, Process, Unseeing, Holding
  <2>2. CASE lock \notin {None, p}
    <3>1. Fail(p)
      BY <1>3, <2>2 DEF Lock
    <3>. QED  BY <3>1, EndsUnseeing, FailKeepsPath
  <2>. QED  BY <2>1, <2>2
<1>4. CASE CheckOwn(p)
  BY <1>0, <1>4, SMT DEF CheckOwn, GoTo, Process, Unseeing, Holding
<1>5. CASE Probe(p)
  <2>1. path = None \/ Stale \/ Running
    BY DEF Running, Stale, IInv, PathServed
  <2>2. Cleared(p) \/ \E stage \in {"stale", "evict"} : GoTo(p, stage)
    BY <1>5, <2>1, ZenonT(30) DEF Probe, Running, Stale
  <2>. QED  BY <2>2, EndsUnseeing, GoToUnseeing, Zenon DEF Stages, Holding, Cleared
<1>6. CASE Evict(p)
  <2>1. CASE Running
    BY <1>0, <1>6, <2>1, SMT DEF Evict, Process, Unseeing, Holding
  <2>2. CASE ~Running
    <3>1. Fail(p)
      BY <1>6, <2>2 DEF Evict
    <3>. QED  BY <3>1, EndsUnseeing, FailKeepsPath
  <2>. QED  BY <2>1, <2>2
<1>7. CASE Evicted(p)
  BY <1>7, EndsUnseeing, GoToUnseeing, Zenon DEF Evicted, Stages, Holding, Cleared
<1>8. CASE StaleRemoved(p)
  BY <1>0, <1>8, SMT DEF StaleRemoved, Process, Unseeing, Holding
<1>9. CASE StaleConfirmed(p)
  <2>1. Fail(p) \/ Cleared(p)
    BY <1>9 DEF StaleConfirmed
  <2>2. path' = path
    BY <2>1, FailKeepsPath DEF Cleared
  <2>. QED  BY <2>1, <2>2, EndsUnseeing
<1>10. CASE StartMaster(p)
  <2>1. PICK m \in Masters : proc' = [proc EXCEPT ![p].pc = "await", ![p].own = m]
    BY <1>10 DEF StartMaster
  <2>2. Unseeing(p)
    BY <1>0, <2>1, SMT DEF Process, Unseeing, Holding
  <2>. QED  BY <1>10, <2>2 DEF StartMaster
<1>11. CASE Await(p) \/ Identify(p) \/ AwaitRecords(p) \/ AwaitEnds(p)
  BY <1>0, <1>11, SMT DEF Await, Identify, AwaitRecords, AwaitEnds, Ready, GoTo, Process, Unseeing, Holding
<1>12. CASE StopMaster(p) \/ Ended(p) \/ Kill(p) \/ RecordSocket(p)
  BY <1>0, <1>12, SMT DEF StopMaster, Ended, Kill, RecordSocket, GoTo, Process, Unseeing, Holding
<1>13. CASE Unlink(p)
  BY <1>13, EndsUnseeing DEF Unlink
<1>. QED  BY <1>1, <1>2, <1>3, <1>4, <1>5, <1>6, <1>7, <1>8, <1>9, <1>10, <1>11, <1>12, <1>13
          DEF Operate, Looks

(* The steps that change an ssh: none that was seen starts anew.           *)
LEMMA NoneReturnsInSteps ==
  ASSUME IInv, NEW p \in Procs, Evict(p) \/ StartMaster(p) \/ StopMaster(p) \/ Kill(p), path' = path
  PROVE  NoneReturns
<1>0. /\ ssh \in [Masters -> {"dead", "starting", "serving", "detached", "exiting"}]
      /\ proc \in [Procs -> Process] /\ \A q \in Procs : proc[q] \in Process
  BY DEF IInv, TypeOK
<1> SUFFICES ASSUME NEW q \in Procs, NEW m, m = proc[q].found, m # None, ssh[m] # "starting"
             PROVE  ssh'[m] # "starting" /\ (ssh[m] = "dead" => ssh'[m] = "dead")
  BY DEF NoneReturns
<1>1. m \in Masters
  BY <1>0 DEF Process, Known
<1>2. CASE ssh' = ssh
  BY <1>2
<1>3. CASE StartMaster(p)
  BY <1>0, <1>1, <1>3 DEF StartMaster, Unused
<1>4. CASE Kill(p)
  BY <1>0, <1>1, <1>4 DEF Kill
<1>5. CASE (Evict(p) \/ StopMaster(p)) /\ ssh' # ssh
  <2>1. Running /\ ssh' = [ssh EXCEPT ![path] = "exiting"]
    BY <1>5, SMT DEF Evict, StopMaster, Fail, Gone, GoTo
  <2>. QED  BY <1>0, <1>1, <2>1 DEF Running
<1>. QED  BY <1>2, <1>3, <1>4, <1>5

(* Nor does one by the steps of the ssh processes.                         *)
LEMMA NoneReturnsInMasters ==
  ASSUME IInv, NEW n \in Masters, Connects(n) \/ ConnectFails(n) \/ Exits(n) \/ Dies(n)
  PROVE  NoneReturns /\ proc' = proc
<1>0. /\ ssh \in [Masters -> {"dead", "starting", "serving", "detached", "exiting"}]
      /\ \A q \in Procs : proc[q] \in Process
  BY DEF IInv, TypeOK
<1>1. path' \in {path, None} \/ ssh[path'] = "starting"
  BY DEF Connects, ConnectFails, Exits, Dies
<1>2. ASSUME NEW q \in Procs, NEW m, m = proc[q].found, m # None, ssh[m] # "starting"
      PROVE  ssh'[m] # "starting" /\ (ssh[m] = "dead" => ssh'[m] = "dead")
  <2>1. m \in Masters
    BY <1>0, <1>2 DEF Process, Known
  <2>2. CASE Connects(n)
    BY <1>0, <1>2, <2>1, <2>2 DEF Connects, IInv, HolderLives
  <2>3. CASE ConnectFails(n) \/ Exits(n) \/ Dies(n)
    BY <1>0, <1>2, <2>1, <2>3 DEF ConnectFails, Exits, Dies
  <2>. QED  BY <2>2, <2>3
<1>3. NoneReturns
  BY <1>1, <1>2 DEF NoneReturns
<1>. QED  BY <1>3 DEF Connects, ConnectFails, Exits, Dies

(* The steps that look at the path change neither it nor an ssh.           *)
LEMMA LooksSeen ==
  ASSUME IInv, AllSeen, NEW p \in Procs, Looks(p)
  PROVE  /\ UNCHANGED << ssh, path >>
         /\ \A q \in Procs \ {p} : proc'[q] = proc[q]
         /\ Seen(p)'
<1> USE DEF At
<1>0. /\ proc \in [Procs -> Process] /\ proc[p] \in Process /\ Seen(p)
      /\ path # None => ssh[path] # "starting"
  BY DEF IInv, TypeOK, PathServed, AllSeen
<1>1. ASSUME Fail(p) \/ Cleared(p) \/ GoTo(p, "confirm") \/ (Cleaned(p) /\ UNCHANGED path)
      PROVE  UNCHANGED << ssh, path >> /\ Unseeing(p) /\ Seen(p)'
  <2>1. Unseeing(p) /\ UNCHANGED << ssh, path >>
    BY <1>1, EndsUnseeing, GoToUnseeing, FailKeepsPath, Zenon DEF Cleared, Stages, Holding
  <2>2. NoneReturns
    BY <2>1 DEF NoneReturns
  <2>. QED  BY <1>0, <2>1, <2>2, SeenKept DEF Unseeing
<1>2. CASE StaleFound(p)
  <2>1. CASE path = None
    BY <1>1, <1>2, <2>1 DEF StaleFound, Unseeing
  <2>2. CASE path # None
    <3>1. /\ proc' = [proc EXCEPT ![p].pc = "reprobe", ![p].found = path]
          /\ UNCHANGED << ssh, path, holder, lock, orphans >>
      BY <1>2, <2>2, Zenon DEF StaleFound
    <3>2. /\ proc'[p].pc = "reprobe" /\ proc'[p].found = path
          /\ \A q \in Procs \ {p} : proc'[q] = proc[q]
      BY <1>0, <3>1, SMT DEF Process
    <3>. QED  BY <1>0, <2>2, <3>1, <3>2 DEF Seen
  <2>. QED  BY <2>1, <2>2
<1>3. CASE StaleReprobed(p)
  <2>1. path = None \/ Stale \/ Running
    BY DEF Running, Stale, IInv, PathServed
  <2>2. Fail(p) \/ GoTo(p, "confirm") \/ (Stale /\ GoTo(p, "reinspect"))
    BY <1>3, <2>1, ZenonT(30) DEF StaleReprobed, Stale, Running
  <2>3. CASE Stale /\ GoTo(p, "reinspect")
    <3>1. /\ proc'[p].pc = "reinspect" /\ proc'[p].found = proc[p].found
          /\ \A q \in Procs \ {p} : proc'[q] = proc[q]
          /\ UNCHANGED << ssh, path >>
      BY <1>0, <2>3, SMT DEF GoTo, Process
    <3>. QED  BY <1>0, <1>3, <2>3, <3>1 DEF StaleReprobed, Seen, Stale, Dead, Holding
  <2>. QED  BY <1>1, <2>2, <2>3 DEF Unseeing
<1>4. CASE StaleReinspected(p)
  <2>1. Cleared(p) \/ GoTo(p, "remove") \/ Fail(p)
    BY <1>4, SMT DEF StaleReinspected
  <2>2. CASE GoTo(p, "remove")
    <3>1. /\ proc'[p].pc = "remove" /\ proc'[p].found = proc[p].found
          /\ \A q \in Procs \ {p} : proc'[q] = proc[q]
          /\ UNCHANGED << ssh, path >>
      BY <1>0, <2>2, SMT DEF GoTo, Process
    <3>. QED  BY <1>0, <1>4, <3>1 DEF StaleReinspected, Seen, Dead, Holding
  <2>. QED  BY <1>1, <2>1, <2>2 DEF Unseeing
<1>5. CASE Cleanup(p)
  <2>1. Fail(p) \/ (Cleaned(p) /\ UNCHANGED path) \/ (path # None /\ path = proc[p].identity /\ Inspected(p))
    BY <1>5, SMT DEF Cleanup
  <2>2. CASE path # None /\ path = proc[p].identity /\ Inspected(p)
    <3>1. /\ proc'[p].pc = "unlink" /\ proc'[p].found = path /\ proc'[p].identity = proc[p].identity
          /\ \A q \in Procs \ {p} : proc'[q] = proc[q]
          /\ UNCHANGED << ssh, path >>
      BY <1>0, <2>2, SMT DEF Inspected, Process
    <3>. QED  BY <1>0, <2>2, <3>1 DEF Seen
  <2>. QED  BY <1>1, <2>1, <2>2 DEF Unseeing
<1>. QED  BY <1>2, <1>3, <1>4, <1>5 DEF Looks

(* What was seen at the path stays known through every step.               *)
LEMMA AllSeenKept ==
  ASSUME IInv, AllSeen, [Next]_vars
  PROVE  AllSeen'
<1>1. ASSUME NEW p \in Procs, Boot(p) \/ Operate(p) \/ TimesOut(p) \/ Shutdown(p) \/ Crash(p)
      PROVE  AllSeen'
  <2>1. CASE Looks(p)
    <3>1. NoneReturns /\ Seen(p)' /\ \A q \in Procs \ {p} : proc'[q] = proc[q]
      BY <2>1, LooksSeen DEF NoneReturns
    <3>2. ASSUME NEW q \in Procs \ {p} PROVE Seen(q)'
      BY <3>1, SeenKept DEF AllSeen
    <3>. QED  BY <3>1, <3>2 DEF AllSeen
  <2>2. CASE ~Looks(p)
    <3>1. Unseeing(p)
      BY <1>1, <2>2, StepsUnseeing
    <3>2. NoneReturns
      <4>1. CASE ssh' = ssh /\ path' \in {path, None}
        BY <4>1 DEF NoneReturns
      <4>2. CASE path' = path /\ (Evict(p) \/ StartMaster(p) \/ StopMaster(p) \/ Kill(p))
        BY <4>2, NoneReturnsInSteps
      <4>. QED  BY <1>1, <2>2, <4>1, <4>2, StepsUnseeing
    <3>3. ASSUME NEW q \in Procs PROVE Seen(q)'
      BY <3>1, <3>2, SeenKept DEF AllSeen, Unseeing
    <3>. QED  BY <3>3 DEF AllSeen
  <2>. QED  BY <2>1, <2>2
<1>2. ASSUME NEW m \in Masters, Connects(m) \/ ConnectFails(m) \/ Exits(m) \/ Dies(m)
      PROVE  AllSeen'
  <2>1. NoneReturns /\ proc' = proc
    BY <1>2, NoneReturnsInMasters
  <2>2. ASSUME NEW q \in Procs PROVE Seen(q)'
    BY <2>1, SeenKept DEF AllSeen
  <2>. QED  BY <2>2 DEF AllSeen
<1>3. CASE UNCHANGED vars
  BY <1>3 DEF vars, AllSeen, Seen, Dead
<1>. QED  BY <1>1, <1>2, <1>3 DEF Next

(* At a process that unlinks, whatever ssh it has is dead, and it holds    *)
(* the lock: a live ssh whose socket is at the path is an orphan.          *)
LEMMA UnlinkSpares ==
  ASSUME IInv, AllSeen, NEW p \in Procs, path # None, Unlink(p) \/ StaleRemoved(p)
  PROVE  Dead(path) \/ (path \in orphans /\ (Mistaken(p) \/ Replaced(p)))
<1>1. proc[p].pc \in {"unlink", "remove"} /\ lock = p
  BY DEF Unlink, StaleRemoved, At, IInv, LockHeld, Critical
<1>2. proc[p].own = None \/ Dead(proc[p].own)
  BY <1>1 DEF IInv, OwnKnown, Buried, Without
<1>3. ASSUME ~Dead(path), NEW q \in Procs, proc[q].own = path PROVE FALSE
  <2>1. lock = q
    BY <1>3 DEF IInv, LockHeld
  <2>. QED  BY <1>1, <1>2, <1>3, <2>1
<1>4. ~Dead(path) => path \in orphans
  BY <1>3 DEF IInv, TypeOK, Known, NoStrayMaster
<1>5. ~Dead(path) => Mistaken(p) \/ Replaced(p)
  BY <1>1 DEF AllSeen, Seen, Holding, Mistaken, Replaced
<1>. QED  BY <1>4, <1>5

(* Only the two removals of a file change what is at the path and what a   *)
(* process remembers.                                                      *)
LEMMA OthersKeepThePath ==
  ASSUME IInv, AllSeen, NEW p \in Procs, proc'[p] # proc[p], path' # path, Next
  PROVE  StaleRemoved(p) \/ Unlink(p)
<1> USE DEF At
<1>1. ASSUME NEW q \in Procs, Boot(q) \/ Operate(q) \/ TimesOut(q) \/ Shutdown(q) \/ Crash(q)
      PROVE  StaleRemoved(p) \/ Unlink(p)
  <2>1. q = p
    BY <1>1, StepsUnseeing, LooksSeen DEF Unseeing
  <2>2. CASE Boot(p) \/ TimesOut(p) \/ Shutdown(p) \/ Crash(p)
    BY <2>2 DEF Boot, TimesOut, Shutdown, Crash, GoTo, Gone, Fail
  <2>3. CASE Looks(p)
    BY <2>3, LooksSeen
  <2>4. CASE Tick(p) \/ CheckMaster(p) \/ Forward(p)
    BY <2>4 DEF Tick, CheckMaster, Forward, GoTo
  <2>5. CASE Lock(p) \/ CheckOwn(p)
    BY <2>5 DEF Lock, CheckOwn, GoTo, Gone, Fail
  <2>6. CASE Probe(p)
    <3>1. path = None \/ Stale \/ Running
      BY DEF Running, Stale, IInv, PathServed
    <3>2. UNCHANGED path
      BY <2>6, <3>1, ZenonT(30) DEF Probe, GoTo, Cleared, Running, Stale
    <3>. QED  BY <3>2
  <2>7. CASE Evict(p) \/ Evicted(p) \/ StaleConfirmed(p)
    BY <2>7 DEF Evict, Evicted, StaleConfirmed, GoTo, Gone, Fail, Cleared
  <2>8. CASE StartMaster(p) \/ Await(p) \/ Identify(p) \/ AwaitRecords(p) \/ AwaitEnds(p)
    BY <2>8 DEF StartMaster, Await, Identify, AwaitRecords, AwaitEnds, GoTo, Ready
  <2>9. CASE StopMaster(p) \/ Ended(p) \/ Kill(p) \/ RecordSocket(p)
    BY <2>9 DEF StopMaster, Ended, Kill, RecordSocket, GoTo
  <2>. QED  BY <1>1, <2>1, <2>2, <2>3, <2>4, <2>5, <2>6, <2>7, <2>8, <2>9 DEF Operate, Looks
<1>2. ASSUME NEW m \in Masters, Connects(m) \/ ConnectFails(m) \/ Exits(m) \/ Dies(m)
      PROVE  FALSE
  BY <1>2 DEF Connects, ConnectFails, Exits, Dies
<1>. QED  BY <1>1, <1>2 DEF Next

(* removeStaleControlSocket and cleanupManagedControlSocket never unlink   *)
(* the socket of a live ssh that has an agent process of its own, and that *)
(* of one that outlived its agent only when it was taken for the process's *)
(* own or came to the path between the Lstat and the Remove.               *)
THEOREM LiveSocketsAreKept == Spec => LiveSocketKept
<1>1. Init => AllSeen
  BY DEF Init, Down, AllSeen, Seen, Holding
<1>2. IInv /\ AllSeen /\ [Next]_vars => AllSeen'
  BY AllSeenKept
<1>3. IInv /\ AllSeen /\ [Next]_vars =>
        [\A p \in Procs :
           proc'[p] # proc[p] /\ path # None /\ path' # path =>
             Dead(path) \/ (path \in orphans /\ (Mistaken(p) \/ Replaced(p)))]_vars
  BY OthersKeepThePath, UnlinkSpares
<1>4. QED  BY <1>1, <1>2, <1>3, Invariant, PTL DEF Spec, LiveSocketKept

-----------------------------------------------------------------------------
(* The Reconciler. *)

(* What is known of a route that Reconcile has looked at, as it reports it. *)
Settled(i) ==
  /\ i \in Listed /\ Setting(i).enabled => statuses[i] \in {"up", "down", "error"}
  /\ i \in Listed /\ ~Setting(i).enabled => statuses[i] \in {"disabled", "error"}
  /\ i \notin Listed => statuses[i] \in {"none", "error"}
  /\ statuses[i] = "up" => Publishable(i) /\ active[i] = Wanted(i)
  /\ statuses[i] \in {"down", "disabled"} => active[i] = Unset

Withdrawn(i) == statuses[i] = "error" /\ (i \in Listed => ~Setting(i).enabled)

(* The routes of the loop: those to come, the one at hand, those done. *)
Looked ==
  /\ pc \in {"check", "routes", "forward"} => todo \subseteq Listed
  /\ pc = "check" => todo = Listed /\ statuses = Unreported
  /\ pc \in {"routes", "forward"} =>
       \A i \in Ids \ (todo \cup {job}) : Settled(i) /\ (Withdrawn(i) => cancelFailed)

AtHand ==
  IF pc = "forward"
    THEN /\ job \in Listed \ todo
         /\ Publishable(job)
         /\ Setting(job).udp => HasRelay(job)
         /\ active[job] = Unset
    ELSE job = Unset

Told ==
  pc = "reported" =>
    \A i \in Ids : Settled(i) /\ (statuses[i] = "none" => active[i] = Unset)

(* But for strays the master forwards nothing the agent does not remember. *)
Remembered ==
  master = "own" => \A f \in remote \ strays : \E i \in Ids : active[i] = f

ReconcileInv == ReconcileTypeOK /\ Looked /\ AtHand /\ Told /\ Remembered

(* A state of desired says of each route nothing, or one of the settings.   *)
LEMMA SettingType ==
  ASSUME ReconcileTypeOK, NEW i \in Listed
  PROVE  /\ i \in Ids
         /\ Setting(i) \in Settings
         /\ Setting(i) \in [enabled : BOOLEAN, valid : BOOLEAN, udp : BOOLEAN, target : Targets]
BY SettingsAssumption DEF ReconcileTypeOK, Listed, Setting

(* A fault is counted within its bound. *)
LEMMA FailureType ==
  ASSUME ReconcileTypeOK, NEW faulty, Failure(faulty)
  PROVE  failures' \in 0 .. MaxFailures
<1>1. failures \in 0 .. MaxFailures /\ MaxFailures \in Nat
  BY BoundsAssumption DEF ReconcileTypeOK
<1>2. CASE faulty
  BY <1>1, <1>2 DEF Failure
<1>3. CASE ~faulty
  BY <1>1, <1>3 DEF Failure
<1>. QED  BY <1>2, <1>3

(* What a cancellation may do to the forwards of one route: nothing else   *)
(* is withdrawn, and what the master keeps of it is remembered.            *)
Cancels(id) ==
  /\ remote' \subseteq remote
  /\ strays' = strays \cap remote'
  /\ active' \in [Ids -> Forwards \cup {Unset}]
  /\ \A j \in Ids : j # id => active'[j] = active[j]
  /\ active'[id] \in {Unset, active[id]}
  /\ \A f \in remote' : f = active[id] => active'[id] = f

(* cancel(id), whatever becomes of the command. *)
LEMMA CancelEffect ==
  ASSUME ReconcileTypeOK, NEW id \in Ids, NEW result \in CancelResults(id), Cancelled(id, result)
  PROVE  /\ Cancels(id)
         /\ cancelFailed' \in BOOLEAN
         /\ cancelFailed => cancelFailed'
         /\ active'[id] # Unset => cancelFailed'
<1>1. /\ active \in [Ids -> Forwards \cup {Unset}] /\ remote \subseteq Forwards
      /\ cancelFailed \in BOOLEAN /\ Unset \notin Forwards
  BY UnsetAssumption DEF ReconcileTypeOK
<1>2. /\ remote' = result.remote
      /\ strays' = strays \cap remote'
      /\ active' = IF result.ok THEN [active EXCEPT ![id] = Unset] ELSE active
      /\ cancelFailed' = (cancelFailed \/ ~result.ok)
  BY DEF Cancelled
<1>3. \/ result = Result(TRUE, remote, FALSE) /\ active[id] = Unset
      \/ result = Result(TRUE, remote \ {active[id]}, FALSE)
      \/ \E after \in SUBSET remote, faulty \in BOOLEAN : result = Result(FALSE, after, faulty)
  <2>1. CASE active[id] = Unset
    BY <2>1 DEF CancelResults
  <2>2. CASE active[id] # Unset /\ result = Result(TRUE, remote \ {active[id]}, FALSE)
    BY <2>2
  <2>3. CASE result \in CommandFails("cancel", remote \ {active[id]})
    <3>1. CASE master # "own"
      BY <2>3, <3>1 DEF CommandFails
    <3>2. CASE master = "own"
      <4>1. PICK after \in {remote} \cup (IF "cancel" \in Ambiguous THEN {remote \ {active[id]}} ELSE {}) :
              result = Result(FALSE, after, TRUE)
        BY <2>3, <3>2 DEF CommandFails
      <4>2. after \in SUBSET remote
        BY <4>1
      <4>. QED  BY <4>1, <4>2
    <3>. QED  BY <3>1, <3>2
  <2>. QED  BY <2>1, <2>2, <2>3 DEF CancelResults
<1>4. CASE result = Result(TRUE, remote, FALSE) /\ active[id] = Unset
  BY <1>1, <1>2, <1>4 DEF Result, Cancels
<1>5. CASE result = Result(TRUE, remote \ {active[id]}, FALSE)
  BY <1>1, <1>2, <1>5 DEF Result, Cancels
<1>6. ASSUME NEW after \in SUBSET remote, NEW faulty \in BOOLEAN,
             result = Result(FALSE, after, faulty)
      PROVE  /\ Cancels(id)
             /\ cancelFailed' \in BOOLEAN
             /\ cancelFailed => cancelFailed'
             /\ active'[id] # Unset => cancelFailed'
  BY <1>1, <1>2, <1>6 DEF Result, Cancels
<1>. QED  BY <1>3, <1>4, <1>5, <1>6

(* A route is settled by what concerns it alone. *)
LEMMA SettledKept ==
  ASSUME NEW j \in Ids, Settled(j), UNCHANGED desired, statuses'[j] = statuses[j],
         active'[j] = active[j], relays'[j] = relays[j]
  PROVE  Settled(j)' /\ (Withdrawn(j)' => Withdrawn(j))
BY DEF Settled, Withdrawn, Listed, Setting, Publishable, Wanted, ForwardBy

(* A cancellation leaves nothing in place that is not remembered. *)
LEMMA RememberedKept ==
  ASSUME Remembered, NEW id \in Ids, Cancels(id), UNCHANGED master
  PROVE  Remembered'
<1>1. ASSUME master = "own", NEW f \in remote' \ strays'
      PROVE  \E i \in Ids : active'[i] = f
  <2>1. PICK i \in Ids : active[i] = f
    BY <1>1 DEF Remembered, Cancels
  <2>2. active'[i] = f
    BY <1>1, <2>1 DEF Cancels
  <2>. QED  BY <2>2
<1>. QED  BY <1>1 DEF Remembered

(* A route has been looked at, and its forward cancelled or left in place. *)
LEMMA LookKeeps ==
  ASSUME ReconcileInv, NEW id \in Ids, pc = "routes", Cancels(id), UNCHANGED << Elsewhere, pc, job >>,
         todo' = todo \ {id},
         cancelFailed' \in BOOLEAN, cancelFailed => cancelFailed',
         failures' \in 0 .. MaxFailures,
         statuses' \in [Ids -> Statuses], \A j \in Ids : j # id => statuses'[j] = statuses[j],
         relays' \in [Ids -> Relays \cup {Unset}], \A j \in Ids : j # id => relays'[j] = relays[j],
         Settled(id)', Withdrawn(id)' => cancelFailed'
  PROVE  ReconcileInv'
<1>1. ReconcileTypeOK'
  BY DEF ReconcileInv, ReconcileTypeOK, Cancels, Elsewhere
<1>2. job = Unset /\ Unset \notin Ids
  BY UnsetAssumption DEF ReconcileInv, AtHand
<1>3. ASSUME NEW j \in Ids, j \notin todo', j # job
      PROVE  Settled(j)' /\ (Withdrawn(j)' => cancelFailed')
  <2>1. CASE j = id
    BY <2>1
  <2>2. CASE j # id
    <3>1. Settled(j) /\ (Withdrawn(j) => cancelFailed)
      BY <1>3, <2>2 DEF ReconcileInv, Looked
    <3>2. Settled(j)' /\ (Withdrawn(j)' => Withdrawn(j))
      BY <2>2, <3>1, SettledKept DEF Cancels, Elsewhere
    <3>. QED  BY <3>1, <3>2
  <2>. QED  BY <2>1, <2>2
<1>4. Looked'
  BY <1>3 DEF ReconcileInv, Looked, Elsewhere, Listed
<1>5. AtHand' /\ Told'
  BY <1>2 DEF AtHand, Told
<1>6. Remembered'
  BY RememberedKept DEF ReconcileInv, Elsewhere
<1>. QED  BY <1>1, <1>4, <1>5, <1>6 DEF ReconcileInv

(* Withdraw: a route that is not to be forwarded, whatever becomes of the  *)
(* cancellation.                                                           *)
LEMMA WithdrawKeeps ==
  ASSUME ReconcileInv, NEW id \in Ids, NEW status, pc = "routes",
         Withdraw(id, status), UNCHANGED relays,
         \/ id \in Listed /\ Setting(id).enabled /\ status \in {"down", "error"}
         \/ id \in Listed /\ ~Setting(id).enabled /\ status = "disabled"
         \/ id \notin Listed /\ status = "none"
  PROVE  ReconcileInv'
<1>1. ReconcileTypeOK
  BY DEF ReconcileInv
<1>2. PICK result \in CancelResults(id) : Cancelled(id, result) /\ Failure(result.faulty)
  BY DEF Withdraw, Cancel
<1>3. /\ Cancels(id)
      /\ cancelFailed' \in BOOLEAN
      /\ cancelFailed => cancelFailed'
      /\ active'[id] # Unset => cancelFailed'
      /\ failures' \in 0 .. MaxFailures
  BY <1>1, <1>2, CancelEffect, FailureType
<1>. DEFINE told == IF active'[id] = Unset THEN status ELSE "error"
<1>4. /\ statuses' = [statuses EXCEPT ![id] = told]
      /\ todo' = todo \ {id}
      /\ UNCHANGED << Elsewhere, pc, job >>
      /\ statuses \in [Ids -> Statuses]
      /\ relays \in [Ids -> Relays \cup {Unset}]
  BY <1>1 DEF Withdraw, ReconcileTypeOK
<1>5. told \in Statuses
  BY DEF Statuses
<1>6. /\ statuses' \in [Ids -> Statuses] /\ statuses'[id] = told
      /\ \A j \in Ids : j # id => statuses'[j] = statuses[j]
  BY <1>4, <1>5
<1>7. /\ (id \in Listed)' <=> id \in Listed
      /\ Setting(id)' = Setting(id)
  BY <1>4 DEF Listed, Setting, Elsewhere
<1>8. Settled(id)' /\ (Withdrawn(id)' => cancelFailed')
  BY <1>3, <1>6, <1>7 DEF Settled, Withdrawn
<1>. HIDE DEF told
<1>. QED  BY <1>3, <1>4, <1>6, <1>8, LookKeeps

(* The routes that are not to be forwarded. *)
LEMMA WithdrawingKeeps ==
  ASSUME ReconcileInv, NEW id \in Ids,
         Disabled(id) \/ Invalid(id) \/ TargetDown(id) \/ RemoveUnlisted(id)
  PROVE  ReconcileInv'
<1>1. pc = "routes" /\ (id \in todo => id \in Listed) /\ UNCHANGED relays
  BY DEF ReconcileInv, Looked, Disabled, Invalid, TargetDown, RemoveUnlisted, Looking
<1>2. CASE Disabled(id)
  BY <1>1, <1>2, WithdrawKeeps DEF Disabled, Looking
<1>3. CASE Invalid(id)
  BY <1>1, <1>3, WithdrawKeeps DEF Invalid, Looking
<1>4. CASE TargetDown(id)
  BY <1>1, <1>4, WithdrawKeeps DEF TargetDown, Looking, Publishable
<1>5. CASE RemoveUnlisted(id)
  BY <1>1, <1>5, WithdrawKeeps DEF RemoveUnlisted, Unlisted
<1>. QED  BY <1>2, <1>3, <1>4, <1>5

(* A relay that cannot be started. *)
LEMMA RelayFailsKeeps ==
  ASSUME ReconcileInv, NEW id \in Ids, RelayFails(id)
  PROVE  ReconcileInv'
<1>1. /\ ReconcileTypeOK /\ pc = "routes" /\ id \in Listed /\ Setting(id).enabled
  BY DEF ReconcileInv, Looked, RelayFails, Looking, Publishable
<1>2. PICK result \in CancelResults(id) : Cancelled(id, result)
  BY DEF RelayFails
<1>3. /\ Cancels(id)
      /\ cancelFailed' \in BOOLEAN
      /\ cancelFailed => cancelFailed'
      /\ failures' \in 0 .. MaxFailures
  BY <1>1, <1>2, CancelEffect, FailureType DEF RelayFails
<1>4. /\ statuses' = [statuses EXCEPT ![id] = "error"]
      /\ relays' = [relays EXCEPT ![id] = Unset]
      /\ todo' = todo \ {id}
      /\ UNCHANGED << Elsewhere, pc, job >>
      /\ statuses \in [Ids -> Statuses]
      /\ relays \in [Ids -> Relays \cup {Unset}]
  BY <1>1 DEF RelayFails, ReconcileTypeOK
<1>5. /\ statuses' \in [Ids -> Statuses] /\ statuses'[id] = "error"
      /\ \A j \in Ids : j # id => statuses'[j] = statuses[j]
      /\ relays' \in [Ids -> Relays \cup {Unset}]
      /\ \A j \in Ids : j # id => relays'[j] = relays[j]
  BY <1>4 DEF Statuses
<1>6. Settled(id)' /\ (Withdrawn(id)' => cancelFailed')
  BY <1>1, <1>4, <1>5 DEF Settled, Withdrawn, Listed, Setting, Elsewhere
<1>. QED  BY <1>1, <1>3, <1>4, <1>5, <1>6, LookKeeps

(* ensureRelay leaves the relays of other routes alone. *)
LEMMA RelayEffect ==
  ASSUME ReconcileTypeOK, NEW id \in Listed, Setting(id).udp, EnsureRelay(id)
  PROVE  /\ relays' \in [Ids -> Relays \cup {Unset}]
         /\ \A j \in Ids : j # id => relays'[j] = relays[j]
         /\ relays'[id] # Unset /\ relays'[id].target = Setting(id).target
<1>1. /\ id \in Ids /\ Setting(id).target \in Targets
      /\ relays \in [Ids -> Relays \cup {Unset}]
  BY SettingType DEF ReconcileTypeOK
<1>2. CASE HasRelay(id)
  BY <1>1, <1>2 DEF EnsureRelay, HasRelay
<1>3. CASE ~HasRelay(id)
  <2>1. PICK p \in FreeRelayPorts(id) :
          relays' = [relays EXCEPT ![id] = [target |-> Setting(id).target, port |-> p]]
    BY <1>3 DEF EnsureRelay
  <2>2. p \in RelayPorts
    BY <2>1 DEF FreeRelayPorts
  <2>3. [target |-> Setting(id).target, port |-> p] \in Relays
    BY <1>1, <2>2 DEF Relays
  <2>4. [target |-> Setting(id).target, port |-> p] # Unset
    BY <2>3, UnsetAssumption
  <2>. QED  BY <1>1, <2>1, <2>3, <2>4
<1>. QED  BY <1>2, <1>3

(* What is to be forwarded is a forward. *)
LEMMA ForwardType ==
  ASSUME ReconcileTypeOK, NEW id \in Listed, Setting(id).udp => HasRelay(id)
  PROVE  Wanted(id) \in Forwards
<1>1. id \in Ids /\ Setting(id).target \in Targets /\ relays[id] \in Relays \cup {Unset}
  BY SettingType DEF ReconcileTypeOK
<1>2. Setting(id).udp => relays[id].port \in RelayPorts
  BY <1>1 DEF HasRelay, Relays
<1>. QED  BY <1>1, <1>2 DEF Wanted, ForwardBy, Forwards

(* The forward is up, or what it replaces is cancelled. *)
LEMMA PublishKeeps ==
  ASSUME ReconcileInv, NEW id \in Ids, Publish(id)
  PROVE  ReconcileInv'
<1>1. /\ ReconcileTypeOK /\ pc = "routes" /\ id \in Listed /\ id \in todo
      /\ Publishable(id) /\ todo \subseteq Listed
      /\ job = Unset /\ Unset \notin Ids
  BY UnsetAssumption DEF ReconcileInv, Looked, AtHand, Publish, Looking
<1>2. /\ relays' \in [Ids -> Relays \cup {Unset}]
      /\ \A j \in Ids : j # id => relays'[j] = relays[j]
      /\ Setting(id).udp => relays'[id] # Unset /\ relays'[id].target = Setting(id).target
  <2>1. CASE Setting(id).udp
    BY <1>1, <2>1, RelayEffect DEF Publish
  <2>2. CASE ~Setting(id).udp
    BY <1>1, <2>2 DEF Publish, ReconcileTypeOK
  <2>. QED  BY <2>1, <2>2
<1>3. UNCHANGED Elsewhere /\ todo' = todo \ {id}
  BY DEF Publish
<1>4. /\ Listed' = Listed /\ Setting(id)' = Setting(id)
      /\ Publishable(id)' = Publishable(id)
      /\ Wanted(id)' = ForwardBy(id, relays')
  BY <1>3 DEF Elsewhere, Listed, Setting, Publishable, Wanted, ForwardBy
<1>5. CASE active[id] = ForwardBy(id, relays')
  <2>1. /\ statuses' = [statuses EXCEPT ![id] = "up"]
        /\ UNCHANGED << forwards, active, cancelFailed, failures, pc, job >>
    BY <1>5 DEF Publish
  <2>2. /\ statuses' \in [Ids -> Statuses] /\ statuses'[id] = "up"
        /\ \A j \in Ids : j # id => statuses'[j] = statuses[j]
        /\ cancelFailed' \in BOOLEAN /\ failures' \in 0 .. MaxFailures
    BY <1>1, <2>1 DEF Statuses, ReconcileTypeOK
  <2>3. Cancels(id)
    BY <1>1, <2>1 DEF Cancels, ReconcileTypeOK, forwards
  <2>4. Settled(id)' /\ (Withdrawn(id)' => cancelFailed')
    BY <1>1, <1>4, <1>5, <2>1, <2>2 DEF Settled, Withdrawn, Publishable
  <2>. QED  BY <1>1, <1>2, <1>3, <2>1, <2>2, <2>3, <2>4, LookKeeps
<1>6. CASE active[id] # ForwardBy(id, relays')
  <2>1. PICK result \in CancelResults(id) : Cancelled(id, result) /\ Failure(result.faulty)
    BY <1>6 DEF Publish, Cancel
  <2>2. /\ Cancels(id)
        /\ cancelFailed' \in BOOLEAN
        /\ cancelFailed => cancelFailed'
        /\ active'[id] # Unset => cancelFailed'
        /\ failures' \in 0 .. MaxFailures
    BY <1>1, <2>1, CancelEffect, FailureType
  <2>3. CASE active'[id] = Unset
    <3>1. pc' = "forward" /\ job' = id /\ UNCHANGED statuses
      BY <1>6, <2>3 DEF Publish
    <3>2. ReconcileTypeOK'
      BY <1>1, <1>2, <1>3, <2>2, <3>1 DEF ReconcileTypeOK, Elsewhere, Cancels
    <3>3. ASSUME NEW j \in Ids, j \notin todo', j # id
          PROVE  Settled(j)' /\ (Withdrawn(j)' => cancelFailed')
      <4>1. Settled(j) /\ (Withdrawn(j) => cancelFailed)
        BY <1>1, <1>3, <3>3 DEF ReconcileInv, Looked
      <4>2. Settled(j)' /\ (Withdrawn(j)' => Withdrawn(j))
        BY <1>2, <1>3, <2>2, <3>1, <3>3, <4>1, SettledKept DEF Cancels, Elsewhere
      <4>. QED  BY <2>2, <4>1, <4>2
    <3>4. Looked'
      BY <1>1, <1>3, <1>4, <3>1, <3>3 DEF Looked
    <3>5. AtHand'
      BY <1>1, <1>2, <1>3, <1>4, <2>3, <3>1 DEF AtHand, HasRelay, Publishable, Setting, Elsewhere
    <3>6. Told' /\ Remembered'
      BY <1>3, <2>2, <3>1, RememberedKept DEF ReconcileInv, Told, Elsewhere
    <3>. QED  BY <3>2, <3>4, <3>5, <3>6 DEF ReconcileInv
  <2>4. CASE active'[id] # Unset
    <3>1. statuses' = [statuses EXCEPT ![id] = "error"] /\ UNCHANGED << pc, job >>
      BY <1>6, <2>4 DEF Publish
    <3>2. /\ statuses' \in [Ids -> Statuses] /\ statuses'[id] = "error"
          /\ \A j \in Ids : j # id => statuses'[j] = statuses[j]
      BY <1>1, <3>1 DEF Statuses, ReconcileTypeOK
    <3>3. Settled(id)' /\ (Withdrawn(id)' => cancelFailed')
      BY <1>1, <1>4, <2>2, <2>4, <3>2 DEF Settled, Withdrawn, Publishable
    <3>. QED  BY <1>1, <1>2, <1>3, <2>2, <3>1, <3>2, <3>3, LookKeeps
  <2>. QED  BY <2>3, <2>4
<1>. QED  BY <1>5, <1>6

(* Nothing changes of what Reconcile knows, while forwards come to an end. *)
LEMMA WorldKeeps ==
  ASSUME ReconcileInv, ReconcileTypeOK', UNCHANGED << desired, active, relays, pc, frame >>,
         master' = "own" => remote' = {} \/ (master = "own" /\ UNCHANGED forwards)
  PROVE  ReconcileInv'
<1>1. \A i \in Ids : (Settled(i) => Settled(i)') /\ (Withdrawn(i)' => Withdrawn(i))
  BY DEF frame, Settled, Withdrawn, Listed, Setting, Publishable, Wanted, ForwardBy
<1>2. Looked' /\ Told'
  BY <1>1 DEF ReconcileInv, Looked, Told, frame, Listed, Unreported
<1>3. AtHand'
  BY DEF ReconcileInv, AtHand, frame, Listed, Setting, Publishable, HasRelay
<1>4. Remembered'
  BY DEF ReconcileInv, Remembered, forwards
<1>. QED  BY <1>2, <1>3, <1>4 DEF ReconcileInv

(* Targets and masters that come and go, and EnsureMaster when it succeeds. *)
LEMMA EnvironmentKeeps ==
  ASSUME ReconcileInv,
         \/ \E t \in Targets : TargetFails(t) \/ TargetRecovers(t)
         \/ MasterDies \/ EnsureMaster
  PROVE  ReconcileInv'
<1>1. UNCHANGED << desired, active, relays, pc, frame >>
  BY DEF TargetFails, TargetRecovers, MasterDies, EnsureMaster, fields
<1>2. master' = "own" => remote' = {} \/ (master = "own" /\ UNCHANGED forwards)
  BY DEF TargetFails, TargetRecovers, MasterDies, EnsureMaster, NoForwards
<1>3. ReconcileTypeOK
  BY DEF ReconcileInv
<1>4. failures' \in 0 .. MaxFailures
  BY <1>3, FailureType DEF TargetFails, TargetRecovers, MasterDies, EnsureMaster, ReconcileTypeOK
<1>5. /\ healthy' \subseteq Targets
      /\ master' \in {"absent", "own", "foreign"}
      /\ remote' \subseteq Forwards /\ strays' \subseteq remote'
      /\ masterReady' \in BOOLEAN
      /\ UNCHANGED << gone, observedRevision >>
  BY <1>3 DEF TargetFails, TargetRecovers, MasterDies, EnsureMaster, NoForwards, forwards,
    fields, ReconcileTypeOK
<1>6. ReconcileTypeOK'
  BY <1>1, <1>3, <1>4, <1>5 DEF ReconcileTypeOK, frame
<1>. QED  BY <1>1, <1>2, <1>6, WorldKeeps

(* The process dies, or is started: it remembers nothing, and a master it  *)
(* may call its own forwards nothing.                                      *)
LEMMA RestartKeeps ==
  ASSUME ReconcileInv, AgentCrashes \/ StartAgent
  PROVE  ReconcileInv'
<1>1. CASE AgentCrashes
  <2>1. Nothing \in [Ids -> Forwards \cup {Unset}] /\ Nothing \in [Ids -> Relays \cup {Unset}]
    BY DEF Nothing
  <2>2. Unreported \in [Ids -> Statuses]
    BY DEF Unreported, Statuses
  <2>3. failures' \in 0 .. MaxFailures
    BY <1>1, FailureType DEF AgentCrashes, ReconcileInv
  <2>4. 0 \in 0 .. MaxRevision
    BY BoundsAssumption
  <2>5. ReconcileTypeOK'
    BY <1>1, <2>1, <2>2, <2>3, <2>4 DEF AgentCrashes, NoForwards, forwards, ReconcileInv, ReconcileTypeOK
  <2>6. Looked' /\ AtHand' /\ Told' /\ Remembered'
    BY <1>1 DEF AgentCrashes, Looked, AtHand, Told, Remembered
  <2>. QED  BY <2>5, <2>6 DEF ReconcileInv
<1>2. CASE StartAgent
  <2>1. ReconcileTypeOK'
    BY <1>2, ManagedSSHAssumption
    DEF StartAgent, NoForwards, forwards, ReconcileInv, ReconcileTypeOK, frame
  <2>. QED  BY <1>2, <2>1 DEF StartAgent, NoForwards, forwards, ReconcileInv, Looked, AtHand, Told, Remembered, frame
<1>. QED  BY <1>1, <1>2

(* Reconcile begins, whatever was fetched. *)
LEMMA BeginKeeps ==
  ASSUME ReconcileInv, NEW d \in NextDesired, Begin(d)
  PROVE  ReconcileInv'
<1>1. d \in [revision : 0 .. MaxRevision, routes : [Ids -> Settings \cup {Unset}]]
  <2>1. CASE d = desired
    BY <2>1 DEF ReconcileInv, ReconcileTypeOK
  <2>2. CASE d # desired
    <3>1. /\ d \in [revision : {desired.revision + 1}, routes : [Ids -> Settings \cup {Unset}]]
          /\ d.revision <= MaxRevision
      BY <2>2 DEF NextDesired
    <3>2. desired.revision \in 0 .. MaxRevision
      BY DEF ReconcileInv, ReconcileTypeOK
    <3>3. d.revision \in 0 .. MaxRevision
      BY <3>1, <3>2
    <3>. QED  BY <3>1, <3>3
  <2>. QED  BY <2>1, <2>2
<1>2. Unreported \in [Ids -> Statuses]
  BY DEF Unreported, Statuses
<1>3. Listed' = {i \in Ids : d.routes[i] # Unset}
  BY DEF Begin, Listed
<1>4. ReconcileTypeOK'
  BY <1>1, <1>2 DEF Begin, world, forwards, fields, Listed, ReconcileInv, ReconcileTypeOK
<1>5. Looked'
  BY <1>3 DEF Begin, Looked
<1>6. AtHand' /\ Told'
  BY DEF Begin, AtHand, Told, ReconcileInv
<1>7. Remembered'
  BY DEF Begin, world, forwards, fields, Remembered, ReconcileInv
<1>. QED  BY <1>4, <1>5, <1>6, <1>7 DEF ReconcileInv

(* CheckMaster, and Close when it fails. *)
LEMMA CheckKeeps ==
  ASSUME ReconcileInv, MasterConfirmed \/ MasterReplaced
  PROVE  ReconcileInv'
<1>1. /\ ReconcileTypeOK /\ pc = "check" /\ pc' = "routes" /\ job = Unset
      /\ UNCHANGED << desired, gone, healthy, relays, observedRevision, frame >>
      /\ todo = Listed /\ statuses = Unreported
  BY DEF MasterConfirmed, MasterReplaced, ReconcileInv, Looked, AtHand, world, fields
<1>2. ReconcileTypeOK'
  <2>1. Nothing \in [Ids -> Forwards \cup {Unset}]
    BY DEF Nothing
  <2>2. failures' \in 0 .. MaxFailures
    BY <1>1, FailureType DEF MasterConfirmed, MasterReplaced, CheckFails, ReconcileTypeOK
  <2>3. /\ master' \in {"absent", "own", "foreign"}
        /\ remote' \subseteq Forwards /\ strays' \subseteq remote'
        /\ active' \in [Ids -> Forwards \cup {Unset}] /\ masterReady' \in BOOLEAN
    BY <1>1, <2>1
    DEF MasterConfirmed, MasterReplaced, NoForwards, ReconcileTypeOK, world, forwards, fields
  <2>. QED  BY <1>1, <2>2, <2>3 DEF ReconcileTypeOK, frame
<1>3. Looked'
  <2>1. ASSUME NEW i \in Ids, i \notin todo'
        PROVE  (i \notin Listed)' /\ statuses'[i] = "none"
    BY <1>1, <2>1 DEF Listed, Unreported, frame
  <2>2. todo' \subseteq Listed'
    BY <1>1 DEF Listed, frame
  <2>3. \A i \in Ids : i \notin todo' => Settled(i)' /\ ~Withdrawn(i)'
    BY <2>1 DEF Settled, Withdrawn
  <2>. QED  BY <1>1, <2>2, <2>3 DEF Looked
<1>4. AtHand' /\ Told'
  BY <1>1 DEF AtHand, Told, frame
<1>5. Remembered'
  BY DEF MasterConfirmed, MasterReplaced, NoForwards, Remembered, ReconcileInv, world, forwards, fields
<1>. QED  BY <1>2, <1>3, <1>4, <1>5 DEF ReconcileInv

(* A master that could not be closed: all that is known is reported. *)
LEMMA UnknownKeeps ==
  ASSUME ReconcileInv, MasterUnknown
  PROVE  ReconcileInv'
<1>1. ReconcileTypeOK
  BY DEF ReconcileInv
<1>2. /\ statuses' = [i \in Ids |-> IF i \in Listed \/ active[i] # Unset THEN "error" ELSE "none"]
      /\ todo' = {} /\ pc' = "reported" /\ job = Unset
      /\ UNCHANGED << desired, gone, healthy, fields, job, cancelFailed >>
      /\ failures' \in 0 .. MaxFailures
  BY <1>1, FailureType DEF MasterUnknown, ReconcileInv, AtHand
<1>3. \/ master' = master /\ remote' = remote /\ strays' = strays
      \/ master' = "absent" /\ remote' = {} /\ strays' = {}
  BY DEF MasterUnknown, NoForwards, forwards
<1>4. ReconcileTypeOK'
  BY <1>1, <1>2, <1>3 DEF ReconcileTypeOK, Statuses, fields
<1>5. Looked' /\ AtHand'
  BY <1>2 DEF Looked, AtHand
<1>6. Told'
  <2>1. ASSUME NEW i \in Ids
        PROVE  Settled(i)' /\ (statuses'[i] = "none" => active'[i] = Unset)
    BY <1>2 DEF Settled, fields, Listed
  <2>. QED  BY <2>1 DEF Told
<1>7. Remembered'
  BY <1>2, <1>3 DEF Remembered, ReconcileInv, fields
<1>. QED  BY <1>4, <1>5, <1>6, <1>7 DEF ReconcileInv

(* EnsureMaster fails: the route at hand is given up. *)
LEMMA EnsureFailsKeeps ==
  ASSUME ReconcileInv, EnsureMasterFails
  PROVE  ReconcileInv'
<1>1. /\ ReconcileTypeOK /\ pc = "forward" /\ pc' = "routes" /\ job' = Unset
      /\ job \in Listed \ todo /\ job \in Ids /\ Setting(job).enabled
      /\ statuses' = [statuses EXCEPT ![job] = "error"]
      /\ UNCHANGED << desired, gone, healthy, fields, todo, cancelFailed >>
  BY DEF EnsureMasterFails, ReconcileInv, AtHand, Publishable, Listed
<1>2. \/ master' = master /\ remote' = remote /\ strays' = strays
      \/ master' \in {"absent", "own"} /\ remote' = {} /\ strays' = {}
  BY DEF EnsureMasterFails, NoForwards, forwards
<1>3. /\ statuses' \in [Ids -> Statuses] /\ statuses'[job] = "error"
      /\ \A j \in Ids : j # job => statuses'[j] = statuses[j]
  BY <1>1 DEF ReconcileTypeOK, Statuses
<1>4. ReconcileTypeOK'
  <2>1. failures' \in 0 .. MaxFailures
    BY <1>1, FailureType DEF EnsureMasterFails
  <2>. QED  BY <1>1, <1>2, <1>3, <2>1 DEF ReconcileTypeOK, fields
<1>5. ASSUME NEW j \in Ids, j \notin todo
      PROVE  Settled(j)' /\ (Withdrawn(j)' => cancelFailed')
  <2>1. CASE j = job
    BY <1>1, <1>3, <2>1 DEF Settled, Withdrawn, Listed, Setting
  <2>2. CASE j # job
    <3>1. Settled(j) /\ (Withdrawn(j) => cancelFailed)
      BY <1>1, <1>5, <2>2 DEF ReconcileInv, Looked
    <3>2. Settled(j)' /\ (Withdrawn(j)' => Withdrawn(j))
      BY <1>1, <1>3, <2>2, <3>1, SettledKept DEF fields
    <3>. QED  BY <1>1, <3>1, <3>2
  <2>. QED  BY <2>1, <2>2
<1>6. Looked'
  BY <1>1, <1>5 DEF Looked, Listed, ReconcileInv
<1>7. AtHand' /\ Told'
  BY <1>1 DEF AtHand, Told
<1>8. Remembered'
  BY <1>1, <1>2 DEF Remembered, ReconcileInv, fields
<1>. QED  BY <1>4, <1>6, <1>7, <1>8 DEF ReconcileInv

(* What the master may forward after it was asked to, and what is known.   *)
LEMMA ForwardEffect ==
  ASSUME NEW f, NEW result \in ForwardResults(f)
  PROVE  /\ result.ok \in BOOLEAN
         /\ remote \subseteq result.remote
         /\ result.remote \subseteq remote \cup {f}
<1>1. \/ result = Result(FALSE, remote, FALSE)
      \/ result = Result(TRUE, remote \cup {f}, FALSE)
      \/ result = Result(FALSE, remote, TRUE)
      \/ result = Result(FALSE, remote \cup {f}, TRUE)
  BY DEF ForwardResults, CommandFails
<1>2. CASE result = Result(FALSE, remote, FALSE)
  BY <1>2 DEF Result
<1>3. CASE result = Result(TRUE, remote \cup {f}, FALSE)
  BY <1>3 DEF Result
<1>4. CASE result = Result(FALSE, remote, TRUE)
  BY <1>4 DEF Result
<1>5. CASE result = Result(FALSE, remote \cup {f}, TRUE)
  BY <1>5 DEF Result
<1>. QED  BY <1>1, <1>2, <1>3, <1>4, <1>5

(* The route at hand is forwarded, or the command fails. *)
LEMMA ForwardPortKeeps ==
  ASSUME ReconcileInv, ForwardPort
  PROVE  ReconcileInv'
<1>1. /\ ReconcileTypeOK /\ pc = "forward" /\ pc' = "routes" /\ job' = Unset
      /\ job \in Listed \ todo /\ job \in Ids /\ Publishable(job)
      /\ active[job] = Unset /\ (Setting(job).udp => HasRelay(job))
      /\ UNCHANGED << Elsewhere, relays, todo, cancelFailed >>
  BY DEF ForwardPort, ReconcileInv, AtHand, Listed
<1>2. Wanted(job) \in Forwards /\ Unset \notin Forwards
  BY <1>1, ForwardType, UnsetAssumption
<1>3. PICK result \in ForwardResults(Wanted(job)) :
        /\ remote' = result.remote
        /\ strays' = IF result.ok THEN strays \ {Wanted(job)} ELSE strays \cup (remote' \ remote)
        /\ Failure(result.faulty)
        /\ active' = IF result.ok THEN [active EXCEPT ![job] = Wanted(job)] ELSE active
        /\ statuses' = [statuses EXCEPT ![job] = IF result.ok THEN "up" ELSE "error"]
  BY DEF ForwardPort
<1>4. /\ result.ok \in BOOLEAN
      /\ remote \subseteq remote' /\ remote' \subseteq remote \cup {Wanted(job)}
  BY <1>3, ForwardEffect
<1>5. /\ active' \in [Ids -> Forwards \cup {Unset}]
      /\ active'[job] = IF result.ok THEN Wanted(job) ELSE Unset
      /\ \A j \in Ids : j # job => active'[j] = active[j]
  BY <1>1, <1>2, <1>3 DEF ReconcileTypeOK
<1>6. /\ statuses' \in [Ids -> Statuses]
      /\ statuses'[job] = IF result.ok THEN "up" ELSE "error"
      /\ \A j \in Ids : j # job => statuses'[j] = statuses[j]
  BY <1>1, <1>3 DEF ReconcileTypeOK, Statuses
<1>7. ReconcileTypeOK'
  <2>1. failures' \in 0 .. MaxFailures
    BY <1>1, <1>3, FailureType
  <2>2. remote' \subseteq Forwards /\ strays' \subseteq remote'
    BY <1>1, <1>2, <1>3, <1>4 DEF ReconcileTypeOK
  <2>. QED  BY <1>1, <1>5, <1>6, <2>1, <2>2 DEF ReconcileTypeOK, Elsewhere
<1>8. ASSUME NEW j \in Ids, j \notin todo
      PROVE  Settled(j)' /\ (Withdrawn(j)' => cancelFailed')
  <2>1. CASE j = job
    <3>1. /\ Listed' = Listed /\ Setting(j)' = Setting(j)
          /\ Publishable(j)' = Publishable(j) /\ Wanted(j)' = Wanted(j)
      BY <1>1 DEF Elsewhere, Listed, Setting, Publishable, Wanted, ForwardBy
    <3>. QED  BY <1>1, <1>4, <1>5, <1>6, <2>1, <3>1 DEF Settled, Withdrawn, Publishable
  <2>2. CASE j # job
    <3>1. Settled(j) /\ (Withdrawn(j) => cancelFailed)
      BY <1>1, <1>8, <2>2 DEF ReconcileInv, Looked
    <3>2. Settled(j)' /\ (Withdrawn(j)' => Withdrawn(j))
      BY <1>1, <1>5, <1>6, <2>2, <3>1, SettledKept DEF Elsewhere
    <3>. QED  BY <1>1, <3>1, <3>2
  <2>. QED  BY <2>1, <2>2
<1>9. Looked'
  BY <1>1, <1>8 DEF Looked, Listed, ReconcileInv, Elsewhere
<1>10. AtHand' /\ Told'
  BY <1>1 DEF AtHand, Told
<1>11. Remembered'
  <2>1. ASSUME master = "own", NEW g \in remote' \ strays'
        PROVE  \E i \in Ids : active'[i] = g
    <3>1. CASE result.ok /\ g = Wanted(job)
      BY <1>1, <1>5, <3>1
    <3>2. CASE g \in remote \ strays
      <4>1. PICK i \in Ids : active[i] = g
        BY <2>1, <3>2 DEF ReconcileInv, Remembered
      <4>2. i # job
        BY <1>1, <1>2, <3>2, <4>1 DEF ReconcileTypeOK
      <4>. QED  BY <1>5, <4>1, <4>2
    <3>. QED  BY <1>3, <1>4, <2>1, <3>1, <3>2
  <2>. QED  BY <1>1, <2>1 DEF Remembered, Elsewhere
<1>. QED  BY <1>7, <1>9, <1>10, <1>11 DEF ReconcileInv

(* The end of Reconcile: relays of other routes go, the revision is taken  *)
(* over unless something could not be withdrawn.                           *)
LEMMA FinishKeeps ==
  ASSUME ReconcileInv, Finish
  PROVE  ReconcileInv'
<1>1. /\ ReconcileTypeOK /\ pc = "routes" /\ pc' = "reported" /\ todo = {} /\ job = Unset
      /\ Unset \notin Ids
      /\ \A i \in Ids : ~Unlisted(i)
      /\ relays' = [i \in Ids |-> IF i \in Listed THEN relays[i] ELSE Unset]
      /\ observedRevision' \in {observedRevision, desired.revision}
      /\ UNCHANGED << desired, gone, world, active, masterReady, frame, failures >>
  BY UnsetAssumption DEF Finish, ReconcileInv, AtHand
<1>2. ReconcileTypeOK'
  BY <1>1 DEF ReconcileTypeOK, world, forwards, frame
<1>3. Looked' /\ AtHand'
  BY <1>1 DEF Looked, AtHand, frame
<1>4. ASSUME NEW i \in Ids
      PROVE  Settled(i)' /\ (statuses'[i] = "none" => active'[i] = Unset)
  <2>1. Settled(i)
    BY <1>1 DEF ReconcileInv, Looked
  <2>2. CASE i \in Listed
    <3>1. Settled(i)'
      BY <1>1, <2>1, <2>2, SettledKept DEF frame
    <3>. QED  BY <1>1, <2>1, <2>2, <3>1 DEF Settled, frame
  <2>3. CASE i \notin Listed
    BY <1>1, <2>1, <2>3 DEF Settled, Unlisted, frame, Listed
  <2>. QED  BY <2>2, <2>3
<1>5. Told'
  BY <1>4 DEF Told
<1>6. Remembered'
  BY <1>1 DEF Remembered, ReconcileInv, world, forwards
<1>. QED  BY <1>2, <1>3, <1>5, <1>6 DEF ReconcileInv

(* The agent starts with nothing. *)
LEMMA ReconcileInitInvariant == ReconcileInit => ReconcileInv
<1>. SUFFICES ASSUME ReconcileInit PROVE ReconcileInv
  OBVIOUS
<1>1. /\ Nothing \in [Ids -> Settings \cup {Unset}]
      /\ Nothing \in [Ids -> Forwards \cup {Unset}]
      /\ Nothing \in [Ids -> Relays \cup {Unset}]
      /\ Unreported \in [Ids -> Statuses]
      /\ 0 \in 0 .. MaxRevision /\ 0 \in 0 .. MaxFailures
  BY BoundsAssumption DEF Nothing, Unreported, Statuses
<1>2. ReconcileTypeOK
  BY <1>1 DEF ReconcileInit, ReconcileTypeOK
<1>3. Looked /\ AtHand /\ Told /\ Remembered
  BY DEF ReconcileInit, Looked, AtHand, Told, Remembered
<1>. QED  BY <1>2, <1>3 DEF ReconcileInv

(* Every step of Reconcile, and everything around it. *)
LEMMA ReconcileNextInvariant ==
  ASSUME ReconcileInv, [ReconcileNext]_reconcileVars
  PROVE  ReconcileInv'
<1>1. CASE StartAgent \/ AgentCrashes
  BY <1>1, RestartKeeps
<1>2. CASE \E d \in NextDesired : Begin(d)
  BY <1>2, BeginKeeps
<1>3. CASE MasterConfirmed \/ MasterReplaced
  BY <1>3, CheckKeeps
<1>4. CASE MasterUnknown
  BY <1>4, UnknownKeeps
<1>5. ASSUME NEW id \in Ids,
             \/ Disabled(id) \/ Invalid(id) \/ TargetDown(id) \/ RelayFails(id)
             \/ Publish(id) \/ RemoveUnlisted(id)
      PROVE  ReconcileInv'
  BY <1>5, WithdrawingKeeps, RelayFailsKeeps, PublishKeeps
<1>6. CASE EnsureMasterFails
  BY <1>6, EnsureFailsKeeps
<1>7. CASE ForwardPort
  BY <1>7, ForwardPortKeeps
<1>8. CASE Finish
  BY <1>8, FinishKeeps
<1>9. CASE (\E t \in Targets : TargetFails(t) \/ TargetRecovers(t)) \/ MasterDies \/ EnsureMaster
  BY <1>9, EnvironmentKeeps
<1>10. CASE UNCHANGED reconcileVars
  <2>1. ReconcileTypeOK'
    BY <1>10 DEF reconcileVars, ReconcileInv, ReconcileTypeOK
  <2>. QED  BY <1>10, <2>1, WorldKeeps DEF reconcileVars, forwards, frame
<1>. QED
  BY <1>1, <1>2, <1>3, <1>4, <1>5, <1>6, <1>7, <1>8, <1>9, <1>10
  DEF ReconcileNext, Step, Environment

(* The invariant holds through every Reconcile, whatever fails around it.  *)
THEOREM ReconcileInvariant == ReconcileSpec => []ReconcileInv
BY ReconcileInitInvariant, ReconcileNextInvariant, PTL DEF ReconcileSpec

(* Reconcile and its early exits: up is reported of a forward that is      *)
(* remembered as it is wanted, anything but an error of one that is not.   *)
THEOREM ReportsMatch == ReconcileSpec => []ReportMatchesActive
<1>1. ReconcileInv => ReportMatchesActive
  <2>. SUFFICES ASSUME ReconcileInv, pc = "reported", NEW id \in Ids
                PROVE  /\ statuses[id] = "up" => id \in Listed /\ active[id] = Wanted(id)
                       /\ statuses[id] \in {"down", "disabled", "none"} => active[id] = Unset
    BY DEF ReportMatchesActive
  <2>1. Settled(id) /\ (statuses[id] = "none" => active[id] = Unset)
    BY DEF ReconcileInv, Told
  <2>. QED  BY <2>1 DEF Settled
<1>. QED  BY <1>1, ReconcileInvariant, PTL

(* Whichever commands take effect although they fail, the master forwards  *)
(* only what a report without errors says is up, and what such a failing   *)
(* forward command left behind.                                            *)
THEOREM WithdrawnRoutesAreGone == ReconcileSpec => []WithdrawnIsGone
<1>1. ReconcileInv => WithdrawnIsGone
  <2>. SUFFICES ASSUME ReconcileInv, pc = "reported", master = "own",
                       \A id \in Ids : statuses[id] # "error", NEW f \in remote \ strays
                PROVE  \E id \in Listed : Publishable(id) /\ f = Wanted(id)
    BY DEF WithdrawnIsGone
  <2>1. PICK i \in Ids : active[i] = f
    BY DEF ReconcileInv, Remembered
  <2>2. active[i] # Unset
    BY <2>1, UnsetAssumption DEF ReconcileInv, ReconcileTypeOK
  <2>3. Settled(i) /\ statuses[i] # "none" /\ statuses[i] # "error" /\ statuses[i] \in Statuses
    BY <2>2 DEF ReconcileInv, Told, ReconcileTypeOK
  <2>4. statuses[i] = "up"
    BY <2>2, <2>3 DEF Settled, Statuses
  <2>. QED  BY <2>1, <2>3, <2>4 DEF Settled
<1>. QED  BY <1>1, ReconcileInvariant, PTL

(* Every report is one AgentSync takes into account (Outcomes): the        *)
(* statuses of its class, and no new revision over a failed withdrawal.    *)
THEOREM ReportsAreAllowed == ReconcileSpec => ReportAllowed
<1>. DEFINE Allowed ==
       /\ \A id \in Ids :
            statuses'[id] \in IF id \notin Listed THEN {"none", "error"}
                             ELSE IF Setting(id).enabled THEN {"up", "down", "error"}
                             ELSE {"disabled", "error"}
       /\ observedRevision' \in {observedRevision, desired.revision}
       /\ (\E id \in Ids : /\ statuses'[id] = "error"
                           /\ id \in Listed => ~Setting(id).enabled)
            => observedRevision' = observedRevision
<1>1. ASSUME ReconcileInv, [ReconcileNext]_reconcileVars, pc # "reported", pc' = "reported"
      PROVE  Allowed
  <2>1. MasterUnknown \/ Finish
    BY <1>1 DEF ReconcileNext, Step, Environment, StartAgent, Begin, MasterConfirmed,
      MasterReplaced, Disabled, Invalid, TargetDown, RelayFails, Publish, RemoveUnlisted, Withdraw,
      EnsureMaster, EnsureMasterFails, ForwardPort, TargetFails, TargetRecovers, MasterDies,
      AgentCrashes, reconcileVars
  <2>2. CASE MasterUnknown
    BY <2>2 DEF MasterUnknown, fields
  <2>3. CASE Finish
    <3>1. /\ statuses' = statuses
          /\ observedRevision' = IF cancelFailed THEN observedRevision ELSE desired.revision
      BY <2>3 DEF Finish, frame
    <3>2. \A i \in Ids : Settled(i) /\ (Withdrawn(i) => cancelFailed)
      BY <1>1, <2>3, UnsetAssumption DEF Finish, ReconcileInv, AtHand, Looked
    <3>3. \A i \in Ids : Settled(i)
      BY <3>2
    <3>4. (\E i \in Ids : Withdrawn(i)) => cancelFailed
      BY <3>2
    <3>. QED  BY <3>1, <3>3, <3>4 DEF Settled, Withdrawn
  <2>. QED  BY <2>1, <2>2, <2>3
<1>2. ReconcileInv /\ [ReconcileNext]_reconcileVars
        => [pc # "reported" /\ pc' = "reported" => Allowed]_reconcileVars
  BY <1>1
<1>. QED  BY <1>2, ReconcileInvariant, PTL DEF ReconcileSpec, ReportAllowed
=============================================================================

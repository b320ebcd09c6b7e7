---------------------------- MODULE ManagedKeys -----------------------------
(***************************************************************************)
(* Managed SSH access: an agent registers the public key of its host, the  *)
(* server binds it in the database and rewrites the authorized_keys file   *)
(* that sshd reads (BindAgentSSHKeyAndSync of internal/store/ssh_keys.go,  *)
(* authorizedkeys.Write), and the agent proves the access before it tells  *)
(* its installer that it is ready (internal/agent/managed_ssh.go).         *)
(*                                                                         *)
(* Binding, listing and writing are three steps, of many requests at once  *)
(* and under one mutex. Server and agents may crash between any two steps; *)
(* a request its agent has given up on is handled all the same.            *)
(***************************************************************************)
EXTENDS Naturals

CONSTANTS
  Agents,
  Keys,         \* public keys
  BindAddress,  \* agent -> the loopback address derived from its identifier
  Isolated,     \* whether every agent is confined to an address of its own
  None,
  MaxFaults     \* bound on crashes, timeouts, failures and replaced keys

ASSUME NoneAssumption == None \notin Keys
ASSUME IsolatedAssumption == Isolated \in BOOLEAN
ASSUME MaxFaultsAssumption == MaxFaults \in Nat

VARIABLES
  bound,     \* agent -> the ssh_public_key of its row
  file,      \* the lines of authorized_keys
  up,        \* whether the server runs
  handlers,  \* registrations the server has accepted
  hostkey,   \* agent -> the key its host has
  marker,    \* agent -> whether its ready marker is in place
  pc,        \* agent -> where its process is
  faults

vars == << bound, file, up, handlers, hostkey, marker, pc, faults >>

Lines == [agent : Agents, key : Keys]
Stages == {"queued", "locked", "bound", "listed"}
Handlers == [agent : Agents, key : Keys, live : BOOLEAN, stage : Stages, listed : SUBSET Lines]

TypeOK ==
  /\ bound \in [Agents -> Keys \cup {None}]
  /\ file \subseteq Lines
  /\ up \in BOOLEAN
  /\ handlers \subseteq Handlers
  /\ hostkey \in [Agents -> Keys]
  /\ marker \in [Agents -> BOOLEAN]
  /\ pc \in [Agents -> {"absent", "down", "register", "wait", "verify", "sync", "running"}]
  /\ faults \in 0 .. MaxFaults

Init ==
  /\ bound = [a \in Agents |-> None]
  /\ file = {}
  /\ up = FALSE
  /\ handlers = {}
  /\ hostkey \in [Agents -> Keys]
  /\ marker = [a \in Agents |-> FALSE]
  /\ pc = [a \in Agents |-> "absent"]
  /\ faults = 0

Fault == faults < MaxFaults /\ faults' = faults + 1

-----------------------------------------------------------------------------
(* The server.                                                             *)

(* ListAgentSSHKeys *)
Listing == {l \in Lines : bound[l.agent] = l.key}

(* Write refuses the whole file when two agents share an address. *)
Writable(lines) ==
  Isolated => \A l, m \in lines : BindAddress[l.agent] = BindAddress[m.agent] => l.agent = m.agent

(* The file is rebuilt before anything is served; else the server exits.   *)
ServerStarts ==
  /\ ~up
  /\ Writable(Listing)
  /\ file' = Listing
  /\ up' = TRUE
  /\ UNCHANGED << bound, handlers, hostkey, marker, pc, faults >>

(* Whoever waits for an answer gets an error worth a retry. *)
ServerCrashes ==
  /\ up
  /\ Fault
  /\ up' = FALSE
  /\ handlers' = {}
  /\ pc' = [a \in Agents |-> IF pc[a] = "wait" THEN "register" ELSE pc[a]]
  /\ UNCHANGED << bound, file, hostkey, marker >>

Becomes(h, new) == handlers' = (handlers \ {h}) \cup {new}

(* The answer: the mutex is released, and the agent learns the result. *)
Answer(h, result) ==
  /\ handlers' = handlers \ {h}
  /\ pc' = IF h.live THEN [pc EXCEPT ![h.agent] = result] ELSE pc

(* Mutant: no mutex around the sequence. *)
LockNothing(h) ==
  /\ h.stage = "queued"
  /\ Becomes(h, [h EXCEPT !.stage = "locked"])
  /\ UNCHANGED << bound, file, up, hostkey, marker, pc, faults >>

(* sshKeysMu *)
Lock(h) ==
  /\ h.stage = "queued"
  /\ \A g \in handlers : g.stage = "queued"
  /\ Becomes(h, [h EXCEPT !.stage = "locked"])
  /\ UNCHANGED << bound, file, up, hostkey, marker, pc, faults >>

(* Mutant: a key is bound whether or not another one is. *)
BindableAlways(h) == TRUE

(* Mutant: a key is bound once only. *)
BindableOnce(h) == bound[h.agent] = None

(* A key stays bound; the same one may be bound again. *)
Bindable(h) == bound[h.agent] \in {None, h.key}

SetAgentSSHKey(h) ==
  /\ h.stage = "locked"
  /\ Bindable(h)
  /\ bound' = [bound EXCEPT ![h.agent] = h.key]
  /\ Becomes(h, [h EXCEPT !.stage = "bound"])
  /\ UNCHANGED << file, up, hostkey, marker, pc, faults >>

(* A conflict is final: the agent's process exits. *)
Conflict(h) ==
  /\ h.stage = "locked"
  /\ ~Bindable(h)
  /\ Answer(h, "down")
  /\ UNCHANGED << bound, file, up, hostkey, marker, faults >>

ListAgentSSHKeys(h) ==
  /\ h.stage = "bound"
  /\ Becomes(h, [h EXCEPT !.stage = "listed", !.listed = Listing])
  /\ UNCHANGED << bound, file, up, hostkey, marker, pc, faults >>

(* Written aside and renamed. *)
Write(h) ==
  /\ h.stage = "listed"
  /\ Writable(h.listed)
  /\ file' = h.listed
  /\ Answer(h, "verify")
  /\ UNCHANGED << bound, up, hostkey, marker, faults >>

WriteRefused(h) ==
  /\ h.stage = "listed"
  /\ ~Writable(h.listed)
  /\ Answer(h, "register")
  /\ UNCHANGED << bound, file, up, hostkey, marker, faults >>

(* Any statement and any step of the write may fail; the request of a      *)
(* client that has gone is cancelled.                                      *)
HandlerFails(h) ==
  /\ Answer(h, "register")
  /\ IF h.live THEN Fault ELSE UNCHANGED faults
  /\ UNCHANGED << bound, file, up, hostkey, marker >>

Handler(h) ==
  Lock(h) \/ SetAgentSSHKey(h) \/ Conflict(h) \/ ListAgentSSHKeys(h) \/ Write(h) \/ WriteRefused(h)

-----------------------------------------------------------------------------
(* The agent.                                                              *)

At(a, from, to) ==
  /\ pc[a] = from
  /\ pc' = [pc EXCEPT ![a] = to]

(* The operator enrolls a host, or never does. *)
Install(a) ==
  /\ At(a, "absent", "down")
  /\ UNCHANGED << bound, file, up, handlers, hostkey, marker, faults >>

(* Mutant: the marker of the process before stays. *)
StartMarked(a) ==
  /\ At(a, "down", "register")
  /\ UNCHANGED << bound, file, up, handlers, hostkey, marker, faults >>

(* A process that has come as far as the removal of the marker: before it, *)
(* for as long as a start takes, the old one is there to be seen.          *)
Start(a) ==
  /\ At(a, "down", "register")
  /\ marker' = [marker EXCEPT ![a] = FALSE]
  /\ UNCHANGED << bound, file, up, handlers, hostkey, faults >>

Request(a) ==
  [agent |-> a, key |-> hostkey[a], live |-> TRUE, stage |-> "queued", listed |-> {}]

RegisterSSHKey(a) ==
  /\ up
  /\ At(a, "register", "wait")
  /\ handlers' = handlers \cup {Request(a)}
  /\ UNCHANGED << bound, file, up, hostkey, marker, faults >>

Abandoned(a) == {IF h.agent = a THEN [h EXCEPT !.live = FALSE] ELSE h : h \in handlers}

RegistrationTimesOut(a) ==
  /\ At(a, "wait", "register")
  /\ Fault
  /\ handlers' = Abandoned(a)
  /\ UNCHANGED << bound, file, up, hostkey, marker >>

Authorized(a) == [agent |-> a, key |-> hostkey[a]] \in file

(* EnsureMaster: sshd lets the key in. *)
VerifyTransport(a) ==
  /\ At(a, "verify", "sync")
  /\ Authorized(a)
  /\ UNCHANGED << bound, file, up, handlers, hostkey, marker, faults >>

VerifyFails(a) ==
  /\ At(a, "verify", "register")
  /\ Authorized(a) => faults < MaxFaults
  /\ IF Authorized(a) THEN Fault ELSE UNCHANGED faults
  /\ UNCHANGED << bound, file, up, handlers, hostkey, marker >>

(* The first SyncOnce succeeds, and the marker is put in place. *)
MarkManagedSSHReady(a) ==
  /\ up
  /\ At(a, "sync", "running")
  /\ marker' = [marker EXCEPT ![a] = TRUE]
  /\ UNCHANGED << bound, file, up, handlers, hostkey, faults >>

(* The process exits in its first SyncOnce, is stopped or dies. *)
AgentStops(a) ==
  /\ pc[a] \notin {"absent", "down"}
  /\ Fault
  /\ pc' = [pc EXCEPT ![a] = "down"]
  /\ handlers' = Abandoned(a)
  /\ UNCHANGED << bound, file, up, hostkey, marker >>

(* The host is set up again, maybe with another key: the marker of earlier *)
(* installations no longer counts.                                         *)
Reinstall(a) ==
  /\ pc[a] = "down"
  /\ Fault
  /\ \E k \in Keys : hostkey' = [hostkey EXCEPT ![a] = k]
  /\ \E m \in {FALSE, marker[a]} : marker' = [marker EXCEPT ![a] = m]
  /\ UNCHANGED << bound, file, up, handlers, pc >>

Step(a) ==
  Start(a) \/ RegisterSSHKey(a) \/ VerifyTransport(a) \/ VerifyFails(a) \/ MarkManagedSSHReady(a)

Next ==
  \/ ServerStarts \/ ServerCrashes
  \/ \E h \in handlers : Handler(h) \/ HandlerFails(h)
  \/ \E a \in Agents : Install(a) \/ Step(a) \/ RegistrationTimesOut(a) \/ AgentStops(a) \/ Reinstall(a)

Spec == Init /\ [][Next]_vars

(* Supervisors restart both programs; the handler that holds the mutex     *)
(* runs, and the mutex is handed to whoever waits long enough.             *)
Fairness ==
  /\ WF_vars(ServerStarts)
  /\ WF_vars(\E h \in handlers : h.stage # "queued" /\ Handler(h))
  /\ \A a \in Agents :
       /\ WF_vars(Step(a))
       /\ SF_vars(\E h \in handlers : h.agent = a /\ h.live /\ Lock(h))

FairSpec == Spec /\ Fairness

-----------------------------------------------------------------------------
(* "an older snapshot can never replace a newer authorized_keys file"      *)
(* (BindAgentSSHKeyAndSync): access once given is never taken away by a    *)
(* concurrent registration, a late one, or a restart.                      *)
NeverLocksOut == [][file \subseteq file']_vars

(* The file only ever lets in keys that are bound, each agent with one key *)
(* and, when isolated, on an address of its own.                           *)
FileIsBound ==
  /\ \A l \in file : bound[l.agent] = l.key
  /\ \A l, m \in file :
       l # m => l.agent # m.agent /\ (Isolated => BindAddress[l.agent] # BindAddress[m.agent])

(* Once a process has removed the marker of the one before it, nobody      *)
(* finds one until the key of this host is let in by sshd.                 *)
ReadyIsAuthorized ==
  \A a \in Agents : marker[a] /\ pc[a] # "down" => pc[a] = "running" /\ Authorized(a)

(* However registrations were cut short, every installed agent whose row   *)
(* is not bound to another key gets in and stays, unless the addresses of  *)
(* two agents with a key collide, when the file can no longer be written.  *)
AccessGranted ==
  \A a \in Agents :
    <>[](pc[a] # "absent" /\ bound[a] \in {None, hostkey[a]} /\ Writable(Listing)
           => pc[a] = "running" /\ Authorized(a))
=============================================================================

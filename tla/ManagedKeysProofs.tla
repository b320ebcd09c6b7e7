-------------------------- MODULE ManagedKeysProofs --------------------------
(***************************************************************************)
(* Proofs about ManagedKeys, for any agents, keys, addresses and faults.   *)
(*                                                                         *)
(* Argument. A key once bound stays bound, so the listing of the database  *)
(* only grows, and the file is always part of it. Who holds the mutex has  *)
(* listed what is bound now, since no other registration binds in between; *)
(* so what is written contains what it replaces.                           *)
(***************************************************************************)
EXTENDS ManagedKeys, TLAPS

USE NoneAssumption, IsolatedAssumption, MaxFaultsAssumption

(* sshKeysMu: one registration at a time is past Lock. *)
Mutex ==
  \A g, h \in handlers : g.stage # "queued" /\ h.stage # "queued" => g = h

(* What a registration has listed is what is bound. *)
ListedNow ==
  \A h \in handlers : h.stage = "listed" => h.listed = Listing

(* The file holds bound keys, and could be written again. *)
FileListed == file \subseteq Listing /\ Writable(file)

(* An agent waits for the answer to its one live request. *)
LiveWaits ==
  /\ \A h \in handlers : h.live => pc[h.agent] = "wait"
  /\ \A g, h \in handlers : g.live /\ h.live /\ g.agent = h.agent => g = h

(* An agent past its verification is let in, and a marker beside a process *)
(* that is not down is of one that got that far.                           *)
MarkedRuns ==
  \A a \in Agents :
    /\ pc[a] \in {"sync", "running"} => Authorized(a)
    /\ marker[a] => pc[a] \in {"down", "running"}

IInv == TypeOK /\ Mutex /\ ListedNow /\ FileListed /\ LiveWaits /\ MarkedRuns

-----------------------------------------------------------------------------
(* Nothing is bound, written or asked for at first. *)
LEMMA InitInvariant == Init => IInv
<1>. SUFFICES ASSUME Init PROVE IInv
  OBVIOUS
<1>1. TypeOK
  <2>1. pc \in [Agents -> {"absent", "down", "register", "wait", "verify", "sync", "running"}]
    BY DEF Init
  <2>2. marker \in [Agents -> BOOLEAN] /\ bound \in [Agents -> Keys \cup {None}] /\ up \in BOOLEAN
    BY Zenon DEF Init
  <2>3. file \subseteq Lines /\ handlers \subseteq Handlers /\ faults \in 0 .. MaxFaults
    BY DEF Init
  <2>. QED  BY <2>1, <2>2, <2>3 DEF Init, TypeOK
<1>2. Mutex /\ ListedNow /\ LiveWaits
  BY DEF Init, Mutex, ListedNow, LiveWaits
<1>3. FileListed
  BY DEF Init, FileListed, Writable
<1>4. MarkedRuns
  BY DEF Init, MarkedRuns
<1>. QED  BY <1>1, <1>2, <1>3, <1>4 DEF IInv

(* ServerStarts rebuilds the file from the database. *)
LEMMA ServerStartsKeeps ==
  ASSUME IInv, ServerStarts
  PROVE  IInv' /\ file \subseteq file'
<1>1. file' = Listing /\ Writable(Listing) /\ file \subseteq Listing
  BY DEF ServerStarts, IInv, FileListed
<1>2. TypeOK' /\ FileListed'
  BY <1>1 DEF ServerStarts, IInv, TypeOK, FileListed, Listing, Writable
<1>3. Mutex' /\ ListedNow' /\ LiveWaits' /\ MarkedRuns'
  BY <1>1 DEF ServerStarts, IInv, Mutex, ListedNow, LiveWaits, MarkedRuns, Listing, Authorized
<1>. QED  BY <1>1, <1>2, <1>3 DEF IInv

(* A crash of the server sends whoever waits back to registering. *)
LEMMA ServerCrashesKeeps ==
  ASSUME IInv, ServerCrashes
  PROVE  IInv' /\ UNCHANGED file
<1>1. /\ handlers' = {}
      /\ pc' = [a \in Agents |-> IF pc[a] = "wait" THEN "register" ELSE pc[a]]
      /\ faults' \in 0 .. MaxFaults
      /\ up' = FALSE
      /\ UNCHANGED << bound, file, hostkey, marker >>
  BY DEF ServerCrashes, Fault, IInv, TypeOK
<1>2. TypeOK'
  BY <1>1 DEF IInv, TypeOK
<1>3. Mutex' /\ ListedNow' /\ LiveWaits'
  BY <1>1 DEF Mutex, ListedNow, LiveWaits
<1>4. FileListed'
  BY <1>1 DEF IInv, FileListed, Listing, Writable
<1>5. MarkedRuns'
  BY <1>1 DEF IInv, TypeOK, MarkedRuns, Authorized
<1>. QED  BY <1>1, <1>2, <1>3, <1>4, <1>5 DEF IInv

-----------------------------------------------------------------------------
(* Steps of a registration. It goes on to another stage, or is answered.   *)

(* Going on disturbs neither the file nor the agents. *)
LEMMA BecomesKeeps ==
  ASSUME IInv, NEW h \in handlers, NEW new \in Handlers, Becomes(h, new),
         new.agent = h.agent, new.live = h.live,
         UNCHANGED << file, up, hostkey, marker, pc, faults >>,
         bound' \in [Agents -> Keys \cup {None}],
         \A a \in Agents : bound[a] # None => bound'[a] = bound[a],
         new.stage # "queued" => \A g \in handlers \ {h} : g.stage = "queued",
         bound' = bound \/ new.stage = "bound",
         new.stage = "listed" => new.listed = Listing
  PROVE  IInv'
<1>1. handlers' = (handlers \ {h}) \cup {new}
  BY DEF Becomes
<1>2. TypeOK'
  BY <1>1 DEF IInv, TypeOK
<1>3. Mutex'
  BY <1>1 DEF IInv, Mutex
<1>4. ListedNow'
  <2>1. CASE bound' = bound
    BY <1>1, <2>1 DEF IInv, ListedNow, Listing
  <2>2. CASE new.stage = "bound"
    BY <1>1, <2>2 DEF ListedNow
  <2>. QED  BY <2>1, <2>2
<1>5. FileListed'
  BY DEF IInv, TypeOK, FileListed, Listing, Lines, Writable
<1>6. LiveWaits'
  BY <1>1 DEF IInv, LiveWaits
<1>7. MarkedRuns'
  BY DEF IInv, MarkedRuns, Authorized
<1>. QED  BY <1>2, <1>3, <1>4, <1>5, <1>6, <1>7 DEF IInv

(* An answer releases the mutex and lets the agent go on, which learns     *)
(* nothing that would make it ready.                                       *)
LEMMA AnswerKeeps ==
  ASSUME IInv, NEW h \in handlers, NEW result \in {"down", "register", "verify"}, Answer(h, result),
         UNCHANGED << bound, up, hostkey, marker >>,
         faults' \in 0 .. MaxFaults,
         file' = file \/ (file' = Listing /\ Writable(Listing))
  PROVE  IInv' /\ file \subseteq file'
<1>1. handlers' = handlers \ {h} /\ h.agent \in Agents
  BY DEF Answer, IInv, TypeOK, Handlers
<1>2. \/ h.live /\ pc' = [pc EXCEPT ![h.agent] = result] /\ pc[h.agent] = "wait"
      \/ ~h.live /\ pc' = pc
  <2>1. h.live \in BOOLEAN
    BY DEF IInv, TypeOK, Handlers
  <2>2. CASE h.live
    BY <2>2, Zenon DEF Answer, IInv, LiveWaits
  <2>3. CASE ~h.live
    BY <2>3 DEF Answer
  <2>. QED  BY <2>1, <2>2, <2>3
<1>3. file \subseteq file' /\ file' \subseteq Lines
  BY DEF IInv, TypeOK, FileListed, Listing
<1>4. TypeOK'
  BY <1>1, <1>2, <1>3 DEF IInv, TypeOK
<1>5. Mutex' /\ ListedNow'
  BY <1>1 DEF IInv, Mutex, ListedNow, Listing
<1>6. FileListed'
  BY DEF IInv, FileListed, Listing, Writable
<1>7. LiveWaits'
  BY <1>1, <1>2 DEF IInv, TypeOK, Handlers, LiveWaits
<1>8. MarkedRuns'
  BY <1>1, <1>2, <1>3 DEF IInv, TypeOK, MarkedRuns, Authorized
<1>. QED  BY <1>3, <1>4, <1>5, <1>6, <1>7, <1>8 DEF IInv

(* BindAgentSSHKeyAndSync, in any interleaving with others of its kind. *)
LEMMA HandlerKeeps ==
  ASSUME IInv, NEW h \in handlers, Handler(h) \/ HandlerFails(h)
  PROVE  IInv' /\ file \subseteq file'
<1>. USE DEF Handlers, Stages
<1>1. /\ h \in Handlers /\ bound \in [Agents -> Keys \cup {None}]
      /\ faults \in 0 .. MaxFaults
      /\ h.stage # "queued" => \A g \in handlers \ {h} : g.stage = "queued"
  BY DEF IInv, TypeOK, Mutex
<1>2. CASE Lock(h)
  BY <1>1, <1>2, BecomesKeeps DEF Lock
<1>3. CASE SetAgentSSHKey(h)
  <2>1. bound' = [bound EXCEPT ![h.agent] = h.key] /\ bound[h.agent] \in {None, h.key}
    BY <1>3 DEF SetAgentSSHKey, Bindable
  <2>2. /\ bound' \in [Agents -> Keys \cup {None}]
        /\ \A a \in Agents : bound[a] # None => bound'[a] = bound[a]
    BY <1>1, <2>1
  <2>. QED  BY <1>1, <1>3, <2>2, BecomesKeeps DEF SetAgentSSHKey
<1>4. CASE ListAgentSSHKeys(h)
  BY <1>1, <1>4, BecomesKeeps DEF ListAgentSSHKeys, Listing
<1>5. CASE Conflict(h) \/ WriteRefused(h)
  BY <1>1, <1>5, AnswerKeeps DEF Conflict, WriteRefused
<1>6. CASE Write(h)
  <2>1. h.listed = Listing /\ Writable(h.listed) /\ file' = h.listed
    BY <1>6 DEF Write, IInv, ListedNow
  <2>. QED  BY <1>1, <1>6, <2>1, AnswerKeeps DEF Write
<1>7. CASE HandlerFails(h)
  <2>1. faults' \in 0 .. MaxFaults
    BY <1>1, <1>7 DEF HandlerFails, Fault
  <2>. QED  BY <1>7, <2>1, AnswerKeeps DEF HandlerFails
<1>. QED  BY <1>2, <1>3, <1>4, <1>5, <1>6, <1>7 DEF Handler

-----------------------------------------------------------------------------
(* Steps of an agent.                                                      *)

(* An agent that registers has no other live request, so the new one is    *)
(* the only one it waits for.                                              *)
LEMMA RegisterKeeps ==
  ASSUME IInv, NEW a \in Agents, RegisterSSHKey(a)
  PROVE  IInv'
<1>1. /\ handlers' = handlers \cup {Request(a)}
      /\ pc[a] = "register" /\ pc' = [pc EXCEPT ![a] = "wait"]
      /\ UNCHANGED << bound, file, up, hostkey, marker, faults >>
  BY DEF RegisterSSHKey, At
<1>2. /\ Request(a) \in Handlers /\ Request(a).stage = "queued"
      /\ Request(a).agent = a /\ Request(a).live
  BY DEF Request, Handlers, Stages, IInv, TypeOK
<1>3. TypeOK'
  BY <1>1, <1>2 DEF IInv, TypeOK
<1>4. Mutex' /\ ListedNow' /\ FileListed'
  BY <1>1, <1>2 DEF IInv, Mutex, ListedNow, FileListed, Listing, Writable
<1>5. LiveWaits'
  BY <1>1, <1>2 DEF IInv, TypeOK, LiveWaits
<1>6. MarkedRuns'
  BY <1>1 DEF IInv, TypeOK, MarkedRuns, Authorized
<1>. QED  BY <1>3, <1>4, <1>5, <1>6 DEF IInv

(* Requests whose agent no longer waits are the same requests. *)
LEMMA AbandonedSame ==
  ASSUME TypeOK, NEW a
  PROVE  /\ Abandoned(a) \subseteq Handlers
         /\ \A h \in handlers : h.agent # a => h \in Abandoned(a)
         /\ \A n \in Abandoned(a) :
              /\ n.live => n \in handlers /\ n.agent # a
              /\ \E h \in handlers : /\ n.agent = h.agent /\ n.key = h.key
                                     /\ n.stage = h.stage /\ n.listed = h.listed
                                     /\ n = IF h.agent = a THEN [h EXCEPT !.live = FALSE] ELSE h
BY DEF TypeOK, Handlers, Abandoned

(* An agent gives up on its request by timeout, or stops. *)
LEMMA AbandonedKeeps ==
  ASSUME IInv, NEW a \in Agents, RegistrationTimesOut(a) \/ AgentStops(a)
  PROVE  IInv'
<1>1. /\ handlers' = Abandoned(a)
      /\ \/ pc' = [pc EXCEPT ![a] = "register"] /\ pc[a] = "wait"
         \/ pc' = [pc EXCEPT ![a] = "down"]
      /\ faults' \in 0 .. MaxFaults
      /\ UNCHANGED << bound, file, up, hostkey, marker >>
  BY DEF RegistrationTimesOut, AgentStops, At, Fault, IInv, TypeOK
<1>2. TypeOK'
  BY <1>1, AbandonedSame DEF IInv, TypeOK
<1>3. Mutex'
  <2>. SUFFICES ASSUME NEW m \in handlers', NEW n \in handlers', m.stage # "queued", n.stage # "queued"
                PROVE  m = n
    BY DEF Mutex
  <2>1. PICK g \in handlers :
          m.stage = g.stage /\ m = IF g.agent = a THEN [g EXCEPT !.live = FALSE] ELSE g
    BY <1>1, AbandonedSame DEF IInv
  <2>2. PICK h \in handlers :
          n.stage = h.stage /\ n = IF h.agent = a THEN [h EXCEPT !.live = FALSE] ELSE h
    BY <1>1, AbandonedSame DEF IInv
  <2>3. g = h
    BY <2>1, <2>2 DEF IInv, Mutex
  <2>. QED  BY <2>1, <2>2, <2>3
<1>4. ListedNow' /\ FileListed'
  BY <1>1, AbandonedSame DEF IInv, ListedNow, FileListed, Listing, Writable
<1>5. LiveWaits'
  <2>1. \A n \in handlers' : n.live => n \in handlers /\ n.agent \in Agents \ {a}
    BY <1>1, AbandonedSame DEF IInv, TypeOK, Handlers
  <2>. QED  BY <1>1, <2>1 DEF IInv, TypeOK, LiveWaits
<1>6. MarkedRuns'
  BY <1>1 DEF IInv, TypeOK, MarkedRuns, Authorized
<1>. QED  BY <1>2, <1>3, <1>4, <1>5, <1>6 DEF IInv

(* Installation, start, verification and the marker. *)
LEMMA AgentKeeps ==
  ASSUME IInv, NEW a \in Agents,
         \/ Install(a) \/ Start(a) \/ VerifyTransport(a) \/ VerifyFails(a)
         \/ MarkManagedSSHReady(a) \/ Reinstall(a)
  PROVE  IInv'
<1>1. /\ pc' \in [Agents -> {"absent", "down", "register", "wait", "verify", "sync", "running"}]
      /\ marker' \in [Agents -> BOOLEAN] /\ hostkey' \in [Agents -> Keys]
      /\ faults' \in 0 .. MaxFaults
      /\ pc'[a] # "wait" /\ pc[a] # "wait"
      /\ \A b \in Agents \ {a} :
           pc'[b] = pc[b] /\ marker'[b] = marker[b] /\ hostkey'[b] = hostkey[b]
      /\ UNCHANGED << bound, file, up, handlers >>
  <2>. USE DEF At, IInv, TypeOK
  <2>1. CASE Install(a) \/ Start(a) \/ VerifyTransport(a) \/ MarkManagedSSHReady(a)
    BY <2>1 DEF Install, Start, VerifyTransport, MarkManagedSSHReady
  <2>2. CASE VerifyFails(a)
    BY <2>2 DEF VerifyFails, Fault
  <2>3. CASE Reinstall(a)
    <3>1. PICK k \in Keys : hostkey' = [hostkey EXCEPT ![a] = k]
      BY <2>3 DEF Reinstall
    <3>2. PICK m \in {FALSE, marker[a]} : marker' = [marker EXCEPT ![a] = m]
      BY <2>3 DEF Reinstall
    <3>3. marker' \in [Agents -> BOOLEAN]
      BY <3>2, Zenon
    <3>4. \A b \in Agents \ {a} : marker'[b] = marker[b]
      BY <3>2, Zenon
    <3>. QED  BY <2>3, <3>1, <3>3, <3>4 DEF Reinstall, Fault
  <2>. QED  BY <2>1, <2>2, <2>3
<1>2. /\ pc'[a] \in {"sync", "running"} => Authorized(a)'
      /\ marker'[a] => pc'[a] \in {"down", "running"}
  BY DEF Install, Start, VerifyTransport, VerifyFails, MarkManagedSSHReady, Reinstall, At,
         IInv, TypeOK, MarkedRuns, Authorized
<1>3. TypeOK'
  BY <1>1 DEF IInv, TypeOK
<1>4. Mutex' /\ ListedNow' /\ FileListed'
  BY <1>1 DEF IInv, Mutex, ListedNow, FileListed, Listing, Writable
<1>5. LiveWaits'
  <2>1. \A h \in handlers : h.agent \in Agents
    BY DEF IInv, TypeOK, Handlers
  <2>. QED  BY <1>1, <2>1 DEF IInv, LiveWaits
<1>6. MarkedRuns'
  BY <1>1, <1>2 DEF IInv, MarkedRuns, Authorized
<1>. QED  BY <1>3, <1>4, <1>5, <1>6 DEF IInv

-----------------------------------------------------------------------------
(* Every step keeps the invariant, and whoever was let in. *)
LEMMA NextKeeps == IInv /\ [Next]_vars => IInv' /\ file \subseteq file'
<1>. SUFFICES ASSUME IInv, [Next]_vars PROVE IInv' /\ file \subseteq file'
  OBVIOUS
<1>1. CASE ServerStarts
  BY <1>1, ServerStartsKeeps
<1>2. CASE ServerCrashes
  BY <1>2, ServerCrashesKeeps
<1>3. ASSUME NEW h \in handlers, Handler(h) \/ HandlerFails(h)
      PROVE  IInv' /\ file \subseteq file'
  BY <1>3, HandlerKeeps
<1>4. ASSUME NEW a \in Agents,
             Install(a) \/ Step(a) \/ RegistrationTimesOut(a) \/ AgentStops(a) \/ Reinstall(a)
      PROVE  IInv' /\ file \subseteq file'
  <2>1. IInv'
    BY <1>4, RegisterKeeps, AbandonedKeeps, AgentKeeps DEF Step
  <2>2. UNCHANGED file
    BY <1>4 DEF Install, Step, Start, RegisterSSHKey, VerifyTransport, VerifyFails,
                MarkManagedSSHReady, RegistrationTimesOut, AgentStops, Reinstall
  <2>. QED  BY <2>1, <2>2
<1>5. CASE UNCHANGED vars
  BY <1>5 DEF vars, IInv, TypeOK, Mutex, ListedNow, FileListed, LiveWaits, MarkedRuns, Listing, Writable, Authorized
<1>. QED  BY <1>1, <1>2, <1>3, <1>4, <1>5 DEF Next

(* The inductive invariant: the mutex covers binding, listing and writing, *)
(* and agents wait for one answer at a time.                               *)
THEOREM Invariant == Spec => []IInv
BY InitInvariant, NextKeeps, PTL DEF Spec

(* authorizedkeys.Write and SetAgentSSHKey: the file only ever lets in     *)
(* bound keys, one to an agent and, when isolated, one to an address.      *)
THEOREM FileStaysBound == Spec => []FileIsBound
<1>1. IInv => FileIsBound
  <2>. SUFFICES ASSUME IInv PROVE FileIsBound
    OBVIOUS
  <2>1. file \subseteq Lines /\ \A l \in file : bound[l.agent] = l.key
    BY DEF IInv, TypeOK, FileListed, Listing
  <2>2. ASSUME NEW l \in file, NEW m \in file, l.agent = m.agent
        PROVE  l = m
    BY <2>1, <2>2 DEF Lines
  <2>. QED  BY <2>1, <2>2 DEF FileIsBound, IInv, FileListed, Writable
<1>. QED  BY <1>1, Invariant, PTL

(* MarkManagedSSHReady: no installer finds a marker of the process it      *)
(* started before sshd lets the key of the host in.                        *)
THEOREM ReadyStaysAuthorized == Spec => []ReadyIsAuthorized
<1>1. IInv => ReadyIsAuthorized
  BY DEF IInv, MarkedRuns, ReadyIsAuthorized
<1>. QED  BY <1>1, Invariant, PTL

(* BindAgentSSHKeyAndSync: no registration, however late, and no restart   *)
(* takes away access once given.                                           *)
THEOREM NobodyIsLockedOut == Spec => NeverLocksOut
<1>1. IInv /\ [Next]_vars => [file \subseteq file']_vars
  BY NextKeeps
<1>. QED  BY <1>1, Invariant, PTL DEF Spec, NeverLocksOut
=============================================================================

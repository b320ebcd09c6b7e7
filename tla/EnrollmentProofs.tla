-------------------------- MODULE EnrollmentProofs ---------------------------
(***************************************************************************)
(* Proofs about Enrollment, for any hosts, tokens, claims and faults.      *)
(*                                                                         *)
(* Argument. A host has at most one claim: it draws one only with both     *)
(* files empty, keeps it before it sends it, and lets go of the pending    *)
(* file only beside the same claim in the state file. So every request of  *)
(* a host, however old, carries the claim its files hold, and so does the  *)
(* agent the server made of it. No claim makes two agents, because agents  *)
(* differ in their secrets, and no token, because it is used.              *)
(***************************************************************************)
EXTENDS Enrollment, TLAPS

USE NoneAssumption, NoRowAssumption, MaxFaultsAssumption

(* What the files of a host hold at each step of ResolveCredentials. *)
HostHolds(h) ==
  /\ state[h] # None => pending[h] \in {None, state[h]}
  /\ pc[h] = "keep" => claim[h] # None /\ pending[h] = None /\ state[h] = None
  /\ pc[h] \in {"send", "wait", "save"} =>
       claim[h] # None /\ pending[h] = claim[h] /\ state[h] = None
  /\ pc[h] = "tidy" => state[h] # None

FilesHold == \A h \in Hosts : HostHolds(h)

(* Requests carry the claim of their host, which waits for one at most.    *)
RequestsHeld ==
  /\ \A r \in requests :
       /\ r.claim \in {pending[r.host], state[r.host]}
       /\ r.live => pc[r.host] = "wait"
  /\ \A r, s \in requests : r.live /\ s.live /\ r.host = s.host => r = s

(* An agent has used its token, and has a secret of its own. *)
AgentsMade ==
  /\ \A a \in agents : tokens[a.token] # None /\ tokens[a.token].used
  /\ \A a, b \in agents : a.token = b.token \/ a.claim = b.claim => a = b

(* Credentials about to be saved are known to the server. *)
GrantedKnown ==
  \A h \in Hosts : pc[h] = "save" => \E a \in AgentsOf(h) : a.claim = claim[h]

IInv == TypeOK /\ FilesHold /\ RequestsHeld /\ AgentsMade /\ GrantedKnown /\ NoOrphan

-----------------------------------------------------------------------------
(* Nothing is issued, drawn or sent at first. *)
LEMMA InitInvariant == Init => IInv
<1>. SUFFICES ASSUME Init PROVE IInv
  OBVIOUS
<1>1. TypeOK
  <2>1. /\ tokens \in [Tokens -> Rows \cup {None}]
        /\ pending \in [Hosts -> Claims \cup {None}]
        /\ state \in [Hosts -> Claims \cup {None}]
        /\ claim \in [Hosts -> Claims \cup {None}]
    BY DEF Init
  <2>2. pc \in [Hosts -> {"down", "start", "draw", "keep", "send", "wait", "save", "tidy", "running"}]
    BY DEF Init
  <2>. QED  BY <2>1, <2>2 DEF Init, TypeOK
<1>2. FilesHold /\ RequestsHeld /\ AgentsMade /\ GrantedKnown /\ NoOrphan
  BY DEF Init, FilesHold, HostHolds, RequestsHeld, AgentsMade, GrantedKnown, NoOrphan, AgentsOf
<1>. QED  BY <1>1, <1>2 DEF IInv

(* Tokens come and go, but a used one stays used and known. *)
LEMMA TokenKeeps ==
  ASSUME IInv, NEW t \in Tokens,
         \/ CreateEnrollmentToken(t) \/ TokenExpires(t)
         \/ DeleteEnrollmentToken(t) \/ ConsumeEnrollmentToken(t)
  PROVE  IInv'
<1>1. /\ \E row \in Rows : tokens' = [tokens EXCEPT ![t] = row] /\ (tokens[t] # None /\ tokens[t].used => row.used)
      /\ faults' \in 0 .. MaxFaults
      /\ UNCHANGED << agents, files, pc, claim, drawn, requests >>
  <2>0. tokens[t] \in Rows \cup {None} /\ faults \in 0 .. MaxFaults
    BY DEF IInv, TypeOK
  <2>1. CASE CreateEnrollmentToken(t)
    <3>. DEFINE row == [listed |-> TRUE, used |-> FALSE, expired |-> FALSE, claim |-> None]
    <3>1. row \in Rows
      BY Zenon DEF Rows
    <3>2. tokens' = [tokens EXCEPT ![t] = row]
      BY <2>1, Zenon DEF CreateEnrollmentToken
    <3>3. /\ faults' \in 0 .. MaxFaults
          /\ UNCHANGED << agents, files, pc, claim, drawn, requests >>
      BY <2>0, <2>1 DEF CreateEnrollmentToken
    <3>. HIDE DEF row
    <3>. QED  BY <3>1, <3>2, <3>3, <2>1 DEF CreateEnrollmentToken
  <2>2. CASE TokenExpires(t)
    <3>. DEFINE row == [tokens[t] EXCEPT !.expired = TRUE]
    <3>1. row \in Rows /\ row.used = tokens[t].used
      BY <2>0, <2>2 DEF TokenExpires, Listed, Rows
    <3>2. tokens' = [tokens EXCEPT ![t] = row]
      BY <2>2, Zenon DEF TokenExpires
    <3>3. /\ faults' \in 0 .. MaxFaults
          /\ UNCHANGED << agents, files, pc, claim, drawn, requests >>
      BY <2>0, <2>2 DEF TokenExpires
    <3>. HIDE DEF row
    <3>. QED  BY <3>1, <3>2, <3>3
  <2>3. CASE DeleteEnrollmentToken(t)
    <3>. DEFINE row == [tokens[t] EXCEPT !.listed = FALSE]
    <3>1. row \in Rows /\ row.used = tokens[t].used
      BY <2>0, <2>3 DEF DeleteEnrollmentToken, Listed, Rows
    <3>2. tokens' = [tokens EXCEPT ![t] = row]
      BY <2>3, Zenon DEF DeleteEnrollmentToken
    <3>3. /\ faults' \in 0 .. MaxFaults
          /\ UNCHANGED << agents, files, pc, claim, drawn, requests >>
      BY <2>0, <2>3 DEF DeleteEnrollmentToken, Fault
    <3>. HIDE DEF row
    <3>. QED  BY <3>1, <3>2, <3>3
  <2>4. CASE ConsumeEnrollmentToken(t)
    <3>. DEFINE row == [tokens[t] EXCEPT !.used = TRUE]
    <3>1. row \in Rows /\ row.used
      BY <2>0, <2>4 DEF ConsumeEnrollmentToken, Usable, Listed, Rows
    <3>2. tokens' = [tokens EXCEPT ![t] = row]
      BY <2>4, Zenon DEF ConsumeEnrollmentToken
    <3>3. /\ faults' \in 0 .. MaxFaults
          /\ UNCHANGED << agents, files, pc, claim, drawn, requests >>
      BY <2>0, <2>4 DEF ConsumeEnrollmentToken, Fault
    <3>. HIDE DEF row
    <3>. QED  BY <3>1, <3>2, <3>3
  <2>. QED  BY <2>1, <2>2, <2>3, <2>4
<1>2. TypeOK'
  BY <1>1 DEF IInv, TypeOK, files
<1>3. FilesHold' /\ RequestsHeld' /\ GrantedKnown' /\ NoOrphan'
  BY <1>1 DEF IInv, FilesHold, HostHolds, RequestsHeld, GrantedKnown, NoOrphan, AgentsOf, files
<1>4. AgentsMade'
  BY <1>1 DEF IInv, TypeOK, AgentsMade
<1>. QED  BY <1>2, <1>3, <1>4 DEF IInv

-----------------------------------------------------------------------------
(* Steps of a host. What it does to its files concerns no other host.      *)

(* What a step of host h leaves alone. *)
Others(h) ==
  /\ \A g \in Hosts \ {h} :
       pending'[g] = pending[g] /\ state'[g] = state[g] /\ pc'[g] = pc[g] /\ claim'[g] = claim[g]
  /\ UNCHANGED << tokens, agents >>

(* A step of h keeps the invariant if it keeps the claim of the files, and *)
(* saves no claim the server does not know.                                *)
LEMMA HostKeeps ==
  ASSUME IInv, TypeOK', NEW h \in Hosts, Others(h), HostHolds(h)', RequestsHeld',
         {pending[h], state[h]} \ {None} \subseteq {pending'[h], state'[h]},
         pc'[h] # "save",
         state'[h] # None => \E a \in AgentsOf(h) : a.claim = state'[h]
  PROVE  IInv'
<1>1. FilesHold'
  BY DEF IInv, Others, FilesHold, HostHolds
<1>2. AgentsMade'
  BY DEF IInv, Others, AgentsMade
<1>3. GrantedKnown'
  BY DEF IInv, Others, GrantedKnown, AgentsOf
<1>4. NoOrphan'
  <2>1. agents' = agents /\ \A a \in agents : a.claim # None
    BY DEF Others, IInv, TypeOK
  <2>. QED  BY <2>1 DEF IInv, Others, NoOrphan, AgentsOf
<1>. QED  BY <1>1, <1>2, <1>3, <1>4 DEF IInv

(* The same of a step that neither sends nor waits for an answer. *)
LEMMA QuietKeeps ==
  ASSUME IInv, TypeOK', NEW h \in Hosts, Others(h), HostHolds(h)',
         UNCHANGED requests, pc[h] # "wait",
         {pending[h], state[h]} \ {None} \subseteq {pending'[h], state'[h]},
         pc'[h] # "save",
         state'[h] # None => \E a \in AgentsOf(h) : a.claim = state'[h]
  PROVE  IInv'
<1>1. RequestsHeld'
  <2>1. \A r \in requests : r.claim # None /\ r.host \in Hosts
    BY DEF IInv, TypeOK, Requests
  <2>. QED  BY <2>1 DEF IInv, Others, RequestsHeld
<1>. QED  BY <1>1, HostKeeps

(* Reconfigure changes no file that holds a claim. *)
LEMMA ReconfigureKeeps ==
  ASSUME IInv, NEW h \in Hosts, Reconfigure(h)
  PROVE  IInv'
<1>1. /\ given' \in [Hosts -> Tokens]
      /\ faults' \in 0 .. MaxFaults
      /\ UNCHANGED << database, pending, state, pc, claim, drawn, requests >>
  BY DEF Reconfigure, Fault, IInv, TypeOK
<1>2. TypeOK'
  BY <1>1 DEF IInv, TypeOK, database
<1>3. FilesHold' /\ RequestsHeld' /\ AgentsMade' /\ GrantedKnown' /\ NoOrphan'
  BY <1>1 DEF IInv, FilesHold, HostHolds, RequestsHeld, AgentsMade, GrantedKnown, NoOrphan, AgentsOf, database
<1>. QED  BY <1>2, <1>3 DEF IInv

(* ResolveCredentials, from the start of the process to the request. *)
LEMMA ResolveKeeps ==
  ASSUME IInv, NEW h \in Hosts,
         \/ Boot(h) \/ UseSaved(h) \/ UsePending(h) \/ Draw(h) \/ Keep(h) \/ Save(h) \/ Tidy(h)
  PROVE  IInv'
<1>. USE DEF At
<1>0. TypeOK /\ HostHolds(h)
  BY DEF IInv, FilesHold
<1>1. state[h] # None => \E a \in AgentsOf(h) : a.claim = state[h]
  BY DEF IInv, NoOrphan
<1>2. CASE Boot(h)
  <2>1. TypeOK' /\ Others(h) /\ HostHolds(h)' /\ pc[h] = "down" /\ pc'[h] = "start"
    BY <1>0, <1>2 DEF Boot, TypeOK, Others, HostHolds, database, files
  <2>. QED  BY <1>1, <1>2, <2>1, QuietKeeps DEF Boot, files
<1>3. CASE UseSaved(h)
  <2>1. TypeOK' /\ Others(h) /\ HostHolds(h)' /\ pc[h] = "start" /\ pc'[h] = "running"
    BY <1>0, <1>3 DEF UseSaved, TypeOK, Others, HostHolds, database
  <2>2. {pending[h], state[h]} \ {None} \subseteq {pending'[h], state'[h]}
    BY <1>0, <1>3 DEF UseSaved, HostHolds
  <2>. QED  BY <1>1, <1>3, <2>1, <2>2, QuietKeeps DEF UseSaved
<1>4. CASE UsePending(h)
  <2>1. TypeOK' /\ Others(h) /\ HostHolds(h)' /\ pc[h] = "start" /\ pc'[h] = "send"
    BY <1>0, <1>4 DEF UsePending, TypeOK, Others, HostHolds, database, files
  <2>. QED  BY <1>1, <1>4, <2>1, QuietKeeps DEF UsePending, files
<1>5. CASE Draw(h)
  <2>1. TypeOK' /\ Others(h) /\ HostHolds(h)' /\ pc[h] = "start" /\ pc'[h] = "keep"
    BY <1>0, <1>5 DEF Draw, TypeOK, Others, HostHolds, database, files
  <2>. QED  BY <1>1, <1>5, <2>1, QuietKeeps DEF Draw, files
<1>6. CASE Keep(h)
  <2>1. TypeOK' /\ Others(h) /\ HostHolds(h)' /\ pc[h] = "keep" /\ pc'[h] = "send"
    BY <1>0, <1>6 DEF Keep, TypeOK, Others, HostHolds, database
  <2>2. {pending[h], state[h]} \ {None} \subseteq {pending'[h], state'[h]}
    BY <1>0, <1>6 DEF Keep, HostHolds
  <2>. QED  BY <1>1, <1>6, <2>1, <2>2, QuietKeeps DEF Keep
<1>7. CASE Save(h)
  <2>1. TypeOK' /\ Others(h) /\ HostHolds(h)' /\ pc[h] = "save" /\ pc'[h] = "tidy"
    BY <1>0, <1>7 DEF Save, TypeOK, Others, HostHolds, database
  <2>2. state'[h] = claim[h] /\ \E a \in AgentsOf(h) : a.claim = claim[h]
    BY <1>0, <1>7, <2>1 DEF Save, TypeOK, IInv, GrantedKnown
  <2>3. {pending[h], state[h]} \ {None} \subseteq {pending'[h], state'[h]}
    BY <1>0, <1>7, <2>2 DEF Save, HostHolds
  <2>. QED  BY <1>7, <2>1, <2>2, <2>3, QuietKeeps DEF Save
<1>8. CASE Tidy(h)
  <2>1. TypeOK' /\ Others(h) /\ HostHolds(h)' /\ pc[h] = "tidy" /\ pc'[h] = "running"
    BY <1>0, <1>8 DEF Tidy, TypeOK, Others, HostHolds, database
  <2>2. {pending[h], state[h]} \ {None} \subseteq {pending'[h], state'[h]}
    BY <1>0, <1>8 DEF Tidy, HostHolds
  <2>. QED  BY <1>1, <1>8, <2>1, <2>2, QuietKeeps DEF Tidy
<1>. QED  BY <1>2, <1>3, <1>4, <1>5, <1>6, <1>7, <1>8

(* A request carries the claim of the files, and is the only one waited for. *)
LEMMA SendKeeps ==
  ASSUME IInv, NEW h \in Hosts, Send(h)
  PROVE  IInv'
<1>0. TypeOK /\ HostHolds(h) /\ pc[h] = "send"
  BY DEF IInv, FilesHold, Send, At
<1>1. /\ pc' = [pc EXCEPT ![h] = "wait"]
      /\ requests' = requests \cup {Request(h)}
      /\ UNCHANGED << database, files, claim, drawn, faults >>
  BY DEF Send, At
<1>2. Request(h) \in Requests /\ Request(h).host = h /\ Request(h).claim = pending[h]
  <2>1. claim[h] \in Claims /\ given[h] \in Tokens
    BY <1>0 DEF TypeOK, HostHolds
  <2>2. Request(h) \in Requests
    BY <2>1, Zenon DEF Request, Requests
  <2>. QED  BY <1>0, <2>2 DEF Request, HostHolds
<1>3. TypeOK' /\ Others(h) /\ HostHolds(h)'
  BY <1>0, <1>1, <1>2 DEF TypeOK, Others, HostHolds, database, files
<1>4. RequestsHeld'
  <2>. HIDE DEF Request
  <2>. QED  BY <1>0, <1>1, <1>2 DEF IInv, TypeOK, RequestsHeld, files
<1>5. state[h] # None => \E a \in AgentsOf(h) : a.claim = state[h]
  BY DEF IInv, NoOrphan
<1>. QED  BY <1>0, <1>1, <1>3, <1>4, <1>5, HostKeeps DEF TypeOK, files

(* A process that dies leaves its files, and a request nobody waits for. *)
LEMMA CrashKeeps ==
  ASSUME IInv, NEW h \in Hosts, Crash(h)
  PROVE  IInv'
<1>0. TypeOK /\ HostHolds(h)
  BY DEF IInv, FilesHold
<1>1. /\ pc' = [pc EXCEPT ![h] = "down"]
      /\ claim' = [claim EXCEPT ![h] = None]
      /\ faults' \in 0 .. MaxFaults
      /\ UNCHANGED << database, files, drawn >>
  BY <1>0 DEF Crash, Exited, Fault, TypeOK
<1>2. \A r \in requests' : 
        /\ r \in Requests 
        /\ \E s \in requests : r.host = s.host /\ r.claim = s.claim /\ (r.live => r = s /\ r.host # h)
  <2>. TAKE r \in requests'
  <2>1. PICK s \in requests : r = IF s.host = h THEN [s EXCEPT !.live = FALSE] ELSE s
    BY DEF Crash, Abandoned
  <2>2. s \in Requests
    BY <1>0 DEF TypeOK
  <2>3. CASE s.host = h
    <3>1. r = [s EXCEPT !.live = FALSE]
      BY <2>1, <2>3
    <3>2. r \in Requests /\ r.host = s.host /\ r.claim = s.claim /\ ~r.live
      BY <2>2, <3>1 DEF Requests
    <3>. QED  BY <3>2
  <2>4. CASE s.host # h
    BY <2>1, <2>2, <2>4
  <2>. QED  BY <2>3, <2>4
<1>3. TypeOK' /\ Others(h) /\ HostHolds(h)'
  BY <1>0, <1>1, <1>2 DEF TypeOK, Others, HostHolds, database, files
<1>4. RequestsHeld'
  BY <1>0, <1>1, <1>2 DEF IInv, TypeOK, RequestsHeld, Requests, files
<1>5. state[h] # None => \E a \in AgentsOf(h) : a.claim = state[h]
  BY DEF IInv, NoOrphan
<1>. QED  BY <1>0, <1>1, <1>3, <1>4, <1>5, HostKeeps DEF TypeOK, files

-----------------------------------------------------------------------------
(* Steps of the server.                                                    *)

(* The transaction makes the agent of the request, or makes nothing. *)
LEMMA ClaimMakes ==
  ASSUME TypeOK, NEW r \in requests, ClaimEnrollmentToken(r)
  PROVE  /\ tokens' \in [Tokens -> Rows \cup {None}]
         /\ agents' \subseteq [claim : Claims, name : Hosts, token : Tokens]
         /\ \A t \in Tokens : tokens[t] # None /\ tokens[t].used => tokens'[t] # None /\ tokens'[t].used
         /\ \/ agents' = agents
            \/ /\ agents' = agents \cup {Claimed(r)}
               /\ Fresh(r)
               /\ tokens'[r.token] # None /\ tokens'[r.token].used
         /\ Granted(r) => Claimed(r) \in agents'
<1>1. r.host \in Hosts /\ r.token \in Tokens /\ r.claim \in Claims
  BY DEF TypeOK, Requests
<1>2. CASE Fresh(r)
  <2>. DEFINE row == [tokens[r.token] EXCEPT !.used = TRUE, !.claim = r.claim]
  <2>1. row \in Rows /\ row.used
    <3>1. tokens[r.token] \in Rows
      BY <1>1, <1>2 DEF TypeOK, Fresh, Usable, Listed
    <3>2. row \in Rows
      BY <1>1, <3>1, Zenon DEF Rows
    <3>3. row.used
      BY <3>1 DEF Rows
    <3>. QED  BY <3>2, <3>3
  <2>2. /\ tokens' = [tokens EXCEPT ![r.token] = row]
        /\ agents' = agents \cup {Claimed(r)}
    BY <1>1, <1>2, Zenon DEF ClaimEnrollmentToken, TypeOK
  <2>3. Claimed(r) \in [claim : Claims, name : Hosts, token : Tokens]
    BY <1>1 DEF Claimed
  <2>. HIDE DEF row
  <2>. QED  BY <1>1, <1>2, <2>1, <2>2, <2>3 DEF TypeOK
<1>3. CASE ~Fresh(r)
  BY <1>3 DEF ClaimEnrollmentToken, database, TypeOK, Granted, Repeated
<1>. QED  BY <1>2, <1>3

(* What handling a request does, whatever becomes of its answer. *)
LEMMA HandleKeeps ==
  ASSUME IInv, NEW r \in requests, Handle(r),
         pc' \in [Hosts -> {"down", "start", "draw", "keep", "send", "wait", "save", "tidy", "running"}],
         claim' \in [Hosts -> Claims \cup {None}],
         faults' \in 0 .. MaxFaults,
         \A g \in Hosts \ {r.host} : pc'[g] = pc[g] /\ claim'[g] = claim[g],
         \/ ~r.live /\ pc'[r.host] = pc[r.host] /\ claim'[r.host] = claim[r.host]
         \/ r.live /\ pc'[r.host] = "down"
         \/ r.live /\ Granted(r) /\ pc'[r.host] = "save" /\ claim'[r.host] = claim[r.host]
  PROVE  IInv'
<1>1. /\ requests' = requests \ {r}
      /\ ClaimEnrollmentToken(r)
      /\ UNCHANGED << files, drawn >>
  BY DEF Handle
<1>2. /\ r.host \in Hosts /\ r.token \in Tokens /\ r.claim \in Claims
      /\ r.claim \in {pending[r.host], state[r.host]}
      /\ r.live => pc[r.host] = "wait"
  BY DEF IInv, TypeOK, Requests, RequestsHeld
<1>3. TypeOK
  BY DEF IInv
<1>4. /\ tokens' \in [Tokens -> Rows \cup {None}]
      /\ agents' \subseteq [claim : Claims, name : Hosts, token : Tokens]
      /\ \A t \in Tokens : tokens[t] # None /\ tokens[t].used => tokens'[t] # None /\ tokens'[t].used
      /\ \/ agents' = agents
         \/ /\ agents' = agents \cup {Claimed(r)}
            /\ Fresh(r)
            /\ tokens'[r.token] # None /\ tokens'[r.token].used
      /\ Granted(r) => Claimed(r) \in agents'
  BY <1>1, <1>3, ClaimMakes
<1>5. TypeOK'
  BY <1>1, <1>3, <1>4 DEF TypeOK, files
<1>6. FilesHold'
  <2>. SUFFICES ASSUME NEW h \in Hosts PROVE HostHolds(h)'
    BY DEF FilesHold
  <2>1. HostHolds(h)
    BY DEF IInv, FilesHold
  <2>. QED  BY <1>1, <1>2, <2>1 DEF HostHolds, files
<1>7. RequestsHeld'
  <2>1. \A s \in requests : s.host \in Hosts
    BY <1>3 DEF TypeOK, Requests
  <2>. QED  BY <1>1, <1>2, <2>1 DEF IInv, RequestsHeld, files
<1>8. AgentsMade'
  <2>1. CASE agents' = agents
    BY <1>3, <1>4, <2>1 DEF IInv, AgentsMade, TypeOK
  <2>2. CASE agents' = agents \cup {Claimed(r)} /\ Fresh(r) /\ tokens'[r.token] # None /\ tokens'[r.token].used
    <3>1. \A a \in agents : a.token # r.token /\ a.claim # r.claim /\ a.token \in Tokens
      BY <1>3, <2>2 DEF IInv, AgentsMade, Fresh, Usable, Listed, TypeOK
    <3>2. Claimed(r).token = r.token /\ Claimed(r).claim = r.claim
      BY DEF Claimed
    <3>. QED  BY <1>4, <2>2, <3>1, <3>2 DEF IInv, AgentsMade
  <2>. QED  BY <1>4, <2>1, <2>2
<1>9. GrantedKnown'
  <2>. SUFFICES ASSUME NEW h \in Hosts, pc'[h] = "save"
                PROVE  \E a \in AgentsOf(h)' : a.claim = claim'[h]
    BY DEF GrantedKnown
  <2>1. CASE h = r.host /\ r.live
    <3>1. Claimed(r) \in agents' /\ claim'[h] = claim[h]
      BY <1>4, <2>1
    <3>2. HostHolds(h) /\ pc[h] = "wait"
      BY <1>2, <2>1 DEF IInv, FilesHold
    <3>3. claim[h] = r.claim
      BY <1>2, <2>1, <3>2, NoneAssumption DEF HostHolds
    <3>. QED  BY <2>1, <3>1, <3>3 DEF AgentsOf, Claimed
  <2>2. CASE ~(h = r.host /\ r.live)
    <3>1. pc[h] = "save" /\ claim'[h] = claim[h]
      BY <2>2
    <3>2. PICK a \in AgentsOf(h) : a.claim = claim[h]
      BY <3>1 DEF IInv, GrantedKnown
    <3>. QED  BY <1>4, <3>1, <3>2 DEF AgentsOf
  <2>. QED  BY <2>1, <2>2
<1>10. NoOrphan'
  <2>. SUFFICES ASSUME NEW h \in Hosts
                PROVE  /\ \A a \in AgentsOf(h)' : a.claim \in {pending'[h], state'[h]}
                       /\ state'[h] # None => \E a \in AgentsOf(h)' : a.claim = state'[h]
    BY DEF NoOrphan
  <2>1. \A a \in AgentsOf(h)' : a.claim \in {pending'[h], state'[h]}
    BY <1>1, <1>2, <1>4 DEF IInv, NoOrphan, AgentsOf, Claimed, files
  <2>2. state'[h] # None => \E a \in AgentsOf(h)' : a.claim = state'[h]
    BY <1>1, <1>4 DEF IInv, NoOrphan, AgentsOf, files
  <2>. QED  BY <2>1, <2>2
<1>. QED  BY <1>5, <1>6, <1>7, <1>8, <1>9, <1>10 DEF IInv

(* However a request ends, it leaves the invariant. *)
LEMMA RequestKeeps ==
  ASSUME IInv, NEW r \in requests,
         HandleLive(r) \/ HandleAnswerLost(r) \/ HandleLate(r) \/ LoseRequest(r)
  PROVE  IInv'
<1>1. TypeOK /\ r.host \in Hosts /\ r.live \in BOOLEAN
  BY DEF IInv, TypeOK, Requests
<1>2. CASE HandleLive(r)
  <2>1. CASE Granted(r)
    <3>1. pc' = [pc EXCEPT ![r.host] = "save"] /\ UNCHANGED << claim, faults >> /\ Handle(r) /\ r.live
      BY <1>2, <2>1 DEF HandleLive, At
    <3>. QED  BY <1>1, <2>1, <3>1, HandleKeeps DEF TypeOK
  <2>2. CASE ~Granted(r)
    <3>1. /\ pc' = [pc EXCEPT ![r.host] = "down"] /\ claim' = [claim EXCEPT ![r.host] = None]
          /\ UNCHANGED faults /\ Handle(r) /\ r.live
      BY <1>2, <2>2 DEF HandleLive, Exited
    <3>. QED  BY <1>1, <3>1, HandleKeeps DEF TypeOK
  <2>. QED  BY <2>1, <2>2
<1>3. CASE HandleAnswerLost(r)
  <2>1. /\ pc' = [pc EXCEPT ![r.host] = "down"] /\ claim' = [claim EXCEPT ![r.host] = None]
        /\ faults' \in 0 .. MaxFaults /\ Handle(r) /\ r.live
    BY <1>1, <1>3 DEF HandleAnswerLost, Exited, Fault, TypeOK
  <2>. QED  BY <1>1, <2>1, HandleKeeps DEF TypeOK
<1>4. CASE HandleLate(r)
  BY <1>1, <1>4, HandleKeeps DEF HandleLate, TypeOK
<1>5. CASE LoseRequest(r)
  <2>1. requests' \subseteq requests /\ UNCHANGED << database, files, pc, claim, drawn, faults >>
    BY <1>5 DEF LoseRequest
  <2>. QED  BY <2>1 DEF IInv, TypeOK, FilesHold, HostHolds, RequestsHeld, AgentsMade, GrantedKnown,
                        NoOrphan, AgentsOf, database, files
<1>. QED  BY <1>2, <1>3, <1>4, <1>5

-----------------------------------------------------------------------------
(* The invariant is inductive. *)
THEOREM Invariant == Spec => []IInv
<1>1. Init => IInv
  BY InitInvariant
<1>2. IInv /\ [Next]_vars => IInv'
  <2>. SUFFICES ASSUME IInv, [Next]_vars PROVE IInv'
    OBVIOUS
  <2>1. CASE Next
    BY <2>1, TokenKeeps, ReconfigureKeeps, ResolveKeeps, SendKeeps, CrashKeeps, RequestKeeps DEF Next, Step
  <2>2. CASE UNCHANGED vars
    BY <2>2 DEF vars, database, files, IInv, TypeOK, FilesHold, HostHolds, RequestsHeld, AgentsMade,
                GrantedKnown, NoOrphan, AgentsOf
  <2>. QED  BY <2>1, <2>2
<1>. QED  BY <1>1, <1>2, PTL DEF Spec

(* ResolveCredentials keeps the claim before it is sent and until its      *)
(* credentials are saved, so no agent the server made is without a host    *)
(* that can authenticate as it, and saved credentials always authenticate. *)
THEOREM NobodyIsOrphaned == Spec => []NoOrphan
BY Invariant, PTL DEF IInv

(* ClaimEnrollmentToken makes one agent of a token, and one of a host.     *)
THEOREM OneAgent == Spec => []OneAgentPerToken
<1>1. IInv => OneAgentPerToken
  <2>. SUFFICES ASSUME IInv, NEW a \in agents, NEW b \in agents, a.token = b.token \/ a.name = b.name
                PROVE  a = b
    BY DEF OneAgentPerToken
  <2>1. CASE a.token = b.token
    BY <2>1 DEF IInv, AgentsMade
  <2>2. CASE a.name = b.name
    <3>. DEFINE h == a.name
    <3>1. h \in Hosts /\ a.claim # None /\ b.claim # None /\ a \in AgentsOf(h) /\ b \in AgentsOf(h)
      BY <2>2 DEF IInv, TypeOK, AgentsOf
    <3>2. a.claim \in {pending[h], state[h]} /\ b.claim \in {pending[h], state[h]} /\ HostHolds(h)
      BY <3>1 DEF IInv, NoOrphan, FilesHold
    <3>3. a.claim = b.claim
      BY <3>1, <3>2 DEF HostHolds
    <3>. QED  BY <3>3 DEF IInv, AgentsMade
  <2>. QED  BY <2>1, <2>2
<1>. QED  BY <1>1, Invariant, PTL

=============================================================================

----------------------------- MODULE Enrollment -----------------------------
(***************************************************************************)
(* How an agent obtains its identity: ResolveCredentials of                *)
(* internal/agent/enrollment.go against ClaimEnrollmentToken of            *)
(* internal/store/store.go. A claim is drawn at random and kept in a file  *)
(* before it is sent; the token remembers the claim that used it, so that  *)
(* a host that lost the answer, or was restarted, may ask again. A host's  *)
(* process may die between any two steps, and any exchange may fail before *)
(* or after the server has handled the request, or be handled late.        *)
(***************************************************************************)
EXTENDS Naturals, FiniteSets

CONSTANTS
  Hosts,      \* agent installations, each with its name
  Tokens,     \* enrollment tokens
  Claims,     \* random pairs of a request identifier and an agent token
  None,
  MaxFaults   \* bound on crashes, lost exchanges and what operators undo

ASSUME NoneAssumption == None \notin Claims
ASSUME MaxFaultsAssumption == MaxFaults \in Nat

VARIABLES
  tokens,     \* the rows of enrollment_tokens
  agents,     \* the rows of agents
  given,      \* host -> the token it is configured with
  pending,    \* host -> the claim in the file of its pending enrollment
  state,      \* host -> the claim behind the credentials in its state file
  pc,         \* host -> where its process is in ResolveCredentials
  claim,      \* host -> the claim its process holds
  drawn,      \* claims drawn so far
  requests,   \* requests under way, live while their sender waits
  faults

database == << tokens, agents >>
files == << given, pending, state >>
vars == << database, files, pc, claim, drawn, requests, faults >>

Rows == [listed : BOOLEAN, used : BOOLEAN, expired : BOOLEAN, claim : Claims \cup {None}]

(* None, where there is no claim, is no row either. *)
ASSUME NoRowAssumption == None \notin Rows

Requests == [host : Hosts, token : Tokens, claim : Claims, live : BOOLEAN]

TypeOK ==
  /\ tokens \in [Tokens -> Rows \cup {None}]
  /\ agents \subseteq [claim : Claims, name : Hosts, token : Tokens]
  /\ given \in [Hosts -> Tokens]
  /\ pending \in [Hosts -> Claims \cup {None}]
  /\ state \in [Hosts -> Claims \cup {None}]
  /\ pc \in [Hosts -> {"down", "start", "draw", "keep", "send", "wait", "save", "tidy", "running"}]
  /\ claim \in [Hosts -> Claims \cup {None}]
  /\ drawn \subseteq Claims
  /\ requests \subseteq Requests
  /\ faults \in 0 .. MaxFaults

Init ==
  /\ tokens = [t \in Tokens |-> None]
  /\ agents = {}
  /\ given \in [Hosts -> Tokens]
  /\ pending = [h \in Hosts |-> None]
  /\ state = [h \in Hosts |-> None]
  /\ pc = [h \in Hosts |-> "down"]
  /\ claim = [h \in Hosts |-> None]
  /\ drawn = {}
  /\ requests = {}
  /\ faults = 0

Fault == faults < MaxFaults /\ faults' = faults + 1

-----------------------------------------------------------------------------
(* The administrator and time. A token is drawn at random, so never issued  *)
(* twice: the row of a deleted one is kept as no longer listed.             *)

Listed(t) == tokens[t] # None /\ tokens[t].listed
Usable(t) == Listed(t) /\ ~tokens[t].used /\ ~tokens[t].expired

CreateEnrollmentToken(t) ==
  /\ tokens[t] = None
  /\ tokens' = [tokens EXCEPT ![t] = [listed |-> TRUE, used |-> FALSE, expired |-> FALSE, claim |-> None]]
  /\ UNCHANGED << agents, files, pc, claim, drawn, requests, faults >>

TokenExpires(t) ==
  /\ Listed(t)
  /\ ~tokens[t].expired
  /\ tokens' = [tokens EXCEPT ![t].expired = TRUE]
  /\ UNCHANGED << agents, files, pc, claim, drawn, requests, faults >>

DeleteEnrollmentToken(t) ==
  /\ Listed(t)
  /\ Fault
  /\ tokens' = [tokens EXCEPT ![t].listed = FALSE]
  /\ UNCHANGED << agents, files, pc, claim, drawn, requests >>

(* An older agent enrolls without a claim; it is not followed further. *)
ConsumeEnrollmentToken(t) ==
  /\ Usable(t)
  /\ tokens' = [tokens EXCEPT ![t].used = TRUE]
  /\ Fault
  /\ UNCHANGED << agents, files, pc, claim, drawn, requests >>

-----------------------------------------------------------------------------
(* ResolveCredentials.                                                     *)

At(h, from, to) ==
  /\ pc[h] = from
  /\ pc' = [pc EXCEPT ![h] = to]

(* An operator configures another token. *)
Reconfigure(h) ==
  /\ pc[h] = "down"
  /\ Fault
  /\ \E t \in Tokens \ {given[h]} : given' = [given EXCEPT ![h] = t]
  /\ UNCHANGED << database, pending, state, pc, claim, drawn, requests >>

Boot(h) ==
  /\ At(h, "down", "start")
  /\ UNCHANGED << database, files, claim, drawn, requests, faults >>

(* Saved credentials are final. *)
UseSaved(h) ==
  /\ At(h, "start", "running")
  /\ state[h] # None
  /\ pending' = [pending EXCEPT ![h] = None]
  /\ UNCHANGED << database, given, state, claim, drawn, requests, faults >>

UsePending(h) ==
  /\ At(h, "start", "send")
  /\ state[h] = None
  /\ pending[h] # None
  /\ claim' = [claim EXCEPT ![h] = pending[h]]
  /\ UNCHANGED << database, files, drawn, requests, faults >>

Draw(h) ==
  /\ At(h, "start", "keep")
  /\ state[h] = None
  /\ pending[h] = None
  /\ \E c \in Claims \ drawn :
       /\ claim' = [claim EXCEPT ![h] = c]
       /\ drawn' = drawn \cup {c}
  /\ UNCHANGED << database, files, requests, faults >>

(* Mutant: the claim is not kept before it is sent. *)
KeepNothing(h) ==
  /\ At(h, "keep", "send")
  /\ UNCHANGED << database, files, claim, drawn, requests, faults >>

(* SaveCredentials: written aside, synced and renamed. *)
Keep(h) ==
  /\ At(h, "keep", "send")
  /\ pending' = [pending EXCEPT ![h] = claim[h]]
  /\ UNCHANGED << database, given, state, claim, drawn, requests, faults >>

Request(h) == [host |-> h, token |-> given[h], claim |-> claim[h], live |-> TRUE]

Send(h) ==
  /\ At(h, "send", "wait")
  /\ requests' = requests \cup {Request(h)}
  /\ UNCHANGED << database, files, claim, drawn, faults >>

Save(h) ==
  /\ At(h, "save", "tidy")
  /\ state' = [state EXCEPT ![h] = claim[h]]
  /\ UNCHANGED << database, given, pending, claim, drawn, requests, faults >>

Tidy(h) ==
  /\ At(h, "tidy", "running")
  /\ pending' = [pending EXCEPT ![h] = None]
  /\ UNCHANGED << database, given, state, claim, drawn, requests, faults >>

(* The process exits with an error, or dies; its supervisor restarts it. *)
Exited(h) ==
  /\ pc' = [pc EXCEPT ![h] = "down"]
  /\ claim' = [claim EXCEPT ![h] = None]

Abandoned(h) == {IF r.host = h THEN [r EXCEPT !.live = FALSE] ELSE r : r \in requests}

Crash(h) ==
  /\ pc[h] # "down"
  /\ Fault
  /\ Exited(h)
  /\ requests' = Abandoned(h)
  /\ UNCHANGED << database, files, drawn >>

-----------------------------------------------------------------------------
(* ClaimEnrollmentToken, one transaction.                                  *)

Claimed(r) == [claim |-> r.claim, name |-> r.host, token |-> r.token]

(* Mutant: once expired, a token answers no claim. *)
RepeatedUnexpired(r) ==
  LET row == tokens[r.token] IN
  Listed(r.token) /\ row.used /\ ~row.expired /\ row.claim = r.claim /\ Claimed(r) \in agents

(* The answer to the claim that used the token is given again. *)
Repeated(r) ==
  LET row == tokens[r.token] IN
  Listed(r.token) /\ row.used /\ row.claim = r.claim /\ Claimed(r) \in agents

(* Mutant: agents are not kept apart by their secrets. *)
FreshAnySecret(r) == Usable(r.token)

(* An unused token makes an agent, unless an agent has that secret already *)
(* (token_hash is UNIQUE): then the whole transaction is undone.           *)
Fresh(r) == Usable(r.token) /\ \A a \in agents : a.claim # r.claim

Granted(r) == Repeated(r) \/ Fresh(r)

ClaimEnrollmentToken(r) ==
  IF Fresh(r)
    THEN /\ tokens' = [tokens EXCEPT ![r.token].used = TRUE, ![r.token].claim = r.claim]
         /\ agents' = agents \cup {Claimed(r)}
    ELSE UNCHANGED database

Handle(r) ==
  /\ r \in requests
  /\ requests' = requests \ {r}
  /\ ClaimEnrollmentToken(r)
  /\ UNCHANGED << files, drawn >>

HandleLive(r) ==
  /\ Handle(r)
  /\ r.live
  /\ IF Granted(r) THEN At(r.host, "wait", "save") /\ UNCHANGED claim ELSE Exited(r.host)
  /\ UNCHANGED faults

HandleAnswerLost(r) ==
  /\ Handle(r)
  /\ r.live
  /\ Fault
  /\ Exited(r.host)

HandleLate(r) ==
  /\ Handle(r)
  /\ ~r.live
  /\ UNCHANGED << pc, claim, faults >>

LoseRequest(r) ==
  /\ r \in requests
  /\ ~r.live
  /\ requests' = requests \ {r}
  /\ UNCHANGED << database, files, pc, claim, drawn, faults >>

Step(h) ==
  \/ Boot(h) \/ UseSaved(h) \/ UsePending(h) \/ Draw(h) \/ Keep(h) \/ Send(h) \/ Save(h) \/ Tidy(h)
  \/ \E r \in requests : r.host = h /\ HandleLive(r)

Next ==
  \/ \E t \in Tokens :
       \/ CreateEnrollmentToken(t) \/ TokenExpires(t)
       \/ DeleteEnrollmentToken(t) \/ ConsumeEnrollmentToken(t)
  \/ \E h \in Hosts : Step(h) \/ Crash(h) \/ Reconfigure(h)
  \/ \E r \in requests : HandleAnswerLost(r) \/ HandleLate(r) \/ LoseRequest(r)

Spec == Init /\ [][Next]_vars

(* A supervisor restarts the process, and the server answers. *)
Fairness == \A h \in Hosts : WF_vars(Step(h))

FairSpec == Spec /\ Fairness

-----------------------------------------------------------------------------
AgentsOf(h) == {a \in agents : a.name = h}

(* Whatever was lost, late or crashed, the host of an agent the server     *)
(* knows still holds its claim, in one file or the other, and the server   *)
(* knows the agent of every host that runs: no identity is orphaned, and   *)
(* credentials that are saved authenticate.                                *)
NoOrphan ==
  \A h \in Hosts :
    /\ \A a \in AgentsOf(h) : a.claim \in {pending[h], state[h]}
    /\ state[h] # None => \E a \in AgentsOf(h) : a.claim = state[h]

(* A token makes one agent, however often it is presented and by whomever, *)
(* and a host is never made an agent twice.                                *)
OneAgentPerToken ==
  \A a, b \in agents : a.token = b.token \/ a.name = b.name => a = b

MadeBy(h, t) == \E a \in AgentsOf(h) : a.token = t

(* A host that the server has made an agent gets through to running, as    *)
(* long as the token that made it stays in the list and in the host's      *)
(* configuration: its expiry does not stand in the way. A token that is    *)
(* deleted while its agent has no answer yet does: EnrolledUnaffected.     *)
GrantedRuns ==
  \A h \in Hosts, t \in Tokens :
    MadeBy(h, t) ~> (pc[h] = "running" \/ ~Listed(t) \/ given[h] # t)

(* What the comment on DeleteEnrollmentToken (internal/store/lists.go:38)  *)
(* promises: used tokens are simply removed from the list, and enrolled    *)
(* agents are never affected. A host that is made an agent gets through to *)
(* running whether or not its token is deleted.                            *)
EnrolledUnaffected ==
  \A h \in Hosts, t \in Tokens :
    MadeBy(h, t) ~> (pc[h] = "running" \/ given[h] # t)
=============================================================================

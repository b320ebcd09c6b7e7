---------------------------- MODULE Publication -----------------------------
(***************************************************************************)
(* What the control plane promises about public traffic, without agents,   *)
(* revisions or messages: a route is published only as the configuration   *)
(* its administrator wants now. Changing a route withdraws it in the same  *)
(* step; publishing it again takes the configuration wanted at that time.  *)
(***************************************************************************)
CONSTANTS Ids, Wants, Unpublished

VARIABLES
  wanted,   \* identifier of an existing route -> what is wanted of it
  live      \* identifier of an existing route -> what traffic reaches

vars == << wanted, live >>

Init ==
  /\ wanted = [i \in {} |-> Unpublished]
  /\ live = [i \in {} |-> Unpublished]

Configure(id, w) ==
  /\ wanted' = [i \in DOMAIN wanted \cup {id} |-> IF i = id THEN w ELSE wanted[i]]
  /\ live' = [i \in DOMAIN wanted \cup {id} |-> IF i = id THEN Unpublished ELSE live[i]]

Remove(id) ==
  /\ id \in DOMAIN wanted
  /\ wanted' = [i \in DOMAIN wanted \ {id} |-> wanted[i]]
  /\ live' = [i \in DOMAIN wanted \ {id} |-> live[i]]

(* Routes are published and withdrawn together, as their agents are heard. *)
Refresh(published) ==
  /\ live' = [i \in DOMAIN wanted |-> IF i \in published THEN wanted[i] ELSE Unpublished]
  /\ UNCHANGED wanted

Next ==
  \/ \E id \in Ids, w \in Wants : Configure(id, w)
  \/ \E id \in Ids : Remove(id)
  \/ \E published \in SUBSET Ids : Refresh(published)

Spec == Init /\ [][Next]_vars
=============================================================================

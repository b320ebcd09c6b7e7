------------------------------- MODULE Routes -------------------------------
(***************************************************************************)
(* The route vocabulary of internal/domain: what a route configuration is, *)
(* which ones Validate accepts, how it normalises the public port, and     *)
(* when a stored row may receive public traffic.                           *)
(*                                                                         *)
(* A configuration is the part of a route an administrator writes:         *)
(*   protocol     one of the four protocols (anything else is invalid)     *)
(*   domain       an opaque canonical host name, or NoDomain               *)
(*   path_prefix  the segments of the prefix; <<>> is the whole domain     *)
(*   strip_path   whether the gateway removes the prefix                   *)
(*   public_port  0 when a web route leaves the default port               *)
(*   target       the local host and port the agent forwards to            *)
(*   enabled      whether the route is to be published                     *)
(* Name and tunnel group carry no behaviour and are left out.              *)
(***************************************************************************)
EXTENDS Naturals, Sequences

CONSTANT NoDomain

IsWeb(protocol) == protocol \in {"http", "https"}
IsStream(protocol) == protocol \in {"tcp", "udp"}

DefaultPublicPort(protocol) ==
  CASE protocol = "http"  -> 80
    [] protocol = "https" -> 443
    [] OTHER              -> 0

(* The port a stored configuration occupies on the public side. *)
EffectivePublicPort(config) ==
  IF IsWeb(config.protocol) /\ config.public_port = 0
    THEN DefaultPublicPort(config.protocol)
    ELSE config.public_port

(* A prefix covers whole segments only: /ab is not below /a. *)
MatchesPath(config, path) ==
  /\ Len(config.path_prefix) <= Len(path)
  /\ \A i \in 1 .. Len(config.path_prefix) : config.path_prefix[i] = path[i]

MaxPort == 65535

ValidWeb(config) ==
  /\ IsWeb(config.protocol)
  /\ config.domain # NoDomain
  /\ config.strip_path => config.path_prefix # << >>
  /\ config.public_port \in 0 .. MaxPort

ValidStream(config) ==
  /\ IsStream(config.protocol)
  /\ config.domain = NoDomain
  /\ config.path_prefix = << >>
  /\ ~config.strip_path
  /\ config.public_port \in 1 .. MaxPort

Valid(config) == ValidWeb(config) \/ ValidStream(config)

(* Validate stores a web route on its protocol's own port as port 0. *)
Normalized(config) ==
  IF IsWeb(config.protocol) /\ config.public_port = DefaultPublicPort(config.protocol)
    THEN [config EXCEPT !.public_port = 0]
    ELSE config

(* Two web rows the unique index routes_web_endpoint keeps apart, or two   *)
(* stream rows routes_stream_port keeps apart.                             *)
SameEndpoint(c, d) ==
  \/ /\ IsWeb(c.protocol)
     /\ c.protocol = d.protocol
     /\ c.domain = d.domain
     /\ c.public_port = d.public_port
     /\ c.path_prefix = d.path_prefix
  \/ /\ IsStream(c.protocol)
     /\ IsStream(d.protocol)
     /\ c.public_port > 0
     /\ c.public_port = d.public_port

(* PublicationReadyAt, with the age of the agent's last accepted report    *)
(* ("never", "fresh" up to AgentHeartbeatFreshness, "stale" beyond it) in  *)
(* place of the two timestamps the code subtracts.                         *)
PublicationReady(row, last_seen) ==
  /\ row.config.enabled
  /\ row.tunnel_status = "up"
  /\ row.observed_revision >= row.desired_revision
  /\ last_seen = "fresh"
=============================================================================

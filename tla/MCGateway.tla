------------------------------ MODULE MCGateway ------------------------------
(* Gateway on requests that collide in every way the store's checks and    *)
(* the gateway's matching tell apart.                                      *)
EXTENDS Gateway, TLC

CONSTANTS a1, a2, r1, r2, shop, console

Web(protocol, domain, prefix, port, target) ==
  [protocol |-> protocol, domain |-> domain, path_prefix |-> prefix,
   strip_path |-> FALSE, public_port |-> port, target |-> target, enabled |-> TRUE]

Stream(protocol, port) ==
  [protocol |-> protocol, domain |-> NoDomain, path_prefix |-> << >>,
   strip_path |-> FALSE, public_port |-> port, target |-> 1, enabled |-> TRUE]

MCRequests ==
  { Web("https", console, <<"app">>, 443, 1),         \* beside the console; stored as port 0
    Web("https", console, <<"app", "api">>, 0, 2),    \* below it, elsewhere
    Web("https", console, <<"api">>, 0, 1),           \* the control plane's own path
    Web("https", console, << >>, 0, 1),
    Web("https", shop, << >>, 8443, 1),
    Web("http",  shop, << >>, 8443, 1),               \* other scheme on that port
    Web("http",  shop, << >>, 443, 1),                \* reserved port
    Web("http",  shop, <<".well-known", "acme-challenge", "app">>, 0, 1),
    Stream("tcp", 8443),                              \* stream on a web port
    Stream("tcp", 80) }                               \* reserved port

MCListeners ==
  { [scheme |-> "https", port |-> 443,  default |-> TRUE],
    [scheme |-> "http",  port |-> 80,   default |-> TRUE],
    [scheme |-> "https", port |-> 8443, default |-> FALSE],
    [scheme |-> "http",  port |-> 8443, default |-> FALSE],
    [scheme |-> "",      port |-> 8081, default |-> FALSE] }

MCPaths ==
  { << >>, <<"app">>, <<"api">>, <<"app", "api">>,
    <<".well-known", "acme-challenge", "app">> }

MCChallengePrefix == <<".well-known", "acme-challenge">>

(* At most three changes of configuration in all, and whoever can be let   *)
(* in registers before the first of them.                                  *)
FewChanges ==
  /\ agents[a1].desired_revision + agents[a2].desired_revision <= 3
  /\ issued # {} => \A a \in Agents \ letIn : ~Writable(letIn \cup {a})

Symmetry == {p @@ q @@ r : p \in Permutations(RouteIds), q \in Permutations(Agents),
                           r \in Permutations(Addresses)}
=============================================================================

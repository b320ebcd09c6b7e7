-------------------------------- MODULE Server --------------------------------
(***************************************************************************)
(* The life of the server program (cmd/server/main.go, run): it opens the  *)
(* database and migrates it (internal/store/store.go, migrate), rebuilds   *)
(* authorized_keys, serves, and shuts down when it is told to or one of    *)
(* its listeners fails; it may die anywhere, and is started again. Of what *)
(* it serves the extra web ports are here. The migration to version 5      *)
(* decides on their schemes; each of its statements commits by itself.     *)
(***************************************************************************)
EXTENDS WebPorts

VARIABLES
  schema,  \* what the database has of version 5, and of earlier ones
  stage,   \* how far run is
  asked    \* id -> the scheme an administrator last asked for (history)

serverVars == << vars, schema, stage, asked >>

Columns == {"path_prefix", "strip_path"}
Indexes == {"routes_web_endpoint", "routes_stream_port"}

(* An empty database, or one of an earlier version: that stored as http    *)
(* what it published as https, always on the edge's own port.              *)
ServerInit ==
  /\ foreign = {} /\ faults = 0
  /\ NoServers
  /\ desired = Clear /\ built = Clear /\ statuses = Clear
  /\ pc = "idle"
  /\ \/ schema = {} /\ routes = [i \in Ids |-> None]
     \/ schema = {"routes_http_domain"} /\ routes \in [Ids -> {None, [port |-> None, scheme |-> "http"]}]
  /\ stage = "down"
  /\ asked = [i \in Ids |-> IF routes[i] = None THEN None ELSE "https"]

-----------------------------------------------------------------------------
(* Start: the migration.                                                   *)

Goes(to) ==
  /\ stage' = to
  /\ UNCHANGED << foreign, serverOf, poll, pc, faults, asked >>

Migrated == "version 5" \in schema

(* Mutant: the index goes before the rows it marks are rewritten. *)
AfterDropFirst(statement) ==
  CASE statement = "add columns" ->
         IF "routes_http_domain" \in schema THEN "drop index" ELSE "create indexes"
    [] statement = "drop index" -> "rewrite"
    [] statement = "rewrite" -> "create indexes"
    [] statement = "create indexes" -> "record"

(* The order of the statements. *)
After(statement) ==
  CASE statement = "add columns" ->
         IF "routes_http_domain" \in schema THEN "rewrite" ELSE "create indexes"
    [] statement = "rewrite" -> "drop index"
    [] statement = "drop index" -> "create indexes"
    [] statement = "create indexes" -> "record"

Open ==
  /\ stage = "down"
  /\ Goes(IF Migrated THEN "keys" ELSE "add columns")
  /\ UNCHANGED << routes, schema >>

(* Mutant: the last column is added unseen, which fails when it is there. *)
AddColumnsBlindly ==
  /\ stage = "add columns"
  /\ \/ "path_prefix" \notin schema /\ schema' = schema \cup {"path_prefix"} /\ Goes(stage)
     \/ /\ "path_prefix" \in schema
        /\ schema' = schema \cup {"strip_path"}
        /\ Goes(IF "strip_path" \in schema THEN "down" ELSE After(stage))
  /\ UNCHANGED routes

AddColumns ==
  /\ stage = "add columns"
  /\ \/ \E c \in Columns \ schema : schema' = schema \cup {c} /\ Goes(stage)
     \/ /\ Columns \subseteq schema
        /\ Goes(After(stage))
        /\ UNCHANGED schema
  /\ UNCHANGED routes

Rewrite ==
  /\ stage = "rewrite"
  /\ routes' = [i \in Ids |->
                  IF routes[i] = None THEN None ELSE [routes[i] EXCEPT !.scheme = "https"]]
  /\ Goes(After(stage))
  /\ UNCHANGED schema

DropIndex ==
  /\ stage = "drop index"
  /\ schema' = schema \ {"routes_http_domain"}
  /\ Goes(After(stage))
  /\ UNCHANGED routes

CreateIndexes ==
  /\ stage = "create indexes"
  /\ schema' = schema \cup Indexes
  /\ Goes(After(stage))
  /\ UNCHANGED routes

Record ==
  /\ stage = "record"
  /\ schema' = schema \cup {"version 5"}
  /\ Goes("keys")
  /\ UNCHANGED routes

(* syncAuthorizedKeys, and everything is served. *)
Serve ==
  /\ stage = "keys"
  /\ Goes("up")
  /\ UNCHANGED << routes, schema >>

Start ==
  Open \/ AddColumns \/ Rewrite \/ DropIndex \/ CreateIndexes \/ Record \/ Serve

-----------------------------------------------------------------------------
(* While it serves; and its end. Its sockets go with the process.          *)

Serving(step) ==
  /\ stage = "up"
  /\ step
  /\ UNCHANGED << schema, stage, asked >>

Administer(i) ==
  /\ stage = "up"
  /\ Configure(i) \/ Withdraw(i)
  /\ asked' = [asked EXCEPT ![i] = IF routes'[i] = None THEN None ELSE routes'[i].scheme]
  /\ UNCHANGED << schema, stage >>

Ends ==
  /\ stage' = "down"
  /\ listening' = Clear /\ servers' = Clear
  /\ serve' = [p \in Ports |-> "off"] /\ halting' = None /\ gaveUp' = {}
  /\ desired' = Clear /\ built' = Clear /\ statuses' = Clear
  /\ pc' = "idle"
  /\ UNCHANGED << routes, foreign, schema, asked >>

(* run waits for the PortsManager, though not for longer than ten seconds. *)
ShutDown ==
  /\ stage = "up"
  /\ pc = "done"
  /\ Ends
  /\ UNCHANGED faults

(* A failed statement or write, a shutdown that timed out, or a crash. *)
Dies ==
  /\ stage # "down"
  /\ Fault
  /\ Ends

ServerNext ==
  \/ Start \/ ShutDown \/ Dies
  \/ Serving(Reconcile) \/ Serving(ListFails) \/ Serving(Cancel)
  \/ \E i \in Ids : Administer(i)
  \/ \E p \in Ports :
       \/ Serving(Goroutine(p)) \/ Serving(ServeFails(p)) \/ Serving(WaitTimesOut(p))
       \/ OtherProgram(p) /\ UNCHANGED << schema, stage, asked >>

(* The supervisor starts the program again, and it and its goroutines go on. *)
ServerSpec ==
  /\ ServerInit /\ [][ServerNext]_serverVars
  /\ WF_serverVars(Start) /\ WF_serverVars(ShutDown) /\ WF_serverVars(Serving(Reconcile))
  /\ \A p \in Ports : WF_serverVars(Serving(Goroutine(p)))

-----------------------------------------------------------------------------
(* "those rows are rewritten to 'https' exactly once"                      *)
(* (ensureWebRouteSchema): wherever the migration was interrupted, every   *)
(* route that is served has the scheme it was last published with, and no  *)
(* later start takes a new http route for an old one.                      *)
SchemesKept ==
  stage = "up" => \A i \in Ids : routes[i] # None => routes[i].scheme = asked[i]

(* However often it died on the way, the server comes up, and serves every *)
(* port with the scheme its routes agree on, once routes and other         *)
(* programs are left alone; except where another program holds the port,   *)
(* or a server of that scheme stopped by itself, which reconcile does not  *)
(* look for.                                                               *)
ComesUp ==
  <>[][UNCHANGED << routes, foreign >>]_serverVars
    => <>[](/\ stage = "up"
            /\ \A p \in Ports \ foreign : listening[p] = Served(p) \/ Dead(p))
=============================================================================

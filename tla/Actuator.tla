------------------------------ MODULE Actuator ------------------------------
(***************************************************************************)
(* The health and readiness endpoints over the databases of all tenants.   *)
(*                                                                         *)
(* A probe builds a new DataSource for every entry of the configuration    *)
(* (getDataSources), initializes it and sends it a statement: readiness    *)
(* one after the other, health all at once.  None of these DataSources is  *)
(* destroyed: their sessions stay until the pool's idle time-out ends      *)
(* them, and count against the limit of the server meanwhile.              *)
(*                                                                         *)
(* A server is up or down; it may take its time, which the time limit of a *)
(* ping then shows.                                                        *)
(***************************************************************************)
EXTENDS Naturals, FiniteSets

CONSTANTS Probes,       \* requests to the endpoints that may be under way
          Connections,  \* databases.connections, in the order of the file
          DefaultPool,  \* databases.pool
          NoPool,       \* an entry without a pool of its own
          Limit         \* the sessions that a server grants to probes

Targets == DOMAIN Connections

ASSUME ConfigurationAssumption ==
    /\ IsFiniteSet(Targets)
    /\ Targets = 1 .. Cardinality(Targets)
    /\ Targets # {}
    /\ \A d \in Targets : Limit[d] \in Nat

ASSUME ProbesAssumption == IsFiniteSet(Probes)

\* An entry as a DatabaseConfig, its pool filled in before.
mapTo(entry) ==
    [database |-> entry.database, schema |-> entry.schema,
     idleTimeoutMillis |-> IF entry.pool = NoPool
                           THEN DefaultPool.idleTimeoutMillis
                           ELSE entry.pool.idleTimeoutMillis]

getAllConfigs == [d \in Targets |-> mapTo(Connections[d])]

\* The name under which the answer reports on a database.
getDBName(d) == <<getAllConfigs[d].database, getAllConfigs[d].schema>>

Names == {getDBName(d) : d \in Targets}

VARIABLES
    server,    \* the server of each target: "up" or "down"
    sessions,  \* the sessions of probes at each server
    probe,     \* each request under way: its endpoint, and what it has found
    check,     \* how far it is with each target
    wasUp,     \* history: the servers that were up during the request
    wasAway    \* history: those that were down, slow or full during it

vars == <<server, sessions, probe, check, wasUp, wasAway>>

Unasked ==
    [endpoint |-> "none", at |-> 0, allReady |-> TRUE,
     details |-> [n \in Names |-> "absent"]]

Init ==
    /\ server = [d \in Targets |-> "up"]
    /\ sessions = [d \in Targets |-> 0]
    /\ probe = [p \in Probes |-> Unasked]
    /\ check = [p \in Probes |-> [d \in Targets |-> "todo"]]
    /\ wasUp = [p \in Probes |-> {}]
    /\ wasAway = [p \in Probes |-> {}]

-----------------------------------------------------------------------------
UnderWay(p) == probe[p].endpoint # "none"

\* Requests that use a client at a target; a ping that was given up does, too.
Using(d) == {p \in Probes : check[p][d] \in {"querying", "given up"}}

Full(d) == sessions[d] >= Limit[d]

\* The history of the requests that are under way after a step.
Watch ==
    /\ wasUp' = [p \in Probes |->
          IF ~UnderWay(p)' THEN {}
          ELSE wasUp[p] \cup {d \in Targets : server'[d] = "up"}]
    /\ wasAway' = [p \in Probes |->
          IF ~UnderWay(p)' THEN {}
          ELSE wasAway[p] \cup {d \in Targets : \/ server'[d] = "down"
                                                \/ Full(d)'
                                                \/ check'[p][d] = "given up"}]

\* A request comes in, and getDataSources gives it DataSources of its own:
\* health starts with all of them, readiness with the first.
Ask(p, endpoint) ==
    /\ ~UnderWay(p)
    /\ \A d \in Targets : p \notin Using(d)
    /\ probe' = [probe EXCEPT ![p] =
                   [Unasked EXCEPT !.endpoint = endpoint, !.at = 1]]
    /\ check' = [check EXCEPT ![p] = [d \in Targets |->
                   IF endpoint = "health" \/ d = 1 THEN "initializing"
                                                   ELSE "todo"]]
    /\ UNCHANGED <<server, sessions>>

\* A wrong version: the last database decides.
ReportLast(p, d, result) ==
    probe' = [probe EXCEPT
        ![p].at = d + 1,
        ![p].allReady = (result = "ready"),
        ![p].details[getDBName(d)] = result]

\* readinessDetails and allReady.
Report(p, d, result) ==
    probe' = [probe EXCEPT
        ![p].at = d + 1,
        ![p].allReady = @ /\ result = "ready",
        ![p].details[getDBName(d)] = result]

\* A wrong version: readiness tries a database until it is ready.
ConcludeReady(p, d, result) ==
    IF probe[p].endpoint = "readiness" /\ result # "ready"
    THEN /\ check' = [check EXCEPT ![p][d] = "initializing"]
         /\ UNCHANGED probe
    ELSE /\ Report(p, d, "ready")
         /\ check' = [check EXCEPT ![p] = [e \in Targets |->
                IF e = d THEN result
                ELSE IF e = d + 1 /\ @[e] = "todo" THEN "initializing" ELSE @[e]]]

\* One target is done; readiness goes on to the next one.
Conclude(p, d, result) ==
    IF probe[p].endpoint = "readiness"
    THEN /\ Report(p, d, IF result = "ready" THEN "ready" ELSE "not connected")
         /\ check' = [check EXCEPT ![p] = [e \in Targets |->
                IF e = d THEN result
                ELSE IF e = d + 1 THEN "initializing" ELSE @[e]]]
    ELSE /\ check' = [check EXCEPT ![p][d] = result]
         /\ UNCHANGED probe

\* initialize() opens a session.
InitializeOk(p, d) ==
    /\ check[p][d] = "initializing"
    /\ server[d] = "up"
    /\ ~Full(d)
    /\ sessions' = [sessions EXCEPT ![d] = @ + 1]
    /\ check' = [check EXCEPT ![p][d] = "querying"]
    /\ UNCHANGED <<server, probe>>

\* initialize() rejects: a plain error, which healthCheck does not catch.
InitializeFail(p, d) ==
    /\ check[p][d] = "initializing"
    /\ server[d] = "down" \/ Full(d)
    /\ Conclude(p, d, "thrown")
    /\ UNCHANGED <<server, sessions>>

\* SELECT 1 is answered; the client goes back to its pool.
QueryOk(p, d) ==
    /\ check[p][d] = "querying"
    /\ Conclude(p, d, "ready")
    /\ UNCHANGED <<server, sessions>>

\* The connection has ended.
QueryFail(p, d) ==
    /\ check[p][d] = "broken"
    /\ Conclude(p, d, "down")
    /\ UNCHANGED <<server, sessions>>

\* pingCheck has a time limit, and reports the database as down; its
\* statement goes on.
PingTimeout(p, d) ==
    /\ probe[p].endpoint = "health"
    /\ check[p][d] = "querying"
    /\ check' = [check EXCEPT ![p][d] = "given up"]
    /\ UNCHANGED <<server, sessions, probe>>

PingEnds(p, d) ==
    /\ check[p][d] = "given up"
    /\ check' = [check EXCEPT ![p][d] = IF UnderWay(p) THEN "down" ELSE "todo"]
    /\ UNCHANGED <<server, sessions, probe>>

\* HttpExceptions keep their status, anything else is an internal error.
CustomExceptionFilter(exception) ==
    IF exception = "ServiceUnavailableException" THEN 503 ELSE 500

\* A wrong version: the first error is answered at once.
HealthCheckAll(p) ==
    LET is(result) == \E d \in Targets : check[p][d] = result
    IN  IF is("thrown") THEN CustomExceptionFilter("Error")
        ELSE IF is("initializing") \/ is("querying") \/ is("broken") THEN 0
        ELSE IF is("down") \/ is("given up")
             THEN CustomExceptionFilter("ServiceUnavailableException")
             ELSE 200

\* check() of terminus: 0 until every check has settled.
HealthCheck(p) ==
    LET is(result) == \E d \in Targets : check[p][d] = result
    IN  IF is("initializing") \/ is("querying") \/ is("broken") THEN 0
        ELSE IF is("thrown") THEN CustomExceptionFilter("Error")
        ELSE IF is("down") \/ is("given up")
             THEN CustomExceptionFilter("ServiceUnavailableException")
             ELSE 200

\* Readiness answers with 200, whatever it has found.
Readiness(p) == IF probe[p].at \in Targets THEN 0 ELSE 200

Status(p) ==
    IF probe[p].endpoint = "health" THEN HealthCheck(p) ELSE Readiness(p)

\* The answer is sent; what is not settled stays.
Answer(p) ==
    /\ UnderWay(p)
    /\ Status(p) # 0
    /\ probe' = [probe EXCEPT ![p] = Unasked]
    /\ check' = [check EXCEPT ![p] = [d \in Targets |->
                   IF @[d] \in {"ready", "down", "thrown"} THEN "todo" ELSE @[d]]]
    /\ UNCHANGED <<server, sessions>>

\* A wrong version: the pool keeps a minimum of sessions, minConnections.
IdleTimeoutAboveOne(d) ==
    /\ getAllConfigs[d].idleTimeoutMillis > 0
    /\ sessions[d] > Cardinality(Using(d)) + 1
    /\ sessions' = [sessions EXCEPT ![d] = @ - 1]
    /\ UNCHANGED <<server, probe, check>>

\* A pool ends a session that nobody has used for idleTimeoutMillis.
IdleTimeout(d) ==
    /\ getAllConfigs[d].idleTimeoutMillis > 0
    /\ sessions[d] > Cardinality(Using(d))
    /\ sessions' = [sessions EXCEPT ![d] = @ - 1]
    /\ UNCHANGED <<server, probe, check>>

\* A server goes down, and every session with it.
GoDown(d) ==
    /\ server[d] = "up"
    /\ server' = [server EXCEPT ![d] = "down"]
    /\ sessions' = [sessions EXCEPT ![d] = 0]
    /\ check' = [p \in Probes |-> [check[p] EXCEPT ![d] =
                   IF @ = "querying" THEN "broken"
                   ELSE IF @ # "given up" THEN @
                   ELSE IF UnderWay(p) THEN "down" ELSE "todo"]]
    /\ UNCHANGED probe

ComeUp(d) ==
    /\ server[d] = "down"
    /\ server' = [server EXCEPT ![d] = "up"]
    /\ UNCHANGED <<sessions, probe, check>>

\* The next thing that happens to one check of a request.
Proceed(p, d) ==
    \/ InitializeOk(p, d) \/ InitializeFail(p, d)
    \/ QueryOk(p, d) \/ QueryFail(p, d) \/ PingEnds(p, d)

Step ==
    \/ \E p \in Probes : Ask(p, "health") \/ Ask(p, "readiness") \/ Answer(p)
    \/ \E p \in Probes, d \in Targets : Proceed(p, d) \/ PingTimeout(p, d)
    \/ \E d \in Targets :
          IdleTimeout(d) \/ GoDown(d) \/ ComeUp(d)

Next == Step /\ Watch

Spec == Init /\ [][Next]_vars

\* Connections and statements end, if only by their own time-outs.
FairSpec ==
    /\ Spec
    /\ \A p \in Probes, d \in Targets : WF_vars(Proceed(p, d) /\ Watch)
    /\ \A p \in Probes : WF_vars(Answer(p) /\ Watch)
    /\ \A d \in Targets : WF_vars(IdleTimeout(d) /\ Watch)

-----------------------------------------------------------------------------
\* Every variable has its type; sessions in use are alive and counted, no server
\* has more than it grants, and nothing is awaited for a request that was
\* answered, except a ping that was given up (initialize, query, check).
ActuatorTypeOK ==
    /\ server \in [Targets -> {"up", "down"}]
    /\ sessions \in [Targets -> Nat]
    /\ \A d \in Targets : sessions[d] \in Cardinality(Using(d)) .. Limit[d]
    /\ probe \in [Probes ->
          [endpoint : {"none", "health", "readiness"},
           at : Nat, allReady : BOOLEAN,
           details : [Names -> {"absent", "ready", "not connected"}]]]
    /\ check \in [Probes -> [Targets ->
          {"todo", "initializing", "querying", "broken", "given up",
           "ready", "down", "thrown"}]]
    /\ \A p \in Probes, d \in Targets :
          ~UnderWay(p) => check[p][d] \in {"todo", "given up"}
    /\ wasUp \in [Probes -> SUBSET Targets]
    /\ wasAway \in [Probes -> SUBSET Targets]

Answers(p) == UnderWay(p) /\ ~UnderWay(p)'

\* A health of 200, and "ready" in the details of readiness, say of each
\* database that it was up at some time of the request (not that all were at one
\* time); "not connected" and any other health, that it, or one, was down, slow
\* or full; and readiness is the sum of its details (healthCheck, readiness; as
\* long as no two databases have the same name for getDBName).
AnswersAreHonest ==
    [][\A p \in Probes : Answers(p) =>
          IF probe[p].endpoint = "health"
          THEN IF Status(p) = 200 THEN wasUp[p] = Targets ELSE wasAway[p] # {}
          ELSE /\ \A d \in Targets :
                     d \in IF probe[p].details[getDBName(d)] = "ready"
                          THEN wasUp[p] ELSE wasAway[p]
               /\ probe[p].allReady <=>
                     \A n \in Names : probe[p].details[n] = "ready"]_vars

\* Every request to an endpoint is answered (healthCheck, readiness).
EveryProbeAnswered == \A p \in Probes : UnderWay(p) ~> ~UnderWay(p)

\* When no more requests come, the sessions that they opened all end, although
\* nothing destroys a DataSource (getDataSources, idleTimeoutMillis).
SessionsGoBack ==
    <>[](\A p \in Probes : ~UnderWay(p))
        => <>[](\A d \in Targets : sessions[d] = 0)
=============================================================================

---------------------------- MODULE MessageFlow ----------------------------
(***************************************************************************)
(* The way of a tenant from the headers of a request to the handling of    *)
(* the event that the request publishes.                                   *)
(*                                                                         *)
(* TenantContextMiddleware reads the tenant from the headers and runs the  *)
(* request in an AsyncLocalStorage.  QueryService.findAll makes a          *)
(* decorated call, which finds the tenant on its own and commits, and      *)
(* then publishes an event, to which TenantEnricher adds the tenant of the *)
(* storage.  A queue delivers the event at least once to                   *)
(* SampleSqsConsumer.onMessage, which reads the tenant from the attributes *)
(* and queries the tenant's schema.  Requests and handlers share the pools *)
(* of one process, which may crash.                                        *)
(*                                                                         *)
(* What a decorated call does with its connection is one step here, of     *)
(* which Transactional has the detail.  An event is named by the request   *)
(* that publishes it.                                                      *)
(***************************************************************************)
EXTENDS ConnectionPool

CONSTANTS Requests,     \* HTTP requests
          Handlers,     \* the concurrent onMessage calls of the container
          Foreign,      \* messages that other programs put into the queue
          RequestHeaders,     \* the headers that requests may come with
          ForeignAttributes,  \* the attributes of each foreign message
          Absent,       \* a header that is not there
          Blank,        \* a header with an empty value
          MaxCrashes,   \* bounds the crashes of the process
          NoTenant, NoSchema, NoMessage

Messages == Requests \cup Foreign

\* The values of x-business-unit, business-unit, x-country-code and
\* country-code: the headers of a request, the attributes of a message.
Headers == [xbu : BusinessUnits \cup {Absent, Blank},
            bu  : BusinessUnits \cup {Absent, Blank},
            xcc : CountryCodes \cup {Absent, Blank},
            cc  : CountryCodes \cup {Absent, Blank}]

ASSUME FlowAssumption ==
    /\ Callers = Requests \cup Handlers
    /\ Requests \cap Handlers = {}
    /\ Requests \cap Foreign = {}
    /\ {Absent, Blank} \cap (BusinessUnits \cup CountryCodes) = {}
    /\ Absent # Blank
    /\ RequestHeaders \subseteq Headers
    /\ ForeignAttributes \in [Foreign -> Headers]
    /\ MaxCrashes \in Nat
    /\ NoTenant \notin Tenants
    /\ NoSchema \notin Keys \X Paths
    /\ NoMessage \notin Messages
    /\ Nobody \notin Callers

VARIABLES
    headers,        \* the headers of each request
    stage,          \* where each request and each handler stands
    requestTenant,  \* tenantContext on the request object of the service
    store,          \* the AsyncLocalStorage store that a request runs in
    conn,           \* the connection a caller runs on
    leaked,         \* the connections that a failing set-up has leaked
    ran,            \* the schema in which the request's transaction committed
    attributes,     \* the attributes of each message
    queue,          \* the messages that are not acknowledged
    published,      \* the messages that ever were in the queue
    handling,       \* the message of each handler
    handled,        \* the messages whose onMessage has resolved once
    crashes

requestVars == <<headers, requestTenant, store, ran>>
queueVars   == <<attributes, queue, published>>
handlerVars == <<handling, handled>>
vars == <<managerVars, poolVars, requestVars, queueVars, handlerVars,
          stage, conn, leaked, crashes>>

RequestStages == {"new", "routed", "lookup", "transaction", "publish",
                  "answered", "failed"}
HandlerStages == {"idle", "received", "lookup", "setPath", "query",
                  "succeeded", "thrown", "acknowledge"}

\* The schema that tenant t's statements should run in.
SchemaOf(t) == <<buildKey(t), SearchPathOf(t)>>

MessageFlowTypeOK ==
    /\ TypeOK
    /\ holder \in [Conns -> Callers \cup {Nobody}]
    /\ path \in [Conns -> Paths]
    /\ headers \in [Requests -> RequestHeaders]
    /\ stage \in [Callers -> RequestStages \cup HandlerStages]
    /\ \A r \in Requests : stage[r] \in RequestStages
    /\ \A h \in Handlers : stage[h] \in HandlerStages
    /\ requestTenant \in [Requests -> Tenants \cup {NoTenant}]
    /\ store \in [Requests -> Tenants \cup {NoTenant}]
    /\ conn \in [Callers -> Conns \cup {NoConn}]
    /\ leaked \subseteq Conns
    /\ ran \in [Requests -> (Keys \X Paths) \cup {NoSchema}]
    /\ attributes \in [Messages -> Headers]
    /\ queue \subseteq published /\ published \subseteq Messages
    /\ handling \in [Handlers -> Messages \cup {NoMessage}]
    /\ handled \subseteq published
    /\ crashes \in 0..MaxCrashes

NoAttributes == [xbu |-> Absent, bu |-> Absent, xcc |-> Absent, cc |-> Absent]

Init ==
    /\ ManagerInit
    /\ PoolInit
    /\ headers \in [Requests -> RequestHeaders]
    /\ stage = [c \in Callers |-> IF c \in Requests THEN "new" ELSE "idle"]
    /\ requestTenant = [r \in Requests |-> NoTenant]
    /\ store = [r \in Requests |-> NoTenant]
    /\ conn = [c \in Callers |-> NoConn]
    /\ leaked = {}
    /\ ran = [r \in Requests |-> NoSchema]
    /\ attributes = [m \in Messages |-> IF m \in Foreign THEN ForeignAttributes[m]
                                        ELSE NoAttributes]
    /\ queue = Foreign
    /\ published = Foreign
    /\ handling = [h \in Handlers |-> NoMessage]
    /\ handled = {}
    /\ crashes = 0

-----------------------------------------------------------------------------
(* Headers and attributes.                                                 *)

\* a ?? b: an empty value is a value.
Coalesce(a, b) == IF a = Absent THEN b ELSE a

Truthy(a) == a \notin {Absent, Blank}

\* The tenant named by headers or attributes, or NoTenant.
From(h) ==
    LET businessUnit == Coalesce(h.xbu, h.bu)
        countryCode  == Coalesce(h.xcc, h.cc)
    IN  IF Truthy(businessUnit) /\ Truthy(countryCode)
        THEN <<businessUnit, countryCode>>
        ELSE NoTenant

\* A wrong version: onMessage reads the names without "x-" only.
FromAlternatives(m) ==
    From([attributes[m] EXCEPT !.xbu = Absent, !.xcc = Absent])

\* The tenant of a message, as the listener sees it.
TenantOfMessage(m) == From(attributes[m])

\* TenantEnricher.enrich.
Enrich(t) ==
    IF t = NoTenant THEN NoAttributes
    ELSE [NoAttributes EXCEPT !.xbu = t[1], !.xcc = t[2]]

\* The tenant that a request or a handler works for.
TenantOf(c) ==
    IF c \in Requests THEN requestTenant[c] ELSE TenantOfMessage(handling[c])

-----------------------------------------------------------------------------
(* What requests and handlers have in common.                              *)

MoveTo(c, s) == stage' = [stage EXCEPT ![c] = s]

\* The error of c goes to its client, or to the container: no acknowledgement.
Fails(c) == IF c \in Requests THEN "failed" ELSE "idle"

\* c is done with its message.
Dismiss(c) ==
    IF c \in Handlers THEN handling' = [handling EXCEPT ![c] = NoMessage]
    ELSE UNCHANGED handling

\* DatasourceManager goes on with the lookup of c.
Lookup(c) ==
    /\ Proceed(c)
    /\ UNCHANGED <<poolVars, requestVars, queueVars, handlerVars,
                   stage, conn, leaked, crashes>>

\* The lookup is answered; createQueryRunner and connect().
Connect(c) ==
    /\ stage[c] = "lookup"
    /\ lookup[c].phase = "resolved"
    /\ Receive(c)
    /\ \E k \in FreeConns(lookup[c].ds) :
          /\ holder' = [holder EXCEPT ![k] = c]
          /\ conn' = [conn EXCEPT ![c] = k]
    /\ MoveTo(c, IF c \in Requests THEN "transaction" ELSE "setPath")
    /\ UNCHANGED <<path, requestVars, queueVars, handlerVars, leaked, crashes>>

\* The await of the lookup or of connect() rejects.
Refuse(c) ==
    /\ Receive(c)
    /\ MoveTo(c, Fails(c))
    /\ Dismiss(c)
    /\ UNCHANGED <<poolVars, requestVars, queueVars, handled, conn, leaked,
                   crashes>>

LookupFail(c) ==
    /\ stage[c] = "lookup"
    /\ lookup[c].phase = "rejected"
    /\ Refuse(c)

\* The pool has a place, and the server does not take the connection.
ConnectFail(c) ==
    /\ stage[c] = "lookup"
    /\ lookup[c].phase = "resolved"
    /\ FreeConns(lookup[c].ds) # {}
    /\ Refuse(c)

\* c's connection goes back to its pool.
GiveBack(c) ==
    /\ holder' = [holder EXCEPT ![conn[c]] = Nobody]
    /\ conn' = [conn EXCEPT ![c] = NoConn]
    /\ UNCHANGED leaked

\* The set-up of c's query runner fails after connect(): whoever called for it
\* is not given it, so that no finally block has it to release.
Leak(c) ==
    /\ leaked' = leaked \cup {conn[c]}
    /\ conn' = [conn EXCEPT ![c] = NoConn]
    /\ UNCHANGED holder

-----------------------------------------------------------------------------
(* The request.                                                            *)

\* A wrong version: the store is a variable of the module.
MiddlewareShared(r) ==
    /\ stage[r] = "new"
    /\ store' = [q \in Requests |-> From(headers[r])]
    /\ requestTenant' = [requestTenant EXCEPT ![r] = From(headers[r])]
    /\ MoveTo(r, "routed")
    /\ UNCHANGED <<managerVars, poolVars, headers, ran, queueVars, handlerVars,
                   conn, leaked, crashes>>

\* TenantContextMiddleware.use.  It sets the tenant on the raw request, which
\* may or may not be the request object that is injected into the service.
Middleware(r) ==
    LET t == From(headers[r])
    IN  /\ stage[r] = "new"
        /\ store' = [store EXCEPT ![r] = t]
        /\ \E seen \in {t, NoTenant} :
              requestTenant' = [requestTenant EXCEPT ![r] = seen]
        /\ MoveTo(r, "routed")
        /\ UNCHANGED <<managerVars, poolVars, headers, ran, queueVars,
                       handlerVars, conn, leaked, crashes>>

\* getTenantContext: the tenant on the request object, or else the headers.
TenantContext(r) ==
    IF requestTenant[r] # NoTenant THEN requestTenant[r] ELSE From(headers[r])

\* findAll calls its decorated method, which calls getDataSource.
FindAll(r) ==
    /\ stage[r] = "routed"
    /\ TenantContext(r) # NoTenant
    /\ requestTenant' = [requestTenant EXCEPT ![r] = TenantContext(r)]
    /\ GetDataSource(r, TenantContext(r))
    /\ MoveTo(r, "lookup")
    /\ UNCHANGED <<poolVars, headers, store, ran, queueVars, handlerVars,
                   conn, leaked, crashes>>

FindAllWithoutTenant(r) ==
    /\ stage[r] = "routed"
    /\ TenantContext(r) = NoTenant
    /\ MoveTo(r, "failed")
    /\ UNCHANGED <<managerVars, poolVars, requestVars, queueVars, handlerVars,
                   conn, leaked, crashes>>

\* SET search_path, BEGIN, the method, COMMIT or ROLLBACK, release.
TransactionOk(r) ==
    /\ stage[r] = "transaction"
    /\ path' = [path EXCEPT ![conn[r]] = SearchPathOf(TenantOf(r))]
    /\ ran' = [ran EXCEPT ![r] = <<entry[conn[r][1]], path'[conn[r]]>>]
    /\ GiveBack(r)
    /\ MoveTo(r, "publish")
    /\ UNCHANGED <<managerVars, headers, requestTenant, store, queueVars,
                   handlerVars, crashes>>

\* setupQueryRunner: SET search_path fails, or BEGIN after it.
SetupFail(r) ==
    /\ stage[r] = "transaction"
    /\ path' \in {path, [path EXCEPT ![conn[r]] = SearchPathOf(TenantOf(r))]}
    /\ Leak(r)
    /\ MoveTo(r, "failed")
    /\ UNCHANGED <<managerVars, requestVars, queueVars, handlerVars, crashes>>

\* executeInTransaction: the method or COMMIT fails, ROLLBACK, release.
TransactionFail(r) ==
    /\ stage[r] = "transaction"
    /\ path' = [path EXCEPT ![conn[r]] = SearchPathOf(TenantOf(r))]
    /\ GiveBack(r)
    /\ MoveTo(r, "failed")
    /\ UNCHANGED <<managerVars, requestVars, queueVars, handlerVars, crashes>>

\* publish(): SNS takes the event; its answer may be lost.
Publish(r) ==
    /\ stage[r] = "publish"
    /\ attributes' = [attributes EXCEPT ![r] = Enrich(store[r])]
    /\ queue' = queue \cup {r}
    /\ published' = published \cup {r}
    /\ \E s \in {"answered", "failed"} : MoveTo(r, s)
    /\ UNCHANGED <<managerVars, poolVars, requestVars, handlerVars,
                   conn, leaked, crashes>>

\* publish() rejects: the event is lost and the transaction stays.
PublishFail(r) ==
    /\ stage[r] = "publish"
    /\ MoveTo(r, "failed")
    /\ UNCHANGED <<managerVars, poolVars, requestVars, queueVars, handlerVars,
                   conn, leaked, crashes>>

-----------------------------------------------------------------------------
(* The queue and the handler.                                              *)

\* A message stays in the queue until it is acknowledged, and is delivered
\* again, to another handler even while the first one has it.
Deliver(h, m) ==
    /\ stage[h] = "idle"
    /\ m \in queue
    /\ handling' = [handling EXCEPT ![h] = m]
    /\ MoveTo(h, "received")
    /\ UNCHANGED <<managerVars, poolVars, requestVars, queueVars, handled,
                   conn, leaked, crashes>>

\* onMessage after its delay: getQueryRunner calls getDataSource.
OnMessage(h) ==
    /\ stage[h] = "received"
    /\ TenantOf(h) # NoTenant
    /\ GetDataSource(h, TenantOf(h))
    /\ MoveTo(h, "lookup")
    /\ UNCHANGED <<poolVars, requestVars, queueVars, handlerVars, conn, leaked,
                   crashes>>

\* "Missing tenant context": getQueryRunner throws.
OnMessageWithoutTenant(h) ==
    /\ stage[h] = "received"
    /\ TenantOf(h) = NoTenant
    /\ MoveTo(h, Fails(h))
    /\ Dismiss(h)
    /\ UNCHANGED <<managerVars, poolVars, requestVars, queueVars, handled,
                   conn, leaked, crashes>>

\* A wrong version: the listener relies on the session as it finds it.
KeepSearchPath(h) == path[conn[h]]

\* A wrong version: the country code is quoted, and its case is kept.
QuotedListenerPath(h) == TenantOf(h)[2]

\* The search_path that getQueryRunner sets.
ListenerPath(h) == SearchPathOf(TenantOf(h))

SetSearchPath(h) ==
    /\ stage[h] = "setPath"
    /\ path' = [path EXCEPT ![conn[h]] = ListenerPath(h)]
    /\ MoveTo(h, "query")
    /\ UNCHANGED <<managerVars, holder, requestVars, queueVars, handlerVars,
                   conn, leaked, crashes>>

\* SET search_path fails: getQueryRunner rejects, and queryRunner in onMessage
\* is still undefined.
SetSearchPathFail(h) ==
    /\ stage[h] = "setPath"
    /\ Leak(h)
    /\ MoveTo(h, Fails(h))
    /\ Dismiss(h)
    /\ UNCHANGED <<managerVars, path, requestVars, queueVars, handled, crashes>>

\* SELECT * FROM messages WHERE id = $1.
QueryOk(h) ==
    /\ stage[h] = "query"
    /\ handled' = handled \cup {handling[h]}
    /\ MoveTo(h, "succeeded")
    /\ UNCHANGED <<managerVars, poolVars, requestVars, queueVars, handling,
                   conn, leaked, crashes>>

QueryFail(h) ==
    /\ stage[h] = "query"
    /\ MoveTo(h, "thrown")
    /\ UNCHANGED <<managerVars, poolVars, requestVars, queueVars, handlerVars,
                   conn, leaked, crashes>>

\* A wrong version: the catch block logs the error and does not rethrow it.
SwallowError(h) == "acknowledge"

\* Acknowledged ON_SUCCESS; an error is rethrown, and that leaves the message.
AfterRelease(h) == IF stage[h] = "succeeded" THEN "acknowledge" ELSE Fails(h)

\* A wrong version: release is not in a finally block.
ReleaseOnSuccess(h) ==
    /\ stage[h] \in {"succeeded", "thrown"}
    /\ conn' = [conn EXCEPT ![h] = NoConn]
    /\ holder' = IF stage[h] = "thrown" THEN holder
                 ELSE [holder EXCEPT ![conn[h]] = Nobody]
    /\ MoveTo(h, AfterRelease(h))
    /\ UNCHANGED <<managerVars, path, requestVars, queueVars, handlerVars,
                   leaked, crashes>>

\* The finally block, and the end of onMessage.
Release(h) ==
    /\ stage[h] \in {"succeeded", "thrown"}
    /\ GiveBack(h)
    /\ MoveTo(h, AfterRelease(h))
    /\ IF AfterRelease(h) = "idle" THEN Dismiss(h) ELSE UNCHANGED handling
    /\ UNCHANGED <<managerVars, path, requestVars, queueVars, handled, crashes>>

\* The container deletes the message, or fails to.
Acknowledge(h) ==
    /\ stage[h] = "acknowledge"
    /\ queue' \in {queue, queue \ {handling[h]}}
    /\ MoveTo(h, "idle")
    /\ Dismiss(h)
    /\ UNCHANGED <<managerVars, poolVars, requestVars, attributes, published,
                   handled, conn, leaked, crashes>>

-----------------------------------------------------------------------------
\* The process dies (an uncaught error, the orchestrator) and is started again:
\* what it had in memory is gone, its sessions end, requests in flight get no
\* answer; the queue is elsewhere.
Crash ==
    /\ crashes < MaxCrashes
    /\ crashes' = crashes + 1
    /\ dataSources' = [k \in Keys |-> NoDataSource]
    /\ pool' = [d \in DataSources |-> "absent"]
    /\ entry' = [d \in DataSources |-> NoKey]
    /\ lookup' = [c \in Callers |-> NoLookup]
    /\ holder' = [k \in Conns |-> Nobody]
    /\ path' = [k \in Conns |-> NoPath]
    /\ stage' = [c \in Callers |->
                   IF c \in Handlers THEN "idle"
                   ELSE IF stage[c] \in {"new", "answered"} THEN stage[c]
                   ELSE "failed"]
    /\ conn' = [c \in Callers |-> NoConn]
    /\ leaked' = {}
    /\ handling' = [h \in Handlers |-> NoMessage]
    /\ UNCHANGED <<requestVars, queueVars, handled>>

Serve(r) ==
    \/ FindAll(r) \/ FindAllWithoutTenant(r)
    \/ SetupFail(r) \/ TransactionOk(r) \/ TransactionFail(r)
    \/ Publish(r) \/ PublishFail(r)

Handle(h) ==
    \/ OnMessage(h) \/ OnMessageWithoutTenant(h)
    \/ SetSearchPath(h) \/ SetSearchPathFail(h) \/ QueryOk(h) \/ QueryFail(h)
    \/ Release(h) \/ Acknowledge(h)

Step(c) ==
    \/ Lookup(c) \/ LookupFail(c) \/ Connect(c) \/ ConnectFail(c)
    \/ c \in Requests /\ Serve(c)
    \/ c \in Handlers /\ Handle(c)

Next ==
    \/ \E c \in Callers : Step(c)
    \/ \E r \in Requests : Middleware(r)
    \/ \E h \in Handlers, m \in Messages : Deliver(h, m)
    \/ Crash

Spec == Init /\ [][Next]_vars

\* The event loop resumes what is settled; pg-pool serves those who wait for a
\* connection in turn; the queue does not pass a message over for ever.
Fairness ==
    /\ \A c \in Callers : WF_vars(Step(c)) /\ SF_vars(Connect(c))
    /\ \A m \in Messages : SF_vars(\E h \in Handlers : Deliver(h, m))

FairSpec == Spec /\ Fairness

-----------------------------------------------------------------------------
(* Properties.                                                             *)

\* multi-tenancy.md:228, "Tenant context is automatically propagated to SNS
\* messages": the tenant that the listener will read from an event is the one
\* whose schema the request's transaction committed in.  The two come from
\* different places, the AsyncLocalStorage and the request object, and other
\* requests run in between.
EventOfItsTenant ==
    \A r \in Requests \cap published :
        /\ TenantOfMessage(r) # NoTenant
        /\ SchemaOf(TenantOfMessage(r)) = ran[r]

\* The listener queries the very schema in which the transaction of the event
\* committed, whichever sessions it gets from the shared pools, however often
\* the event is delivered and whatever process handles it.
HandledInItsSchema ==
    \A h \in Handlers :
        (/\ stage[h] = "query"
         /\ handling[h] \in Requests)
        => <<entry[conn[h][1]], path[conn[h]]>> = ran[handling[h]]

\* A message leaves the queue only after an onMessage of it has succeeded, in
\* this process or in one that crashed.
NoEventLost ==
    published \ queue \subseteq handled

\* A connection out of its pool belongs to a request in its transaction or to
\* an onMessage that has yet to release it, but for those that a set-up which
\* failed after connect() has leaked, the listener's (getQueryRunner) or the
\* decorator's (setupQueryRunner): nothing that fails later loses one.
ConnectionsReturn ==
    \A k \in Conns \ leaked : holder[k] # Nobody =>
        /\ conn[holder[k]] = k
        /\ stage[holder[k]] \in
             {"transaction", "setPath", "query", "succeeded", "thrown"}

\* Tenant t's pool is short of a connection.
Short(t) == \E k \in leaked : entry[k[1]] = buildKey(t)

\* Every request is answered, however messages and other requests compete with
\* it for the connections, and whatever other tenants' pools have lost, unless
\* a failing set-up has leaked a connection of its own tenant's pool.
EveryRequestAnswered ==
    \A r \in Requests :
        stage[r] = "routed" ~>
            \/ stage[r] \in {"answered", "failed"}
            \/ From(headers[r]) # NoTenant /\ Short(From(headers[r]))

Failure(c) ==
    \/ InitializeFail(c)
    \/ LookupFail(c)
    \/ ConnectFail(c)
    \/ c \in Requests /\ SetupFail(c)
    \/ c \in Handlers /\ (SetSearchPathFail(c) \/ QueryFail(c))

FailuresCease == <>[][\A c \in Callers : ~Failure(c)]_vars

\* A crash gives a leaked connection back.
NothingStaysLeaked == <>[](leaked = {})

\* Once failures cease every published event with a tenant is handled, also one
\* whose first handlers failed or crashed, and although messages that can never
\* be handled come back again and again, unless a pool has lost a connection
\* for good, to a listener or to a request.
EveryEventHandled ==
    FailuresCease /\ NothingStaysLeaked =>
        \A r \in Requests : r \in published ~> r \in handled
=============================================================================

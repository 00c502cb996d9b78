-------------------------- MODULE MessageFlowProofs --------------------------
(***************************************************************************)
(* Proofs about MessageFlow, for any requests, handlers, messages, headers *)
(* and tenants, however often messages are delivered and whatever fails    *)
(* and crashes.                                                            *)
(***************************************************************************)
EXTENDS MessageFlow, DatasourceManagerProofs

-----------------------------------------------------------------------------
(* The pools.                                                              *)

\* A tenant that headers name is one of the tenants.
LEMMA TenantsOfHeaders ==
  ASSUME NEW h \in Headers
  PROVE  From(h) \in Tenants \cup {NoTenant}
  BY FlowAssumption DEF From, Truthy, Coalesce, Headers, Tenants

\* What the enricher adds names the tenant that it was given, if headers did.
LEMMA EnrichedTenant ==
  ASSUME NEW h \in Headers, From(h) # NoTenant
  PROVE  From(Enrich(From(h))) = From(h)
  BY FlowAssumption
  DEF From, Truthy, Coalesce, Headers, Enrich, NoAttributes

LEMMA EnrichedType ==
  ASSUME NEW t \in Tenants \cup {NoTenant}
  PROVE  Enrich(t) \in Headers
  BY FlowAssumption DEF Enrich, NoAttributes, Headers, Tenants

\* The tenants that callers work for.
LEMMA TenantOfType ==
  ASSUME MessageFlowTypeOK, NEW c \in Callers,
         c \in Handlers => handling[c] \in Messages
  PROVE  TenantOf(c) \in Tenants \cup {NoTenant}
  BY FlowAssumption, TenantsOfHeaders
  DEF TenantOf, TenantOfMessage, MessageFlowTypeOK

LEMMA TenantContextType ==
  ASSUME MessageFlowTypeOK, NEW r \in Requests
  PROVE  TenantContext(r) \in Tenants \cup {NoTenant}
  BY FlowAssumption, TenantsOfHeaders DEF TenantContext, MessageFlowTypeOK

\* A handler that is busy has a message, and the message was published.
HandlingInv ==
    \A h \in Handlers : stage[h] # "idle" => handling[h] \in published

\* Everything but a crash is a step of the manager, or none.
LEMMA ManagerStep ==
  ASSUME MessageFlowTypeOK, HandlingInv, [Next]_vars
  PROVE  [ManagerNext]_managerVars \/ Crash
  <1> SUFFICES ASSUME ~Crash PROVE ManagerNext \/ UNCHANGED managerVars
    OBVIOUS
  <1>1. CASE UNCHANGED vars
    BY <1>1 DEF vars
  <1>2. ASSUME NEW c \in Callers, Step(c) PROVE ManagerNext \/ UNCHANGED managerVars
    <2>1. CASE Lookup(c)
      BY <2>1 DEF Lookup, ManagerNext
    <2>2. CASE LookupFail(c) \/ Connect(c) \/ ConnectFail(c)
      BY <2>2 DEF LookupFail, Connect, ConnectFail, Refuse, ManagerNext
    <2>3. CASE c \in Requests /\ FindAll(c)
      BY <2>3, TenantContextType DEF FindAll, ManagerNext
    <2>4. CASE c \in Handlers /\ OnMessage(c)
      <3>1. handling[c] \in Messages
        BY <2>4 DEF OnMessage, HandlingInv, MessageFlowTypeOK
      <3> QED
        BY <2>4, <3>1, TenantOfType, FlowAssumption DEF OnMessage, ManagerNext
    <2>5. CASE c \in Requests /\ Serve(c) /\ ~FindAll(c)
      BY <2>5 DEF Serve, FindAllWithoutTenant, SetupFail, TransactionOk, TransactionFail,
                  Publish, PublishFail, managerVars
    <2>6. CASE c \in Handlers /\ Handle(c) /\ ~OnMessage(c)
      BY <2>6 DEF Handle, OnMessageWithoutTenant, SetSearchPath, SetSearchPathFail, QueryOk, QueryFail,
                  Release, Acknowledge, managerVars
    <2> QED
      BY <1>2, <2>1, <2>2, <2>3, <2>4, <2>5, <2>6 DEF Step
  <1>3. ASSUME NEW r \in Requests, Middleware(r) PROVE UNCHANGED managerVars
    BY <1>3 DEF Middleware, managerVars
  <1>4. ASSUME NEW h \in Handlers, NEW m \in Messages, Deliver(h, m)
        PROVE UNCHANGED managerVars
    BY <1>4 DEF Deliver, managerVars
  <1> QED
    BY <1>1, <1>2, <1>3, <1>4 DEF Next

\* A new process starts with an empty cache.
LEMMA CrashPools == Crash => PoolInv'
  BY DEF Crash, PoolInv, TypeOK, Lookups, LookupPhases, CachedPoolIsOpenAndOwn,
         LookupPool, OwnInitialize, NoLookup

-----------------------------------------------------------------------------
(* The invariant.                                                          *)

\* The stages in which a caller has a connection.
Running == {"transaction", "setPath", "query", "succeeded", "thrown"}

\* A caller waits for the pool of the tenant that it works for ...
LookupInv(c) ==
    stage[c] = "lookup" =>
        /\ TenantOf(c) \in Tenants
        /\ lookup[c].key = keyFrom(TenantOf(c))

\* ... and runs on a connection of that pool, which it alone has.
RunInv(c) ==
    stage[c] \in Running =>
        /\ TenantOf(c) \in Tenants
        /\ conn[c] \in Conns
        /\ holder[conn[c]] = c
        /\ pool[conn[c][1]] = "open"
        /\ entry[conn[c][1]] = buildKey(TenantOf(c))

\* The two places in which a request finds its tenant agree with its headers.
RequestInv(r) ==
    /\ stage[r] # "new" =>
         /\ store[r] = From(headers[r])
         /\ requestTenant[r] \in {From(headers[r]), NoTenant}
    /\ stage[r] \in {"lookup", "transaction", "publish"} =>
         requestTenant[r] = From(headers[r]) /\ From(headers[r]) # NoTenant
    /\ stage[r] = "publish" => ran[r] = SchemaOf(From(headers[r]))
    /\ r \in published =>
         /\ stage[r] \in {"answered", "failed"}
         /\ From(headers[r]) # NoTenant
         /\ TenantOfMessage(r) = From(headers[r])
         /\ ran[r] = SchemaOf(From(headers[r]))

\* A statement of a handler runs in the schema of its message's tenant, and the
\* message of a handler that has succeeded counts as handled.
HandlerInv(h) ==
    /\ stage[h] = "query" => path[conn[h]] = SearchPathOf(TenantOf(h))
    /\ stage[h] \in {"succeeded", "acknowledge"} => handling[h] \in handled

FlowInv ==
    /\ PoolInv
    /\ MessageFlowTypeOK
    /\ HandlingInv
    /\ ConnectionsReturn
    /\ NoEventLost
    /\ \A c \in Callers : LookupInv(c) /\ RunInv(c)
    /\ \A r \in Requests : RequestInv(r)
    /\ \A h \in Handlers : HandlerInv(h)

LEMMA FlowInit == Init => FlowInv
  <1> SUFFICES ASSUME Init PROVE FlowInv
    OBVIOUS
  <1>1. PoolInv
    BY PoolInvInit DEF Init
  <1>2. NoAttributes \in Headers
    BY DEF NoAttributes, Headers
  <1>3. MessageFlowTypeOK
    <2>1. /\ holder \in [Conns -> Callers \cup {Nobody}]
          /\ path \in [Conns -> Paths]
      BY DEF Init, PoolInit, Paths
    <2>2. /\ stage \in [Callers -> RequestStages \cup HandlerStages]
          /\ \A r \in Requests : stage[r] \in RequestStages
          /\ \A h \in Handlers : stage[h] \in HandlerStages
      BY FlowAssumption DEF Init, RequestStages, HandlerStages
    <2>3. attributes \in [Messages -> Headers]
      BY <1>2, FlowAssumption DEF Init
    <2> QED
      BY <1>1, <2>1, <2>2, <2>3, FlowAssumption
      DEF Init, PoolInv, MessageFlowTypeOK, Messages
  <1>4. /\ HandlingInv /\ ConnectionsReturn /\ NoEventLost
    BY FlowAssumption DEF Init, PoolInit, HandlingInv, ConnectionsReturn, NoEventLost
  <1>5. ASSUME NEW c \in Callers PROVE LookupInv(c) /\ RunInv(c)
    BY FlowAssumption DEF Init, LookupInv, RunInv, Running
  <1>6. ASSUME NEW r \in Requests PROVE RequestInv(r)
    BY FlowAssumption DEF Init, RequestInv
  <1>7. ASSUME NEW h \in Handlers PROVE HandlerInv(h)
    BY FlowAssumption DEF Init, HandlerInv
  <1> QED
    BY <1>1, <1>3, <1>4, <1>5, <1>6, <1>7 DEF FlowInv

-----------------------------------------------------------------------------
(* Types.                                                                  *)

LEMMA FlowTypeStep ==
  ASSUME FlowInv, [Next]_vars, PoolInv'
  PROVE  MessageFlowTypeOK'
  <1> USE FlowAssumption DEF FlowInv, MessageFlowTypeOK
  <1>p. TypeOK'
    BY DEF PoolInv
  <1>t. \A t \in Tenants : SearchPathOf(t) \in Paths /\ buildKey(t) \in Keys
    BY KeyTypes DEF SearchPathOf, Paths, Tenants
  <1>1. CASE UNCHANGED vars
    BY <1>1, <1>p DEF vars, managerVars, poolVars, requestVars, queueVars, handlerVars
  <1>2. ASSUME NEW c \in Callers, Lookup(c) PROVE MessageFlowTypeOK'
    BY <1>2, <1>p DEF Lookup, poolVars, requestVars, queueVars, handlerVars
  <1>3. ASSUME NEW c \in Callers, LookupFail(c) \/ ConnectFail(c) PROVE MessageFlowTypeOK'
    BY <1>3, <1>p
    DEF LookupFail, ConnectFail, Refuse, MoveTo, Fails, Dismiss, RequestStages,
        HandlerStages, poolVars, requestVars, queueVars, handlerVars
  <1>4. ASSUME NEW c \in Callers, Connect(c) PROVE MessageFlowTypeOK'
    <2>1. lookup[c].ds \in DataSources
      BY <1>4 DEF Connect, PoolInv, LookupPool
    <2>2. FreeConns(lookup[c].ds) \subseteq Conns
      BY <2>1 DEF FreeConns, Conns
    <2> QED
      BY <1>4, <1>p, <2>2
      DEF Connect, MoveTo, RequestStages, HandlerStages, requestVars, queueVars, handlerVars
  <1>5. ASSUME NEW r \in Requests, Middleware(r) PROVE MessageFlowTypeOK'
    BY <1>5, <1>p, TenantsOfHeaders
    DEF Middleware, MoveTo, RequestStages, poolVars, queueVars, handlerVars
  <1>6. ASSUME NEW r \in Requests, Serve(r) PROVE MessageFlowTypeOK'
    <2>1. CASE FindAll(r)
      BY <2>1, <1>p, TenantContextType
      DEF FindAll, MoveTo, RequestStages, poolVars, queueVars, handlerVars
    <2>2. CASE FindAllWithoutTenant(r) \/ PublishFail(r)
      BY <2>2, <1>p
      DEF FindAllWithoutTenant, PublishFail, MoveTo, RequestStages, poolVars,
          requestVars, queueVars, handlerVars
    <2>3. CASE TransactionOk(r)
      BY <2>3, <1>p, <1>t
      DEF TransactionOk, GiveBack, MoveTo, RequestStages, Running, RunInv, PoolInv, TypeOK, Conns,
          queueVars, handlerVars
    <2>4. CASE SetupFail(r) \/ TransactionFail(r)
      <3>1. conn[r] \in Conns /\ TenantOf(r) \in Tenants
        BY <2>4 DEF SetupFail, TransactionFail, Running, RunInv
      <3>2. path' \in [Conns -> Paths]
        BY <2>4, <3>1, <1>t DEF SetupFail, TransactionFail
      <3> QED
        BY <2>4, <1>p, <3>1, <3>2
        DEF SetupFail, TransactionFail, Leak, GiveBack, MoveTo, RequestStages,
            requestVars, queueVars, handlerVars
    <2>5. CASE Publish(r)
      BY <2>5, <1>p, EnrichedType
      DEF Publish, MoveTo, RequestStages, Messages, poolVars, requestVars, handlerVars
    <2> QED
      BY <1>6, <2>1, <2>2, <2>3, <2>4, <2>5 DEF Serve
  <1>7. ASSUME NEW h \in Handlers, NEW m \in Messages, Deliver(h, m)
        PROVE MessageFlowTypeOK'
    BY <1>7, <1>p DEF Deliver, MoveTo, HandlerStages, poolVars, requestVars, queueVars
  <1>8. ASSUME NEW h \in Handlers, Handle(h) PROVE MessageFlowTypeOK'
    <2>1. CASE OnMessage(h)
      BY <2>1, <1>p DEF OnMessage, MoveTo, HandlerStages, poolVars, requestVars, queueVars, handlerVars
    <2>2. CASE OnMessageWithoutTenant(h)
      BY <2>2, <1>p
      DEF OnMessageWithoutTenant, MoveTo, Fails, Dismiss, HandlerStages, poolVars, requestVars, queueVars
    <2>3. CASE SetSearchPath(h)
      BY <2>3, <1>p, <1>t
      DEF SetSearchPath, ListenerPath, MoveTo, HandlerStages, Running, RunInv,
          requestVars, queueVars, handlerVars
    <2>4. CASE QueryOk(h)
      BY <2>4, <1>p
      DEF QueryOk, MoveTo, HandlerStages, HandlingInv, poolVars, requestVars, queueVars
    <2>5. CASE QueryFail(h)
      BY <2>5, <1>p DEF QueryFail, MoveTo, HandlerStages, poolVars, requestVars, queueVars, handlerVars
    <2>6. CASE Release(h)
      BY <2>6, <1>p
      DEF Release, GiveBack, AfterRelease, Fails, Dismiss, MoveTo, HandlerStages, requestVars, queueVars
    <2>7. CASE Acknowledge(h)
      BY <2>7, <1>p DEF Acknowledge, Dismiss, MoveTo, HandlerStages, poolVars, requestVars
    <2>8. CASE SetSearchPathFail(h)
      BY <2>8, <1>p
      DEF SetSearchPathFail, Leak, MoveTo, Fails, Dismiss, HandlerStages, Running, RunInv,
          poolVars, requestVars, queueVars
    <2> QED
      BY <1>8, <2>1, <2>2, <2>3, <2>4, <2>5, <2>6, <2>7, <2>8 DEF Handle
  <1>9. CASE Crash
    BY <1>9, <1>p DEF Crash, Paths, RequestStages, HandlerStages, requestVars, queueVars
  <1> QED
    BY <1>1, <1>2, <1>3, <1>4, <1>5, <1>6, <1>7, <1>8, <1>9 DEF Next, Step

-----------------------------------------------------------------------------
(* What a step leaves alone.                                               *)

LEMMA PoolStep ==
  ASSUME FlowInv, [Next]_vars
  PROVE  PoolInv'
  BY ManagerStep, PoolInvStep, CrashPools DEF FlowInv

\* The headers of a request stay, and the attributes of what is published.
LEMMA AttributesStay ==
  ASSUME FlowInv, [Next]_vars
  PROVE  /\ headers' = headers
         /\ published \subseteq published'
         /\ \A m \in published : attributes'[m] = attributes[m]
  <1> USE DEF requestVars, queueVars
  <1>1. CASE UNCHANGED vars
    BY <1>1 DEF vars
  <1>2. ASSUME NEW c \in Callers, Lookup(c) \/ LookupFail(c) \/ Connect(c) \/ ConnectFail(c)
        PROVE UNCHANGED <<headers, published, attributes>>
    BY <1>2 DEF Lookup, LookupFail, Connect, ConnectFail, Refuse
  <1>3. ASSUME NEW r \in Requests, Publish(r)
        PROVE  headers' = headers /\ published \subseteq published'
               /\ \A m \in published : attributes'[m] = attributes[m]
    BY <1>3 DEF Publish, FlowInv, RequestInv, MessageFlowTypeOK
  <1>4. ASSUME NEW r \in Requests, Serve(r), ~Publish(r)
        PROVE UNCHANGED <<headers, published, attributes>>
    BY <1>4
    DEF Serve, FindAll, FindAllWithoutTenant, SetupFail, TransactionOk, TransactionFail,
        PublishFail
  <1>5. ASSUME NEW r \in Requests, Middleware(r)
        PROVE UNCHANGED <<headers, published, attributes>>
    BY <1>5 DEF Middleware
  <1>6. ASSUME NEW h \in Handlers, NEW m \in Messages, Deliver(h, m)
        PROVE UNCHANGED <<headers, published, attributes>>
    BY <1>6 DEF Deliver
  <1>7. ASSUME NEW h \in Handlers, Handle(h)
        PROVE UNCHANGED <<headers, published, attributes>>
    BY <1>7 DEF Handle, OnMessage, OnMessageWithoutTenant, SetSearchPath, SetSearchPathFail, QueryOk, QueryFail,
                Release, Acknowledge
  <1>8. CASE Crash
    BY <1>8 DEF Crash
  <1> QED
    BY <1>1, <1>2, <1>3, <1>4, <1>5, <1>6, <1>7, <1>8 DEF Next, Step

\* A caller on whose request or message nothing happens works for the same tenant.
LEMMA TenantStays ==
  ASSUME FlowInv, [Next]_vars, NEW c \in Callers,
         c \in Requests => requestTenant'[c] = requestTenant[c],
         c \in Handlers => handling'[c] = handling[c] /\ stage[c] # "idle"
  PROVE  TenantOf(c)' = TenantOf(c)
  BY AttributesStay, FlowAssumption DEF FlowInv, HandlingInv, TenantOf, TenantOfMessage

\* A caller that gets neither a lookup nor a connection keeps what it has.
LEMMA HandsStay ==
  ASSUME FlowInv, [Next]_vars, ~Crash, NEW c \in Callers,
         stage'[c] = "lookup" => stage[c] = "lookup" /\ lookup'[c].key = lookup[c].key,
         stage'[c] \in Running =>
             stage[c] \in Running /\ conn'[c] = conn[c] /\ holder'[conn[c]] = c,
         stage'[c] \in Running \cup {"lookup"} =>
             /\ c \in Requests => requestTenant'[c] = requestTenant[c]
             /\ c \in Handlers => handling'[c] = handling[c]
  PROVE  LookupInv(c)' /\ RunInv(c)'
  <1>1. CASE stage'[c] \notin Running \cup {"lookup"}
    BY <1>1 DEF LookupInv, RunInv, Running
  <1>2. CASE stage'[c] \in Running \cup {"lookup"}
    <2>1. TenantOf(c)' = TenantOf(c)
      BY <1>2, TenantStays DEF Running
    <2>2. [ManagerNext]_managerVars
      BY ManagerStep DEF FlowInv
    <2>3. \A d \in DataSources : pool[d] = "open" => pool'[d] = "open" /\ entry'[d] = entry[d]
      BY <2>2, PoolsStay DEF FlowInv
    <2>4. \A k \in Conns : k[1] \in DataSources
      BY DEF Conns
    <2>5. LookupInv(c)'
      <3>1. keyFrom(TenantOf(c))' = keyFrom(TenantOf(c))
        BY <2>1 DEF keyFrom
      <3>2. LookupInv(c)
        BY DEF FlowInv
      <3> QED
        BY <2>1, <3>1, <3>2 DEF LookupInv
    <2>6. RunInv(c)'
      <3>1. buildKey(TenantOf(c))' = buildKey(TenantOf(c))
        BY <2>1 DEF buildKey
      <3>2. RunInv(c)
        BY DEF FlowInv
      <3> QED
        BY <2>1, <2>3, <2>4, <3>1, <3>2 DEF RunInv
    <2> QED
      BY <2>5, <2>6
  <1> QED
    BY <1>1, <1>2

\* Nothing happens to the others while c takes a step.
Alone(c) ==
    /\ \A e \in Callers \ {c} :
          stage'[e] = stage[e] /\ conn'[e] = conn[e] /\ lookup'[e].key = lookup[e].key
    /\ \A r \in Requests \ {c} : requestTenant'[r] = requestTenant[r]
    /\ \A h \in Handlers \ {c} : handling'[h] = handling[h]
    /\ \A k \in Conns : holder'[k] # holder[k] =>
          holder[k] \in {Nobody, c} /\ holder'[k] \in {Nobody, c}
    /\ leaked \subseteq leaked'

\* So it is enough that c has its hands in order.
LEMMA AloneStep ==
  ASSUME FlowInv, [Next]_vars, ~Crash, NEW c \in Callers, Alone(c),
         LookupInv(c)', RunInv(c)',
         \A k \in Conns \ leaked' :
            holder'[k] = c => conn'[c] = k /\ stage'[c] \in Running
  PROVE  /\ \A e \in Callers : LookupInv(e)' /\ RunInv(e)'
         /\ ConnectionsReturn'
  <1>1. ASSUME NEW e \in Callers \ {c} PROVE LookupInv(e)' /\ RunInv(e)'
    <2>1. stage[e] \in Running => conn[e] \in Conns /\ holder[conn[e]] = e
      BY DEF FlowInv, RunInv
    <2> QED
      BY <2>1, HandsStay, FlowAssumption DEF Alone
  <1>2. ASSUME NEW k \in Conns \ leaked', holder'[k] # Nobody
        PROVE  conn'[holder'[k]] = k /\ stage'[holder'[k]] \in Running
    <2>1. CASE holder'[k] = c
      BY <2>1
    <2>2. CASE holder'[k] # c
      <3>1. holder'[k] = holder[k] /\ holder[k] \in Callers \ {c}
        BY <1>2, <2>2 DEF Alone, FlowInv, MessageFlowTypeOK
      <3> QED
        BY <1>2, <3>1 DEF Alone, FlowInv, ConnectionsReturn, Running
    <2> QED
      BY <2>1, <2>2
  <1> QED
    BY <1>1, <1>2 DEF ConnectionsReturn, Running

-----------------------------------------------------------------------------
(* Lookups and connections.                                                *)

\* A connection that connect() answers with is of that pool, and nobody's.
LEMMA FreeConnsFree ==
  ASSUME NEW d \in DataSources, NEW k \in FreeConns(d)
  PROVE  k \in Conns /\ k[1] = d /\ holder[k] = Nobody
  <1>1. PICK s \in Slots \ Taken(d) : k = <<d, s>>
    BY DEF FreeConns
  <1> QED
    BY <1>1 DEF Taken, Conns

\* Nobody but c is disturbed, and c gets nothing that it has not.
HandsKept(c) ==
    /\ Alone(c)
    /\ stage'[c] = "lookup" => stage[c] = "lookup" /\ lookup'[c].key = lookup[c].key
    /\ stage'[c] \in Running =>
           stage[c] \in Running /\ conn'[c] = conn[c] /\ holder' = holder
    /\ stage'[c] \in Running \cup {"lookup"} =>
           requestTenant' = requestTenant /\ handling' = handling
    /\ stage'[c] \notin Running => \A k \in Conns \ leaked' : holder'[k] # c

LEMMA KeptStep ==
  ASSUME FlowInv, [Next]_vars, ~Crash, NEW c \in Callers, HandsKept(c)
  PROVE  /\ \A e \in Callers : LookupInv(e)' /\ RunInv(e)'
         /\ ConnectionsReturn'
  <1>1. stage[c] \in Running => conn[c] \in Conns /\ holder[conn[c]] = c
    BY DEF FlowInv, RunInv
  <1>2. LookupInv(c)' /\ RunInv(c)'
    BY <1>1, HandsStay DEF HandsKept
  <1>3. \A k \in Conns \ leaked' :
           holder'[k] = c => conn'[c] = k /\ stage'[c] \in Running
    BY FlowAssumption DEF HandsKept, Alone, FlowInv, ConnectionsReturn
  <1> QED
    BY <1>2, <1>3, AloneStep DEF HandsKept

\* A caller that has no connection is in no pool's books.
LEMMA HoldsNone ==
  ASSUME FlowInv, NEW c \in Callers, stage[c] \notin Running, NEW k \in Conns \ leaked
  PROVE  holder[k] # c
  BY FlowAssumption DEF FlowInv, ConnectionsReturn, Running

\* A caller that gives its connection back has no other.
LEMMA GivesBackAll ==
  ASSUME FlowInv, NEW c \in Callers, stage[c] \in Running, GiveBack(c)
  PROVE  /\ \A k \in Conns \ leaked : holder'[k] # c
         /\ \A k \in Conns : holder'[k] # holder[k] => holder[k] = c /\ holder'[k] = Nobody
         /\ \A e \in Callers \ {c} : conn'[e] = conn[e]
         /\ leaked' = leaked
  <1>1. conn[c] \in Conns /\ holder[conn[c]] = c
    BY DEF FlowInv, RunInv
  <1> QED
    BY <1>1, FlowAssumption
    DEF GiveBack, FlowInv, MessageFlowTypeOK, ConnectionsReturn

LEMMA ConnectStep ==
  ASSUME FlowInv, [Next]_vars, NEW c \in Callers, Connect(c)
  PROVE  /\ \A e \in Callers : LookupInv(e)' /\ RunInv(e)'
         /\ ConnectionsReturn'
  <1>0. TypeOK
    BY DEF FlowInv, PoolInv
  <1>d. /\ lookup[c].ds \in DataSources
        /\ pool[lookup[c].ds] = "open"
        /\ entry[lookup[c].ds] = lookup[c].key
    BY DEF Connect, FlowInv, PoolInv, LookupPool
  <1>1. PICK k \in FreeConns(lookup[c].ds) :
          /\ holder' = [holder EXCEPT ![k] = c]
          /\ conn' = [conn EXCEPT ![c] = k]
    BY DEF Connect
  <1>2. k \in Conns /\ k[1] = lookup[c].ds /\ holder[k] = Nobody
    BY <1>d, FreeConnsFree
  <1>3. stage[c] = "lookup" /\ stage'[c] \in Running
    BY DEF Connect, MoveTo, Running, FlowInv, MessageFlowTypeOK
  <1>4. ~Crash
    BY <1>1, <1>2, FlowAssumption DEF Crash, FlowInv, MessageFlowTypeOK
  <1>5. Alone(c)
    BY <1>0, <1>1, <1>2, LookupSteps
    DEF Alone, Connect, MoveTo, FlowInv, MessageFlowTypeOK, requestVars, handlerVars
  <1>6. LookupInv(c)'
    BY <1>3 DEF LookupInv, Running
  <1>7. RunInv(c)'
    <2>1. TenantOf(c)' = TenantOf(c)
      BY <1>3, TenantStays DEF Connect, requestVars, handlerVars
    <2>2. TenantOf(c) \in Tenants /\ lookup[c].key = buildKey(TenantOf(c))
      BY <1>3, OneKey DEF FlowInv, LookupInv
    <2>3. buildKey(TenantOf(c))' = buildKey(TenantOf(c))
      BY <2>1 DEF buildKey
    <2>4. pool' = pool /\ entry' = entry
      BY DEF Connect, Receive
    <2>5. conn'[c] = k /\ holder'[k] = c
      BY <1>1, <1>2 DEF FlowInv, MessageFlowTypeOK
    <2> QED
      BY <1>d, <1>2, <2>1, <2>2, <2>3, <2>4, <2>5 DEF RunInv
  <1>8. \A j \in Conns \ leaked' :
           holder'[j] = c => conn'[c] = j /\ stage'[c] \in Running
    BY <1>1, <1>2, <1>3, HoldsNone DEF Connect, FlowInv, MessageFlowTypeOK, Running
  <1> QED
    BY <1>4, <1>5, <1>6, <1>7, <1>8, AloneStep

\* c calls getDataSource for the tenant that it will be found to work for.
LEMMA CallStep ==
  ASSUME FlowInv, [Next]_vars, ~Crash, NEW c \in Callers, NEW t \in Tenants,
         stage[c] \notin Running, GetDataSource(c, t), MoveTo(c, "lookup"),
         UNCHANGED <<holder, conn, leaked, handling>>,
         \A r \in Requests \ {c} : requestTenant'[r] = requestTenant[r],
         TenantOf(c)' = t
  PROVE  /\ \A e \in Callers : LookupInv(e)' /\ RunInv(e)'
         /\ ConnectionsReturn'
  <1>0. TypeOK
    BY DEF FlowInv, PoolInv
  <1>1. stage'[c] = "lookup" /\ \A e \in Callers \ {c} : stage'[e] = stage[e]
    BY DEF MoveTo, FlowInv, MessageFlowTypeOK
  <1>2. Alone(c)
    BY <1>0, <1>1, LookupSteps DEF Alone
  <1>3. LookupInv(c)'
    BY <1>0, LookupSteps DEF LookupInv, keyFrom
  <1>4. RunInv(c)'
    BY <1>1 DEF RunInv, Running
  <1> QED
    BY <1>2, <1>3, <1>4, HoldsNone, AloneStep

\* One step per action: who has what is in order after it.
LEMMA HandsStep ==
  ASSUME FlowInv, [Next]_vars, ~Crash
  PROVE  /\ \A e \in Callers : LookupInv(e)' /\ RunInv(e)'
         /\ ConnectionsReturn'
  <1> USE FlowAssumption
  <1> DEFINE Goal == /\ \A e \in Callers : LookupInv(e)' /\ RunInv(e)'
                     /\ ConnectionsReturn'
  <1>0. TypeOK /\ MessageFlowTypeOK
    BY DEF FlowInv, PoolInv
  <1>1. CASE UNCHANGED vars
    <2>1. ASSUME NEW e \in Callers PROVE LookupInv(e)' /\ RunInv(e)'
      <3>1. stage[e] \in Running => holder[conn[e]] = e
        BY DEF FlowInv, RunInv
      <3> QED
        BY <1>1, <3>1, HandsStay DEF vars, managerVars, poolVars, requestVars, handlerVars
    <2> QED
      BY <1>1, <2>1 DEF FlowInv, ConnectionsReturn, vars, poolVars
  <1>2. ASSUME NEW c \in Callers, Lookup(c) PROVE Goal
    <2>1. HandsKept(c)
      BY <1>0, <1>2, LookupSteps, HoldsNone
      DEF Lookup, HandsKept, Alone, poolVars, requestVars, handlerVars
    <2> QED
      BY <2>1, KeptStep
  <1>3. ASSUME NEW c \in Callers, LookupFail(c) \/ ConnectFail(c) PROVE Goal
    <2>1. HandsKept(c)
      BY <1>0, <1>3, LookupSteps, HoldsNone
      DEF LookupFail, ConnectFail, Refuse, Fails, Dismiss, MoveTo, MessageFlowTypeOK,
          HandsKept, Alone, Running, poolVars, requestVars
    <2> QED
      BY <2>1, KeptStep
  <1>4. ASSUME NEW c \in Callers, Connect(c) PROVE Goal
    BY <1>4, ConnectStep
  <1>5. ASSUME NEW r \in Requests, FindAll(r) PROVE Goal
    <2>1. TenantContext(r) \in Tenants
      BY <1>0, <1>5, TenantContextType DEF FindAll
    <2>2. TenantOf(r)' = TenantContext(r)
      BY <1>0, <1>5 DEF FindAll, TenantOf, MessageFlowTypeOK
    <2> QED
      BY <1>0, <1>5, <2>1, <2>2, CallStep
      DEF FindAll, poolVars, handlerVars, Running, MessageFlowTypeOK
  <1>6. ASSUME NEW r \in Requests,
               Middleware(r) \/ FindAllWithoutTenant(r) \/ Publish(r) \/ PublishFail(r)
        PROVE Goal
    <2>1. HandsKept(r)
      BY <1>0, <1>6, HoldsNone
      DEF Middleware, FindAllWithoutTenant, Publish, PublishFail, MoveTo,
          MessageFlowTypeOK, HandsKept, Alone, Running, managerVars, poolVars,
          requestVars, handlerVars
    <2> QED
      BY <2>1, KeptStep
  <1>7. ASSUME NEW r \in Requests, TransactionOk(r) \/ TransactionFail(r) PROVE Goal
    <2>1. stage[r] \in Running /\ GiveBack(r)
      BY <1>7 DEF TransactionOk, TransactionFail, Running
    <2>2. HandsKept(r)
      BY <1>0, <1>7, <2>1, GivesBackAll
      DEF TransactionOk, TransactionFail, MoveTo, MessageFlowTypeOK, HandsKept,
          Alone, Running, managerVars, requestVars, handlerVars
    <2> QED
      BY <2>2, KeptStep
  <1>8. ASSUME NEW h \in Handlers, NEW m \in Messages, Deliver(h, m) PROVE Goal
    <2>1. HandsKept(h)
      BY <1>0, <1>8, HoldsNone
      DEF Deliver, MoveTo, MessageFlowTypeOK, HandsKept, Alone, Running,
          managerVars, poolVars, requestVars
    <2> QED
      BY <2>1, KeptStep
  <1>9. ASSUME NEW h \in Handlers, OnMessage(h) PROVE Goal
    <2>1. handling[h] \in Messages
      BY <1>0, <1>9 DEF OnMessage, FlowInv, HandlingInv, MessageFlowTypeOK
    <2>2. TenantOf(h) \in Tenants
      BY <1>0, <1>9, <2>1, TenantOfType DEF OnMessage
    <2>3. TenantOf(h)' = TenantOf(h)
      BY <1>9 DEF OnMessage, TenantOf, TenantOfMessage, queueVars, handlerVars, requestVars
    <2> QED
      BY <1>0, <1>9, <2>2, <2>3, CallStep
      DEF OnMessage, poolVars, requestVars, handlerVars, Running
  <1>10. ASSUME NEW h \in Handlers,
                OnMessageWithoutTenant(h) \/ SetSearchPath(h) \/ QueryOk(h)
                \/ QueryFail(h) \/ Acknowledge(h)
         PROVE Goal
    <2>1. HandsKept(h)
      BY <1>0, <1>10, HoldsNone
      DEF OnMessageWithoutTenant, SetSearchPath, QueryOk, QueryFail, Acknowledge,
          Fails, Dismiss, MoveTo, MessageFlowTypeOK, HandsKept, Alone, Running,
          managerVars, poolVars, requestVars, handlerVars
    <2> QED
      BY <2>1, KeptStep
  <1>11. ASSUME NEW h \in Handlers, Release(h) PROVE Goal
    <2>1. stage[h] \in Running /\ GiveBack(h)
      BY <1>11 DEF Release, Running
    <2>2. HandsKept(h)
      BY <1>0, <1>11, <2>1, GivesBackAll
      DEF Release, AfterRelease, Fails, Dismiss, MoveTo, MessageFlowTypeOK, HandsKept,
          Alone, Running, managerVars, requestVars
    <2> QED
      BY <2>2, KeptStep
  <1>12. ASSUME NEW h \in Handlers, SetSearchPathFail(h) PROVE Goal
    <2>1. /\ holder' = holder /\ stage[h] = "setPath" /\ stage'[h] = "idle"
          /\ leaked' = leaked \cup {conn[h]}
      BY <1>0, <1>12 DEF SetSearchPathFail, Leak, Fails, MoveTo, MessageFlowTypeOK
    <2>2. \A k \in Conns \ leaked' : holder'[k] # h
      BY <2>1 DEF FlowInv, ConnectionsReturn
    <2>3. Alone(h)
      BY <1>0, <1>12, <2>1
      DEF SetSearchPathFail, Leak, Dismiss, MoveTo, MessageFlowTypeOK, Alone,
          managerVars, requestVars
    <2>4. HandsKept(h)
      BY <2>1, <2>2, <2>3 DEF HandsKept, Running
    <2> QED
      BY <2>4, KeptStep
  <1>13. ASSUME NEW r \in Requests, SetupFail(r) PROVE Goal
    <2>1. /\ holder' = holder /\ stage[r] = "transaction" /\ stage'[r] = "failed"
          /\ leaked' = leaked \cup {conn[r]}
      BY <1>0, <1>13 DEF SetupFail, Leak, MoveTo, MessageFlowTypeOK
    <2>2. \A k \in Conns \ leaked' : holder'[k] # r
      BY <2>1 DEF FlowInv, ConnectionsReturn
    <2>3. Alone(r)
      BY <1>0, <1>13, <2>1
      DEF SetupFail, Leak, MoveTo, MessageFlowTypeOK, Alone, managerVars,
          requestVars, handlerVars
    <2>4. HandsKept(r)
      BY <2>1, <2>2, <2>3 DEF HandsKept, Running
    <2> QED
      BY <2>4, KeptStep
  <1> QED
    BY <1>1, <1>2, <1>3, <1>4, <1>5, <1>6, <1>7, <1>8, <1>9, <1>10, <1>11, <1>12, <1>13
    DEF Next, Step, Serve, Handle

-----------------------------------------------------------------------------
(* The requests.                                                           *)

\* What a request knows of its tenant stays, if only its stage may change and
\* it is not the one that publishes.
LEMMA RequestKept ==
  ASSUME FlowInv, NEW r \in Requests, headers' = headers,
         store'[r] = store[r], requestTenant'[r] = requestTenant[r], ran'[r] = ran[r],
         attributes'[r] = attributes[r], r \in published' <=> r \in published,
         \/ stage'[r] = stage[r]
         \/ stage'[r] = "failed" /\ stage[r] # "new"
         \/ stage'[r] = "transaction" /\ stage[r] = "lookup"
  PROVE  RequestInv(r)'
  <1>1. RequestInv(r)
    BY DEF FlowInv
  <1>2. r \in published => TenantOfMessage(r)' = TenantOfMessage(r)
    BY DEF TenantOfMessage
  <1>3. SchemaOf(From(headers[r]))' = SchemaOf(From(headers[r]))
    BY DEF SchemaOf, buildKey, SearchPathOf
  <1> QED
    BY <1>1, <1>2, <1>3 DEF RequestInv

LEMMA RequestStep ==
  ASSUME FlowInv, [Next]_vars, NEW r \in Requests
  PROVE  RequestInv(r)'
  <1> USE FlowAssumption DEF MoveTo
  <1>0. MessageFlowTypeOK /\ TypeOK /\ RequestInv(r)
    BY DEF FlowInv, PoolInv
  <1>h. headers' = headers
    BY AttributesStay
  <1>s. SchemaOf(From(headers[r]))' = SchemaOf(From(headers[r]))
    BY <1>h DEF SchemaOf, buildKey, SearchPathOf
  <1>1. CASE UNCHANGED vars
    BY <1>1, RequestKept DEF vars, requestVars, queueVars
  <1>2. ASSUME NEW c \in Callers, Lookup(c) \/ LookupFail(c) \/ Connect(c) \/ ConnectFail(c)
        PROVE RequestInv(r)'
    <2>1. \/ stage'[r] = stage[r]
          \/ stage'[r] = "failed" /\ stage[r] # "new"
          \/ stage'[r] = "transaction" /\ stage[r] = "lookup"
      BY <1>0, <1>2
      DEF Lookup, LookupFail, Connect, ConnectFail, Refuse, Fails, MessageFlowTypeOK
    <2> QED
      BY <1>2, <2>1, RequestKept
      DEF Lookup, LookupFail, Connect, ConnectFail, Refuse, requestVars, queueVars
  <1>3. ASSUME NEW q \in Requests \ {r},
               Middleware(q) \/ FindAll(q) \/ FindAllWithoutTenant(q) \/ TransactionOk(q)
               \/ SetupFail(q) \/ TransactionFail(q) \/ Publish(q) \/ PublishFail(q)
        PROVE RequestInv(r)'
    <2>1. stage'[r] = stage[r]
      BY <1>0, <1>3
      DEF Middleware, FindAll, FindAllWithoutTenant, TransactionOk, SetupFail,
          TransactionFail, Publish, PublishFail, MessageFlowTypeOK
    <2> QED
      BY <1>0, <1>3, <2>1, <1>h, RequestKept
      DEF Middleware, FindAll, FindAllWithoutTenant, TransactionOk, SetupFail,
          TransactionFail, Publish, PublishFail, MessageFlowTypeOK, requestVars, queueVars, Messages
  <1>4. CASE Middleware(r)
    BY <1>0, <1>4
    DEF Middleware, RequestInv, MessageFlowTypeOK, TenantOfMessage, queueVars
  <1>5. CASE FindAll(r)
    <2>1. TenantContext(r) = From(headers[r])
      BY <1>0, <1>5 DEF FindAll, RequestInv, TenantContext
    <2> QED
      BY <1>0, <1>5, <2>1
      DEF FindAll, RequestInv, MessageFlowTypeOK, TenantOfMessage, queueVars
  <1>6. CASE FindAllWithoutTenant(r) \/ SetupFail(r) \/ TransactionFail(r) \/ PublishFail(r)
    BY <1>0, <1>6, <1>h, RequestKept
    DEF FindAllWithoutTenant, SetupFail, TransactionFail, PublishFail, MessageFlowTypeOK,
        requestVars, queueVars
  <1>7. CASE TransactionOk(r)
    <2>1. TenantOf(r) = From(headers[r]) /\ requestTenant[r] = From(headers[r])
      BY <1>0, <1>7 DEF TransactionOk, RequestInv, TenantOf
    <2>2. conn[r] \in Conns /\ entry[conn[r][1]] = buildKey(TenantOf(r))
      BY <1>7 DEF TransactionOk, FlowInv, RunInv, Running
    <2>3. ran'[r] = SchemaOf(From(headers[r]))
      BY <1>0, <1>7, <2>1, <2>2 DEF TransactionOk, SchemaOf, MessageFlowTypeOK
    <2>4. stage'[r] = "publish" /\ r \notin published'
      BY <1>0, <1>7 DEF TransactionOk, MessageFlowTypeOK, RequestInv, queueVars
    <2> QED
      BY <1>0, <1>7, <1>h, <1>s, <2>1, <2>3, <2>4 DEF TransactionOk, RequestInv
  <1>8. CASE Publish(r)
    <2>1. /\ store[r] = From(headers[r])
          /\ From(headers[r]) # NoTenant
          /\ ran[r] = SchemaOf(From(headers[r]))
      BY <1>0, <1>8 DEF Publish, RequestInv
    <2>2. headers[r] \in Headers
      BY <1>0 DEF MessageFlowTypeOK
    <2>3. TenantOfMessage(r)' = From(headers[r])
      BY <1>0, <1>8, <2>1, <2>2, EnrichedTenant
      DEF Publish, TenantOfMessage, MessageFlowTypeOK, Messages
    <2>4. stage'[r] \in {"answered", "failed"}
      BY <1>0, <1>8 DEF Publish, MessageFlowTypeOK
    <2> QED
      BY <1>0, <1>8, <1>h, <1>s, <2>1, <2>3, <2>4 DEF Publish, RequestInv, requestVars
  <1>9. ASSUME NEW h \in Handlers,
               \/ \E m \in Messages : Deliver(h, m)
               \/ OnMessage(h) \/ OnMessageWithoutTenant(h) \/ SetSearchPath(h)
               \/ SetSearchPathFail(h) \/ QueryOk(h) \/ QueryFail(h) \/ Release(h) \/ Acknowledge(h)
        PROVE RequestInv(r)'
    <2>1. stage'[r] = stage[r]
      BY <1>0, <1>9
      DEF Deliver, OnMessage, OnMessageWithoutTenant, SetSearchPath, SetSearchPathFail, QueryOk, QueryFail,
          Release, Acknowledge, MessageFlowTypeOK
    <2> QED
      BY <1>9, <2>1, RequestKept
      DEF Deliver, OnMessage, OnMessageWithoutTenant, SetSearchPath, SetSearchPathFail, QueryOk, QueryFail,
          Release, Acknowledge, requestVars, queueVars
  <1>10. CASE Crash
    <2>0. r \in Callers /\ r \notin Handlers
      OBVIOUS
    <2>1. stage'[r] = IF stage[r] \in {"new", "answered"} THEN stage[r] ELSE "failed"
      BY <2>0, <1>10 DEF Crash
    <2> QED
      BY <1>10, <2>1, RequestKept DEF Crash, requestVars, queueVars
  <1>11. ASSUME NEW q \in Requests, Middleware(q) \/ Serve(q) PROVE RequestInv(r)'
    BY <1>3, <1>4, <1>5, <1>6, <1>7, <1>8, <1>11 DEF Serve
  <1> QED
    BY <1>1, <1>2, <1>9, <1>10, <1>11 DEF Next, Step, Handle

-----------------------------------------------------------------------------
(* The queue and the handlers.                                             *)

\* An onMessage that goes on, or that nothing happens to, keeps its message; if
\* its session is its own it keeps the search_path.
LEMMA HandlerKept ==
  ASSUME FlowInv, [Next]_vars, ~Crash, NEW h \in Handlers,
         stage'[h] # "idle" => stage[h] # "idle" /\ handling'[h] = handling[h],
         stage'[h] = "query" =>
             stage[h] = "query" /\ conn'[h] = conn[h] /\ path'[conn[h]] = path[conn[h]],
         stage'[h] \in {"succeeded", "acknowledge"} =>
             stage[h] \in {"succeeded", "acknowledge"},
         handled \subseteq handled'
  PROVE  HandlerInv(h)' /\ (stage'[h] # "idle" => handling'[h] \in published')
  <1> USE FlowAssumption
  <1>0. HandlerInv(h) /\ HandlingInv
    BY DEF FlowInv
  <1>1. published \subseteq published'
    BY AttributesStay
  <1>2. stage'[h] = "query" => SearchPathOf(TenantOf(h))' = SearchPathOf(TenantOf(h))
    BY TenantStays DEF SearchPathOf
  <1> QED
    BY <1>0, <1>1, <1>2 DEF HandlerInv, HandlingInv

\* Two callers that run have different connections.
LEMMA OwnConnections ==
  ASSUME FlowInv, NEW c \in Callers, NEW e \in Callers \ {c},
         stage[c] \in Running, stage[e] \in Running
  PROVE  conn[c] \in Conns /\ conn[e] \in Conns /\ conn[c] # conn[e]
  BY DEF FlowInv, RunInv

LEMMA HandlerStep ==
  ASSUME FlowInv, [Next]_vars, ~Crash, NEW h \in Handlers
  PROVE  HandlerInv(h)' /\ (stage'[h] # "idle" => handling'[h] \in published')
  <1> USE FlowAssumption DEF MoveTo
  <1> DEFINE Goal == HandlerInv(h)' /\ (stage'[h] # "idle" => handling'[h] \in published')
  <1>0. MessageFlowTypeOK /\ HandlerInv(h) /\ HandlingInv
    BY DEF FlowInv
  <1>p. published \subseteq published'
    BY AttributesStay
  <1>t. stage[h] # "idle" /\ handling'[h] = handling[h] =>
            SearchPathOf(TenantOf(h))' = SearchPathOf(TenantOf(h))
    BY TenantStays DEF SearchPathOf
  <1>1. CASE UNCHANGED vars
    BY <1>1, HandlerKept DEF vars, poolVars, handlerVars
  <1>2. ASSUME NEW c \in Callers, Lookup(c) \/ LookupFail(c) \/ Connect(c) \/ ConnectFail(c)
        PROVE Goal
    <2>1. CASE Lookup(c)
      BY <2>1, HandlerKept DEF Lookup, poolVars, handlerVars
    <2>2. CASE Connect(c)
      <3>0. handling' = handling /\ handled' = handled /\ path' = path
        BY <2>2 DEF Connect, handlerVars
      <3>1. CASE h = c
        <4>1. stage'[h] = "setPath" /\ stage[h] = "lookup"
          BY <1>0, <2>2, <3>1 DEF Connect, MessageFlowTypeOK
        <4> QED
          BY <3>0, <4>1, HandlerKept
      <3>2. CASE h # c
        <4>1. stage'[h] = stage[h] /\ conn'[h] = conn[h]
          BY <1>0, <2>2, <3>2 DEF Connect, MessageFlowTypeOK
        <4> QED
          BY <3>0, <4>1, HandlerKept
      <3> QED
        BY <3>1, <3>2
    <2>3. CASE LookupFail(c) \/ ConnectFail(c)
      BY <1>0, <2>3, HandlerKept
      DEF LookupFail, ConnectFail, Refuse, Fails, Dismiss, MessageFlowTypeOK, poolVars
    <2> QED
      BY <1>2, <2>1, <2>2, <2>3
  <1>3. ASSUME NEW r \in Requests,
               TransactionOk(r) \/ SetupFail(r) \/ TransactionFail(r)
        PROVE Goal
    <2>1. /\ stage'[h] = stage[h] /\ handling' = handling /\ handled' = handled
          /\ stage[r] \in Running
      BY <1>0, <1>3
      DEF TransactionOk, SetupFail, TransactionFail, MessageFlowTypeOK, handlerVars, Running
    <2>2. stage[h] = "query" => conn[h] # conn[r] /\ conn[h] \in Conns
      BY <2>1, OwnConnections DEF Running
    <2>3. stage[h] = "query" => conn'[h] = conn[h] /\ path'[conn[h]] = path[conn[h]]
      BY <1>0, <1>3, <2>2
      DEF TransactionOk, SetupFail, TransactionFail, Leak, GiveBack, MessageFlowTypeOK
    <2> QED
      BY <2>1, <2>3, HandlerKept
  <1>4. ASSUME NEW r \in Requests,
               Middleware(r) \/ FindAll(r) \/ FindAllWithoutTenant(r) \/ Publish(r)
               \/ PublishFail(r)
        PROVE Goal
    <2>1. stage'[h] = stage[h]
      BY <1>0, <1>4
      DEF Middleware, FindAll, FindAllWithoutTenant, Publish, PublishFail, MessageFlowTypeOK
    <2> QED
      BY <1>4, <2>1, HandlerKept
      DEF Middleware, FindAll, FindAllWithoutTenant, Publish, PublishFail, poolVars,
          handlerVars
  <1>5. ASSUME NEW g \in Handlers \ {h},
               \/ \E m \in Messages : Deliver(g, m)
               \/ OnMessage(g) \/ OnMessageWithoutTenant(g)
               \/ SetSearchPathFail(g) \/ QueryOk(g)
               \/ QueryFail(g) \/ Release(g) \/ Acknowledge(g)
        PROVE Goal
    <2>1. stage'[h] = stage[h] /\ handling'[h] = handling[h] /\ handled \subseteq handled'
      BY <1>0, <1>5
      DEF Deliver, OnMessage, OnMessageWithoutTenant, SetSearchPathFail, QueryOk,
          QueryFail, Release,
          Acknowledge, Dismiss, MessageFlowTypeOK, handlerVars
    <2>2. conn'[h] = conn[h] /\ path' = path
      BY <1>0, <1>5
      DEF Deliver, OnMessage, OnMessageWithoutTenant, SetSearchPathFail, QueryOk,
          QueryFail, Release,
          Leak, GiveBack, Acknowledge, MessageFlowTypeOK, poolVars
    <2> QED
      BY <2>1, <2>2, HandlerKept
  <1>6. ASSUME NEW g \in Handlers \ {h}, SetSearchPath(g) PROVE Goal
    <2>1. /\ stage'[h] = stage[h] /\ stage[g] \in Running
          /\ UNCHANGED <<handling, handled, conn>>
      BY <1>0, <1>6 DEF SetSearchPath, MessageFlowTypeOK, handlerVars, Running
    <2>2. stage[h] = "query" => path'[conn[h]] = path[conn[h]]
      BY <1>0, <1>6, <2>1, OwnConnections DEF SetSearchPath, MessageFlowTypeOK, Running
    <2> QED
      BY <2>1, <2>2, HandlerKept
  <1>7. ASSUME NEW m \in Messages, Deliver(h, m) PROVE Goal
    <2>1. stage'[h] = "received" /\ handling'[h] = m /\ m \in published
      BY <1>0, <1>7 DEF Deliver, MessageFlowTypeOK
    <2> QED
      BY <1>p, <2>1 DEF HandlerInv
  <1>8. CASE OnMessage(h) \/ QueryFail(h)
    BY <1>0, <1>8, HandlerKept DEF OnMessage, QueryFail, MessageFlowTypeOK, handlerVars
  <1>9. CASE OnMessageWithoutTenant(h) \/ SetSearchPathFail(h) \/ Acknowledge(h)
    BY <1>0, <1>9
    DEF OnMessageWithoutTenant, SetSearchPathFail, Acknowledge, Fails, MessageFlowTypeOK, HandlerInv
  <1>10. CASE SetSearchPath(h)
    <2>1. conn[h] \in Conns /\ conn' = conn
      BY <1>10 DEF SetSearchPath, FlowInv, RunInv, Running
    <2>2. stage'[h] = "query" /\ path'[conn'[h]] = SearchPathOf(TenantOf(h))
      BY <1>0, <1>10, <2>1 DEF SetSearchPath, ListenerPath, MessageFlowTypeOK
    <2>3. stage[h] # "idle" /\ handling'[h] = handling[h]
      BY <1>10 DEF SetSearchPath, handlerVars
    <2> QED
      BY <1>0, <1>p, <1>t, <2>2, <2>3 DEF HandlerInv, HandlingInv
  <1>11. CASE QueryOk(h)
    <2>1. stage'[h] = "succeeded" /\ handling'[h] \in handled' /\ handling'[h] \in published
      BY <1>0, <1>11 DEF QueryOk, MessageFlowTypeOK, HandlingInv
    <2> QED
      BY <1>p, <2>1 DEF HandlerInv
  <1>12. CASE Release(h)
    <2>1. \/ stage'[h] = "acknowledge" /\ stage[h] = "succeeded" /\ handling' = handling
          \/ stage'[h] = "idle"
      BY <1>0, <1>12 DEF Release, AfterRelease, Fails, Dismiss, MessageFlowTypeOK
    <2>2. handled' = handled
      BY <1>12 DEF Release
    <2> QED
      BY <2>1, <2>2, HandlerKept
  <1>13. ASSUME NEW g \in Handlers, Handle(g) \/ \E m \in Messages : Deliver(g, m)
         PROVE Goal
    BY <1>5, <1>6, <1>7, <1>8, <1>9, <1>10, <1>11, <1>12, <1>13 DEF Handle
  <1> QED
    BY <1>1, <1>2, <1>3, <1>4, <1>13 DEF Next, Step, Serve

\* What leaves the queue has been handled.
LEMMA QueueStep ==
  ASSUME FlowInv, [Next]_vars
  PROVE  NoEventLost'
  <1> USE DEF FlowInv, NoEventLost, queueVars, handlerVars
  <1>1. CASE UNCHANGED vars
    BY <1>1 DEF vars
  <1>2. ASSUME NEW c \in Callers, Lookup(c) \/ LookupFail(c) \/ Connect(c) \/ ConnectFail(c)
        PROVE NoEventLost'
    BY <1>2 DEF Lookup, LookupFail, Connect, ConnectFail, Refuse
  <1>3. ASSUME NEW r \in Requests, Middleware(r) \/ Serve(r) PROVE NoEventLost'
    BY <1>3
    DEF Middleware, Serve, FindAll, FindAllWithoutTenant, SetupFail, TransactionOk,
        TransactionFail, Publish, PublishFail
  <1>4. ASSUME NEW h \in Handlers, NEW m \in Messages, Deliver(h, m) PROVE NoEventLost'
    BY <1>4 DEF Deliver
  <1>5. ASSUME NEW h \in Handlers, Handle(h), ~Acknowledge(h) PROVE NoEventLost'
    BY <1>5
    DEF Handle, OnMessage, OnMessageWithoutTenant, SetSearchPath, SetSearchPathFail, QueryOk, QueryFail, Release
  <1>6. ASSUME NEW h \in Handlers, Acknowledge(h) PROVE NoEventLost'
    BY <1>6 DEF Acknowledge, HandlerInv
  <1>7. CASE Crash
    BY <1>7 DEF Crash
  <1> QED
    BY <1>1, <1>2, <1>3, <1>4, <1>5, <1>6, <1>7 DEF Next, Step

-----------------------------------------------------------------------------
(* The invariant holds throughout.                                         *)

\* After a crash nobody has anything.
LEMMA AfterCrash ==
  ASSUME FlowInv, Crash
  PROVE  /\ HandlingInv' /\ ConnectionsReturn'
         /\ \A c \in Callers : LookupInv(c)' /\ RunInv(c)'
         /\ \A h \in Handlers : HandlerInv(h)'
  <1> USE FlowAssumption
  <1>1. \A h \in Handlers : stage'[h] = "idle"
    BY DEF Crash
  <1>2. \A r \in Requests : stage'[r] \in {"new", "answered", "failed"}
    <2> SUFFICES ASSUME NEW r \in Requests PROVE stage'[r] \in {"new", "answered", "failed"}
      OBVIOUS
    <2>1. r \in Callers /\ r \notin Handlers
      OBVIOUS
    <2>2. stage'[r] = IF stage[r] \in {"new", "answered"} THEN stage[r] ELSE "failed"
      BY <2>1 DEF Crash
    <2> QED
      BY <2>2
  <1>3. \A k \in Conns : holder'[k] = Nobody
    BY DEF Crash
  <1>4. \A c \in Callers : stage'[c] \notin Running \cup {"lookup"}
    BY <1>1, <1>2 DEF Running
  <1> QED
    BY <1>1, <1>3, <1>4
    DEF HandlingInv, ConnectionsReturn, LookupInv, RunInv, HandlerInv

LEMMA FlowStep == FlowInv /\ [Next]_vars => FlowInv'
  <1> SUFFICES ASSUME FlowInv, [Next]_vars PROVE FlowInv'
    OBVIOUS
  <1>1. PoolInv' /\ MessageFlowTypeOK' /\ NoEventLost' /\ \A r \in Requests : RequestInv(r)'
    BY PoolStep, FlowTypeStep, QueueStep, RequestStep
  <1>2. /\ HandlingInv' /\ ConnectionsReturn'
        /\ \A c \in Callers : LookupInv(c)' /\ RunInv(c)'
        /\ \A h \in Handlers : HandlerInv(h)'
    <2>1. CASE Crash
      BY <2>1, AfterCrash
    <2>2. CASE ~Crash
      BY <2>2, HandsStep, HandlerStep DEF HandlingInv
    <2> QED
      BY <2>1, <2>2
  <1> QED
    BY <1>1, <1>2 DEF FlowInv

\* Every variable of the flow keeps its type.
THEOREM MessageFlowTypeCorrect == Spec => []MessageFlowTypeOK
  <1>1. FlowInv => MessageFlowTypeOK
    BY DEF FlowInv
  <1> QED
    BY FlowInit, FlowStep, <1>1, PTL DEF Spec

\* The tenant that a listener reads from an event is the one in whose schema
\* the publishing request's transaction committed, for any number of requests.
THEOREM EventsAreOwn == Spec => []EventOfItsTenant
  <1>1. FlowInv => EventOfItsTenant
    BY DEF FlowInv, RequestInv, EventOfItsTenant
  <1> QED
    BY FlowInit, FlowStep, <1>1, PTL DEF Spec

\* The listener queries the schema in which the event's transaction committed.
THEOREM HandledInOwnSchema == Spec => []HandledInItsSchema
  <1>1. FlowInv => HandledInItsSchema
    <2> SUFFICES ASSUME FlowInv, NEW h \in Handlers, stage[h] = "query", handling[h] \in Requests
                 PROVE  <<entry[conn[h][1]], path[conn[h]]>> = ran[handling[h]]
      BY DEF HandledInItsSchema
    <2>1. RequestInv(handling[h]) /\ handling[h] \in published
      BY DEF FlowInv, HandlingInv
    <2>2. TenantOf(h) = From(headers[handling[h]])
      BY <2>1, FlowAssumption DEF RequestInv, TenantOf
    <2>3. entry[conn[h][1]] = buildKey(TenantOf(h))
      BY FlowAssumption DEF FlowInv, RunInv, Running
    <2>4. path[conn[h]] = SearchPathOf(TenantOf(h))
      BY DEF FlowInv, HandlerInv
    <2> QED
      BY <2>1, <2>2, <2>3, <2>4 DEF RequestInv, SchemaOf
  <1> QED
    BY FlowInit, FlowStep, <1>1, PTL DEF Spec

\* A message leaves the queue only after an onMessage of it has succeeded.
THEOREM NoEventIsLost == Spec => []NoEventLost
  <1>1. FlowInv => NoEventLost
    BY DEF FlowInv
  <1> QED
    BY FlowInit, FlowStep, <1>1, PTL DEF Spec

\* A connection that is out of its pool belongs to a caller that runs on it and
\* will give it back, unless the set-up of a query runner failed after connect(),
\* in the listener or in the decorator, and leaked it: a failure at any later
\* point, redelivery and crash included, loses none.
THEOREM ConnectionsComeBack == Spec => []ConnectionsReturn
  <1>1. FlowInv => ConnectionsReturn
    BY DEF FlowInv
  <1> QED
    BY FlowInit, FlowStep, <1>1, PTL DEF Spec

=============================================================================

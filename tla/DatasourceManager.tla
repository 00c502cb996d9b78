------------------------- MODULE DatasourceManager -------------------------
(***************************************************************************)
(* The per-tenant connection pools of the service.                         *)
(*                                                                         *)
(* DatasourceManager keeps a Map from a tenant key to a TypeORM DataSource *)
(* (a pool of PostgreSQL connections).  getDataSource looks the key up and *)
(* on a miss builds the DataSource of the tenant's configuration, awaits   *)
(* its initialize() and only then stores it: the awaits split the method   *)
(* into the steps below, and other calls run between them.                 *)
(*                                                                         *)
(* A call belongs to one of Callers, which makes its calls one at a time.  *)
(***************************************************************************)
EXTENDS Naturals, Sequences, FiniteSets

CONSTANTS Callers,        \* whoever calls getDataSource: requests, listeners
          BusinessUnits,  \* business units as clients spell them
          CountryCodes,   \* country codes as clients spell them
          Lower,          \* String.prototype.toLowerCase on those spellings
          Connections,    \* databases.connections of application.yml
          DefaultPool,    \* databases.pool.maxConnections
          DataSources,    \* the DataSource objects the process may create
          NoDataSource,
          NoPool,         \* a connection entry without a pool of its own
          NoKey

Tenants == BusinessUnits \X CountryCodes

ASSUME TenantAssumption ==
    /\ IsFiniteSet(Callers)
    /\ \A bu \in BusinessUnits : Lower[bu] \in STRING
    /\ \A cc \in CountryCodes : Lower[cc] \in STRING

ASSUME DataSourceAssumption ==
    /\ IsFiniteSet(DataSources)
    /\ NoDataSource \notin DataSources

\* A wrong version: the key forgets the country code.
keyFromUnit(t) == Lower[t[1]]

\* `${businessUnit}-${countryCode}`.toLowerCase(): the key of the cache.
keyFrom(t) == Lower[t[1]] \o "-" \o Lower[t[2]]

\* The same join, its parts lower-cased first: the key of the configuration.
buildKey(t) == Lower[t[1]] \o "-" \o Lower[t[2]]

Keys == {keyFrom(t) : t \in Tenants} \cup {buildKey(t) : t \in Tenants}

\* getConnection(key) finds an entry of the configuration, or undefined.
Configured(t) == buildKey(t) \in DOMAIN Connections

\* A connection entry without a pool is given the default one.
PoolMax(k) ==
    IF Connections[k].pool = NoPool THEN DefaultPool ELSE Connections[k].pool

ASSUME ConnectionsAssumption ==
    /\ NoKey \notin Keys
    /\ DOMAIN Connections \subseteq Keys
    /\ \A k \in DOMAIN Connections : PoolMax(k) \in Nat \ {0}

VARIABLES
    dataSources,  \* the Map: key -> cached DataSource
    pool,         \* the life of each DataSource object
    entry,        \* the connection entry each DataSource was built from
    lookup        \* each caller's pending getDataSource call

managerVars == <<dataSources, pool, entry, lookup>>

LookupPhases ==
    {"idle", "initializing", "initialized", "resolved", "rejected"}

Lookups == [phase : LookupPhases, key : Keys \cup {NoKey},
            ds : DataSources \cup {NoDataSource}]

NoLookup == [phase |-> "idle", key |-> NoKey, ds |-> NoDataSource]

TypeOK ==
    /\ dataSources \in [Keys -> DataSources \cup {NoDataSource}]
    /\ pool \in [DataSources -> {"absent", "initializing", "open"}]
    /\ entry \in [DataSources -> Keys \cup {NoKey}]
    /\ lookup \in [Callers -> Lookups]

ManagerInit ==
    /\ dataSources = [k \in Keys |-> NoDataSource]
    /\ pool = [d \in DataSources |-> "absent"]
    /\ entry = [d \in DataSources |-> NoKey]
    /\ lookup = [c \in Callers |-> NoLookup]

-----------------------------------------------------------------------------
\* has(key): the cached DataSource is answered without a step in between.
Hit(c, t) ==
    /\ lookup[c].phase = "idle"
    /\ dataSources[keyFrom(t)] # NoDataSource
    /\ lookup' = [lookup EXCEPT ![c] =
                    [phase |-> "resolved", key |-> keyFrom(t),
                     ds |-> dataSources[keyFrom(t)]]]
    /\ UNCHANGED <<dataSources, pool, entry>>

\* A miss for a tenant without a configuration: getConfigFor rejects.
RejectUnknown(c, t) ==
    /\ lookup[c].phase = "idle"
    /\ dataSources[keyFrom(t)] = NoDataSource
    /\ ~Configured(t)
    /\ lookup' = [lookup EXCEPT ![c] =
                    [phase |-> "rejected", key |-> keyFrom(t),
                     ds |-> NoDataSource]]
    /\ UNCHANGED <<dataSources, pool, entry>>

\* A miss: a new DataSource is built and its initialize() is awaited.
Miss(c, t) ==
    /\ lookup[c].phase = "idle"
    /\ dataSources[keyFrom(t)] = NoDataSource
    /\ Configured(t)
    /\ \E d \in DataSources : pool[d] = "absent"
    /\ LET d == CHOOSE d \in DataSources : pool[d] = "absent"
       IN  /\ pool' = [pool EXCEPT ![d] = "initializing"]
           /\ entry' = [entry EXCEPT ![d] = buildKey(t)]
           /\ lookup' = [lookup EXCEPT ![c] =
                           [phase |-> "initializing", key |-> keyFrom(t),
                            ds |-> d]]
    /\ UNCHANGED dataSources

GetDataSource(c, t) == Hit(c, t) \/ RejectUnknown(c, t) \/ Miss(c, t)

\* initialize() resolves; the caller has yet to be resumed.
InitializeOk(c) ==
    /\ lookup[c].phase = "initializing"
    /\ pool' = [pool EXCEPT ![lookup[c].ds] = "open"]
    /\ lookup' = [lookup EXCEPT ![c].phase = "initialized"]
    /\ UNCHANGED <<dataSources, entry>>

\* A wrong version: the failed object is kept.
InitializeFailKept(c) ==
    /\ lookup[c].phase = "initializing"
    /\ pool' = [pool EXCEPT ![lookup[c].ds] = "failed"]
    /\ lookup' = [lookup EXCEPT ![c].phase = "rejected"]
    /\ UNCHANGED <<dataSources, entry>>

\* A wrong version: the catch block logs and does not rethrow.
InitializeFailIgnored(c) ==
    /\ lookup[c].phase = "initializing"
    /\ pool' = [pool EXCEPT ![lookup[c].ds] = "absent"]
    /\ lookup' = [lookup EXCEPT ![c].phase = "initialized"]
    /\ UNCHANGED <<dataSources, entry>>

\* initialize() rejects: nothing is stored and the object is garbage.
InitializeFail(c) ==
    /\ lookup[c].phase = "initializing"
    /\ pool' = [pool EXCEPT ![lookup[c].ds] = "absent"]
    /\ entry' = [entry EXCEPT ![lookup[c].ds] = NoKey]
    /\ lookup' = [lookup EXCEPT ![c].phase = "rejected",
                                ![c].ds = NoDataSource]
    /\ UNCHANGED dataSources

\* A wrong version: set() is forgotten.
StoreNothing(c) ==
    /\ lookup[c].phase = "initialized"
    /\ lookup' = [lookup EXCEPT ![c].phase = "resolved"]
    /\ UNCHANGED <<dataSources, pool, entry>>

\* The caller is resumed: set(key, dataSource), then get(key).
StoreDataSource(c) ==
    /\ lookup[c].phase = "initialized"
    /\ dataSources' = [dataSources EXCEPT ![lookup[c].key] = lookup[c].ds]
    /\ lookup' = [lookup EXCEPT ![c].phase = "resolved"]
    /\ UNCHANGED <<pool, entry>>

\* What the manager does on its own for a call it has begun.
Proceed(c) == InitializeOk(c) \/ InitializeFail(c) \/ StoreDataSource(c)

\* The caller's await returns; it may call again.
Settled(c) == lookup[c].phase \in {"resolved", "rejected"}

Receive(c) ==
    /\ Settled(c)
    /\ lookup' = [lookup EXCEPT ![c] = NoLookup]
    /\ UNCHANGED <<dataSources, pool, entry>>

ManagerNext ==
    \E c \in Callers :
        \/ \E t \in Tenants : GetDataSource(c, t)
        \/ Proceed(c)
        \/ Receive(c)

\* The event loop resumes every call whose await is over, and the driver ends
\* every initialize(), one way or the other.
ManagerFairness == \A c \in Callers : WF_managerVars(Proceed(c) \/ Receive(c))

ManagerSpec == ManagerInit /\ [][ManagerNext]_managerVars /\ ManagerFairness

-----------------------------------------------------------------------------
(* Properties.                                                             *)

\* A pool is cached only once it is open, and only under the key of the
\* configuration it was built from: a failed or half-open pool is never found
\* by a later call, and no tenant ever finds another one's pool.
CachedPoolIsOpenAndOwn ==
    \A k \in Keys :
        dataSources[k] # NoDataSource =>
            /\ pool[dataSources[k]] = "open"
            /\ entry[dataSources[k]] = k

\* getDataSource never resolves to a pool of another tenant, nor to one that
\* is not open, whatever other calls did between its awaits.
AnsweredFromOwnTenant ==
    \A c \in Callers :
        lookup[c].phase = "resolved" =>
            /\ lookup[c].ds # NoDataSource
            /\ pool[lookup[c].ds] = "open"
            /\ entry[lookup[c].ds] = lookup[c].key

OpenPools(k) == {d \in DataSources : pool[d] = "open" /\ entry[d] = k}

\* However many calls are made, a tenant never costs more pools than there are
\* callers that can miss at the same time: once one of them has stored its
\* pool no later call opens another, and a failed one gives its pool up.
PoolsPerTenantBounded ==
    \A k \in Keys : Cardinality(OpenPools(k)) <= Cardinality(Callers)

\* Whose pool a call was answered from.
Request(c) ==
    LET l == lookup[c]
    IN  CASE l.phase = "idle" ->
               [state |-> "idle", key |-> NoKey, pool |-> NoKey]
          [] l.phase \in {"initializing", "initialized"} ->
               [state |-> "waiting", key |-> l.key, pool |-> NoKey]
          [] l.phase = "resolved" ->
               [state |-> "served", key |-> l.key, pool |-> entry[l.ds]]
          [] l.phase = "rejected" ->
               [state |-> "refused", key |-> l.key, pool |-> NoKey]

Routing == INSTANCE TenantRouting WITH
              Known <- {k \in Keys : k \in DOMAIN Connections},
              served <- {k \in Keys : dataSources[k] # NoDataSource},
              request <- [c \in Callers |-> Request(c)]

\* DatasourceManager keeps the promise of TenantRouting: in particular a race of
\* two first calls, or the failure of one of them, never takes back what a
\* tenant was already given, and every call is answered, with a pool or an error.
ImplementsRouting == Routing!RoutingSpec
=============================================================================

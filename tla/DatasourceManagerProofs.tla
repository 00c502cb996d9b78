---------------------- MODULE DatasourceManagerProofs ----------------------
(***************************************************************************)
(* Proofs about DatasourceManager, for any callers, tenants, configuration *)
(* and number of DataSource objects, and whatever initialize() does.       *)
(***************************************************************************)
EXTENDS DatasourceManager, TLAPS, FiniteSetTheorems

-----------------------------------------------------------------------------
(* Types.                                                                  *)

LEMMA KeyTypes ==
    /\ \A t \in Tenants : keyFrom(t) \in Keys
    /\ \A t \in Tenants : buildKey(t) \in Keys
  BY DEF Keys

\* The cache and the configuration spell a tenant's key alike.
LEMMA OneKey == \A t \in Tenants : keyFrom(t) = buildKey(t)
  BY DEF keyFrom, buildKey

\* A miss takes an object that does not exist yet.
LEMMA FreshDataSource ==
  ASSUME \E d \in DataSources : pool[d] = "absent",
         NEW e, e = CHOOSE d \in DataSources : pool[d] = "absent"
  PROVE  e \in DataSources /\ pool[e] = "absent"
  OBVIOUS

LEMMA TypeInit == ManagerInit => TypeOK
  BY DEF ManagerInit, TypeOK, Lookups, LookupPhases, NoLookup

LEMMA TypeStep == TypeOK /\ [ManagerNext]_managerVars => TypeOK'
  <1> SUFFICES ASSUME TypeOK, [ManagerNext]_managerVars PROVE TypeOK'
    OBVIOUS
  <1> USE KeyTypes DEF TypeOK, Lookups, LookupPhases
  <1>1. CASE UNCHANGED managerVars
    BY <1>1 DEF managerVars
  <1>2. ASSUME NEW c \in Callers, NEW t \in Tenants, GetDataSource(c, t)
        PROVE TypeOK'
    <2>1. CASE Hit(c, t)
      BY <2>1 DEF Hit
    <2>2. CASE RejectUnknown(c, t)
      BY <2>2 DEF RejectUnknown
    <2>3. CASE Miss(c, t)
      <3>1. PICK d \in DataSources :
              /\ pool[d] = "absent"
              /\ pool' = [pool EXCEPT ![d] = "initializing"]
              /\ entry' = [entry EXCEPT ![d] = buildKey(t)]
              /\ lookup' = [lookup EXCEPT ![c] =
                              [phase |-> "initializing", key |-> keyFrom(t),
                               ds |-> d]]
        BY <2>3, FreshDataSource DEF Miss
      <3> QED
        BY <2>3, <3>1 DEF Miss
    <2> QED
      BY <1>2, <2>1, <2>2, <2>3 DEF GetDataSource
  <1>3. ASSUME NEW c \in Callers, Proceed(c) PROVE TypeOK'
    <2>1. CASE InitializeOk(c)
      BY <2>1 DEF InitializeOk
    <2>2. CASE InitializeFail(c)
      BY <2>2 DEF InitializeFail
    <2>3. CASE StoreDataSource(c)
      BY <2>3 DEF StoreDataSource
    <2> QED
      BY <1>3, <2>1, <2>2, <2>3 DEF Proceed
  <1>4. ASSUME NEW c \in Callers, Receive(c) PROVE TypeOK'
    BY <1>4 DEF Receive, NoLookup
  <1> QED
    BY <1>1, <1>2, <1>3, <1>4 DEF ManagerNext

\* The variables of the manager keep their types.
THEOREM ManagerTypeCorrect == ManagerSpec => []TypeOK
  BY TypeInit, TypeStep, PTL DEF ManagerSpec

-----------------------------------------------------------------------------
(* Pools and answers are the tenant's own.                                 *)

\* A call that waits for initialize() waits for a pool of its own making, which
\* is built from its own tenant's entry; later the pool is open and stays so.
LookupPool(c) ==
    LET l == lookup[c]
    IN  /\ l.phase \in {"initializing", "initialized", "resolved"} =>
             /\ l.ds \in DataSources
             /\ l.key \in Keys
             /\ entry[l.ds] = l.key
        /\ l.phase = "initializing" => pool[l.ds] = "initializing"
        /\ l.phase \in {"initialized", "resolved"} => pool[l.ds] = "open"

\* Two calls never wait for one object, so the failure of one is not the
\* failure of the other.
OwnInitialize ==
    \A c1, c2 \in Callers :
        (/\ lookup[c1].phase = "initializing"
         /\ lookup[c2].phase = "initializing"
         /\ lookup[c1].ds = lookup[c2].ds)
        => c1 = c2

PoolInv ==
    /\ TypeOK
    /\ CachedPoolIsOpenAndOwn
    /\ \A c \in Callers : LookupPool(c)
    /\ OwnInitialize

LEMMA PoolInvInit == ManagerInit => PoolInv
  BY TypeInit
  DEF ManagerInit, PoolInv, CachedPoolIsOpenAndOwn, LookupPool, OwnInitialize,
      NoLookup

LEMMA PoolInvStep == PoolInv /\ [ManagerNext]_managerVars => PoolInv'
  <1> SUFFICES ASSUME PoolInv, [ManagerNext]_managerVars PROVE PoolInv'
    OBVIOUS
  <1>t. TypeOK'
    BY TypeStep DEF PoolInv
  <1> USE KeyTypes, DataSourceAssumption
      DEF PoolInv, CachedPoolIsOpenAndOwn, LookupPool, OwnInitialize, TypeOK,
          Lookups
  <1>1. CASE UNCHANGED managerVars
    BY <1>1, <1>t DEF managerVars
  <1>2. ASSUME NEW c \in Callers, NEW t \in Tenants, GetDataSource(c, t)
        PROVE PoolInv'
    <2>1. CASE Hit(c, t)
      BY <2>1, <1>t DEF Hit
    <2>2. CASE RejectUnknown(c, t)
      BY <2>2, <1>t DEF RejectUnknown
    <2>3. CASE Miss(c, t)
      <3>1. PICK d \in DataSources :
              /\ pool[d] = "absent"
              /\ pool' = [pool EXCEPT ![d] = "initializing"]
              /\ entry' = [entry EXCEPT ![d] = keyFrom(t)]
              /\ lookup' = [lookup EXCEPT ![c] =
                              [phase |-> "initializing", key |-> keyFrom(t),
                               ds |-> d]]
              /\ dataSources' = dataSources
        BY <2>3, FreshDataSource, OneKey DEF Miss
      <3>2. CachedPoolIsOpenAndOwn'
        BY <3>1
      <3>3. \A e \in Callers : LookupPool(e)'
        BY <3>1
      <3>4. OwnInitialize'
        BY <3>1
      <3> QED
        BY <1>t, <3>2, <3>3, <3>4
    <2> QED
      BY <1>2, <2>1, <2>2, <2>3 DEF GetDataSource
  <1>3. ASSUME NEW c \in Callers, Proceed(c) PROVE PoolInv'
    <2>1. CASE InitializeOk(c)
      <3>1. /\ lookup[c].phase = "initializing"
            /\ pool' = [pool EXCEPT ![lookup[c].ds] = "open"]
            /\ lookup' = [lookup EXCEPT ![c] = [lookup[c] EXCEPT !.phase = "initialized"]]
            /\ dataSources' = dataSources /\ entry' = entry
        BY <2>1 DEF InitializeOk
      <3>2. CachedPoolIsOpenAndOwn'
        BY <3>1
      <3>3. \A e \in Callers : LookupPool(e)'
        BY <3>1
      <3>4. OwnInitialize'
        BY <3>1
      <3> QED
        BY <1>t, <3>2, <3>3, <3>4
    <2>2. CASE InitializeFail(c)
      <3>1. /\ lookup[c].phase = "initializing"
            /\ pool' = [pool EXCEPT ![lookup[c].ds] = "absent"]
            /\ entry' = [entry EXCEPT ![lookup[c].ds] = NoKey]
            /\ lookup' = [lookup EXCEPT ![c] =
                 [lookup[c] EXCEPT !.phase = "rejected", !.ds = NoDataSource]]
            /\ dataSources' = dataSources
        BY <2>2 DEF InitializeFail
      <3>2. CachedPoolIsOpenAndOwn'
        BY <3>1
      <3>3. \A e \in Callers : LookupPool(e)'
        BY <3>1
      <3>4. OwnInitialize'
        BY <3>1
      <3> QED
        BY <1>t, <3>2, <3>3, <3>4
    <2>3. CASE StoreDataSource(c)
      <3>1. /\ lookup[c].phase = "initialized"
            /\ dataSources' = [dataSources EXCEPT ![lookup[c].key] = lookup[c].ds]
            /\ lookup' = [lookup EXCEPT ![c] = [lookup[c] EXCEPT !.phase = "resolved"]]
            /\ pool' = pool /\ entry' = entry
        BY <2>3 DEF StoreDataSource
      <3> QED
        BY <1>t, <3>1
    <2> QED
      BY <1>3, <2>1, <2>2, <2>3 DEF Proceed
  <1>4. ASSUME NEW c \in Callers, Receive(c) PROVE PoolInv'
    BY <1>4, <1>t DEF Receive, NoLookup
  <1> QED
    BY <1>1, <1>2, <1>3, <1>4 DEF ManagerNext

\* An open pool stays open and its tenant's.
LEMMA PoolsStay ==
  ASSUME PoolInv, [ManagerNext]_managerVars,
         NEW d \in DataSources, pool[d] = "open"
  PROVE  pool'[d] = "open" /\ entry'[d] = entry[d]
  <1> USE DEF PoolInv, TypeOK, LookupPool, Lookups
  <1>1. CASE UNCHANGED managerVars
    BY <1>1 DEF managerVars
  <1>2. ASSUME NEW c \in Callers, NEW t \in Tenants, GetDataSource(c, t)
        PROVE pool'[d] = "open" /\ entry'[d] = entry[d]
    <2>1. CASE Miss(c, t)
      BY <2>1, FreshDataSource DEF Miss
    <2> QED
      BY <1>2, <2>1 DEF GetDataSource, Hit, RejectUnknown
  <1>3. ASSUME NEW c \in Callers, Proceed(c)
        PROVE pool'[d] = "open" /\ entry'[d] = entry[d]
    BY <1>3 DEF Proceed, InitializeOk, InitializeFail, StoreDataSource
  <1>4. ASSUME NEW c \in Callers, Receive(c)
        PROVE pool'[d] = "open" /\ entry'[d] = entry[d]
    BY <1>4 DEF Receive
  <1> QED
    BY <1>1, <1>2, <1>3, <1>4 DEF ManagerNext

\* A step of one call leaves the keys of the others.
LEMMA LookupSteps ==
  ASSUME TypeOK, NEW c \in Callers
  PROVE  /\ Proceed(c) => \A e \in Callers : lookup'[e].key = lookup[e].key
         /\ Receive(c) => \A e \in Callers \ {c} : lookup'[e] = lookup[e]
         /\ \A t : GetDataSource(c, t) =>
              /\ lookup'[c].key = keyFrom(t)
              /\ \A e \in Callers \ {c} : lookup'[e] = lookup[e]
  <1> USE DEF TypeOK, Lookups
  <1>1. ASSUME Proceed(c), NEW e \in Callers PROVE lookup'[e].key = lookup[e].key
    BY <1>1 DEF Proceed, InitializeOk, InitializeFail, StoreDataSource
  <1>2. ASSUME Receive(c), NEW e \in Callers \ {c} PROVE lookup'[e] = lookup[e]
    BY <1>2 DEF Receive
  <1>3. ASSUME NEW t, GetDataSource(c, t)
        PROVE  /\ lookup'[c].key = keyFrom(t)
               /\ \A e \in Callers \ {c} : lookup'[e] = lookup[e]
    BY <1>3 DEF GetDataSource, Hit, RejectUnknown, Miss
  <1> QED
    BY <1>1, <1>2, <1>3

\* What is cached is open and belongs to the tenant it is cached for, for any
\* callers and tenants.
THEOREM CachedPoolsAreOwn == ManagerSpec => []CachedPoolIsOpenAndOwn
  <1>1. PoolInv => CachedPoolIsOpenAndOwn
    BY DEF PoolInv
  <1> QED
    BY PoolInvInit, PoolInvStep, <1>1, PTL DEF ManagerSpec

\* No call is answered with another tenant's pool or with one that is not open.
THEOREM AnswersAreOwn == ManagerSpec => []AnsweredFromOwnTenant
  <1>1. PoolInv => AnsweredFromOwnTenant
    BY DataSourceAssumption DEF PoolInv, LookupPool, AnsweredFromOwnTenant
  <1> QED
    BY PoolInvInit, PoolInvStep, <1>1, PTL DEF ManagerSpec

-----------------------------------------------------------------------------
(* The number of pools.                                                    *)

\* The objects built from the entry of k, open or not yet.
Built(k) == {d \in DataSources : entry[d] = k}

\* Before the first pool of a tenant is stored each of its objects is in the
\* hands of one caller; afterwards no more of them are built.
InHands(k) ==
    dataSources[k] = NoDataSource =>
        \A d \in Built(k) : \E c \in Callers :
            /\ lookup[c].phase \in {"initializing", "initialized"}
            /\ lookup[c].ds = d

BoundInv ==
    /\ PoolInv
    /\ \A k \in Keys : InHands(k)
    /\ \A k \in Keys : Cardinality(Built(k)) <= Cardinality(Callers)

LEMMA BuiltFinite ==
    \A k : IsFiniteSet(Built(k)) /\ Cardinality(Built(k)) \in Nat
  BY DataSourceAssumption, FS_Subset, FS_CardinalityType DEF Built

\* Objects in the hands of different callers are at most as many as these.
LEMMA HandsBound ==
  ASSUME NEW S \in SUBSET DataSources, NEW f \in [Callers -> DataSources \cup {NoDataSource}],
         \A d \in S : \E c \in Callers : f[c] = d
  PROVE  Cardinality(S) <= Cardinality(Callers)
  <1> DEFINE C == {c \in Callers : f[c] \in S}
             g == [c \in C |-> f[c]]
  <1>1. g \in Surjection(C, S)
    BY DEF Surjection
  <1>2. IsFiniteSet(C) /\ Cardinality(C) <= Cardinality(Callers)
    BY TenantAssumption, FS_Subset
  <1>3. IsFiniteSet(S) /\ Cardinality(S) <= Cardinality(C)
    <2> HIDE DEF C, g
    <2> QED
      BY <1>1, <1>2, FS_Surjection
  <1>4. Cardinality(S) \in Nat /\ Cardinality(C) \in Nat /\ Cardinality(Callers) \in Nat
    BY <1>2, <1>3, TenantAssumption, FS_CardinalityType
  <1> HIDE DEF C, g
  <1> QED
    BY <1>2, <1>3, <1>4

LEMMA BoundInvInit == ManagerInit => BoundInv
  <1> SUFFICES ASSUME ManagerInit PROVE BoundInv
    OBVIOUS
  <1>1. \A k \in Keys : Built(k) = {}
    BY ConnectionsAssumption DEF ManagerInit, Built
  <1>2. Cardinality({}) = 0 /\ Cardinality(Callers) \in Nat
    BY TenantAssumption, FS_EmptySet, FS_CardinalityType
  <1> QED
    BY PoolInvInit, <1>1, <1>2 DEF BoundInv, InHands

LEMMA BoundInvStep == BoundInv /\ [ManagerNext]_managerVars => BoundInv'
  <1> SUFFICES ASSUME BoundInv, [ManagerNext]_managerVars PROVE BoundInv'
    OBVIOUS
  <1>t. PoolInv /\ PoolInv'
    BY PoolInvStep DEF BoundInv
  \* A step after which no tenant has more objects than before.
  <1>s. ASSUME \A k \in Keys : Built(k)' \subseteq Built(k), \A k \in Keys : InHands(k)'
        PROVE  BoundInv'
    <2>1. ASSUME NEW k \in Keys
          PROVE  Cardinality(Built(k)') <= Cardinality(Callers)
      <3>1. Cardinality(Built(k)') <= Cardinality(Built(k))
        BY <1>s, BuiltFinite, FS_Subset
      <3>2. Built(k)' \in SUBSET Built(k)
        BY <1>s
      <3>3. Cardinality(Built(k)') \in Nat
        BY <3>2, BuiltFinite, FS_Subset, FS_CardinalityType
      <3> QED
        BY <3>1, <3>3, BuiltFinite, TenantAssumption, FS_CardinalityType DEF BoundInv
    <2> QED
      BY <1>s, <1>t, <2>1 DEF BoundInv, Built
  <1> USE KeyTypes, DataSourceAssumption
  <1>1. CASE UNCHANGED managerVars
    BY <1>1, <1>s DEF managerVars, Built, InHands, BoundInv
  <1>2. ASSUME NEW c \in Callers, NEW t \in Tenants, GetDataSource(c, t)
        PROVE BoundInv'
    <2>1. CASE Hit(c, t)
      BY <2>1, <1>s, <1>t DEF Hit, Built, InHands, BoundInv, PoolInv, TypeOK, Lookups
    <2>2. CASE RejectUnknown(c, t)
      BY <2>2, <1>s, <1>t DEF RejectUnknown, Built, InHands, BoundInv, PoolInv, TypeOK, Lookups
    <2>3. CASE Miss(c, t)
      <3>1. PICK d \in DataSources :
              /\ pool[d] = "absent"
              /\ entry' = [entry EXCEPT ![d] = keyFrom(t)]
              /\ lookup' = [lookup EXCEPT ![c] =
                              [phase |-> "initializing", key |-> keyFrom(t),
                               ds |-> d]]
              /\ lookup[c].phase = "idle"
              /\ dataSources' = dataSources
              /\ dataSources[keyFrom(t)] = NoDataSource
        BY <2>3, FreshDataSource, OneKey DEF Miss
      <3>2. ASSUME NEW k \in Keys PROVE InHands(k)'
        BY <3>1, <1>t DEF InHands, Built, BoundInv, PoolInv, TypeOK, Lookups
      <3>3. ASSUME NEW k \in Keys PROVE Cardinality(Built(k)') <= Cardinality(Callers)
        <4>1. CASE k = keyFrom(t)
          <5> DEFINE f == [e \in Callers |-> lookup'[e].ds]
          <5>1. f \in [Callers -> DataSources \cup {NoDataSource}]
            BY <1>t DEF PoolInv, TypeOK, Lookups
          <5>2. \A e \in Built(k)' : \E a \in Callers : f[a] = e
            BY <3>1, <3>2, <4>1 DEF InHands
          <5>3. Built(k)' \in SUBSET DataSources
            BY DEF Built
          <5> HIDE DEF f
          <5> QED
            BY <5>1, <5>2, <5>3, HandsBound
        <4>2. CASE k # keyFrom(t)
          <5>1. Built(k)' \in SUBSET Built(k)
            BY <3>1, <4>2, <1>t DEF Built, PoolInv, TypeOK
          <5>2. Cardinality(Built(k)') <= Cardinality(Built(k)) /\ IsFiniteSet(Built(k)')
            BY <5>1, BuiltFinite, FS_Subset
          <5>3. Cardinality(Built(k)') \in Nat
            BY <5>2, FS_CardinalityType
          <5> QED
            BY <5>2, <5>3, BuiltFinite, TenantAssumption, FS_CardinalityType DEF BoundInv
        <4> QED
          BY <4>1, <4>2
      <3> QED
        BY <1>t, <3>2, <3>3 DEF BoundInv
    <2> QED
      BY <1>2, <2>1, <2>2, <2>3 DEF GetDataSource
  <1>3. ASSUME NEW c \in Callers, Proceed(c) PROVE BoundInv'
    <2>1. CASE InitializeOk(c)
      <3>1. \A k \in Keys : Built(k)' = Built(k)
        BY <2>1 DEF InitializeOk, Built
      <3>2. \A k \in Keys : InHands(k)'
        BY <2>1, <1>t, <3>1 DEF InitializeOk, InHands, BoundInv, PoolInv, TypeOK, Lookups
      <3> QED
        BY <1>s, <3>1, <3>2
    <2>2. CASE InitializeFail(c)
      <3>1. /\ lookup[c].phase = "initializing"
            /\ entry' = [entry EXCEPT ![lookup[c].ds] = NoKey]
            /\ lookup' = [lookup EXCEPT ![c] =
                 [lookup[c] EXCEPT !.phase = "rejected", !.ds = NoDataSource]]
            /\ dataSources' = dataSources
        BY <2>2 DEF InitializeFail
      <3>2. \A k \in Keys : Built(k)' \subseteq Built(k) \ {lookup[c].ds}
        BY <3>1, <1>t, ConnectionsAssumption DEF Built, PoolInv, TypeOK, Lookups
      <3>3. \A k \in Keys : InHands(k)'
        BY <3>1, <3>2, <1>t DEF InHands, BoundInv, PoolInv, TypeOK, Lookups
      <3> QED
        BY <1>s, <3>2, <3>3
    <2>3. CASE StoreDataSource(c)
      <3>1. /\ lookup[c].phase = "initialized"
            /\ dataSources' = [dataSources EXCEPT ![lookup[c].key] = lookup[c].ds]
            /\ lookup' = [lookup EXCEPT ![c] = [lookup[c] EXCEPT !.phase = "resolved"]]
            /\ entry' = entry
        BY <2>3 DEF StoreDataSource
      <3>2. \A k \in Keys : Built(k)' = Built(k)
        BY <3>1 DEF Built
      <3>3. ASSUME NEW k \in Keys PROVE InHands(k)'
        <4>1. CASE k = lookup[c].key
          BY <3>1, <4>1, <1>t DEF InHands, PoolInv, TypeOK, LookupPool
        <4>2. CASE k # lookup[c].key
          BY <3>1, <3>2, <4>2, <1>t
          DEF InHands, BoundInv, PoolInv, TypeOK, LookupPool, Lookups, Built
        <4> QED
          BY <4>1, <4>2
      <3> QED
        BY <1>s, <3>2, <3>3
    <2> QED
      BY <1>3, <2>1, <2>2, <2>3 DEF Proceed
  <1>4. ASSUME NEW c \in Callers, Receive(c) PROVE BoundInv'
    BY <1>4, <1>s, <1>t DEF Receive, Settled, NoLookup, Built, InHands, BoundInv, PoolInv, TypeOK, Lookups
  <1> QED
    BY <1>1, <1>2, <1>3, <1>4 DEF ManagerNext

\* A tenant has at most as many pools as there are callers, however many calls
\* they make.
THEOREM PoolsStayBounded == ManagerSpec => []PoolsPerTenantBounded
  <1>1. BoundInv => PoolsPerTenantBounded
    <2> SUFFICES ASSUME BoundInv, NEW k \in Keys
                 PROVE  Cardinality(OpenPools(k)) <= Cardinality(Callers)
      BY DEF PoolsPerTenantBounded
    <2>1. OpenPools(k) \in SUBSET Built(k)
      BY DEF OpenPools, Built
    <2>2. Cardinality(OpenPools(k)) <= Cardinality(Built(k)) /\ IsFiniteSet(OpenPools(k))
      BY <2>1, BuiltFinite, FS_Subset
    <2>3. Cardinality(OpenPools(k)) \in Nat
      BY <2>2, FS_CardinalityType
    <2> QED
      BY <2>2, <2>3, BuiltFinite, TenantAssumption, FS_CardinalityType DEF BoundInv
  <1> QED
    BY BoundInvInit, BoundInvStep, <1>1, PTL DEF ManagerSpec

-----------------------------------------------------------------------------
(* DatasourceManager implements TenantRouting, its liveness left to TLC.   *)

LEMMA RoutingInitMapped == ManagerInit => Routing!RoutingInit
  BY DEF ManagerInit, NoLookup, Request, Routing!RoutingInit, Routing!Idle

\* A step changes one caller's request and no other's.
LEMMA AnswerOne ==
  ASSUME NEW c \in Callers, NEW s, NEW k, NEW p,
         Request(c)' = [state |-> s, key |-> k, pool |-> p],
         \A e \in Callers : e # c => Request(e)' = Request(e)
  PROVE  Routing!Answer(c, s, k, p)
  BY DEF Routing!Answer

\* Nobody touches a pool that has answered another caller's lookup.
LEMMA OthersUnchanged ==
  ASSUME PoolInv, NEW c \in Callers,
         \A e \in Callers : e # c => lookup'[e] = lookup[e],
         \A d \in DataSources : pool[d] = "open" => entry'[d] = entry[d]
  PROVE  \A e \in Callers : e # c => Request(e)' = Request(e)
  <1> SUFFICES ASSUME NEW e \in Callers, e # c PROVE Request(e)' = Request(e)
    OBVIOUS
  <1>1. lookup'[e] = lookup[e]
    OBVIOUS
  <1>2. lookup[e].phase = "resolved" => entry'[lookup[e].ds] = entry[lookup[e].ds]
    BY DEF PoolInv, LookupPool
  <1>3. CASE lookup[e].phase = "resolved"
    BY <1>1, <1>2, <1>3 DEF Request
  <1>4. CASE lookup[e].phase # "resolved"
    BY <1>1, <1>4 DEF Request
  <1> QED
    BY <1>3, <1>4

LEMMA RoutingStepMapped ==
  PoolInv /\ [ManagerNext]_managerVars => [Routing!RoutingNext]_(Routing!routingVars)
  <1> SUFFICES ASSUME PoolInv, [ManagerNext]_managerVars
               PROVE  Routing!RoutingNext \/ UNCHANGED Routing!routingVars
    OBVIOUS
  <1> USE KeyTypes DEF PoolInv, TypeOK, Lookups, LookupPhases, LookupPool
  <1>1. CASE UNCHANGED managerVars
    BY <1>1 DEF managerVars, Routing!routingVars, Request
  <1>2. ASSUME NEW c \in Callers, NEW t \in Tenants, GetDataSource(c, t)
        PROVE Routing!RoutingNext
    <2>1. CASE Hit(c, t)
      <3>1. Routing!ServeAtOnce(c, keyFrom(t))
        <4> DEFINE k == keyFrom(t)
        <4>1. /\ lookup[c].phase = "idle" /\ dataSources[k] # NoDataSource
              /\ lookup'[c] = [phase |-> "resolved", key |-> k, ds |-> dataSources[k]]
              /\ \A e \in Callers : e # c => lookup'[e] = lookup[e]
              /\ dataSources' = dataSources /\ entry' = entry
          BY <2>1 DEF Hit
        <4>2. k \in Keys /\ entry[dataSources[k]] = k
          BY <4>1 DEF CachedPoolIsOpenAndOwn
        <4>3. Request(c)' = [state |-> "served", key |-> k, pool |-> k]
          BY <4>1, <4>2 DEF Request
        <4>4. \A e \in Callers : e # c => Request(e)' = Request(e)
          BY <4>1, OthersUnchanged
        <4>5. Routing!Answer(c, "served", k, k)
          BY <4>3, <4>4, AnswerOne
        <4>6. Request(c).state = "idle"
          BY <4>1 DEF Request
        <4> QED
          BY <4>1, <4>2, <4>5, <4>6 DEF Routing!ServeAtOnce
      <3> QED
        BY <3>1 DEF Routing!RoutingNext
    <2>2. CASE RejectUnknown(c, t)
      <3>1. Routing!RefuseAtOnce(c, keyFrom(t))
        BY <2>2, OneKey DEF RejectUnknown, Configured, Routing!RefuseAtOnce, Routing!Answer, Request
      <3> QED
        BY <3>1 DEF Routing!RoutingNext
    <2>3. CASE Miss(c, t)
      <3>1. PICK d \in DataSources :
              /\ pool[d] = "absent"
              /\ entry' = [entry EXCEPT ![d] = keyFrom(t)]
              /\ lookup' = [lookup EXCEPT ![c] =
                              [phase |-> "initializing", key |-> keyFrom(t),
                               ds |-> d]]
              /\ lookup[c].phase = "idle"
              /\ dataSources' = dataSources
              /\ dataSources[keyFrom(t)] = NoDataSource
              /\ keyFrom(t) \in DOMAIN Connections
        BY <2>3, FreshDataSource, OneKey DEF Miss, Configured
      <3>2. Routing!Ask(c, keyFrom(t))
        BY <3>1 DEF Routing!Ask, Routing!Answer, Request
      <3> QED
        BY <3>2 DEF Routing!RoutingNext
    <2> QED
      BY <1>2, <2>1, <2>2, <2>3 DEF GetDataSource
  <1>3. ASSUME NEW c \in Callers, Proceed(c)
        PROVE Routing!RoutingNext \/ UNCHANGED Routing!routingVars
    <2>1. CASE InitializeOk(c)
      BY <2>1 DEF InitializeOk, Routing!routingVars, Request
    <2>2. CASE InitializeFail(c)
      <3>1. Routing!Refuse(c)
        <4> DEFINE d == lookup[c].ds
        <4>1. /\ lookup[c].phase = "initializing"
              /\ entry' = [entry EXCEPT ![d] = NoKey]
              /\ lookup' = [lookup EXCEPT ![c] =
                   [lookup[c] EXCEPT !.phase = "rejected", !.ds = NoDataSource]]
              /\ dataSources' = dataSources
          BY <2>2 DEF InitializeFail
        <4>2. d \in DataSources /\ pool[d] = "initializing"
          BY <4>1
        <4>3. Request(c)' = [state |-> "refused", key |-> lookup[c].key, pool |-> NoKey]
          BY <4>1 DEF Request
        <4>4. \A e \in Callers : e # c => Request(e)' = Request(e)
          BY <4>1, <4>2, OthersUnchanged
        <4>5. Routing!Answer(c, "refused", lookup[c].key, NoKey)
          BY <4>3, <4>4, AnswerOne
        <4>6. Request(c).state = "waiting" /\ Request(c).key = lookup[c].key
          BY <4>1 DEF Request
        <4> QED
          BY <4>1, <4>5, <4>6 DEF Routing!Refuse
      <3> QED
        BY <3>1 DEF Routing!RoutingNext
    <2>3. CASE StoreDataSource(c)
      <3>1. Routing!Serve(c)
        <4> DEFINE k == lookup[c].key
        <4>1. /\ lookup[c].phase = "initialized"
              /\ dataSources' = [dataSources EXCEPT ![k] = lookup[c].ds]
              /\ lookup' = [lookup EXCEPT ![c] = [lookup[c] EXCEPT !.phase = "resolved"]]
              /\ entry' = entry
          BY <2>3 DEF StoreDataSource
        <4>2. /\ k \in Keys /\ lookup[c].ds \in DataSources
              /\ entry[lookup[c].ds] = k
          BY <4>1
        <4>3. Request(c)' = [state |-> "served", key |-> k, pool |-> k]
          BY <4>1, <4>2 DEF Request
        <4>4. \A e \in Callers : e # c => Request(e)' = Request(e)
          BY <4>1, OthersUnchanged
        <4>5. Routing!Answer(c, "served", k, k)
          BY <4>3, <4>4, AnswerOne
        <4>6. Request(c).state = "waiting" /\ Request(c).key = k
          BY <4>1 DEF Request
        <4>7. {j \in Keys : dataSources'[j] # NoDataSource}
                = {j \in Keys : dataSources[j] # NoDataSource} \cup {k}
          BY <4>1, <4>2, DataSourceAssumption
        <4> QED
          BY <4>5, <4>6, <4>7 DEF Routing!Serve
      <3> QED
        BY <3>1 DEF Routing!RoutingNext
    <2> QED
      BY <1>3, <2>1, <2>2, <2>3 DEF Proceed
  <1>4. ASSUME NEW c \in Callers, Receive(c) PROVE Routing!RoutingNext
    <2>1. Routing!Done(c)
      BY <1>4 DEF Receive, Settled, NoLookup, Routing!Done, Routing!Idle, Request
    <2> QED
      BY <2>1 DEF Routing!RoutingNext
  <1> QED
    BY <1>1, <1>2, <1>3, <1>4 DEF ManagerNext

\* Every behaviour of the manager is one of TenantRouting, liveness aside: a
\* served tenant stays served, whatever overlapping calls and failures do.
THEOREM RoutingIsKept ==
    ManagerSpec =>
        Routing!RoutingInit /\ [][Routing!RoutingNext]_(Routing!routingVars)
  BY PoolInvInit, PoolInvStep, RoutingInitMapped, RoutingStepMapped, PTL
  DEF ManagerSpec
=============================================================================

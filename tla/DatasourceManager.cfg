SPECIFICATION ManagerSpec
CONSTANTS
    c1 = c1
    c2 = c2
    c3 = c3
    d1 = d1
    d2 = d2
    d3 = d3
    d4 = d4
    d5 = d5
    d6 = d6
    NoDataSource = NoDataSource
    NoPool = NoPool
    NoKey = NoKey
    DefaultPool = 1
    Callers <- MCCallers
    BusinessUnits <- MCBusinessUnits
    CountryCodes <- MCCountryCodes
    Lower <- MCLower
    Connections <- MCConnections
    DataSources <- MCDataSources
INVARIANTS
    TypeOK
    CachedPoolIsOpenAndOwn
    AnsweredFromOwnTenant
    PoolsPerTenantBounded
PROPERTIES
    ImplementsRouting

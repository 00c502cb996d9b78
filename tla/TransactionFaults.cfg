SPECIFICATION Spec
CONSTANTS
    r1 = r1
    r2 = r2
    r3 = r3
    d1 = d1
    d2 = d2
    s1 = s1
    s2 = s2
    s3 = s3
    NoDataSource = NoDataSource
    NoPool = NoPool
    NoKey = NoKey
    NoTenant = NoTenant
    Nobody = Nobody
    NoConn = NoConn
    NoPath = NoPath
    Callers <- Two
    DataSources <- TwoSources
    TenantOf <- TwoTenants
    BusinessUnits <- MCBusinessUnits
    CountryCodes <- MCCountryCodes
    Lower <- MCLower
    Connections <- MCConnections
    Slots <- TwoSlots
    DefaultPool = 2
    MaxDepth = 2
    MaxCalls = 2
    Budget <- TwoAndOne
    Faults = {"sql", "commit", "drop", "reply"}
    Catch = {"REQUIRED", "REQUIRES_NEW"}
SYMMETRY SlotSymmetry
INVARIANTS
    TenantIsolation
    NoConnectionLeak
    PoolIsClean
PROPERTIES
    ImplementsAtomic

SPECIFICATION Spec
CONSTANTS
    r1 = r1
    r2 = r2
    r3 = r3
    d1 = d1
    d2 = d2
    s1 = s1
    s2 = s2
    s3 = s3
    NoDataSource = NoDataSource
    NoPool = NoPool
    NoKey = NoKey
    NoTenant = NoTenant
    Nobody = Nobody
    NoConn = NoConn
    NoPath = NoPath
    Callers <- One
    DataSources <- OneSource
    TenantOf <- TwoTenants
    BusinessUnits <- MCBusinessUnits
    CountryCodes <- MCCountryCodes
    Lower <- MCLower
    Connections <- MCConnections
    Slots <- ThreeSlots
    DefaultPool = 3
    MaxDepth = 3
    MaxCalls = 4
    Budget <- FourEach
    Faults = {"sql", "commit", "connect", "drop"}
    Catch = {"REQUIRES_NEW"}
SYMMETRY SlotSymmetry
INVARIANTS
    ContextIsLive
    OutcomeIsTrue
PROPERTIES
    SuspendedOuterUntouched

SPECIFICATION FairSpec
CHECK_DEADLOCK FALSE
CONSTANTS
    r1 = r1
    r2 = r2
    h1 = h1
    f1 = f1
    d1 = d1
    d2 = d2
    d3 = d3
    s1 = s1
    NoDataSource = NoDataSource
    NoPool = NoPool
    NoKey = NoKey
    Nobody = Nobody
    NoConn = NoConn
    NoPath = NoPath
    Absent = Absent
    Blank = Blank
    NoTenant = NoTenant
    NoSchema = NoSchema
    NoMessage = NoMessage
    Requests <- MCRequests
    Handlers <- MCHandlers
    Callers <- MCCallers
    Foreign <- MCForeign
    RequestHeaders <- MCRequestHeaders
    ForeignAttributes <- MCForeignAttributes
    DataSources <- MCDataSources
    BusinessUnits <- MCBusinessUnits
    CountryCodes <- MCCountryCodes
    Lower <- MCLower
    Connections <- MCConnections
    Slots <- MCSlots
    DefaultPool = 1
    MaxCrashes = 1
INVARIANTS
    MessageFlowTypeOK
    EventOfItsTenant
    HandledInItsSchema
    NoEventLost
    ConnectionsReturn
PROPERTIES
    EveryRequestAnswered
    EveryEventHandled

SPECIFICATION FairSpec
CONSTANTS
    p1 = p1
    p2 = p2
    NoPool = NoPool
    Probes <- MCProbes
    Connections <- MCConnections
    DefaultPool <- MCPool
    Limit <- MCLimit
INVARIANTS
    ActuatorTypeOK
PROPERTIES
    AnswersAreHonest
    EveryProbeAnswered
    SessionsGoBack

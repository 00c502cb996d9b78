SPECIFICATION FairSpec
CONSTANTS
    c1 = c1
    c2 = c2
    c3 = c3
    Nobody = Nobody
    Callers <- MCCallers
    Configured <- MCConfigured
    Defaults <- MCDefaults
    MaxFires = 2
INVARIANTS
    CircuitTypeOK
    ProbeAccounted
    FreshStart
PROPERTIES
    ProbeDecides
    ImplementsCircuit
    EveryRequestEnds
    Recovers

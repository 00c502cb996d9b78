SPECIFICATION FairSpec
CONSTANTS
    r1 = r1
    r2 = r2
    r3 = r3
    Nobody = Nobody
    Ghost = Ghost
    Replicas <- MCTwoReplicas
    NumTargets = 2
    Database <- MCDatabase
    LockKey <- Distinct
    Migrations <- MCMigrations
    Shipped <- SameBuild
    MaxDrops = 1
    Lingers = FALSE
INVARIANTS
    MigratedUnlessSkipped
PROPERTIES
    EventuallyMigrated

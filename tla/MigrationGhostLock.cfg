SPECIFICATION FairSpec
CONSTANTS
    r1 = r1
    r2 = r2
    r3 = r3
    Nobody = Nobody
    Ghost = Ghost
    Replicas <- MCTwoReplicas
    NumTargets = 1
    Database <- MCDatabase
    LockKey <- Distinct
    Migrations <- MCMigrations
    Shipped <- SameBuild
    MaxDrops = 0
    Lingers = TRUE
PROPERTIES
    EventuallyMigrated

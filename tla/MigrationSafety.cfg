SPECIFICATION Spec
CONSTANTS
    r1 = r1
    r2 = r2
    r3 = r3
    Nobody = Nobody
    Ghost = Ghost
    Replicas <- MCTwoReplicas
    NumTargets = 2
    Database <- MCDatabase
    LockKey <- Colliding
    Migrations <- MCMigrations
    Shipped <- TwoBuilds
    MaxDrops = 0
    Lingers = TRUE
INVARIANTS
    MigrationTypeOK
    OneMigratorPerTarget
    AppliedOnce
    NoLockLeak
PROPERTIES
    OnlyHolderUnlocks

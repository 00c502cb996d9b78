------------------------- MODULE MCMigrationService -------------------------
(***************************************************************************)
(* Small instances of MigrationService: two or three replicas, two tenant  *)
(* schemas that share a lock by a collision of their hashes, or not.       *)
(***************************************************************************)
EXTENDS MigrationService, TLC

CONSTANTS r1, r2, r3

MCTwoReplicas == {r1, r2}
MCThreeReplicas == {r1, r2, r3}
ReplicaSymmetry == Permutations(Replicas)
MCDatabase == [t \in Targets |-> "serhafen_common"]
Distinct == [t \in Targets |-> t]
Colliding == [t \in Targets |-> 7]
MCMigrations == {"CreateMessagesTable", "AddIndex"}
SameBuild == [r \in Replicas |-> MCMigrations]
\* A rolling upgrade: the other replicas run the build before.
TwoBuilds == [r \in Replicas |->
                IF r = r1 THEN MCMigrations ELSE {"CreateMessagesTable"}]
=============================================================================

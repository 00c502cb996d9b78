-------------------------- MODULE MigrationService --------------------------
(***************************************************************************)
(* The bootstrap of the service's replicas: each one runs the migrations   *)
(* of every tenant database, one after the other, before it listens.  A    *)
(* PostgreSQL advisory lock, tried and never waited for, is to keep two    *)
(* replicas from migrating one schema at the same time.                    *)
(*                                                                         *)
(* A replica that fails exits and is started again by whoever runs it; a   *)
(* replica may also crash in any state.  An advisory lock belongs to the   *)
(* session that took it and goes with it: at once when the pool closes the *)
(* connection or the process dies and its sockets are closed; only when    *)
(* the server notices, if the crash takes the host or the network along.   *)
(***************************************************************************)
EXTENDS Naturals, FiniteSets

CONSTANTS Replicas,
          NumTargets,  \* the entries of databases.connections
          Database,    \* the database of each entry
          LockKey,     \* generateLockKey(database, schema) of each entry
          Migrations,
          Shipped,     \* the migrations in the build of each replica
          MaxDrops,    \* bounds the sessions the network takes away
          Lingers,     \* whether the session of a crashed replica lives on
          Nobody,
          Ghost        \* such a session

Targets == 1..NumTargets

ASSUME MigrationAssumption ==
    /\ NumTargets \in Nat \ {0}
    /\ IsFiniteSet(Replicas) /\ IsFiniteSet(Migrations)
    /\ Shipped \in [Replicas -> SUBSET Migrations]
    /\ MaxDrops \in Nat /\ Lingers \in BOOLEAN
    /\ Nobody \notin Replicas /\ Ghost \notin Replicas /\ Nobody # Ghost

\* PostgreSQL keeps the advisory locks of each database apart.  Two schemas of
\* one database share a lock when their 32-bit hashes collide.
LockId(t) == <<Database[t], LockKey[t]>>
LockIds == {LockId(t) : t \in Targets}

VARIABLES
    stage,        \* where each replica stands
    at,           \* the target it works on
    raised,       \* runMigrationsOnDatabase is about to rethrow
    initialized,  \* dataSource.isInitialized
    skipped,      \* targets whose lock it did not get in this run
    seen,         \* the migrations it read as applied
    lock,         \* the session that holds each advisory lock
    records,      \* how often each migration was applied to each target
    drops         \* sessions lost so far

replicaVars == <<stage, at, raised, initialized, skipped, seen>>
vars == <<replicaVars, lock, records, drops>>

Stages == {"down", "initialize", "setSchema", "tryLock", "read", "apply",
           "unlock", "destroy", "listening"}

MigrationTypeOK ==
    /\ stage \in [Replicas -> Stages]
    /\ at \in [Replicas -> Targets]
    /\ raised \in [Replicas -> BOOLEAN]
    /\ initialized \in [Replicas -> BOOLEAN]
    /\ skipped \in [Replicas -> SUBSET Targets]
    /\ seen \in [Replicas -> SUBSET Migrations]
    /\ lock \in [LockIds -> Replicas \cup {Nobody, Ghost}]
    /\ records \in [Targets -> [Migrations -> Nat]]
    /\ drops \in 0..MaxDrops

Init ==
    /\ stage = [r \in Replicas |-> "down"]
    /\ at = [r \in Replicas |-> 1]
    /\ raised = [r \in Replicas |-> FALSE]
    /\ initialized = [r \in Replicas |-> FALSE]
    /\ skipped = [r \in Replicas |-> {}]
    /\ seen = [r \in Replicas |-> {}]
    /\ lock = [k \in LockIds |-> Nobody]
    /\ records = [t \in Targets |-> [m \in Migrations |-> 0]]
    /\ drops = 0

GoTo(r, s) == stage' = [stage EXCEPT ![r] = s]

Applied(t) == {m \in Migrations : records[t][m] > 0}

-----------------------------------------------------------------------------
\* bootstrap() of a new process.
Boot(r) ==
    /\ stage[r] = "down"
    /\ GoTo(r, "initialize")
    /\ at' = [at EXCEPT ![r] = 1]
    /\ skipped' = [skipped EXCEPT ![r] = {}]
    /\ UNCHANGED <<raised, initialized, seen, lock, records, drops>>

\* The statements inside the try; any of them may fail, and then the error
\* waits for the finally block.
Fail(r) ==
    /\ stage[r] \in {"initialize", "setSchema", "tryLock", "read", "apply"}
    /\ GoTo(r, "unlock")
    /\ raised' = [raised EXCEPT ![r] = TRUE]
    /\ UNCHANGED <<at, initialized, skipped, seen, lock, records, drops>>

Initialize(r) ==
    /\ stage[r] = "initialize"
    /\ GoTo(r, "setSchema")
    /\ initialized' = [initialized EXCEPT ![r] = TRUE]
    /\ UNCHANGED <<at, raised, skipped, seen, lock, records, drops>>

SetSchema(r) ==
    /\ stage[r] = "setSchema"
    /\ GoTo(r, "tryLock")
    /\ UNCHANGED <<at, raised, initialized, skipped, seen, lock, records, drops>>

\* A wrong version: the answer of pg_try_advisory_lock is not looked at.
AcquireUnchecked(r) ==
    LET k == LockId(at[r])
    IN  /\ stage[r] = "tryLock"
        /\ lock' = [lock EXCEPT ![k] = IF @ = Nobody THEN r ELSE @]
        /\ GoTo(r, "read")
        /\ UNCHANGED <<at, raised, initialized, skipped, seen, records, drops>>

\* pg_try_advisory_lock answers true ...
AcquireAdvisoryLock(r) ==
    LET k == LockId(at[r])
    IN  /\ stage[r] = "tryLock"
        /\ lock[k] \in {Nobody, r}
        /\ lock' = [lock EXCEPT ![k] = r]
        /\ GoTo(r, "read")
        /\ UNCHANGED <<at, raised, initialized, skipped, seen, records, drops>>

\* ... or false, and the replica goes on as if this target were done.
SkipMigration(r) ==
    /\ stage[r] = "tryLock"
    /\ lock[LockId(at[r])] \notin {Nobody, r}
    /\ skipped' = [skipped EXCEPT ![r] = @ \cup {at[r]}]
    /\ GoTo(r, "unlock")
    /\ UNCHANGED <<at, raised, initialized, seen, lock, records, drops>>

\* runMigrations first reads which migrations are recorded ...
ReadApplied(r) ==
    /\ stage[r] = "read"
    /\ seen' = [seen EXCEPT ![r] = Applied(at[r])]
    /\ GoTo(r, "apply")
    /\ UNCHANGED <<at, raised, initialized, skipped, lock, records, drops>>

\* ... and runs and records the others in one transaction.
ApplyPending(r) ==
    LET t == at[r]
        todo == Shipped[r] \ seen[r]
    IN  /\ stage[r] = "apply"
        /\ records' = [records EXCEPT ![t] =
                         [m \in Migrations |->
                            IF m \in todo THEN @[m] + 1 ELSE @[m]]]
        /\ GoTo(r, "unlock")
        /\ UNCHANGED <<at, raised, initialized, skipped, seen, lock, drops>>

-----------------------------------------------------------------------------
(* The finally block.                                                      *)

\* A session lets go of the locks it holds.
FreeLocksOf(r) == lock' = [k \in LockIds |-> IF lock[k] = r THEN Nobody ELSE lock[k]]

\* A wrong version: the unlock frees the lock, whoever holds it.
ReleaseAnyLock(r) ==
    /\ stage[r] = "unlock"
    /\ initialized[r]
    /\ lock' = [lock EXCEPT ![LockId(at[r])] = Nobody]
    /\ GoTo(r, "destroy")
    /\ UNCHANGED <<at, raised, initialized, skipped, seen, records, drops>>

\* pg_advisory_unlock of a lock that the session does not hold does nothing.
ReleaseAdvisoryLock(r) ==
    LET k == LockId(at[r])
    IN  /\ stage[r] = "unlock"
        /\ initialized[r]
        /\ lock' = [lock EXCEPT ![k] = IF @ = r THEN Nobody ELSE @]
        /\ GoTo(r, "destroy")
        /\ UNCHANGED <<at, raised, initialized, skipped, seen, records, drops>>

\* releaseAdvisoryLock catches its own errors.
ReleaseAdvisoryLockFail(r) ==
    /\ stage[r] = "unlock"
    /\ GoTo(r, "destroy")
    /\ UNCHANGED <<at, raised, initialized, skipped, seen, lock, records, drops>>

\* A wrong version: one target too many.
AfterTargetOffByOne(r) ==
    IF raised[r] THEN "down"
    ELSE IF at[r] <= NumTargets THEN "initialize"
    ELSE "listening"

\* A wrong version: the loop goes on after an error.
AfterTargetAnyway(r) ==
    IF at[r] < NumTargets THEN "initialize" ELSE "listening"

\* What the loop of runMigrationsOnAllTenantDatabases does once the target is
\* over: exit with code 1, go on, or let bootstrap listen.
AfterTarget(r) ==
    IF raised[r] THEN "down"
    ELSE IF at[r] < NumTargets THEN "initialize"
    ELSE "listening"

\* A wrong version: the DataSource is not destroyed.
SessionsStay(r) == UNCHANGED lock

SessionsEnd(r) == IF initialized[r] THEN FreeLocksOf(r) ELSE UNCHANGED lock

\* destroy() ends the sessions of the pool; then the loop goes on.
Destroy(r) ==
    /\ stage[r] = "destroy"
    /\ SessionsEnd(r)
    /\ initialized' = [initialized EXCEPT ![r] = FALSE]
    /\ GoTo(r, AfterTarget(r))
    /\ at' = [at EXCEPT ![r] = IF AfterTarget(r) = "initialize" THEN @ + 1 ELSE @]
    /\ raised' = [raised EXCEPT ![r] = FALSE]
    /\ seen' = [seen EXCEPT ![r] = {}]
    /\ UNCHANGED <<skipped, records, drops>>

-----------------------------------------------------------------------------
(* What happens to replicas and sessions.                                  *)

\* SIGTERM or SIGINT of a listening replica.
Shutdown(r) ==
    /\ stage[r] = "listening"
    /\ GoTo(r, "down")
    /\ UNCHANGED <<at, raised, initialized, skipped, seen, lock, records, drops>>

\* A replica disappears, and its sessions with it or some time later.
Crash(r) ==
    /\ stage[r] \notin {"down", "listening"}
    /\ GoTo(r, "down")
    /\ raised' = [raised EXCEPT ![r] = FALSE]
    /\ initialized' = [initialized EXCEPT ![r] = FALSE]
    /\ seen' = [seen EXCEPT ![r] = {}]
    /\ lock' = [k \in LockIds |->
                  IF lock[k] # r THEN lock[k]
                  ELSE IF Lingers THEN Ghost ELSE Nobody]
    /\ UNCHANGED <<at, skipped, records, drops>>

\* The server notices that the client of a session is gone.
Reap(k) ==
    /\ lock[k] = Ghost
    /\ lock' = [lock EXCEPT ![k] = Nobody]
    /\ UNCHANGED <<replicaVars, records, drops>>

\* The idle session of a running replica ends; its pool opens another one for
\* the next statement and the replica does not learn of it.
DropSession(r) ==
    /\ initialized[r]
    /\ drops < MaxDrops
    /\ drops' = drops + 1
    /\ FreeLocksOf(r)
    /\ UNCHANGED <<replicaVars, records>>

-----------------------------------------------------------------------------
Migrate(r) ==
    \/ Boot(r) \/ Initialize(r) \/ SetSchema(r)
    \/ AcquireAdvisoryLock(r) \/ SkipMigration(r)
    \/ ReadApplied(r) \/ ApplyPending(r)
    \/ ReleaseAdvisoryLock(r) \/ ReleaseAdvisoryLockFail(r) \/ Destroy(r)

Disturb(r) == Fail(r) \/ Shutdown(r) \/ Crash(r) \/ DropSession(r)

Next ==
    \/ \E r \in Replicas : Migrate(r) \/ Disturb(r)
    \/ \E k \in LockIds : Reap(k)

Spec == Init /\ [][Next]_vars

\* A replica that is down is started, what a replica awaits is answered, and
\* the server notices every dead client.
Fairness ==
    /\ \A r \in Replicas : WF_vars(Migrate(r))
    /\ \A k \in LockIds : WF_vars(Reap(k))

FairSpec == Spec /\ Fairness

-----------------------------------------------------------------------------
(* Properties.                                                             *)

Migrating(r) == stage[r] \in {"read", "apply"}

\* README.md:11, "advisory locking to prevent race conditions": two replicas
\* never work on the migrations of one target at the same time.
OneMigratorPerTarget ==
    \A r1, r2 \in Replicas :
        Migrating(r1) /\ Migrating(r2) /\ at[r1] = at[r2] => r1 = r2

\* However many replicas boot, crash and boot again, no migration is applied
\* twice to one target.
AppliedOnce == \A t \in Targets : \A m \in Migrations : records[t][m] <= 1

\* A replica holds no advisory lock but that of the target it works on, and
\* none once it listens or has exited: the finally block leaks none, even when
\* the unlock statement fails.
NoLockLeak ==
    \A r \in Replicas : \A k \in LockIds :
        lock[k] = r =>
            /\ stage[r] \in {"read", "apply", "unlock", "destroy"}
            /\ k = LockId(at[r])

\* A replica that did not get a lock still runs pg_advisory_unlock: a lock
\* leaves its holder only in a step of that holder.
OnlyHolderUnlocks ==
    [][\A r \in Replicas : \A k \in LockIds :
         lock[k] = r /\ lock'[k] # r => stage'[r] # stage[r]]_vars

\* A target that a listening replica has not skipped is at its version.
MigratedUnlessSkipped ==
    \A r \in Replicas : \A t \in Targets :
        stage[r] = "listening" /\ t \notin skipped[r] =>
            Shipped[r] \subseteq Applied(t)

\* README.md:83, "Migrations are run automatically on bootstrap for all tenant
\* schemas": a replica that listens finds every schema at its version.
ListeningImpliesMigrated ==
    \A r \in Replicas : \A t \in Targets :
        stage[r] = "listening" => Shipped[r] \subseteq Applied(t)

FailuresCease == <>[][\A r \in Replicas : ~Fail(r) /\ ~Crash(r)]_vars

\* Once replicas stop failing and crashing every tenant database is migrated
\* at last, although a replica that finds the lock taken does not come back to
\* the target, and although the replica that has it may have exited.  This is so
\* of targets with a lock each: when two share one, a replica skips a target that
\* nobody works on.
EventuallyMigrated ==
    FailuresCease =>
        \A r \in Replicas : \A t \in Targets : <>(Shipped[r] \subseteq Applied(t))
=============================================================================

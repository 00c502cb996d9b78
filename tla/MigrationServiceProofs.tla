----------------------- MODULE MigrationServiceProofs -----------------------
(***************************************************************************)
(* Proofs about MigrationService, for any number of replicas, targets and  *)
(* migrations, any assignment of lock keys (hashes that collide included)  *)
(* and any failures.                                                       *)
(***************************************************************************)
EXTENDS MigrationService, TLAPS

-----------------------------------------------------------------------------
(* Types.                                                                  *)

\* Every target has its lock.
LEMMA LockIdType == \A t \in Targets : LockId(t) \in LockIds
  BY DEF LockIds

LEMMA TypeInit == Init => MigrationTypeOK
  BY MigrationAssumption DEF Init, MigrationTypeOK, Targets, Stages

\* One step keeps the types.
LEMMA TypeStep == MigrationTypeOK /\ [Next]_vars => MigrationTypeOK'
  <1> SUFFICES ASSUME MigrationTypeOK, [Next]_vars PROVE MigrationTypeOK'
    OBVIOUS
  <1> USE LockIdType, MigrationAssumption DEF MigrationTypeOK, Stages, GoTo, Targets
  <1>1. CASE UNCHANGED vars
    BY <1>1 DEF vars, replicaVars
  <1>2. ASSUME NEW r \in Replicas, Migrate(r) PROVE MigrationTypeOK'
    <2>1. CASE Boot(r)
      BY <2>1 DEF Boot
    <2>2. CASE Initialize(r)
      BY <2>2 DEF Initialize
    <2>3. CASE SetSchema(r)
      BY <2>3 DEF SetSchema
    <2>4. CASE AcquireAdvisoryLock(r)
      BY <2>4 DEF AcquireAdvisoryLock
    <2>5. CASE SkipMigration(r)
      BY <2>5 DEF SkipMigration
    <2>6. CASE ReadApplied(r)
      BY <2>6 DEF ReadApplied, Applied
    <2>7. CASE ApplyPending(r)
      BY <2>7 DEF ApplyPending
    <2>8. CASE ReleaseAdvisoryLock(r)
      BY <2>8 DEF ReleaseAdvisoryLock
    <2>9. CASE ReleaseAdvisoryLockFail(r)
      BY <2>9 DEF ReleaseAdvisoryLockFail
    <2>10. CASE Destroy(r)
      BY <2>10 DEF Destroy, SessionsEnd, FreeLocksOf, AfterTarget
    <2> QED
      BY <1>2, <2>1, <2>2, <2>3, <2>4, <2>5, <2>6, <2>7, <2>8, <2>9, <2>10
      DEF Migrate
  <1>3. ASSUME NEW r \in Replicas, Disturb(r) PROVE MigrationTypeOK'
    <2>1. CASE Fail(r)
      BY <2>1 DEF Fail
    <2>2. CASE Shutdown(r)
      BY <2>2 DEF Shutdown
    <2>3. CASE Crash(r)
      BY <2>3 DEF Crash
    <2>4. CASE DropSession(r)
      BY <2>4 DEF DropSession, FreeLocksOf, replicaVars
    <2> QED
      BY <1>3, <2>1, <2>2, <2>3, <2>4 DEF Disturb
  <1>4. ASSUME NEW k \in LockIds, Reap(k) PROVE MigrationTypeOK'
    BY <1>4 DEF Reap, replicaVars
  <1> QED
    BY <1>1, <1>2, <1>3, <1>4 DEF Next

\* The variables of the bootstrap keep their types.
THEOREM TypeCorrect == Spec => []MigrationTypeOK
  BY TypeInit, TypeStep, PTL DEF Spec

-----------------------------------------------------------------------------
(* Locks, for sessions that stay up as long as their replica.              *)

\* A replica that reads or applies migrations has the lock of its target, and
\* what it read is still what is recorded.
MigratorIsExclusive ==
    \A r \in Replicas : Migrating(r) =>
        /\ lock[LockId(at[r])] = r
        /\ stage[r] = "apply" => seen[r] = Applied(at[r])

\* Only a replica whose DataSource is initialized holds a lock, so destroy()
\* ends the session that has it.
HoldersHaveSessions ==
    \A r \in Replicas :
        /\ stage[r] \in {"setSchema", "tryLock", "read", "apply"} => initialized[r]
        /\ \A k \in LockIds : lock[k] = r => initialized[r]

\* The inductive invariant behind mutual exclusion.
LockInv ==
    /\ MigrationTypeOK
    /\ NoLockLeak
    /\ HoldersHaveSessions
    /\ MigratorIsExclusive
    /\ AppliedOnce

LEMMA LockInvInit == Init => LockInv
  <1> SUFFICES ASSUME Init PROVE LockInv
    OBVIOUS
  <1>1. MigrationTypeOK
    BY TypeInit
  <1>2. NoLockLeak /\ HoldersHaveSessions /\ MigratorIsExclusive /\ AppliedOnce
    BY MigrationAssumption, LockIdType
    DEF Init, NoLockLeak, HoldersHaveSessions, MigratorIsExclusive, AppliedOnce, Migrating, Targets
  <1> QED
    BY <1>1, <1>2 DEF LockInv

\* The lock of a target has one holder, so there is one migrator.
LEMMA LockInvExcludes == LockInv => OneMigratorPerTarget
  BY DEF LockInv, MigratorIsExclusive, OneMigratorPerTarget

LEMMA LockInvStep ==
  ASSUME MaxDrops = 0, LockInv, [Next]_vars
  PROVE  LockInv'
  <1>0. MigrationTypeOK'
    BY TypeStep DEF LockInv
  <1> USE <1>0, LockIdType, MigrationAssumption
      DEF LockInv, MigrationTypeOK, NoLockLeak, HoldersHaveSessions,
          MigratorIsExclusive, AppliedOnce, Migrating, Applied, GoTo
  <1>1. CASE UNCHANGED vars
    BY <1>1 DEF vars, replicaVars
  <1>2. ASSUME NEW r \in Replicas, Migrate(r) PROVE LockInv'
    <2>1. CASE Boot(r)
      BY <2>1 DEF Boot
    <2>2. CASE Initialize(r)
      BY <2>2 DEF Initialize
    <2>3. CASE SetSchema(r)
      BY <2>3 DEF SetSchema
    <2>4. CASE AcquireAdvisoryLock(r)
      BY <2>4 DEF AcquireAdvisoryLock
    <2>5. CASE SkipMigration(r)
      BY <2>5 DEF SkipMigration
    <2>6. CASE ReadApplied(r)
      BY <2>6 DEF ReadApplied
    <2>7. CASE ApplyPending(r)
      \* No other replica works on this target, and r read what is recorded.
      <3>1. seen[r] = Applied(at[r])
        BY <2>7 DEF ApplyPending
      <3>2. \A q \in Replicas \ {r} : Migrating(q) => at[q] # at[r]
        BY <2>7 DEF ApplyPending
      <3>3. AppliedOnce'
        BY <2>7, <3>1 DEF ApplyPending
      <3>4. \A t \in Targets \ {at[r]} : records'[t] = records[t]
        BY <2>7 DEF ApplyPending
      <3>5. MigratorIsExclusive'
        BY <2>7, <3>2, <3>4 DEF ApplyPending
      <3>6. NoLockLeak' /\ HoldersHaveSessions'
        BY <2>7 DEF ApplyPending
      <3> QED
        BY <3>3, <3>5, <3>6
    <2>8. CASE ReleaseAdvisoryLock(r)
      BY <2>8 DEF ReleaseAdvisoryLock
    <2>9. CASE ReleaseAdvisoryLockFail(r)
      BY <2>9 DEF ReleaseAdvisoryLockFail
    <2>10. CASE Destroy(r)
      BY <2>10 DEF Destroy, SessionsEnd, FreeLocksOf, AfterTarget
    <2> QED
      BY <1>2, <2>1, <2>2, <2>3, <2>4, <2>5, <2>6, <2>7, <2>8, <2>9, <2>10
      DEF Migrate
  <1>3. ASSUME NEW r \in Replicas, Disturb(r) PROVE LockInv'
    <2>1. CASE Fail(r)
      BY <2>1 DEF Fail
    <2>2. CASE Shutdown(r)
      BY <2>2 DEF Shutdown
    <2>3. CASE Crash(r)
      BY <2>3 DEF Crash
    <2>4. CASE DropSession(r)
      BY <2>4 DEF DropSession
    <2> QED
      BY <1>3, <2>1, <2>2, <2>3, <2>4 DEF Disturb
  <1>4. ASSUME NEW k \in LockIds, Reap(k) PROVE LockInv'
    BY <1>4 DEF Reap, replicaVars
  <1> QED
    BY <1>1, <1>2, <1>3, <1>4 DEF Next

\* While no session of a running replica is lost: one migrator per target.
THEOREM MutualExclusion ==
  ASSUME MaxDrops = 0
  PROVE  Spec => []OneMigratorPerTarget
  <1>1. LockInv /\ [Next]_vars => LockInv'
    BY LockInvStep
  <1> QED
    BY LockInvInit, <1>1, LockInvExcludes, PTL DEF Spec

\* While no session of a running replica is lost, no migration is applied to a
\* target twice (runMigrations reads what is applied and applies the rest).
THEOREM AppliedAtMostOnce ==
  ASSUME MaxDrops = 0
  PROVE  Spec => []AppliedOnce
  <1>1. LockInv /\ [Next]_vars => LockInv'
    BY LockInvStep
  <1>2. LockInv => AppliedOnce
    BY DEF LockInv
  <1> QED
    BY LockInvInit, <1>1, <1>2, PTL DEF Spec

\* The step of a replica leaves the locks of the others alone.
LEMMA OnlyHolderStep ==
  ASSUME MaxDrops = 0, LockInv, [Next]_vars,
         NEW h \in Replicas, NEW k \in LockIds, lock[k] = h, lock'[k] # h
  PROVE  stage'[h] # stage[h]
  <1> USE LockIdType, MigrationAssumption
      DEF LockInv, MigrationTypeOK, NoLockLeak, GoTo
  <1>1. CASE UNCHANGED vars
    BY <1>1 DEF vars, replicaVars
  <1>2. ASSUME NEW r \in Replicas, Migrate(r) PROVE stage'[h] # stage[h]
    <2>1. CASE lock' = lock
      BY <2>1
    <2>2. CASE AcquireAdvisoryLock(r)
      BY <2>2 DEF AcquireAdvisoryLock
    <2>3. CASE ReleaseAdvisoryLock(r)
      BY <2>3 DEF ReleaseAdvisoryLock
    <2>4. CASE Destroy(r)
      BY <2>4 DEF Destroy, SessionsEnd, FreeLocksOf, AfterTarget
    <2> QED
      BY <1>2, <2>1, <2>2, <2>3, <2>4
      DEF Migrate, Boot, Initialize, SetSchema, SkipMigration, ReadApplied,
          ApplyPending, ReleaseAdvisoryLockFail
  <1>3. ASSUME NEW r \in Replicas, Disturb(r) PROVE stage'[h] # stage[h]
    BY <1>3 DEF Disturb, Fail, Shutdown, Crash, DropSession
  <1>4. ASSUME NEW g \in LockIds, Reap(g) PROVE stage'[h] # stage[h]
    BY <1>4 DEF Reap, replicaVars
  <1> QED
    BY <1>1, <1>2, <1>3, <1>4 DEF Next

\* A replica that did not get the lock does not free it by its unlock.
THEOREM UnlockIsHarmless ==
  ASSUME MaxDrops = 0
  PROVE  Spec => OnlyHolderUnlocks
  <1> DEFINE Harmless == \A r \in Replicas : \A k \in LockIds :
                            lock[k] = r /\ lock'[k] # r => stage'[r] # stage[r]
  <1>1. LockInv /\ [Next]_vars => LockInv'
    BY LockInvStep
  <1>2. LockInv /\ [Next]_vars => [Harmless]_vars
    BY OnlyHolderStep
  <1> QED
    BY LockInvInit, <1>1, <1>2, PTL DEF Spec, OnlyHolderUnlocks

-----------------------------------------------------------------------------
(* Locks, whatever sessions are lost.                                      *)

\* No lock is left behind, and destroy() ends the session that has it.
HeldInv ==
    /\ MigrationTypeOK
    /\ NoLockLeak
    /\ HoldersHaveSessions

LEMMA HeldInvInit == Init => HeldInv
  BY LockInvInit DEF LockInv, HeldInv

LEMMA HeldInvStep == HeldInv /\ [Next]_vars => HeldInv'
  <1> SUFFICES ASSUME HeldInv, [Next]_vars PROVE HeldInv'
    OBVIOUS
  <1>0. MigrationTypeOK'
    BY TypeStep DEF HeldInv
  <1> USE <1>0, LockIdType, MigrationAssumption
      DEF HeldInv, MigrationTypeOK, NoLockLeak, HoldersHaveSessions, GoTo
  <1>1. CASE UNCHANGED vars
    BY <1>1 DEF vars, replicaVars
  <1>2. ASSUME NEW r \in Replicas, Migrate(r) PROVE HeldInv'
    <2>1. CASE Boot(r)
      BY <2>1 DEF Boot
    <2>2. CASE Initialize(r)
      BY <2>2 DEF Initialize
    <2>3. CASE SetSchema(r) \/ ReadApplied(r) \/ ApplyPending(r)
      BY <2>3 DEF SetSchema, ReadApplied, ApplyPending
    <2>4. CASE AcquireAdvisoryLock(r)
      BY <2>4 DEF AcquireAdvisoryLock
    <2>5. CASE SkipMigration(r)
      BY <2>5 DEF SkipMigration
    <2>6. CASE ReleaseAdvisoryLock(r)
      BY <2>6 DEF ReleaseAdvisoryLock
    <2>7. CASE ReleaseAdvisoryLockFail(r)
      BY <2>7 DEF ReleaseAdvisoryLockFail
    <2>8. CASE Destroy(r)
      BY <2>8 DEF Destroy, SessionsEnd, FreeLocksOf, AfterTarget
    <2> QED
      BY <1>2, <2>1, <2>2, <2>3, <2>4, <2>5, <2>6, <2>7, <2>8 DEF Migrate
  <1>3. ASSUME NEW r \in Replicas, Disturb(r) PROVE HeldInv'
    <2>1. CASE Fail(r)
      BY <2>1 DEF Fail
    <2>2. CASE Shutdown(r)
      BY <2>2 DEF Shutdown
    <2>3. CASE Crash(r)
      BY <2>3 DEF Crash
    <2>4. CASE DropSession(r)
      BY <2>4 DEF DropSession, FreeLocksOf, replicaVars
    <2> QED
      BY <1>3, <2>1, <2>2, <2>3, <2>4 DEF Disturb
  <1>4. ASSUME NEW k \in LockIds, Reap(k) PROVE HeldInv'
    BY <1>4 DEF Reap, replicaVars
  <1> QED
    BY <1>1, <1>2, <1>3, <1>4 DEF Next

\* A replica holds at most the lock of the target it works on and none once it
\* listens or is down, whatever sessions are lost, unlocks fail and replicas
\* crash: the finally block lets go of every lock.
THEOREM LocksAreLetGo == Spec => []NoLockLeak
  <1>1. HeldInv => NoLockLeak
    BY DEF HeldInv
  <1> QED
    BY HeldInvInit, HeldInvStep, <1>1, PTL DEF Spec

-----------------------------------------------------------------------------
(* What a replica that listens may rely on, whatever happens to sessions.  *)

\* Replica r is done with target t in this run.
DoneWith(r, t) ==
    \/ stage[r] = "listening"
    \/ /\ stage[r] # "down"
       /\ \/ t < at[r]
          \/ t = at[r] /\ stage[r] \in {"unlock", "destroy"} /\ ~raised[r]

\* A replica on its way has migrated what it is done with and did not skip; what
\* it read as applied stays so; an error is never forgotten before destroy().
MigratedInv ==
    /\ MigrationTypeOK
    /\ \A r \in Replicas : \A t \in Targets :
          DoneWith(r, t) /\ t \notin skipped[r] => Shipped[r] \subseteq Applied(t)
    /\ \A r \in Replicas :
          /\ stage[r] = "apply" => seen[r] \subseteq Applied(at[r])
          /\ raised[r] => stage[r] \in {"unlock", "destroy"}

LEMMA MigratedInvInit == Init => MigratedInv
  BY TypeInit DEF Init, MigratedInv, DoneWith

\* No step forgets an applied migration.
LEMMA AppliedGrows ==
  ASSUME MigrationTypeOK, [Next]_vars
  PROVE  \A t \in Targets : Applied(t) \subseteq Applied(t)'
  <1>1. CASE records' = records
    BY <1>1 DEF Applied
  <1>2. ASSUME NEW r \in Replicas, ApplyPending(r)
        PROVE  \A t \in Targets : Applied(t) \subseteq Applied(t)'
    BY <1>2 DEF ApplyPending, Applied, MigrationTypeOK
  <1> QED
    BY <1>1, <1>2 DEF Next, vars, Migrate, Disturb, Boot, Initialize, SetSchema,
       AcquireAdvisoryLock, SkipMigration, ReadApplied, ReleaseAdvisoryLock,
       ReleaseAdvisoryLockFail, Destroy, Fail, Shutdown, Crash, DropSession, Reap

LEMMA MigratedInvStep == MigratedInv /\ [Next]_vars => MigratedInv'
  <1> SUFFICES ASSUME MigratedInv, [Next]_vars PROVE MigratedInv'
    OBVIOUS
  <1>0. MigrationTypeOK' /\ \A t \in Targets : Applied(t) \subseteq Applied(t)'
    BY TypeStep, AppliedGrows DEF MigratedInv
  <1> USE <1>0, MigrationAssumption
      DEF MigratedInv, MigrationTypeOK, DoneWith, GoTo, Targets
  <1>1. CASE UNCHANGED vars
    BY <1>1 DEF vars, replicaVars
  <1>2. ASSUME NEW r \in Replicas, Migrate(r) PROVE MigratedInv'
    <2>1. CASE Boot(r)
      BY <2>1 DEF Boot
    <2>2. CASE Initialize(r)
      BY <2>2 DEF Initialize
    <2>3. CASE SetSchema(r)
      BY <2>3 DEF SetSchema
    <2>4. CASE AcquireAdvisoryLock(r)
      BY <2>4 DEF AcquireAdvisoryLock
    <2>5. CASE SkipMigration(r)
      BY <2>5 DEF SkipMigration
    <2>6. CASE ReadApplied(r)
      BY <2>6 DEF ReadApplied
    <2>7. CASE ApplyPending(r)
      <3>1. Shipped[r] \subseteq Applied(at[r])'
        BY <2>7 DEF ApplyPending, Applied
      <3> QED
        BY <2>7, <3>1 DEF ApplyPending
    <2>8. CASE ReleaseAdvisoryLock(r)
      BY <2>8 DEF ReleaseAdvisoryLock
    <2>9. CASE ReleaseAdvisoryLockFail(r)
      BY <2>9 DEF ReleaseAdvisoryLockFail
    <2>10. CASE Destroy(r)
      BY <2>10 DEF Destroy, AfterTarget
    <2> QED
      BY <1>2, <2>1, <2>2, <2>3, <2>4, <2>5, <2>6, <2>7, <2>8, <2>9, <2>10
      DEF Migrate
  <1>3. ASSUME NEW r \in Replicas, Disturb(r) PROVE MigratedInv'
    <2>1. CASE Fail(r)
      BY <2>1 DEF Fail
    <2>2. CASE Shutdown(r)
      BY <2>2 DEF Shutdown
    <2>3. CASE Crash(r)
      BY <2>3 DEF Crash
    <2>4. CASE DropSession(r)
      BY <2>4 DEF DropSession, replicaVars
    <2> QED
      BY <1>3, <2>1, <2>2, <2>3, <2>4 DEF Disturb
  <1>4. ASSUME NEW k \in LockIds, Reap(k) PROVE MigratedInv'
    BY <1>4 DEF Reap, replicaVars
  <1> QED
    BY <1>1, <1>2, <1>3, <1>4 DEF Next

\* A listening replica finds every target it did not skip at its version,
\* also when sessions were lost while it migrated.
THEOREM ListeningIsMigrated == Spec => []MigratedUnlessSkipped
  <1>1. MigratedInv => MigratedUnlessSkipped
    BY DEF MigratedInv, DoneWith, MigratedUnlessSkipped
  <1> QED
    BY MigratedInvInit, MigratedInvStep, <1>1, PTL DEF Spec
=============================================================================

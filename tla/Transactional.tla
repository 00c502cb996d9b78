--------------------------- MODULE Transactional ---------------------------
(***************************************************************************)
(* The @Transactional decorator over the pools of DatasourceManager.       *)
(*                                                                         *)
(* A request makes calls to decorated methods, which call further ones; a  *)
(* call and what it awaits form a stack of frames.  A frame that opens its *)
(* own transaction goes through setupQueryRunner (lookup, connect, SET     *)
(* search_path, BEGIN), runs the method inside TransactionContext.run, and *)
(* commits or rolls back and releases: every await is a step of its own.   *)
(* A REQUIRED call made inside a transaction joins it: its frame runs on   *)
(* the connection of the frame below.                                      *)
(*                                                                         *)
(* The database is seen through its sessions: whether a transaction is     *)
(* active or aborted, the search_path, the writes that wait for COMMIT.    *)
(* A write is named by the call that made it, at most one for each call.   *)
(***************************************************************************)
EXTENDS ConnectionPool

CONSTANTS TenantOf,  \* the tenant context of each request, NoTenant if none
          NoTenant,
          MaxDepth,  \* bounds the nesting of decorated calls
          MaxCalls,  \* bounds the decorated calls of any request
          Budget,    \* the decorated calls each request may make
          Faults,    \* which external failures may happen
          Catch      \* which rejections a method body may catch

Propagations == {"REQUIRED", "REQUIRES_NEW"}

ASSUME TransactionalAssumption ==
    /\ NoTenant \notin Tenants
    /\ TenantOf \in [Callers -> Tenants \cup {NoTenant}]
    /\ MaxDepth \in Nat \ {0}
    /\ MaxCalls \in Nat
    /\ Budget \in [Callers -> 0..MaxCalls]
    /\ Faults \subseteq {"connect", "setup", "sql", "commit", "reply", "drop"}
    /\ Catch \subseteq Propagations \cup {"sql"}

Levels  == 1..MaxDepth
CallNos == 1..MaxCalls
Owners  == Callers \X Levels
Writes  == Callers \X CallNos

ASSUME NullAssumption ==
    Nobody \notin Owners

VARIABLES
    depth,      \* how many decorated calls of a request are pending
    frame,      \* those calls, the root at level 1
    calls,      \* how many decorated calls a request has made
    home,       \* the call whose transaction a call runs in (itself: its own)
    outcome,    \* how the promise of a call stands
    tx,         \* the session of a connection: none, active, aborted
    pending,    \* its writes that wait for COMMIT
    wrote,      \* the calls that have made a write, committed or not
    committed   \* the writes in the database

callVars == <<depth, calls, home, outcome, wrote>>
txnVars == <<frame, callVars>>
dbVars  == <<holder, tx, path, pending, committed>>
vars    == <<managerVars, txnVars, dbVars>>

Phases == {"lookup", "connect", "setPath", "begin", "body", "commit",
           "rollback", "release", "failing", "none"}

Frames == [phase : Phases, conn : Conns \cup {NoConn},
           ds : DataSources \cup {NoDataSource}, call : 0..MaxCalls,
           propagation : Propagations, failed : BOOLEAN]

NoFrame == [phase |-> "none", conn |-> NoConn, ds |-> NoDataSource,
            call |-> 0, propagation |-> "REQUIRED", failed |-> FALSE]

TransactionalTypeOK ==
    /\ TypeOK
    /\ depth \in [Callers -> 0..MaxDepth]
    /\ frame \in [Callers -> [Levels -> Frames]]
    /\ calls \in [Callers -> 0..MaxCalls]
    /\ home \in [Callers -> [CallNos -> 0..MaxCalls]]
    /\ outcome \in [Callers -> [CallNos -> {"none", "pending", "ok", "error"}]]
    /\ holder \in [Conns -> Owners \cup {Nobody}]
    /\ tx \in [Conns -> {"none", "active", "aborted"}]
    /\ path \in [Conns -> Paths]
    /\ pending \in [Conns -> SUBSET Writes]
    /\ wrote \in SUBSET Writes
    /\ committed \in SUBSET Writes

Init ==
    /\ ManagerInit
    /\ depth = [r \in Callers |-> 0]
    /\ frame = [r \in Callers |-> [d \in Levels |-> NoFrame]]
    /\ calls = [r \in Callers |-> 0]
    /\ home = [r \in Callers |-> [n \in CallNos |-> 0]]
    /\ outcome = [r \in Callers |-> [n \in CallNos |-> "none"]]
    /\ PoolInit
    /\ tx = [c \in Conns |-> "none"]
    /\ pending = [c \in Conns |-> {}]
    /\ wrote = {}
    /\ committed = {}

-----------------------------------------------------------------------------
(* Frames.                                                                 *)

Top(r) == frame[r][depth[r]]

\* The call at the top of r's stack is in phase p.
At(r, p) == depth[r] > 0 /\ Top(r).phase = p

\* The call at level d opened the transaction it runs in.
OwnsAt(r, d) == home[r][frame[r][d].call] = frame[r][d].call

Owns(r) == OwnsAt(r, depth[r])

\* Where a body goes when it throws, or rejects with what it awaited: the
\* frame that owns the transaction rolls back, one that joined just rejects.
FailPhase(r, d) == IF OwnsAt(r, d) THEN "rollback" ELSE "failing"

\* r's top frame moves to phase p.
GoTo(r, p) == frame' = [frame EXCEPT ![r][depth[r]].phase = p]

\* After a rejection the body of the frame below throws, unless it catches what
\* this kind of call rejects with.
Resumed(r, result) ==
    IF depth[r] = 1 THEN {"none"}
    ELSE IF result = "ok" THEN {"body"}
    ELSE {FailPhase(r, depth[r] - 1)} \cup
         (IF Top(r).propagation \in Catch THEN {"body"} ELSE {})

\* The stack of r without its top, the frame below in phase p.
Popped(r, p) ==
    [l \in Levels |->
       IF l = depth[r] THEN NoFrame
       ELSE IF l = depth[r] - 1 THEN [frame[r][l] EXCEPT !.phase = p]
       ELSE frame[r][l]]

\* r's top call settles and the frame below is resumed.
Settle(r, result) ==
    /\ depth' = [depth EXCEPT ![r] = @ - 1]
    /\ outcome' = [outcome EXCEPT ![r][Top(r).call] = result]
    /\ \E p \in Resumed(r, result) : frame' = [frame EXCEPT ![r] = Popped(r, p)]
    /\ UNCHANGED <<calls, home, wrote>>

-----------------------------------------------------------------------------
(* The decorated call.                                                     *)

\* A body, or undecorated code of the request, may make a decorated call.
MayCall(r) ==
    /\ depth[r] = 0 \/ At(r, "body")
    /\ depth[r] < MaxDepth
    /\ calls[r] < Budget[r]

Push(r, f) ==
    /\ depth' = [depth EXCEPT ![r] = @ + 1]
    /\ frame' = [frame EXCEPT ![r][depth[r] + 1] = f]
    /\ calls' = [calls EXCEPT ![r] = @ + 1]
    /\ outcome' = [outcome EXCEPT ![r][calls[r] + 1] = "pending"]
    /\ UNCHANGED wrote

\* A wrong version: the store of the outermost TransactionContext.run.
RootContextConn(r) == frame[r][1].conn

\* The connection of the entity manager in TransactionContext: the store of
\* the innermost TransactionContext.run that has not returned.
ContextConn(r) == Top(r).conn

\* REQUIRED inside a transaction: TransactionContext has an entity manager,
\* and the method runs on it.
CallJoin(r) ==
    /\ MayCall(r)
    /\ TenantOf[r] # NoTenant
    /\ depth[r] > 0
    /\ Push(r, [NoFrame EXCEPT !.phase = "body", !.conn = ContextConn(r),
                               !.call = calls[r] + 1])
    /\ home' = [home EXCEPT ![r][calls[r] + 1] = home[r][Top(r).call]]
    /\ UNCHANGED <<managerVars, dbVars>>

\* REQUIRED outside any transaction, and REQUIRES_NEW: setupQueryRunner calls
\* getDataSource, in the same step.
CallNew(r, p) ==
    /\ MayCall(r)
    /\ TenantOf[r] # NoTenant
    /\ p = "REQUIRED" => depth[r] = 0
    /\ Push(r, [NoFrame EXCEPT !.phase = "lookup", !.propagation = p,
                               !.call = calls[r] + 1])
    /\ home' = [home EXCEPT ![r][calls[r] + 1] = calls[r] + 1]
    /\ GetDataSource(r, TenantOf[r])
    /\ UNCHANGED dbVars

\* getTenantContext throws for a request without tenant headers.
CallWithoutTenant(r) ==
    /\ MayCall(r)
    /\ TenantOf[r] = NoTenant
    /\ calls' = [calls EXCEPT ![r] = @ + 1]
    /\ home' = [home EXCEPT ![r][calls[r] + 1] = calls[r] + 1]
    /\ outcome' = [outcome EXCEPT ![r][calls[r] + 1] = "error"]
    /\ UNCHANGED <<managerVars, depth, frame, wrote, dbVars>>

-----------------------------------------------------------------------------
(* setupQueryRunner: nothing of it is inside a try.                        *)

\* DatasourceManager goes on with the lookup.
Lookup(r) ==
    /\ Proceed(r)
    /\ UNCHANGED <<txnVars, dbVars>>

Resolve(r) ==
    /\ At(r, "lookup")
    /\ lookup[r].phase = "resolved"
    /\ Receive(r)
    /\ frame' = [frame EXCEPT ![r][depth[r]].phase = "connect",
                              ![r][depth[r]].ds = lookup[r].ds]
    /\ UNCHANGED <<callVars, dbVars>>

Reject(r) ==
    /\ At(r, "lookup")
    /\ lookup[r].phase = "rejected"
    /\ Receive(r)
    /\ Settle(r, "error")
    /\ UNCHANGED dbVars

\* connect(): a connection leaves the pool of the frame, in a frame's name.
Connect(r) ==
    /\ At(r, "connect")
    /\ \E c \in FreeConns(Top(r).ds) :
          /\ holder' = [holder EXCEPT ![c] = <<r, depth[r]>>]
          /\ frame' = [frame EXCEPT ![r][depth[r]].phase = "setPath",
                                    ![r][depth[r]].conn = c,
                                    ![r][depth[r]].ds = NoDataSource]
    /\ UNCHANGED <<managerVars, callVars, tx, path, pending, committed>>

ConnectFail(r) ==
    /\ "connect" \in Faults
    /\ At(r, "connect")
    /\ Settle(r, "error")
    /\ UNCHANGED <<managerVars, dbVars>>

\* A wrong version: the country code is quoted, and its case is kept.
QuotedPath(r) == TenantOf[r][2]

SearchPath(r) == SearchPathOf(TenantOf[r])

\* SET search_path, in autocommit: the session keeps it when it is released.
SetSearchPath(r) ==
    /\ At(r, "setPath")
    /\ Top(r).conn # NoConn
    /\ path' = [path EXCEPT ![Top(r).conn] = SearchPath(r)]
    /\ GoTo(r, "begin")
    /\ UNCHANGED <<managerVars, callVars, holder, tx, pending, committed>>

\* SET search_path fails (the country code is no identifier of SQL), or the
\* connection is gone: the error leaves setupQueryRunner, which releases
\* nothing.
SetSearchPathFail(r) ==
    /\ At(r, "setPath")
    /\ "setup" \in Faults \/ Top(r).conn = NoConn
    /\ Settle(r, "error")
    /\ UNCHANGED <<managerVars, dbVars>>

StartTransaction(r) ==
    /\ At(r, "begin")
    /\ Top(r).conn # NoConn
    /\ tx' = [tx EXCEPT ![Top(r).conn] = "active"]
    /\ GoTo(r, "body")
    /\ UNCHANGED <<managerVars, callVars, holder, path, pending, committed>>

\* BEGIN fails, and nothing is released either.
StartTransactionFail(r) ==
    /\ At(r, "begin")
    /\ "setup" \in Faults \/ Top(r).conn = NoConn
    /\ Settle(r, "error")
    /\ UNCHANGED <<managerVars, dbVars>>

-----------------------------------------------------------------------------
(* The method, inside TransactionContext.run.                              *)

\* A wrong version: a call that joined makes its statement through the data
\* source, outside the context.
SqlOutsideContext(r) ==
    LET c == Top(r).conn
        w == <<r, Top(r).call>>
    IN  /\ At(r, "body")
        /\ c # NoConn
        /\ w \notin wrote
        /\ wrote' = wrote \cup {w}
        /\ IF Owns(r)
           THEN /\ pending' = [pending EXCEPT ![c] = @ \cup {w}]
                /\ UNCHANGED committed
           ELSE /\ committed' = committed \cup {w}
                /\ UNCHANGED pending
        /\ UNCHANGED <<managerVars, depth, frame, calls, home, outcome,
                       holder, tx, path>>

\* A statement through the entity manager of the context writes.
SqlOk(r) ==
    LET c == Top(r).conn
        w == <<r, Top(r).call>>
    IN  /\ At(r, "body")
        /\ c # NoConn
        /\ tx[c] = "active"
        /\ w \notin wrote
        /\ pending' = [pending EXCEPT ![c] = @ \cup {w}]
        /\ wrote' = wrote \cup {w}
        /\ UNCHANGED <<managerVars, depth, frame, calls, home, outcome,
                       holder, tx, path, committed>>

\* A statement fails: of itself, and then PostgreSQL aborts the transaction,
\* or because the transaction is aborted or the connection gone.
SqlFail(r) ==
    LET c == Top(r).conn
    IN  /\ At(r, "body")
        /\ \/ /\ c # NoConn
              /\ "sql" \in Faults \/ tx[c] = "aborted"
              /\ tx' = [tx EXCEPT ![c] = "aborted"]
           \/ /\ c = NoConn
              /\ UNCHANGED tx
        /\ \E p \in {FailPhase(r, depth[r])} \cup
                    (IF "sql" \in Catch THEN {"body"} ELSE {}) : GoTo(r, p)
        /\ UNCHANGED <<managerVars, callVars, holder, path, pending, committed>>

\* The body throws an error of its own ("Message with id ... not found").
Throw(r) ==
    /\ At(r, "body")
    /\ GoTo(r, FailPhase(r, depth[r]))
    /\ UNCHANGED <<managerVars, callVars, dbVars>>

\* A wrong version: the joined call releases the connection it ran on.
ReturnJoinedReleasing(r) ==
    /\ At(r, "body")
    /\ ~Owns(r)
    /\ Settle(r, "ok")
    /\ holder' = [c \in Conns |-> IF c = Top(r).conn THEN Nobody ELSE holder[c]]
    /\ UNCHANGED <<managerVars, tx, path, pending, committed>>

\* The body returns: a joined call is done, an owner goes on to commit.
ReturnJoined(r) ==
    /\ At(r, "body")
    /\ ~Owns(r)
    /\ Settle(r, "ok")
    /\ UNCHANGED <<managerVars, dbVars>>

ReturnOwner(r) ==
    /\ At(r, "body")
    /\ Owns(r)
    /\ GoTo(r, "commit")
    /\ UNCHANGED <<managerVars, callVars, dbVars>>

\* A joined call rejects: it has no catch of its own.
RejectJoined(r) ==
    /\ At(r, "failing")
    /\ Settle(r, "error")
    /\ UNCHANGED <<managerVars, dbVars>>

-----------------------------------------------------------------------------
(* executeInTransaction after the method.                                  *)

EndTransaction(c) ==
    /\ tx' = [tx EXCEPT ![c] = "none"]
    /\ pending' = [pending EXCEPT ![c] = {}]

\* COMMIT succeeds.  Of an aborted transaction PostgreSQL makes a rollback,
\* and still answers without an error.
CommitOk(r) ==
    LET c == Top(r).conn
    IN  /\ At(r, "commit")
        /\ c # NoConn
        /\ committed' = IF tx[c] = "active" THEN committed \cup pending[c]
                        ELSE committed
        /\ EndTransaction(c)
        /\ GoTo(r, "release")
        /\ UNCHANGED <<managerVars, callVars, holder, path>>

\* A wrong version: the error of COMMIT is logged and dropped.
DropCommitError == "release"

\* Errors of commitTransaction are caught by the same try.
OnCommitError == "rollback"

\* COMMIT is refused: a deferred constraint, a serialization failure.
CommitRefused(r) ==
    LET c == Top(r).conn
    IN  /\ "commit" \in Faults
        /\ At(r, "commit")
        /\ c # NoConn
        /\ tx[c] = "active"
        /\ EndTransaction(c)
        /\ GoTo(r, OnCommitError)
        /\ UNCHANGED <<managerVars, callVars, holder, path, committed>>

\* The connection was lost before COMMIT.
CommitLost(r) ==
    /\ At(r, "commit")
    /\ Top(r).conn = NoConn
    /\ GoTo(r, OnCommitError)
    /\ UNCHANGED <<managerVars, callVars, dbVars>>

\* Wrong versions: no rollback, as if release closed the transaction; and the
\* rollback of the outermost one.
RollBackNothing(r) == NoConn
RollBackOutermost(r) == frame[r][1].conn

\* The connection whose transaction is rolled back.
RolledBack(r) == Top(r).conn

\* rollbackTransaction, which rejects when the connection is gone: the error
\* that the caller sees changes, release in the finally block still follows.
Rollback(r) ==
    LET c == RolledBack(r)
    IN  /\ At(r, "rollback")
        /\ IF c = NoConn THEN UNCHANGED <<tx, pending>> ELSE EndTransaction(c)
        /\ frame' = [frame EXCEPT ![r][depth[r]].phase = "release",
                                  ![r][depth[r]].failed = TRUE]
        /\ UNCHANGED <<managerVars, callVars, holder, path, committed>>

\* A wrong version: release outside of finally, after a commit only.
GivenBackUnlessFailed(r) == IF Top(r).failed THEN NoConn ELSE Top(r).conn

\* The connection that goes back to its pool.
GivenBack(r) == Top(r).conn

\* release, and then the return or the rethrow.
Release(r) ==
    LET c == GivenBack(r)
    IN  /\ At(r, "release")
        /\ holder' = IF c = NoConn THEN holder
                     ELSE [holder EXCEPT ![c] = Nobody]
        /\ Settle(r, IF Top(r).failed THEN "error" ELSE "ok")
        /\ UNCHANGED <<managerVars, tx, path, pending, committed>>

-----------------------------------------------------------------------------
(* The network.                                                            *)

\* Whoever runs on connection c runs on none from now on.
Detach(c) ==
    frame' = [r \in Callers |-> [l \in Levels |->
                IF frame[r][l].conn = c THEN [frame[r][l] EXCEPT !.conn = NoConn]
                ELSE frame[r][l]]]

\* The server or the network ends a session in use: PostgreSQL rolls back, and
\* the query runner's error handler gives the slot back to the pool.
Drop(c) ==
    /\ "drop" \in Faults
    /\ holder[c] # Nobody
    /\ EndTransaction(c)
    /\ path' = [path EXCEPT ![c] = NoPath]
    /\ holder' = [holder EXCEPT ![c] = Nobody]
    /\ Detach(c)
    /\ UNCHANGED <<managerVars, callVars, committed>>

\* The session ends after COMMIT was executed and before its reply arrived.
CommitReplyLost(r) ==
    LET c == Top(r).conn
    IN  /\ "reply" \in Faults
        /\ At(r, "commit")
        /\ c # NoConn
        /\ tx[c] = "active"
        /\ committed' = committed \cup pending[c]
        /\ EndTransaction(c)
        /\ path' = [path EXCEPT ![c] = NoPath]
        /\ holder' = [holder EXCEPT ![c] = Nobody]
        /\ frame' = [frame EXCEPT ![r][depth[r]].phase = "rollback",
                                  ![r][depth[r]].conn = NoConn]
        /\ UNCHANGED <<managerVars, callVars>>

-----------------------------------------------------------------------------
Setup(r) ==
    \/ Lookup(r) \/ Resolve(r) \/ Reject(r)
    \/ Connect(r) \/ ConnectFail(r)
    \/ SetSearchPath(r) \/ SetSearchPathFail(r)
    \/ StartTransaction(r) \/ StartTransactionFail(r)

Call(r) ==
    \/ CallJoin(r)
    \/ \E p \in Propagations : CallNew(r, p)
    \/ CallWithoutTenant(r)

Body(r) ==
    SqlOk(r) \/ SqlFail(r) \/ Throw(r) \/ ReturnJoined(r) \/ ReturnOwner(r)

Finish(r) ==
    \/ RejectJoined(r)
    \/ CommitOk(r) \/ CommitRefused(r) \/ CommitLost(r) \/ CommitReplyLost(r)
    \/ Rollback(r) \/ Release(r)

Step(r) == Setup(r) \/ Call(r) \/ Body(r) \/ Finish(r)

\* Every request has made the calls of its budget and all are settled.
Done == \A r \in Callers : depth[r] = 0 /\ calls[r] = Budget[r]

Terminating == Done /\ UNCHANGED vars

Next ==
    \/ \E r \in Callers : Step(r)
    \/ \E c \in Conns : Drop(c)
    \/ Terminating

\* What is awaited is answered, and a body comes to its end: it returns or
\* throws instead of making statements and calls for ever.
Progress(r) == Setup(r) \/ Throw(r) \/ ReturnJoined(r) \/ ReturnOwner(r) \/ Finish(r)

Fairness == \A r \in Callers : WF_vars(Progress(r))

Spec == Init /\ [][Next]_vars

FairSpec == Spec /\ Fairness

-----------------------------------------------------------------------------
(* Properties.                                                             *)

\* The pending call at level d of r opened its own transaction.
Pending(r, d) == d <= depth[r]
OwnerFrame(r, d) == Pending(r, d) /\ OwnsAt(r, d)

\* Two calls never run their transactions on one connection at the same time,
\* and a call that asks for a new transaction never gets the connection of a
\* transaction that waits below it.
ExclusiveConnections ==
    \A r1, r2 \in Callers : \A d1, d2 \in Levels :
        (/\ OwnerFrame(r1, d1)
         /\ OwnerFrame(r2, d2)
         /\ frame[r1][d1].conn # NoConn
         /\ frame[r1][d1].conn = frame[r2][d2].conn)
        => r1 = r2 /\ d1 = d2

InTransaction == {"body", "commit", "failing"}

\* A method runs on its own tenant's pool with its own tenant's search_path,
\* although sessions keep the search_path of whoever used them before.
TenantIsolation ==
    \A r \in Callers : \A d \in Levels :
        (/\ Pending(r, d)
         /\ frame[r][d].phase \in InTransaction
         /\ frame[r][d].conn # NoConn)
        => /\ entry[frame[r][d].conn[1]] = buildKey(TenantOf[r])
           /\ path[frame[r][d].conn] = Lower[TenantOf[r][2]]

\* The entity manager of TransactionContext is always that of a connection
\* which this request holds and whose transaction is open: a method never runs
\* on a released connection, nor in autocommit.
ContextIsLive ==
    \A r \in Callers : \A d \in Levels :
        (/\ Pending(r, d)
         /\ frame[r][d].phase = "body"
         /\ frame[r][d].conn # NoConn)
        => /\ tx[frame[r][d].conn] # "none"
           /\ \E l \in 1..d : /\ holder[frame[r][d].conn] = <<r, l>>
                              /\ frame[r][l].call = home[r][frame[r][d].call]

\* A connection goes back to its pool with no transaction open and no write
\* that the next borrower's COMMIT would make permanent.
PoolIsClean ==
    \A c \in Conns : holder[c] = Nobody => tx[c] = "none" /\ pending[c] = {}

\* Every connection out of its pool belongs to a call that will release it.
NoConnectionLeak ==
    \A c \in Conns : holder[c] # Nobody =>
        \E r \in Callers, d \in Levels :
            Pending(r, d) /\ holder[c] = <<r, d>> /\ frame[r][d].conn = c

\* The writes made so far in the transaction that call n of r opened.
WritesIn(r, n) == {w \in wrote : w[1] = r /\ home[r][w[2]] = n}

OwnerCall(r, n) == home[r][n] = n

\* What a transaction wrote, in the method itself or in calls that joined it,
\* is in the database either completely or not at all, at every moment.
AllOrNothing ==
    \A r \in Callers : \A n \in CallNos : OwnerCall(r, n) =>
        \/ WritesIn(r, n) \subseteq committed
        \/ WritesIn(r, n) \cap committed = {}

\* How the transaction of call n of r stands in the database: it is open from its
\* BEGIN until COMMIT, ROLLBACK, a failed statement or the loss of its session.
Beginning(r, n) ==
    \E d \in 1..depth[r] :
        /\ frame[r][d].call = n
        /\ frame[r][d].phase \in {"lookup", "connect", "setPath", "begin"}

Open(r, n) ==
    \E d \in 1..depth[r] :
        /\ frame[r][d].call = n
        /\ frame[r][d].conn # NoConn
        /\ tx[frame[r][d].conn] = "active"

StatusOf(r, n) ==
    IF ~OwnerCall(r, n) \/ Beginning(r, n) THEN "fresh"
    ELSE IF Open(r, n) THEN "open" ELSE "ended"

Atomic == INSTANCE AtomicTransactions WITH
    Transactions <- Callers \X CallNos,
    status <- [t \in Callers \X CallNos |-> StatusOf(t[1], t[2])],
    written <- [t \in Callers \X CallNos |-> WritesIn(t[1], t[2])],
    store <- committed

\* The decorator keeps the promise of AtomicTransactions: what a method wrote, and
\* what the calls that joined it wrote while it was open, comes into the database
\* by one COMMIT or never, and stays; after the end of a transaction, of its own
\* or by the loss of its connection, nothing is written in its name.
ImplementsAtomic == Atomic!AtomicSpec

\* multi-tenancy.md:211, "Transaction commits automatically if successful": a
\* call that returned has its writes in the database, and those of the calls
\* that joined it, and whatever its caller does afterwards they stay; a call
\* that rejected has left nothing there.
OutcomeIsTrue ==
    \A r \in Callers : \A n \in CallNos : OwnerCall(r, n) =>
        /\ outcome[r][n] = "ok" => WritesIn(r, n) \subseteq committed
        /\ outcome[r][n] = "error" => WritesIn(r, n) \cap committed = {}

\* transaction.md:208, "Transaction failures automatically trigger rollback": a
\* call that rejected has left nothing in the database, whatever methods catch.
RejectedLeavesNothing ==
    \A r \in Callers : \A n \in CallNos :
        OwnerCall(r, n) /\ outcome[r][n] = "error" => WritesIn(r, n) \cap committed = {}

\* transaction.md:53, "suspending any existing transaction": while a call below
\* waits for a call with a transaction of its own, no step touches the outer
\* transaction, unless it takes its connection away.
SuspendedOuterUntouched ==
    [][\A r \in Callers : \A d \in Levels :
         LET c == frame[r][d].conn
         IN  (/\ d < depth[r]
              /\ c # NoConn
              /\ c # Top(r).conn
              /\ frame'[r][d].conn = c)
             => tx'[c] = tx[c] /\ pending'[c] = pending[c] /\ path'[c] = path[c]
      ]_vars

\* Every decorated call settles.
EveryCallSettles ==
    \A r \in Callers : \A n \in CallNos :
        outcome[r][n] = "pending" ~> outcome[r][n] \in {"ok", "error"}
=============================================================================

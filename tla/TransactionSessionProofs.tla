---------------------- MODULE TransactionSessionProofs ----------------------
(***************************************************************************)
(* Proofs about the stacks of calls, the connections and the database      *)
(* sessions of Transactional, for any requests, tenants, pools, nesting    *)
(* and failures.                                                           *)
(***************************************************************************)
EXTENDS Transactional, DatasourceManagerProofs

-----------------------------------------------------------------------------
(* The decorator leaves the cache of pools to its manager.                 *)

LEMMA TenantsOfRequests ==
    \A r \in Callers : TenantOf[r] # NoTenant => TenantOf[r] \in Tenants
  BY TransactionalAssumption

LEMMA ManagerStep == [Next]_vars => [ManagerNext]_managerVars
  <1> SUFFICES ASSUME [Next]_vars PROVE ManagerNext \/ UNCHANGED managerVars
    OBVIOUS
  <1>1. CASE UNCHANGED vars
    BY <1>1 DEF vars
  <1>2. ASSUME NEW r \in Callers, Setup(r) PROVE ManagerNext \/ UNCHANGED managerVars
    BY <1>2
    DEF Setup, Lookup, Resolve, Reject, Connect, ConnectFail, SetSearchPath,
        SetSearchPathFail, StartTransaction, StartTransactionFail, ManagerNext
  <1>3. ASSUME NEW r \in Callers, Call(r) PROVE ManagerNext \/ UNCHANGED managerVars
    BY <1>3, TenantsOfRequests
    DEF Call, CallJoin, CallNew, CallWithoutTenant, ManagerNext
  <1>4. ASSUME NEW r \in Callers, Body(r) PROVE UNCHANGED managerVars
    BY <1>4 DEF Body, SqlOk, SqlFail, Throw, ReturnJoined, ReturnOwner
  <1>5. ASSUME NEW r \in Callers, Finish(r) PROVE UNCHANGED managerVars
    BY <1>5
    DEF Finish, RejectJoined, CommitOk, CommitRefused, CommitLost,
        CommitReplyLost, Rollback, Release
  <1>6. ASSUME NEW c \in Conns, Drop(c) PROVE UNCHANGED managerVars
    BY <1>6 DEF Drop
  <1>7. CASE Terminating
    BY <1>7 DEF Terminating, vars
  <1> QED
    BY <1>1, <1>2, <1>3, <1>4, <1>5, <1>6, <1>7 DEF Next, Step

\* So what is proved of the manager holds here.
LEMMA PoolsInvariant == Spec => []PoolInv
  <1>1. Init => PoolInv
    BY PoolInvInit DEF Init
  <1>2. PoolInv /\ [Next]_vars => PoolInv'
    BY PoolInvStep, ManagerStep
  <1> QED
    BY <1>1, <1>2, PTL DEF Spec

-----------------------------------------------------------------------------
(* The stack of calls.                                                     *)

\* The phases of a call that has opened its own transaction.
OwnerPhases == Phases \ {"body", "failing", "none"}

StackTypes ==
    /\ depth \in [Callers -> 0..MaxDepth]
    /\ frame \in [Callers -> [Levels -> Frames]]
    /\ calls \in [Callers -> 0..MaxCalls]
    /\ home \in [Callers -> [CallNos -> 0..MaxCalls]]

\* A pending call has made its number, and runs in a transaction no younger
\* than itself.
FrameOK(r, d) ==
    LET f == frame[r][d]
    IN  /\ f.call \in 1..calls[r]
        /\ f.phase # "none"
        /\ f.phase = "connect" => f.ds \in DataSources
        /\ f.phase \in OwnerPhases => home[r][f.call] = f.call
        /\ f.phase = "failing" => home[r][f.call] # f.call
        /\ d < depth[r] => f.phase = "body"

StackInv ==
    /\ StackTypes
    /\ \A r \in Callers : \A d \in 1..depth[r] : FrameOK(r, d)
    /\ \A r \in Callers : \A n \in 1..calls[r] : home[r][n] \in 1..n

LEMMA Bounds ==
    /\ MaxDepth \in Nat \ {0} /\ MaxCalls \in Nat
    /\ Levels = 1..MaxDepth /\ CallNos = 1..MaxCalls
    /\ \A r \in Callers : Budget[r] \in 0..MaxCalls
  BY TransactionalAssumption DEF Levels, CallNos

\* What a call leaves behind when it settles: the frame below goes on with its
\* body, or to where its failure takes it.
LEMMA ResumedPhases ==
  ASSUME NEW r \in Callers, NEW result, NEW p \in Resumed(r, result)
  PROVE  p \in {"none", "body", "rollback", "failing"}
  BY DEF Resumed, FailPhase

LEMMA PhaseChange ==
  ASSUME NEW f \in Frames, NEW p \in Phases
  PROVE  LET g == [f EXCEPT !.phase = p]
         IN  /\ g \in Frames
             /\ g.phase = p /\ g.call = f.call /\ g.conn = f.conn /\ g.ds = f.ds
             /\ g.failed = f.failed /\ g.propagation = f.propagation
  BY DEF Frames

LEMMA PoppedType ==
  ASSUME StackTypes, NEW r \in Callers, NEW p \in Phases
  PROVE  Popped(r, p) \in [Levels -> Frames]
  <1>1. NoFrame \in Frames
    BY Bounds DEF NoFrame, Frames, Phases, Propagations
  <1>2. \A l \in Levels : [frame[r][l] EXCEPT !.phase = p] \in Frames
    BY PhaseChange DEF StackTypes
  <1> QED
    BY <1>1, <1>2 DEF Popped, StackTypes

LEMMA SettleStack ==
  ASSUME StackInv, NEW r \in Callers, depth[r] > 0, NEW result, Settle(r, result)
  PROVE  StackInv'
  <1>1. PICK p \in Resumed(r, result) : frame' = [frame EXCEPT ![r] = Popped(r, p)]
    BY DEF Settle
  <1>2. p \in {"none", "body", "rollback", "failing"} /\ p \in Phases
    BY ResumedPhases DEF Phases
  <1>3. /\ depth' = [depth EXCEPT ![r] = depth[r] - 1]
        /\ depth[r] \in 1..MaxDepth
        /\ calls' = calls /\ home' = home
    BY Bounds DEF Settle, StackInv, StackTypes
  <1>4. StackTypes'
    BY <1>1, <1>2, <1>3, PoppedType, Bounds DEF StackInv, StackTypes
  <1>5. ASSUME NEW d \in 1..(depth[r] - 1) PROVE FrameOK(r, d)'
    <2>1. FrameOK(r, d) /\ d \in Levels /\ frame[r][d] \in Frames
      BY <1>3, Bounds DEF StackInv, StackTypes
    <2>2. CASE d < depth[r] - 1
      <3>1. frame'[r][d] = frame[r][d]
        BY <1>1, <1>3, <2>1, <2>2 DEF Popped, StackInv, StackTypes
      <3> QED
        BY <1>3, <2>1, <2>2, <3>1 DEF FrameOK
    <2>3. CASE d = depth[r] - 1
      <3>1. frame'[r][d] = [frame[r][d] EXCEPT !.phase = p]
        BY <1>1, <1>3, <2>1, <2>3 DEF Popped, StackInv, StackTypes
      <3>2. frame'[r][d].phase = p /\ frame'[r][d].call = frame[r][d].call
        BY <1>2, <2>1, <3>1, PhaseChange
      <3>3. p \in {"body", FailPhase(r, d)}
        BY <1>3, <2>3 DEF Resumed
      <3>4. /\ p \in {"body", "rollback", "failing"}
            /\ p = "rollback" => home[r][frame[r][d].call] = frame[r][d].call
            /\ p = "failing" => home[r][frame[r][d].call] # frame[r][d].call
        BY <3>3 DEF FailPhase, OwnsAt
      <3> QED
        BY <1>3, <2>1, <2>3, <3>2, <3>4
        DEF FrameOK, OwnerPhases, Phases, StackInv, StackTypes
    <2> QED
      BY <1>3, <2>2, <2>3, Bounds
  <1>6. ASSUME NEW q \in Callers, q # r, NEW d \in 1..depth'[q] PROVE FrameOK(q, d)'
    <2>1. depth'[q] = depth[q] /\ frame'[q] = frame[q]
      BY <1>1, <1>3, <1>6 DEF StackInv, StackTypes
    <2>2. FrameOK(q, d)
      BY <2>1 DEF StackInv
    <2> QED
      BY <1>3, <2>1, <2>2 DEF FrameOK
  <1> QED
    BY <1>3, <1>4, <1>5, <1>6 DEF StackInv, StackTypes

\* A new call on the stack.
LEMMA PushStack ==
  ASSUME StackInv, NEW r \in Callers, MayCall(r),
         NEW f \in Frames, Push(r, f), f.call = calls[r] + 1,
         f.phase \in {"body", "lookup"},
         NEW h \in 1..(calls[r] + 1),
         home' = [home EXCEPT ![r][calls[r] + 1] = h],
         f.phase = "lookup" => h = calls[r] + 1
  PROVE  StackInv'
  <1>a. /\ depth[r] \in 0..(MaxDepth - 1) /\ depth[r] + 1 \in Levels
        /\ calls[r] \in 0..(MaxCalls - 1) /\ calls[r] + 1 \in CallNos
    <2>1. depth[r] \in 0..MaxDepth /\ calls[r] \in 0..MaxCalls /\ Budget[r] \in 0..MaxCalls
      BY Bounds DEF StackInv, StackTypes
    <2>2. depth[r] < MaxDepth /\ calls[r] < Budget[r]
      BY DEF MayCall
    <2> QED
      BY <2>1, <2>2, Bounds
  <1>b. /\ depth' = [depth EXCEPT ![r] = depth[r] + 1]
        /\ calls' = [calls EXCEPT ![r] = calls[r] + 1]
        /\ frame' = [frame EXCEPT ![r][depth[r] + 1] = f]
    BY DEF Push
  <1>1. /\ depth'[r] = depth[r] + 1 /\ calls'[r] = calls[r] + 1
        /\ frame'[r][depth[r] + 1] = f
        /\ \A d \in Levels : d # depth[r] + 1 => frame'[r][d] = frame[r][d]
        /\ \A q \in Callers : q # r =>
              /\ depth'[q] = depth[q] /\ calls'[q] = calls[q]
              /\ frame'[q] = frame[q] /\ home'[q] = home[q]
    BY <1>a, <1>b DEF StackInv, StackTypes
  <1>2. StackTypes'
    <2>1. depth[r] + 1 \in 0..MaxDepth /\ calls[r] + 1 \in 0..MaxCalls /\ h \in 0..MaxCalls
      BY <1>a, Bounds
    <2> QED
      BY <1>a, <1>b, <2>1 DEF StackInv, StackTypes
  <1>3. \A n \in 1..calls[r] : home'[r][n] = home[r][n]
    BY <1>a, Bounds DEF StackInv, StackTypes
  <1>4. home'[r][calls[r] + 1] = h
    BY <1>a, Bounds DEF StackInv, StackTypes
  <1>5. ASSUME NEW d \in 1..depth[r] PROVE FrameOK(r, d)'
    <2>0. d \in Levels /\ d # depth[r] + 1
      BY <1>a, Bounds
    <2>1. FrameOK(r, d) /\ frame'[r][d] = frame[r][d]
      BY <1>1, <2>0 DEF StackInv
    <2>2. frame[r][d].phase = "body"
      <3>1. CASE d < depth[r]
        BY <2>1, <3>1 DEF FrameOK
      <3>2. CASE d = depth[r]
        BY <1>a, <3>2 DEF MayCall, At, Top
      <3> QED
        BY <1>a, <3>1, <3>2, Bounds
    <2>3. frame[r][d].call \in 1..calls'[r]
      BY <1>a, <1>1, <2>1, Bounds DEF FrameOK
    <2> QED
      BY <2>1, <2>2, <2>3 DEF FrameOK, OwnerPhases
  <1>6. ASSUME NEW d \in Levels, d = depth[r] + 1 PROVE FrameOK(r, d)'
    <2>1. f.call \in 1..calls'[r] /\ ~(d < depth'[r])
      BY <1>a, <1>1, <1>6, Bounds
    <2>2. f.phase = "lookup" => home'[r][f.call] = f.call
      BY <1>4
    <2> QED
      BY <1>1, <1>6, <2>1, <2>2 DEF FrameOK, OwnerPhases
  <1>7. ASSUME NEW q \in Callers, q # r, NEW d \in 1..depth'[q] PROVE FrameOK(q, d)'
    <2>1. /\ depth'[q] = depth[q] /\ calls'[q] = calls[q]
          /\ frame'[q] = frame[q] /\ home'[q] = home[q]
      BY <1>1, <1>7
    <2>2. FrameOK(q, d)
      BY <2>1 DEF StackInv
    <2> QED
      BY <2>1, <2>2 DEF FrameOK
  <1>8. ASSUME NEW q \in Callers, NEW d \in 1..depth'[q] PROVE FrameOK(q, d)'
    <2>1. CASE q = r /\ d = depth[r] + 1
      BY <1>a, <1>6, <2>1
    <2>2. CASE q = r /\ d # depth[r] + 1
      <3>1. d \in 1..depth[r]
        BY <1>a, <1>1, <2>2, Bounds
      <3> QED
        BY <1>5, <2>2, <3>1
    <2> QED
      BY <1>7, <2>1, <2>2
  <1>9. ASSUME NEW q \in Callers, NEW n \in 1..calls'[q] PROVE home'[q][n] \in 1..n
    <2>1. CASE q = r /\ n = calls[r] + 1
      BY <1>4, <2>1
    <2>2. CASE q = r /\ n # calls[r] + 1
      <3>1. n \in 1..calls[r]
        BY <1>a, <1>1, <2>2, Bounds
      <3> QED
        BY <1>3, <2>2, <3>1 DEF StackInv
    <2>3. CASE q # r
      BY <1>1, <2>3 DEF StackInv, StackTypes
    <2> QED
      BY <2>1, <2>2, <2>3
  <1> QED
    BY <1>2, <1>8, <1>9 DEF StackInv

\* The top of a stack goes on.
LEMMA TopStack ==
  ASSUME StackInv, NEW r \in Callers, depth[r] > 0, NEW g \in Frames,
         frame' = [frame EXCEPT ![r][depth[r]] = g],
         g.call = Top(r).call,
         g.phase # "none",
         g.phase = "connect" => g.ds \in DataSources,
         g.phase \in OwnerPhases => Owns(r),
         g.phase = "failing" => ~Owns(r),
         UNCHANGED <<depth, calls, home>>
  PROVE  StackInv'
  <1>1. depth[r] \in Levels /\ depth[r] \in 1..depth[r]
    BY Bounds DEF StackInv, StackTypes
  <1>2. StackTypes'
    BY <1>1 DEF StackInv, StackTypes
  <1>3. FrameOK(r, depth[r])'
    <2>1. frame'[r][depth[r]] = g
      BY <1>1 DEF StackInv, StackTypes
    <2>2. FrameOK(r, depth[r])
      BY <1>1 DEF StackInv
    <2> QED
      BY <1>1, <2>1, <2>2 DEF FrameOK, Owns, OwnsAt, Top
  <1>4. ASSUME NEW q \in Callers, NEW d \in 1..depth[q], q # r \/ d # depth[r]
        PROVE FrameOK(q, d)'
    <2>1. frame'[q][d] = frame[q][d]
      BY <1>4, <1>1 DEF StackInv, StackTypes
    <2> QED
      BY <1>4, <2>1 DEF StackInv, FrameOK
  <1> QED
    BY <1>2, <1>3, <1>4 DEF StackInv

LEMMA GoToStack ==
  ASSUME StackInv, NEW r \in Callers, depth[r] > 0, NEW p \in Phases, GoTo(r, p),
         p \notin {"none", "connect"},
         p \in OwnerPhases => Owns(r), p = "failing" => ~Owns(r),
         UNCHANGED <<depth, calls, home>>
  PROVE  StackInv'
  <1>1. Top(r) \in Frames
    BY Bounds DEF StackInv, StackTypes, Top
  <1>2. frame' = [frame EXCEPT ![r][depth[r]] = [Top(r) EXCEPT !.phase = p]]
    BY DEF GoTo, Top
  <1> DEFINE g == [Top(r) EXCEPT !.phase = p]
  <1>3. g \in Frames /\ g.phase = p /\ g.call = Top(r).call
    BY <1>1, PhaseChange
  <1> HIDE DEF g
  <1> QED
    BY <1>2, <1>3, TopStack DEF g

\* Frames may lose their connection.
LEMMA DetachStack ==
  ASSUME StackInv, NEW c, Detach(c), UNCHANGED <<depth, calls, home>>
  PROVE  StackInv'
  <1>1. \A f \in Frames :
          LET g == [f EXCEPT !.conn = NoConn]
          IN  g \in Frames /\ g.phase = f.phase /\ g.call = f.call /\ g.ds = f.ds
    BY DEF Frames
  <1>2. StackTypes'
    BY <1>1 DEF StackInv, StackTypes, Detach
  <1>3. ASSUME NEW q \in Callers, NEW d \in 1..depth[q] PROVE FrameOK(q, d)'
    <2>1. FrameOK(q, d) /\ d \in Levels /\ frame[q][d] \in Frames
      BY Bounds DEF StackInv, StackTypes
    <2>2. /\ frame'[q][d].phase = frame[q][d].phase
          /\ frame'[q][d].call = frame[q][d].call
          /\ frame'[q][d].ds = frame[q][d].ds
      BY <1>1, <2>1 DEF Detach
    <2> QED
      BY <2>1, <2>2 DEF FrameOK
  <1> QED
    BY <1>2, <1>3 DEF StackInv

LEMMA StackInvInit == Init => StackInv
  BY Bounds
  DEF Init, StackInv, StackTypes, NoFrame, Frames, Phases, Propagations

\* A pending call has a frame.
LEMMA TopOK ==
  ASSUME StackInv, NEW r \in Callers, depth[r] > 0
  PROVE  /\ depth[r] \in Levels
         /\ Top(r) \in Frames
         /\ FrameOK(r, depth[r])
         /\ Top(r).phase \in OwnerPhases => Owns(r)
  BY Bounds DEF StackInv, StackTypes, Top, FrameOK, Owns, OwnsAt

LEMMA CallStack ==
  ASSUME StackInv, NEW r \in Callers, Call(r) PROVE StackInv'
  <1>1. CASE CallJoin(r)
    <2> DEFINE f == [NoFrame EXCEPT !.phase = "body", !.conn = ContextConn(r),
                                    !.call = calls[r] + 1]
               h == home[r][Top(r).call]
    <2>1. /\ MayCall(r) /\ depth[r] > 0 /\ Push(r, f)
          /\ home' = [home EXCEPT ![r][calls[r] + 1] = h]
      BY <1>1 DEF CallJoin
    <2>2. Top(r) \in Frames /\ FrameOK(r, depth[r])
      BY <2>1, TopOK
    <2>3. calls[r] + 1 \in 0..MaxCalls
      BY <2>1, Bounds DEF MayCall, StackInv, StackTypes
    <2>4. f \in Frames /\ f.call = calls[r] + 1 /\ f.phase = "body"
      BY <2>2, <2>3 DEF NoFrame, Frames, Phases, Propagations, ContextConn
    <2>5. h \in 1..(calls[r] + 1)
      BY <2>2, <2>3, Bounds DEF FrameOK, Top, StackInv, StackTypes
    <2> HIDE DEF f, h
    <2> QED
      BY <2>1, <2>4, <2>5, PushStack
  <1>2. ASSUME NEW p \in Propagations, CallNew(r, p) PROVE StackInv'
    <2> DEFINE f == [NoFrame EXCEPT !.phase = "lookup", !.propagation = p,
                                    !.call = calls[r] + 1]
    <2>1. /\ MayCall(r) /\ Push(r, f)
          /\ home' = [home EXCEPT ![r][calls[r] + 1] = calls[r] + 1]
      BY <1>2 DEF CallNew
    <2>2. calls[r] \in Nat /\ calls[r] + 1 \in 0..MaxCalls
      BY <2>1, Bounds DEF MayCall, StackInv, StackTypes
    <2>3. f \in Frames /\ f.call = calls[r] + 1 /\ f.phase = "lookup"
      BY <2>2 DEF NoFrame, Frames, Phases, Propagations
    <2>4. calls[r] + 1 \in 1..(calls[r] + 1)
      BY <2>2
    <2> HIDE DEF f
    <2> QED
      BY <2>1, <2>3, <2>4, PushStack
  <1>3. CASE CallWithoutTenant(r)
    <2>1. /\ MayCall(r)
          /\ calls' = [calls EXCEPT ![r] = calls[r] + 1]
          /\ home' = [home EXCEPT ![r][calls[r] + 1] = calls[r] + 1]
          /\ frame' = frame /\ depth' = depth
      BY <1>3 DEF CallWithoutTenant
    <2>2. calls[r] \in 0..(MaxCalls - 1)
      BY <2>1, Bounds DEF MayCall, StackInv, StackTypes
    <2>3. StackTypes'
      BY <2>1, <2>2, Bounds DEF StackInv, StackTypes
    <2>4. ASSUME NEW q \in Callers, NEW n \in 1..calls[q]
          PROVE  home'[q][n] = home[q][n]
      <3>1. home \in [Callers -> [CallNos -> 0..MaxCalls]]
        BY DEF StackInv, StackTypes
      <3>2. q = r => n # calls[r] + 1
        BY <2>2
      <3>3. calls[r] + 1 \in CallNos
        BY <2>2, Bounds
      <3>4. n \in CallNos
        BY Bounds DEF StackInv, StackTypes
      <3> QED
        BY <2>1, <3>1, <3>2, <3>3, <3>4
    <2>5. ASSUME NEW q \in Callers, NEW d \in 1..depth[q] PROVE FrameOK(q, d)'
      <3>1. calls[q] \in Nat /\ calls \in [Callers -> 0..MaxCalls]
        BY Bounds DEF StackInv, StackTypes
      <3>2. calls'[q] \in Nat /\ calls[q] <= calls'[q]
        BY <2>1, <3>1
      <3>3. FrameOK(q, d)
        BY DEF StackInv
      <3> QED
        BY <2>1, <2>4, <3>1, <3>2, <3>3 DEF FrameOK
    <2>6. ASSUME NEW q \in Callers, NEW n \in 1..calls'[q] PROVE home'[q][n] \in 1..n
      <3>1. CASE q = r /\ n = calls[r] + 1
        BY <2>1, <2>2, <3>1, Bounds DEF StackInv, StackTypes
      <3>2. CASE ~(q = r /\ n = calls[r] + 1)
        <4>1. n \in 1..calls[q]
          BY <2>1, <2>2, <3>2, Bounds DEF StackInv, StackTypes
        <4> QED
          BY <2>4, <4>1 DEF StackInv
      <3> QED
        BY <3>1, <3>2
    <2> QED
      BY <2>1, <2>3, <2>5, <2>6 DEF StackInv
  <1> QED
    BY <1>1, <1>2, <1>3 DEF Call

LEMMA SetupStack ==
  ASSUME StackInv, PoolInv, NEW r \in Callers, Setup(r) PROVE StackInv'
  <1>1. CASE Lookup(r)
    BY <1>1 DEF Lookup, txnVars, callVars, StackInv, StackTypes, FrameOK
  <1>2. CASE Resolve(r)
    <2> DEFINE g == [Top(r) EXCEPT !.phase = "connect", !.ds = lookup[r].ds]
    <2>1. /\ depth[r] > 0 /\ Top(r).phase = "lookup"
          /\ lookup[r].phase = "resolved"
          /\ UNCHANGED <<depth, calls, home>>
          /\ frame' = [frame EXCEPT ![r][depth[r]] = g]
      BY <1>2 DEF Resolve, At, Top, callVars
    <2>2. lookup[r].ds \in DataSources
      BY <2>1 DEF PoolInv, LookupPool
    <2>3. Top(r) \in Frames /\ Owns(r)
      BY <2>1, TopOK DEF OwnerPhases, Phases
    <2>4. g \in Frames /\ g.phase = "connect" /\ g.call = Top(r).call /\ g.ds = lookup[r].ds
      BY <2>2, <2>3 DEF Frames, Phases
    <2> HIDE DEF g
    <2> QED
      BY <2>1, <2>2, <2>3, <2>4, TopStack
  <1>3. CASE Connect(r)
    <2>1. PICK c \in FreeConns(Top(r).ds) :
             frame' = [frame EXCEPT ![r][depth[r]].phase = "setPath",
                                    ![r][depth[r]].conn = c,
                                    ![r][depth[r]].ds = NoDataSource]
      BY <1>3 DEF Connect
    <2> DEFINE g == [Top(r) EXCEPT !.phase = "setPath", !.conn = c, !.ds = NoDataSource]
    <2>2. /\ depth[r] > 0 /\ Top(r).phase = "connect"
          /\ UNCHANGED <<depth, calls, home>>
      BY <1>3 DEF Connect, At, callVars
    <2>a. frame \in [Callers -> [Levels -> Frames]] /\ depth[r] \in Levels
      BY <2>2, TopOK DEF StackInv, StackTypes
    <2>b. frame' = [frame EXCEPT ![r][depth[r]] = g]
      BY <2>1, <2>a, Zenon DEF Top
    <2>3. Top(r) \in Frames /\ Owns(r) /\ Top(r).ds \in DataSources
      BY <2>2, TopOK DEF OwnerPhases, Phases, FrameOK, Top
    <2>4. c \in Conns
      BY <2>3 DEF FreeConns, Conns
    <2>5. g \in Frames /\ g.phase = "setPath" /\ g.call = Top(r).call
      BY <2>3, <2>4 DEF Frames, Phases
    <2> HIDE DEF g
    <2> QED
      BY <2>2, <2>b, <2>3, <2>5, TopStack
  <1>4. CASE Reject(r) \/ ConnectFail(r) \/ SetSearchPathFail(r) \/ StartTransactionFail(r)
    BY <1>4, SettleStack DEF Reject, ConnectFail, SetSearchPathFail, StartTransactionFail, At
  <1>5. CASE SetSearchPath(r)
    BY <1>5, TopOK, GoToStack DEF SetSearchPath, At, callVars, OwnerPhases, Phases
  <1>6. CASE StartTransaction(r)
    BY <1>6, TopOK, GoToStack DEF StartTransaction, At, callVars, OwnerPhases, Phases
  <1> QED
    BY <1>1, <1>2, <1>3, <1>4, <1>5, <1>6 DEF Setup

\* Where the error of a body leads is the phase of an owner or of a call that
\* joined, as the case may be.
LEMMA FailStack ==
  ASSUME StackInv, NEW r \in Callers, depth[r] > 0, GoTo(r, FailPhase(r, depth[r])),
         UNCHANGED <<depth, calls, home>>
  PROVE  StackInv'
  <1>1. CASE Owns(r)
    BY <1>1, GoToStack DEF FailPhase, Owns, Phases
  <1>2. CASE ~Owns(r)
    BY <1>2, GoToStack DEF FailPhase, Owns, OwnerPhases, Phases
  <1> QED
    BY <1>1, <1>2

LEMMA BodyStack ==
  ASSUME StackInv, NEW r \in Callers, Body(r) PROVE StackInv'
  <1>1. CASE SqlOk(r)
    BY <1>1 DEF SqlOk, StackInv, StackTypes, FrameOK
  <1>2. CASE SqlFail(r)
    <2>1. depth[r] > 0 /\ UNCHANGED <<depth, calls, home>>
      BY <1>2 DEF SqlFail, At, callVars
    <2>2. GoTo(r, FailPhase(r, depth[r])) \/ GoTo(r, "body")
      BY <1>2 DEF SqlFail
    <2> QED
      BY <2>1, <2>2, FailStack, GoToStack DEF OwnerPhases, Phases
  <1>3. CASE Throw(r)
    BY <1>3, FailStack DEF Throw, At, callVars
  <1>4. CASE ReturnJoined(r)
    BY <1>4, SettleStack DEF ReturnJoined, At
  <1>5. CASE ReturnOwner(r)
    BY <1>5, GoToStack DEF ReturnOwner, At, callVars, Phases
  <1> QED
    BY <1>1, <1>2, <1>3, <1>4, <1>5 DEF Body

LEMMA FinishStack ==
  ASSUME StackInv, NEW r \in Callers, Finish(r) PROVE StackInv'
  <1>1. CASE RejectJoined(r) \/ Release(r)
    BY <1>1, SettleStack DEF RejectJoined, Release, At
  <1>2. CASE CommitOk(r)
    BY <1>2, TopOK, GoToStack DEF CommitOk, At, callVars, OwnerPhases, Phases
  <1>3. CASE CommitRefused(r) \/ CommitLost(r)
    BY <1>3, TopOK, GoToStack
    DEF CommitRefused, CommitLost, OnCommitError, At, callVars, OwnerPhases, Phases
  <1>4. CASE CommitReplyLost(r)
    <2> DEFINE g == [Top(r) EXCEPT !.phase = "rollback", !.conn = NoConn]
    <2>1. /\ depth[r] > 0 /\ Top(r).phase = "commit"
          /\ UNCHANGED <<depth, calls, home>>
          /\ frame' = [frame EXCEPT ![r][depth[r]] = g]
      BY <1>4 DEF CommitReplyLost, At, Top, callVars
    <2>2. Top(r) \in Frames /\ Owns(r)
      BY <2>1, TopOK DEF OwnerPhases, Phases
    <2>3. g \in Frames /\ g.phase = "rollback" /\ g.call = Top(r).call
      BY <2>2 DEF Frames, Phases
    <2> HIDE DEF g
    <2> QED
      BY <2>1, <2>2, <2>3, TopStack
  <1>5. CASE Rollback(r)
    <2> DEFINE g == [Top(r) EXCEPT !.phase = "release", !.failed = TRUE]
    <2>1. /\ depth[r] > 0 /\ Top(r).phase = "rollback"
          /\ UNCHANGED <<depth, calls, home>>
          /\ frame' = [frame EXCEPT ![r][depth[r]] = g]
      BY <1>5 DEF Rollback, At, Top, callVars
    <2>2. Top(r) \in Frames /\ Owns(r)
      BY <2>1, TopOK DEF OwnerPhases, Phases
    <2>3. g \in Frames /\ g.phase = "release" /\ g.call = Top(r).call
      BY <2>2 DEF Frames, Phases
    <2> HIDE DEF g
    <2> QED
      BY <2>1, <2>2, <2>3, TopStack
  <1> QED
    BY <1>1, <1>2, <1>3, <1>4, <1>5 DEF Finish

LEMMA StackInvStep == StackInv /\ PoolInv /\ [Next]_vars => StackInv'
  <1> SUFFICES ASSUME StackInv, PoolInv, [Next]_vars PROVE StackInv'
    OBVIOUS
  <1>1. CASE UNCHANGED vars \/ Terminating
    BY <1>1 DEF Terminating, vars, txnVars, callVars, StackInv, StackTypes, FrameOK
  <1>2. ASSUME NEW r \in Callers, Step(r) PROVE StackInv'
    BY <1>2, SetupStack, CallStack, BodyStack, FinishStack DEF Step
  <1>3. ASSUME NEW c \in Conns, Drop(c) PROVE StackInv'
    BY <1>3, DetachStack DEF Drop, callVars
  <1> QED
    BY <1>1, <1>2, <1>3 DEF Next

-----------------------------------------------------------------------------
(* Types.                                                                  *)

\* What the stacks of calls do not say about the types of the variables.
DbTypes ==
    /\ outcome \in [Callers -> [CallNos -> {"none", "pending", "ok", "error"}]]
    /\ holder \in [Conns -> Owners \cup {Nobody}]
    /\ tx \in [Conns -> {"none", "active", "aborted"}]
    /\ path \in [Conns -> Paths]
    /\ pending \in [Conns -> SUBSET Writes]
    /\ wrote \in SUBSET Writes
    /\ committed \in SUBSET Writes

\* Without a tenant no call gets as far as a frame.
TenantInv == \A r \in Callers : depth[r] > 0 => TenantOf[r] \in Tenants

LEMMA DbTypesInit == Init => DbTypes /\ TenantInv
  BY DEF Init, PoolInit, Paths, DbTypes, TenantInv

LEMMA TopCall ==
  ASSUME StackInv, NEW r \in Callers, depth[r] > 0
  PROVE  /\ Top(r).call \in CallNos
         /\ Top(r).conn \in Conns \cup {NoConn}
         /\ <<r, Top(r).call>> \in Writes
         /\ <<r, depth[r]>> \in Owners
  <1>1. Top(r) \in Frames /\ Top(r).call \in 1..calls[r] /\ depth[r] \in Levels
    BY TopOK DEF FrameOK, Top
  <1> QED
    BY <1>1, Bounds DEF StackInv, StackTypes, Frames, Writes, Owners

LEMMA SettleOutcome ==
  ASSUME StackInv, DbTypes, NEW r \in Callers, depth[r] > 0,
         NEW result \in {"ok", "error"}, Settle(r, result)
  PROVE  /\ outcome' \in [Callers -> [CallNos -> {"none", "pending", "ok", "error"}]]
         /\ wrote' = wrote
         /\ depth' \in [Callers -> Int]
         /\ \A q \in Callers : depth'[q] > 0 => depth[q] > 0
  <1>1. outcome' \in [Callers -> [CallNos -> {"none", "pending", "ok", "error"}]]
    BY TopCall DEF Settle, DbTypes
  <1>2. depth \in [Callers -> Nat] /\ depth' = [depth EXCEPT ![r] = depth[r] - 1]
    BY Bounds DEF Settle, StackInv, StackTypes
  <1> QED
    BY <1>1, <1>2 DEF Settle

LEMMA MayCallBounds ==
  ASSUME StackInv, NEW r \in Callers, MayCall(r)
  PROVE  /\ depth[r] \in 0..(MaxDepth - 1) /\ depth[r] + 1 \in Levels
         /\ calls[r] \in 0..(MaxCalls - 1) /\ calls[r] + 1 \in CallNos
  <1>1. depth[r] \in 0..MaxDepth /\ calls[r] \in 0..MaxCalls /\ Budget[r] \in 0..MaxCalls
    BY Bounds DEF StackInv, StackTypes
  <1>2. depth[r] < MaxDepth /\ calls[r] < Budget[r]
    BY DEF MayCall
  <1> QED
    BY <1>1, <1>2, Bounds

LEMMA CallTypes ==
  ASSUME StackInv, DbTypes, TenantInv, NEW r \in Callers, Call(r)
  PROVE  DbTypes' /\ TenantInv'
  <1>1. MayCall(r) /\ UNCHANGED dbVars
    BY DEF Call, CallJoin, CallNew, CallWithoutTenant
  <1>2. UNCHANGED wrote
    BY DEF Call, CallJoin, CallNew, CallWithoutTenant, Push
  <1>3. outcome' \in [Callers -> [CallNos -> {"none", "pending", "ok", "error"}]]
    <2>1. calls[r] + 1 \in CallNos
      BY <1>1, MayCallBounds
    <2>2. \/ outcome' = [outcome EXCEPT ![r][calls[r] + 1] = "pending"]
          \/ outcome' = [outcome EXCEPT ![r][calls[r] + 1] = "error"]
      BY Zenon DEF Call, CallJoin, CallNew, CallWithoutTenant, Push
    <2> QED
      BY <2>1, <2>2 DEF DbTypes
  <1>4. TenantInv'
    <2>1. CASE depth' = depth
      BY <2>1 DEF TenantInv
    <2>2. CASE TenantOf[r] # NoTenant /\ depth' = [depth EXCEPT ![r] = @ + 1]
      <3>1. TenantOf[r] \in Tenants
        BY <2>2, TenantsOfRequests
      <3>2. \A q \in Callers : q # r => depth'[q] = depth[q]
        BY <2>2 DEF StackInv, StackTypes
      <3> QED
        BY <3>1, <3>2 DEF TenantInv
    <2>3. CASE CallWithoutTenant(r)
      BY <2>1, <2>3 DEF CallWithoutTenant
    <2>4. CASE CallJoin(r) \/ \E p \in Propagations : CallNew(r, p)
      BY <2>2, <2>4 DEF CallJoin, CallNew, Push
    <2> QED
      BY <2>3, <2>4 DEF Call
  <1> QED
    BY <1>1, <1>2, <1>3, <1>4 DEF DbTypes, dbVars

LEMMA SetupTypes ==
  ASSUME StackInv, DbTypes, TenantInv, NEW r \in Callers, Setup(r)
  PROVE  DbTypes' /\ TenantInv'
  <1>1. CASE Lookup(r) \/ Resolve(r)
    BY <1>1 DEF Lookup, Resolve, txnVars, callVars, dbVars, DbTypes, TenantInv
  <1>2. CASE Reject(r) \/ ConnectFail(r) \/ SetSearchPathFail(r) \/ StartTransactionFail(r)
    <2>1. depth[r] > 0 /\ Settle(r, "error") /\ UNCHANGED dbVars
      BY <1>2 DEF Reject, ConnectFail, SetSearchPathFail, StartTransactionFail, At
    <2> QED
      BY <2>1, SettleOutcome DEF dbVars, DbTypes, TenantInv
  <1>3. CASE Connect(r)
    <2>1. depth[r] > 0
      BY <1>3 DEF Connect, At
    <2>2. holder' \in [Conns -> Owners \cup {Nobody}]
      BY <1>3, <2>1, TopCall DEF Connect, DbTypes
    <2> QED
      BY <1>3, <2>2 DEF Connect, callVars, DbTypes, TenantInv
  <1>4. CASE SetSearchPath(r)
    <2>1. SearchPath(r) \in {Lower[cc] : cc \in CountryCodes}
      BY <1>4 DEF SetSearchPath, At, TenantInv, Tenants, SearchPath, SearchPathOf
    <2> QED
      BY <1>4, <2>1 DEF SetSearchPath, callVars, DbTypes, TenantInv, Paths
  <1>5. CASE StartTransaction(r)
    BY <1>5 DEF StartTransaction, callVars, DbTypes, TenantInv
  <1> QED
    BY <1>1, <1>2, <1>3, <1>4, <1>5 DEF Setup

LEMMA BodyTypes ==
  ASSUME StackInv, DbTypes, TenantInv, NEW r \in Callers, Body(r)
  PROVE  DbTypes' /\ TenantInv'
  <1>0. depth[r] > 0
    BY DEF Body, SqlOk, SqlFail, Throw, ReturnJoined, ReturnOwner, At
  <1>1. CASE SqlOk(r)
    <2>1. pending' \in [Conns -> SUBSET Writes] /\ wrote' \in SUBSET Writes
      BY <1>0, <1>1, TopCall DEF SqlOk, DbTypes
    <2> QED
      BY <1>1, <2>1 DEF SqlOk, DbTypes, TenantInv
  <1>2. CASE SqlFail(r)
    <2>1. tx' \in [Conns -> {"none", "active", "aborted"}]
      BY <1>2 DEF SqlFail, DbTypes
    <2> QED
      BY <1>2, <2>1 DEF SqlFail, callVars, DbTypes, TenantInv
  <1>3. CASE Throw(r) \/ ReturnOwner(r)
    BY <1>3 DEF Throw, ReturnOwner, callVars, dbVars, DbTypes, TenantInv
  <1>4. CASE ReturnJoined(r)
    BY <1>0, <1>4, SettleOutcome DEF ReturnJoined, dbVars, DbTypes, TenantInv
  <1> QED
    BY <1>1, <1>2, <1>3, <1>4 DEF Body

\* Closing a transaction keeps the types.
LEMMA EndTypes ==
  ASSUME DbTypes, NEW c, EndTransaction(c)
  PROVE  /\ tx' \in [Conns -> {"none", "active", "aborted"}]
         /\ pending' \in [Conns -> SUBSET Writes]
  BY DEF DbTypes, EndTransaction

LEMMA FinishTypes ==
  ASSUME StackInv, DbTypes, TenantInv, NEW r \in Callers, Finish(r)
  PROVE  DbTypes' /\ TenantInv'
  <1>0. depth[r] > 0
    BY DEF Finish, RejectJoined, CommitOk, CommitRefused, CommitLost,
           CommitReplyLost, Rollback, Release, At
  <1>1. CASE RejectJoined(r)
    BY <1>0, <1>1, SettleOutcome DEF RejectJoined, dbVars, DbTypes, TenantInv
  <1>2. CASE Release(r)
    <2>1. Settle(r, IF Top(r).failed THEN "error" ELSE "ok")
      BY <1>2 DEF Release
    <2>2. holder' \in [Conns -> Owners \cup {Nobody}]
      BY <1>2 DEF Release, DbTypes
    <2> QED
      BY <1>0, <1>2, <2>1, <2>2, SettleOutcome DEF Release, DbTypes, TenantInv
  <1>3. CASE CommitOk(r)
    <2>1. committed' \in SUBSET Writes
      BY <1>0, <1>3, TopCall DEF CommitOk, DbTypes
    <2>2. EndTransaction(Top(r).conn)
      BY <1>3 DEF CommitOk
    <2> QED
      BY <1>3, <2>1, <2>2, EndTypes DEF CommitOk, callVars, DbTypes, TenantInv
  <1>4. CASE CommitRefused(r)
    BY <1>4, EndTypes DEF CommitRefused, callVars, DbTypes, TenantInv
  <1>5. CASE CommitLost(r)
    BY <1>5 DEF CommitLost, callVars, dbVars, DbTypes, TenantInv
  <1>6. CASE CommitReplyLost(r)
    <2>1. committed' \in SUBSET Writes
      BY <1>0, <1>6, TopCall DEF CommitReplyLost, DbTypes
    <2>2. EndTransaction(Top(r).conn)
      BY <1>6 DEF CommitReplyLost
    <2>3. /\ holder' \in [Conns -> Owners \cup {Nobody}]
          /\ path' \in [Conns -> Paths]
      BY <1>6 DEF CommitReplyLost, DbTypes, Paths
    <2> QED
      BY <1>6, <2>1, <2>2, <2>3, EndTypes DEF CommitReplyLost, callVars, DbTypes, TenantInv
  <1>7. CASE Rollback(r)
    BY <1>7, EndTypes DEF Rollback, callVars, DbTypes, TenantInv
  <1> QED
    BY <1>1, <1>2, <1>3, <1>4, <1>5, <1>6, <1>7 DEF Finish

LEMMA DbTypesStep ==
  StackInv /\ DbTypes /\ TenantInv /\ [Next]_vars => DbTypes' /\ TenantInv'
  <1> SUFFICES ASSUME StackInv, DbTypes, TenantInv, [Next]_vars
               PROVE  DbTypes' /\ TenantInv'
    OBVIOUS
  <1>1. CASE UNCHANGED vars \/ Terminating
    BY <1>1 DEF Terminating, vars, txnVars, callVars, dbVars, DbTypes, TenantInv
  <1>2. ASSUME NEW r \in Callers, Step(r) PROVE DbTypes' /\ TenantInv'
    BY <1>2, SetupTypes, CallTypes, BodyTypes, FinishTypes DEF Step
  <1>3. ASSUME NEW c \in Conns, Drop(c) PROVE DbTypes' /\ TenantInv'
    BY <1>3, EndTypes DEF Drop, callVars, DbTypes, TenantInv, Paths
  <1> QED
    BY <1>1, <1>2, <1>3 DEF Next

\* The decorator, the pools and the sessions keep their types, whatever fails
\* and however deep decorated methods call each other.
THEOREM TransactionalTypeCorrect == Spec => []TransactionalTypeOK
  <1> DEFINE I == PoolInv /\ StackInv /\ DbTypes /\ TenantInv
  <1>1. Init => I
    BY PoolInvInit, StackInvInit, DbTypesInit DEF Init
  <1>2. I /\ [Next]_vars => I'
    BY PoolInvStep, ManagerStep, StackInvStep, DbTypesStep
  <1>3. I => TransactionalTypeOK
    BY DEF PoolInv, StackInv, StackTypes, DbTypes, TransactionalTypeOK
  <1> QED
    BY <1>1, <1>2, <1>3, PTL DEF Spec

-----------------------------------------------------------------------------
(* What a step does to the frames of the calls that stay pending.          *)

\* The frame at level d of r is still that of the same call, on the same
\* connection and in the same transaction.
Kept(r, d) ==
    /\ frame'[r][d].call = frame[r][d].call
    /\ frame'[r][d].conn = frame[r][d].conn
    /\ home'[r][frame[r][d].call] = home[r][frame[r][d].call]

\* Of all pending calls only the top one of r goes on.
TopOnly(r) ==
    /\ UNCHANGED <<depth, calls, home>>
    /\ frame'[r][depth[r]].call = Top(r).call
    /\ \A q \in Callers : \A d \in 1..depth[q] :
          q # r \/ d # depth[r] => frame'[q][d] = frame[q][d]

\* A body that waited goes on when the call above it settles.
LEMMA SettleFrames ==
  ASSUME StackInv, NEW r \in Callers, depth[r] > 0, NEW result, Settle(r, result)
  PROVE  /\ \A q \in Callers : depth'[q] \in Nat /\ depth'[q] <= depth[q]
         /\ depth'[r] = depth[r] - 1
         /\ \A q \in Callers : \A d \in 1..depth'[q] :
               /\ Kept(q, d)
               /\ \/ frame'[q][d].phase = frame[q][d].phase
                  \/ frame'[q][d].phase \in {"rollback", "failing"}
  <1>1. PICK p \in Resumed(r, result) : frame' = [frame EXCEPT ![r] = Popped(r, p)]
    BY DEF Settle
  <1>2. /\ depth' = [depth EXCEPT ![r] = depth[r] - 1] /\ home' = home
        /\ depth[r] \in 1..MaxDepth /\ depth \in [Callers -> Nat]
        /\ p \in Phases
    BY Bounds, ResumedPhases DEF Settle, StackInv, StackTypes, Phases
  <1>3. /\ depth'[r] = depth[r] - 1
        /\ \A q \in Callers : depth'[q] \in Nat /\ depth'[q] <= depth[q]
    BY <1>2
  <1>4. ASSUME NEW q \in Callers, NEW d \in 1..depth'[q]
        PROVE  /\ Kept(q, d)
               /\ \/ frame'[q][d].phase = frame[q][d].phase
                  \/ frame'[q][d].phase \in {"rollback", "failing"}
    <2>1. d \in Levels /\ d \in 1..depth[q] /\ frame[q][d] \in Frames /\ FrameOK(q, d)
      BY <1>2, <1>3, Bounds DEF StackInv, StackTypes
    <2>2. CASE q # r
      <3>1. frame'[q][d] = frame[q][d]
        BY <1>1, <2>2 DEF StackInv, StackTypes
      <3> QED
        BY <1>2, <3>1 DEF Kept
    <2>3. CASE q = r /\ d < depth[r] - 1
      <3>1. frame'[q][d] = frame[q][d]
        BY <1>1, <1>2, <2>1, <2>3 DEF Popped, StackInv, StackTypes
      <3> QED
        BY <1>2, <3>1 DEF Kept
    <2>4. CASE q = r /\ d = depth[r] - 1
      <3>1. frame'[r][d] = [frame[r][d] EXCEPT !.phase = p]
        BY <1>1, <1>2, <2>1, <2>4 DEF Popped, StackInv, StackTypes
      <3>2. frame[r][d].phase = "body"
        BY <1>2, <2>1, <2>4 DEF FrameOK
      <3>3. p \in {"body", "rollback", "failing"}
        BY <1>2, <2>1, <2>4 DEF Resumed, FailPhase
      <3> QED
        BY <1>2, <2>1, <2>4, <3>1, <3>2, <3>3, PhaseChange DEF Kept
    <2> QED
      BY <1>2, <1>3, <2>1, <2>2, <2>3, <2>4
  <1> QED
    BY <1>3, <1>4

LEMMA PushFrames ==
  ASSUME StackInv, NEW r \in Callers, MayCall(r), NEW f, Push(r, f),
         NEW h, home' = [home EXCEPT ![r][calls[r] + 1] = h]
  PROVE  /\ \A q \in Callers : \A d \in 1..depth[q] :
               Kept(q, d) /\ frame'[q][d].phase = frame[q][d].phase
         /\ \A q \in Callers : q # r => depth'[q] = depth[q]
         /\ depth'[r] = depth[r] + 1
         /\ frame'[r][depth[r] + 1] = f
         /\ home'[r][calls[r] + 1] = h
  <1>1. /\ depth[r] \in Nat /\ depth[r] + 1 \in Levels
        /\ calls[r] \in Nat /\ calls[r] + 1 \in CallNos
    BY MayCallBounds
  <1>2. /\ depth' = [depth EXCEPT ![r] = depth[r] + 1]
        /\ frame' = [frame EXCEPT ![r][depth[r] + 1] = f]
    BY DEF Push
  <1>3. /\ depth'[r] = depth[r] + 1
        /\ \A q \in Callers : q # r => depth'[q] = depth[q]
        /\ frame'[r][depth[r] + 1] = f
        /\ home'[r][calls[r] + 1] = h
    BY <1>1, <1>2 DEF StackInv, StackTypes
  <1>4. ASSUME NEW q \in Callers, NEW d \in 1..depth[q]
        PROVE  Kept(q, d) /\ frame'[q][d].phase = frame[q][d].phase
    <2>1. d \in Levels /\ (q = r => d # depth[r] + 1)
      <3>1. depth[q] \in 0..MaxDepth
        BY DEF StackInv, StackTypes
      <3> QED
        BY <1>1, <3>1, Bounds
    <2>2. frame'[q][d] = frame[q][d]
      BY <1>1, <1>2, <2>1 DEF StackInv, StackTypes
    <2>3. frame[q][d].call \in 1..calls[q]
      BY DEF StackInv, FrameOK
    <2>4. frame[q][d].call \in CallNos /\ (q = r => frame[q][d].call # calls[r] + 1)
      <3>1. calls[q] \in 0..MaxCalls
        BY DEF StackInv, StackTypes
      <3> QED
        BY <1>1, <2>3, <3>1, Bounds
    <2>5. home'[q][frame[q][d].call] = home[q][frame[q][d].call]
      BY <1>1, <2>4 DEF StackInv, StackTypes
    <2> QED
      BY <2>2, <2>5 DEF Kept
  <1> QED
    BY <1>3, <1>4

LEMMA TopMove ==
  ASSUME StackInv, NEW r \in Callers, depth[r] > 0, NEW g,
         frame' = [frame EXCEPT ![r][depth[r]] = g], g.call = Top(r).call,
         UNCHANGED <<depth, calls, home>>
  PROVE  TopOnly(r) /\ frame'[r][depth[r]] = g
  <1>1. depth[r] \in Levels /\ frame'[r][depth[r]] = g
    BY TopOK DEF StackInv, StackTypes
  <1>2. ASSUME NEW q \in Callers, NEW d \in 1..depth[q], q # r \/ d # depth[r]
        PROVE  frame'[q][d] = frame[q][d]
    BY <1>1, <1>2, Bounds DEF StackInv, StackTypes
  <1> QED
    BY <1>1, <1>2 DEF TopOnly

LEMMA GoToMove ==
  ASSUME StackInv, NEW r \in Callers, depth[r] > 0, NEW p \in Phases, GoTo(r, p),
         UNCHANGED <<depth, calls, home>>
  PROVE  /\ TopOnly(r)
         /\ frame'[r][depth[r]].phase = p
         /\ frame'[r][depth[r]].conn = Top(r).conn
  <1> DEFINE g == [Top(r) EXCEPT !.phase = p]
  <1>1. frame' = [frame EXCEPT ![r][depth[r]] = g]
    BY DEF GoTo, Top
  <1>2. Top(r) \in Frames
    BY TopOK
  <1>3. g.phase = p /\ g.call = Top(r).call /\ g.conn = Top(r).conn
    BY <1>2, PhaseChange
  <1> HIDE DEF g
  <1> QED
    BY <1>1, <1>3, TopMove

LEMMA ResolveMove ==
  ASSUME StackInv, NEW r \in Callers, Resolve(r)
  PROVE  /\ TopOnly(r)
         /\ frame'[r][depth[r]].phase = "connect"
         /\ frame'[r][depth[r]].conn = Top(r).conn
  <1> DEFINE g == [Top(r) EXCEPT !.phase = "connect", !.ds = lookup[r].ds]
  <1>1. /\ depth[r] > 0 /\ UNCHANGED <<depth, calls, home>>
        /\ frame' = [frame EXCEPT ![r][depth[r]] = g]
    BY DEF Resolve, At, Top, callVars
  <1>2. Top(r) \in Frames
    BY <1>1, TopOK
  <1>3. g.phase = "connect" /\ g.call = Top(r).call /\ g.conn = Top(r).conn
    BY <1>2 DEF Frames
  <1> HIDE DEF g
  <1> QED
    BY <1>1, <1>3, TopMove

LEMMA ConnectMove ==
  ASSUME StackInv, NEW r \in Callers, Connect(r)
  PROVE  \E c \in Conns :
           /\ holder[c] = Nobody
           /\ holder' = [holder EXCEPT ![c] = <<r, depth[r]>>]
           /\ TopOnly(r)
           /\ frame'[r][depth[r]].phase = "setPath"
           /\ frame'[r][depth[r]].conn = c
  <1>1. PICK c \in FreeConns(Top(r).ds) :
           /\ holder' = [holder EXCEPT ![c] = <<r, depth[r]>>]
           /\ frame' = [frame EXCEPT ![r][depth[r]].phase = "setPath",
                                     ![r][depth[r]].conn = c,
                                     ![r][depth[r]].ds = NoDataSource]
    BY DEF Connect
  <1> DEFINE g == [Top(r) EXCEPT !.phase = "setPath", !.conn = c, !.ds = NoDataSource]
  <1>2. depth[r] > 0 /\ Top(r).phase = "connect" /\ UNCHANGED <<depth, calls, home>>
    BY DEF Connect, At, callVars
  <1>3. /\ Top(r) \in Frames /\ Top(r).ds \in DataSources
        /\ frame \in [Callers -> [Levels -> Frames]] /\ depth[r] \in Levels
    BY <1>2, TopOK DEF FrameOK, Top, StackInv, StackTypes
  <1>4. c \in Conns /\ holder[c] = Nobody
    <2>1. PICK s \in Slots \ Taken(Top(r).ds) : c = <<Top(r).ds, s>>
      BY DEF FreeConns
    <2> QED
      BY <1>3, <2>1 DEF Conns, Taken
  <1>5. frame' = [frame EXCEPT ![r][depth[r]] = g]
    BY <1>1, <1>3, Zenon DEF Top
  <1>6. g.phase = "setPath" /\ g.call = Top(r).call /\ g.conn = c
    BY <1>3 DEF Frames
  <1> HIDE DEF g
  <1>7. TopOnly(r) /\ frame'[r][depth[r]] = g
    BY <1>2, <1>5, <1>6, TopMove
  <1> QED
    BY <1>1, <1>4, <1>6, <1>7

LEMMA ReplyLostMove ==
  ASSUME StackInv, NEW r \in Callers, CommitReplyLost(r)
  PROVE  /\ TopOnly(r)
         /\ frame'[r][depth[r]].phase = "rollback"
         /\ frame'[r][depth[r]].conn = NoConn
  <1> DEFINE g == [Top(r) EXCEPT !.phase = "rollback", !.conn = NoConn]
  <1>1. /\ depth[r] > 0 /\ UNCHANGED <<depth, calls, home>>
        /\ frame' = [frame EXCEPT ![r][depth[r]] = g]
    BY DEF CommitReplyLost, At, Top, callVars
  <1>2. Top(r) \in Frames
    BY <1>1, TopOK
  <1>3. g.phase = "rollback" /\ g.call = Top(r).call /\ g.conn = NoConn
    BY <1>2 DEF Frames
  <1> HIDE DEF g
  <1> QED
    BY <1>1, <1>3, TopMove

LEMMA RollbackMove ==
  ASSUME StackInv, NEW r \in Callers, Rollback(r)
  PROVE  /\ TopOnly(r)
         /\ frame'[r][depth[r]].phase = "release"
         /\ frame'[r][depth[r]].conn = Top(r).conn
  <1> DEFINE g == [Top(r) EXCEPT !.phase = "release", !.failed = TRUE]
  <1>1. /\ depth[r] > 0 /\ UNCHANGED <<depth, calls, home>>
        /\ frame' = [frame EXCEPT ![r][depth[r]] = g]
    BY DEF Rollback, At, Top, callVars
  <1>2. Top(r) \in Frames
    BY <1>1, TopOK
  <1>3. g.phase = "release" /\ g.call = Top(r).call /\ g.conn = Top(r).conn
    BY <1>2 DEF Frames
  <1> HIDE DEF g
  <1> QED
    BY <1>1, <1>3, TopMove

-----------------------------------------------------------------------------
(* A call that joined runs on the connection of the transaction it joined. *)

JoinedOK(r, d) ==
    LET f == frame[r][d]
    IN  f.conn # NoConn =>
            \E l \in 1..d : /\ frame[r][l].conn = f.conn
                            /\ OwnsAt(r, l)
                            /\ frame[r][l].call = home[r][f.call]

JoinedInv == \A r \in Callers : \A d \in 1..depth[r] : JoinedOK(r, d)

LEMMA KeptJoined ==
  ASSUME NEW r \in Callers, NEW d \in Nat \ {0}, JoinedOK(r, d),
         \A l \in 1..d : Kept(r, l)
  PROVE  JoinedOK(r, d)'
  BY DEF JoinedOK, OwnsAt, Kept

LEMMA SettleJoined ==
  ASSUME StackInv, JoinedInv, NEW r \in Callers, depth[r] > 0, NEW result,
         Settle(r, result)
  PROVE  JoinedInv'
  <1> SUFFICES ASSUME NEW q \in Callers, NEW d \in 1..depth'[q] PROVE JoinedOK(q, d)'
    BY DEF JoinedInv
  <1>1. d \in 1..depth[q] /\ \A l \in 1..d : Kept(q, l)
    <2>1. depth[q] \in Nat
      BY Bounds DEF StackInv, StackTypes
    <2>2. depth'[q] \in Nat /\ depth'[q] <= depth[q] /\ \A l \in 1..depth'[q] : Kept(q, l)
      BY SettleFrames
    <2> QED
      BY <2>1, <2>2
  <1> QED
    BY <1>1, KeptJoined DEF JoinedInv

LEMMA PushJoined ==
  ASSUME StackInv, JoinedInv, NEW r \in Callers, MayCall(r), NEW f, Push(r, f),
         f.call = calls[r] + 1,
         NEW h, home' = [home EXCEPT ![r][calls[r] + 1] = h],
         \/ f.conn = NoConn
         \/ depth[r] > 0 /\ f.conn = Top(r).conn /\ h = home[r][Top(r).call]
  PROVE  JoinedInv'
  <1> SUFFICES ASSUME NEW q \in Callers, NEW d \in 1..depth'[q] PROVE JoinedOK(q, d)'
    BY DEF JoinedInv
  <1>0. depth[r] \in Nat /\ depth[q] \in Nat
    BY Bounds DEF StackInv, StackTypes
  <1>a. /\ \A l \in 1..depth[q] : Kept(q, l)
        /\ \A l \in 1..depth[r] : Kept(r, l)
        /\ q # r => depth'[q] = depth[q]
        /\ depth'[r] = depth[r] + 1
        /\ frame'[r][depth[r] + 1] = f
        /\ home'[r][calls[r] + 1] = h
    BY PushFrames
  <1>1. CASE d \in 1..depth[q]
    <2>1. \A l \in 1..d : Kept(q, l)
      BY <1>0, <1>1, <1>a
    <2> QED
      BY <1>1, <2>1, KeptJoined DEF JoinedInv
  <1>2. CASE d \notin 1..depth[q]
    <2>1. q = r /\ d = depth[r] + 1
      BY <1>0, <1>2, <1>a
    <2>2. frame'[r][d] = f /\ home'[r][f.call] = h
      BY <2>1, <1>a
    <2>3. CASE f.conn = NoConn
      BY <2>1, <2>2, <2>3 DEF JoinedOK
    <2>4. CASE f.conn # NoConn
      <3>1. depth[r] > 0 /\ f.conn = Top(r).conn /\ h = home[r][Top(r).call]
        BY <2>4
      <3>2. JoinedOK(r, depth[r])
        BY <1>0, <3>1 DEF JoinedInv
      <3>3. PICK l \in 1..depth[r] : /\ frame[r][l].conn = f.conn
                                     /\ OwnsAt(r, l)
                                     /\ frame[r][l].call = h
        BY <2>4, <3>1, <3>2 DEF JoinedOK, Top
      <3>4. Kept(r, l)
        BY <1>a
      <3>5. l \in 1..d
        BY <1>0, <2>1
      <3>6. /\ frame'[r][l].conn = frame'[r][d].conn
            /\ frame'[r][l].call = home'[r][frame'[r][d].call]
            /\ OwnsAt(r, l)'
        BY <2>2, <3>3, <3>4 DEF Kept, OwnsAt
      <3> QED
        BY <2>1, <3>5, <3>6 DEF JoinedOK
    <2> QED
      BY <2>3, <2>4
  <1> QED
    BY <1>1, <1>2

LEMMA TopJoined ==
  ASSUME StackInv, JoinedInv, NEW r \in Callers, depth[r] > 0, TopOnly(r),
         \/ frame'[r][depth[r]].conn = Top(r).conn
         \/ frame'[r][depth[r]].conn = NoConn
         \/ Owns(r)
  PROVE  JoinedInv'
  <1> SUFFICES ASSUME NEW q \in Callers, NEW d \in 1..depth[q] PROVE JoinedOK(q, d)'
    BY DEF JoinedInv, TopOnly
  <1>0. depth[r] \in Nat \ {0} /\ depth[q] \in Nat
    BY Bounds DEF StackInv, StackTypes
  <1>1. \A l \in 1..depth[q] : q # r \/ l # depth[r] => Kept(q, l)
    BY DEF TopOnly, Kept
  <1>2. CASE q # r \/ d < depth[r]
    <2>1. \A l \in 1..d : Kept(q, l)
      BY <1>0, <1>1, <1>2
    <2> QED
      BY <2>1, KeptJoined DEF JoinedInv
  <1>3. CASE q = r /\ d = depth[r] /\ frame'[r][depth[r]].conn = Top(r).conn
    <2>1. \A l \in 1..d : Kept(q, l)
      BY <1>0, <1>1, <1>3 DEF TopOnly, Kept, Top
    <2> QED
      BY <2>1, KeptJoined DEF JoinedInv
  <1>4. CASE q = r /\ d = depth[r] /\ frame'[r][depth[r]].conn = NoConn
    BY <1>4 DEF JoinedOK
  <1>5. CASE q = r /\ d = depth[r] /\ Owns(r)
    <2>1. OwnsAt(r, d)' /\ frame'[r][d].call = home'[r][frame'[r][d].call]
      BY <1>5 DEF TopOnly, Owns, OwnsAt, Top
    <2> QED
      BY <1>0, <1>5, <2>1 DEF JoinedOK
  <1> QED
    BY <1>0, <1>2, <1>3, <1>4, <1>5

LEMMA DetachJoined ==
  ASSUME StackInv, JoinedInv, NEW c, Detach(c), UNCHANGED <<depth, calls, home>>
  PROVE  JoinedInv'
  <1> SUFFICES ASSUME NEW q \in Callers, NEW d \in 1..depth[q],
                      frame'[q][d].conn # NoConn
               PROVE  JoinedOK(q, d)'
    BY DEF JoinedInv, JoinedOK
  <1>0. \A l \in 1..depth[q] : l \in Levels /\ frame[q][l] \in Frames
    BY Bounds DEF StackInv, StackTypes
  <1>1. \A l \in 1..depth[q] :
           /\ frame'[q][l].call = frame[q][l].call
           /\ frame'[q][l].conn = IF frame[q][l].conn = c THEN NoConn ELSE frame[q][l].conn
    BY <1>0 DEF Detach, Frames
  <1>2. frame[q][d].conn # c /\ frame'[q][d].conn = frame[q][d].conn
    BY <1>1
  <1>3. PICK l \in 1..d : /\ frame[q][l].conn = frame[q][d].conn
                          /\ OwnsAt(q, l)
                          /\ frame[q][l].call = home[q][frame[q][d].call]
    BY <1>2 DEF JoinedInv, JoinedOK
  <1>4. l \in 1..depth[q]
    BY <1>3, Bounds DEF StackInv, StackTypes
  <1>5. /\ frame'[q][l].conn = frame'[q][d].conn
        /\ frame'[q][l].call = home'[q][frame'[q][d].call]
        /\ OwnsAt(q, l)'
    BY <1>1, <1>2, <1>3, <1>4 DEF OwnsAt
  <1> QED
    BY <1>3, <1>5 DEF JoinedOK

\* Steps that leave the stacks alone.
LEMMA SameJoined ==
  ASSUME JoinedInv, UNCHANGED <<depth, frame, home>> PROVE JoinedInv'
  BY DEF JoinedInv, JoinedOK, OwnsAt

LEMMA SetupJoined ==
  ASSUME StackInv, JoinedInv, NEW r \in Callers, Setup(r) PROVE JoinedInv'
  <1>1. CASE Lookup(r)
    BY <1>1, SameJoined DEF Lookup, txnVars, callVars
  <1>2. CASE Resolve(r)
    BY <1>2, ResolveMove, TopJoined DEF Resolve, At
  <1>3. CASE Connect(r)
    <2>1. depth[r] > 0 /\ Owns(r)
      BY <1>3, TopOK DEF Connect, At, OwnerPhases, Phases
    <2> QED
      BY <1>3, <2>1, ConnectMove, TopJoined
  <1>4. CASE Reject(r) \/ ConnectFail(r) \/ SetSearchPathFail(r) \/ StartTransactionFail(r)
    BY <1>4, SettleJoined
    DEF Reject, ConnectFail, SetSearchPathFail, StartTransactionFail, At
  <1>5. CASE SetSearchPath(r) \/ StartTransaction(r)
    BY <1>5, GoToMove, TopJoined
    DEF SetSearchPath, StartTransaction, At, callVars, Phases
  <1> QED
    BY <1>1, <1>2, <1>3, <1>4, <1>5 DEF Setup

LEMMA CallJoined ==
  ASSUME StackInv, JoinedInv, NEW r \in Callers, Call(r) PROVE JoinedInv'
  <1>1. CASE CallJoin(r)
    <2> DEFINE f == [NoFrame EXCEPT !.phase = "body", !.conn = ContextConn(r),
                                    !.call = calls[r] + 1]
               h == home[r][Top(r).call]
    <2>1. /\ MayCall(r) /\ depth[r] > 0 /\ Push(r, f)
          /\ home' = [home EXCEPT ![r][calls[r] + 1] = h]
      BY <1>1 DEF CallJoin
    <2>2. f.call = calls[r] + 1 /\ f.conn = Top(r).conn
      BY DEF NoFrame, ContextConn
    <2> HIDE DEF f
    <2> QED
      BY <2>1, <2>2, PushJoined
  <1>2. ASSUME NEW p \in Propagations, CallNew(r, p) PROVE JoinedInv'
    <2> DEFINE f == [NoFrame EXCEPT !.phase = "lookup", !.propagation = p,
                                    !.call = calls[r] + 1]
    <2>1. /\ MayCall(r) /\ Push(r, f)
          /\ home' = [home EXCEPT ![r][calls[r] + 1] = calls[r] + 1]
      BY <1>2 DEF CallNew
    <2>2. f.call = calls[r] + 1 /\ f.conn = NoConn
      BY DEF NoFrame
    <2> HIDE DEF f
    <2> QED
      BY <2>1, <2>2, PushJoined
  <1>3. CASE CallWithoutTenant(r)
    <2>1. /\ MayCall(r) /\ UNCHANGED <<depth, frame>>
          /\ home' = [home EXCEPT ![r][calls[r] + 1] = calls[r] + 1]
      BY <1>3 DEF CallWithoutTenant
    <2>2. ASSUME NEW q \in Callers, NEW d \in 1..depth[q] PROVE Kept(q, d)
      <3>1. /\ calls[r] \in Nat /\ calls[r] + 1 \in CallNos
            /\ calls[q] \in 0..MaxCalls /\ frame[q][d].call \in 1..calls[q]
        BY <2>1, MayCallBounds DEF StackInv, StackTypes, FrameOK
      <3>2. frame[q][d].call \in CallNos /\ (q = r => frame[q][d].call # calls[r] + 1)
        BY <3>1, Bounds
      <3>3. home'[q][frame[q][d].call] = home[q][frame[q][d].call]
        BY <2>1, <3>1, <3>2 DEF StackInv, StackTypes
      <3> QED
        BY <2>1, <3>3 DEF Kept
    <2>3. ASSUME NEW q \in Callers, NEW d \in 1..depth[q] PROVE JoinedOK(q, d)'
      <3>1. \A l \in 1..d : Kept(q, l)
        BY <2>2, Bounds DEF StackInv, StackTypes
      <3> QED
        BY <3>1, KeptJoined DEF JoinedInv
    <2> QED
      BY <2>1, <2>3 DEF JoinedInv
  <1> QED
    BY <1>1, <1>2, <1>3 DEF Call

LEMMA BodyJoined ==
  ASSUME StackInv, JoinedInv, NEW r \in Callers, Body(r) PROVE JoinedInv'
  <1>1. CASE SqlOk(r)
    BY <1>1, SameJoined DEF SqlOk
  <1>2. CASE SqlFail(r) \/ Throw(r) \/ ReturnOwner(r)
    <2>1. depth[r] > 0 /\ UNCHANGED <<depth, calls, home>>
      BY <1>2 DEF SqlFail, Throw, ReturnOwner, At, callVars
    <2>2. \E p \in {"body", "rollback", "failing", "commit"} : GoTo(r, p)
      BY <1>2 DEF SqlFail, Throw, ReturnOwner, FailPhase
    <2> QED
      BY <2>1, <2>2, GoToMove, TopJoined DEF Phases
  <1>3. CASE ReturnJoined(r)
    BY <1>3, SettleJoined DEF ReturnJoined, At
  <1> QED
    BY <1>1, <1>2, <1>3 DEF Body

LEMMA FinishJoined ==
  ASSUME StackInv, JoinedInv, NEW r \in Callers, Finish(r) PROVE JoinedInv'
  <1>1. CASE RejectJoined(r) \/ Release(r)
    BY <1>1, SettleJoined DEF RejectJoined, Release, At
  <1>2. CASE CommitOk(r) \/ CommitRefused(r) \/ CommitLost(r)
    <2>1. depth[r] > 0 /\ UNCHANGED <<depth, calls, home>>
      BY <1>2 DEF CommitOk, CommitRefused, CommitLost, At, callVars
    <2>2. \E p \in {"release", "rollback"} : GoTo(r, p)
      BY <1>2 DEF CommitOk, CommitRefused, CommitLost, OnCommitError
    <2> QED
      BY <2>1, <2>2, GoToMove, TopJoined DEF Phases
  <1>3. CASE CommitReplyLost(r)
    BY <1>3, ReplyLostMove, TopJoined DEF CommitReplyLost, At
  <1>4. CASE Rollback(r)
    BY <1>4, RollbackMove, TopJoined DEF Rollback, At
  <1> QED
    BY <1>1, <1>2, <1>3, <1>4 DEF Finish

LEMMA JoinedInvStep == StackInv /\ JoinedInv /\ [Next]_vars => JoinedInv'
  <1> SUFFICES ASSUME StackInv, JoinedInv, [Next]_vars PROVE JoinedInv'
    OBVIOUS
  <1>1. CASE UNCHANGED vars \/ Terminating
    BY <1>1, SameJoined DEF Terminating, vars, txnVars, callVars
  <1>2. ASSUME NEW r \in Callers, Step(r) PROVE JoinedInv'
    BY <1>2, SetupJoined, CallJoined, BodyJoined, FinishJoined DEF Step
  <1>3. ASSUME NEW c \in Conns, Drop(c) PROVE JoinedInv'
    BY <1>3, DetachJoined DEF Drop, callVars
  <1> QED
    BY <1>1, <1>2, <1>3 DEF Next

-----------------------------------------------------------------------------
(* The sessions of the transactions.                                       *)

\* The connection of a call with a transaction of its own is held by exactly
\* this call; its session is clean before BEGIN and after the end, and inside a
\* transaction from then on.
SessionOK(r, d) ==
    LET f == frame[r][d]
    IN  f.conn # NoConn /\ OwnsAt(r, d) =>
            /\ holder[f.conn] = <<r, d>>
            /\ f.phase \in {"setPath", "begin", "release"} =>
                  tx[f.conn] = "none" /\ pending[f.conn] = {}
            /\ f.phase \in {"body", "commit"} => tx[f.conn] # "none"

SessionInv ==
    /\ \A r \in Callers : \A d \in 1..depth[r] : SessionOK(r, d)
    /\ PoolIsClean

\* A session no step of another request or call has touched.
SameSession(c) ==
    holder'[c] = holder[c] /\ tx'[c] = tx[c] /\ pending'[c] = pending[c]

LEMMA FrameConn ==
  ASSUME StackInv, NEW r \in Callers, NEW d \in 1..depth[r]
  PROVE  /\ d \in Levels /\ frame[r][d] \in Frames /\ FrameOK(r, d)
         /\ frame[r][d].conn \in Conns \cup {NoConn}
         /\ <<r, d>> \in Owners /\ <<r, d>> # Nobody
         /\ d \in Nat \ {0} /\ d <= depth[r] /\ depth[r] \in Nat
  <1>1. depth[r] \in 0..MaxDepth
    BY DEF StackInv, StackTypes
  <1>2. d \in Levels /\ d \in Nat \ {0} /\ d <= depth[r] /\ depth[r] \in Nat
    BY <1>1, Bounds
  <1>3. frame[r][d] \in Frames /\ FrameOK(r, d)
    BY <1>2 DEF StackInv, StackTypes
  <1> QED
    BY <1>2, <1>3, NullAssumption DEF Frames, Owners

LEMMA KeptSession ==
  ASSUME NEW r \in Callers, NEW d \in Nat, SessionOK(r, d), Kept(r, d),
         frame[r][d].conn # NoConn => SameSession(frame[r][d].conn),
         \/ frame'[r][d].phase = frame[r][d].phase
         \/ frame'[r][d].phase \in {"rollback", "failing"}
  PROVE  SessionOK(r, d)'
  BY DEF SessionOK, Kept, OwnsAt, SameSession

\* Only the top call of r goes on, and of the sessions only that of c changes,
\* which r's top call or nobody holds.
LEMMA TopSession ==
  ASSUME StackInv, SessionInv, NEW r \in Callers, depth[r] > 0, TopOnly(r),
         NEW c, c \in Conns => holder[c] \in {Nobody, <<r, depth[r]>>},
         \A k \in Conns : k # c => SameSession(k),
         c \in Conns /\ holder'[c] = Nobody => tx'[c] = "none" /\ pending'[c] = {},
         SessionOK(r, depth[r])'
  PROVE  SessionInv'
  <1>1. ASSUME NEW q \in Callers, NEW d \in 1..depth[q], q # r \/ d # depth[r]
        PROVE  SessionOK(q, d)'
    <2>1. /\ frame[q][d].conn \in Conns \cup {NoConn}
          /\ <<q, d>> # Nobody /\ d \in Nat /\ SessionOK(q, d)
      BY FrameConn DEF SessionInv
    <2>2. Kept(q, d) /\ frame'[q][d].phase = frame[q][d].phase
      BY <1>1 DEF TopOnly, Kept
    <2>3. CASE frame[q][d].conn # NoConn /\ OwnsAt(q, d)
      <3>1. holder[frame[q][d].conn] = <<q, d>>
        BY <2>1, <2>3 DEF SessionOK
      <3>2. frame[q][d].conn # c
        <4> SUFFICES ASSUME frame[q][d].conn = c PROVE FALSE
          OBVIOUS
        <4>1. c \in Conns /\ holder[c] = <<q, d>>
          BY <2>1, <2>3, <3>1
        <4>2. <<q, d>> = <<r, depth[r]>>
          BY <2>1, <4>1
        <4> QED
          BY <1>1, <4>2
      <3> QED
        BY <2>1, <2>2, <2>3, <3>2, KeptSession
    <2>4. CASE frame[q][d].conn = NoConn \/ ~OwnsAt(q, d)
      BY <2>2, <2>4 DEF Kept, SessionOK, OwnsAt
    <2> QED
      BY <2>3, <2>4
  <1>2. PoolIsClean'
    BY DEF SessionInv, PoolIsClean, SameSession
  <1>3. depth' = depth
    BY DEF TopOnly
  <1> QED
    BY <1>1, <1>2, <1>3 DEF SessionInv

\* A statement on the connection of the top call, its own or joined.
LEMMA StatementSession ==
  ASSUME StackInv, JoinedInv, SessionInv, NEW r \in Callers, depth[r] > 0,
         TopOnly(r), Top(r).conn # NoConn, Top(r).phase = "body",
         frame'[r][depth[r]].conn = Top(r).conn,
         frame'[r][depth[r]].phase \in {"body", "rollback", "failing"},
         \A k \in Conns : k # Top(r).conn => SameSession(k),
         holder' = holder, tx'[Top(r).conn] # "none"
  PROVE  SessionInv'
  <1> DEFINE c == Top(r).conn
  <1>0. depth[r] \in 1..depth[r] /\ depth[r] \in Nat
    BY Bounds DEF StackInv, StackTypes
  <1>1. PICK l \in 1..depth[r] : frame[r][l].conn = c /\ OwnsAt(r, l)
    BY <1>0 DEF JoinedInv, JoinedOK, Top
  <1>2. holder[c] = <<r, l>> /\ holder[c] # Nobody
    <2>1. SessionOK(r, l) /\ <<r, l>> # Nobody
      BY FrameConn DEF SessionInv
    <2> QED
      BY <1>1, <2>1 DEF SessionOK
  <1>3. frame[r][l].phase = "body"
    <2>1. FrameOK(r, l) /\ l <= depth[r] /\ l \in Nat
      BY FrameConn
    <2> QED
      BY <1>0, <2>1 DEF FrameOK, Top
  <1>4. ASSUME NEW q \in Callers, NEW d \in 1..depth[q] PROVE SessionOK(q, d)'
    <2>1. /\ frame[q][d].conn \in Conns \cup {NoConn}
          /\ d \in Nat /\ SessionOK(q, d)
      BY FrameConn DEF SessionInv
    <2>2. /\ Kept(q, d)
          /\ \/ frame'[q][d].phase = frame[q][d].phase
             \/ /\ frame[q][d].phase = "body"
                /\ frame'[q][d].phase \in {"body", "rollback", "failing"}
      BY DEF TopOnly, Kept, Top
    <2>3. CASE frame[q][d].conn # NoConn /\ OwnsAt(q, d) /\ frame[q][d].conn = c
      <3>1. q = r /\ d = l
        BY <1>2, <2>1, <2>3 DEF SessionOK
      <3>2. frame'[q][d].phase \in {"body", "rollback", "failing"}
        BY <1>3, <2>2, <3>1
      <3>3. holder'[c] = <<q, d>>
        BY <1>2, <3>1
      <3> QED
        BY <2>2, <2>3, <3>2, <3>3 DEF SessionOK, Kept
    <2>4. CASE frame[q][d].conn # c
      BY <2>1, <2>2, <2>4, KeptSession
    <2>5. CASE frame[q][d].conn = NoConn \/ ~OwnsAt(q, d)
      BY <2>2, <2>5 DEF Kept, SessionOK, OwnsAt
    <2> QED
      BY <2>3, <2>4, <2>5
  <1>5. PoolIsClean'
    BY <1>2 DEF SessionInv, PoolIsClean, SameSession
  <1>6. depth' = depth
    BY DEF TopOnly
  <1> QED
    BY <1>4, <1>5, <1>6 DEF SessionInv

\* A call settles; at its release its connection goes back to the pool.
LEMMA SettleSession ==
  ASSUME StackInv, SessionInv, DbTypes, NEW r \in Callers, depth[r] > 0,
         NEW result, Settle(r, result), UNCHANGED <<tx, pending>>,
         \/ holder' = holder
         \/ /\ Top(r).phase = "release" /\ Top(r).conn # NoConn
            /\ holder' = [holder EXCEPT ![Top(r).conn] = Nobody]
  PROVE  SessionInv'
  <1>0. depth[r] \in 1..depth[r] /\ depth[r] \in Nat
    BY Bounds DEF StackInv, StackTypes
  <1>1. Top(r).phase = "release" /\ Top(r).conn # NoConn =>
          /\ Top(r).conn \in Conns
          /\ holder[Top(r).conn] = <<r, depth[r]>>
          /\ tx[Top(r).conn] = "none" /\ pending[Top(r).conn] = {}
    <2>1. Top(r).phase = "release" => Owns(r)
      BY TopOK DEF OwnerPhases, Phases
    <2> QED
      BY <1>0, <2>1, FrameConn DEF SessionInv, SessionOK, Owns, Top
  <1>2. ASSUME NEW q \in Callers, NEW d \in 1..depth'[q] PROVE SessionOK(q, d)'
    <2>1. depth[q] \in Nat
      BY Bounds DEF StackInv, StackTypes
    <2>2. /\ depth'[q] \in Nat /\ depth'[q] <= depth[q]
          /\ depth'[r] = depth[r] - 1
          /\ Kept(q, d)
          /\ \/ frame'[q][d].phase = frame[q][d].phase
             \/ frame'[q][d].phase \in {"rollback", "failing"}
      BY SettleFrames
    <2>3. d \in 1..depth[q] /\ d \in Nat /\ (q = r => d # depth[r])
      BY <1>0, <2>1, <2>2
    <2>4. /\ frame[q][d].conn \in Conns \cup {NoConn} /\ SessionOK(q, d)
          /\ <<q, d>> # Nobody
      BY <2>3, FrameConn DEF SessionInv
    <2>5. CASE frame[q][d].conn # NoConn /\ OwnsAt(q, d)
      <3>1. holder[frame[q][d].conn] = <<q, d>>
        BY <2>4, <2>5 DEF SessionOK
      <3>2. SameSession(frame[q][d].conn)
        BY <1>1, <2>3, <2>4, <2>5, <3>1 DEF SameSession, DbTypes
      <3> QED
        BY <2>2, <2>3, <2>4, <3>2, KeptSession
    <2>6. CASE frame[q][d].conn = NoConn \/ ~OwnsAt(q, d)
      BY <2>2, <2>6 DEF Kept, SessionOK, OwnsAt
    <2> QED
      BY <2>5, <2>6
  <1>3. PoolIsClean'
    BY <1>1 DEF SessionInv, PoolIsClean, DbTypes
  <1> QED
    BY <1>2, <1>3 DEF SessionInv

\* The top call's own connection, at the phases of an owner.
LEMMA TopHolds ==
  ASSUME StackInv, SessionInv, NEW r \in Callers, depth[r] > 0, Top(r).conn # NoConn,
         Top(r).phase \in OwnerPhases \/ Owns(r)
  PROVE  /\ Owns(r)
         /\ Top(r).conn \in Conns
         /\ holder[Top(r).conn] = <<r, depth[r]>>
         /\ Top(r).phase \in {"setPath", "begin", "release"} =>
               tx[Top(r).conn] = "none" /\ pending[Top(r).conn] = {}
         /\ Top(r).phase \in {"body", "commit"} => tx[Top(r).conn] # "none"
  <1>1. depth[r] \in 1..depth[r] /\ Owns(r)
    BY TopOK, Bounds DEF StackInv, StackTypes
  <1>2. SessionOK(r, depth[r]) /\ Top(r).conn \in Conns \cup {NoConn}
    BY <1>1, FrameConn DEF SessionInv, Top
  <1> QED
    BY <1>1, <1>2 DEF SessionOK, Owns, Top

\* What SessionOK asks of the top call after it has gone on.
LEMMA TopAfter ==
  ASSUME NEW r \in Callers, TopOnly(r),
         LET f == frame'[r][depth[r]]
         IN  f.conn # NoConn /\ Owns(r) =>
                /\ holder'[f.conn] = <<r, depth[r]>>
                /\ f.phase \in {"setPath", "begin", "release"} =>
                      tx'[f.conn] = "none" /\ pending'[f.conn] = {}
                /\ f.phase \in {"body", "commit"} => tx'[f.conn] # "none"
  PROVE  SessionOK(r, depth[r])'
  BY DEF TopOnly, SessionOK, OwnsAt, Owns, Top

\* The top call goes on and no session changes.
LEMMA QuietSession ==
  ASSUME StackInv, SessionInv, NEW r \in Callers, depth[r] > 0, TopOnly(r),
         frame'[r][depth[r]].conn = Top(r).conn,
         UNCHANGED <<holder, tx, pending>>,
         \/ frame'[r][depth[r]].phase \in {"connect", "rollback", "failing"}
         \/ frame'[r][depth[r]].phase = "begin" /\ Top(r).phase = "setPath"
         \/ frame'[r][depth[r]].phase \in {"body", "commit"} /\ Top(r).phase = "body"
  PROVE  SessionInv'
  <1>1. SessionOK(r, depth[r])'
    <2>1. CASE Top(r).conn # NoConn /\ Owns(r)
      <3>1. /\ holder[Top(r).conn] = <<r, depth[r]>>
            /\ Top(r).phase = "setPath" =>
                  tx[Top(r).conn] = "none" /\ pending[Top(r).conn] = {}
            /\ Top(r).phase = "body" => tx[Top(r).conn] # "none"
        BY <2>1, TopHolds
      <3> QED
        BY <3>1, TopAfter
    <2>2. CASE ~(Top(r).conn # NoConn /\ Owns(r))
      BY <2>2, TopAfter
    <2> QED
      BY <2>1, <2>2
  <1>2. NoConn \notin Conns /\ \A k \in Conns : SameSession(k)
    BY PoolAssumption DEF SameSession
  <1> QED
    BY <1>1, <1>2, TopSession

\* Nothing happens to the stacks and the sessions.
LEMMA SameSessions ==
  ASSUME SessionInv, UNCHANGED <<depth, frame, home, holder, tx, pending>>
  PROVE  SessionInv'
  BY DEF SessionInv, SessionOK, OwnsAt, PoolIsClean

LEMMA SetupSession ==
  ASSUME StackInv, DbTypes, SessionInv, NEW r \in Callers, Setup(r)
  PROVE  SessionInv'
  <1>1. CASE Lookup(r)
    BY <1>1, SameSessions DEF Lookup, txnVars, callVars, dbVars
  <1>2. CASE Resolve(r)
    BY <1>2, ResolveMove, QuietSession DEF Resolve, At, dbVars
  <1>3. CASE Reject(r) \/ ConnectFail(r) \/ SetSearchPathFail(r) \/ StartTransactionFail(r)
    <2>1. depth[r] > 0 /\ Settle(r, "error") /\ UNCHANGED dbVars
      BY <1>3 DEF Reject, ConnectFail, SetSearchPathFail, StartTransactionFail, At
    <2> QED
      BY <2>1, SettleSession DEF dbVars
  <1>4. CASE Connect(r)
    <2>1. depth[r] > 0 /\ UNCHANGED <<tx, pending>>
      BY <1>4 DEF Connect, At
    <2>2. PICK c \in Conns :
            /\ holder[c] = Nobody
            /\ holder' = [holder EXCEPT ![c] = <<r, depth[r]>>]
            /\ TopOnly(r)
            /\ frame'[r][depth[r]].phase = "setPath"
            /\ frame'[r][depth[r]].conn = c
      BY <1>4, ConnectMove
    <2>3. tx[c] = "none" /\ pending[c] = {}
      BY <2>2 DEF SessionInv, PoolIsClean
    <2>4. holder'[c] = <<r, depth[r]>> /\ <<r, depth[r]>> # Nobody
      BY <2>1, <2>2, TopCall, NullAssumption DEF DbTypes
    <2>5. SessionOK(r, depth[r])'
      BY <2>1, <2>2, <2>3, <2>4, TopAfter
    <2>6. \A k \in Conns : k # c => SameSession(k)
      BY <2>1, <2>2 DEF SameSession, DbTypes
    <2> QED
      BY <2>1, <2>2, <2>4, <2>5, <2>6, TopSession
  <1>5. CASE SetSearchPath(r)
    <2>1. /\ depth[r] > 0 /\ Top(r).phase = "setPath" /\ GoTo(r, "begin")
          /\ UNCHANGED <<depth, calls, home, holder, tx, pending>>
      BY <1>5 DEF SetSearchPath, At, callVars
    <2> QED
      BY <2>1, GoToMove, QuietSession DEF Phases
  <1>6. CASE StartTransaction(r)
    <2> DEFINE c == Top(r).conn
    <2>1. /\ depth[r] > 0 /\ Top(r).phase = "begin" /\ GoTo(r, "body")
          /\ c # NoConn /\ tx' = [tx EXCEPT ![c] = "active"]
          /\ UNCHANGED <<depth, calls, home, holder, pending>>
      BY <1>6 DEF StartTransaction, At, callVars
    <2>2. c \in Conns /\ holder[c] = <<r, depth[r]>>
      BY <2>1, TopHolds DEF OwnerPhases, Phases
    <2>3. TopOnly(r) /\ frame'[r][depth[r]].phase = "body" /\ frame'[r][depth[r]].conn = c
      BY <2>1, GoToMove DEF Phases
    <2>4. tx'[c] = "active" /\ \A k \in Conns : k # c => SameSession(k)
      BY <2>1, <2>2 DEF SameSession, DbTypes
    <2>5. SessionOK(r, depth[r])'
      BY <2>1, <2>2, <2>3, <2>4, TopAfter
    <2>6. holder'[c] # Nobody
      BY <2>1, <2>2, TopCall, NullAssumption
    <2> HIDE DEF c
    <2> QED
      BY <2>1, <2>2, <2>3, <2>4, <2>5, <2>6, TopSession
  <1> QED
    BY <1>1, <1>2, <1>3, <1>4, <1>5, <1>6 DEF Setup

\* A new frame has no connection of its own.
LEMMA CallSession ==
  ASSUME StackInv, SessionInv, NEW r \in Callers, Call(r) PROVE SessionInv'
  <1>0. MayCall(r) /\ UNCHANGED <<holder, tx, pending>>
    BY DEF Call, CallJoin, CallNew, CallWithoutTenant, dbVars
  <1>1. calls[r] \in Nat /\ calls[r] + 1 \in CallNos /\ depth[r] \in Nat
    BY <1>0, MayCallBounds
  <1>2. PoolIsClean'
    BY <1>0 DEF SessionInv, PoolIsClean
  <1>3. \A k : SameSession(k)
    BY <1>0 DEF SameSession
  <1>4. ASSUME NEW f, NEW h, Push(r, f),
               home' = [home EXCEPT ![r][calls[r] + 1] = h],
               f.call = calls[r] + 1, f.conn = NoConn \/ h # calls[r] + 1
        PROVE  SessionInv'
    <2>1. ASSUME NEW q \in Callers, NEW d \in 1..depth'[q] PROVE SessionOK(q, d)'
      <3>1. /\ \A l \in 1..depth[q] : Kept(q, l) /\ frame'[q][l].phase = frame[q][l].phase
            /\ q # r => depth'[q] = depth[q]
            /\ depth'[r] = depth[r] + 1
            /\ frame'[r][depth[r] + 1] = f
            /\ home'[r][calls[r] + 1] = h
        BY <1>0, <1>4, PushFrames
      <3>2. CASE d \in 1..depth[q]
        BY <1>3, <3>1, <3>2, FrameConn, KeptSession DEF SessionInv
      <3>3. CASE d \notin 1..depth[q]
        <4>1. q = r /\ d = depth[r] + 1
          BY <1>1, <3>1, <3>3
        <4> QED
          BY <1>1, <1>4, <3>1, <4>1 DEF SessionOK, OwnsAt
      <3> QED
        BY <3>2, <3>3
    <2> QED
      BY <1>2, <2>1 DEF SessionInv
  <1>5. CASE CallJoin(r)
    <2> DEFINE f == [NoFrame EXCEPT !.phase = "body", !.conn = ContextConn(r),
                                    !.call = calls[r] + 1]
               h == home[r][Top(r).call]
    <2>1. /\ depth[r] > 0 /\ Push(r, f)
          /\ home' = [home EXCEPT ![r][calls[r] + 1] = h]
      BY <1>5 DEF CallJoin
    <2>2. f.call = calls[r] + 1
      BY DEF NoFrame
    <2>3. Top(r).call \in 1..calls[r]
      BY <2>1, TopOK DEF FrameOK, Top
    <2>4. h # calls[r] + 1
      <3>1. h \in 1..Top(r).call
        BY <2>3 DEF StackInv
      <3>2. Top(r).call \in Nat /\ Top(r).call <= calls[r]
        BY <1>1, <2>3
      <3>3. \A n \in 1..Top(r).call : n # calls[r] + 1
        BY <1>1, <3>2
      <3> QED
        BY <3>1, <3>3
    <2> HIDE DEF f
    <2> QED
      BY <1>4, <2>1, <2>2, <2>4
  <1>6. ASSUME NEW p \in Propagations, CallNew(r, p) PROVE SessionInv'
    <2> DEFINE f == [NoFrame EXCEPT !.phase = "lookup", !.propagation = p,
                                    !.call = calls[r] + 1]
    <2>1. Push(r, f) /\ home' = [home EXCEPT ![r][calls[r] + 1] = calls[r] + 1]
      BY <1>6 DEF CallNew
    <2>2. f.call = calls[r] + 1 /\ f.conn = NoConn
      BY DEF NoFrame
    <2> HIDE DEF f
    <2> QED
      BY <1>4, <2>1, <2>2
  <1>7. CASE CallWithoutTenant(r)
    <2>1. /\ UNCHANGED <<depth, frame>>
          /\ home' = [home EXCEPT ![r][calls[r] + 1] = calls[r] + 1]
      BY <1>7 DEF CallWithoutTenant
    <2>2. ASSUME NEW q \in Callers, NEW d \in 1..depth[q] PROVE SessionOK(q, d)'
      <3>1. calls[q] \in 0..MaxCalls /\ frame[q][d].call \in 1..calls[q]
        BY DEF StackInv, StackTypes, FrameOK
      <3>2. frame[q][d].call \in CallNos /\ (q = r => frame[q][d].call # calls[r] + 1)
        BY <1>1, <3>1, Bounds
      <3>3. home'[q][frame[q][d].call] = home[q][frame[q][d].call]
        BY <1>1, <2>1, <3>2 DEF StackInv, StackTypes
      <3>4. Kept(q, d)
        BY <2>1, <3>3 DEF Kept
      <3> QED
        BY <1>3, <2>1, <3>4, FrameConn, KeptSession DEF SessionInv
    <2> QED
      BY <1>2, <2>1, <2>2 DEF SessionInv
  <1> QED
    BY <1>5, <1>6, <1>7 DEF Call

LEMMA BodySession ==
  ASSUME StackInv, DbTypes, JoinedInv, SessionInv, NEW r \in Callers, Body(r)
  PROVE  SessionInv'
  <1>1. CASE SqlOk(r)
    <2>1. /\ depth[r] > 0 /\ Top(r).phase = "body" /\ Top(r).conn # NoConn
          /\ tx[Top(r).conn] = "active"
          /\ pending' = [pending EXCEPT ![Top(r).conn] = @ \cup {<<r, Top(r).call>>}]
          /\ UNCHANGED <<depth, frame, calls, home, holder, tx>>
      BY <1>1 DEF SqlOk, At
    <2>2. \A k \in Conns : k # Top(r).conn => SameSession(k)
      BY <2>1 DEF SameSession, DbTypes
    <2>3. TopOnly(r)
      BY <2>1 DEF TopOnly, Top
    <2>4. frame'[r][depth[r]] = Top(r)
      BY <2>1 DEF Top
    <2> QED
      BY <2>1, <2>2, <2>3, <2>4, StatementSession
  <1>2. CASE SqlFail(r)
    <2>1. /\ depth[r] > 0 /\ Top(r).phase = "body"
          /\ UNCHANGED <<depth, calls, home, holder, pending>>
      BY <1>2 DEF SqlFail, At, callVars
    <2>2. PICK p \in {"body", "rollback", "failing"} : GoTo(r, p)
      BY <1>2 DEF SqlFail, FailPhase
    <2>3. /\ TopOnly(r)
          /\ frame'[r][depth[r]].phase = p
          /\ frame'[r][depth[r]].conn = Top(r).conn
      BY <2>1, <2>2, GoToMove DEF Phases
    <2>4. CASE Top(r).conn # NoConn /\ tx' = [tx EXCEPT ![Top(r).conn] = "aborted"]
      <3>1. Top(r).conn \in Conns
        BY <2>1, <2>4, TopCall
      <3>2. tx'[Top(r).conn] = "aborted" /\ \A k \in Conns : k # Top(r).conn => SameSession(k)
        BY <2>1, <2>4, <3>1 DEF SameSession, DbTypes
      <3> QED
        BY <2>1, <2>2, <2>3, <2>4, <3>2, StatementSession
    <2>5. CASE UNCHANGED tx
      BY <2>1, <2>2, <2>3, <2>5, QuietSession
    <2> QED
      BY <1>2, <2>4, <2>5 DEF SqlFail
  <1>3. CASE Throw(r) \/ ReturnOwner(r)
    <2>1. /\ depth[r] > 0 /\ Top(r).phase = "body"
          /\ UNCHANGED <<depth, calls, home, holder, tx, pending>>
      BY <1>3 DEF Throw, ReturnOwner, At, callVars, dbVars
    <2>2. PICK p \in {"rollback", "failing", "commit"} : GoTo(r, p)
      BY <1>3 DEF Throw, ReturnOwner, FailPhase
    <2> QED
      BY <2>1, <2>2, GoToMove, QuietSession DEF Phases
  <1>4. CASE ReturnJoined(r)
    BY <1>4, SettleSession DEF ReturnJoined, At, dbVars
  <1> QED
    BY <1>1, <1>2, <1>3, <1>4 DEF Body

\* The transaction of the top call ends, and maybe its session with it.
LEMMA EndSession ==
  ASSUME StackInv, DbTypes, SessionInv, NEW r \in Callers, depth[r] > 0,
         Top(r).phase \in OwnerPhases, Top(r).conn # NoConn,
         EndTransaction(Top(r).conn), TopOnly(r),
         frame'[r][depth[r]].phase \in {"release", "rollback"},
         \/ holder' = holder /\ frame'[r][depth[r]].conn = Top(r).conn
         \/ /\ holder' = [holder EXCEPT ![Top(r).conn] = Nobody]
            /\ frame'[r][depth[r]].conn = NoConn
  PROVE  SessionInv'
  <1> DEFINE c == Top(r).conn
  <1>1. c \in Conns /\ holder[c] = <<r, depth[r]>>
    BY TopHolds
  <1>2. /\ tx'[c] = "none" /\ pending'[c] = {}
        /\ \A k \in Conns : k # c => SameSession(k)
    BY <1>1 DEF EndTransaction, SameSession, DbTypes
  <1>3. SessionOK(r, depth[r])'
    BY <1>1, <1>2, TopAfter
  <1> QED
    BY <1>1, <1>2, <1>3, TopSession

LEMMA FinishSession ==
  ASSUME StackInv, DbTypes, SessionInv, NEW r \in Callers, Finish(r)
  PROVE  SessionInv'
  <1>1. CASE RejectJoined(r)
    BY <1>1, SettleSession DEF RejectJoined, At, dbVars
  <1>2. CASE Release(r)
    <2>1. /\ depth[r] > 0 /\ Top(r).phase = "release" /\ UNCHANGED <<tx, pending>>
          /\ holder' = IF Top(r).conn = NoConn THEN holder
                       ELSE [holder EXCEPT ![Top(r).conn] = Nobody]
          /\ Settle(r, IF Top(r).failed THEN "error" ELSE "ok")
      BY <1>2 DEF Release, GivenBack, At
    <2> QED
      BY <2>1, SettleSession
  <1>3. CASE CommitOk(r) \/ CommitRefused(r)
    <2>1. /\ depth[r] > 0 /\ Top(r).phase = "commit" /\ Top(r).conn # NoConn
          /\ EndTransaction(Top(r).conn)
          /\ UNCHANGED <<depth, calls, home, holder>>
      BY <1>3 DEF CommitOk, CommitRefused, At, callVars
    <2>2. PICK p \in {"release", "rollback"} : GoTo(r, p)
      BY <1>3 DEF CommitOk, CommitRefused, OnCommitError
    <2>3. /\ TopOnly(r)
          /\ frame'[r][depth[r]].phase = p
          /\ frame'[r][depth[r]].conn = Top(r).conn
      BY <2>1, <2>2, GoToMove DEF Phases
    <2> QED
      BY <2>1, <2>2, <2>3, EndSession DEF OwnerPhases, Phases
  <1>4. CASE CommitLost(r)
    <2>1. /\ depth[r] > 0 /\ GoTo(r, "rollback")
          /\ UNCHANGED <<depth, calls, home, holder, tx, pending>>
      BY <1>4 DEF CommitLost, OnCommitError, At, callVars, dbVars
    <2> QED
      BY <2>1, GoToMove, QuietSession DEF Phases
  <1>5. CASE CommitReplyLost(r)
    <2>1. /\ depth[r] > 0 /\ Top(r).phase = "commit" /\ Top(r).conn # NoConn
          /\ EndTransaction(Top(r).conn)
          /\ holder' = [holder EXCEPT ![Top(r).conn] = Nobody]
      BY <1>5 DEF CommitReplyLost, At
    <2>2. /\ TopOnly(r)
          /\ frame'[r][depth[r]].phase = "rollback"
          /\ frame'[r][depth[r]].conn = NoConn
      BY <1>5, ReplyLostMove
    <2> QED
      BY <2>1, <2>2, EndSession DEF OwnerPhases, Phases
  <1>6. CASE Rollback(r)
    <2>1. /\ depth[r] > 0 /\ Top(r).phase = "rollback" /\ holder' = holder
          /\ IF Top(r).conn = NoConn THEN UNCHANGED <<tx, pending>>
             ELSE EndTransaction(Top(r).conn)
      BY <1>6 DEF Rollback, RolledBack, At
    <2>2. /\ TopOnly(r)
          /\ frame'[r][depth[r]].phase = "release"
          /\ frame'[r][depth[r]].conn = Top(r).conn
      BY <1>6, RollbackMove
    <2>3. CASE Top(r).conn = NoConn
      <3>1. SessionOK(r, depth[r])'
        BY <2>2, <2>3, TopAfter
      <3>2. NoConn \notin Conns /\ \A k \in Conns : SameSession(k)
        BY <2>1, <2>3, PoolAssumption DEF SameSession
      <3> QED
        BY <2>1, <2>2, <3>1, <3>2, TopSession
    <2>4. CASE Top(r).conn # NoConn
      BY <2>1, <2>2, <2>4, EndSession DEF OwnerPhases, Phases
    <2> QED
      BY <2>3, <2>4
  <1> QED
    BY <1>1, <1>2, <1>3, <1>4, <1>5, <1>6 DEF Finish

LEMMA DropSession ==
  ASSUME StackInv, DbTypes, SessionInv, NEW c \in Conns, Drop(c) PROVE SessionInv'
  <1>1. /\ EndTransaction(c) /\ Detach(c)
        /\ holder' = [holder EXCEPT ![c] = Nobody]
        /\ UNCHANGED <<depth, calls, home>>
    BY DEF Drop, callVars
  <1>2. /\ tx'[c] = "none" /\ pending'[c] = {}
        /\ \A k \in Conns : k # c => SameSession(k)
    BY <1>1 DEF EndTransaction, SameSession, DbTypes
  <1>3. ASSUME NEW q \in Callers, NEW d \in 1..depth[q] PROVE SessionOK(q, d)'
    <2>1. /\ frame[q][d] \in Frames /\ d \in Levels /\ d \in Nat
          /\ frame[q][d].conn \in Conns \cup {NoConn} /\ SessionOK(q, d)
      BY FrameConn DEF SessionInv
    <2>2. CASE frame[q][d].conn = c
      <3>1. frame'[q][d].conn = NoConn
        BY <1>1, <2>1, <2>2 DEF Detach, Frames
      <3> QED
        BY <3>1 DEF SessionOK
    <2>3. CASE frame[q][d].conn # c
      <3>1. frame'[q][d] = frame[q][d]
        BY <1>1, <2>1, <2>3 DEF Detach
      <3>2. Kept(q, d)
        BY <1>1, <3>1 DEF Kept
      <3> QED
        BY <1>2, <2>1, <2>3, <3>1, <3>2, KeptSession
    <2> QED
      BY <2>2, <2>3
  <1>4. PoolIsClean'
    BY <1>2 DEF SessionInv, PoolIsClean, SameSession
  <1> QED
    BY <1>1, <1>3, <1>4 DEF SessionInv

LEMMA SessionInvStep ==
  StackInv /\ DbTypes /\ JoinedInv /\ SessionInv /\ [Next]_vars => SessionInv'
  <1> SUFFICES ASSUME StackInv, DbTypes, JoinedInv, SessionInv, [Next]_vars
               PROVE  SessionInv'
    OBVIOUS
  <1>1. CASE UNCHANGED vars \/ Terminating
    BY <1>1, SameSessions DEF Terminating, vars, txnVars, callVars, dbVars
  <1>2. ASSUME NEW r \in Callers, Step(r) PROVE SessionInv'
    BY <1>2, SetupSession, CallSession, BodySession, FinishSession DEF Step
  <1>3. ASSUME NEW c \in Conns, Drop(c) PROVE SessionInv'
    BY <1>3, DropSession
  <1> QED
    BY <1>1, <1>2, <1>3 DEF Next

-----------------------------------------------------------------------------
(* The theorems.                                                           *)

ConnectionInv ==
    PoolInv /\ StackInv /\ DbTypes /\ TenantInv /\ JoinedInv /\ SessionInv

LEMMA ConnectionInvariant == Spec => []ConnectionInv
  <1>1. Init => ConnectionInv
    <2> SUFFICES ASSUME Init PROVE ConnectionInv
      OBVIOUS
    <2>1. \A r \in Callers : depth[r] = 0
      BY DEF Init, PoolInit
    <2>2. JoinedInv /\ SessionInv
      BY <2>1 DEF Init, PoolInit, JoinedInv, SessionInv, PoolIsClean
    <2> QED
      BY <2>2, PoolInvInit, StackInvInit, DbTypesInit DEF Init, ConnectionInv
  <1>2. ConnectionInv /\ [Next]_vars => ConnectionInv'
    BY PoolInvStep, ManagerStep, StackInvStep, DbTypesStep, JoinedInvStep, SessionInvStep
    DEF ConnectionInv
  <1> QED
    BY <1>1, <1>2, PTL DEF Spec

\* No two transactions ever share a connection: not those of two requests, nor
\* an outer transaction and the REQUIRES_NEW call that suspends it, whatever
\* connections are lost on the way (setupQueryRunner, release).
THEOREM ConnectionsAreExclusive == Spec => []ExclusiveConnections
  <1>1. ConnectionInv => ExclusiveConnections
    <2> SUFFICES ASSUME ConnectionInv,
                        NEW q1 \in Callers, NEW q2 \in Callers,
                        NEW l1 \in Levels, NEW l2 \in Levels,
                        OwnerFrame(q1, l1), OwnerFrame(q2, l2),
                        frame[q1][l1].conn # NoConn,
                        frame[q1][l1].conn = frame[q2][l2].conn
                 PROVE  q1 = q2 /\ l1 = l2
      BY DEF ExclusiveConnections
    <2>1. l1 \in 1..depth[q1] /\ l2 \in 1..depth[q2]
      BY Bounds DEF ConnectionInv, StackInv, StackTypes, OwnerFrame, Pending
    <2>2. holder[frame[q1][l1].conn] = <<q1, l1>> /\ holder[frame[q2][l2].conn] = <<q2, l2>>
      BY <2>1 DEF ConnectionInv, SessionInv, SessionOK, OwnerFrame
    <2>3. <<q1, l1>> = <<q2, l2>>
      BY <2>2
    <2> QED
      BY <2>3
  <1> QED
    BY <1>1, ConnectionInvariant, PTL

\* Whatever fails, a connection in its pool carries no transaction and no write
\* of a request that is over.
THEOREM PooledSessionsAreClean == Spec => []PoolIsClean
  <1>1. ConnectionInv => PoolIsClean
    BY DEF ConnectionInv, SessionInv
  <1> QED
    BY <1>1, ConnectionInvariant, PTL

\* TransactionContext never hands a method the entity manager of a connection
\* that was released, that another call uses or that has no transaction open.
THEOREM ContextStaysLive == Spec => []ContextIsLive
  <1>1. ConnectionInv => ContextIsLive
    <2> SUFFICES ASSUME ConnectionInv, NEW r \in Callers, NEW d \in Levels,
                        Pending(r, d), frame[r][d].phase = "body",
                        frame[r][d].conn # NoConn
                 PROVE  /\ tx[frame[r][d].conn] # "none"
                        /\ \E l \in 1..d :
                              /\ holder[frame[r][d].conn] = <<r, l>>
                              /\ frame[r][l].call = home[r][frame[r][d].call]
      BY DEF ContextIsLive
    <2>1. d \in 1..depth[r]
      BY Bounds DEF ConnectionInv, StackInv, StackTypes, Pending
    <2>2. PICK l \in 1..d : /\ frame[r][l].conn = frame[r][d].conn
                            /\ OwnsAt(r, l)
                            /\ frame[r][l].call = home[r][frame[r][d].call]
      BY <2>1 DEF ConnectionInv, JoinedInv, JoinedOK
    <2>3. l \in 1..depth[r] /\ (l < d => l < depth[r]) /\ (l < d \/ l = d)
      <3>1. d \in Nat /\ d <= depth[r] /\ depth[r] \in Nat
        BY <2>1, FrameConn DEF ConnectionInv
      <3> QED
        BY <2>2, <3>1
    <2>4. frame[r][l].phase = "body"
      BY <2>3, FrameConn DEF ConnectionInv, FrameOK
    <2>5. SessionOK(r, l)
      BY <2>3 DEF ConnectionInv, SessionInv
    <2> QED
      BY <2>2, <2>4, <2>5 DEF SessionOK
  <1> QED
    BY <1>1, ConnectionInvariant, PTL
=============================================================================

---------------------- MODULE TransactionIsolationProofs ----------------------
(***************************************************************************)
(* Proofs that the statements of Transactional reach their own tenant,     *)
(* that connections come back unless the set-up fails, and that suspended  *)
(* transactions are left alone.                                            *)
(***************************************************************************)
EXTENDS TransactionSessionProofs

-----------------------------------------------------------------------------
(* The way from the tenant of a request to its sessions.                   *)

\* A call waits for the pool of its tenant, has it, and has a connection of it,
\* whose search_path is the tenant's once it has been set.
RouteOK(r, d) ==
    LET f == frame[r][d]
    IN  /\ f.phase = "lookup" =>
              f.conn = NoConn /\ lookup[r].key = keyFrom(TenantOf[r])
        /\ f.phase = "connect" =>
              /\ f.conn = NoConn
              /\ pool[f.ds] = "open"
              /\ entry[f.ds] = buildKey(TenantOf[r])
        /\ f.conn # NoConn =>
              /\ pool[f.conn[1]] = "open"
              /\ entry[f.conn[1]] = buildKey(TenantOf[r])
              /\ f.phase # "setPath" => path[f.conn] = SearchPath(r)

RouteInv == \A r \in Callers : \A d \in 1..depth[r] : RouteOK(r, d)

\* Whoever runs on the connection that the top call of r holds is that call.
LEMMA OnlyTop ==
  ASSUME StackInv, JoinedInv, SessionInv, NEW r \in Callers,
         NEW q \in Callers, NEW d \in 1..depth[q],
         frame[q][d].conn # NoConn, holder[frame[q][d].conn] = <<r, depth[r]>>
  PROVE  q = r /\ d = depth[r]
  <1>1. PICK l \in 1..d : frame[q][l].conn = frame[q][d].conn /\ OwnsAt(q, l)
    BY DEF JoinedInv, JoinedOK
  <1>2. d \in Nat /\ d <= depth[q] /\ depth[q] \in Nat
    BY FrameConn
  <1>3. l \in 1..depth[q] /\ l <= d /\ l \in Nat
    BY <1>1, <1>2
  <1>4. holder[frame[q][d].conn] = <<q, l>>
    BY <1>1, <1>3 DEF SessionInv, SessionOK
  <1>5. q = r /\ l = depth[r]
    BY <1>4
  <1> QED
    BY <1>2, <1>3, <1>5

\* A call whose frame goes on no further than its transaction keeps its way.
LEMMA KeptRoute ==
  ASSUME StackInv, PoolInv, [ManagerNext]_managerVars,
         NEW r \in Callers, NEW d \in 1..depth[r], RouteOK(r, d),
         frame'[r][d].conn = frame[r][d].conn,
         \/ /\ frame'[r][d].phase = frame[r][d].phase
            /\ frame'[r][d].ds = frame[r][d].ds
         \/ /\ frame[r][d].phase # "setPath"
            /\ frame'[r][d].phase \notin {"lookup", "connect", "setPath"},
         frame'[r][d].phase = "lookup" => lookup'[r].key = lookup[r].key,
         frame[r][d].conn # NoConn => path'[frame[r][d].conn] = path[frame[r][d].conn]
  PROVE  RouteOK(r, d)'
  <1>1. /\ frame[r][d].conn \in Conns \cup {NoConn}
        /\ frame[r][d].phase = "connect" => frame[r][d].ds \in DataSources
    BY FrameConn DEF FrameOK
  <1>2. \A k \in Conns : k[1] \in DataSources
    BY DEF Conns
  <1>3. \A p \in DataSources :
           pool[p] = "open" => pool'[p] = "open" /\ entry'[p] = entry[p]
    BY PoolsStay
  <1>4. SearchPath(r)' = SearchPath(r)
    BY DEF SearchPath, SearchPathOf
  <1>5. frame'[r][d].conn # NoConn =>
          /\ pool'[frame'[r][d].conn[1]] = "open"
          /\ entry'[frame'[r][d].conn[1]] = buildKey(TenantOf[r])
          /\ frame'[r][d].phase # "setPath" => path'[frame'[r][d].conn] = SearchPath(r)
    BY <1>1, <1>2, <1>3 DEF RouteOK
  <1>6. frame'[r][d].phase = "connect" =>
          /\ frame'[r][d].conn = NoConn
          /\ pool'[frame'[r][d].ds] = "open"
          /\ entry'[frame'[r][d].ds] = buildKey(TenantOf[r])
    BY <1>1, <1>3 DEF RouteOK
  <1> QED
    BY <1>4, <1>5, <1>6 DEF RouteOK

\* The top call of r goes on, and no search_path changes but on its connection.
LEMMA TopRoute ==
  ASSUME StackInv, PoolInv, JoinedInv, SessionInv, RouteInv, [Next]_vars,
         NEW r \in Callers, depth[r] > 0, TopOnly(r),
         \A q \in Callers \ {r} : lookup'[q].key = lookup[q].key,
         \A k \in Conns : path'[k] # path[k] => holder[k] = <<r, depth[r]>>,
         RouteOK(r, depth[r])'
  PROVE  RouteInv'
  <1> SUFFICES ASSUME NEW q \in Callers, NEW d \in 1..depth[q], q # r \/ d # depth[r]
               PROVE  RouteOK(q, d)'
    BY DEF RouteInv, TopOnly
  <1>1. frame'[q][d] = frame[q][d]
    BY DEF TopOnly
  <1>2. /\ FrameOK(q, d) /\ frame[q][d].conn \in Conns \cup {NoConn}
        /\ d \in Nat /\ d <= depth[q] /\ depth[q] \in Nat
    BY FrameConn
  <1>3. frame'[q][d].phase = "lookup" => lookup'[q].key = lookup[q].key
    <2>1. CASE q = r
      BY <1>1, <1>2, <2>1 DEF FrameOK
    <2> QED
      BY <2>1
  <1>4. frame[q][d].conn # NoConn => path'[frame[q][d].conn] = path[frame[q][d].conn]
    BY <1>2, OnlyTop
  <1> QED
    BY <1>1, <1>3, <1>4, ManagerStep, KeptRoute DEF RouteInv

\* The top call settles.
LEMMA SettleRoute ==
  ASSUME StackInv, PoolInv, RouteInv, [Next]_vars,
         NEW r \in Callers, depth[r] > 0, NEW result, Settle(r, result),
         \A q \in Callers \ {r} : lookup'[q].key = lookup[q].key,
         path' = path
  PROVE  RouteInv'
  <1> SUFFICES ASSUME NEW q \in Callers, NEW d \in 1..depth'[q] PROVE RouteOK(q, d)'
    BY DEF RouteInv
  <1>1. /\ depth'[q] \in Nat /\ depth'[q] <= depth[q] /\ depth'[r] = depth[r] - 1
        /\ Kept(q, d)
        /\ \/ frame'[q][d].phase = frame[q][d].phase
           \/ frame'[q][d].phase \in {"rollback", "failing"}
    BY SettleFrames
  <1>2. depth[q] \in Nat /\ depth[r] \in Nat
    BY Bounds DEF StackInv, StackTypes
  <1>3. d \in 1..depth[q] /\ (q = r => d < depth[r])
    BY <1>1, <1>2
  <1>4. FrameOK(q, d) /\ RouteOK(q, d)
    BY <1>3, FrameConn DEF RouteInv
  <1>5. CASE q = r
    <2>1. frame[q][d].phase = "body"
      BY <1>3, <1>4, <1>5 DEF FrameOK
    <2> QED
      BY <1>1, <1>3, <1>4, <2>1, ManagerStep, KeptRoute DEF Kept
  <1>6. CASE q # r
    <2>1. frame'[q] = frame[q]
      BY <1>6 DEF Settle, StackInv, StackTypes
    <2> QED
      BY <1>3, <1>4, <1>6, <2>1, ManagerStep, KeptRoute
  <1> QED
    BY <1>5, <1>6

\* Nothing of the stacks changes.
LEMMA QuietRoute ==
  ASSUME StackInv, PoolInv, RouteInv, [Next]_vars, UNCHANGED <<depth, frame, path>>,
         \A q \in Callers : lookup'[q].key = lookup[q].key
  PROVE  RouteInv'
  BY ManagerStep, KeptRoute DEF RouteInv

\* A body that runs on the connection of another one goes the same way.
LEMMA SameWay ==
  ASSUME NEW r, NEW d, NEW e, RouteOK(r, d)',
         frame'[r][d].phase = "body", frame'[r][e].phase = "body",
         frame'[r][e].conn = frame'[r][d].conn
  PROVE  RouteOK(r, e)'
  BY DEF RouteOK

\* A call begins: it waits for its tenant's pool, or shares a connection.
LEMMA PushRoute ==
  ASSUME StackInv, PoolInv, RouteInv, [Next]_vars,
         NEW r \in Callers, MayCall(r), NEW f, Push(r, f),
         NEW h, home' = [home EXCEPT ![r][calls[r] + 1] = h],
         \A q \in Callers \ {r} : lookup'[q].key = lookup[q].key,
         path' = path,
         \/ f.phase = "lookup" /\ f.conn = NoConn /\ lookup'[r].key = keyFrom(TenantOf[r])
         \/ f.phase = "body" /\ depth[r] > 0 /\ f.conn = Top(r).conn
  PROVE  RouteInv'
  <1> SUFFICES ASSUME NEW q \in Callers, NEW d \in 1..depth'[q] PROVE RouteOK(q, d)'
    BY DEF RouteInv
  <1>0. depth[q] \in Nat /\ depth[r] \in Nat
    BY Bounds DEF StackInv, StackTypes
  <1>1. /\ \A l \in 1..depth[q] : Kept(q, l) /\ frame'[q][l].phase = frame[q][l].phase
        /\ q # r => depth'[q] = depth[q]
        /\ depth'[r] = depth[r] + 1
        /\ frame'[r][depth[r] + 1] = f
    BY PushFrames
  <1>2. \A l \in 1..depth[r] : frame[r][l].phase = "body"
    <2> SUFFICES ASSUME NEW l \in 1..depth[r] PROVE frame[r][l].phase = "body"
      OBVIOUS
    <2>1. FrameOK(r, l) /\ l <= depth[r] /\ l \in Nat
      BY FrameConn
    <2>2. l < depth[r] \/ l = depth[r]
      BY <1>0, <2>1
    <2> QED
      BY <1>0, <2>1, <2>2 DEF FrameOK, MayCall, At, Top
  <1>3. CASE q # r
    <2>1. frame'[q] = frame[q] /\ d \in 1..depth[q]
      BY <1>1, <1>3 DEF Push, StackInv, StackTypes
    <2> QED
      BY <1>3, <2>1, ManagerStep, KeptRoute DEF RouteInv
  <1>4. CASE q = r /\ d \in 1..depth[r]
    BY <1>1, <1>2, <1>4, ManagerStep, KeptRoute DEF RouteInv, Kept
  <1>5. CASE q = r /\ d \notin 1..depth[r]
    <2>1. d = depth[r] + 1 /\ frame'[r][d] = f
      BY <1>0, <1>1, <1>5
    <2>2. CASE f.phase = "lookup"
      <3>1. keyFrom(TenantOf[r])' = keyFrom(TenantOf[r])
        BY DEF keyFrom
      <3> QED
        BY <1>5, <2>1, <2>2, <3>1 DEF RouteOK
    <2>3. CASE f.phase = "body"
      <3>1. depth[r] \in 1..depth[r] /\ f.conn = frame[r][depth[r]].conn
        BY <1>0, <2>3 DEF Top
      <3>2. PICK e \in 1..depth[r] : e = depth[r]
        BY <3>1
      <3>3. /\ Kept(r, e) /\ RouteOK(r, e)
            /\ frame'[r][e].phase = "body" /\ frame[r][e].phase = "body"
        BY <1>1, <1>2, <1>5 DEF RouteInv
      <3>4. RouteOK(r, e)'
        BY <3>3, ManagerStep, KeptRoute DEF Kept
      <3>5. frame'[r][e].conn = frame'[r][d].conn /\ frame'[r][d].phase = "body"
        BY <2>1, <2>3, <3>1, <3>2, <3>3 DEF Kept
      <3>6. RouteOK(r, d)'
        BY <3>3, <3>4, <3>5, SameWay
      <3> QED
        BY <1>5, <3>6
    <2> QED
      BY <2>2, <2>3
  <1> QED
    BY <1>3, <1>4, <1>5

\* The top call goes on after its set-up; if its session ends, so does its hold.
LEMMA GoOnRoute ==
  ASSUME StackInv, PoolInv, JoinedInv, SessionInv, RouteInv, [Next]_vars,
         NEW r \in Callers, depth[r] > 0, TopOnly(r), lookup' = lookup,
         Top(r).phase # "setPath",
         frame'[r][depth[r]].phase \notin {"lookup", "connect", "setPath"},
         \/ path' = path /\ frame'[r][depth[r]].conn = Top(r).conn
         \/ /\ Top(r).phase \in OwnerPhases /\ Top(r).conn # NoConn
            /\ path' = [path EXCEPT ![Top(r).conn] = NoPath]
            /\ frame'[r][depth[r]].conn = NoConn
  PROVE  RouteInv'
  <1>1. depth[r] \in 1..depth[r] /\ depth' = depth
    BY Bounds DEF StackInv, StackTypes, TopOnly
  <1>2. RouteOK(r, depth[r]) /\ Top(r) = frame[r][depth[r]]
    BY <1>1 DEF RouteInv, Top
  <1>3. CASE path' = path /\ frame'[r][depth[r]].conn = Top(r).conn
    <2>1. PICK d \in 1..depth[r] : d = depth[r]
      BY <1>1
    <2>2. RouteOK(r, d)'
      BY <1>2, <1>3, <2>1, ManagerStep, KeptRoute
    <2>3. RouteOK(r, depth[r])'
      BY <1>1, <2>1, <2>2
    <2> QED
      BY <1>3, <2>3, TopRoute
  <1>4. CASE /\ Top(r).phase \in OwnerPhases /\ Top(r).conn # NoConn
             /\ path' = [path EXCEPT ![Top(r).conn] = NoPath]
             /\ frame'[r][depth[r]].conn = NoConn
    <2>1. holder[Top(r).conn] = <<r, depth[r]>>
      BY <1>4, TopHolds
    <2>2. \A k \in Conns : path'[k] # path[k] => holder[k] = <<r, depth[r]>>
      BY <1>4, <2>1
    <2>3. RouteOK(r, depth[r])'
      BY <1>1, <1>4 DEF RouteOK
    <2> QED
      BY <2>2, <2>3, TopRoute
  <1> QED
    BY <1>3, <1>4

LEMMA SetupRoute ==
  ASSUME StackInv, DbTypes, TenantInv, PoolInv, JoinedInv, SessionInv, RouteInv,
         [Next]_vars, NEW r \in Callers, Setup(r)
  PROVE  RouteInv'
  <1>0. TypeOK
    BY DEF PoolInv
  <1>1. CASE Lookup(r)
    BY <1>0, <1>1, LookupSteps, QuietRoute DEF Lookup, txnVars, callVars, dbVars
  <1>2. CASE Resolve(r)
    <2>1. /\ depth[r] > 0 /\ Top(r).phase = "lookup" /\ lookup[r].phase = "resolved"
          /\ Receive(r) /\ UNCHANGED <<depth, path>>
      BY <1>2 DEF Resolve, At, callVars, dbVars
    <2>2. depth[r] \in 1..depth[r] /\ depth[r] \in Levels
      BY <2>1, Bounds DEF StackInv, StackTypes
    <2>3. /\ TopOnly(r)
          /\ frame'[r][depth[r]].phase = "connect"
          /\ frame'[r][depth[r]].conn = Top(r).conn
      BY <1>2, ResolveMove
    <2>4. frame'[r][depth[r]].ds = lookup[r].ds
      BY <1>2, <2>2 DEF Resolve, StackInv, StackTypes, Frames
    <2>5. Top(r).conn = NoConn /\ lookup[r].key = buildKey(TenantOf[r])
      <3>1. RouteOK(r, depth[r]) /\ TenantOf[r] \in Tenants
        BY <2>1, <2>2 DEF RouteInv, TenantInv
      <3> QED
        BY <2>1, <3>1, OneKey DEF RouteOK, Top
    <2>6. pool'[lookup[r].ds] = "open" /\ entry'[lookup[r].ds] = lookup[r].key
      BY <2>1 DEF PoolInv, LookupPool, Receive
    <2>7. RouteOK(r, depth[r])'
      BY <2>1, <2>3, <2>4, <2>5, <2>6 DEF RouteOK, buildKey
    <2>8. \A q \in Callers \ {r} : lookup'[q].key = lookup[q].key
      BY <1>0, <2>1, LookupSteps
    <2> QED
      BY <2>1, <2>3, <2>7, <2>8, TopRoute
  <1>3. CASE Reject(r)
    <2>1. depth[r] > 0 /\ Settle(r, "error") /\ Receive(r) /\ path' = path
      BY <1>3 DEF Reject, At, dbVars
    <2>2. \A q \in Callers \ {r} : lookup'[q].key = lookup[q].key
      BY <1>0, <2>1, LookupSteps
    <2> QED
      BY <2>1, <2>2, SettleRoute
  <1>4. CASE ConnectFail(r) \/ SetSearchPathFail(r) \/ StartTransactionFail(r)
    <2>1. depth[r] > 0 /\ Settle(r, "error") /\ lookup' = lookup /\ path' = path
      BY <1>4 DEF ConnectFail, SetSearchPathFail, StartTransactionFail, At,
                  managerVars, dbVars
    <2> QED
      BY <2>1, SettleRoute
  <1>5. CASE Connect(r)
    <2>1. /\ depth[r] > 0 /\ Top(r).phase = "connect"
          /\ UNCHANGED <<depth, path, lookup, pool, entry>>
      BY <1>5 DEF Connect, At, callVars, managerVars
    <2>2. depth[r] \in 1..depth[r] /\ depth[r] \in Levels
      BY <2>1, Bounds DEF StackInv, StackTypes
    <2>3. PICK c \in FreeConns(Top(r).ds) :
             frame' = [frame EXCEPT ![r][depth[r]].phase = "setPath",
                                    ![r][depth[r]].conn = c,
                                    ![r][depth[r]].ds = NoDataSource]
      BY <1>5 DEF Connect
    <2>4. /\ frame'[r][depth[r]].conn = c
          /\ frame'[r][depth[r]].phase = "setPath"
          /\ c[1] = Top(r).ds
      BY <2>2, <2>3 DEF StackInv, StackTypes, Frames, FreeConns
    <2>5. pool[Top(r).ds] = "open" /\ entry[Top(r).ds] = buildKey(TenantOf[r])
      BY <2>1, <2>2 DEF RouteInv, RouteOK, Top
    <2>6. RouteOK(r, depth[r])'
      BY <2>1, <2>4, <2>5 DEF RouteOK, buildKey
    <2>7. TopOnly(r)
      BY <1>5, ConnectMove
    <2> QED
      BY <2>1, <2>6, <2>7, TopRoute
  <1>6. CASE SetSearchPath(r)
    <2> DEFINE c == Top(r).conn
    <2>1. /\ depth[r] > 0 /\ Top(r).phase = "setPath" /\ GoTo(r, "begin")
          /\ c # NoConn /\ path' = [path EXCEPT ![c] = SearchPath(r)]
          /\ UNCHANGED <<depth, calls, home, lookup, pool, entry>>
      BY <1>6 DEF SetSearchPath, At, callVars, managerVars
    <2>2. c \in Conns /\ holder[c] = <<r, depth[r]>>
      BY <2>1, TopHolds DEF OwnerPhases, Phases
    <2>3. TopOnly(r) /\ frame'[r][depth[r]].phase = "begin" /\ frame'[r][depth[r]].conn = c
      BY <2>1, GoToMove DEF Phases
    <2>4. /\ path'[c] = SearchPath(r)
          /\ \A k \in Conns : path'[k] # path[k] => holder[k] = <<r, depth[r]>>
      BY <2>1, <2>2 DEF DbTypes
    <2>5. pool[c[1]] = "open" /\ entry[c[1]] = buildKey(TenantOf[r])
      <3>1. depth[r] \in 1..depth[r]
        BY <2>1, Bounds DEF StackInv, StackTypes
      <3> QED
        BY <2>1, <3>1 DEF RouteInv, RouteOK, Top
    <2> HIDE DEF c
    <2>6. RouteOK(r, depth[r])'
      BY <2>1, <2>3, <2>4, <2>5 DEF RouteOK, buildKey, SearchPath, SearchPathOf
    <2> QED
      BY <2>1, <2>3, <2>4, <2>6, TopRoute
  <1>7. CASE StartTransaction(r)
    <2>1. /\ depth[r] > 0 /\ Top(r).phase = "begin" /\ GoTo(r, "body")
          /\ UNCHANGED <<depth, calls, home, lookup, path>>
      BY <1>7 DEF StartTransaction, At, callVars, managerVars
    <2> QED
      BY <2>1, GoToMove, GoOnRoute DEF Phases
  <1> QED
    BY <1>1, <1>2, <1>3, <1>4, <1>5, <1>6, <1>7 DEF Setup

LEMMA CallRoute ==
  ASSUME StackInv, PoolInv, RouteInv, [Next]_vars, NEW r \in Callers, Call(r)
  PROVE  RouteInv'
  <1>1. CASE CallJoin(r)
    <2> DEFINE f == [NoFrame EXCEPT !.phase = "body", !.conn = ContextConn(r),
                                    !.call = calls[r] + 1]
               h == home[r][Top(r).call]
    <2>1. /\ MayCall(r) /\ depth[r] > 0 /\ Push(r, f)
          /\ home' = [home EXCEPT ![r][calls[r] + 1] = h]
          /\ UNCHANGED <<lookup, path>>
      BY <1>1 DEF CallJoin, managerVars, dbVars
    <2>2. f.phase = "body" /\ f.conn = Top(r).conn
      BY DEF NoFrame, ContextConn
    <2> HIDE DEF f
    <2> QED
      BY <2>1, <2>2, PushRoute
  <1>2. ASSUME NEW p \in Propagations, CallNew(r, p) PROVE RouteInv'
    <2> DEFINE f == [NoFrame EXCEPT !.phase = "lookup", !.propagation = p,
                                    !.call = calls[r] + 1]
    <2>1. /\ MayCall(r) /\ Push(r, f) /\ GetDataSource(r, TenantOf[r])
          /\ home' = [home EXCEPT ![r][calls[r] + 1] = calls[r] + 1]
          /\ path' = path
      BY <1>2 DEF CallNew, dbVars
    <2>2. f.phase = "lookup" /\ f.conn = NoConn
      BY DEF NoFrame
    <2>3. /\ lookup'[r].key = keyFrom(TenantOf[r])
          /\ \A q \in Callers \ {r} : lookup'[q].key = lookup[q].key
      BY <2>1, LookupSteps DEF PoolInv
    <2> HIDE DEF f
    <2> QED
      BY <2>1, <2>2, <2>3, PushRoute
  <1>3. CASE CallWithoutTenant(r)
    BY <1>3, QuietRoute DEF CallWithoutTenant, managerVars, dbVars
  <1> QED
    BY <1>1, <1>2, <1>3 DEF Call

LEMMA BodyRoute ==
  ASSUME StackInv, PoolInv, JoinedInv, SessionInv, RouteInv, [Next]_vars,
         NEW r \in Callers, Body(r)
  PROVE  RouteInv'
  <1>1. CASE SqlOk(r)
    BY <1>1, QuietRoute DEF SqlOk, managerVars
  <1>2. CASE SqlFail(r) \/ Throw(r) \/ ReturnOwner(r)
    <2>1. /\ depth[r] > 0 /\ Top(r).phase = "body"
          /\ UNCHANGED <<depth, calls, home, lookup, path>>
      BY <1>2 DEF SqlFail, Throw, ReturnOwner, At, callVars, dbVars, managerVars
    <2>2. PICK p \in {"body", "rollback", "failing", "commit"} : GoTo(r, p)
      BY <1>2 DEF SqlFail, Throw, ReturnOwner, FailPhase
    <2> QED
      BY <2>1, <2>2, GoToMove, GoOnRoute DEF Phases
  <1>3. CASE ReturnJoined(r)
    BY <1>3, SettleRoute DEF ReturnJoined, At, managerVars, dbVars
  <1> QED
    BY <1>1, <1>2, <1>3 DEF Body

LEMMA FinishRoute ==
  ASSUME StackInv, PoolInv, JoinedInv, SessionInv, RouteInv, [Next]_vars,
         NEW r \in Callers, Finish(r)
  PROVE  RouteInv'
  <1>1. CASE RejectJoined(r) \/ Release(r)
    <2>1. depth[r] > 0 /\ UNCHANGED <<lookup, path>> /\ \E result : Settle(r, result)
      BY <1>1 DEF RejectJoined, Release, At, managerVars, dbVars
    <2> QED
      BY <2>1, SettleRoute
  <1>2. CASE CommitOk(r) \/ CommitRefused(r) \/ CommitLost(r)
    <2>1. /\ depth[r] > 0 /\ Top(r).phase = "commit"
          /\ UNCHANGED <<depth, calls, home, lookup, path>>
      BY <1>2 DEF CommitOk, CommitRefused, CommitLost, At, callVars, dbVars, managerVars
    <2>2. PICK p \in {"release", "rollback"} : GoTo(r, p)
      BY <1>2 DEF CommitOk, CommitRefused, CommitLost, OnCommitError
    <2> QED
      BY <2>1, <2>2, GoToMove, GoOnRoute DEF Phases
  <1>3. CASE CommitReplyLost(r)
    <2>1. /\ depth[r] > 0 /\ Top(r).phase = "commit" /\ Top(r).conn # NoConn
          /\ path' = [path EXCEPT ![Top(r).conn] = NoPath] /\ lookup' = lookup
      BY <1>3 DEF CommitReplyLost, At, managerVars
    <2> QED
      BY <1>3, <2>1, ReplyLostMove, GoOnRoute DEF OwnerPhases, Phases
  <1>4. CASE Rollback(r)
    <2>1. depth[r] > 0 /\ Top(r).phase = "rollback" /\ UNCHANGED <<lookup, path>>
      BY <1>4 DEF Rollback, At, managerVars
    <2> QED
      BY <1>4, <2>1, RollbackMove, GoOnRoute
  <1> QED
    BY <1>1, <1>2, <1>3, <1>4 DEF Finish

LEMMA DropRoute ==
  ASSUME StackInv, PoolInv, RouteInv, [Next]_vars, NEW c \in Conns, Drop(c)
  PROVE  RouteInv'
  <1>1. /\ Detach(c) /\ path' = [path EXCEPT ![c] = NoPath]
        /\ UNCHANGED <<depth, lookup>> /\ c # NoConn
    BY PoolAssumption DEF Drop, callVars, managerVars
  <1> SUFFICES ASSUME NEW q \in Callers, NEW d \in 1..depth[q] PROVE RouteOK(q, d)'
    BY <1>1 DEF RouteInv
  <1>2. d \in Levels /\ frame[q][d] \in Frames /\ RouteOK(q, d)
    BY FrameConn DEF RouteInv
  <1>3. CASE frame[q][d].conn = c
    <2>1. frame'[q][d].conn = NoConn /\ frame'[q][d].phase = frame[q][d].phase
      BY <1>1, <1>2, <1>3 DEF Detach, Frames
    <2>2. frame[q][d].phase \notin {"lookup", "connect"}
      BY <1>1, <1>2, <1>3 DEF RouteOK
    <2> QED
      BY <2>1, <2>2 DEF RouteOK
  <1>4. CASE frame[q][d].conn # c
    <2>1. frame'[q][d] = frame[q][d]
      BY <1>1, <1>2, <1>4 DEF Detach
    <2>2. path'[frame[q][d].conn] = path[frame[q][d].conn]
      BY <1>1, <1>4
    <2> QED
      BY <1>1, <1>2, <2>1, <2>2, ManagerStep, KeptRoute
  <1> QED
    BY <1>3, <1>4

LEMMA RouteInvStep == ConnectionInv /\ RouteInv /\ [Next]_vars => RouteInv'
  <1> SUFFICES ASSUME ConnectionInv, RouteInv, [Next]_vars PROVE RouteInv'
    OBVIOUS
  <1> USE DEF ConnectionInv
  <1>1. CASE UNCHANGED vars \/ Terminating
    BY <1>1, QuietRoute DEF Terminating, vars, txnVars, callVars, dbVars, managerVars
  <1>2. ASSUME NEW r \in Callers, Step(r) PROVE RouteInv'
    BY <1>2, SetupRoute, CallRoute, BodyRoute, FinishRoute DEF Step
  <1>3. ASSUME NEW c \in Conns, Drop(c) PROVE RouteInv'
    BY <1>3, DropRoute
  <1> QED
    BY <1>1, <1>2, <1>3 DEF Next

LEMMA RouteInvariant == Spec => [](ConnectionInv /\ RouteInv)
  <1>1. Init => RouteInv
    BY DEF Init, PoolInit, RouteInv
  <1>2. ConnectionInv /\ RouteInv /\ [Next]_vars => RouteInv'
    BY RouteInvStep
  <1> QED
    BY <1>1, <1>2, ConnectionInvariant, PTL DEF Spec

\* Every statement of a decorated method runs in a pool of the request's own
\* tenant with its tenant's search_path, although sessions keep the search_path
\* of whoever had them before and pools are opened and awaited by many requests
\* at once (setupQueryRunner, getDataSource).
THEOREM StatementsStayInTenant == Spec => []TenantIsolation
  <1>1. ConnectionInv /\ RouteInv => TenantIsolation
    <2> SUFFICES ASSUME ConnectionInv, RouteInv, NEW r \in Callers, NEW d \in Levels,
                        Pending(r, d), frame[r][d].phase \in InTransaction,
                        frame[r][d].conn # NoConn
                 PROVE  /\ entry[frame[r][d].conn[1]] = buildKey(TenantOf[r])
                        /\ path[frame[r][d].conn] = Lower[TenantOf[r][2]]
      BY DEF TenantIsolation
    <2>1. d \in 1..depth[r]
      BY Bounds DEF ConnectionInv, StackInv, StackTypes, Pending
    <2>2. RouteOK(r, d) /\ frame[r][d].phase # "setPath"
      BY <2>1 DEF RouteInv, InTransaction
    <2> QED
      BY <2>2 DEF RouteOK, SearchPath, SearchPathOf
  <1> QED
    BY <1>1, RouteInvariant, PTL

-----------------------------------------------------------------------------
(* Connections come back.                                                  *)

\* Whoever has a connection out of its pool keeps it over a step that does not
\* give it back.
LEMMA HeldKept ==
  ASSUME StackInv, NoConnectionLeak, DbTypes,
         \A c \in Conns : holder'[c] # Nobody => holder'[c] = holder[c],
         \A q \in Callers : \A d \in 1..depth[q] :
            frame[q][d].conn # NoConn /\ holder[frame[q][d].conn] = <<q, d>>
            => \/ holder'[frame[q][d].conn] = Nobody
               \/ d <= depth'[q] /\ frame'[q][d].conn = frame[q][d].conn
  PROVE  NoConnectionLeak'
  <1> SUFFICES ASSUME NEW c \in Conns, holder'[c] # Nobody
               PROVE  \E q \in Callers, d \in Levels :
                         /\ d <= depth'[q] /\ holder'[c] = <<q, d>>
                         /\ frame'[q][d].conn = c
    BY DEF NoConnectionLeak, Pending
  <1>1. holder'[c] = holder[c] /\ c # NoConn
    BY PoolAssumption
  <1>2. PICK q \in Callers, d \in Levels :
           d <= depth[q] /\ holder[c] = <<q, d>> /\ frame[q][d].conn = c
    BY <1>1 DEF NoConnectionLeak, Pending
  <1>3. d \in 1..depth[q]
    BY <1>2, Bounds DEF StackInv, StackTypes
  <1> QED
    BY <1>1, <1>2, <1>3

\* The top call goes on; at the end of its session it loses its connection.
LEMMA TopHeld ==
  ASSUME StackInv, NoConnectionLeak, DbTypes, NEW r \in Callers, depth[r] > 0,
         TopOnly(r),
         \/ holder' = holder /\ frame'[r][depth[r]].conn = Top(r).conn
         \/ holder' = [holder EXCEPT ![Top(r).conn] = Nobody]
  PROVE  NoConnectionLeak'
  <1>1. ASSUME NEW q \in Callers, NEW d \in 1..depth[q], frame[q][d].conn # NoConn,
               holder[frame[q][d].conn] = <<q, d>>
        PROVE  \/ holder'[frame[q][d].conn] = Nobody
               \/ d <= depth'[q] /\ frame'[q][d].conn = frame[q][d].conn
    <2>1. d <= depth'[q] /\ frame[q][d].conn \in Conns
      BY <1>1, FrameConn DEF TopOnly
    <2>2. CASE q # r \/ d # depth[r]
      BY <2>1, <2>2 DEF TopOnly
    <2>3. CASE q = r /\ d = depth[r]
      BY <2>1, <2>3 DEF Top, DbTypes
    <2> QED
      BY <2>2, <2>3
  <1>2. \A c \in Conns : holder'[c] # Nobody => holder'[c] = holder[c]
    BY DEF DbTypes
  <1> QED
    BY <1>1, <1>2, HeldKept

\* A call settles that holds no connection, or gives it back.
LEMMA SettleHeld ==
  ASSUME StackInv, NoConnectionLeak, DbTypes, NEW r \in Callers, depth[r] > 0,
         NEW result, Settle(r, result),
         \/ /\ holder' = holder
            /\ Top(r).conn # NoConn => holder[Top(r).conn] # <<r, depth[r]>>
         \/ holder' = [holder EXCEPT ![Top(r).conn] = Nobody]
  PROVE  NoConnectionLeak'
  <1>1. ASSUME NEW q \in Callers, NEW d \in 1..depth[q], frame[q][d].conn # NoConn,
               holder[frame[q][d].conn] = <<q, d>>
        PROVE  \/ holder'[frame[q][d].conn] = Nobody
               \/ d <= depth'[q] /\ frame'[q][d].conn = frame[q][d].conn
    <2>1. /\ d \in Nat \ {0} /\ d <= depth[q] /\ depth[q] \in Nat
          /\ frame[q][d].conn \in Conns
      BY <1>1, FrameConn
    <2>2. CASE q # r \/ d # depth[r]
      <3>1. depth'[q] \in Nat /\ d <= depth'[q]
        <4>1. /\ depth'[q] \in Nat /\ depth'[r] = depth[r] - 1
              /\ q # r => depth'[q] = depth[q]
          BY SettleFrames DEF Settle, StackInv, StackTypes
        <4> QED
          BY <2>1, <2>2, <4>1
      <3>2. Kept(q, d)
        BY <2>1, <3>1, SettleFrames
      <3> QED
        BY <3>1, <3>2 DEF Kept
    <2>3. CASE q = r /\ d = depth[r]
      BY <1>1, <2>1, <2>3 DEF Top, DbTypes
    <2> QED
      BY <2>2, <2>3
  <1>2. \A c \in Conns : holder'[c] # Nobody => holder'[c] = holder[c]
    BY DEF DbTypes
  <1> QED
    BY <1>1, <1>2, HeldKept

\* A call begins.
LEMMA PushHeld ==
  ASSUME StackInv, NoConnectionLeak, DbTypes, NEW r \in Callers, MayCall(r),
         NEW f, Push(r, f), NEW h, home' = [home EXCEPT ![r][calls[r] + 1] = h],
         holder' = holder
  PROVE  NoConnectionLeak'
  <1>1. ASSUME NEW q \in Callers, NEW d \in 1..depth[q]
        PROVE  d <= depth'[q] /\ frame'[q][d].conn = frame[q][d].conn
    <2>1. d \in Nat /\ d <= depth[q] /\ depth[q] \in Nat
      BY FrameConn
    <2>2. /\ Kept(q, d)
          /\ q # r => depth'[q] = depth[q]
          /\ depth'[r] = depth[r] + 1
      BY PushFrames
    <2> QED
      BY <2>1, <2>2 DEF Kept
  <1> QED
    BY <1>1, HeldKept

\* Nothing of the stacks and the pools changes.
LEMMA SameHeld ==
  ASSUME NoConnectionLeak, UNCHANGED <<depth, frame, holder>> PROVE NoConnectionLeak'
  BY DEF NoConnectionLeak, Pending

\* A joined call does not hold the connection it runs on.
LEMMA JoinedHoldsNone ==
  ASSUME StackInv, JoinedInv, SessionInv, NEW r \in Callers, depth[r] > 0, ~Owns(r),
         Top(r).conn # NoConn
  PROVE  holder[Top(r).conn] # <<r, depth[r]>>
  <1>1. depth[r] \in 1..depth[r]
    BY Bounds DEF StackInv, StackTypes
  <1>2. PICK l \in 1..depth[r] : frame[r][l].conn = Top(r).conn /\ OwnsAt(r, l)
    BY <1>1 DEF JoinedInv, JoinedOK, Top
  <1>3. holder[Top(r).conn] = <<r, l>>
    BY <1>2 DEF SessionInv, SessionOK
  <1> QED
    BY <1>2, <1>3 DEF Owns

LEMMA SetupHeld ==
  ASSUME ConnectionInv, RouteInv, NoConnectionLeak, "setup" \notin Faults,
         NEW r \in Callers, Setup(r)
  PROVE  NoConnectionLeak'
  <1> USE DEF ConnectionInv
  <1>1. CASE Lookup(r)
    BY <1>1, SameHeld DEF Lookup, txnVars, callVars, dbVars
  <1>2. CASE Resolve(r)
    BY <1>2, ResolveMove, TopHeld DEF Resolve, At, dbVars
  <1>3. CASE Reject(r) \/ ConnectFail(r) \/ SetSearchPathFail(r) \/ StartTransactionFail(r)
    <2>1. depth[r] > 0 /\ Settle(r, "error") /\ holder' = holder
      BY <1>3 DEF Reject, ConnectFail, SetSearchPathFail, StartTransactionFail, At, dbVars
    <2>2. Top(r).conn = NoConn
      <3>1. depth[r] \in 1..depth[r]
        BY <2>1, Bounds DEF StackInv, StackTypes
      <3>2. RouteOK(r, depth[r])
        BY <3>1 DEF RouteInv
      <3> QED
        BY <1>3, <3>2 DEF Reject, ConnectFail, SetSearchPathFail, StartTransactionFail,
                          At, RouteOK, Top
    <2> QED
      BY <2>1, <2>2, SettleHeld
  <1>4. CASE Connect(r)
    <2>1. depth[r] > 0 /\ depth[r] \in Levels
      BY <1>4, TopOK DEF Connect, At
    <2>2. PICK k \in Conns :
            /\ holder[k] = Nobody
            /\ holder' = [holder EXCEPT ![k] = <<r, depth[r]>>]
            /\ TopOnly(r)
            /\ frame'[r][depth[r]].conn = k
      BY <1>4, ConnectMove
    <2> SUFFICES ASSUME NEW c \in Conns, holder'[c] # Nobody
                 PROVE  \E q \in Callers, d \in Levels :
                           /\ d <= depth'[q] /\ holder'[c] = <<q, d>>
                           /\ frame'[q][d].conn = c
      BY DEF NoConnectionLeak, Pending
    <2>3. CASE c = k
      <3>1. holder'[c] = <<r, depth[r]>> /\ depth[r] <= depth'[r]
        BY <2>1, <2>2, <2>3, Bounds DEF DbTypes, TopOnly, StackInv, StackTypes
      <3> QED
        BY <2>1, <2>2, <2>3, <3>1
    <2>4. CASE c # k
      <3>1. holder'[c] = holder[c] /\ c # NoConn
        BY <2>2, <2>4, PoolAssumption DEF DbTypes
      <3>2. PICK q \in Callers, d \in Levels :
               d <= depth[q] /\ holder[c] = <<q, d>> /\ frame[q][d].conn = c
        BY <3>1 DEF NoConnectionLeak, Pending
      <3>3. d \in 1..depth[q] /\ depth' = depth
        BY <2>2, <3>2, Bounds DEF StackInv, StackTypes, TopOnly
      <3>4. q # r \/ d # depth[r]
        <4> SUFFICES ASSUME q = r, d = depth[r] PROVE FALSE
          OBVIOUS
        <4>1. Top(r).phase = "connect" /\ RouteOK(r, d)
          BY <1>4, <3>3 DEF Connect, At, RouteInv
        <4> QED
          BY <3>1, <3>2, <4>1 DEF RouteOK, Top
      <3>5. frame'[q][d] = frame[q][d]
        BY <2>2, <3>3, <3>4 DEF TopOnly
      <3> QED
        BY <3>1, <3>2, <3>3, <3>5
    <2> QED
      BY <2>3, <2>4
  <1>5. CASE SetSearchPath(r)
    <2>1. depth[r] > 0 /\ GoTo(r, "begin") /\ UNCHANGED <<depth, calls, home, holder>>
      BY <1>5 DEF SetSearchPath, At, callVars
    <2> QED
      BY <2>1, GoToMove, TopHeld DEF Phases
  <1>6. CASE StartTransaction(r)
    <2>1. depth[r] > 0 /\ GoTo(r, "body") /\ UNCHANGED <<depth, calls, home, holder>>
      BY <1>6 DEF StartTransaction, At, callVars
    <2> QED
      BY <2>1, GoToMove, TopHeld DEF Phases
  <1> QED
    BY <1>1, <1>2, <1>3, <1>4, <1>5, <1>6 DEF Setup

LEMMA CallHeld ==
  ASSUME ConnectionInv, NoConnectionLeak, NEW r \in Callers, Call(r)
  PROVE  NoConnectionLeak'
  <1>1. CASE CallJoin(r) \/ \E p \in Propagations : CallNew(r, p)
    <2>1. /\ MayCall(r) /\ holder' = holder /\ \E f : Push(r, f)
          /\ \E h : home' = [home EXCEPT ![r][calls[r] + 1] = h]
      BY <1>1, Zenon DEF CallJoin, CallNew, dbVars
    <2> QED
      BY <2>1, PushHeld DEF ConnectionInv
  <1>2. CASE CallWithoutTenant(r)
    BY <1>2, SameHeld DEF CallWithoutTenant, dbVars
  <1> QED
    BY <1>1, <1>2 DEF Call

LEMMA BodyHeld ==
  ASSUME ConnectionInv, NoConnectionLeak, NEW r \in Callers, Body(r)
  PROVE  NoConnectionLeak'
  <1> USE DEF ConnectionInv
  <1>1. CASE SqlOk(r)
    BY <1>1, SameHeld DEF SqlOk
  <1>2. CASE SqlFail(r) \/ Throw(r) \/ ReturnOwner(r)
    <2>1. depth[r] > 0 /\ UNCHANGED <<depth, calls, home, holder>>
      BY <1>2 DEF SqlFail, Throw, ReturnOwner, At, callVars, dbVars
    <2>2. PICK p \in {"body", "rollback", "failing", "commit"} : GoTo(r, p)
      BY <1>2 DEF SqlFail, Throw, ReturnOwner, FailPhase
    <2> QED
      BY <2>1, <2>2, GoToMove, TopHeld DEF Phases
  <1>3. CASE ReturnJoined(r)
    BY <1>3, JoinedHoldsNone, SettleHeld DEF ReturnJoined, At, dbVars
  <1> QED
    BY <1>1, <1>2, <1>3 DEF Body

LEMMA FinishHeld ==
  ASSUME ConnectionInv, NoConnectionLeak, NEW r \in Callers, Finish(r)
  PROVE  NoConnectionLeak'
  <1> USE DEF ConnectionInv
  <1>1. CASE RejectJoined(r)
    <2>1. /\ depth[r] > 0 /\ Top(r).phase = "failing"
          /\ holder' = holder /\ Settle(r, "error")
      BY <1>1 DEF RejectJoined, At, dbVars
    <2>2. ~Owns(r)
      BY <2>1, TopOK DEF FrameOK, Owns, OwnsAt, Top
    <2> QED
      BY <2>1, <2>2, JoinedHoldsNone, SettleHeld
  <1>2. CASE Release(r)
    <2>1. /\ depth[r] > 0 /\ \E result : Settle(r, result)
          /\ IF Top(r).conn = NoConn THEN holder' = holder
             ELSE holder' = [holder EXCEPT ![Top(r).conn] = Nobody]
      BY <1>2 DEF Release, GivenBack, At
    <2> QED
      BY <2>1, SettleHeld
  <1>3. CASE CommitOk(r) \/ CommitRefused(r) \/ CommitLost(r)
    <2>1. depth[r] > 0 /\ UNCHANGED <<depth, calls, home, holder>>
      BY <1>3 DEF CommitOk, CommitRefused, CommitLost, At, callVars, dbVars
    <2>2. PICK p \in {"release", "rollback"} : GoTo(r, p)
      BY <1>3 DEF CommitOk, CommitRefused, CommitLost, OnCommitError
    <2> QED
      BY <2>1, <2>2, GoToMove, TopHeld DEF Phases
  <1>4. CASE CommitReplyLost(r)
    BY <1>4, ReplyLostMove, TopHeld DEF CommitReplyLost, At
  <1>5. CASE Rollback(r)
    BY <1>5, RollbackMove, TopHeld DEF Rollback, At
  <1> QED
    BY <1>1, <1>2, <1>3, <1>4, <1>5 DEF Finish

LEMMA DropHeld ==
  ASSUME ConnectionInv, NoConnectionLeak, NEW k \in Conns, Drop(k)
  PROVE  NoConnectionLeak'
  <1> USE DEF ConnectionInv
  <1>1. /\ Detach(k) /\ depth' = depth
        /\ holder' = [holder EXCEPT ![k] = Nobody]
    BY DEF Drop, callVars
  <1>2. ASSUME NEW q \in Callers, NEW d \in 1..depth[q], frame[q][d].conn # NoConn
        PROVE  \/ holder'[frame[q][d].conn] = Nobody
               \/ d <= depth'[q] /\ frame'[q][d].conn = frame[q][d].conn
    <2>1. d \in Levels /\ d <= depth[q] /\ frame[q][d].conn \in Conns
      BY <1>2, FrameConn
    <2>2. CASE frame[q][d].conn = k
      BY <1>1, <2>1, <2>2 DEF DbTypes
    <2>3. CASE frame[q][d].conn # k
      BY <1>1, <2>1, <2>3 DEF Detach
    <2> QED
      BY <2>2, <2>3
  <1>3. \A c \in Conns : holder'[c] # Nobody => holder'[c] = holder[c]
    BY <1>1 DEF DbTypes
  <1> QED
    BY <1>2, <1>3, HeldKept

\* While no set-up fails after its connect(), every connection that is out of its
\* pool belongs to a pending call that still knows it and will release it,
\* whatever else fails (executeInTransaction, its finally).
THEOREM HeldUntilReleased ==
  ASSUME "setup" \notin Faults
  PROVE  Spec => []NoConnectionLeak
  <1>1. Init => NoConnectionLeak
    BY DEF Init, PoolInit, NoConnectionLeak
  <1>2. ConnectionInv /\ RouteInv /\ NoConnectionLeak /\ [Next]_vars => NoConnectionLeak'
    <2> SUFFICES ASSUME ConnectionInv, RouteInv, NoConnectionLeak, [Next]_vars
                 PROVE  NoConnectionLeak'
      OBVIOUS
    <2>1. CASE UNCHANGED vars \/ Terminating
      BY <2>1, SameHeld DEF Terminating, vars, txnVars, callVars, dbVars
    <2>2. ASSUME NEW r \in Callers, Step(r) PROVE NoConnectionLeak'
      BY <2>2, SetupHeld, CallHeld, BodyHeld, FinishHeld DEF Step
    <2>3. ASSUME NEW k \in Conns, Drop(k) PROVE NoConnectionLeak'
      BY <2>3, DropHeld
    <2> QED
      BY <2>1, <2>2, <2>3 DEF Next
  <1> QED
    BY <1>1, <1>2, RouteInvariant, PTL DEF Spec

-----------------------------------------------------------------------------
(* The transactions that wait.                                             *)

\* A session changes by a step of the call on top of a stack that runs on it.
LEMMA OnlyTopTouches ==
  ASSUME DbTypes, NEW r \in Callers, Step(r), NEW c \in Conns,
         tx'[c] # tx[c] \/ pending'[c] # pending[c] \/ path'[c] # path[c]
  PROVE  depth[r] > 0 /\ c = Top(r).conn
  <1> USE DEF DbTypes
  <1>1. CASE Setup(r)
    <2>1. CASE SetSearchPath(r)
      BY <2>1 DEF SetSearchPath, At
    <2>2. CASE StartTransaction(r)
      BY <2>2 DEF StartTransaction, At
    <2> QED
      BY <1>1, <2>1, <2>2
      DEF Setup, Lookup, Resolve, Reject, Connect, ConnectFail, SetSearchPathFail,
          StartTransactionFail, dbVars
  <1>2. CASE Call(r)
    BY <1>2 DEF Call, CallJoin, CallNew, CallWithoutTenant, dbVars
  <1>3. CASE Body(r)
    <2>1. CASE SqlOk(r) \/ SqlFail(r)
      BY <2>1 DEF SqlOk, SqlFail, At
    <2> QED
      BY <1>3, <2>1 DEF Body, Throw, ReturnJoined, ReturnOwner, dbVars
  <1>4. CASE Finish(r)
    <2>1. CASE CommitOk(r) \/ CommitRefused(r)
      BY <2>1 DEF CommitOk, CommitRefused, EndTransaction, At
    <2>2. CASE CommitReplyLost(r)
      BY <2>2 DEF CommitReplyLost, EndTransaction, At
    <2>3. CASE Rollback(r)
      BY <2>3 DEF Rollback, RolledBack, EndTransaction, At
    <2> QED
      BY <1>4, <2>1, <2>2, <2>3 DEF Finish, RejectJoined, CommitLost, Release, dbVars
  <1> QED
    BY <1>1, <1>2, <1>3, <1>4 DEF Step

\* The calls that run on one connection are of one request.
LEMMA OneRequest ==
  ASSUME StackInv, JoinedInv, SessionInv, NEW r \in Callers, NEW d \in 1..depth[r],
         NEW q \in Callers, NEW e \in 1..depth[q],
         frame[r][d].conn # NoConn, frame[q][e].conn = frame[r][d].conn
  PROVE  q = r
  <1>1. PICK l \in 1..d : frame[r][l].conn = frame[r][d].conn /\ OwnsAt(r, l)
    BY DEF JoinedInv, JoinedOK
  <1>2. PICK k \in 1..e : frame[q][k].conn = frame[q][e].conn /\ OwnsAt(q, k)
    BY DEF JoinedInv, JoinedOK
  <1>3. l \in 1..depth[r] /\ k \in 1..depth[q]
    <2>1. d \in Nat /\ d <= depth[r] /\ depth[r] \in Nat
      BY FrameConn
    <2>2. e \in Nat /\ e <= depth[q] /\ depth[q] \in Nat
      BY FrameConn
    <2> QED
      BY <2>1, <2>2
  <1>4. /\ holder[frame[r][d].conn] = <<r, l>>
        /\ holder[frame[r][d].conn] = <<q, k>>
    BY <1>1, <1>2, <1>3 DEF SessionInv, SessionOK
  <1> QED
    BY <1>4

\* While a call waits for one with a transaction of its own, nobody goes on with
\* the transaction that it runs in, neither its own request nor another one,
\* although they use the same pool (setupQueryRunner for REQUIRES_NEW).
THEOREM SuspendedStayUntouched == Spec => SuspendedOuterUntouched
  <1> DEFINE Untouched ==
        \A r \in Callers : \A d \in Levels :
          LET c == frame[r][d].conn
          IN  (/\ d < depth[r]
               /\ c # NoConn
               /\ c # Top(r).conn
               /\ frame'[r][d].conn = c)
              => tx'[c] = tx[c] /\ pending'[c] = pending[c] /\ path'[c] = path[c]
  <1>1. ConnectionInv /\ [Next]_vars => [Untouched]_vars
    <2> SUFFICES ASSUME ConnectionInv, Next,
                        NEW r \in Callers, NEW d \in Levels,
                        d < depth[r], frame[r][d].conn # NoConn,
                        frame[r][d].conn # Top(r).conn,
                        frame'[r][d].conn = frame[r][d].conn,
                        NEW c, c = frame[r][d].conn,
                        \/ tx'[c] # tx[c]
                        \/ pending'[c] # pending[c]
                        \/ path'[c] # path[c]
                 PROVE  FALSE
      OBVIOUS
    <2>1. d \in 1..depth[r]
      BY Bounds DEF ConnectionInv, StackInv, StackTypes
    <2>2. c \in Conns
      BY <2>1, FrameConn DEF ConnectionInv
    <2>3. ASSUME NEW q \in Callers, Step(q) PROVE FALSE
      <3>1. depth[q] > 0 /\ c = Top(q).conn
        BY <2>2, <2>3, OnlyTopTouches DEF ConnectionInv
      <3>2. depth[q] \in 1..depth[q] /\ frame[q][depth[q]].conn = c
        BY <3>1, TopOK, Bounds DEF ConnectionInv, Top
      <3>3. q = r
        BY <2>1, <3>2, OneRequest DEF ConnectionInv
      <3> QED
        BY <3>1, <3>3
    <2>4. ASSUME NEW k \in Conns, Drop(k) PROVE FALSE
      <3>1. k = c
        BY <2>2, <2>4 DEF Drop, EndTransaction, ConnectionInv, DbTypes
      <3>2. frame'[r][d] = [frame[r][d] EXCEPT !.conn = NoConn] /\ frame[r][d] \in Frames
        BY <2>1, <2>4, <3>1, FrameConn DEF Drop, Detach, ConnectionInv
      <3> QED
        BY <3>2 DEF Frames
    <2>5. CASE Terminating
      BY <2>5 DEF Terminating, vars, dbVars
    <2> QED
      BY <2>3, <2>4, <2>5 DEF Next
  <1> QED
    BY <1>1, ConnectionInvariant, PTL DEF Spec, SuspendedOuterUntouched
=============================================================================

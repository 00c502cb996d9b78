---------------------- MODULE TransactionAtomicityProofs ----------------------
(***************************************************************************)
(* Proofs that the transactions of Transactional are atomic: what a method *)
(* and the calls that joined it wrote is committed together or not at all; *)
(* that what the promise of a call tells its caller is what happened; and  *)
(* that the decorator implements AtomicTransactions.                       *)
(***************************************************************************)
EXTENDS TransactionSessionProofs

-----------------------------------------------------------------------------
(* The writes of the transactions that are open.                           *)

\* Before its BEGIN a call has no writes; until its COMMIT none of them is in
\* the database and all wait in its session, unless that is lost.
WritesOK(r, d) ==
    LET f == frame[r][d]
        W == WritesIn(r, f.call)
    IN  OwnsAt(r, d) =>
            /\ f.phase \in {"lookup", "connect", "setPath", "begin"} => W = {}
            /\ f.phase \in {"body", "commit"} =>
                  /\ W \cap committed = {}
                  /\ f.conn # NoConn => pending[f.conn] = W

\* A call is made after the calls that wait below it.
CallsGrow ==
    \A r \in Callers : \A d, e \in 1..depth[r] :
        d < e => frame[r][d].call < frame[r][e].call

\* Writes are made by calls, and are in the database only if they were made.
WritesMade ==
    /\ \A w \in wrote : w[2] \in 1..calls[w[1]]
    /\ committed \subseteq wrote

AtomicInv ==
    /\ \A r \in Callers : \A d \in 1..depth[r] : WritesOK(r, d)
    /\ CallsGrow
    /\ WritesMade
    /\ AllOrNothing

\* The writes of the transactions stay the same.
SameWrites == \A r \in Callers : \A n : WritesIn(r, n)' = WritesIn(r, n)

LEMMA NoNewWrites == UNCHANGED <<wrote, home>> => SameWrites
  BY DEF SameWrites, WritesIn

\* A new call has made no writes yet.
LEMMA PushWrites ==
  ASSUME StackInv, DbTypes, WritesMade, NEW r \in Callers, MayCall(r),
         NEW h, home' = [home EXCEPT ![r][calls[r] + 1] = h], wrote' = wrote
  PROVE  /\ SameWrites
         /\ \A n : n = calls[r] + 1 => WritesIn(r, n) = {}
  <1>1. calls[r] \in Nat /\ calls[r] + 1 \in CallNos
    BY MayCallBounds
  <1>2. ASSUME NEW w \in wrote
        PROVE  /\ w[1] \in Callers /\ w[2] \in CallNos /\ w[2] \in 1..calls[w[1]]
               /\ home'[w[1]][w[2]] = home[w[1]][w[2]]
               /\ home[w[1]][w[2]] \in 1..w[2]
    <2>1. w[1] \in Callers /\ w[2] \in CallNos /\ w[2] \in 1..calls[w[1]]
      BY DEF DbTypes, Writes, WritesMade
    <2>2. w[1] = r => w[2] # calls[r] + 1
      BY <1>1, <2>1
    <2>3. home'[w[1]][w[2]] = home[w[1]][w[2]]
      BY <1>1, <2>1, <2>2 DEF StackInv, StackTypes
    <2> QED
      BY <2>1, <2>3 DEF StackInv
  <1>3. SameWrites
    BY <1>2 DEF SameWrites, WritesIn
  <1>4. ASSUME NEW w \in wrote, w[1] = r PROVE home[r][w[2]] # calls[r] + 1
    <2>1. w[2] \in 1..calls[r] /\ home[r][w[2]] \in 1..w[2]
      BY <1>2, <1>4
    <2>2. w[2] \in Nat /\ w[2] <= calls[r]
      BY <1>1, <2>1
    <2>3. home[r][w[2]] \in Nat /\ home[r][w[2]] <= w[2]
      BY <2>1, <2>2
    <2> QED
      BY <1>1, <2>2, <2>3
  <1> QED
    BY <1>3, <1>4 DEF WritesIn

\* A call that keeps its transaction while others go on.
LEMMA KeptWrites ==
  ASSUME NEW r \in Callers, NEW d \in Nat, WritesOK(r, d), Kept(r, d), SameWrites,
         \/ frame'[r][d].phase = frame[r][d].phase
         \/ frame'[r][d].phase \in {"rollback", "failing"},
         WritesIn(r, frame[r][d].call) \cap committed' =
            WritesIn(r, frame[r][d].call) \cap committed,
         frame[r][d].conn # NoConn /\ OwnsAt(r, d) =>
            pending'[frame[r][d].conn] = pending[frame[r][d].conn]
  PROVE  WritesOK(r, d)'
  <1>1. PICK n : n = frame[r][d].call
    OBVIOUS
  <1>2. frame'[r][d].call = n /\ WritesIn(r, n)' = WritesIn(r, n)
    BY <1>1 DEF Kept, SameWrites
  <1>3. OwnsAt(r, d)' <=> OwnsAt(r, d)
    BY DEF Kept, OwnsAt
  <1>4. frame'[r][d].conn = frame[r][d].conn
    BY DEF Kept
  <1>5. WritesIn(r, frame[r][d].call)' = WritesIn(r, frame[r][d].call)
    BY <1>1, <1>2
  <1> QED
    BY <1>1, <1>3, <1>4, <1>5 DEF WritesOK

\* Nothing is written or committed.
LEMMA QuietAtomic ==
  ASSUME StackInv, AtomicInv, SameWrites, UNCHANGED <<wrote, committed>>,
         \A q \in Callers : \A n \in CallNos :
            OwnerCall(q, n)' => OwnerCall(q, n) \/ WritesIn(q, n) = {},
         \A q \in Callers : calls[q] <= calls'[q] /\ calls'[q] \in Nat,
         \A q \in Callers : \A d \in 1..depth'[q] : WritesOK(q, d)',
         CallsGrow', DbTypes
  PROVE  AtomicInv'
  <1>1. WritesMade'
    <2> SUFFICES ASSUME NEW w \in wrote PROVE w[2] \in 1..calls'[w[1]]
      BY DEF AtomicInv, WritesMade
    <2>1. w[1] \in Callers /\ w[2] \in 1..calls[w[1]] /\ calls[w[1]] \in Nat
      BY Bounds DEF AtomicInv, WritesMade, DbTypes, Writes, StackInv, StackTypes
    <2> QED
      BY <2>1
  <1>2. AllOrNothing'
    <2> SUFFICES ASSUME NEW q \in Callers, NEW n \in CallNos, OwnerCall(q, n)'
                 PROVE  \/ WritesIn(q, n)' \subseteq committed'
                        \/ WritesIn(q, n)' \cap committed' = {}
      BY DEF AllOrNothing
    <2>1. WritesIn(q, n)' = WritesIn(q, n)
      BY DEF SameWrites
    <2>2. OwnerCall(q, n) \/ WritesIn(q, n) = {}
      OBVIOUS
    <2> QED
      BY <2>1, <2>2 DEF AtomicInv, AllOrNothing
  <1> QED
    BY <1>1, <1>2 DEF AtomicInv

-----------------------------------------------------------------------------
(* The steps.                                                              *)

LEMMA SettleAtomic ==
  ASSUME StackInv, DbTypes, AtomicInv, NEW r \in Callers, depth[r] > 0, NEW result,
         Settle(r, result), UNCHANGED <<pending, committed>>
  PROVE  AtomicInv'
  <1>1. UNCHANGED <<calls, home, wrote>> /\ SameWrites
    BY NoNewWrites DEF Settle
  <1>2. ASSUME NEW q \in Callers, NEW d \in 1..depth'[q]
        PROVE  /\ d \in 1..depth[q] /\ d \in Nat /\ Kept(q, d)
               /\ \/ frame'[q][d].phase = frame[q][d].phase
                  \/ frame'[q][d].phase \in {"rollback", "failing"}
    <2>1. depth'[q] \in Nat /\ depth'[q] <= depth[q] /\ depth[q] \in Nat
      BY SettleFrames, Bounds DEF StackInv, StackTypes
    <2> QED
      BY <2>1, SettleFrames
  <1>3. CallsGrow'
    <2> SUFFICES ASSUME NEW q \in Callers, NEW d \in 1..depth'[q],
                        NEW e \in 1..depth'[q], d < e
                 PROVE  frame'[q][d].call < frame'[q][e].call
      BY DEF CallsGrow
    <2> QED
      BY <1>2 DEF AtomicInv, CallsGrow, Kept
  <1>4. ASSUME NEW q \in Callers, NEW d \in 1..depth'[q] PROVE WritesOK(q, d)'
    BY <1>1, <1>2, KeptWrites DEF AtomicInv
  <1>5. \A q \in Callers : calls[q] <= calls'[q] /\ calls'[q] \in Nat
    BY <1>1, Bounds DEF StackInv, StackTypes
  <1> QED
    BY <1>1, <1>3, <1>4, <1>5, QuietAtomic DEF OwnerCall

\* A call begins; if its transaction is its own it starts before BEGIN.
LEMMA PushAtomic ==
  ASSUME StackInv, DbTypes, AtomicInv, NEW r \in Callers, MayCall(r), NEW f,
         Push(r, f), f.call = calls[r] + 1,
         NEW h, home' = [home EXCEPT ![r][calls[r] + 1] = h],
         f.phase = "lookup" \/ h \in 1..calls[r],
         UNCHANGED <<pending, committed>>
  PROVE  AtomicInv'
  <1>1. /\ calls[r] \in Nat /\ calls[r] + 1 \in CallNos /\ depth[r] \in Nat
        /\ wrote' = wrote
    BY MayCallBounds DEF Push
  <1>2. SameWrites /\ \A n : n = calls[r] + 1 => WritesIn(r, n) = {}
    BY <1>1, PushWrites DEF AtomicInv
  <1>3. /\ \A q \in Callers : \A l \in 1..depth[q] :
              Kept(q, l) /\ frame'[q][l].phase = frame[q][l].phase
        /\ \A q \in Callers : q # r => depth'[q] = depth[q]
        /\ depth'[r] = depth[r] + 1
        /\ frame'[r][depth[r] + 1] = f
        /\ home'[r][calls[r] + 1] = h
    BY PushFrames
  <1>4. ASSUME NEW q \in Callers, NEW d \in 1..depth'[q], d \notin 1..depth[q]
        PROVE  q = r /\ d = depth[r] + 1 /\ frame'[q][d] = f
    BY <1>1, <1>3, <1>4
  <1>5. ASSUME NEW q \in Callers, NEW d \in 1..depth'[q] PROVE WritesOK(q, d)'
    <2>1. CASE d \in 1..depth[q]
      BY <1>1, <1>2, <1>3, <2>1, FrameConn, KeptWrites DEF AtomicInv
    <2>2. CASE d \notin 1..depth[q]
      <3>1. q = r /\ frame'[r][d] = f
        BY <1>4, <2>2
      <3>2. PICK n : n = calls[r] + 1
        OBVIOUS
      <3>3. frame'[r][d].call = n /\ home'[r][n] = h /\ WritesIn(r, n)' = {}
        BY <1>2, <1>3, <3>1, <3>2 DEF SameWrites
      <3>4. WritesIn(r, frame[r][d].call)' = {}
        BY <3>3
      <3>5. CASE f.phase = "lookup"
        BY <3>1, <3>4, <3>5 DEF WritesOK
      <3>6. CASE h \in 1..calls[r]
        <4>1. h # calls[r] + 1
          BY <1>1, <3>6
        <4> QED
          BY <4>1, <3>1, <3>2, <3>3 DEF WritesOK, OwnsAt
      <3> QED
        BY <3>5, <3>6
    <2> QED
      BY <2>1, <2>2
  <1>6. CallsGrow'
    <2> SUFFICES ASSUME NEW q \in Callers, NEW d \in 1..depth'[q],
                        NEW e \in 1..depth'[q], d < e
                 PROVE  frame'[q][d].call < frame'[q][e].call
      BY DEF CallsGrow
    <2>1. depth[q] \in Nat /\ d \in Nat /\ e \in Nat
      BY Bounds DEF StackInv, StackTypes
    <2>2. d \in 1..depth[q]
      <3>1. d \notin 1..depth[q] => depth'[q] = d
        BY <1>3, <1>4
      <3> QED
        BY <2>1, <3>1
    <2>3. CASE e \in 1..depth[q]
      BY <1>3, <2>2, <2>3 DEF AtomicInv, CallsGrow, Kept
    <2>4. CASE e \notin 1..depth[q]
      <3>1. q = r /\ frame'[r][e].call = calls[r] + 1
        BY <1>4, <2>4
      <3>2. frame'[r][d].call = frame[r][d].call /\ frame[r][d].call \in 1..calls[r]
        BY <1>3, <2>2, <3>1 DEF Kept, StackInv, FrameOK
      <3> QED
        BY <1>1, <3>1, <3>2
    <2> QED
      BY <2>3, <2>4
  <1>7. \A q \in Callers : calls[q] <= calls'[q] /\ calls'[q] \in Nat
    BY <1>1, Bounds DEF Push, StackInv, StackTypes
  <1>8. ASSUME NEW q \in Callers, NEW n \in CallNos, OwnerCall(q, n)'
        PROVE  OwnerCall(q, n) \/ WritesIn(q, n) = {}
    BY <1>1, <1>2, <1>8 DEF OwnerCall, StackInv, StackTypes
  <1> QED
    BY <1>1, <1>2, <1>5, <1>6, <1>7, <1>8, QuietAtomic

\* A call that rejects at once, for want of a tenant.
LEMMA RefuseAtomic ==
  ASSUME StackInv, DbTypes, AtomicInv, NEW r \in Callers, CallWithoutTenant(r)
  PROVE  AtomicInv'
  <1>1. /\ MayCall(r) /\ UNCHANGED <<depth, frame, wrote, pending, committed>>
        /\ calls' = [calls EXCEPT ![r] = calls[r] + 1]
        /\ home' = [home EXCEPT ![r][calls[r] + 1] = calls[r] + 1]
    BY DEF CallWithoutTenant, dbVars
  <1>2. calls[r] \in Nat /\ calls[r] + 1 \in CallNos
    BY <1>1, MayCallBounds
  <1>3. SameWrites /\ \A n : n = calls[r] + 1 => WritesIn(r, n) = {}
    BY <1>1, PushWrites DEF AtomicInv
  <1>4. ASSUME NEW q \in Callers, NEW d \in 1..depth[q] PROVE WritesOK(q, d)'
    <2>1. d \in Nat /\ WritesOK(q, d) /\ frame[q][d].call \in 1..calls[q]
      BY FrameConn DEF AtomicInv, FrameOK
    <2>2. calls[q] \in 0..MaxCalls
      BY DEF StackInv, StackTypes
    <2>3. frame[q][d].call \in CallNos /\ (q = r => frame[q][d].call # calls[r] + 1)
      BY <1>2, <2>1, <2>2, Bounds
    <2>4. home'[q][frame[q][d].call] = home[q][frame[q][d].call]
      BY <1>1, <1>2, <2>3 DEF StackInv, StackTypes
    <2>5. Kept(q, d)
      BY <1>1, <2>4 DEF Kept
    <2> QED
      BY <1>1, <1>3, <2>1, <2>5, KeptWrites
  <1>5. CallsGrow'
    BY <1>1 DEF AtomicInv, CallsGrow
  <1>6. \A q \in Callers : calls[q] <= calls'[q] /\ calls'[q] \in Nat
    BY <1>1, <1>2, Bounds DEF StackInv, StackTypes
  <1>7. ASSUME NEW q \in Callers, NEW n \in CallNos, OwnerCall(q, n)'
        PROVE  OwnerCall(q, n) \/ WritesIn(q, n) = {}
    BY <1>1, <1>2, <1>3, <1>7 DEF OwnerCall, StackInv, StackTypes
  <1> QED
    BY <1>1, <1>3, <1>4, <1>5, <1>6, <1>7, QuietAtomic

\* The writes of two transactions are not the same ones.
LEMMA OwnWrites ==
  ASSUME NEW r, NEW q, NEW n, NEW m, r # q \/ n # m
  PROVE  WritesIn(r, n) \cap WritesIn(q, m) = {}
  BY DEF WritesIn

\* The top call goes on, and commits its own writes at most.
LEMMA TopAtomic ==
  ASSUME StackInv, DbTypes, SessionInv, AtomicInv, NEW r \in Callers, depth[r] > 0,
         TopOnly(r), wrote' = wrote,
         \/ committed' = committed
         \/ committed' = committed \cup WritesIn(r, Top(r).call),
         \A k \in Conns : pending'[k] # pending[k] => holder[k] = <<r, depth[r]>>,
         WritesOK(r, depth[r])'
  PROVE  AtomicInv'
  <1>1. UNCHANGED <<depth, calls, home>> /\ SameWrites
    BY NoNewWrites DEF TopOnly
  <1>2. PICK m : m = Top(r).call
    OBVIOUS
  <1>3. depth[r] \in 1..depth[r] /\ depth[r] \in Nat
    BY Bounds DEF StackInv, StackTypes
  <1>4. ASSUME NEW q \in Callers, NEW n, q # r \/ n # m
        PROVE  WritesIn(q, n) \cap committed' = WritesIn(q, n) \cap committed
    BY <1>2, <1>4, OwnWrites
  <1>5. ASSUME NEW q \in Callers, NEW d \in 1..depth[q], q # r \/ d # depth[r]
        PROVE  WritesOK(q, d)'
    <2>1. /\ d \in Nat /\ d <= depth[q] /\ WritesOK(q, d) /\ SessionOK(q, d)
          /\ frame[q][d].conn \in Conns \cup {NoConn}
      BY FrameConn DEF AtomicInv, SessionInv
    <2>2. q # r \/ frame[q][d].call # m
      <3>1. q = r => d < depth[r]
        BY <1>3, <1>5, <2>1
      <3>2. q = r => frame[r][d].call < m /\ frame[r][d].call \in 1..calls[r]
        BY <1>2, <1>3, <3>1 DEF AtomicInv, CallsGrow, Top, StackInv, FrameOK
      <3>3. m \in 1..calls[r] /\ calls[r] \in Nat
        BY <1>2, <1>3, Bounds DEF Top, StackInv, StackTypes, FrameOK
      <3> QED
        BY <3>2, <3>3
    <2>3. WritesIn(q, frame[q][d].call) \cap committed'
            = WritesIn(q, frame[q][d].call) \cap committed
      BY <1>4, <2>2
    <2>4. frame[q][d].conn # NoConn /\ OwnsAt(q, d) =>
            pending'[frame[q][d].conn] = pending[frame[q][d].conn]
      BY <1>5, <2>1 DEF SessionOK
    <2>5. Kept(q, d) /\ frame'[q][d].phase = frame[q][d].phase
      BY <1>1, <1>5 DEF TopOnly, Kept
    <2> QED
      BY <1>1, <2>1, <2>3, <2>4, <2>5, KeptWrites
  <1>6. CallsGrow'
    <2>1. \A q \in Callers : \A d \in 1..depth[q] : frame'[q][d].call = frame[q][d].call
      BY DEF TopOnly, Top
    <2> QED
      BY <1>1, <2>1 DEF AtomicInv, CallsGrow
  <1>7. committed \subseteq committed' /\ committed' \subseteq wrote'
    BY DEF AtomicInv, WritesMade, WritesIn
  <1>8. WritesMade'
    BY <1>1, <1>7 DEF AtomicInv, WritesMade
  <1>9. AllOrNothing'
    <2> SUFFICES ASSUME NEW q \in Callers, NEW n \in CallNos, OwnerCall(q, n)
                 PROVE  \/ WritesIn(q, n) \subseteq committed'
                        \/ WritesIn(q, n) \cap committed' = {}
      BY <1>1 DEF AllOrNothing, OwnerCall, SameWrites
    <2>1. \/ WritesIn(q, n) \subseteq committed
          \/ WritesIn(q, n) \cap committed = {}
      BY DEF AtomicInv, AllOrNothing
    <2>2. CASE q # r \/ n # m
      BY <1>4, <1>7, <2>1, <2>2
    <2>3. CASE q = r /\ n = m
      BY <1>2, <2>1, <2>3
    <2> QED
      BY <2>2, <2>3
  <1> QED
    BY <1>1, <1>5, <1>6, <1>8, <1>9 DEF AtomicInv

\* What WritesOK says of the top call.
LEMMA TopWrites ==
  ASSUME StackInv, AtomicInv, NEW r \in Callers, depth[r] > 0, Owns(r)
  PROVE  /\ Top(r).phase \in {"lookup", "connect", "setPath", "begin"} =>
               WritesIn(r, Top(r).call) = {}
         /\ Top(r).phase \in {"body", "commit"} =>
               /\ WritesIn(r, Top(r).call) \cap committed = {}
               /\ Top(r).conn # NoConn => pending[Top(r).conn] = WritesIn(r, Top(r).call)
  <1>1. depth[r] \in 1..depth[r]
    BY Bounds DEF StackInv, StackTypes
  <1>2. WritesOK(r, depth[r])
    BY <1>1 DEF AtomicInv
  <1> QED
    BY <1>2 DEF WritesOK, Owns, Top

\* What it asks of the top call after it has gone on.
LEMMA TopWritesAfter ==
  ASSUME NEW r \in Callers, TopOnly(r), wrote' = wrote,
         LET f == frame'[r][depth[r]]
             W == WritesIn(r, Top(r).call)
         IN  Owns(r) =>
               /\ f.phase \in {"lookup", "connect", "setPath", "begin"} => W = {}
               /\ f.phase \in {"body", "commit"} =>
                     /\ W \cap committed' = {}
                     /\ f.conn # NoConn => pending'[f.conn] = W
  PROVE  WritesOK(r, depth[r])'
  <1>1. PICK n : n = Top(r).call
    OBVIOUS
  <1>2. WritesIn(r, n)' = WritesIn(r, n) /\ depth' = depth
    BY NoNewWrites DEF TopOnly, SameWrites
  <1>3. frame'[r][depth[r]].call = n
    BY <1>1 DEF TopOnly
  <1>4. WritesIn(r, frame[r][depth[r]].call)' = WritesIn(r, n)
    BY <1>2, <1>3
  <1>5. OwnsAt(r, depth[r])' => Owns(r)
    BY <1>1, <1>2, <1>3 DEF OwnsAt, Owns, TopOnly, Top
  <1> QED
    BY <1>1, <1>2, <1>4, <1>5 DEF WritesOK

\* The top call goes on without BEGIN, statement or COMMIT.
LEMMA GoOnAtomic ==
  ASSUME StackInv, DbTypes, SessionInv, AtomicInv, NEW r \in Callers, depth[r] > 0,
         TopOnly(r), UNCHANGED <<wrote, committed>>,
         \/ frame'[r][depth[r]].phase \in {"rollback", "release", "failing"}
         \/ /\ frame'[r][depth[r]].phase \in {"connect", "setPath", "begin"}
            /\ Top(r).phase \in {"lookup", "connect", "setPath"}
         \/ /\ frame'[r][depth[r]].phase \in {"body", "commit"}
            /\ Top(r).phase = "body" /\ frame'[r][depth[r]].conn = Top(r).conn
            /\ pending' = pending,
         \A k \in Conns : pending'[k] # pending[k] => holder[k] = <<r, depth[r]>>
  PROVE  AtomicInv'
  <1>1. WritesOK(r, depth[r])'
    BY TopWrites, TopWritesAfter
  <1> QED
    BY <1>1, TopAtomic

LEMMA SetupAtomic ==
  ASSUME StackInv, DbTypes, SessionInv, AtomicInv, NEW r \in Callers, Setup(r)
  PROVE  AtomicInv'
  <1>1. CASE Lookup(r)
    BY <1>1 DEF Lookup, txnVars, callVars, dbVars, AtomicInv, WritesOK, OwnsAt, WritesIn,
                CallsGrow, WritesMade, AllOrNothing, OwnerCall
  <1>2. CASE Resolve(r)
    BY <1>2, ResolveMove, GoOnAtomic DEF Resolve, At, callVars, dbVars
  <1>3. CASE Reject(r) \/ ConnectFail(r) \/ SetSearchPathFail(r) \/ StartTransactionFail(r)
    BY <1>3, SettleAtomic
    DEF Reject, ConnectFail, SetSearchPathFail, StartTransactionFail, At, dbVars
  <1>4. CASE Connect(r)
    BY <1>4, ConnectMove, GoOnAtomic DEF Connect, At, callVars
  <1>5. CASE SetSearchPath(r)
    <2>1. /\ depth[r] > 0 /\ Top(r).phase = "setPath" /\ GoTo(r, "begin")
          /\ UNCHANGED <<depth, calls, home, wrote, pending, committed>>
      BY <1>5 DEF SetSearchPath, At, callVars
    <2> QED
      BY <2>1, GoToMove, GoOnAtomic DEF Phases
  <1>6. CASE StartTransaction(r)
    <2>1. /\ depth[r] > 0 /\ Top(r).phase = "begin" /\ GoTo(r, "body")
          /\ Top(r).conn # NoConn
          /\ UNCHANGED <<depth, calls, home, wrote, pending, committed>>
      BY <1>6 DEF StartTransaction, At, callVars
    <2>2. TopOnly(r) /\ frame'[r][depth[r]].conn = Top(r).conn
      BY <2>1, GoToMove DEF Phases
    <2>3. pending[Top(r).conn] = {} /\ Owns(r)
      BY <2>1, TopHolds DEF OwnerPhases, Phases
    <2>4. WritesIn(r, Top(r).call) = {}
      BY <2>1, <2>3, TopWrites
    <2>5. WritesOK(r, depth[r])'
      BY <2>1, <2>2, <2>3, <2>4, TopWritesAfter
    <2> QED
      BY <2>1, <2>2, <2>5, TopAtomic
  <1> QED
    BY <1>1, <1>2, <1>3, <1>4, <1>5, <1>6 DEF Setup

LEMMA CallAtomic ==
  ASSUME StackInv, DbTypes, AtomicInv, NEW r \in Callers, Call(r)
  PROVE  AtomicInv'
  <1>1. CASE CallJoin(r)
    <2> DEFINE f == [NoFrame EXCEPT !.phase = "body", !.conn = ContextConn(r),
                                    !.call = calls[r] + 1]
               h == home[r][Top(r).call]
    <2>1. /\ MayCall(r) /\ depth[r] > 0 /\ Push(r, f)
          /\ home' = [home EXCEPT ![r][calls[r] + 1] = h]
          /\ UNCHANGED <<pending, committed>>
      BY <1>1 DEF CallJoin, dbVars
    <2>2. f.call = calls[r] + 1
      BY DEF NoFrame
    <2>3. h \in 1..calls[r]
      <3>1. Top(r).call \in 1..calls[r] /\ calls[r] \in Nat
        BY <2>1, TopOK, MayCallBounds DEF FrameOK, Top
      <3>2. h \in 1..Top(r).call
        BY <3>1 DEF StackInv
      <3> QED
        BY <3>1, <3>2
    <2> HIDE DEF f
    <2> QED
      BY <2>1, <2>2, <2>3, PushAtomic
  <1>2. ASSUME NEW p \in Propagations, CallNew(r, p) PROVE AtomicInv'
    <2> DEFINE f == [NoFrame EXCEPT !.phase = "lookup", !.propagation = p,
                                    !.call = calls[r] + 1]
    <2>1. /\ MayCall(r) /\ Push(r, f)
          /\ home' = [home EXCEPT ![r][calls[r] + 1] = calls[r] + 1]
          /\ UNCHANGED <<pending, committed>>
      BY <1>2 DEF CallNew, dbVars
    <2>2. f.call = calls[r] + 1 /\ f.phase = "lookup"
      BY DEF NoFrame
    <2> HIDE DEF f
    <2> QED
      BY <2>1, <2>2, PushAtomic
  <1>3. CASE CallWithoutTenant(r)
    BY <1>3, RefuseAtomic
  <1> QED
    BY <1>1, <1>2, <1>3 DEF Call

\* A statement adds a write to the transaction it joined, and to no other one.
LEMMA StatementAtomic ==
  ASSUME StackInv, DbTypes, JoinedInv, SessionInv, AtomicInv, NEW r \in Callers, SqlOk(r)
  PROVE  AtomicInv'
  <1> DEFINE c == Top(r).conn
             w == <<r, Top(r).call>>
  <1>1. /\ depth[r] > 0 /\ Top(r).phase = "body" /\ c # NoConn /\ w \notin wrote
        /\ pending' = [pending EXCEPT ![c] = @ \cup {w}]
        /\ wrote' = wrote \cup {w}
        /\ UNCHANGED <<depth, frame, calls, home, holder, committed>>
    BY DEF SqlOk, At
  <1>2. /\ depth[r] \in 1..depth[r] /\ depth[r] \in Nat
        /\ c \in Conns /\ Top(r).call \in 1..calls[r]
    <2>1. depth[r] \in 1..depth[r] /\ depth[r] \in Nat
      BY <1>1, TopOK, Bounds
    <2>3. c \in Conns
      <3>1. Top(r).conn \in Conns \cup {NoConn}
        BY <1>1, TopCall
      <3> QED
        BY <1>1, <3>1
    <2>2. Top(r).call \in 1..calls[r]
      BY <1>1, TopOK DEF FrameOK, Top
    <2> QED
      BY <2>1, <2>2, <2>3
  <1>3. PICK l \in 1..depth[r] : /\ frame[r][l].conn = c
                                 /\ OwnsAt(r, l)
                                 /\ frame[r][l].call = home[r][Top(r).call]
    BY <1>1, <1>2 DEF JoinedInv, JoinedOK, Top
  <1>4. PICK n : n = frame[r][l].call
    OBVIOUS
  <1>5. /\ holder[c] = <<r, l>> /\ frame[r][l].phase = "body"
        /\ WritesIn(r, n) \cap committed = {} /\ pending[c] = WritesIn(r, n)
    <2>1. FrameOK(r, l) /\ SessionOK(r, l) /\ WritesOK(r, l) /\ l <= depth[r] /\ l \in Nat
      BY FrameConn DEF SessionInv, AtomicInv
    <2>2. frame[r][l].phase = "body"
      BY <1>1, <1>2, <2>1 DEF FrameOK, Top
    <2> QED
      BY <1>1, <1>3, <1>4, <2>1, <2>2 DEF SessionOK, WritesOK
  <1>6. /\ WritesIn(r, n)' = WritesIn(r, n) \cup {w}
        /\ \A q, m : q # r \/ m # n => WritesIn(q, m)' = WritesIn(q, m)
    BY <1>1, <1>3, <1>4 DEF WritesIn
  <1>7. w \notin committed
    BY <1>1 DEF AtomicInv, WritesMade
  <1>8. ASSUME NEW q \in Callers, NEW d \in 1..depth[q], OwnsAt(q, d)
        PROVE  WritesOK(q, d)'
    <2>1. /\ d \in Nat /\ SessionOK(q, d) /\ WritesOK(q, d)
          /\ frame[q][d].conn \in Conns \cup {NoConn} /\ l \in Nat
      BY FrameConn DEF SessionInv, AtomicInv
    <2>2. CASE q = r /\ d = l
      <3>1. pending'[c] = WritesIn(r, n) \cup {w}
        BY <1>1, <1>2, <1>5 DEF DbTypes
      <3>2. WritesIn(q, frame[q][d].call)' = WritesIn(r, n) \cup {w}
        BY <1>1, <1>4, <1>6, <2>2
      <3> QED
        BY <1>1, <1>3, <1>5, <1>7, <2>2, <3>1, <3>2 DEF WritesOK
    <2>3. CASE q # r \/ d # l
      <3>1. q # r \/ frame[q][d].call # n
        <4>1. q = r => frame[q][d].call \in 1..calls[r] /\ n \in 1..calls[r]
          BY <1>4 DEF StackInv, FrameOK
        <4>2. q = r => frame[q][d].call < n \/ n < frame[q][d].call
          BY <1>4, <2>1, <2>3 DEF AtomicInv, CallsGrow
        <4>3. calls[r] \in Nat
          BY Bounds DEF StackInv, StackTypes
        <4> QED
          BY <4>1, <4>2, <4>3
      <3>2. WritesIn(q, frame[q][d].call)' = WritesIn(q, frame[q][d].call)
        BY <1>1, <1>6, <3>1
      <3>3. frame[q][d].conn # NoConn => pending'[frame[q][d].conn] = pending[frame[q][d].conn]
        BY <1>1, <1>5, <1>8, <2>1, <2>3 DEF SessionOK
      <3> QED
        BY <1>1, <2>1, <3>2, <3>3 DEF WritesOK, OwnsAt
    <2> QED
      BY <2>2, <2>3
  <1>9. \A q \in Callers : \A d \in 1..depth'[q] : WritesOK(q, d)'
    <2> SUFFICES ASSUME NEW q \in Callers, NEW d \in 1..depth[q] PROVE WritesOK(q, d)'
      BY <1>1
    <2>1. CASE ~OwnsAt(q, d)
      BY <1>1, <2>1 DEF WritesOK, OwnsAt
    <2> QED
      BY <1>8, <2>1
  <1>10. CallsGrow'
    BY <1>1 DEF AtomicInv, CallsGrow
  <1>11. WritesMade'
    BY <1>1, <1>2 DEF AtomicInv, WritesMade
  <1>12. AllOrNothing'
    <2> SUFFICES ASSUME NEW q \in Callers, NEW m \in CallNos, OwnerCall(q, m)
                 PROVE  \/ WritesIn(q, m)' \subseteq committed
                        \/ WritesIn(q, m)' \cap committed = {}
      BY <1>1 DEF AllOrNothing, OwnerCall
    <2>1. CASE q = r /\ m = n
      BY <1>5, <1>6, <1>7, <2>1
    <2>2. CASE q # r \/ m # n
      BY <1>6, <2>2 DEF AtomicInv, AllOrNothing
    <2> QED
      BY <2>1, <2>2
  <1> QED
    BY <1>9, <1>10, <1>11, <1>12 DEF AtomicInv

LEMMA BodyAtomic ==
  ASSUME StackInv, DbTypes, JoinedInv, SessionInv, AtomicInv, NEW r \in Callers, Body(r)
  PROVE  AtomicInv'
  <1>1. CASE SqlOk(r)
    BY <1>1, StatementAtomic
  <1>2. CASE SqlFail(r) \/ Throw(r) \/ ReturnOwner(r)
    <2>1. /\ depth[r] > 0 /\ Top(r).phase = "body"
          /\ UNCHANGED <<depth, calls, home, wrote, pending, committed>>
      BY <1>2 DEF SqlFail, Throw, ReturnOwner, At, callVars, dbVars
    <2>2. PICK p \in {"body", "rollback", "failing", "commit"} : GoTo(r, p)
      BY <1>2 DEF SqlFail, Throw, ReturnOwner, FailPhase
    <2> QED
      BY <2>1, <2>2, GoToMove, GoOnAtomic DEF Phases
  <1>3. CASE ReturnJoined(r)
    BY <1>3, SettleAtomic DEF ReturnJoined, At, dbVars
  <1> QED
    BY <1>1, <1>2, <1>3 DEF Body

\* COMMIT makes the writes of its transaction permanent, all of them.
LEMMA CommitAtomic ==
  ASSUME StackInv, DbTypes, SessionInv, AtomicInv, NEW r \in Callers,
         At(r, "commit"), Top(r).conn # NoConn, EndTransaction(Top(r).conn),
         \/ committed' = committed
         \/ committed' = committed \cup pending[Top(r).conn],
         TopOnly(r), wrote' = wrote,
         frame'[r][depth[r]].phase \in {"release", "rollback"}
  PROVE  AtomicInv'
  <1>1. depth[r] > 0 /\ Top(r).phase = "commit"
    BY DEF At
  <1>2. /\ Owns(r) /\ Top(r).conn \in Conns
        /\ holder[Top(r).conn] = <<r, depth[r]>>
    BY <1>1, TopHolds DEF OwnerPhases, Phases
  <1>3. pending[Top(r).conn] = WritesIn(r, Top(r).call)
    BY <1>1, <1>2, TopWrites
  <1>4. \A k \in Conns : pending'[k] # pending[k] => holder[k] = <<r, depth[r]>>
    BY <1>2 DEF EndTransaction
  <1>5. WritesOK(r, depth[r])'
    BY TopWritesAfter
  <1> QED
    BY <1>1, <1>3, <1>4, <1>5, TopAtomic

LEMMA FinishAtomic ==
  ASSUME StackInv, DbTypes, SessionInv, AtomicInv, NEW r \in Callers, Finish(r)
  PROVE  AtomicInv'
  <1>1. CASE RejectJoined(r) \/ Release(r)
    <2>1. depth[r] > 0 /\ UNCHANGED <<pending, committed>> /\ \E result : Settle(r, result)
      BY <1>1 DEF RejectJoined, Release, At, dbVars
    <2> QED
      BY <2>1, SettleAtomic
  <1>2. CASE CommitOk(r) \/ CommitRefused(r)
    <2>1. /\ depth[r] > 0 /\ At(r, "commit") /\ Top(r).conn # NoConn
          /\ EndTransaction(Top(r).conn)
          /\ \/ committed' = committed
             \/ committed' = committed \cup pending[Top(r).conn]
          /\ UNCHANGED <<depth, calls, home, wrote>>
      BY <1>2 DEF CommitOk, CommitRefused, At, callVars
    <2>2. PICK p \in {"release", "rollback"} : GoTo(r, p)
      BY <1>2 DEF CommitOk, CommitRefused, OnCommitError
    <2> QED
      BY <2>1, <2>2, GoToMove, CommitAtomic DEF Phases
  <1>3. CASE CommitReplyLost(r)
    <2>1. /\ At(r, "commit") /\ Top(r).conn # NoConn
          /\ EndTransaction(Top(r).conn)
          /\ committed' = committed \cup pending[Top(r).conn] /\ wrote' = wrote
      BY <1>3 DEF CommitReplyLost, callVars
    <2> QED
      BY <1>3, <2>1, ReplyLostMove, CommitAtomic
  <1>4. CASE CommitLost(r)
    <2>1. /\ depth[r] > 0 /\ GoTo(r, "rollback")
          /\ UNCHANGED <<depth, calls, home, wrote, pending, committed>>
      BY <1>4 DEF CommitLost, OnCommitError, At, callVars, dbVars
    <2> QED
      BY <2>1, GoToMove, GoOnAtomic DEF Phases
  <1>5. CASE Rollback(r)
    <2>1. /\ depth[r] > 0 /\ Top(r).phase = "rollback" /\ UNCHANGED <<wrote, committed>>
          /\ IF Top(r).conn = NoConn THEN UNCHANGED pending
             ELSE EndTransaction(Top(r).conn)
      BY <1>5 DEF Rollback, RolledBack, At, callVars
    <2>2. \A k \in Conns : pending'[k] # pending[k] => holder[k] = <<r, depth[r]>>
      <3>1. CASE Top(r).conn = NoConn
        BY <2>1, <3>1
      <3>2. CASE Top(r).conn # NoConn
        <4>1. holder[Top(r).conn] = <<r, depth[r]>>
          BY <2>1, <3>2, TopHolds DEF OwnerPhases, Phases
        <4> QED
          BY <2>1, <3>2, <4>1 DEF EndTransaction, DbTypes
      <3> QED
        BY <3>1, <3>2
    <2> QED
      BY <1>5, <2>1, <2>2, RollbackMove, GoOnAtomic
  <1> QED
    BY <1>1, <1>2, <1>3, <1>4, <1>5 DEF Finish

LEMMA DropAtomic ==
  ASSUME StackInv, DbTypes, AtomicInv, NEW c \in Conns, Drop(c) PROVE AtomicInv'
  <1>1. /\ Detach(c) /\ UNCHANGED <<depth, calls, home, wrote, committed>>
        /\ pending' = [pending EXCEPT ![c] = {}] /\ SameWrites
    BY NoNewWrites DEF Drop, callVars, EndTransaction
  <1>2. ASSUME NEW q \in Callers, NEW d \in 1..depth[q]
        PROVE  WritesOK(q, d)' /\ frame'[q][d].call = frame[q][d].call
    <2>1. d \in Levels /\ d \in Nat /\ frame[q][d] \in Frames /\ WritesOK(q, d)
      BY FrameConn DEF AtomicInv
    <2>2. CASE frame[q][d].conn = c
      <3>1. /\ frame'[q][d].conn = NoConn
            /\ frame'[q][d].phase = frame[q][d].phase
            /\ frame'[q][d].call = frame[q][d].call
        BY <1>1, <2>1, <2>2 DEF Detach, Frames
      <3>2. PICK n : n = frame[q][d].call
        OBVIOUS
      <3>3. WritesIn(q, frame[q][d].call)' = WritesIn(q, frame[q][d].call)
        BY <1>1, <3>1, <3>2 DEF SameWrites
      <3> QED
        BY <1>1, <2>1, <3>1, <3>3 DEF WritesOK, OwnsAt
    <2>3. CASE frame[q][d].conn # c
      <3>1. frame'[q][d] = frame[q][d]
        BY <1>1, <2>1, <2>3 DEF Detach
      <3>2. Kept(q, d) /\ pending'[frame[q][d].conn] = pending[frame[q][d].conn]
        BY <1>1, <2>3, <3>1 DEF Kept
      <3> QED
        BY <1>1, <2>1, <3>1, <3>2, KeptWrites
    <2> QED
      BY <2>2, <2>3
  <1>3. CallsGrow'
    BY <1>1, <1>2 DEF AtomicInv, CallsGrow
  <1>4. \A q \in Callers : calls[q] <= calls'[q] /\ calls'[q] \in Nat
    BY <1>1, Bounds DEF StackInv, StackTypes
  <1> QED
    BY <1>1, <1>2, <1>3, <1>4, QuietAtomic DEF OwnerCall

LEMMA AtomicInvStep == ConnectionInv /\ AtomicInv /\ [Next]_vars => AtomicInv'
  <1> SUFFICES ASSUME ConnectionInv, AtomicInv, [Next]_vars PROVE AtomicInv'
    OBVIOUS
  <1> USE DEF ConnectionInv
  <1>1. CASE UNCHANGED vars \/ Terminating
    BY <1>1 DEF Terminating, vars, txnVars, callVars, dbVars, AtomicInv, WritesOK, OwnsAt,
                WritesIn, CallsGrow, WritesMade, AllOrNothing, OwnerCall
  <1>2. ASSUME NEW r \in Callers, Step(r) PROVE AtomicInv'
    BY <1>2, SetupAtomic, CallAtomic, BodyAtomic, FinishAtomic DEF Step
  <1>3. ASSUME NEW c \in Conns, Drop(c) PROVE AtomicInv'
    BY <1>3, DropAtomic
  <1> QED
    BY <1>1, <1>2, <1>3 DEF Next

LEMMA AtomicInvariant == Spec => [](ConnectionInv /\ AtomicInv)
  <1>1. Init => AtomicInv
    BY DEF Init, PoolInit, AtomicInv, CallsGrow, WritesMade, AllOrNothing, WritesIn
  <1>2. ConnectionInv /\ AtomicInv /\ [Next]_vars => AtomicInv'
    BY AtomicInvStep
  <1> QED
    BY <1>1, <1>2, ConnectionInvariant, PTL DEF Spec

-----------------------------------------------------------------------------
(* The theorems.                                                           *)

\* Whatever fails or is lost, and however decorated methods call, join and catch
\* each other, the writes of a transaction are in the database completely or not
\* at all (executeInTransaction).
THEOREM TransactionsAreAtomic == Spec => []AllOrNothing
  <1>1. ConnectionInv /\ AtomicInv => AllOrNothing
    BY DEF AtomicInv
  <1> QED
    BY <1>1, AtomicInvariant, PTL

-----------------------------------------------------------------------------
(* What a caller is told.                                                  *)

\* The top call of r is about to reject, and takes the transaction that call n
\* opened with it.
Doomed(r, n) == At(r, "failing") /\ home[r][Top(r).call] = n

\* A pending call is not settled; release alone knows of a failure; a call that
\* joined was a REQUIRED one and joined the transaction of the call below it.
ShapeOK(r, d) ==
    LET f == frame[r][d]
    IN  /\ outcome[r][f.call] = "pending"
        /\ f.failed => f.phase = "release"
        /\ ~OwnsAt(r, d) =>
              /\ f.propagation = "REQUIRED"
              /\ d > 1
              /\ home[r][f.call] = home[r][frame[r][d - 1].call]

\* A body whose transaction PostgreSQL has aborted never comes to its COMMIT, and
\* what release will report is so.
EndOK(r, d) ==
    LET f == frame[r][d]
        W == WritesIn(r, f.call)
    IN  OwnsAt(r, d) =>
            /\ f.phase = "rollback" => W \cap committed = {}
            /\ f.phase = "release" =>
                  IF f.failed THEN W \cap committed = {} ELSE W \subseteq committed
            /\ f.conn # NoConn =>
                  /\ f.phase = "commit" => tx[f.conn] = "active"
                  /\ f.phase = "body" => tx[f.conn] = "active" \/ Doomed(r, f.call)

OutcomeInv ==
    /\ \A r \in Callers : \A d \in 1..depth[r] : ShapeOK(r, d)
    /\ \A r \in Callers : \A d \in 1..depth[r] : EndOK(r, d)
    /\ OutcomeIsTrue

\* The frame at level d of r keeps what ShapeOK is about.
KeptShape(r, d) ==
    /\ Kept(r, d)
    /\ frame'[r][d].failed = frame[r][d].failed
    /\ frame'[r][d].propagation = frame[r][d].propagation

\* A call that keeps its end in sight while others go on.
LEMMA KeptEnd ==
  ASSUME NEW r \in Callers, NEW d \in Nat, EndOK(r, d), KeptShape(r, d), SameWrites,
         frame'[r][d].phase \in {frame[r][d].phase, "rollback", "failing"},
         frame'[r][d].phase = "rollback" =>
            \/ frame[r][d].phase = "rollback"
            \/ WritesIn(r, frame[r][d].call) \cap committed = {},
         WritesIn(r, frame[r][d].call) \cap committed' =
            WritesIn(r, frame[r][d].call) \cap committed,
         frame[r][d].conn # NoConn /\ OwnsAt(r, d) /\ frame'[r][d].phase \in {"body", "commit"}
            => \/ tx'[frame[r][d].conn] = tx[frame[r][d].conn]
               \/ frame'[r][d].phase = "body" /\ Doomed(r, frame[r][d].call)',
         Doomed(r, frame[r][d].call) /\ OwnsAt(r, d) /\ frame'[r][d].phase = "body"
            => Doomed(r, frame[r][d].call)'
  PROVE  EndOK(r, d)'
  <1>1. PICK n : n = frame[r][d].call
    OBVIOUS
  <1>2. frame'[r][d].call = n /\ WritesIn(r, n)' = WritesIn(r, n)
    BY <1>1 DEF KeptShape, Kept, SameWrites
  <1>3. OwnsAt(r, d)' <=> OwnsAt(r, d)
    BY DEF KeptShape, Kept, OwnsAt
  <1>4. /\ frame'[r][d].conn = frame[r][d].conn
        /\ frame'[r][d].failed = frame[r][d].failed
    BY DEF KeptShape, Kept
  <1>5. WritesIn(r, frame[r][d].call)' = WritesIn(r, frame[r][d].call)
    BY <1>1, <1>2
  <1>6. WritesIn(r, frame[r][d].call) \subseteq committed
          => WritesIn(r, frame[r][d].call) \subseteq committed'
    OBVIOUS
  <1> QED
    BY <1>1, <1>3, <1>4, <1>5, <1>6 DEF EndOK

LEMMA KeptShapeOK ==
  ASSUME NEW r \in Callers, NEW d \in Nat \ {0}, ShapeOK(r, d),
         \A l \in 1..d : KeptShape(r, l),
         frame[r][d].failed => frame'[r][d].phase = frame[r][d].phase,
         outcome'[r][frame[r][d].call] = outcome[r][frame[r][d].call]
  PROVE  ShapeOK(r, d)'
  <1>1. /\ frame'[r][d].call = frame[r][d].call
        /\ frame'[r][d].failed = frame[r][d].failed
        /\ frame'[r][d].propagation = frame[r][d].propagation
        /\ home'[r][frame[r][d].call] = home[r][frame[r][d].call]
    BY DEF KeptShape, Kept
  <1>2. d > 1 => /\ frame'[r][d - 1].call = frame[r][d - 1].call
                 /\ home'[r][frame[r][d - 1].call] = home[r][frame[r][d - 1].call]
    BY DEF KeptShape, Kept
  <1> QED
    BY <1>1, <1>2 DEF ShapeOK, OwnsAt

\* Of the calls below a settling one only the next goes on.
LEMMA SettleShape ==
  ASSUME StackInv, NEW r \in Callers, depth[r] > 0, NEW result, Settle(r, result),
         NEW q \in Callers, NEW d \in 1..depth'[q]
  PROVE  /\ d \in 1..depth[q] /\ d \in Nat \ {0} /\ KeptShape(q, d)
         /\ q # r \/ d # depth[r] - 1 => frame'[q][d] = frame[q][d]
         /\ q = r => d < depth[r] /\ frame[q][d].phase = "body"
         /\ q = r /\ d = depth[r] - 1 => frame'[q][d].phase \in Resumed(r, result)
  <1>1. PICK p \in Resumed(r, result) : frame' = [frame EXCEPT ![r] = Popped(r, p)]
    BY DEF Settle
  <1>2. /\ depth' = [depth EXCEPT ![r] = depth[r] - 1] /\ home' = home
        /\ depth[r] \in 1..MaxDepth /\ depth \in [Callers -> Nat]
    BY Bounds DEF Settle, StackInv, StackTypes
  <1>3. d \in 1..depth[q] /\ d \in Nat \ {0} /\ (q = r => d < depth[r])
    BY <1>2
  <1>4. d \in Levels /\ frame[q][d] \in Frames /\ FrameOK(q, d)
    BY <1>3, FrameConn
  <1>5. q = r => frame[q][d].phase = "body"
    BY <1>3, <1>4 DEF FrameOK
  <1>6. ASSUME q # r \/ d # depth[r] - 1 PROVE frame'[q][d] = frame[q][d]
    <2>1. CASE q # r
      BY <1>1, <2>1 DEF StackInv, StackTypes
    <2>2. CASE q = r
      BY <1>1, <1>2, <1>3, <1>4, <1>6, <2>2 DEF Popped, StackInv, StackTypes
    <2> QED
      BY <2>1, <2>2
  <1>7. ASSUME q = r, d = depth[r] - 1
        PROVE  /\ frame'[q][d].phase = p
               /\ frame'[q][d].call = frame[q][d].call
               /\ frame'[q][d].conn = frame[q][d].conn
               /\ frame'[q][d].failed = frame[q][d].failed
               /\ frame'[q][d].propagation = frame[q][d].propagation
    <2>1. frame'[r][d] = [frame[r][d] EXCEPT !.phase = p]
      BY <1>1, <1>2, <1>4, <1>7 DEF Popped, StackInv, StackTypes
    <2>2. p \in Phases
      BY ResumedPhases DEF Phases
    <2> QED
      BY <1>4, <1>7, <2>1, <2>2, PhaseChange
  <1> QED
    BY <1>2, <1>3, <1>5, <1>6, <1>7 DEF KeptShape, Kept

\* A call settles with an outcome that is so.
LEMMA SettleOutcomes ==
  ASSUME StackInv, DbTypes, SessionInv, AtomicInv, OutcomeInv,
         Catch \subseteq {"REQUIRES_NEW"},
         NEW r \in Callers, depth[r] > 0, NEW result \in {"ok", "error"},
         Settle(r, result), UNCHANGED <<tx, committed>>,
         Top(r).phase = "failing" => result = "error",
         Owns(r) /\ result = "ok" => WritesIn(r, Top(r).call) \subseteq committed,
         Owns(r) /\ result = "error" => WritesIn(r, Top(r).call) \cap committed = {}
  PROVE  OutcomeInv'
  <1>1. /\ UNCHANGED <<calls, home, wrote>> /\ SameWrites
        /\ outcome' = [outcome EXCEPT ![r][Top(r).call] = result]
        /\ depth[r] \in 1..depth[r] /\ depth[r] \in Nat
        /\ depth' = [depth EXCEPT ![r] = depth[r] - 1]
    BY NoNewWrites, Bounds DEF Settle, StackInv, StackTypes
  <1>2. Top(r).call \in CallNos /\ Top(r).call \in Nat
    <2>1. Top(r).call \in CallNos
      BY TopCall
    <2>2. \A k \in CallNos : k \in Nat
      BY Bounds
    <2> QED
      BY <2>1, <2>2
  <1>3. ASSUME NEW q \in Callers, NEW d \in 1..depth'[q]
        PROVE  ShapeOK(q, d)'
    <2>1. /\ d \in 1..depth[q] /\ d \in Nat \ {0} /\ ShapeOK(q, d)
          /\ \A l \in 1..d : KeptShape(q, l)
          /\ q = r => d < depth[r] /\ frame[q][d].phase = "body"
          /\ q # r => frame'[q][d] = frame[q][d]
      <3>1. depth'[q] \in Nat
        BY SettleFrames
      <3>2. \A l \in 1..d : l \in 1..depth'[q]
        BY <3>1
      <3> QED
        BY <3>2, SettleShape DEF OutcomeInv
    <2>2. frame[q][d].failed => frame'[q][d].phase = frame[q][d].phase
      BY <2>1 DEF ShapeOK
    <2>3. q = r => frame[q][d].call < Top(r).call /\ frame[q][d].call \in Nat
      <3>1. q = r => frame[q][d].call < Top(r).call
        BY <1>1, <2>1 DEF AtomicInv, CallsGrow, Top
      <3>2. frame[q][d].call \in 1..calls[q] /\ calls[q] \in Nat
        <4>1. frame[q][d].call \in 1..calls[q]
          BY <2>1, FrameConn DEF FrameOK
        <4> QED
          BY <4>1, Bounds DEF StackInv, StackTypes
      <3> QED
        BY <3>1, <3>2
    <2>4. outcome'[q][frame[q][d].call] = outcome[q][frame[q][d].call]
      BY <1>1, <1>2, <2>3 DEF DbTypes
    <2> QED
      BY <2>1, <2>2, <2>4, KeptShapeOK
  <1>4. ASSUME NEW n, Doomed(r, n)
        PROVE  \/ Doomed(r, n)'
               \/ /\ depth[r] > 1
                  /\ frame[r][depth[r] - 1].call = n
                  /\ frame'[r][depth[r] - 1].phase = "rollback"
    <2>1. Top(r).phase = "failing" /\ home[r][Top(r).call] = n
      BY <1>4 DEF Doomed, At
    <2>2. ~Owns(r)
      BY <2>1, TopOK DEF FrameOK, Owns, OwnsAt, Top
    <2>3. /\ Top(r).propagation = "REQUIRED" /\ depth[r] > 1
          /\ home[r][frame[r][depth[r] - 1].call] = n
      BY <1>1, <2>1, <2>2 DEF OutcomeInv, ShapeOK, Owns, Top
    <2>4. PICK e : e = depth[r] - 1
      OBVIOUS
    <2>5. e \in 1..depth'[r] /\ depth'[r] = e
      BY <1>1, <2>3, <2>4 DEF StackInv, StackTypes
    <2>6. frame'[r][e].phase \in Resumed(r, "error") /\ KeptShape(r, e)
      BY <2>1, <2>4, <2>5, SettleShape
    <2>7. frame'[r][e].phase = FailPhase(r, e)
      BY <2>3, <2>4, <2>6 DEF Resumed
    <2>8. CASE OwnsAt(r, e)
      BY <2>3, <2>4, <2>7, <2>8 DEF FailPhase, OwnsAt
    <2>9. CASE ~OwnsAt(r, e)
      <3>1. frame'[r][e].phase = "failing"
        BY <2>7, <2>9 DEF FailPhase
      <3>2. home'[r][frame'[r][e].call] = n
        BY <2>3, <2>4, <2>6 DEF KeptShape, Kept
      <3>3. e \in Nat \ {0}
        BY <1>1, <2>3, <2>4
      <3> QED
        BY <2>5, <3>1, <3>2, <3>3 DEF Doomed, At, Top
    <2> QED
      BY <2>3, <2>4, <2>8, <2>9
  <1>5. ASSUME NEW q \in Callers, q # r, NEW n, Doomed(q, n) PROVE Doomed(q, n)'
    BY <1>1, <1>5 DEF Doomed, At, Top, Settle, StackInv, StackTypes
  <1>6. ASSUME NEW q \in Callers, NEW d \in 1..depth'[q] PROVE EndOK(q, d)'
    <2>1. /\ d \in 1..depth[q] /\ d \in Nat \ {0} /\ EndOK(q, d) /\ WritesOK(q, d)
          /\ KeptShape(q, d)
          /\ q = r => d < depth[r] /\ frame[q][d].phase = "body"
          /\ q # r \/ d # depth[r] - 1 => frame'[q][d] = frame[q][d]
          /\ q = r /\ d = depth[r] - 1 => frame'[q][d].phase \in Resumed(r, result)
      BY SettleShape DEF OutcomeInv, AtomicInv
    <2>2. CASE OwnsAt(q, d)
      <3>1. frame'[q][d].phase \in {frame[q][d].phase, "rollback", "failing"}
        BY <1>1, <2>1 DEF Resumed, FailPhase
      <3>2. frame'[q][d].phase = "rollback" =>
               \/ frame[q][d].phase = "rollback"
               \/ WritesIn(q, frame[q][d].call) \cap committed = {}
        BY <2>1, <2>2, <3>1 DEF WritesOK
      <3>3. PICK n : n = frame[q][d].call
        OBVIOUS
      <3>4. Doomed(q, n) /\ frame'[q][d].phase = "body" => Doomed(q, n)'
        <4>1. CASE q # r
          BY <1>5, <4>1
        <4>2. CASE q = r
          <5> SUFFICES ASSUME Doomed(r, n), frame'[r][d].phase = "body", ~Doomed(r, n)'
                       PROVE  FALSE
            BY <4>2
          <5>1. /\ depth[r] > 1 /\ frame[r][depth[r] - 1].call = n
                /\ frame'[r][depth[r] - 1].phase = "rollback"
            BY <1>4
          <5>2. depth[r] - 1 \in 1..depth[r] /\ frame[r][depth[r] - 1].call \in 1..calls[r]
                /\ calls[r] \in Nat
            BY <1>1, <5>1, Bounds DEF StackInv, FrameOK, StackTypes
          <5>3. d < depth[r] - 1
            BY <1>1, <2>1, <4>2, <5>1
          <5>4. frame[r][d].call < frame[r][depth[r] - 1].call
            BY <2>1, <4>2, <5>2, <5>3 DEF AtomicInv, CallsGrow
          <5> QED
            BY <3>3, <4>2, <5>1, <5>2, <5>4
        <4> QED
          BY <4>1, <4>2
      <3>5. frame'[q][d].call = n
        BY <2>1, <3>3 DEF KeptShape, Kept
      <3>6. Doomed(q, frame[q][d].call) /\ frame'[q][d].phase = "body"
               => Doomed(q, frame[q][d].call)'
        BY <3>3, <3>4, <3>5 DEF Doomed
      <3> QED
        BY <1>1, <2>1, <3>1, <3>2, <3>6, KeptEnd
    <2>3. CASE ~OwnsAt(q, d)
      BY <2>1, <2>3 DEF EndOK, OwnsAt, KeptShape, Kept
    <2> QED
      BY <2>2, <2>3
  <1>7. OutcomeIsTrue'
    <2> SUFFICES ASSUME NEW q \in Callers, NEW n \in CallNos, OwnerCall(q, n)
                 PROVE  /\ outcome'[q][n] = "ok" => WritesIn(q, n) \subseteq committed
                        /\ outcome'[q][n] = "error" => WritesIn(q, n) \cap committed = {}
      BY <1>1 DEF OutcomeIsTrue, OwnerCall, SameWrites
    <2>1. CASE q = r /\ n = Top(r).call
      <3>1. Owns(r) /\ outcome'[q][n] = result
        BY <1>1, <1>2, <2>1 DEF OwnerCall, Owns, OwnsAt, Top, DbTypes
      <3> QED
        BY <2>1, <3>1
    <2>2. CASE q # r \/ n # Top(r).call
      <3>1. outcome'[q][n] = outcome[q][n]
        BY <1>1, <1>2, <2>2 DEF DbTypes
      <3> QED
        BY <3>1 DEF OutcomeInv, OutcomeIsTrue
    <2> QED
      BY <2>1, <2>2
  <1> QED
    BY <1>3, <1>6, <1>7 DEF OutcomeInv

\* What it asks of the top call after it has gone on.
LEMMA TopEndAfter ==
  ASSUME NEW r \in Callers, TopOnly(r), wrote' = wrote,
         LET f == frame'[r][depth[r]]
             W == WritesIn(r, Top(r).call)
         IN  Owns(r) =>
               /\ f.phase = "rollback" => W \cap committed' = {}
               /\ f.phase = "release" =>
                     IF f.failed THEN W \cap committed' = {} ELSE W \subseteq committed'
               /\ f.phase \in {"body", "commit"} /\ f.conn # NoConn =>
                     tx'[f.conn] = "active"
  PROVE  EndOK(r, depth[r])'
  <1>1. PICK n : n = Top(r).call
    OBVIOUS
  <1>2. WritesIn(r, n)' = WritesIn(r, n) /\ depth' = depth
    BY NoNewWrites DEF TopOnly, SameWrites
  <1>3. frame'[r][depth[r]].call = n
    BY <1>1 DEF TopOnly
  <1>4. WritesIn(r, frame[r][depth[r]].call)' = WritesIn(r, n)
    BY <1>2, <1>3
  <1>5. OwnsAt(r, depth[r])' => Owns(r)
    BY <1>1, <1>2, <1>3 DEF OwnsAt, Owns, TopOnly, Top
  <1> QED
    BY <1>1, <1>2, <1>4, <1>5 DEF EndOK

\* The top call goes on.
LEMMA TopOutcomes ==
  ASSUME StackInv, DbTypes, SessionInv, AtomicInv, OutcomeInv,
         NEW r \in Callers, depth[r] > 0, TopOnly(r), UNCHANGED <<wrote, outcome>>,
         \/ committed' = committed
         \/ committed' = committed \cup WritesIn(r, Top(r).call),
         \A q \in Callers : \A d \in 1..depth[q] :
            /\ q # r \/ d # depth[r]
            /\ OwnsAt(q, d) /\ frame[q][d].conn # NoConn
            => \/ tx'[frame[q][d].conn] = tx[frame[q][d].conn]
               \/ /\ q = r /\ frame'[r][depth[r]].phase = "failing"
                  /\ home[r][Top(r).call] = frame[q][d].call,
         Top(r).phase # "failing",
         frame'[r][depth[r]].propagation = Top(r).propagation,
         frame'[r][depth[r]].failed => frame'[r][depth[r]].phase = "release",
         EndOK(r, depth[r])'
  PROVE  OutcomeInv'
  <1>1. UNCHANGED <<depth, calls, home>> /\ SameWrites
    BY NoNewWrites DEF TopOnly
  <1>2. PICK m : m = Top(r).call
    OBVIOUS
  <1>3. /\ depth[r] \in 1..depth[r] /\ depth[r] \in Nat \ {0}
        /\ frame'[r][depth[r]].call = frame[r][depth[r]].call
    BY Bounds DEF StackInv, StackTypes, TopOnly, Top
  <1>4. ASSUME NEW q \in Callers, NEW n, q # r \/ n # m
        PROVE  WritesIn(q, n) \cap committed' = WritesIn(q, n) \cap committed
    BY <1>2, <1>4, OwnWrites
  <1>5. ASSUME NEW q \in Callers, NEW d \in 1..depth[q] PROVE ShapeOK(q, d)'
    <2>1. d \in Nat \ {0} /\ d <= depth[q] /\ ShapeOK(q, d) /\ depth[q] \in Nat
      BY FrameConn DEF OutcomeInv
    <2>2. CASE q # r \/ d # depth[r]
      <3>1. \A l \in 1..d : l \in 1..depth[q] /\ (q # r \/ l # depth[r])
        BY <1>3, <2>1, <2>2
      <3>2. \A l \in 1..d : KeptShape(q, l)
        BY <1>1, <3>1 DEF TopOnly, KeptShape, Kept
      <3>3. frame'[q][d] = frame[q][d]
        BY <2>2 DEF TopOnly
      <3> QED
        BY <1>1, <2>1, <3>2, <3>3, KeptShapeOK
    <2>3. CASE q = r /\ d = depth[r]
      <3>1. d > 1 => frame'[r][d - 1] = frame[r][d - 1]
        <4>1. d > 1 => d - 1 \in 1..depth[r] /\ d - 1 # depth[r]
          BY <1>3, <2>3
        <4> QED
          BY <4>1 DEF TopOnly
      <3> QED
        BY <1>1, <1>3, <2>1, <2>3, <3>1 DEF ShapeOK, OwnsAt, Top
    <2> QED
      BY <2>2, <2>3
  <1>6. \A n : ~Doomed(r, n)
    BY DEF Doomed, At
  <1>7. ASSUME NEW q \in Callers, NEW d \in 1..depth[q], q # r \/ d # depth[r]
        PROVE  EndOK(q, d)'
    <2>1. /\ d \in Nat /\ d <= depth[q] /\ EndOK(q, d)
          /\ frame'[q][d] = frame[q][d] /\ KeptShape(q, d)
      BY <1>1, <1>7, FrameConn DEF OutcomeInv, TopOnly, KeptShape, Kept
    <2>2. CASE OwnsAt(q, d)
      <3>1. q # r \/ frame[q][d].call # m
        <4>1. q = r => d < depth[r]
          BY <1>3, <1>7, <2>1
        <4>2. q = r => frame[r][d].call < m /\ frame[r][d].call \in 1..calls[r]
          BY <1>2, <1>3, <4>1 DEF AtomicInv, CallsGrow, Top, StackInv, FrameOK
        <4>3. m \in 1..calls[r] /\ calls[r] \in Nat
          BY <1>2, <1>3, Bounds DEF Top, StackInv, StackTypes, FrameOK
        <4> QED
          BY <4>2, <4>3
      <3>2. WritesIn(q, frame[q][d].call) \cap committed'
              = WritesIn(q, frame[q][d].call) \cap committed
        BY <1>4, <3>1
      <3>3. Doomed(q, frame[q][d].call) => Doomed(q, frame[q][d].call)'
        <4>1. CASE q = r
          BY <1>6, <4>1
        <4>2. CASE q # r
          <5>1. depth[q] \in 1..depth[q]
            BY <2>1, Bounds DEF StackInv, StackTypes
          <5>2. frame'[q][depth[q]] = frame[q][depth[q]]
            BY <4>2, <5>1 DEF TopOnly
          <5> QED
            BY <1>1, <2>1, <5>2 DEF Doomed, At, Top
        <4> QED
          BY <4>1, <4>2
      <3>4. frame[q][d].conn # NoConn =>
               \/ tx'[frame[q][d].conn] = tx[frame[q][d].conn]
               \/ Doomed(q, frame[q][d].call)' /\ q = r /\ d < depth[r]
        BY <1>1, <1>3, <1>7, <2>1, <2>2 DEF Doomed, At, Top
      <3>5. q = r /\ d < depth[r] => frame[q][d].phase = "body"
        BY FrameConn DEF FrameOK
      <3> QED
        BY <1>1, <2>1, <2>2, <3>2, <3>3, <3>4, <3>5, KeptEnd
    <2>3. CASE ~OwnsAt(q, d)
      BY <2>1, <2>3 DEF EndOK, OwnsAt, KeptShape, Kept
    <2> QED
      BY <2>2, <2>3
  <1>8. OutcomeIsTrue'
    <2> SUFFICES ASSUME NEW q \in Callers, NEW n \in CallNos, OwnerCall(q, n)
                 PROVE  /\ outcome[q][n] = "ok" => WritesIn(q, n) \subseteq committed'
                        /\ outcome[q][n] = "error" => WritesIn(q, n) \cap committed' = {}
      BY <1>1 DEF OutcomeIsTrue, OwnerCall, SameWrites
    <2>1. /\ outcome[q][n] = "ok" => WritesIn(q, n) \subseteq committed
          /\ outcome[q][n] = "error" => WritesIn(q, n) \cap committed = {}
      BY DEF OutcomeInv, OutcomeIsTrue
    <2>2. CASE q # r \/ n # m
      BY <1>4, <2>1, <2>2
    <2>3. CASE q = r /\ n = m
      <3>1. outcome[q][n] = "pending"
        BY <1>2, <1>3, <2>3 DEF OutcomeInv, ShapeOK, Top
      <3> QED
        BY <3>1
    <2> QED
      BY <2>2, <2>3
  <1> QED
    BY <1>1, <1>5, <1>7, <1>8 DEF OutcomeInv

\* The session of the top call's own connection is nobody else's.
LEMMA OthersKeepTx ==
  ASSUME StackInv, SessionInv, NEW r \in Callers, depth[r] > 0,
         NEW q \in Callers, NEW d \in 1..depth[q], q # r \/ d # depth[r],
         OwnsAt(q, d), frame[q][d].conn # NoConn,
         \A k \in Conns : tx'[k] # tx[k] => holder[k] = <<r, depth[r]>>
  PROVE  tx'[frame[q][d].conn] = tx[frame[q][d].conn]
  <1>1. SessionOK(q, d) /\ frame[q][d].conn \in Conns
    BY FrameConn DEF SessionInv
  <1> QED
    BY <1>1 DEF SessionOK

\* GoTo changes nothing but the phase.
LEMMA GoToShape ==
  ASSUME StackInv, NEW r \in Callers, depth[r] > 0, NEW p \in Phases, GoTo(r, p)
  PROVE  /\ frame'[r][depth[r]].failed = Top(r).failed
         /\ frame'[r][depth[r]].propagation = Top(r).propagation
  <1>1. depth[r] \in Levels /\ Top(r) \in Frames
    BY TopOK
  <1>2. frame'[r][depth[r]] = [Top(r) EXCEPT !.phase = p]
    BY <1>1 DEF GoTo, Top, StackInv, StackTypes
  <1> QED
    BY <1>1, <1>2, PhaseChange

\* No frame that runs or sets up knows of a failure.
LEMMA TopShape ==
  ASSUME StackInv, OutcomeInv, NEW r \in Callers, depth[r] > 0
  PROVE  /\ Top(r).phase # "release" => ~Top(r).failed
         /\ outcome[r][Top(r).call] = "pending"
         /\ EndOK(r, depth[r])
  <1>1. depth[r] \in 1..depth[r] /\ Top(r) \in Frames
    BY TopOK, Bounds DEF StackInv, StackTypes
  <1>2. ShapeOK(r, depth[r]) /\ EndOK(r, depth[r])
    BY <1>1 DEF OutcomeInv
  <1> QED
    BY <1>1, <1>2 DEF ShapeOK, Top

\* The top call goes on by GoTo, no session but its own changes.
LEMMA GoToOutcomes ==
  ASSUME StackInv, DbTypes, SessionInv, AtomicInv, OutcomeInv,
         NEW r \in Callers, depth[r] > 0, NEW p \in Phases, GoTo(r, p),
         UNCHANGED <<depth, calls, home, wrote, outcome>>,
         Top(r).phase \notin {"failing", "release"},
         \/ committed' = committed
         \/ committed' = committed \cup WritesIn(r, Top(r).call),
         \A k \in Conns : tx'[k] # tx[k] => holder[k] = <<r, depth[r]>>,
         EndOK(r, depth[r])'
  PROVE  OutcomeInv'
  <1>1. /\ TopOnly(r) /\ ~Top(r).failed
        /\ frame'[r][depth[r]].failed = Top(r).failed
        /\ frame'[r][depth[r]].propagation = Top(r).propagation
    BY GoToMove, GoToShape, TopShape
  <1>2. \A q \in Callers : \A d \in 1..depth[q] :
           /\ q # r \/ d # depth[r]
           /\ OwnsAt(q, d) /\ frame[q][d].conn # NoConn
           => tx'[frame[q][d].conn] = tx[frame[q][d].conn]
    BY OthersKeepTx
  <1> QED
    BY <1>1, <1>2, TopOutcomes

\* Resolve, connect and rollback change neither the kind of the top call nor, but
\* for rollback, what release will report.
LEMMA RecordShape ==
  ASSUME StackInv, NEW r \in Callers, Resolve(r) \/ Connect(r) \/ Rollback(r)
  PROVE  /\ frame'[r][depth[r]].propagation = Top(r).propagation
         /\ Resolve(r) \/ Connect(r) => frame'[r][depth[r]].failed = Top(r).failed
         /\ Rollback(r) => frame'[r][depth[r]].failed
  <1>1. depth[r] > 0
    BY DEF Resolve, Connect, Rollback, At
  <1>2. /\ Top(r) \in Frames /\ depth[r] \in Levels
        /\ frame \in [Callers -> [Levels -> Frames]]
    BY <1>1, TopOK DEF StackInv, StackTypes
  <1>3. CASE Resolve(r)
    <2> DEFINE g == [Top(r) EXCEPT !.phase = "connect", !.ds = lookup[r].ds]
    <2>1. frame' = [frame EXCEPT ![r][depth[r]] = g] /\ Top(r).phase = "lookup"
      BY <1>3 DEF Resolve, At, Top
    <2>2. frame'[r][depth[r]] = g
      BY <1>2, <2>1
    <2>3. g.failed = Top(r).failed /\ g.propagation = Top(r).propagation /\ g.phase = "connect"
      BY <1>2 DEF Frames
    <2> QED
      BY <2>1, <2>2, <2>3 DEF Rollback, At
  <1>4. CASE Connect(r)
    <2>1. PICK c : frame' = [frame EXCEPT ![r][depth[r]].phase = "setPath",
                                          ![r][depth[r]].conn = c,
                                          ![r][depth[r]].ds = NoDataSource]
      BY <1>4 DEF Connect
    <2> DEFINE g == [Top(r) EXCEPT !.phase = "setPath", !.conn = c, !.ds = NoDataSource]
    <2>2. frame' = [frame EXCEPT ![r][depth[r]] = g]
      BY <1>2, <2>1, Zenon DEF Top
    <2>3. frame'[r][depth[r]] = g
      BY <1>2, <2>2
    <2>4. g.failed = Top(r).failed /\ g.propagation = Top(r).propagation
      BY <1>2 DEF Frames
    <2> QED
      BY <1>4, <2>3, <2>4 DEF Connect, Rollback, At
  <1>5. CASE Rollback(r)
    <2> DEFINE g == [Top(r) EXCEPT !.phase = "release", !.failed = TRUE]
    <2>1. frame' = [frame EXCEPT ![r][depth[r]] = g]
      BY <1>5 DEF Rollback, Top
    <2>2. frame'[r][depth[r]] = g
      BY <1>2, <2>1
    <2>3. g.failed /\ g.propagation = Top(r).propagation
      BY <1>2 DEF Frames
    <2> QED
      BY <1>5, <2>2, <2>3 DEF Resolve, Connect, Rollback, At
  <1> QED
    BY <1>3, <1>4, <1>5

LEMMA SameOutcomes ==
  OutcomeInv /\ UNCHANGED <<txnVars, tx, committed>> => OutcomeInv'
  BY DEF OutcomeInv, ShapeOK, EndOK, OwnsAt, WritesIn, Doomed, At, Top, OutcomeIsTrue,
         OwnerCall, txnVars, callVars

LEMMA SetupOutcomes ==
  ASSUME StackInv, DbTypes, SessionInv, AtomicInv, OutcomeInv,
         Catch \subseteq {"REQUIRES_NEW"}, NEW r \in Callers, Setup(r)
  PROVE  OutcomeInv'
  <1>1. CASE Lookup(r)
    BY <1>1, SameOutcomes DEF Lookup, dbVars
  <1>2. CASE Reject(r) \/ ConnectFail(r) \/ SetSearchPathFail(r) \/ StartTransactionFail(r)
    <2>1. /\ depth[r] > 0 /\ Top(r).phase \in {"lookup", "connect", "setPath", "begin"}
          /\ Settle(r, "error") /\ UNCHANGED <<tx, committed>>
      BY <1>2 DEF Reject, ConnectFail, SetSearchPathFail, StartTransactionFail, At, dbVars
    <2>2. Owns(r) => WritesIn(r, Top(r).call) = {}
      BY <2>1, TopWrites
    <2> QED
      BY <2>1, <2>2, SettleOutcomes
  <1>3. CASE Resolve(r) \/ Connect(r)
    <2>1. /\ depth[r] > 0 /\ Top(r).phase \in {"lookup", "connect"}
          /\ UNCHANGED <<wrote, outcome, committed, tx>>
      BY <1>3 DEF Resolve, Connect, At, callVars, dbVars
    <2>2. TopOnly(r) /\ frame'[r][depth[r]].phase \in {"connect", "setPath"}
      BY <1>3, ResolveMove, ConnectMove
    <2>3. /\ frame'[r][depth[r]].propagation = Top(r).propagation
          /\ ~frame'[r][depth[r]].failed
      BY <1>3, <2>1, RecordShape, TopShape
    <2>4. EndOK(r, depth[r])'
      BY <2>1, <2>2, TopEndAfter
    <2> QED
      BY <2>1, <2>2, <2>3, <2>4, TopOutcomes
  <1>4. CASE SetSearchPath(r)
    <2>1. /\ depth[r] > 0 /\ Top(r).phase = "setPath" /\ GoTo(r, "begin")
          /\ UNCHANGED <<depth, calls, home, wrote, outcome, committed, tx>>
      BY <1>4 DEF SetSearchPath, At, callVars
    <2>2. EndOK(r, depth[r])'
      BY <2>1, GoToMove, TopEndAfter DEF Phases
    <2> QED
      BY <2>1, <2>2, GoToOutcomes DEF Phases
  <1>5. CASE StartTransaction(r)
    <2>1. /\ depth[r] > 0 /\ Top(r).phase = "begin" /\ GoTo(r, "body")
          /\ Top(r).conn # NoConn /\ tx' = [tx EXCEPT ![Top(r).conn] = "active"]
          /\ UNCHANGED <<depth, calls, home, wrote, outcome, committed>>
      BY <1>5 DEF StartTransaction, At, callVars
    <2>2. Top(r).conn \in Conns /\ holder[Top(r).conn] = <<r, depth[r]>>
      BY <2>1, TopHolds DEF OwnerPhases, Phases
    <2>3. /\ tx'[Top(r).conn] = "active"
          /\ \A k \in Conns : tx'[k] # tx[k] => holder[k] = <<r, depth[r]>>
      BY <2>1, <2>2 DEF DbTypes
    <2>4. EndOK(r, depth[r])'
      BY <2>1, <2>3, GoToMove, TopEndAfter DEF Phases
    <2> QED
      BY <2>1, <2>3, <2>4, GoToOutcomes DEF Phases
  <1> QED
    BY <1>1, <1>2, <1>3, <1>4, <1>5 DEF Setup

\* What a statement adds to the transaction it runs in, whose body is not done.
LEMMA StatementWrites ==
  ASSUME StackInv, JoinedInv, SessionInv, AtomicInv, NEW r \in Callers, SqlOk(r)
  PROVE  \E l \in 1..depth[r] :
           /\ OwnsAt(r, l) /\ frame[r][l].phase = "body"
           /\ \A q, m : q # r \/ m # frame[r][l].call => WritesIn(q, m)' = WritesIn(q, m)
  <1>1. /\ depth[r] > 0 /\ Top(r).phase = "body" /\ Top(r).conn # NoConn
        /\ wrote' = wrote \cup {<<r, Top(r).call>>} /\ home' = home
    BY DEF SqlOk, At
  <1>2. depth[r] \in 1..depth[r] /\ depth[r] \in Nat
    BY <1>1, TopOK, Bounds
  <1>3. PICK l \in 1..depth[r] : /\ OwnsAt(r, l)
                                 /\ frame[r][l].call = home[r][Top(r).call]
    BY <1>1, <1>2 DEF JoinedInv, JoinedOK, Top
  <1>4. frame[r][l].phase = "body"
    <2>1. FrameOK(r, l) /\ l \in Nat /\ l <= depth[r]
      BY FrameConn
    <2> QED
      BY <1>1, <1>2, <2>1 DEF FrameOK, Top
  <1>5. \A q, m : q # r \/ m # frame[r][l].call => WritesIn(q, m)' = WritesIn(q, m)
    BY <1>1, <1>3 DEF WritesIn
  <1> QED
    BY <1>3, <1>4, <1>5

LEMMA StatementOutcomes ==
  ASSUME StackInv, DbTypes, JoinedInv, SessionInv, AtomicInv, OutcomeInv,
         NEW r \in Callers, SqlOk(r)
  PROVE  OutcomeInv'
  <1>1. UNCHANGED <<depth, frame, calls, home, outcome, tx, committed>>
    BY DEF SqlOk
  <1>2. PICK l \in 1..depth[r] :
           /\ OwnsAt(r, l) /\ frame[r][l].phase = "body"
           /\ \A q, m : q # r \/ m # frame[r][l].call => WritesIn(q, m)' = WritesIn(q, m)
    BY StatementWrites
  <1>3. PICK n : n = frame[r][l].call
    OBVIOUS
  <1>4. \A q \in Callers : \A d \in 1..depth'[q] : ShapeOK(q, d)'
    BY <1>1 DEF OutcomeInv, ShapeOK, OwnsAt
  <1>5. ASSUME NEW q \in Callers, NEW d \in 1..depth[q] PROVE EndOK(q, d)'
    <2>1. EndOK(q, d) /\ d \in Nat /\ l \in Nat
      BY FrameConn DEF OutcomeInv
    <2>2. PICK m : m = frame[q][d].call
      OBVIOUS
    <2>3. CASE q # r \/ m # n
      <3>1. WritesIn(q, m)' = WritesIn(q, m)
        BY <1>2, <1>3, <2>3
      <3>2. WritesIn(q, frame[q][d].call)' = WritesIn(q, frame[q][d].call)
        BY <1>1, <2>2, <3>1
      <3> QED
        BY <1>1, <2>1, <3>2 DEF EndOK, OwnsAt, Doomed, At, Top
    <2>4. CASE q = r /\ m = n
      <3>1. d = l
        <4>1. n \in 1..calls[r] /\ calls[r] \in Nat
          <5>1. calls[r] \in Nat
            BY Bounds DEF StackInv, StackTypes
          <5> QED
            BY <1>3, <5>1 DEF StackInv, FrameOK
        <4>2. d < l => frame[r][d].call < n
          BY <1>3, <2>4 DEF AtomicInv, CallsGrow
        <4>3. l < d => n < frame[r][d].call
          BY <1>3, <2>4 DEF AtomicInv, CallsGrow
        <4> QED
          BY <2>1, <2>2, <2>4, <4>1, <4>2, <4>3
      <3>2. frame'[q][d].phase = "body"
        BY <1>1, <1>2, <2>4, <3>1
      <3> QED
        BY <1>1, <2>1, <3>2 DEF EndOK, OwnsAt, Doomed, At, Top
    <2> QED
      BY <2>3, <2>4
  <1>6. OutcomeIsTrue'
    <2> SUFFICES ASSUME NEW q \in Callers, NEW m \in CallNos, OwnerCall(q, m)
                 PROVE  /\ outcome[q][m] = "ok" => WritesIn(q, m)' \subseteq committed
                        /\ outcome[q][m] = "error" => WritesIn(q, m)' \cap committed = {}
      BY <1>1 DEF OutcomeIsTrue, OwnerCall
    <2>1. CASE q = r /\ m = n
      <3>1. outcome[r][n] = "pending"
        BY <1>3 DEF OutcomeInv, ShapeOK
      <3> QED
        BY <2>1, <3>1
    <2>2. CASE q # r \/ m # n
      BY <1>2, <1>3, <2>2 DEF OutcomeInv, OutcomeIsTrue
    <2> QED
      BY <2>1, <2>2
  <1> QED
    BY <1>1, <1>4, <1>5, <1>6 DEF OutcomeInv

\* A statement that fails aborts the transaction, and the body does not catch it.
LEMMA FailedStatement ==
  ASSUME StackInv, DbTypes, JoinedInv, SessionInv, AtomicInv, OutcomeInv,
         "sql" \notin Catch, NEW r \in Callers, SqlFail(r)
  PROVE  OutcomeInv'
  <1>1. /\ depth[r] > 0 /\ Top(r).phase = "body" /\ GoTo(r, FailPhase(r, depth[r]))
        /\ UNCHANGED <<depth, calls, home, wrote, outcome, committed>>
        /\ \/ tx' = tx
           \/ Top(r).conn # NoConn /\ tx' = [tx EXCEPT ![Top(r).conn] = "aborted"]
    BY DEF SqlFail, At, callVars
  <1>2. FailPhase(r, depth[r]) \in Phases /\ FailPhase(r, depth[r]) \in {"rollback", "failing"}
    BY DEF FailPhase, Phases
  <1>3. /\ TopOnly(r) /\ frame'[r][depth[r]].phase = FailPhase(r, depth[r])
        /\ ~frame'[r][depth[r]].failed
        /\ frame'[r][depth[r]].propagation = Top(r).propagation
    BY <1>1, <1>2, GoToMove, GoToShape, TopShape
  <1>4. EndOK(r, depth[r])'
    BY <1>1, <1>2, <1>3, TopWrites, TopEndAfter
  <1>5. CASE Owns(r)
    <2>1. \A k \in Conns : tx'[k] # tx[k] => holder[k] = <<r, depth[r]>>
      BY <1>1, <1>5, TopHolds DEF DbTypes
    <2> QED
      BY <1>1, <1>2, <1>4, <2>1, GoToOutcomes
  <1>6. CASE ~Owns(r)
    <2>1. frame'[r][depth[r]].phase = "failing"
      BY <1>3, <1>6 DEF FailPhase, Owns
    <2>2. ASSUME NEW q \in Callers, NEW d \in 1..depth[q],
                 OwnsAt(q, d), frame[q][d].conn # NoConn,
                 tx'[frame[q][d].conn] # tx[frame[q][d].conn]
          PROVE  q = r /\ home[r][Top(r).call] = frame[q][d].call
      <3>1. frame[q][d].conn = Top(r).conn /\ Top(r).conn # NoConn
        BY <1>1, <2>2, FrameConn DEF DbTypes
      <3>2. depth[r] \in 1..depth[r]
        BY <1>1, TopOK, Bounds
      <3>3. PICK l \in 1..depth[r] : /\ frame[r][l].conn = Top(r).conn
                                     /\ OwnsAt(r, l)
                                     /\ frame[r][l].call = home[r][Top(r).call]
        BY <3>1, <3>2 DEF JoinedInv, JoinedOK, Top
      <3>4. holder[Top(r).conn] = <<r, l>> /\ holder[Top(r).conn] = <<q, d>>
        BY <2>2, <3>1, <3>3 DEF SessionInv, SessionOK
      <3> QED
        BY <3>3, <3>4
    <2> QED
      BY <1>1, <1>3, <1>4, <2>1, <2>2, TopOutcomes
  <1> QED
    BY <1>5, <1>6

LEMMA BodyOutcomes ==
  ASSUME StackInv, DbTypes, JoinedInv, SessionInv, AtomicInv, OutcomeInv,
         Catch \subseteq {"REQUIRES_NEW"}, NEW r \in Callers, Body(r)
  PROVE  OutcomeInv'
  <1>1. CASE SqlOk(r)
    BY <1>1, StatementOutcomes
  <1>2. CASE SqlFail(r)
    BY <1>2, FailedStatement
  <1>3. CASE Throw(r)
    <2>1. /\ depth[r] > 0 /\ Top(r).phase = "body" /\ GoTo(r, FailPhase(r, depth[r]))
          /\ UNCHANGED <<depth, calls, home, wrote, outcome, committed, tx>>
      BY <1>3 DEF Throw, At, callVars, dbVars
    <2>2. FailPhase(r, depth[r]) \in Phases \cap {"rollback", "failing"}
      BY DEF FailPhase, Phases
    <2>3. TopOnly(r) /\ frame'[r][depth[r]].phase = FailPhase(r, depth[r])
      BY <2>1, <2>2, GoToMove
    <2>4. EndOK(r, depth[r])'
      BY <2>1, <2>2, <2>3, TopWrites, TopEndAfter
    <2> QED
      BY <2>1, <2>2, <2>4, GoToOutcomes
  <1>4. CASE ReturnOwner(r)
    <2>1. /\ depth[r] > 0 /\ Top(r).phase = "body" /\ GoTo(r, "commit") /\ Owns(r)
          /\ UNCHANGED <<depth, calls, home, wrote, outcome, committed, tx>>
      BY <1>4 DEF ReturnOwner, At, callVars, dbVars
    <2>2. /\ TopOnly(r) /\ frame'[r][depth[r]].phase = "commit"
          /\ frame'[r][depth[r]].conn = Top(r).conn
      BY <2>1, GoToMove DEF Phases
    <2>3. Top(r).conn # NoConn => tx[Top(r).conn] = "active"
      BY <2>1, TopShape DEF EndOK, Doomed, At, Owns, Top
    <2>4. EndOK(r, depth[r])'
      BY <2>1, <2>2, <2>3, TopEndAfter
    <2> QED
      BY <2>1, <2>4, GoToOutcomes DEF Phases
  <1>5. CASE ReturnJoined(r)
    <2>1. /\ depth[r] > 0 /\ Top(r).phase = "body" /\ ~Owns(r) /\ Settle(r, "ok")
          /\ UNCHANGED <<tx, committed>>
      BY <1>5 DEF ReturnJoined, At, dbVars
    <2> QED
      BY <2>1, SettleOutcomes
  <1> QED
    BY <1>1, <1>2, <1>3, <1>4, <1>5 DEF Body

\* The end of a transaction: what is committed is what release reports.
LEMMA EndOutcomes ==
  ASSUME StackInv, DbTypes, SessionInv, AtomicInv, OutcomeInv, NEW r \in Callers,
         CommitOk(r) \/ CommitRefused(r) \/ CommitLost(r)
  PROVE  OutcomeInv'
  <1> DEFINE W == WritesIn(r, Top(r).call)
  <1>1. /\ depth[r] > 0 /\ Top(r).phase = "commit"
        /\ UNCHANGED <<depth, calls, home, wrote, outcome>>
    BY DEF CommitOk, CommitRefused, CommitLost, At, callVars, dbVars
  <1>2. Owns(r) /\ W \cap committed = {}
    BY <1>1, TopOK, TopWrites DEF OwnerPhases, Phases
  <1>3. \A k \in Conns : tx'[k] # tx[k] => holder[k] = <<r, depth[r]>>
    <2>1. CASE CommitOk(r) \/ CommitRefused(r)
      BY <1>1, <1>2, <2>1, TopHolds DEF CommitOk, CommitRefused, EndTransaction, DbTypes
    <2>2. CASE CommitLost(r)
      BY <2>2 DEF CommitLost, dbVars
    <2> QED
      BY <2>1, <2>2
  <1>4. CASE CommitOk(r)
    <2>1. Top(r).conn # NoConn /\ GoTo(r, "release")
      BY <1>4 DEF CommitOk
    <2>2. tx[Top(r).conn] = "active" /\ pending[Top(r).conn] = W
      BY <1>1, <1>2, <2>1, TopShape, TopWrites DEF EndOK, Owns, Top
    <2>3. committed' = committed \cup W
      BY <1>4, <2>2 DEF CommitOk
    <2>4. /\ TopOnly(r) /\ frame'[r][depth[r]].phase = "release"
          /\ ~frame'[r][depth[r]].failed
      BY <1>1, <2>1, GoToMove, GoToShape, TopShape DEF Phases
    <2>5. EndOK(r, depth[r])'
      BY <1>1, <2>3, <2>4, TopEndAfter
    <2> QED
      BY <1>1, <1>3, <2>1, <2>3, <2>5, GoToOutcomes DEF Phases
  <1>5. CASE CommitRefused(r) \/ CommitLost(r)
    <2>1. GoTo(r, "rollback") /\ committed' = committed
      BY <1>5 DEF CommitRefused, CommitLost, OnCommitError, dbVars
    <2>2. TopOnly(r) /\ frame'[r][depth[r]].phase = "rollback"
      BY <1>1, <2>1, GoToMove DEF Phases
    <2>3. EndOK(r, depth[r])'
      BY <1>1, <1>2, <2>1, <2>2, TopEndAfter
    <2> QED
      BY <1>1, <1>3, <2>1, <2>3, GoToOutcomes DEF Phases
  <1> QED
    BY <1>4, <1>5

LEMMA FinishOutcomes ==
  ASSUME StackInv, DbTypes, SessionInv, AtomicInv, OutcomeInv,
         Catch \subseteq {"REQUIRES_NEW"}, "reply" \notin Faults,
         NEW r \in Callers, Finish(r)
  PROVE  OutcomeInv'
  <1>1. CASE CommitOk(r) \/ CommitRefused(r) \/ CommitLost(r)
    BY <1>1, EndOutcomes
  <1>2. ~CommitReplyLost(r)
    BY DEF CommitReplyLost
  <1>3. CASE RejectJoined(r)
    <2>1. /\ depth[r] > 0 /\ Top(r).phase = "failing" /\ Settle(r, "error")
          /\ UNCHANGED <<tx, committed>>
      BY <1>3 DEF RejectJoined, At, dbVars
    <2>2. ~Owns(r)
      BY <2>1, TopOK DEF FrameOK, Owns, OwnsAt, Top
    <2> QED
      BY <2>1, <2>2, SettleOutcomes
  <1>4. CASE Rollback(r)
    <2>1. /\ depth[r] > 0 /\ Top(r).phase = "rollback"
          /\ UNCHANGED <<wrote, outcome, committed>>
          /\ IF Top(r).conn = NoConn THEN tx' = tx ELSE EndTransaction(Top(r).conn)
      BY <1>4 DEF Rollback, RolledBack, At, callVars
    <2>2. Owns(r)
      BY <2>1, TopOK DEF OwnerPhases, Phases
    <2>3. WritesIn(r, Top(r).call) \cap committed = {}
      BY <2>1, <2>2, TopShape DEF EndOK, Owns, Top
    <2>4. \A k \in Conns : tx'[k] # tx[k] => holder[k] = <<r, depth[r]>>
      BY <2>1, <2>2, TopHolds DEF EndTransaction, DbTypes
    <2>5. /\ TopOnly(r) /\ frame'[r][depth[r]].phase = "release"
          /\ frame'[r][depth[r]].failed
          /\ frame'[r][depth[r]].propagation = Top(r).propagation
      BY <1>4, RollbackMove, RecordShape
    <2>6. EndOK(r, depth[r])'
      BY <2>1, <2>3, <2>5, TopEndAfter
    <2>7. \A q \in Callers : \A d \in 1..depth[q] :
             /\ q # r \/ d # depth[r]
             /\ OwnsAt(q, d) /\ frame[q][d].conn # NoConn
             => tx'[frame[q][d].conn] = tx[frame[q][d].conn]
      BY <2>1, <2>4, OthersKeepTx
    <2> QED
      BY <2>1, <2>5, <2>6, <2>7, TopOutcomes
  <1>5. CASE Release(r)
    <2>1. /\ depth[r] > 0 /\ Top(r).phase = "release"
          /\ Settle(r, IF Top(r).failed THEN "error" ELSE "ok")
          /\ UNCHANGED <<tx, committed>>
      BY <1>5 DEF Release, At
    <2>2. Owns(r) =>
            IF Top(r).failed THEN WritesIn(r, Top(r).call) \cap committed = {}
            ELSE WritesIn(r, Top(r).call) \subseteq committed
      BY <2>1, TopShape DEF EndOK, Owns, Top
    <2>3. CASE Top(r).failed
      BY <2>1, <2>2, <2>3, SettleOutcomes
    <2>4. CASE ~Top(r).failed
      BY <2>1, <2>2, <2>4, SettleOutcomes
    <2> QED
      BY <2>3, <2>4
  <1> QED
    BY <1>1, <1>2, <1>3, <1>4, <1>5 DEF Finish

\* A call begins; what the others were told stays so.
LEMMA PushOutcomes ==
  ASSUME StackInv, DbTypes, AtomicInv, OutcomeInv, NEW r \in Callers, MayCall(r), NEW f,
         Push(r, f), f.call = calls[r] + 1, ~f.failed,
         NEW h, home' = [home EXCEPT ![r][calls[r] + 1] = h],
         \/ f.phase = "lookup" /\ h = calls[r] + 1
         \/ /\ f.phase = "body" /\ f.propagation = "REQUIRED" /\ depth[r] > 0
            /\ h = home[r][Top(r).call] /\ h \in 1..calls[r],
         UNCHANGED <<tx, committed>>
  PROVE  OutcomeInv'
  <1>1. /\ calls[r] \in Nat /\ calls[r] + 1 \in CallNos /\ depth[r] \in Nat
        /\ depth[r] + 1 \in Levels /\ wrote' = wrote
        /\ outcome' = [outcome EXCEPT ![r][calls[r] + 1] = "pending"]
        /\ frame' = [frame EXCEPT ![r][depth[r] + 1] = f]
    BY MayCallBounds DEF Push
  <1>2. SameWrites
    BY <1>1, PushWrites DEF AtomicInv
  <1>3. /\ \A q \in Callers : \A d \in 1..depth[q] : Kept(q, d)
        /\ \A q \in Callers : q # r => depth'[q] = depth[q]
        /\ depth'[r] = depth[r] + 1
        /\ frame'[r][depth[r] + 1] = f
        /\ home'[r][calls[r] + 1] = h
    BY PushFrames
  <1>4. ASSUME NEW q \in Callers, NEW d \in 1..depth[q]
        PROVE  /\ frame'[q][d] = frame[q][d] /\ KeptShape(q, d)
               /\ outcome'[q][frame[q][d].call] = outcome[q][frame[q][d].call]
    <2>1. d \in Levels /\ d \in Nat /\ d <= depth[q] /\ frame[q][d].call \in 1..calls[q]
      BY FrameConn DEF FrameOK
    <2>2. frame'[q][d] = frame[q][d]
      BY <1>1, <2>1 DEF StackInv, StackTypes
    <2>3. q = r => frame[q][d].call # calls[r] + 1
      BY <1>1, <2>1
    <2>4. calls[q] \in 0..MaxCalls
      BY DEF StackInv, StackTypes
    <2>5. frame[q][d].call \in CallNos
      BY <2>1, <2>4, Bounds
    <2>6. outcome'[q][frame[q][d].call] = outcome[q][frame[q][d].call]
      BY <1>1, <2>3, <2>5 DEF DbTypes
    <2> QED
      BY <1>3, <2>2, <2>6 DEF KeptShape
  <1>5. ASSUME NEW q \in Callers, NEW d \in 1..depth'[q], d \notin 1..depth[q]
        PROVE  q = r /\ d = depth[r] + 1 /\ frame'[q][d] = f
    BY <1>1, <1>3, <1>5
  <1>6. h # calls[r] + 1 => f.phase = "body" /\ f.propagation = "REQUIRED" /\ depth[r] > 0
                            /\ h = home[r][Top(r).call]
    OBVIOUS
  <1>7. h = calls[r] + 1 => f.phase = "lookup"
    BY <1>1
  <1>8. ASSUME NEW q \in Callers, NEW d \in 1..depth'[q] PROVE ShapeOK(q, d)'
    <2>1. CASE d \in 1..depth[q]
      <3>1. d \in Nat \ {0} /\ ShapeOK(q, d) /\ d <= depth[q] /\ depth[q] \in Nat
        BY <2>1, FrameConn DEF OutcomeInv
      <3>2. \A l \in 1..d : l \in 1..depth[q]
        BY <3>1
      <3> QED
        BY <1>4, <2>1, <3>1, <3>2, KeptShapeOK
    <2>2. CASE d \notin 1..depth[q]
      <3>1. q = r /\ d = depth[r] + 1 /\ frame'[r][d] = f
        BY <1>5, <2>2
      <3>2. outcome'[r][calls[r] + 1] = "pending"
        BY <1>1 DEF DbTypes
      <3>3. d > 1 <=> depth[r] > 0
        BY <1>1, <3>1
      <3>4. depth[r] > 0 =>
              /\ frame'[r][d - 1].call = Top(r).call
              /\ home'[r][Top(r).call] = home[r][Top(r).call]
        <4>1. depth[r] > 0 => depth[r] \in 1..depth[r] /\ d - 1 = depth[r]
          BY <1>1, <3>1
        <4> QED
          BY <1>3, <4>1 DEF Kept, Top
      <3>5. PICK n : n = calls[r] + 1
        OBVIOUS
      <3>6. frame'[r][d].call = n /\ home'[r][n] = h /\ outcome'[r][n] = "pending"
        BY <1>3, <3>1, <3>2, <3>5
      <3>7. OwnsAt(r, d)' <=> h = n
        BY <3>6 DEF OwnsAt
      <3> QED
        BY <1>6, <3>1, <3>3, <3>4, <3>5, <3>6, <3>7 DEF ShapeOK
    <2> QED
      BY <2>1, <2>2
  <1>9. ASSUME NEW q \in Callers, NEW d \in 1..depth'[q] PROVE EndOK(q, d)'
    <2>1. CASE d \in 1..depth[q]
      <3>1. d \in Nat /\ EndOK(q, d) /\ depth[q] \in 1..depth[q] /\ depth[q] > 0
        <4>1. d \in Nat \ {0} /\ d <= depth[q] /\ depth[q] \in Nat
          BY <2>1, FrameConn
        <4> QED
          BY <2>1, <4>1 DEF OutcomeInv
      <3>2. Doomed(q, frame[q][d].call) => Doomed(q, frame[q][d].call)'
        <4>1. CASE q = r
          BY <3>1, <4>1 DEF MayCall, Doomed, At
        <4>2. CASE q # r
          <5>1. depth'[q] = depth[q] /\ frame'[q][d] = frame[q][d]
                /\ frame'[q][depth[q]] = frame[q][depth[q]]
                /\ home'[q] = home[q]
            BY <1>3, <1>4, <2>1, <3>1, <4>2 DEF StackInv, StackTypes
          <5> QED
            BY <5>1 DEF Doomed, At, Top
        <4> QED
          BY <4>1, <4>2
      <3> QED
        BY <1>2, <1>4, <2>1, <3>1, <3>2, KeptEnd
    <2>2. CASE d \notin 1..depth[q]
      <3>1. q = r /\ d = depth[r] + 1 /\ frame'[r][d] = f
        BY <1>5, <2>2
      <3>2. PICK n : n = calls[r] + 1
        OBVIOUS
      <3>3. frame'[r][d].call = n /\ home'[r][n] = h
        BY <1>3, <3>1, <3>2
      <3>4. OwnsAt(r, d)' => frame'[r][d].phase = "lookup"
        BY <1>7, <3>1, <3>2, <3>3 DEF OwnsAt
      <3> QED
        BY <3>1, <3>4 DEF EndOK
    <2> QED
      BY <2>1, <2>2
  <1>10. OutcomeIsTrue'
    <2> SUFFICES ASSUME NEW q \in Callers, NEW n \in CallNos, OwnerCall(q, n)'
                 PROVE  /\ outcome'[q][n] = "ok" => WritesIn(q, n) \subseteq committed
                        /\ outcome'[q][n] = "error" => WritesIn(q, n) \cap committed = {}
      BY <1>2 DEF OutcomeIsTrue, SameWrites
    <2>1. CASE q = r /\ n = calls[r] + 1
      BY <1>1, <2>1 DEF DbTypes
    <2>2. CASE q # r \/ n # calls[r] + 1
      <3>1. outcome'[q][n] = outcome[q][n] /\ OwnerCall(q, n)
        BY <1>1, <2>2 DEF DbTypes, OwnerCall, StackInv, StackTypes
      <3> QED
        BY <3>1 DEF OutcomeInv, OutcomeIsTrue
    <2> QED
      BY <2>1, <2>2
  <1> QED
    BY <1>8, <1>9, <1>10 DEF OutcomeInv

\* A call that is refused for want of a tenant has written nothing.
LEMMA RefuseOutcomes ==
  ASSUME StackInv, DbTypes, AtomicInv, OutcomeInv, NEW r \in Callers, CallWithoutTenant(r)
  PROVE  OutcomeInv'
  <1>1. /\ MayCall(r) /\ UNCHANGED <<depth, frame, wrote, tx, committed>>
        /\ home' = [home EXCEPT ![r][calls[r] + 1] = calls[r] + 1]
        /\ outcome' = [outcome EXCEPT ![r][calls[r] + 1] = "error"]
    BY DEF CallWithoutTenant, dbVars
  <1>2. calls[r] \in Nat /\ calls[r] + 1 \in CallNos
    BY <1>1, MayCallBounds
  <1>3. SameWrites /\ \A n : n = calls[r] + 1 => WritesIn(r, n) = {}
    BY <1>1, PushWrites DEF AtomicInv
  <1>4. ASSUME NEW q \in Callers, NEW d \in 1..depth[q]
        PROVE  /\ KeptShape(q, d)
               /\ outcome'[q][frame[q][d].call] = outcome[q][frame[q][d].call]
               /\ home'[q][frame[q][d].call] = home[q][frame[q][d].call]
    <2>1. frame[q][d].call \in 1..calls[q]
      BY FrameConn DEF FrameOK
    <2>2. calls[q] \in 0..MaxCalls
      BY DEF StackInv, StackTypes
    <2>3. frame[q][d].call \in CallNos /\ (q = r => frame[q][d].call # calls[r] + 1)
      BY <1>2, <2>1, <2>2, Bounds
    <2>4. home'[q][frame[q][d].call] = home[q][frame[q][d].call]
      BY <1>1, <1>2, <2>3 DEF StackInv, StackTypes
    <2>5. outcome'[q][frame[q][d].call] = outcome[q][frame[q][d].call]
      BY <1>1, <1>2, <2>3 DEF DbTypes
    <2> QED
      BY <1>1, <2>4, <2>5 DEF KeptShape, Kept
  <1>5. ASSUME NEW q \in Callers, NEW d \in 1..depth[q] PROVE ShapeOK(q, d)' /\ EndOK(q, d)'
    <2>1. /\ d \in Nat \ {0} /\ ShapeOK(q, d) /\ EndOK(q, d) /\ d <= depth[q]
          /\ depth[q] \in Nat /\ depth[q] \in 1..depth[q]
      <3>1. d \in Nat \ {0} /\ d <= depth[q] /\ depth[q] \in Nat
        BY FrameConn
      <3> QED
        BY <3>1 DEF OutcomeInv
    <2>2. \A l \in 1..d : l \in 1..depth[q]
      BY <2>1
    <2>3. ShapeOK(q, d)'
      BY <1>1, <1>4, <2>1, <2>2, KeptShapeOK
    <2>4. Doomed(q, frame[q][d].call) => Doomed(q, frame[q][d].call)'
      BY <1>1, <1>4, <2>1 DEF Doomed, At, Top
    <2>5. EndOK(q, d)'
      BY <1>1, <1>3, <1>4, <2>1, <2>4, KeptEnd
    <2> QED
      BY <2>3, <2>5
  <1>6. OutcomeIsTrue'
    <2> SUFFICES ASSUME NEW q \in Callers, NEW n \in CallNos, OwnerCall(q, n)'
                 PROVE  /\ outcome'[q][n] = "ok" => WritesIn(q, n) \subseteq committed
                        /\ outcome'[q][n] = "error" => WritesIn(q, n) \cap committed = {}
      BY <1>1, <1>3 DEF OutcomeIsTrue, SameWrites
    <2>1. CASE q = r /\ n = calls[r] + 1
      BY <1>3, <2>1
    <2>2. CASE q # r \/ n # calls[r] + 1
      <3>1. outcome'[q][n] = outcome[q][n] /\ OwnerCall(q, n)
        BY <1>1, <1>2, <2>2 DEF DbTypes, OwnerCall, StackInv, StackTypes
      <3> QED
        BY <3>1 DEF OutcomeInv, OutcomeIsTrue
    <2> QED
      BY <2>1, <2>2
  <1> QED
    BY <1>1, <1>5, <1>6 DEF OutcomeInv

LEMMA CallOutcomes ==
  ASSUME StackInv, DbTypes, AtomicInv, OutcomeInv, NEW r \in Callers, Call(r)
  PROVE  OutcomeInv'
  <1>1. CASE CallJoin(r)
    <2> DEFINE f == [NoFrame EXCEPT !.phase = "body", !.conn = ContextConn(r),
                                    !.call = calls[r] + 1]
               h == home[r][Top(r).call]
    <2>1. /\ MayCall(r) /\ depth[r] > 0 /\ Push(r, f)
          /\ home' = [home EXCEPT ![r][calls[r] + 1] = h]
          /\ UNCHANGED <<tx, committed>>
      BY <1>1 DEF CallJoin, dbVars
    <2>2. /\ f.call = calls[r] + 1 /\ f.phase = "body" /\ f.propagation = "REQUIRED"
          /\ ~f.failed
      BY DEF NoFrame
    <2>3. h \in 1..calls[r]
      <3>1. Top(r).call \in 1..calls[r] /\ calls[r] \in Nat
        BY <2>1, TopOK, MayCallBounds DEF FrameOK, Top
      <3>2. h \in 1..Top(r).call
        BY <3>1 DEF StackInv
      <3> QED
        BY <3>1, <3>2
    <2> HIDE DEF f
    <2> QED
      BY <2>1, <2>2, <2>3, PushOutcomes
  <1>2. ASSUME NEW p \in Propagations, CallNew(r, p) PROVE OutcomeInv'
    <2> DEFINE f == [NoFrame EXCEPT !.phase = "lookup", !.propagation = p,
                                    !.call = calls[r] + 1]
    <2>1. /\ MayCall(r) /\ Push(r, f)
          /\ home' = [home EXCEPT ![r][calls[r] + 1] = calls[r] + 1]
          /\ UNCHANGED <<tx, committed>>
      BY <1>2 DEF CallNew, dbVars
    <2>2. f.call = calls[r] + 1 /\ f.phase = "lookup" /\ ~f.failed
      BY DEF NoFrame
    <2> HIDE DEF f
    <2> QED
      BY <2>1, <2>2, PushOutcomes
  <1>3. CASE CallWithoutTenant(r)
    BY <1>3, RefuseOutcomes
  <1> QED
    BY <1>1, <1>2, <1>3 DEF Call

LEMMA DropOutcomes ==
  ASSUME StackInv, DbTypes, OutcomeInv, NEW c \in Conns, Drop(c) PROVE OutcomeInv'
  <1>1. /\ Detach(c) /\ UNCHANGED <<depth, calls, home, outcome, wrote, committed>>
        /\ tx' = [tx EXCEPT ![c] = "none"] /\ SameWrites
    BY NoNewWrites DEF Drop, callVars, EndTransaction
  <1>2. ASSUME NEW q \in Callers, NEW d \in Levels
        PROVE  /\ frame'[q][d].call = frame[q][d].call
               /\ frame'[q][d].phase = frame[q][d].phase
               /\ frame'[q][d].failed = frame[q][d].failed
               /\ frame'[q][d].propagation = frame[q][d].propagation
               /\ frame'[q][d].conn # NoConn =>
                     frame'[q][d].conn = frame[q][d].conn /\ frame[q][d].conn # c
    <2>1. frame[q][d] \in Frames
      BY DEF StackInv, StackTypes
    <2>2. frame'[q][d] = IF frame[q][d].conn = c THEN [frame[q][d] EXCEPT !.conn = NoConn]
                         ELSE frame[q][d]
      BY <1>1 DEF Detach
    <2> QED
      BY <2>1, <2>2 DEF Frames
  <1>3. ASSUME NEW q \in Callers, NEW d \in 1..depth[q] PROVE ShapeOK(q, d)' /\ EndOK(q, d)'
    <2>1. d \in Levels /\ d \in Nat \ {0} /\ d <= depth[q] /\ depth[q] \in Nat
      BY FrameConn
    <2>2. ShapeOK(q, d) /\ EndOK(q, d) /\ depth[q] \in Levels
      BY <2>1, Bounds DEF OutcomeInv, StackInv, StackTypes
    <2>3. d > 1 => d - 1 \in Levels
      BY <2>1, Bounds
    <2>4. ShapeOK(q, d)'
      BY <1>1, <1>2, <2>1, <2>2, <2>3 DEF ShapeOK, OwnsAt
    <2>5. PICK n : n = frame[q][d].call
      OBVIOUS
    <2>6. frame'[q][d].call = n /\ WritesIn(q, n)' = WritesIn(q, n)
      BY <1>1, <1>2, <2>1, <2>5 DEF SameWrites
    <2>7. WritesIn(q, frame[q][d].call)' = WritesIn(q, frame[q][d].call)
      BY <2>5, <2>6
    <2>8. Doomed(q, n) => Doomed(q, n)'
      BY <1>1, <1>2, <2>2 DEF Doomed, At, Top
    <2>9. frame'[q][d].conn # NoConn => tx'[frame[q][d].conn] = tx[frame[q][d].conn]
      BY <1>1, <1>2, <2>1
    <2>10. Doomed(q, frame[q][d].call) => Doomed(q, frame[q][d].call)'
      BY <2>5, <2>6, <2>8 DEF Doomed
    <2>11. EndOK(q, d)'
      BY <1>1, <1>2, <2>1, <2>2, <2>7, <2>9, <2>10 DEF EndOK, OwnsAt
    <2> QED
      BY <2>4, <2>11
  <1>4. OutcomeIsTrue'
    BY <1>1 DEF OutcomeInv, OutcomeIsTrue, OwnerCall, SameWrites
  <1> QED
    BY <1>1, <1>3, <1>4 DEF OutcomeInv

LEMMA OutcomeInvStep ==
  ASSUME "reply" \notin Faults, Catch \subseteq {"REQUIRES_NEW"}
  PROVE  ConnectionInv /\ AtomicInv /\ OutcomeInv /\ [Next]_vars => OutcomeInv'
  <1> SUFFICES ASSUME ConnectionInv, AtomicInv, OutcomeInv, [Next]_vars PROVE OutcomeInv'
    OBVIOUS
  <1> USE DEF ConnectionInv
  <1>1. CASE UNCHANGED vars \/ Terminating
    BY <1>1, SameOutcomes DEF Terminating, vars, dbVars
  <1>2. ASSUME NEW r \in Callers, Step(r) PROVE OutcomeInv'
    BY <1>2, SetupOutcomes, CallOutcomes, BodyOutcomes, FinishOutcomes DEF Step
  <1>3. ASSUME NEW c \in Conns, Drop(c) PROVE OutcomeInv'
    BY <1>3, DropOutcomes
  <1> QED
    BY <1>1, <1>2, <1>3 DEF Next

\* As long as no reply to a COMMIT is lost, and bodies catch at most the rejections
\* of REQUIRES_NEW calls, the promise of a call tells what happened: resolved, and
\* the writes of its transaction are in the database to stay; rejected, and none
\* of them is (executeInTransaction, multi-tenancy.md:211).
THEOREM OutcomesAreTrue ==
  ASSUME "reply" \notin Faults, Catch \subseteq {"REQUIRES_NEW"}
  PROVE  Spec => []OutcomeIsTrue
  <1>1. Init => OutcomeInv
    BY DEF Init, PoolInit, OutcomeInv, OutcomeIsTrue
  <1>2. ConnectionInv /\ AtomicInv /\ OutcomeInv /\ [Next]_vars => OutcomeInv'
    BY OutcomeInvStep
  <1>3. OutcomeInv => OutcomeIsTrue
    BY DEF OutcomeInv
  <1> QED
    BY <1>1, <1>2, <1>3, AtomicInvariant, PTL DEF Spec

-----------------------------------------------------------------------------
(* Transactional implements AtomicTransactions.                            *)

SetupPhases == {"lookup", "connect", "setPath", "begin"}

\* How the transaction of a pending call stands, by its frame and the sessions.
StandsAs(f, sessions) ==
    IF f.phase \in SetupPhases THEN "fresh"
    ELSE IF f.conn # NoConn /\ sessions[f.conn] = "active" THEN "open" ELSE "ended"

\* Level d, and no other one, is that of the pending call n.
OnlyFrame(frames, levels, n, d) ==
    /\ d \in levels
    /\ \A e \in levels : frames[e].call = n <=> e = d

LEMMA NotAnOwner ==
  ASSUME NEW q, NEW n
  PROVE  /\ ~OwnerCall(q, n) => StatusOf(q, n) = "fresh"
         /\ ~OwnerCall(q, n)' => StatusOf(q, n)' = "fresh"
  BY DEF StatusOf

LEMMA StatusAt ==
  ASSUME NEW q, NEW n, NEW d, OwnerCall(q, n),
         OnlyFrame(frame[q], 1..depth[q], n, d)
  PROVE  StatusOf(q, n) = StandsAs(frame[q][d], tx)
  <1>1. Beginning(q, n) <=> frame[q][d].phase \in SetupPhases
    BY Zenon DEF OnlyFrame, Beginning, SetupPhases
  <1>2. Open(q, n) <=> frame[q][d].conn # NoConn /\ tx[frame[q][d].conn] = "active"
    BY Zenon DEF OnlyFrame, Open
  <1> QED
    BY <1>1, <1>2, Zenon DEF StatusOf, StandsAs

LEMMA StatusAtAfter ==
  ASSUME NEW q, NEW n, NEW d, OwnerCall(q, n)',
         OnlyFrame(frame'[q], 1..depth'[q], n, d)
  PROVE  StatusOf(q, n)' = StandsAs(frame'[q][d], tx')
  <1>1. Beginning(q, n)' <=> frame'[q][d].phase \in SetupPhases
    BY Zenon DEF OnlyFrame, Beginning, SetupPhases
  <1>2. Open(q, n)' <=> frame'[q][d].conn # NoConn /\ tx'[frame'[q][d].conn] = "active"
    BY Zenon DEF OnlyFrame, Open
  <1> QED
    BY <1>1, <1>2, Zenon DEF StatusOf, StandsAs

LEMMA StatusGone ==
  ASSUME NEW q, NEW n, OwnerCall(q, n)', \A e \in 1..depth'[q] : frame'[q][e].call # n
  PROVE  StatusOf(q, n)' = "ended"
  <1>1. ~Beginning(q, n)' /\ ~Open(q, n)'
    BY Zenon DEF Beginning, Open
  <1> QED
    BY <1>1, Zenon DEF StatusOf

\* A transaction whose frame, if it is pending, is left alone.
LEMMA StatusKept ==
  ASSUME NEW q, NEW n, OwnerCall(q, n)' <=> OwnerCall(q, n),
         OwnerCall(q, n) => \A d :
            /\ d \in 1..depth'[q] /\ frame'[q][d].call = n
                  <=> d \in 1..depth[q] /\ frame[q][d].call = n
            /\ d \in 1..depth[q] /\ frame[q][d].call = n =>
                  StandsAs(frame'[q][d], tx') = StandsAs(frame[q][d], tx)
  PROVE  StatusOf(q, n)' = StatusOf(q, n)
  <1>1. CASE ~OwnerCall(q, n)
    BY <1>1, NotAnOwner, Zenon
  <1>2. CASE OwnerCall(q, n)
    <2>1. ASSUME NEW d, StandsAs(frame'[q][d], tx') = StandsAs(frame[q][d], tx)
          PROVE  /\ frame'[q][d].phase \in SetupPhases
                       <=> frame[q][d].phase \in SetupPhases
                 /\ frame[q][d].phase \notin SetupPhases =>
                       ((frame'[q][d].conn # NoConn /\ tx'[frame'[q][d].conn] = "active")
                         <=> (frame[q][d].conn # NoConn /\ tx[frame[q][d].conn] = "active"))
      BY <2>1 DEF StandsAs
    <2>2. Beginning(q, n)' <=> Beginning(q, n)
      BY <1>2, <2>1, Zenon DEF Beginning, SetupPhases
    <2>3. ~Beginning(q, n) => (Open(q, n)' <=> Open(q, n))
      BY <1>2, <2>1, Zenon DEF Beginning, Open, SetupPhases
    <2> QED
      BY <2>2, <2>3, Zenon DEF StatusOf
  <1> QED
    BY <1>1, <1>2

\* No two pending calls have the same number.
LEMMA OneFrameEach ==
  ASSUME StackInv, CallsGrow, NEW q \in Callers, NEW d \in 1..depth[q]
  PROVE  /\ OnlyFrame(frame[q], 1..depth[q], frame[q][d].call, d)
         /\ frame[q][d].call \in CallNos
         /\ OwnerCall(q, frame[q][d].call) <=> OwnsAt(q, d)
  <1>1. ASSUME NEW e \in 1..depth[q], e # d PROVE frame[q][e].call # frame[q][d].call
    <2>1. /\ e < d \/ d < e
          /\ frame[q][e].call \in 1..calls[q] /\ frame[q][d].call \in 1..calls[q]
          /\ calls[q] \in Nat
      BY <1>1, FrameConn, Bounds DEF FrameOK, StackInv, StackTypes
    <2>2. frame[q][e].call < frame[q][d].call \/ frame[q][d].call < frame[q][e].call
      BY <2>1 DEF CallsGrow
    <2> QED
      BY <2>1, <2>2
  <1>2. frame[q][d].call \in CallNos
    <2>1. frame[q][d].call \in 1..calls[q] /\ calls[q] \in 0..MaxCalls
      BY FrameConn DEF FrameOK, StackInv, StackTypes
    <2> QED
      BY <2>1, Bounds
  <1> QED
    BY <1>1, <1>2, Zenon DEF OnlyFrame, OwnerCall, OwnsAt

-----------------------------------------------------------------------------
(* The statuses of the transactions after a step.                          *)

\* The top call of r goes on, and of the sessions those change at most that the
\* call at level l of r holds.
LEMMA TopStatuses ==
  ASSUME StackInv, SessionInv, CallsGrow, NEW r \in Callers, NEW l \in 1..depth[r],
         TopOnly(r), \A k \in Conns : tx'[k] # tx[k] => holder[k] = <<r, l>>,
         NEW q \in Callers, NEW n \in CallNos,
         q # r \/ (n # frame[r][l].call /\ n # Top(r).call)
  PROVE  StatusOf(q, n)' = StatusOf(q, n)
  <1>1. OwnerCall(q, n)' <=> OwnerCall(q, n)
    BY DEF TopOnly, OwnerCall
  <1>2. ASSUME OwnerCall(q, n), NEW d
        PROVE  /\ d \in 1..depth'[q] /\ frame'[q][d].call = n
                     <=> d \in 1..depth[q] /\ frame[q][d].call = n
               /\ d \in 1..depth[q] /\ frame[q][d].call = n =>
                     StandsAs(frame'[q][d], tx') = StandsAs(frame[q][d], tx)
    <2>1. /\ depth'[q] = depth[q]
          /\ d \in 1..depth[q] => frame'[q][d].call = frame[q][d].call
      BY DEF TopOnly, Top
    <2>2. ASSUME d \in 1..depth[q], frame[q][d].call = n
          PROVE  StandsAs(frame'[q][d], tx') = StandsAs(frame[q][d], tx)
      <3>1. frame'[q][d] = frame[q][d]
        BY <2>2 DEF TopOnly, Top
      <3>2. OwnsAt(q, d) /\ (q # r \/ d # l)
        BY <1>2, <2>2 DEF OwnerCall, OwnsAt
      <3>3. frame[q][d].conn # NoConn => tx'[frame[q][d].conn] = tx[frame[q][d].conn]
        <4>1. SessionOK(q, d) /\ frame[q][d].conn \in Conns \cup {NoConn}
          BY <2>2, FrameConn DEF SessionInv
        <4> QED
          BY <3>2, <4>1 DEF SessionOK
      <3> QED
        BY <3>1, <3>3 DEF StandsAs
    <2> QED
      BY <2>1, <2>2
  <1> QED
    BY <1>1, <1>2, StatusKept

\* A transaction whose call stays pending while the top call of r goes on.
LEMMA LevelStatus ==
  ASSUME StackInv, CallsGrow, NEW r \in Callers, NEW l \in 1..depth[r],
         TopOnly(r), OwnsAt(r, l), NEW n, n = frame[r][l].call
  PROVE  /\ StatusOf(r, n) = StandsAs(frame[r][l], tx)
         /\ StatusOf(r, n)' = StandsAs(frame'[r][l], tx')
  <1>2. OnlyFrame(frame[r], 1..depth[r], n, l) /\ OwnerCall(r, n)
    BY OneFrameEach
  <1>3. StatusOf(r, n) = StandsAs(frame[r][l], tx)
    BY <1>2, StatusAt
  <1>4. OwnerCall(r, n)'
    BY <1>2 DEF OwnerCall, TopOnly
  <1>5. \A d \in 1..depth[r] : frame'[r][d].call = frame[r][d].call
    BY DEF TopOnly, Top
  <1>6. OnlyFrame(frame'[r], 1..depth'[r], n, l)
    BY <1>2, <1>5 DEF OnlyFrame, TopOnly
  <1>7. StatusOf(r, n)' = StandsAs(frame'[r][l], tx')
    BY <1>4, <1>6, StatusAtAfter
  <1> QED
    BY <1>3, <1>7

\* A call settles: its transaction has ended.
LEMMA SettleStatuses ==
  ASSUME StackInv, CallsGrow, NEW r \in Callers, depth[r] > 0, NEW result,
         Settle(r, result), tx' = tx
  PROVE  /\ \A q \in Callers : \A n \in CallNos :
               q # r \/ n # Top(r).call => StatusOf(q, n)' = StatusOf(q, n)
         /\ \A n \in CallNos : n = Top(r).call =>
               StatusOf(r, n)' = IF Owns(r) THEN "ended" ELSE StatusOf(r, n)
  <1>1. home' = home /\ depth[r] \in 1..depth[r]
    BY Bounds DEF Settle, StackInv, StackTypes
  <1>2. ASSUME NEW q \in Callers, NEW d \in 1..depth'[q]
        PROVE  /\ d \in 1..depth[q] /\ (q = r => d # depth[r])
               /\ frame'[q][d].call = frame[q][d].call
               /\ StandsAs(frame'[q][d], tx') = StandsAs(frame[q][d], tx)
    <2>1. /\ d \in 1..depth[q] /\ KeptShape(q, d)
          /\ q # r => frame'[q][d] = frame[q][d]
          /\ q = r => d < depth[r] /\ frame[q][d].phase = "body"
      BY SettleShape
    <2>2. frame'[q][d].phase = frame[q][d].phase
          \/ frame'[q][d].phase \in {"rollback", "failing"}
      BY SettleFrames
    <2>3. q = r => frame'[q][d].phase \notin SetupPhases /\ frame[q][d].phase \notin SetupPhases
      BY <2>1, <2>2 DEF SetupPhases
    <2>4. frame'[q][d].conn = frame[q][d].conn /\ frame'[q][d].call = frame[q][d].call
      BY <2>1 DEF KeptShape, Kept
    <2>5. StandsAs(frame'[q][d], tx') = StandsAs(frame[q][d], tx)
      BY <2>1, <2>3, <2>4 DEF StandsAs
    <2>6. q = r => d # depth[r]
      BY <1>1, <2>1, Bounds DEF StackInv, StackTypes
    <2> QED
      BY <2>1, <2>4, <2>5, <2>6
  <1>3. ASSUME NEW q \in Callers, NEW d \in 1..depth[q], q # r \/ d # depth[r]
        PROVE  d \in 1..depth'[q]
    BY <1>3, Bounds DEF Settle, StackInv, StackTypes
  <1>4. ASSUME NEW q \in Callers, NEW n \in CallNos, q # r \/ n # Top(r).call
        PROVE  StatusOf(q, n)' = StatusOf(q, n)
    <2>1. OwnerCall(q, n)' <=> OwnerCall(q, n)
      BY <1>1 DEF OwnerCall
    <2>2. ASSUME NEW d
          PROVE  /\ d \in 1..depth'[q] /\ frame'[q][d].call = n
                       <=> d \in 1..depth[q] /\ frame[q][d].call = n
                 /\ d \in 1..depth[q] /\ frame[q][d].call = n =>
                       StandsAs(frame'[q][d], tx') = StandsAs(frame[q][d], tx)
      <3>1. d \in 1..depth[q] /\ frame[q][d].call = n => d \in 1..depth'[q]
        BY <1>3, <1>4 DEF Top
      <3> QED
        BY <1>2, <3>1
    <2> QED
      BY <2>1, <2>2, StatusKept
  <1>5. ASSUME NEW n \in CallNos, n = Top(r).call
        PROVE  StatusOf(r, n)' = IF Owns(r) THEN "ended" ELSE StatusOf(r, n)
    <2>1. /\ OnlyFrame(frame[r], 1..depth[r], n, depth[r])
          /\ OwnerCall(r, n) <=> Owns(r)
          /\ OwnerCall(r, n)' <=> OwnerCall(r, n)
      BY <1>1, <1>5, OneFrameEach DEF Top, Owns, OwnerCall
    <2>2. \A e \in 1..depth'[r] : frame'[r][e].call # n
      BY <1>2, <2>1 DEF OnlyFrame
    <2> QED
      BY <2>1, <2>2, StatusGone, NotAnOwner
  <1> QED
    BY <1>4, <1>5

\* A transaction that has not been asked for is not begun.
FreshHome ==
    \A r \in Callers : \A n \in CallNos : n > calls[r] => ~OwnerCall(r, n)

\* A new call is in lookup, or joins and has no transaction.
LEMMA PushStatuses ==
  ASSUME StackInv, CallsGrow, FreshHome, NEW r \in Callers, MayCall(r), NEW f,
         Push(r, f), f.call = calls[r] + 1,
         NEW h, home' = [home EXCEPT ![r][calls[r] + 1] = h],
         h = calls[r] + 1 => f.phase = "lookup", tx' = tx,
         NEW q \in Callers, NEW n \in CallNos
  PROVE  StatusOf(q, n)' = StatusOf(q, n)
  <1>1. /\ calls[r] \in Nat /\ calls[r] + 1 \in CallNos /\ depth[r] \in Nat
        /\ depth[r] + 1 \in Levels
    BY MayCallBounds
  <1>2. /\ \A p \in Callers : \A l \in 1..depth[p] :
              Kept(p, l) /\ frame'[p][l].phase = frame[p][l].phase
        /\ \A p \in Callers : p # r => depth'[p] = depth[p]
        /\ depth'[r] = depth[r] + 1
        /\ frame'[r][depth[r] + 1] = f
        /\ home'[r][calls[r] + 1] = h
    BY PushFrames
  <1>3. CASE q = r /\ n = calls[r] + 1
    <2>1. StatusOf(q, n) = "fresh"
      <3>1. ~OwnerCall(q, n)
        BY <1>1, <1>3 DEF FreshHome
      <3> QED
        BY <3>1, NotAnOwner
    <2>2. StatusOf(q, n)' = "fresh"
      <3>1. CASE h = calls[r] + 1
        <4>1. depth[r] + 1 \in 1..depth'[r]
          BY <1>1, <1>2
        <4>2. frame'[r][depth[r] + 1].call = n /\ frame'[r][depth[r] + 1].phase = "lookup"
          BY <1>2, <1>3, <3>1
        <4>3. Beginning(q, n)'
          BY <1>3, <4>1, <4>2, Zenon DEF Beginning
        <4> QED
          BY <4>3, Zenon DEF StatusOf
      <3>2. CASE h # calls[r] + 1
        <4>1. ~OwnerCall(q, n)'
          BY <1>2, <1>3, <3>2 DEF OwnerCall
        <4> QED
          BY <4>1, NotAnOwner
      <3> QED
        BY <3>1, <3>2
    <2> QED
      BY <2>1, <2>2
  <1>4. CASE q # r \/ n # calls[r] + 1
    <2>1. OwnerCall(q, n)' <=> OwnerCall(q, n)
      BY <1>1, <1>4 DEF OwnerCall, StackInv, StackTypes
    <2>2. ASSUME NEW d
          PROVE  /\ d \in 1..depth'[q] /\ frame'[q][d].call = n
                       <=> d \in 1..depth[q] /\ frame[q][d].call = n
                 /\ d \in 1..depth[q] /\ frame[q][d].call = n =>
                       StandsAs(frame'[q][d], tx') = StandsAs(frame[q][d], tx)
      <3>1. depth[q] \in Nat
        BY Bounds DEF StackInv, StackTypes
      <3>2. d \in 1..depth[q] => d \in 1..depth'[q]
        BY <1>1, <1>2, <3>1
      <3>3. d \in 1..depth'[q] /\ d \notin 1..depth[q] => q = r /\ d = depth[r] + 1
        BY <1>1, <1>2, <3>1
      <3>4. d \in 1..depth'[q] /\ d \notin 1..depth[q] => frame'[q][d].call # n
        BY <1>2, <1>4, <3>3
      <3>5. d \in 1..depth[q] =>
              /\ frame'[q][d].call = frame[q][d].call
              /\ frame'[q][d].conn = frame[q][d].conn
              /\ frame'[q][d].phase = frame[q][d].phase
        BY <1>2 DEF Kept
      <3> QED
        BY <3>2, <3>4, <3>5 DEF StandsAs
    <2> QED
      BY <2>1, <2>2, StatusKept
  <1> QED
    BY <1>3, <1>4

\* A call without tenant has had no transaction.
LEMMA RefuseStatuses ==
  ASSUME StackInv, CallsGrow, FreshHome, NEW r \in Callers, CallWithoutTenant(r)
  PROVE  /\ \A q \in Callers : \A n \in CallNos :
               q # r \/ n # calls[r] + 1 => StatusOf(q, n)' = StatusOf(q, n)
         /\ \A n \in CallNos : n = calls[r] + 1 =>
               StatusOf(r, n) = "fresh" /\ StatusOf(r, n)' = "ended"
  <1>1. /\ MayCall(r) /\ UNCHANGED <<depth, frame, tx>>
        /\ home' = [home EXCEPT ![r][calls[r] + 1] = calls[r] + 1]
    BY DEF CallWithoutTenant, dbVars
  <1>2. calls[r] \in Nat /\ calls[r] + 1 \in CallNos
    BY <1>1, MayCallBounds
  <1>3. ASSUME NEW q \in Callers, NEW n \in CallNos, q # r \/ n # calls[r] + 1
        PROVE  StatusOf(q, n)' = StatusOf(q, n)
    <2>1. OwnerCall(q, n)' <=> OwnerCall(q, n)
      BY <1>1, <1>2, <1>3 DEF OwnerCall, StackInv, StackTypes
    <2> QED
      BY <1>1, <2>1, StatusKept
  <1>4. ASSUME NEW n \in CallNos, n = calls[r] + 1
        PROVE  StatusOf(r, n) = "fresh" /\ StatusOf(r, n)' = "ended"
    <2>1. ~OwnerCall(r, n) /\ OwnerCall(r, n)'
      BY <1>1, <1>2, <1>4 DEF FreshHome, OwnerCall, StackInv, StackTypes
    <2>2. \A e \in 1..depth'[r] : frame'[r][e].call # n
      <3> SUFFICES ASSUME NEW e \in 1..depth[r] PROVE frame[r][e].call # n
        BY <1>1
      <3>1. frame[r][e].call \in 1..calls[r]
        BY FrameConn DEF FrameOK
      <3> QED
        BY <1>2, <1>4, <3>1
    <2> QED
      BY <2>1, <2>2, NotAnOwner, StatusGone
  <1> QED
    BY <1>3, <1>4

\* The loss of a connection ends the transaction that holds it, if any.
LEMMA DropStatuses ==
  ASSUME StackInv, DbTypes, SessionInv, CallsGrow, NEW c \in Conns, Drop(c),
         NEW q \in Callers, NEW n \in CallNos
  PROVE  \/ StatusOf(q, n)' = StatusOf(q, n)
         \/ /\ StatusOf(q, n) = "open" /\ StatusOf(q, n)' = "ended"
            /\ \E d \in 1..depth[q] : frame[q][d].call = n /\ holder[c] = <<q, d>>
  <1>1. /\ Detach(c) /\ UNCHANGED <<depth, calls, home>>
        /\ tx' = [tx EXCEPT ![c] = "none"]
    BY DEF Drop, callVars, EndTransaction
  <1>2. ASSUME NEW d \in 1..depth[q]
        PROVE  /\ frame'[q][d].call = frame[q][d].call
               /\ frame'[q][d].phase = frame[q][d].phase
               /\ frame[q][d].conn = c => frame'[q][d].conn = NoConn
               /\ frame[q][d].conn # c =>
                     StandsAs(frame'[q][d], tx') = StandsAs(frame[q][d], tx)
    <2>1. d \in Levels /\ frame[q][d] \in Frames /\ frame[q][d].conn \in Conns \cup {NoConn}
      BY FrameConn
    <2>2. frame'[q][d] = IF frame[q][d].conn = c THEN [frame[q][d] EXCEPT !.conn = NoConn]
                         ELSE frame[q][d]
      BY <1>1, <2>1 DEF Detach
    <2>3. frame[q][d].conn # c =>
            StandsAs(frame'[q][d], tx') = StandsAs(frame[q][d], tx)
      BY <1>1, <2>1, <2>2 DEF StandsAs, DbTypes
    <2> QED
      BY <2>1, <2>2, <2>3 DEF Frames
  <1>3. OwnerCall(q, n)' <=> OwnerCall(q, n)
    BY <1>1 DEF OwnerCall
  <1>4. CASE \E d \in 1..depth[q] :
               OwnerCall(q, n) /\ frame[q][d].call = n /\ frame[q][d].conn = c
    <2>1. PICK d \in 1..depth[q] :
            OwnerCall(q, n) /\ frame[q][d].call = n /\ frame[q][d].conn = c
      BY <1>4
    <2>2. OnlyFrame(frame[q], 1..depth[q], n, d) /\ OwnsAt(q, d)
      BY <2>1, OneFrameEach DEF OwnerCall, OwnsAt
    <2>3. OnlyFrame(frame'[q], 1..depth'[q], n, d)
      BY <1>1, <1>2, <2>2 DEF OnlyFrame
    <2>4. /\ StatusOf(q, n) = StandsAs(frame[q][d], tx)
          /\ StatusOf(q, n)' = StandsAs(frame'[q][d], tx')
      BY <1>3, <2>1, <2>2, <2>3, StatusAt, StatusAtAfter
    <2>5. holder[c] = <<q, d>>
      <3>1. SessionOK(q, d) /\ c # NoConn
        BY FrameConn, PoolAssumption DEF SessionInv
      <3> QED
        BY <2>1, <2>2, <3>1 DEF SessionOK
    <2> QED
      BY <1>2, <2>1, <2>4, <2>5 DEF StandsAs
  <1>5. CASE ~\E d \in 1..depth[q] :
               OwnerCall(q, n) /\ frame[q][d].call = n /\ frame[q][d].conn = c
    <2>1. ASSUME OwnerCall(q, n), NEW d
          PROVE  /\ d \in 1..depth'[q] /\ frame'[q][d].call = n
                       <=> d \in 1..depth[q] /\ frame[q][d].call = n
                 /\ d \in 1..depth[q] /\ frame[q][d].call = n =>
                       StandsAs(frame'[q][d], tx') = StandsAs(frame[q][d], tx)
      BY <1>1, <1>2, <1>5, <2>1
    <2> QED
      BY <1>3, <2>1, StatusKept
  <1> QED
    BY <1>4, <1>5

-----------------------------------------------------------------------------
(* The steps of AtomicTransactions.                                        *)

Transactions == Callers \X CallNos

\* A step of Transactional is one of AtomicTransactions or leaves it as it is.
AtomicStep == [Atomic!AtomicNext]_(Atomic!atomicVars)

LEMMA MappedWrites ==
  ASSUME SameWrites
  PROVE  [t \in Transactions |-> WritesIn(t[1], t[2])]'
           = [t \in Transactions |-> WritesIn(t[1], t[2])]
  BY DEF SameWrites, Transactions

LEMMA MappedStatus ==
  ASSUME NEW r \in Callers, NEW m \in CallNos,
         \A q \in Callers : \A n \in CallNos :
            q # r \/ n # m => StatusOf(q, n)' = StatusOf(q, n)
  PROVE  /\ Atomic!Become(<<r, m>>, StatusOf(r, m)')
         /\ StatusOf(r, m)' = StatusOf(r, m) =>
              [t \in Transactions |-> StatusOf(t[1], t[2])]'
                = [t \in Transactions |-> StatusOf(t[1], t[2])]
  <1>1. ASSUME NEW t \in Transactions, t # <<r, m>>
        PROVE  StatusOf(t[1], t[2])' = StatusOf(t[1], t[2])
    BY <1>1 DEF Transactions
  <1>2. <<r, m>> \in Transactions
    BY DEF Transactions
  <1> QED
    BY <1>1, <1>2 DEF Transactions, Atomic!Become

\* One transaction at most moves, as AtomicTransactions allows it to.
LEMMA OneMoves ==
  ASSUME NEW r \in Callers, NEW m \in CallNos, SameWrites,
         \A q \in Callers : \A n \in CallNos :
            q # r \/ n # m => StatusOf(q, n)' = StatusOf(q, n),
         \/ /\ committed' = committed
            /\ \/ StatusOf(r, m)' = StatusOf(r, m)
               \/ StatusOf(r, m) = "fresh" /\ StatusOf(r, m)' = "open"
               \/ StatusOf(r, m) # "ended" /\ StatusOf(r, m)' = "ended"
         \/ /\ committed' = committed \cup WritesIn(r, m)
            /\ StatusOf(r, m) = "open" /\ StatusOf(r, m)' = "ended"
  PROVE  AtomicStep
  <1>1. /\ Atomic!Become(<<r, m>>, StatusOf(r, m)')
        /\ StatusOf(r, m)' = StatusOf(r, m) =>
              [t \in Transactions |-> StatusOf(t[1], t[2])]'
                = [t \in Transactions |-> StatusOf(t[1], t[2])]
    BY MappedStatus
  <1>2. [t \in Transactions |-> WritesIn(t[1], t[2])]'
          = [t \in Transactions |-> WritesIn(t[1], t[2])]
    BY MappedWrites
  <1>3. /\ <<r, m>> \in Callers \X CallNos
        /\ [t \in Callers \X CallNos |-> StatusOf(t[1], t[2])][<<r, m>>] = StatusOf(r, m)
        /\ [t \in Callers \X CallNos |-> WritesIn(t[1], t[2])][<<r, m>>] = WritesIn(r, m)
    OBVIOUS
  <1>4. CASE committed' = committed /\ StatusOf(r, m)' = StatusOf(r, m)
    BY <1>1, <1>2, <1>4 DEF AtomicStep, Atomic!atomicVars, Transactions
  <1>5. CASE /\ committed' = committed
             /\ StatusOf(r, m) = "fresh" /\ StatusOf(r, m)' = "open"
    <2>1. Atomic!Begin(<<r, m>>)
      BY <1>1, <1>2, <1>3, <1>5 DEF Atomic!Begin, Transactions
    <2> QED
      BY <1>3, <2>1 DEF AtomicStep, Atomic!AtomicNext
  <1>6. CASE /\ committed' = committed
             /\ StatusOf(r, m) # "ended" /\ StatusOf(r, m)' = "ended"
    <2>1. Atomic!Abort(<<r, m>>)
      BY <1>1, <1>2, <1>3, <1>6 DEF Atomic!Abort, Transactions
    <2> QED
      BY <1>3, <2>1 DEF AtomicStep, Atomic!AtomicNext
  <1>7. CASE /\ committed' = committed \cup WritesIn(r, m)
             /\ StatusOf(r, m) = "open" /\ StatusOf(r, m)' = "ended"
    <2>1. Atomic!Commit(<<r, m>>)
      BY <1>1, <1>2, <1>3, <1>7 DEF Atomic!Commit, Transactions
    <2> QED
      BY <1>3, <2>1 DEF AtomicStep, Atomic!AtomicNext
  <1> QED
    BY <1>4, <1>5, <1>6, <1>7

\* No transaction moves.
LEMMA NoneMoves ==
  ASSUME SameWrites, committed' = committed,
         \A q \in Callers : \A n \in CallNos : StatusOf(q, n)' = StatusOf(q, n)
  PROVE  AtomicStep
  <1>1. [t \in Transactions |-> WritesIn(t[1], t[2])]'
          = [t \in Transactions |-> WritesIn(t[1], t[2])]
    BY MappedWrites
  <1>2. [t \in Transactions |-> StatusOf(t[1], t[2])]'
          = [t \in Transactions |-> StatusOf(t[1], t[2])]
    BY DEF Transactions
  <1> QED
    BY <1>1, <1>2 DEF AtomicStep, Atomic!atomicVars, Transactions

\* The top call goes on in a transaction of its own, or with a statement in the one
\* of the call at level l, which it joined.
LEMMA TopMoves ==
  ASSUME StackInv, SessionInv, CallsGrow, NEW r \in Callers, NEW l \in 1..depth[r],
         OwnsAt(r, l), l = depth[r] \/ ~Owns(r), TopOnly(r), wrote' = wrote,
         \A k \in Conns : tx'[k] # tx[k] => holder[k] = <<r, l>>,
         LET before == StandsAs(frame[r][l], tx)
             after == StandsAs(frame'[r][l], tx')
         IN  \/ /\ committed' = committed
                /\ \/ after = before
                   \/ before = "fresh" /\ after = "open"
                   \/ before # "ended" /\ after = "ended"
             \/ /\ committed' = committed \cup WritesIn(r, frame[r][l].call)
                /\ before = "open" /\ after = "ended"
  PROVE  AtomicStep
  <1>1. PICK m : m = frame[r][l].call
    OBVIOUS
  <1>2. m \in CallNos
    BY <1>1, OneFrameEach
  <1>3. /\ StatusOf(r, m) = StandsAs(frame[r][l], tx)
        /\ StatusOf(r, m)' = StandsAs(frame'[r][l], tx')
    BY <1>1, LevelStatus
  <1>4. ASSUME NEW q \in Callers, NEW n \in CallNos, q # r \/ n # m
        PROVE  StatusOf(q, n)' = StatusOf(q, n)
    <2>1. CASE q # r \/ n # Top(r).call
      BY <1>1, <1>4, <2>1, TopStatuses
    <2>2. CASE q = r /\ n = Top(r).call
      <3>1. ~Owns(r)
        BY <1>1, <1>4, <2>2 DEF Top
      <3>2. ~OwnerCall(q, n) /\ ~OwnerCall(q, n)'
        BY <2>2, <3>1 DEF OwnerCall, Owns, OwnsAt, Top, TopOnly
      <3> QED
        BY <3>2, NotAnOwner
    <2> QED
      BY <2>1, <2>2
  <1>5. SameWrites
    BY NoNewWrites DEF TopOnly
  <1> QED
    BY <1>1, <1>2, <1>3, <1>4, <1>5, OneMoves

\* A joined call goes on without a statement.
LEMMA JoinedMoves ==
  ASSUME StackInv, SessionInv, CallsGrow, NEW r \in Callers, depth[r] > 0,
         ~Owns(r), TopOnly(r), UNCHANGED <<wrote, tx, committed>>
  PROVE  AtomicStep
  <1>1. depth[r] \in 1..depth[r]
    BY Bounds DEF StackInv, StackTypes
  <1>2. ASSUME NEW q \in Callers, NEW n \in CallNos
        PROVE  StatusOf(q, n)' = StatusOf(q, n)
    <2>1. CASE q # r \/ n # Top(r).call
      BY <1>1, <2>1, TopStatuses DEF Top
    <2>2. CASE q = r /\ n = Top(r).call
      <3>1. ~OwnerCall(q, n) /\ ~OwnerCall(q, n)'
        BY <2>2 DEF OwnerCall, Owns, OwnsAt, Top, TopOnly
      <3> QED
        BY <3>1, NotAnOwner
    <2> QED
      BY <2>1, <2>2
  <1>3. SameWrites
    BY NoNewWrites DEF TopOnly
  <1> QED
    BY <1>2, <1>3, NoneMoves

\* A call settles; what it did not begin or still had open is given up.
LEMMA SettleMoves ==
  ASSUME StackInv, CallsGrow, NEW r \in Callers, depth[r] > 0, NEW result,
         Settle(r, result), UNCHANGED <<tx, committed>>
  PROVE  AtomicStep
  <1>1. PICK m : m = Top(r).call
    OBVIOUS
  <1>2. m \in CallNos
    BY <1>1, TopCall
  <1>3. /\ \A q \in Callers : \A n \in CallNos :
              q # r \/ n # m => StatusOf(q, n)' = StatusOf(q, n)
        /\ StatusOf(r, m)' = IF Owns(r) THEN "ended" ELSE StatusOf(r, m)
    BY <1>1, <1>2, SettleStatuses
  <1>4. SameWrites
    BY NoNewWrites DEF Settle
  <1> QED
    BY <1>2, <1>3, <1>4, OneMoves

\* The top call of an owner goes on and no session changes.
LEMMA OwnerMoves ==
  ASSUME StackInv, SessionInv, CallsGrow, NEW r \in Callers, depth[r] > 0,
         Owns(r), TopOnly(r), UNCHANGED <<wrote, tx, committed>>,
         \/ Top(r).phase \in SetupPhases /\ frame'[r][depth[r]].phase \in SetupPhases
         \/ /\ Top(r).phase \notin SetupPhases
            /\ frame'[r][depth[r]].phase \notin SetupPhases
            /\ frame'[r][depth[r]].conn = Top(r).conn
  PROVE  AtomicStep
  <1>1. depth[r] \in 1..depth[r] /\ OwnsAt(r, depth[r])
    BY Bounds DEF StackInv, StackTypes, Owns
  <1>2. StandsAs(frame'[r][depth[r]], tx') = StandsAs(frame[r][depth[r]], tx)
    BY DEF StandsAs, Top
  <1> QED
    BY <1>1, <1>2, TopMoves

LEMMA SetupMoves ==
  ASSUME StackInv, DbTypes, SessionInv, CallsGrow, NEW r \in Callers, Setup(r)
  PROVE  AtomicStep
  <1>1. CASE Lookup(r)
    <2>1. UNCHANGED <<depth, frame, calls, home, wrote, tx, committed>>
      BY <1>1 DEF Lookup, txnVars, callVars, dbVars
    <2>2. SameWrites
      BY <2>1, NoNewWrites
    <2>3. \A q \in Callers : \A n \in CallNos : StatusOf(q, n)' = StatusOf(q, n)
      BY <2>1 DEF StatusOf, OwnerCall, Beginning, Open
    <2> QED
      BY <2>1, <2>2, <2>3, NoneMoves
  <1>2. CASE Resolve(r)
    <2>1. /\ depth[r] > 0 /\ Top(r).phase = "lookup"
          /\ UNCHANGED <<wrote, tx, committed>>
      BY <1>2 DEF Resolve, At, callVars, dbVars
    <2>2. Owns(r)
      BY <2>1, TopOK DEF OwnerPhases, Phases
    <2> QED
      BY <1>2, <2>1, <2>2, ResolveMove, OwnerMoves DEF SetupPhases
  <1>3. CASE Reject(r) \/ ConnectFail(r) \/ SetSearchPathFail(r) \/ StartTransactionFail(r)
    BY <1>3, SettleMoves
    DEF Reject, ConnectFail, SetSearchPathFail, StartTransactionFail, At, dbVars
  <1>4. CASE Connect(r)
    <2>1. /\ depth[r] > 0 /\ Top(r).phase = "connect"
          /\ UNCHANGED <<wrote, tx, committed>>
      BY <1>4 DEF Connect, At, callVars
    <2>2. Owns(r)
      BY <2>1, TopOK DEF OwnerPhases, Phases
    <2> QED
      BY <1>4, <2>1, <2>2, ConnectMove, OwnerMoves DEF SetupPhases
  <1>5. CASE SetSearchPath(r)
    <2>1. /\ depth[r] > 0 /\ Top(r).phase = "setPath" /\ GoTo(r, "begin")
          /\ UNCHANGED <<depth, calls, home, wrote, tx, committed>>
      BY <1>5 DEF SetSearchPath, At, callVars
    <2>2. Owns(r)
      BY <2>1, TopOK DEF OwnerPhases, Phases
    <2> QED
      BY <2>1, <2>2, GoToMove, OwnerMoves DEF SetupPhases, Phases
  <1>6. CASE StartTransaction(r)
    <2>1. /\ depth[r] > 0 /\ Top(r).phase = "begin" /\ GoTo(r, "body")
          /\ Top(r).conn # NoConn
          /\ tx' = [tx EXCEPT ![Top(r).conn] = "active"]
          /\ UNCHANGED <<depth, calls, home, wrote, committed>>
      BY <1>6 DEF StartTransaction, At, callVars
    <2>2. /\ TopOnly(r) /\ frame'[r][depth[r]].conn = Top(r).conn
          /\ frame'[r][depth[r]].phase = "body"
      BY <2>1, GoToMove DEF Phases
    <2>3. /\ Owns(r) /\ Top(r).conn \in Conns
          /\ holder[Top(r).conn] = <<r, depth[r]>>
      BY <2>1, TopHolds DEF OwnerPhases, Phases
    <2>4. /\ tx'[Top(r).conn] = "active"
          /\ \A k \in Conns : tx'[k] # tx[k] => holder[k] = <<r, depth[r]>>
      BY <2>1, <2>3 DEF DbTypes
    <2>5. /\ StandsAs(frame[r][depth[r]], tx) = "fresh"
          /\ StandsAs(frame'[r][depth[r]], tx') = "open"
      BY <2>1, <2>2, <2>4 DEF StandsAs, SetupPhases, Top
    <2>6. depth[r] \in 1..depth[r] /\ OwnsAt(r, depth[r])
      BY <2>1, <2>3, Bounds DEF StackInv, StackTypes, Owns
    <2> QED
      BY <2>1, <2>2, <2>4, <2>5, <2>6, TopMoves
  <1> QED
    BY <1>1, <1>2, <1>3, <1>4, <1>5, <1>6 DEF Setup

LEMMA CallMoves ==
  ASSUME StackInv, DbTypes, CallsGrow, WritesMade, FreshHome, NEW r \in Callers, Call(r)
  PROVE  AtomicStep
  <1>1. CASE CallJoin(r)
    <2> DEFINE f == [NoFrame EXCEPT !.phase = "body", !.conn = ContextConn(r),
                                    !.call = calls[r] + 1]
               h == home[r][Top(r).call]
    <2>1. /\ MayCall(r) /\ depth[r] > 0 /\ Push(r, f)
          /\ home' = [home EXCEPT ![r][calls[r] + 1] = h]
          /\ UNCHANGED <<tx, committed>>
      BY <1>1 DEF CallJoin, dbVars
    <2>2. f.call = calls[r] + 1
      BY DEF NoFrame
    <2>3. h # calls[r] + 1
      <3>1. Top(r).call \in 1..calls[r] /\ calls[r] \in Nat
        BY <2>1, TopOK, MayCallBounds DEF FrameOK, Top
      <3>2. h \in 1..Top(r).call
        BY <3>1 DEF StackInv
      <3> QED
        BY <3>1, <3>2
    <2> HIDE DEF f
    <2>4. wrote' = wrote
      BY <2>1 DEF Push
    <2>5. SameWrites
      BY <2>1, <2>4, PushWrites
    <2>6. \A q \in Callers : \A n \in CallNos : StatusOf(q, n)' = StatusOf(q, n)
      <3>1. h = calls[r] + 1 => f.phase = "lookup"
        BY <2>3
      <3> QED
        BY <2>1, <2>2, <3>1, PushStatuses
    <2> QED
      BY <2>1, <2>5, <2>6, NoneMoves
  <1>2. ASSUME NEW p \in Propagations, CallNew(r, p) PROVE AtomicStep
    <2> DEFINE f == [NoFrame EXCEPT !.phase = "lookup", !.propagation = p,
                                    !.call = calls[r] + 1]
    <2>1. /\ MayCall(r) /\ Push(r, f)
          /\ home' = [home EXCEPT ![r][calls[r] + 1] = calls[r] + 1]
          /\ UNCHANGED <<tx, committed>>
      BY <1>2 DEF CallNew, dbVars
    <2>2. f.call = calls[r] + 1 /\ f.phase = "lookup"
      BY DEF NoFrame
    <2> HIDE DEF f
    <2>3. wrote' = wrote
      BY <2>1 DEF Push
    <2>4. SameWrites
      BY <2>1, <2>3, PushWrites
    <2>5. \A q \in Callers : \A n \in CallNos : StatusOf(q, n)' = StatusOf(q, n)
      BY <2>1, <2>2, PushStatuses
    <2> QED
      BY <2>1, <2>4, <2>5, NoneMoves
  <1>3. CASE CallWithoutTenant(r)
    <2>1. /\ MayCall(r) /\ UNCHANGED <<wrote, committed>>
          /\ home' = [home EXCEPT ![r][calls[r] + 1] = calls[r] + 1]
      BY <1>3 DEF CallWithoutTenant, dbVars
    <2>2. SameWrites
      BY <2>1, PushWrites
    <2>3. PICK m : m = calls[r] + 1
      OBVIOUS
    <2>4. m \in CallNos
      BY <2>1, <2>3, MayCallBounds
    <2>5. /\ \A q \in Callers : \A n \in CallNos :
                q # r \/ n # m => StatusOf(q, n)' = StatusOf(q, n)
          /\ StatusOf(r, m) = "fresh" /\ StatusOf(r, m)' = "ended"
      BY <1>3, <2>3, <2>4, RefuseStatuses
    <2> QED
      BY <2>1, <2>2, <2>4, <2>5, OneMoves
  <1> QED
    BY <1>1, <1>2, <1>3 DEF Call

\* A statement writes in the transaction its call has joined, which is open.
LEMMA StatementMoves ==
  ASSUME StackInv, JoinedInv, CallsGrow, NEW r \in Callers, SqlOk(r)
  PROVE  AtomicStep
  <1> DEFINE c == Top(r).conn
             w == <<r, Top(r).call>>
  <1>1. /\ depth[r] > 0 /\ Top(r).phase = "body" /\ c # NoConn /\ tx[c] = "active"
        /\ w \notin wrote
        /\ wrote' = wrote \cup {w}
        /\ UNCHANGED <<depth, frame, calls, home, tx, committed>>
    BY DEF SqlOk, At
  <1>2. depth[r] \in 1..depth[r] /\ w \in Writes
    <2>1. w \in Writes
      BY <1>1, TopCall
    <2>2. depth[r] \in 1..depth[r]
      BY <1>1, Bounds DEF StackInv, StackTypes
    <2> QED
      BY <2>1, <2>2
  <1>3. PICK l \in 1..depth[r] : /\ frame[r][l].conn = c
                                 /\ OwnsAt(r, l)
                                 /\ frame[r][l].call = home[r][Top(r).call]
    BY <1>1, <1>2 DEF JoinedInv, JoinedOK, Top
  <1>4. PICK n : n = frame[r][l].call
    OBVIOUS
  <1>5. frame[r][l].phase = "body" /\ n \in CallNos
    <2>1. FrameOK(r, l) /\ l <= depth[r] /\ l \in Nat /\ depth[r] \in Nat
      BY FrameConn
    <2>2. frame[r][l].phase = "body"
      BY <1>1, <2>1 DEF FrameOK, Top
    <2> QED
      BY <1>4, <2>2, OneFrameEach
  <1>6. StatusOf(r, n) = "open"
    <2>1. TopOnly(r)
      BY <1>1 DEF TopOnly, Top
    <2>2. StatusOf(r, n) = StandsAs(frame[r][l], tx)
      BY <1>3, <1>4, <2>1, LevelStatus
    <2> QED
      BY <1>1, <1>3, <1>5, <2>2 DEF StandsAs, SetupPhases
  <1>7. /\ WritesIn(r, n)' = WritesIn(r, n) \cup {w}
        /\ \A q, m : q # r \/ m # n => WritesIn(q, m)' = WritesIn(q, m)
        /\ \A q, m : w \notin WritesIn(q, m)
    BY <1>1, <1>3, <1>4 DEF WritesIn
  <1>8. \A q \in Callers : \A m \in CallNos : StatusOf(q, m)' = StatusOf(q, m)
    BY <1>1 DEF StatusOf, OwnerCall, Beginning, Open
  <1>9. [t \in Transactions |-> StatusOf(t[1], t[2])]'
          = [t \in Transactions |-> StatusOf(t[1], t[2])]
    BY <1>8 DEF Transactions
  <1> HIDE DEF w
  <1>10. [t \in Transactions |-> WritesIn(t[1], t[2])]'
           = [[t \in Transactions |-> WritesIn(t[1], t[2])]
                EXCEPT ![<<r, n>>] = WritesIn(r, n) \cup {w}]
    <2>1. ASSUME NEW t \in Transactions, t # <<r, n>>
          PROVE  WritesIn(t[1], t[2])' = WritesIn(t[1], t[2])
      BY <1>7, <2>1 DEF Transactions
    <2>2. ASSUME NEW t \in Transactions, t = <<r, n>>
          PROVE  WritesIn(t[1], t[2])' = WritesIn(r, n) \cup {w}
      BY <1>7, <2>2
    <2>3. <<r, n>> \in Transactions
      BY <1>5 DEF Transactions
    <2> QED
      BY <2>1, <2>2, <2>3
  <1>11. /\ <<r, n>> \in Callers \X CallNos /\ w \in Writes
         /\ [t \in Callers \X CallNos |-> StatusOf(t[1], t[2])][<<r, n>>] = StatusOf(r, n)
         /\ [t \in Callers \X CallNos |-> WritesIn(t[1], t[2])][<<r, n>>] = WritesIn(r, n)
    BY <1>2, <1>5
  <1>12. Atomic!Write(<<r, n>>, w)
    BY <1>1, <1>6, <1>7, <1>9, <1>10, <1>11 DEF Atomic!Write, Transactions
  <1> QED
    BY <1>11, <1>12 DEF AtomicStep, Atomic!AtomicNext

\* The top call goes on from its body or from the end of its transaction, and no
\* session changes.
LEMMA GoToMoves ==
  ASSUME StackInv, SessionInv, CallsGrow, NEW r \in Callers, depth[r] > 0,
         NEW p \in Phases \ SetupPhases, GoTo(r, p), Top(r).phase \notin SetupPhases,
         UNCHANGED <<depth, calls, home, wrote, tx, committed>>
  PROVE  AtomicStep
  <1>1. /\ TopOnly(r) /\ frame'[r][depth[r]].phase = p
        /\ frame'[r][depth[r]].conn = Top(r).conn
    BY GoToMove
  <1> QED
    BY <1>1, OwnerMoves, JoinedMoves

\* A statement that fails aborts the transaction its call has joined.
LEMMA FailureMoves ==
  ASSUME StackInv, DbTypes, JoinedInv, SessionInv, CallsGrow, NEW r \in Callers, SqlFail(r)
  PROVE  AtomicStep
  <1>1. /\ depth[r] > 0 /\ Top(r).phase = "body"
        /\ UNCHANGED <<depth, calls, home, wrote, committed>>
    BY DEF SqlFail, At, callVars
  <1>2. PICK p \in {"body", "rollback", "failing"} : GoTo(r, p)
    BY DEF SqlFail, FailPhase
  <1>3. CASE tx' = tx
    BY <1>1, <1>2, <1>3, GoToMoves DEF Phases, SetupPhases
  <1>4. CASE Top(r).conn # NoConn /\ tx' = [tx EXCEPT ![Top(r).conn] = "aborted"]
    <2> DEFINE c == Top(r).conn
    <2>1. depth[r] \in 1..depth[r]
      BY <1>1, Bounds DEF StackInv, StackTypes
    <2>2. PICK l \in 1..depth[r] : /\ frame[r][l].conn = c
                                   /\ OwnsAt(r, l)
                                   /\ frame[r][l].call = home[r][Top(r).call]
      BY <1>4, <2>1 DEF JoinedInv, JoinedOK, Top
    <2>3. l = depth[r] \/ ~Owns(r)
      <3>1. Owns(r) => frame[r][l].call = frame[r][depth[r]].call
        BY <2>2 DEF Owns, OwnsAt, Top
      <3> QED
        BY <2>1, <3>1, OneFrameEach DEF OnlyFrame
    <2>4. /\ TopOnly(r) /\ frame'[r][depth[r]].phase = p
          /\ frame'[r][depth[r]].conn = c
      BY <1>1, <1>2, GoToMove DEF Phases
    <2>5. /\ frame[r][l].phase = "body" /\ c \in Conns /\ holder[c] = <<r, l>>
      <3>1. /\ FrameOK(r, l) /\ SessionOK(r, l) /\ l <= depth[r] /\ l \in Nat
            /\ frame[r][l].conn \in Conns \cup {NoConn} /\ depth[r] \in Nat
        BY FrameConn DEF SessionInv
      <3>2. frame[r][l].phase = "body"
        BY <1>1, <3>1 DEF FrameOK, Top
      <3> QED
        BY <1>4, <2>2, <3>1, <3>2 DEF SessionOK
    <2>6. /\ frame'[r][l].phase \in {"body", "rollback", "failing"}
          /\ frame'[r][l].conn = c
      BY <2>2, <2>4, <2>5 DEF TopOnly
    <2>7. /\ tx'[c] = "aborted"
          /\ \A k \in Conns : tx'[k] # tx[k] => holder[k] = <<r, l>>
      BY <1>4, <2>5 DEF DbTypes
    <2>8. /\ StandsAs(frame[r][l], tx) \in {"open", "ended"}
          /\ StandsAs(frame'[r][l], tx') = "ended"
      BY <2>5, <2>6, <2>7 DEF StandsAs, SetupPhases
    <2> QED
      BY <1>1, <2>2, <2>3, <2>4, <2>7, <2>8, TopMoves
  <1> QED
    BY <1>3, <1>4 DEF SqlFail

LEMMA BodyMoves ==
  ASSUME StackInv, DbTypes, JoinedInv, SessionInv, CallsGrow, NEW r \in Callers, Body(r)
  PROVE  AtomicStep
  <1>1. CASE SqlOk(r)
    BY <1>1, StatementMoves
  <1>2. CASE SqlFail(r)
    BY <1>2, FailureMoves
  <1>3. CASE Throw(r) \/ ReturnOwner(r)
    <2>1. /\ depth[r] > 0 /\ Top(r).phase = "body"
          /\ UNCHANGED <<depth, calls, home, wrote, tx, committed>>
      BY <1>3 DEF Throw, ReturnOwner, At, callVars, dbVars
    <2>2. PICK p \in {"rollback", "failing", "commit"} : GoTo(r, p)
      BY <1>3 DEF Throw, ReturnOwner, FailPhase
    <2> QED
      BY <2>1, <2>2, GoToMoves DEF Phases, SetupPhases
  <1>4. CASE ReturnJoined(r)
    BY <1>4, SettleMoves DEF ReturnJoined, At, dbVars
  <1> QED
    BY <1>1, <1>2, <1>3, <1>4 DEF Body

\* The session of the top call's transaction ends it; what it had written goes to
\* the database all at once, or is forgotten.
LEMMA EndMoves ==
  ASSUME StackInv, DbTypes, SessionInv, AtomicInv, NEW r \in Callers, depth[r] > 0,
         Top(r).phase \in {"commit", "rollback"}, Top(r).conn # NoConn,
         EndTransaction(Top(r).conn), TopOnly(r), wrote' = wrote,
         frame'[r][depth[r]].phase \in {"release", "rollback"},
         frame'[r][depth[r]].conn \in {Top(r).conn, NoConn},
         \/ committed' = committed
         \/ /\ Top(r).phase = "commit" /\ tx[Top(r).conn] = "active"
            /\ committed' = committed \cup pending[Top(r).conn]
  PROVE  AtomicStep
  <1> DEFINE c == Top(r).conn
  <1>1. Owns(r) /\ c \in Conns /\ holder[c] = <<r, depth[r]>>
    BY TopHolds DEF OwnerPhases, Phases
  <1>2. depth[r] \in 1..depth[r] /\ OwnsAt(r, depth[r])
    BY <1>1, Bounds DEF StackInv, StackTypes, Owns
  <1>3. /\ tx'[c] = "none"
        /\ \A k \in Conns : tx'[k] # tx[k] => holder[k] = <<r, depth[r]>>
    BY <1>1 DEF EndTransaction, DbTypes
  <1>4. /\ StandsAs(frame[r][depth[r]], tx) = IF tx[c] = "active" THEN "open" ELSE "ended"
        /\ StandsAs(frame'[r][depth[r]], tx') = "ended"
    BY <1>3 DEF StandsAs, SetupPhases, Top
  <1>5. Top(r).phase = "commit" => pending[c] = WritesIn(r, frame[r][depth[r]].call)
    BY <1>1, TopWrites DEF Top
  <1>6. CallsGrow
    BY DEF AtomicInv
  <1> QED
    BY <1>2, <1>3, <1>4, <1>5, <1>6, TopMoves

LEMMA FinishMoves ==
  ASSUME StackInv, DbTypes, SessionInv, AtomicInv, NEW r \in Callers, Finish(r)
  PROVE  AtomicStep
  <1>0. CallsGrow
    BY DEF AtomicInv
  <1>1. CASE RejectJoined(r) \/ Release(r)
    <2>1. depth[r] > 0 /\ UNCHANGED <<tx, committed>> /\ \E result : Settle(r, result)
      BY <1>1 DEF RejectJoined, Release, At, dbVars
    <2> QED
      BY <1>0, <2>1, SettleMoves
  <1>2. CASE CommitOk(r) \/ CommitRefused(r)
    <2>1. /\ depth[r] > 0 /\ Top(r).phase = "commit" /\ Top(r).conn # NoConn
          /\ EndTransaction(Top(r).conn)
          /\ \/ committed' = committed
             \/ /\ tx[Top(r).conn] = "active"
                /\ committed' = committed \cup pending[Top(r).conn]
          /\ UNCHANGED <<depth, calls, home, wrote>>
      BY <1>2 DEF CommitOk, CommitRefused, At, callVars
    <2>2. PICK p \in {"release", "rollback"} : GoTo(r, p)
      BY <1>2 DEF CommitOk, CommitRefused, OnCommitError
    <2>3. /\ TopOnly(r) /\ frame'[r][depth[r]].phase = p
          /\ frame'[r][depth[r]].conn = Top(r).conn
      BY <2>1, <2>2, GoToMove DEF Phases
    <2> QED
      BY <2>1, <2>3, EndMoves
  <1>3. CASE CommitReplyLost(r)
    <2>1. /\ depth[r] > 0 /\ Top(r).phase = "commit" /\ Top(r).conn # NoConn
          /\ EndTransaction(Top(r).conn)
          /\ tx[Top(r).conn] = "active"
          /\ committed' = committed \cup pending[Top(r).conn] /\ wrote' = wrote
      BY <1>3 DEF CommitReplyLost, At, callVars
    <2>2. /\ TopOnly(r) /\ frame'[r][depth[r]].phase = "rollback"
          /\ frame'[r][depth[r]].conn = NoConn
      BY <1>3, ReplyLostMove
    <2> QED
      BY <2>1, <2>2, EndMoves
  <1>4. CASE CommitLost(r)
    <2>1. /\ depth[r] > 0 /\ Top(r).phase = "commit" /\ GoTo(r, "rollback")
          /\ UNCHANGED <<depth, calls, home, wrote, tx, committed>>
      BY <1>4 DEF CommitLost, OnCommitError, At, callVars, dbVars
    <2> QED
      BY <1>0, <2>1, GoToMoves DEF Phases, SetupPhases
  <1>5. CASE Rollback(r)
    <2>1. /\ depth[r] > 0 /\ Top(r).phase = "rollback" /\ UNCHANGED <<wrote, committed>>
          /\ IF Top(r).conn = NoConn THEN UNCHANGED tx
             ELSE EndTransaction(Top(r).conn)
      BY <1>5 DEF Rollback, RolledBack, At, callVars
    <2>2. /\ TopOnly(r) /\ frame'[r][depth[r]].phase = "release"
          /\ frame'[r][depth[r]].conn = Top(r).conn
      BY <1>5, RollbackMove
    <2>3. CASE Top(r).conn = NoConn
      <3>1. Owns(r)
        BY <2>1, TopOK DEF OwnerPhases, Phases
      <3> QED
        BY <1>0, <2>1, <2>2, <2>3, <3>1, OwnerMoves DEF SetupPhases
    <2>4. CASE Top(r).conn # NoConn
      BY <2>1, <2>2, <2>4, EndMoves
    <2> QED
      BY <2>3, <2>4
  <1> QED
    BY <1>1, <1>2, <1>3, <1>4, <1>5 DEF Finish

LEMMA DropMoves ==
  ASSUME StackInv, DbTypes, SessionInv, CallsGrow, NEW c \in Conns, Drop(c)
  PROVE  AtomicStep
  <1>1. committed' = committed /\ SameWrites
    BY NoNewWrites DEF Drop, callVars
  <1>2. CASE \A q \in Callers : \A n \in CallNos : StatusOf(q, n)' = StatusOf(q, n)
    BY <1>1, <1>2, NoneMoves
  <1>3. ASSUME NEW r \in Callers, NEW m \in CallNos, StatusOf(r, m)' # StatusOf(r, m)
        PROVE  AtomicStep
    <2>1. /\ StatusOf(r, m) = "open" /\ StatusOf(r, m)' = "ended"
          /\ \E d \in 1..depth[r] : frame[r][d].call = m /\ holder[c] = <<r, d>>
      BY <1>3, DropStatuses
    <2>2. ASSUME NEW q \in Callers, NEW n \in CallNos, q # r \/ n # m
          PROVE  StatusOf(q, n)' = StatusOf(q, n)
      BY <2>1, <2>2, DropStatuses
    <2> QED
      BY <1>1, <2>1, <2>2, OneMoves
  <1> QED
    BY <1>2, <1>3

-----------------------------------------------------------------------------
(* The refinement.                                                         *)

LEMMA FreshHomeStep == StackInv /\ FreshHome /\ [Next]_vars => FreshHome'
  <1> SUFFICES ASSUME StackInv, FreshHome, [Next]_vars PROVE FreshHome'
    OBVIOUS
  <1>1. CASE UNCHANGED <<calls, home>>
    BY <1>1 DEF FreshHome, OwnerCall
  <1>2. ASSUME NEW r \in Callers, MayCall(r), NEW h,
               calls' = [calls EXCEPT ![r] = @ + 1],
               home' = [home EXCEPT ![r][calls[r] + 1] = h]
        PROVE  FreshHome'
    <2>1. calls[r] \in Nat /\ calls[r] + 1 \in CallNos
      BY <1>2, MayCallBounds
    <2> SUFFICES ASSUME NEW q \in Callers, NEW n \in CallNos, n > calls'[q]
                 PROVE  ~OwnerCall(q, n)'
      BY DEF FreshHome
    <2>2. n > calls[q] /\ (q = r => n # calls[r] + 1)
      BY <1>2, <2>1, Bounds DEF StackInv, StackTypes
    <2>3. home'[q][n] = home[q][n]
      BY <1>2, <2>1, <2>2 DEF StackInv, StackTypes
    <2> QED
      BY <2>2, <2>3 DEF FreshHome, OwnerCall
  <1>3. ASSUME NEW r \in Callers, Call(r) PROVE FreshHome'
    BY <1>2, <1>3 DEF Call, CallJoin, CallNew, CallWithoutTenant, Push
  <1>4. ASSUME NEW r \in Callers, Setup(r) \/ Body(r) \/ Finish(r)
        PROVE  UNCHANGED <<calls, home>>
    BY <1>4
    DEF Setup, Lookup, Resolve, Reject, Connect, ConnectFail, SetSearchPath,
        SetSearchPathFail, StartTransaction, StartTransactionFail, Settle, txnVars,
        callVars, Body, SqlOk, SqlFail, Throw, ReturnJoined, ReturnOwner, Finish,
        RejectJoined, CommitOk, CommitRefused, CommitLost, CommitReplyLost, Rollback, Release
  <1>5. ASSUME NEW c \in Conns, Drop(c) PROVE UNCHANGED <<calls, home>>
    BY <1>5 DEF Drop, callVars
  <1>6. CASE UNCHANGED vars \/ Terminating
    BY <1>1, <1>6 DEF Terminating, vars, txnVars, callVars
  <1> QED
    BY <1>1, <1>3, <1>4, <1>5, <1>6 DEF Next, Step

LEMMA StartsAtomic == Init => Atomic!AtomicInit
  <1> SUFFICES ASSUME Init PROVE Atomic!AtomicInit
    OBVIOUS
  <1>1. ASSUME NEW q \in Callers, NEW n \in CallNos
        PROVE  StatusOf(q, n) = "fresh" /\ WritesIn(q, n) = {}
    <2>1. ~OwnerCall(q, n)
      BY Bounds DEF Init, OwnerCall
    <2> QED
      BY <2>1, NotAnOwner DEF Init, WritesIn
  <1>2. committed = {}
    BY DEF Init
  <1> QED
    BY <1>1, <1>2 DEF Atomic!AtomicInit

LEMMA StepsAtomic ==
  ConnectionInv /\ AtomicInv /\ FreshHome /\ [Next]_vars => AtomicStep
  <1> SUFFICES ASSUME ConnectionInv, AtomicInv, FreshHome, [Next]_vars PROVE AtomicStep
    OBVIOUS
  <1> USE DEF ConnectionInv
  <1>0. CallsGrow /\ WritesMade
    BY DEF AtomicInv
  <1>1. CASE UNCHANGED vars \/ Terminating
    <2>1. UNCHANGED <<depth, frame, calls, home, wrote, tx, committed>>
      BY <1>1 DEF Terminating, vars, txnVars, callVars, dbVars
    <2>2. SameWrites
      BY <2>1, NoNewWrites
    <2>3. \A q \in Callers : \A n \in CallNos : StatusOf(q, n)' = StatusOf(q, n)
      BY <2>1 DEF StatusOf, OwnerCall, Beginning, Open
    <2> QED
      BY <2>1, <2>2, <2>3, NoneMoves
  <1>2. ASSUME NEW r \in Callers, Step(r) PROVE AtomicStep
    BY <1>0, <1>2, SetupMoves, CallMoves, BodyMoves, FinishMoves DEF Step
  <1>3. ASSUME NEW c \in Conns, Drop(c) PROVE AtomicStep
    BY <1>0, <1>3, DropMoves
  <1> QED
    BY <1>1, <1>2, <1>3 DEF Next

\* The decorator implements the promise of AtomicTransactions, whatever fails or is
\* lost and however decorated methods call, join and catch each other: the writes
\* of a transaction reach the database in one step or never, and none is made in
\* the name of a transaction that has ended (executeInTransaction).
THEOREM TransactionsImplementAtomic == Spec => ImplementsAtomic
  <1>1. Init => FreshHome
    BY Bounds DEF Init, FreshHome, OwnerCall
  <1>2. ConnectionInv /\ AtomicInv /\ FreshHome /\ [Next]_vars => FreshHome'
    BY FreshHomeStep DEF ConnectionInv
  <1>3. ConnectionInv /\ AtomicInv /\ FreshHome /\ [Next]_vars
          => [Atomic!AtomicNext]_(Atomic!atomicVars)
    BY StepsAtomic DEF AtomicStep
  <1> QED
    BY <1>1, <1>2, <1>3, StartsAtomic, AtomicInvariant, PTL
    DEF Spec, ImplementsAtomic, Atomic!AtomicSpec

-----------------------------------------------------------------------------
(* What a rejection means, whatever methods catch.                         *)

\* A pending call is not settled; of one that has failed nothing is in the database.
RejectOK(r, d) ==
    LET f == frame[r][d]
    IN  /\ outcome[r][f.call] = "pending"
        /\ f.failed => f.phase = "release"
        /\ OwnsAt(r, d) /\ (f.phase = "rollback" \/ f.failed) =>
              WritesIn(r, f.call) \cap committed = {}

RejectInv ==
    /\ \A r \in Callers : \A d \in 1..depth[r] : RejectOK(r, d)
    /\ RejectedLeavesNothing

\* A call that stays pending while others go on; its body may have to roll back.
LEMMA KeptReject ==
  ASSUME NEW r \in Callers, NEW d \in Nat, RejectOK(r, d), KeptShape(r, d), SameWrites,
         \/ frame'[r][d].phase = frame[r][d].phase
         \/ /\ frame[r][d].phase = "body"
            /\ OwnsAt(r, d) => WritesIn(r, frame[r][d].call) \cap committed = {},
         WritesIn(r, frame[r][d].call) \cap committed' =
            WritesIn(r, frame[r][d].call) \cap committed,
         outcome'[r][frame[r][d].call] = outcome[r][frame[r][d].call]
  PROVE  RejectOK(r, d)'
  <1>1. PICK n : n = frame[r][d].call
    OBVIOUS
  <1>2. frame'[r][d].call = n /\ WritesIn(r, n)' = WritesIn(r, n)
    BY <1>1 DEF KeptShape, Kept, SameWrites
  <1>3. OwnsAt(r, d)' <=> OwnsAt(r, d)
    BY DEF KeptShape, Kept, OwnsAt
  <1>4. frame'[r][d].failed = frame[r][d].failed
    BY DEF KeptShape
  <1>5. WritesIn(r, frame[r][d].call)' = WritesIn(r, n)
    BY <1>2
  <1> QED
    BY <1>1, <1>2, <1>3, <1>4, <1>5 DEF RejectOK

\* A call settles; if it rejects, its transaction has come to nothing.
LEMMA SettleRejections ==
  ASSUME StackInv, DbTypes, AtomicInv, RejectInv, NEW r \in Callers, depth[r] > 0,
         NEW result, Settle(r, result), committed' = committed,
         Owns(r) /\ result = "error" => WritesIn(r, Top(r).call) \cap committed = {}
  PROVE  RejectInv'
  <1>1. /\ UNCHANGED <<calls, home, wrote>> /\ SameWrites
        /\ outcome' = [outcome EXCEPT ![r][Top(r).call] = result]
        /\ depth[r] \in 1..depth[r]
    BY NoNewWrites, Bounds DEF Settle, StackInv, StackTypes
  <1>2. Top(r).call \in CallNos
    BY TopCall
  <1>3. ASSUME NEW q \in Callers, NEW d \in 1..depth'[q] PROVE RejectOK(q, d)'
    <2>1. /\ d \in 1..depth[q] /\ d \in Nat /\ RejectOK(q, d) /\ KeptShape(q, d)
          /\ q = r => d < depth[r] /\ frame[q][d].phase = "body"
          /\ q # r => frame'[q][d] = frame[q][d]
      BY SettleShape DEF RejectInv
    <2>2. q = r /\ OwnsAt(q, d) => WritesIn(q, frame[q][d].call) \cap committed = {}
      BY <2>1 DEF AtomicInv, WritesOK
    <2>3. outcome'[q][frame[q][d].call] = outcome[q][frame[q][d].call]
      <3>1. q = r => frame[q][d].call # Top(r).call
        <4>1. q = r => d # depth[r]
          BY <1>1, <2>1, Bounds DEF StackInv, StackTypes
        <4>2. CallsGrow
          BY DEF AtomicInv
        <4> QED
          BY <1>1, <2>1, <4>1, <4>2, OneFrameEach DEF OnlyFrame, Top
      <3>2. frame[q][d].call \in CallNos
        <4>1. CallsGrow
          BY DEF AtomicInv
        <4> QED
          BY <2>1, <4>1, OneFrameEach
      <3> QED
        BY <1>1, <1>2, <3>1, <3>2 DEF DbTypes
    <2> QED
      BY <1>1, <2>1, <2>2, <2>3, KeptReject
  <1>4. RejectedLeavesNothing'
    <2> SUFFICES ASSUME NEW q \in Callers, NEW n \in CallNos, OwnerCall(q, n),
                        outcome'[q][n] = "error"
                 PROVE  WritesIn(q, n) \cap committed = {}
      BY <1>1 DEF RejectedLeavesNothing, SameWrites, OwnerCall
    <2>1. CASE q = r /\ n = Top(r).call
      <3>1. Owns(r) /\ result = "error"
        BY <1>1, <1>2, <2>1 DEF DbTypes, OwnerCall, Owns, OwnsAt, Top
      <3> QED
        BY <2>1, <3>1
    <2>2. CASE q # r \/ n # Top(r).call
      <3>1. outcome'[q][n] = outcome[q][n]
        BY <1>1, <1>2, <2>2 DEF DbTypes
      <3> QED
        BY <3>1 DEF RejectInv, RejectedLeavesNothing
    <2> QED
      BY <2>1, <2>2
  <1> QED
    BY <1>3, <1>4 DEF RejectInv

\* The top call goes on, and commits the writes of its own transaction at most.
LEMMA TopRejections ==
  ASSUME StackInv, AtomicInv, RejectInv, NEW r \in Callers, depth[r] > 0,
         TopOnly(r), UNCHANGED <<wrote, outcome>>,
         \/ committed' = committed
         \/ committed' = committed \cup WritesIn(r, Top(r).call),
         LET f == frame'[r][depth[r]]
         IN  /\ f.failed => f.phase = "release"
             /\ Owns(r) /\ (f.phase = "rollback" \/ f.failed) =>
                   WritesIn(r, Top(r).call) \cap committed' = {}
  PROVE  RejectInv'
  <1>0. PICK m : m = Top(r).call
    OBVIOUS
  <1>1. UNCHANGED <<depth, home>> /\ SameWrites /\ depth[r] \in 1..depth[r] /\ CallsGrow
    BY NoNewWrites, Bounds DEF TopOnly, AtomicInv, StackInv, StackTypes
  <1>2. ASSUME NEW q \in Callers, NEW n, q # r \/ n # m
        PROVE  WritesIn(q, n) \cap committed' = WritesIn(q, n) \cap committed
    BY <1>0, <1>2, OwnWrites
  <1>3. ASSUME NEW q \in Callers, NEW d \in 1..depth[q], q # r \/ d # depth[r]
        PROVE  RejectOK(q, d)'
    <2>1. frame'[q][d] = frame[q][d] /\ RejectOK(q, d) /\ d \in Nat
      BY <1>3, FrameConn DEF TopOnly, RejectInv
    <2>2. q # r \/ frame[q][d].call # m
      BY <1>0, <1>1, <1>3, OneFrameEach DEF OnlyFrame, Top
    <2>3. WritesIn(q, frame[q][d].call) \cap committed' =
            WritesIn(q, frame[q][d].call) \cap committed
      BY <1>2, <2>2
    <2>4. KeptShape(q, d)
      BY <1>1, <2>1 DEF KeptShape, Kept
    <2> QED
      BY <1>1, <2>1, <2>3, <2>4, KeptReject
  <1>4. RejectOK(r, depth[r])'
    <2>1. frame'[r][depth[r]].call = m /\ depth' = depth
      BY <1>0 DEF TopOnly
    <2>2. WritesIn(r, frame[r][depth[r]].call)' = WritesIn(r, m)
      <3>1. WritesIn(r, m)' = WritesIn(r, m)
        BY <1>1 DEF SameWrites
      <3> QED
        BY <2>1, <3>1
    <2>3. OwnsAt(r, depth[r])' => Owns(r)
      BY <1>0, <1>1, <2>1 DEF OwnsAt, Owns, Top
    <2>4. outcome[r][m] = "pending"
      BY <1>0, <1>1 DEF RejectInv, RejectOK, Top
    <2> QED
      BY <1>0, <1>1, <2>1, <2>2, <2>3, <2>4 DEF RejectOK
  <1>5. RejectedLeavesNothing'
    <2> SUFFICES ASSUME NEW q \in Callers, NEW n \in CallNos, OwnerCall(q, n),
                        outcome[q][n] = "error"
                 PROVE  WritesIn(q, n) \cap committed' = {}
      BY <1>1 DEF RejectedLeavesNothing, SameWrites, OwnerCall
    <2>1. q # r \/ n # m
      BY <1>0, <1>1 DEF RejectInv, RejectOK, Top
    <2> QED
      BY <1>2, <2>1 DEF RejectInv, RejectedLeavesNothing
  <1> QED
    BY <1>1, <1>3, <1>4, <1>5 DEF RejectInv

LEMMA SameRejections ==
  RejectInv /\ UNCHANGED <<txnVars, committed>> => RejectInv'
  BY DEF RejectInv, RejectOK, OwnsAt, WritesIn, RejectedLeavesNothing, OwnerCall, txnVars,
         callVars

\* A statement writes what is not in the database yet.
LEMMA StatementRejections ==
  ASSUME AtomicInv, RejectInv, NEW r \in Callers, SqlOk(r)
  PROVE  RejectInv'
  <1>1. PICK w : w \notin wrote /\ wrote' = wrote \cup {w}
    BY DEF SqlOk
  <1>2. UNCHANGED <<depth, frame, home, outcome, committed>>
    BY DEF SqlOk
  <1>3. \A q, n : WritesIn(q, n)' \cap committed = WritesIn(q, n) \cap committed
    BY <1>1, <1>2 DEF WritesIn, AtomicInv, WritesMade
  <1>4. ASSUME NEW q \in Callers, NEW d \in 1..depth[q] PROVE RejectOK(q, d)'
    <2>1. PICK n : n = frame[q][d].call
      OBVIOUS
    <2>2. WritesIn(q, n)' \cap committed = WritesIn(q, n) \cap committed
      BY <1>3
    <2>3. WritesIn(q, frame[q][d].call)' = WritesIn(q, n)'
      BY <1>2, <2>1
    <2>4. RejectOK(q, d)
      BY DEF RejectInv
    <2> QED
      BY <1>2, <2>1, <2>2, <2>3, <2>4 DEF RejectOK, OwnsAt
  <1>5. RejectedLeavesNothing'
    BY <1>2, <1>3 DEF RejectInv, RejectedLeavesNothing, OwnerCall
  <1> QED
    BY <1>2, <1>4, <1>5 DEF RejectInv

\* What a new call leaves as it was: the frames below it and their transactions.
LEMMA OtherCalls ==
  ASSUME StackInv, DbTypes, NEW r \in Callers, MayCall(r), NEW h, NEW result,
         home' = [home EXCEPT ![r][calls[r] + 1] = h],
         outcome' = [outcome EXCEPT ![r][calls[r] + 1] = result]
  PROVE  /\ \A q \in Callers : \A d \in 1..depth[q] :
              /\ outcome'[q][frame[q][d].call] = outcome[q][frame[q][d].call]
              /\ home'[q][frame[q][d].call] = home[q][frame[q][d].call]
         /\ \A q \in Callers : \A n \in CallNos : q # r \/ n # calls[r] + 1 =>
              outcome'[q][n] = outcome[q][n] /\ home'[q][n] = home[q][n]
         /\ outcome'[r][calls[r] + 1] = result
  <1>1. calls[r] \in Nat /\ calls[r] + 1 \in CallNos
    BY MayCallBounds
  <1>2. ASSUME NEW q \in Callers, NEW n \in CallNos, q # r \/ n # calls[r] + 1
        PROVE  outcome'[q][n] = outcome[q][n] /\ home'[q][n] = home[q][n]
    BY <1>1, <1>2 DEF DbTypes, StackInv, StackTypes
  <1>3. ASSUME NEW q \in Callers, NEW d \in 1..depth[q]
        PROVE  frame[q][d].call \in CallNos /\ (q = r => frame[q][d].call # calls[r] + 1)
    <2>1. frame[q][d].call \in 1..calls[q] /\ calls[q] \in 0..MaxCalls
      BY FrameConn DEF FrameOK, StackInv, StackTypes
    <2> QED
      BY <1>1, <2>1, Bounds
  <1>4. outcome'[r][calls[r] + 1] = result
    BY <1>1 DEF DbTypes
  <1> QED
    BY <1>2, <1>3, <1>4

\* A call begins; of those that rejected before there still is nothing.
LEMMA PushRejections ==
  ASSUME StackInv, DbTypes, AtomicInv, RejectInv, NEW r \in Callers, MayCall(r), NEW f,
         Push(r, f), f.call = calls[r] + 1, ~f.failed, f.phase \in {"lookup", "body"},
         NEW h, home' = [home EXCEPT ![r][calls[r] + 1] = h], committed' = committed
  PROVE  RejectInv'
  <1>1. /\ calls[r] \in Nat /\ depth[r] \in Nat /\ depth[r] + 1 \in Levels /\ wrote' = wrote
        /\ outcome' = [outcome EXCEPT ![r][calls[r] + 1] = "pending"]
        /\ frame' = [frame EXCEPT ![r][depth[r] + 1] = f]
    BY MayCallBounds DEF Push
  <1>2. SameWrites
    BY <1>1, PushWrites DEF AtomicInv
  <1>3. /\ \A q \in Callers : q # r => depth'[q] = depth[q]
        /\ depth'[r] = depth[r] + 1
        /\ frame'[r][depth[r] + 1] = f
    BY PushFrames
  <1>4. ASSUME NEW q \in Callers, NEW d \in 1..depth[q] PROVE RejectOK(q, d)'
    <2>1. d \in Levels /\ d \in Nat /\ d <= depth[q] /\ RejectOK(q, d)
      BY FrameConn DEF RejectInv
    <2>2. frame'[q][d] = frame[q][d]
      BY <1>1, <2>1 DEF StackInv, StackTypes
    <2>3. /\ outcome'[q][frame[q][d].call] = outcome[q][frame[q][d].call]
          /\ home'[q][frame[q][d].call] = home[q][frame[q][d].call]
      BY <1>1, OtherCalls
    <2>4. KeptShape(q, d)
      BY <2>2, <2>3 DEF KeptShape, Kept
    <2> QED
      BY <1>2, <2>1, <2>2, <2>3, <2>4, KeptReject
  <1>5. ASSUME NEW q \in Callers, NEW d \in 1..depth'[q], d \notin 1..depth[q]
        PROVE  RejectOK(q, d)'
    <2>1. q = r /\ frame'[r][d] = f
      BY <1>1, <1>3, <1>5
    <2>2. PICK n : n = calls[r] + 1
      OBVIOUS
    <2>3. outcome'[r][n] = "pending"
      BY <1>1, <2>2, MayCallBounds DEF DbTypes
    <2>4. frame'[r][d].call = n /\ ~frame'[r][d].failed /\ frame'[r][d].phase # "rollback"
      BY <2>1, <2>2
    <2> QED
      BY <2>1, <2>3, <2>4 DEF RejectOK
  <1>6. RejectedLeavesNothing'
    <2> SUFFICES ASSUME NEW q \in Callers, NEW n \in CallNos, OwnerCall(q, n)',
                        outcome'[q][n] = "error"
                 PROVE  WritesIn(q, n) \cap committed = {}
      BY <1>2 DEF RejectedLeavesNothing, SameWrites
    <2>1. q # r \/ n # calls[r] + 1
      BY <1>1, OtherCalls
    <2>2. outcome'[q][n] = outcome[q][n] /\ home'[q][n] = home[q][n]
      BY <1>1, <2>1, OtherCalls
    <2> QED
      BY <2>2 DEF RejectInv, RejectedLeavesNothing, OwnerCall
  <1> QED
    BY <1>4, <1>5, <1>6 DEF RejectInv

LEMMA RefuseRejections ==
  ASSUME StackInv, DbTypes, AtomicInv, RejectInv, NEW r \in Callers, CallWithoutTenant(r)
  PROVE  RejectInv'
  <1>1. /\ MayCall(r) /\ UNCHANGED <<depth, frame, wrote, committed>>
        /\ home' = [home EXCEPT ![r][calls[r] + 1] = calls[r] + 1]
        /\ outcome' = [outcome EXCEPT ![r][calls[r] + 1] = "error"]
    BY DEF CallWithoutTenant, dbVars
  <1>2. SameWrites /\ \A n : n = calls[r] + 1 => WritesIn(r, n) = {}
    BY <1>1, PushWrites DEF AtomicInv
  <1>3. ASSUME NEW q \in Callers, NEW d \in 1..depth[q] PROVE RejectOK(q, d)'
    <2>1. d \in Nat /\ RejectOK(q, d)
      BY FrameConn DEF RejectInv
    <2>2. /\ outcome'[q][frame[q][d].call] = outcome[q][frame[q][d].call]
          /\ home'[q][frame[q][d].call] = home[q][frame[q][d].call]
      BY <1>1, OtherCalls
    <2>3. KeptShape(q, d)
      BY <1>1, <2>2 DEF KeptShape, Kept
    <2> QED
      BY <1>1, <1>2, <2>1, <2>2, <2>3, KeptReject
  <1>4. RejectedLeavesNothing'
    <2> SUFFICES ASSUME NEW q \in Callers, NEW n \in CallNos, OwnerCall(q, n)',
                        outcome'[q][n] = "error"
                 PROVE  WritesIn(q, n) \cap committed = {}
      BY <1>1, <1>2 DEF RejectedLeavesNothing, SameWrites
    <2>1. CASE q = r /\ n = calls[r] + 1
      BY <1>2, <2>1
    <2>2. CASE q # r \/ n # calls[r] + 1
      <3>1. outcome'[q][n] = outcome[q][n] /\ home'[q][n] = home[q][n]
        BY <1>1, <2>2, OtherCalls
      <3> QED
        BY <3>1 DEF RejectInv, RejectedLeavesNothing, OwnerCall
    <2> QED
      BY <2>1, <2>2
  <1> QED
    BY <1>1, <1>3, <1>4 DEF RejectInv

LEMMA CallRejections ==
  ASSUME StackInv, DbTypes, AtomicInv, RejectInv, NEW r \in Callers, Call(r)
  PROVE  RejectInv'
  <1>1. CASE CallJoin(r)
    <2> DEFINE f == [NoFrame EXCEPT !.phase = "body", !.conn = ContextConn(r),
                                    !.call = calls[r] + 1]
               h == home[r][Top(r).call]
    <2>1. /\ MayCall(r) /\ Push(r, f) /\ home' = [home EXCEPT ![r][calls[r] + 1] = h]
          /\ committed' = committed
      BY <1>1 DEF CallJoin, dbVars
    <2>2. f.call = calls[r] + 1 /\ f.phase = "body" /\ ~f.failed
      BY DEF NoFrame
    <2> HIDE DEF f
    <2> QED
      BY <2>1, <2>2, PushRejections
  <1>2. ASSUME NEW p \in Propagations, CallNew(r, p) PROVE RejectInv'
    <2> DEFINE f == [NoFrame EXCEPT !.phase = "lookup", !.propagation = p,
                                    !.call = calls[r] + 1]
    <2>1. /\ MayCall(r) /\ Push(r, f)
          /\ home' = [home EXCEPT ![r][calls[r] + 1] = calls[r] + 1]
          /\ committed' = committed
      BY <1>2 DEF CallNew, dbVars
    <2>2. f.call = calls[r] + 1 /\ f.phase = "lookup" /\ ~f.failed
      BY DEF NoFrame
    <2> HIDE DEF f
    <2> QED
      BY <2>1, <2>2, PushRejections
  <1>3. CASE CallWithoutTenant(r)
    BY <1>3, RefuseRejections
  <1> QED
    BY <1>1, <1>2, <1>3 DEF Call

\* What RejectInv says of the top call.
LEMMA TopReject ==
  ASSUME StackInv, RejectInv, NEW r \in Callers, depth[r] > 0
  PROVE  /\ Top(r).failed => Top(r).phase = "release"
         /\ Owns(r) /\ (Top(r).phase = "rollback" \/ Top(r).failed) =>
               WritesIn(r, Top(r).call) \cap committed = {}
  <1>1. RejectOK(r, depth[r])
    BY Bounds DEF RejectInv, StackInv, StackTypes
  <1> QED
    BY <1>1 DEF RejectOK, Owns, Top

\* The top call goes on by GoTo; where it rolls back there is nothing of it yet.
LEMMA GoToRejections ==
  ASSUME StackInv, AtomicInv, RejectInv, NEW r \in Callers, depth[r] > 0,
         NEW p \in Phases, GoTo(r, p), Top(r).phase \in {"setPath", "begin", "body", "commit"},
         UNCHANGED <<depth, calls, home, wrote, outcome>>,
         \/ committed' = committed
         \/ p # "rollback" /\ committed' = committed \cup WritesIn(r, Top(r).call),
         p = "rollback" => Top(r).phase \in {"body", "commit"}
  PROVE  RejectInv'
  <1>1. /\ TopOnly(r) /\ frame'[r][depth[r]].phase = p
        /\ ~frame'[r][depth[r]].failed
    BY GoToMove, GoToShape, TopReject
  <1>2. p = "rollback" /\ Owns(r) => WritesIn(r, Top(r).call) \cap committed' = {}
    BY TopWrites
  <1> QED
    BY <1>1, <1>2, TopRejections

LEMMA SetupRejections ==
  ASSUME StackInv, DbTypes, AtomicInv, RejectInv, NEW r \in Callers, Setup(r)
  PROVE  RejectInv'
  <1>1. CASE Lookup(r)
    BY <1>1, SameRejections DEF Lookup, dbVars
  <1>2. CASE Reject(r) \/ ConnectFail(r) \/ SetSearchPathFail(r) \/ StartTransactionFail(r)
    <2>1. /\ depth[r] > 0 /\ Top(r).phase \in {"lookup", "connect", "setPath", "begin"}
          /\ Settle(r, "error") /\ committed' = committed
      BY <1>2 DEF Reject, ConnectFail, SetSearchPathFail, StartTransactionFail, At, dbVars
    <2>2. Owns(r) => WritesIn(r, Top(r).call) = {}
      BY <2>1, TopWrites
    <2> QED
      BY <2>1, <2>2, SettleRejections
  <1>3. CASE Resolve(r) \/ Connect(r)
    <2>1. /\ depth[r] > 0 /\ Top(r).phase \in {"lookup", "connect"}
          /\ UNCHANGED <<wrote, outcome, committed>>
      BY <1>3 DEF Resolve, Connect, At, callVars, dbVars
    <2>2. TopOnly(r) /\ frame'[r][depth[r]].phase \in {"connect", "setPath"}
      BY <1>3, ResolveMove, ConnectMove
    <2>3. ~frame'[r][depth[r]].failed
      BY <1>3, <2>1, RecordShape, TopReject
    <2> QED
      BY <2>1, <2>2, <2>3, TopRejections
  <1>4. CASE SetSearchPath(r) \/ StartTransaction(r)
    <2>1. /\ depth[r] > 0 /\ Top(r).phase \in {"setPath", "begin"}
          /\ UNCHANGED <<depth, calls, home, wrote, outcome, committed>>
      BY <1>4 DEF SetSearchPath, StartTransaction, At, callVars
    <2>2. PICK p \in {"begin", "body"} : GoTo(r, p)
      BY <1>4 DEF SetSearchPath, StartTransaction
    <2> QED
      BY <2>1, <2>2, GoToRejections DEF Phases
  <1> QED
    BY <1>1, <1>2, <1>3, <1>4 DEF Setup

LEMMA BodyRejections ==
  ASSUME StackInv, DbTypes, AtomicInv, RejectInv, NEW r \in Callers, Body(r)
  PROVE  RejectInv'
  <1>1. CASE SqlOk(r)
    BY <1>1, StatementRejections
  <1>2. CASE SqlFail(r) \/ Throw(r) \/ ReturnOwner(r)
    <2>1. /\ depth[r] > 0 /\ Top(r).phase = "body"
          /\ UNCHANGED <<depth, calls, home, wrote, outcome, committed>>
      BY <1>2 DEF SqlFail, Throw, ReturnOwner, At, callVars, dbVars
    <2>2. PICK p \in {"body", "rollback", "failing", "commit"} : GoTo(r, p)
      BY <1>2 DEF SqlFail, Throw, ReturnOwner, FailPhase
    <2> QED
      BY <2>1, <2>2, GoToRejections DEF Phases
  <1>3. CASE ReturnJoined(r)
    BY <1>3, SettleRejections DEF ReturnJoined, At, dbVars
  <1> QED
    BY <1>1, <1>2, <1>3 DEF Body

LEMMA FinishRejections ==
  ASSUME StackInv, DbTypes, SessionInv, AtomicInv, RejectInv, "reply" \notin Faults,
         NEW r \in Callers, Finish(r)
  PROVE  RejectInv'
  <1>1. CASE CommitOk(r) \/ CommitRefused(r) \/ CommitLost(r)
    <2>1. /\ depth[r] > 0 /\ Top(r).phase = "commit"
          /\ UNCHANGED <<depth, calls, home, wrote, outcome>>
      BY <1>1 DEF CommitOk, CommitRefused, CommitLost, At, callVars, dbVars
    <2>2. Top(r).conn # NoConn => pending[Top(r).conn] = WritesIn(r, Top(r).call)
      BY <2>1, TopOK, TopWrites DEF OwnerPhases, Phases
    <2>3. CASE CommitOk(r)
      BY <2>1, <2>2, <2>3, GoToRejections DEF CommitOk, Phases
    <2>4. CASE CommitRefused(r) \/ CommitLost(r)
      <3>1. GoTo(r, "rollback") /\ committed' = committed
        BY <2>4 DEF CommitRefused, CommitLost, OnCommitError, dbVars
      <3> QED
        BY <2>1, <3>1, GoToRejections DEF Phases
    <2> QED
      BY <1>1, <2>3, <2>4
  <1>2. ~CommitReplyLost(r)
    BY DEF CommitReplyLost
  <1>3. CASE RejectJoined(r)
    <2>1. /\ depth[r] > 0 /\ Top(r).phase = "failing" /\ Settle(r, "error")
          /\ committed' = committed
      BY <1>3 DEF RejectJoined, At, dbVars
    <2>2. ~Owns(r)
      BY <2>1, TopOK DEF FrameOK, Owns, OwnsAt, Top
    <2> QED
      BY <2>1, <2>2, SettleRejections
  <1>4. CASE Rollback(r)
    <2>1. /\ depth[r] > 0 /\ Top(r).phase = "rollback"
          /\ UNCHANGED <<wrote, outcome, committed>>
      BY <1>4 DEF Rollback, At, callVars
    <2>2. TopOnly(r) /\ frame'[r][depth[r]].phase = "release"
      BY <1>4, RollbackMove
    <2>3. Owns(r) => WritesIn(r, Top(r).call) \cap committed = {}
      BY <2>1, TopReject
    <2> QED
      BY <2>1, <2>2, <2>3, TopRejections
  <1>5. CASE Release(r)
    <2>1. /\ depth[r] > 0 /\ committed' = committed
          /\ Settle(r, IF Top(r).failed THEN "error" ELSE "ok")
      BY <1>5 DEF Release, At
    <2>2. Owns(r) /\ Top(r).failed => WritesIn(r, Top(r).call) \cap committed = {}
      BY <2>1, TopReject
    <2>3. CASE Top(r).failed
      BY <2>1, <2>2, <2>3, SettleRejections
    <2>4. CASE ~Top(r).failed
      BY <2>1, <2>4, SettleRejections
    <2> QED
      BY <2>3, <2>4
  <1> QED
    BY <1>1, <1>2, <1>3, <1>4, <1>5 DEF Finish

LEMMA DropRejections ==
  ASSUME StackInv, DbTypes, RejectInv, NEW c \in Conns, Drop(c) PROVE RejectInv'
  <1>1. /\ Detach(c) /\ UNCHANGED <<depth, home, outcome, committed>> /\ SameWrites
    BY NoNewWrites DEF Drop, callVars
  <1>2. ASSUME NEW q \in Callers, NEW d \in 1..depth[q] PROVE RejectOK(q, d)'
    <2>1. d \in Levels /\ frame[q][d] \in Frames /\ RejectOK(q, d)
      BY FrameConn DEF RejectInv
    <2>2. PICK n : n = frame[q][d].call
      OBVIOUS
    <2>3. /\ frame'[q][d].call = n
          /\ frame'[q][d].phase = frame[q][d].phase
          /\ frame'[q][d].failed = frame[q][d].failed
      <3>1. frame'[q][d] = IF frame[q][d].conn = c THEN [frame[q][d] EXCEPT !.conn = NoConn]
                           ELSE frame[q][d]
        BY <1>1, <2>1 DEF Detach
      <3> QED
        BY <2>1, <2>2, <3>1 DEF Frames
    <2>4. WritesIn(q, frame[q][d].call)' = WritesIn(q, n)
      <3>1. WritesIn(q, n)' = WritesIn(q, n)
        BY <1>1 DEF SameWrites
      <3> QED
        BY <2>3, <3>1
    <2> QED
      BY <1>1, <2>1, <2>2, <2>3, <2>4 DEF RejectOK, OwnsAt
  <1>3. RejectedLeavesNothing'
    BY <1>1 DEF RejectInv, RejectedLeavesNothing, OwnerCall, SameWrites
  <1> QED
    BY <1>1, <1>2, <1>3 DEF RejectInv

LEMMA RejectInvStep ==
  ASSUME "reply" \notin Faults
  PROVE  ConnectionInv /\ AtomicInv /\ RejectInv /\ [Next]_vars => RejectInv'
  <1> SUFFICES ASSUME ConnectionInv, AtomicInv, RejectInv, [Next]_vars PROVE RejectInv'
    OBVIOUS
  <1> USE DEF ConnectionInv
  <1>1. CASE UNCHANGED vars \/ Terminating
    BY <1>1, SameRejections DEF Terminating, vars, dbVars
  <1>2. ASSUME NEW r \in Callers, Step(r) PROVE RejectInv'
    BY <1>2, SetupRejections, CallRejections, BodyRejections, FinishRejections DEF Step
  <1>3. ASSUME NEW c \in Conns, Drop(c) PROVE RejectInv'
    BY <1>3, DropRejections
  <1> QED
    BY <1>1, <1>2, <1>3 DEF Next

\* As long as no reply to a COMMIT is lost, a call that rejected has left nothing in
\* the database, whatever the methods around it catch, a failed statement included
\* (executeInTransaction, transaction.md:208).
THEOREM RejectionsAreTrue ==
  ASSUME "reply" \notin Faults
  PROVE  Spec => []RejectedLeavesNothing
  <1>1. Init => RejectInv
    BY DEF Init, PoolInit, RejectInv, RejectedLeavesNothing
  <1>2. ConnectionInv /\ AtomicInv /\ RejectInv /\ [Next]_vars => RejectInv'
    BY RejectInvStep
  <1>3. RejectInv => RejectedLeavesNothing
    BY DEF RejectInv
  <1> QED
    BY <1>1, <1>2, <1>3, AtomicInvariant, PTL DEF Spec
=============================================================================

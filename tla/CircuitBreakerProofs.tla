----------------------- MODULE CircuitBreakerProofs -----------------------
(***************************************************************************)
(* Theorems about CircuitBreaker, for any callers, any options that keep   *)
(* OptionsAssumption, and any behaviour of the service.                    *)
(***************************************************************************)
EXTENDS CircuitBreaker, TLAPS

USE DEF gateVars

NumBuckets == Options.rollingCountBuckets

\* What is left of the time limit of a call.
Left(c) == Options.timeout - call[c].age

\* The inductive invariant: an open circuit stays open until every call that
\* was under way has ended and every failure has left the window.
CoolingInv ==
    /\ circuit # "halfOpen" => ~pendingClose
    /\ circuit = "open" =>
          /\ \A c \in Waiting : Left(c) + NumBuckets <= resetTimer
          /\ \A i \in Buckets :
                buckets[i].failures > 0 => NumBuckets - i + 1 <= resetTimer

GateTypeOK ==
    /\ circuit \in {"closed", "open", "halfOpen"}
    /\ pendingClose \in BOOLEAN
    /\ resetTimer \in 0 .. Options.resetTimeout
    /\ tried \subseteq Callers

CallTypeOK ==
    call \in [Callers ->
       [status : {"idle", "waiting", "ok", "failed", "rejected"},
        age : 0 .. Options.timeout, fate : Fates]]

\* The call under way in a half-open circuit was sent after it half opened.
TriedInv == circuit = "halfOpen" => Waiting \subseteq tried

BreakerInv == CoolingInv /\ ProbeAccounted /\ FreshStart /\ TriedInv

-----------------------------------------------------------------------------
\* The arithmetic that OptionsAssumption is about.
LEMMA OptionFacts ==
    /\ Options.timeout \in Nat
    /\ Options.timeout > 0
    /\ Options.resetTimeout \in Nat
    /\ NumBuckets \in Nat
    /\ NumBuckets > 0
    /\ Options.timeout + NumBuckets <= Options.resetTimeout
    /\ Buckets = 1 .. NumBuckets
    /\ 1 \in Buckets
BY OptionsAssumption DEF NumBuckets, Buckets

\* A call that ends is no longer waiting; the others are as they were.
LEMMA SettleEnds ==
    ASSUME CircuitTypeOK, NEW c \in Callers, NEW s, Settle(c, s),
           s \in {"ok", "failed", "rejected"}
    PROVE  /\ Waiting' = Waiting \ {c}
           /\ \A d \in Waiting' : call'[d] = call[d]
           /\ CallTypeOK'
           /\ call'[c].status = s
<1>1. call' = [call EXCEPT ![c] =
                 [status |-> s, age |-> 0, fate |-> "silence"]]
  BY DEF Settle
<1>2. CallTypeOK
  BY DEF CallTypeOK, CircuitTypeOK
<1>3. call'[c] = [status |-> s, age |-> 0, fate |-> "silence"]
  BY <1>1, <1>2 DEF CallTypeOK
<1>4. \A d \in Callers : d # c => call'[d] = call[d]
  BY <1>1, <1>2 DEF CallTypeOK
<1>5. 0 \in 0 .. Options.timeout /\ "silence" \in Fates
  BY OptionFacts DEF Fates
<1>6. Waiting' = Waiting \ {c}
  BY <1>3, <1>4 DEF Waiting
<1> QED
  BY <1>1, <1>2, <1>3, <1>4, <1>5, <1>6 DEF Waiting, CallTypeOK

\* fire touches the number of calls of the latest bucket and nothing else.
LEMMA CountFireKeeps ==
    ASSUME CircuitTypeOK, NEW c \in Callers, CountFire(c)
    PROVE  /\ buckets' \in [Buckets -> [fires : Nat, failures : Nat]]
           /\ \A i \in Buckets : buckets'[i].failures = buckets[i].failures
           /\ c \notin Waiting
<1> DEFINE b == [buckets[1] EXCEPT !.fires = @ + 1]
<1>1. buckets \in [Buckets -> [fires : Nat, failures : Nat]] /\ 1 \in Buckets
  BY OptionFacts DEF CircuitTypeOK
<1>2. b \in [fires : Nat, failures : Nat] /\ b.failures = buckets[1].failures
  BY <1>1
<1>3. buckets' = [buckets EXCEPT ![1] = b]
  BY DEF CountFire
<1> HIDE DEF b
<1>4. buckets' \in [Buckets -> [fires : Nat, failures : Nat]]
  BY <1>1, <1>2, <1>3
<1>5. \A i \in Buckets : buckets'[i].failures = buckets[i].failures
  BY <1>1, <1>2, <1>3
<1> QED
  BY <1>4, <1>5 DEF CountFire

\* A failure is counted in the latest bucket.
LEMMA OnFailureCounts ==
    ASSUME CircuitTypeOK, OnFailure
    PROVE  /\ buckets' \in [Buckets -> [fires : Nat, failures : Nat]]
           /\ \A i \in Buckets :
                 i # 1 => buckets'[i].failures = buckets[i].failures
           /\ \/ circuit # "open" /\ Open
              \/ circuit # "halfOpen"
                 /\ UNCHANGED gateVars
<1> DEFINE b == [buckets[1] EXCEPT !.failures = @ + 1]
<1>4. buckets \in [Buckets -> [fires : Nat, failures : Nat]] /\ 1 \in Buckets
  BY OptionFacts DEF CircuitTypeOK
<1>5. b \in [fires : Nat, failures : Nat]
  BY <1>4
<1>6. buckets' = [buckets EXCEPT ![1] = b]
  BY DEF OnFailure
<1> HIDE DEF b
<1>7. buckets' \in [Buckets -> [fires : Nat, failures : Nat]]
  BY <1>4, <1>5, <1>6
<1>8. \A i \in Buckets : i # 1 => buckets'[i].failures = buckets[i].failures
  BY <1>4, <1>6
<1>2. circuit = "halfOpen" => Trips(buckets')
  BY DEF Trips
<1>3. \/ circuit # "open" /\ Open
      \/ circuit # "halfOpen"
         /\ UNCHANGED gateVars
  BY <1>2 DEF OnFailure
<1> QED
  BY <1>3, <1>7, <1>8

-----------------------------------------------------------------------------
LEMMA InitType == Init => CircuitTypeOK
<1> SUFFICES ASSUME Init PROVE CircuitTypeOK
  OBVIOUS
<1>1. buckets \in [Buckets -> [fires : Nat, failures : Nat]]
  BY DEF Init, Zero
<1>2. Idle \in [status : {"idle", "waiting", "ok", "failed", "rejected"},
                age : 0 .. Options.timeout, fate : Fates]
  BY OptionFacts DEF Idle, Fates
<1>3. 0 \in 0 .. Options.resetTimeout
  BY OptionFacts
<1> QED
  BY <1>1, <1>2, <1>3 DEF Init, CircuitTypeOK

LEMMA StepType == CircuitTypeOK /\ [Next]_vars => CircuitTypeOK'
<1> SUFFICES ASSUME CircuitTypeOK, [Next]_vars PROVE CircuitTypeOK'
  OBVIOUS
<1> USE OptionFacts
<1>1. ASSUME NEW c \in Callers, Send(c) PROVE CircuitTypeOK'
  <2>1. buckets' \in [Buckets -> [fires : Nat, failures : Nat]]
    BY <1>1, CountFireKeeps DEF Send
  <2>2. PICK f \in Fates : call' = [call EXCEPT ![c] =
                              [status |-> "waiting", age |-> 0, fate |-> f]]
    BY <1>1 DEF Send
  <2>3. call' \in [Callers ->
           [status : {"idle", "waiting", "ok", "failed", "rejected"},
            age : 0 .. Options.timeout, fate : Fates]]
    BY <2>2 DEF CircuitTypeOK
  <2> QED
    BY <1>1, <2>1, <2>3 DEF Send, CircuitTypeOK
<1>2. ASSUME NEW c \in Callers, Reject(c) PROVE CircuitTypeOK'
  BY <1>2, CountFireKeeps, SettleEnds DEF Reject, CallTypeOK, CircuitTypeOK
<1>3. ASSUME NEW c \in Callers, Succeed(c) PROVE CircuitTypeOK'
  <2>1. CallTypeOK'
    BY <1>3, SettleEnds DEF Succeed
  <2>2. GateTypeOK /\ 0 \in 0 .. Options.resetTimeout
    BY DEF CircuitTypeOK, GateTypeOK
  <2>3. Close \/ UNCHANGED gateVars
    BY <1>3 DEF Succeed
  <2>4. GateTypeOK'
    BY <2>2, <2>3 DEF Close, GateTypeOK
  <2> QED
    BY <1>3, <2>1, <2>4 DEF Succeed, CallTypeOK, GateTypeOK, CircuitTypeOK
<1>4. ASSUME NEW c \in Callers, Fail(c) \/ GiveUp(c) PROVE CircuitTypeOK'
  <2>1. Settle(c, "failed") /\ OnFailure
    BY <1>4 DEF Fail, GiveUp
  <2>2. CallTypeOK'
    BY <2>1, SettleEnds
  <2>3. GateTypeOK'
    <3>1. GateTypeOK /\ Options.resetTimeout \in 0 .. Options.resetTimeout
      BY DEF CircuitTypeOK, GateTypeOK
    <3>2. Open \/ UNCHANGED gateVars
      BY <2>1, OnFailureCounts
    <3> QED
      BY <3>1, <3>2 DEF Open, GateTypeOK
  <2>4. buckets' \in [Buckets -> [fires : Nat, failures : Nat]]
    BY <2>1, OnFailureCounts
  <2>5. abandoned' \subseteq Callers /\ healthy' \in BOOLEAN
    BY <1>4 DEF Fail, GiveUp, CircuitTypeOK
  <2> QED
    BY <2>2, <2>3, <2>4, <2>5 DEF CallTypeOK, GateTypeOK, CircuitTypeOK
<1>6. ASSUME NEW c \in Callers, EndLate(c) PROVE CircuitTypeOK'
  BY <1>6 DEF EndLate, CircuitTypeOK
<1>7. CASE HalfOpen
  BY <1>7 DEF HalfOpen, CircuitTypeOK
<1>8. CASE Tick
  <2>1. Older(buckets) \in [Buckets -> [fires : Nat, failures : Nat]]
    <3>1. ASSUME NEW i \in Buckets, i # 1 PROVE i - 1 \in Buckets
      BY <3>1
    <3> QED
      BY <3>1 DEF Older, Zero, CircuitTypeOK
  <2>2. ASSUME NEW c \in Waiting
        PROVE  call[c].age + 1 \in 0 .. Options.timeout
    <3>1. InTime(c) /\ c \in Callers
      BY <1>8, <2>2 DEF Tick, Waiting
    <3>2. call[c].age \in Nat
      BY <3>1 DEF CircuitTypeOK
    <3> QED
      BY <3>1, <3>2 DEF InTime
  <2>3. call' \in [Callers ->
           [status : {"idle", "waiting", "ok", "failed", "rejected"},
            age : 0 .. Options.timeout, fate : Fates]]
    BY <1>8, <2>2 DEF Tick, Waiting, CircuitTypeOK
  <2>4. resetTimer' \in 0 .. Options.resetTimeout
    BY <1>8 DEF Tick, CircuitTypeOK
  <2> QED
    BY <1>8, <2>1, <2>3, <2>4 DEF Tick, CircuitTypeOK
<1>9. CASE Turn
  BY <1>9 DEF Turn, CircuitTypeOK
<1>10. CASE UNCHANGED vars
  BY <1>10 DEF vars, CircuitTypeOK
<1> QED
  BY <1>1, <1>2, <1>3, <1>4, <1>6, <1>7, <1>8, <1>9, <1>10
     DEF Next, Fire, End

\* The breaker's variables keep their types; no call outlives its time limit.
THEOREM CircuitTypeCorrect == Spec => []CircuitTypeOK
<1> QED
  BY InitType, StepType, PTL DEF Spec

-----------------------------------------------------------------------------
\* Opening starts a cooling time that outlasts every call and every bucket.
LEMMA OpenCools ==
    ASSUME CircuitTypeOK, CircuitTypeOK', Open, Waiting' \subseteq Waiting,
           \A d \in Waiting' : call'[d] = call[d]
    PROVE  BreakerInv'
<1>1. circuit' = "open" /\ ~pendingClose' /\ resetTimer' = Options.resetTimeout
  BY DEF Open
<1>2. ASSUME NEW c \in Waiting'
      PROVE  Left(c)' + NumBuckets <= resetTimer'
  <2>1. call'[c].age \in 0 .. Options.timeout
    BY <1>2 DEF CircuitTypeOK, Waiting
  <2> QED
    BY <1>1, <2>1, OptionFacts DEF Left
<1>3. ASSUME NEW i \in Buckets PROVE NumBuckets - i + 1 <= resetTimer'
  BY <1>1, <1>3, OptionFacts
<1> QED
  BY <1>1, <1>2, <1>3
     DEF BreakerInv, CoolingInv, ProbeAccounted, FreshStart, TriedInv, Left

\* A failure: the circuit opens, or it was not half open and cools on.
LEMMA FailurePreserves ==
    ASSUME CircuitTypeOK, CircuitTypeOK', BreakerInv, NEW c \in Waiting,
           Settle(c, "failed"), OnFailure
    PROVE  BreakerInv'
<1>1. c \in Callers /\ Left(c) >= 0
  BY OptionFacts DEF Waiting, CircuitTypeOK, Left
<1>2. Waiting' = Waiting \ {c} /\ \A d \in Waiting' : call'[d] = call[d]
  BY <1>1, SettleEnds
<1>3. CASE Open
  BY <1>2, <1>3, OpenCools
<1>4. CASE circuit # "halfOpen" /\ UNCHANGED gateVars
  <2>1. CASE circuit = "closed"
    BY <1>4, <2>1 DEF BreakerInv, CoolingInv, ProbeAccounted, FreshStart, TriedInv
  <2>2. CASE circuit = "open"
    <3>1. ASSUME NEW d \in Waiting'
          PROVE  Left(d)' + NumBuckets <= resetTimer'
      BY <1>2, <1>4, <2>2, <3>1 DEF BreakerInv, CoolingInv, Left
    <3>2. ASSUME NEW i \in Buckets, buckets'[i].failures > 0
          PROVE  NumBuckets - i + 1 <= resetTimer'
      <4>1. CASE i = 1
        <5>1. Left(c) + NumBuckets <= resetTimer
          BY <2>2 DEF BreakerInv, CoolingInv
        <5>2. Left(c) \in Int /\ resetTimer \in Int
          BY <1>1, OptionFacts DEF Left, CircuitTypeOK
        <5> QED
          BY <1>1, <1>4, <4>1, <5>1, <5>2, OptionFacts
      <4>2. CASE i # 1
        <5>1. buckets[i].failures > 0
          BY <3>2, <4>2, OnFailureCounts
        <5> QED
          BY <1>4, <2>2, <5>1 DEF BreakerInv, CoolingInv
      <4> QED
        BY <4>1, <4>2
    <3> QED
      BY <1>4, <2>2, <3>1, <3>2
         DEF BreakerInv, CoolingInv, ProbeAccounted, FreshStart, TriedInv
  <2> QED
    BY <1>4, <2>1, <2>2 DEF CircuitTypeOK
<1> QED
  BY <1>3, <1>4, OnFailureCounts

LEMMA InitBreaker == Init => BreakerInv
<1> SUFFICES ASSUME Init PROVE BreakerInv
  OBVIOUS
<1>1. circuit = "closed" /\ ~pendingClose
  BY DEF Init
<1> QED
  BY <1>1 DEF BreakerInv, CoolingInv, ProbeAccounted, FreshStart, TriedInv

LEMMA TickPreserves ==
    ASSUME CircuitTypeOK, BreakerInv, Tick
    PROVE  BreakerInv'
<1>1. /\ UNCHANGED <<circuit, pendingClose, tried>>
      /\ buckets' = Older(buckets)
      /\ circuit = "open" => resetTimer > 0 /\ resetTimer' = resetTimer - 1
  BY DEF Tick
<1>2. /\ Waiting' = Waiting
      /\ \A c \in Waiting : call'[c].age = call[c].age + 1
  BY DEF Tick, Waiting, CircuitTypeOK
<1>3. \A i \in Buckets : /\ i = 1 => buckets'[i].failures = 0
                         /\ i # 1 => /\ i - 1 \in Buckets
                                     /\ buckets'[i] = buckets[i - 1]
  BY <1>1, OptionFacts DEF Older, Zero
<1>4. CASE circuit = "closed"
  BY <1>1, <1>4 DEF BreakerInv, CoolingInv, ProbeAccounted, FreshStart, TriedInv
<1>5. CASE circuit = "halfOpen"
  <2>1. FreshStart'
    BY <1>1, <1>3, <1>5 DEF BreakerInv, FreshStart
  <2> QED
    BY <1>1, <1>2, <1>5, <2>1
       DEF BreakerInv, CoolingInv, ProbeAccounted, TriedInv
<1>6. CASE circuit = "open"
  <2>1. ASSUME NEW c \in Waiting'
        PROVE  Left(c)' + NumBuckets <= resetTimer'
    <3>1. c \in Waiting /\ call[c].age \in Nat /\ resetTimer \in Nat
      BY <1>2, <2>1, OptionFacts DEF CircuitTypeOK, Waiting
    <3>2. Left(c) + NumBuckets <= resetTimer
      BY <1>6, <3>1 DEF BreakerInv, CoolingInv
    <3> QED
      BY <1>1, <1>2, <1>6, <3>1, <3>2, OptionFacts DEF Left
  <2>2. ASSUME NEW i \in Buckets, buckets'[i].failures > 0
        PROVE  NumBuckets - i + 1 <= resetTimer'
    <3>1. i # 1 /\ i - 1 \in Buckets /\ buckets[i - 1].failures > 0
      BY <1>3, <2>2
    <3>2. NumBuckets - (i - 1) + 1 <= resetTimer /\ resetTimer \in Nat
      BY <1>6, <3>1 DEF BreakerInv, CoolingInv, CircuitTypeOK
    <3> QED
      BY <1>1, <1>6, <3>1, <3>2, OptionFacts
  <2> QED
    BY <1>1, <1>6, <2>1, <2>2
       DEF BreakerInv, CoolingInv, ProbeAccounted, FreshStart, TriedInv
<1> QED
  BY <1>4, <1>5, <1>6 DEF CircuitTypeOK

LEMMA HalfOpenPreserves ==
    ASSUME CircuitTypeOK, BreakerInv, HalfOpen
    PROVE  BreakerInv'
<1>1. /\ circuit = "open" /\ resetTimer = 0
      /\ circuit' = "halfOpen" /\ pendingClose'
      /\ UNCHANGED <<buckets, call>>
  BY DEF HalfOpen
<1>2. Waiting' = {}
  <2>1. ASSUME NEW c \in Waiting PROVE FALSE
    <3>1. Left(c) + NumBuckets <= 0
      BY <1>1 DEF BreakerInv, CoolingInv
    <3>2. Left(c) \in Nat
      BY OptionFacts DEF Left, Waiting, CircuitTypeOK
    <3> QED
      BY <3>1, <3>2, OptionFacts
  <2> QED
    BY <1>1, <2>1 DEF Waiting
<1>3. ASSUME NEW i \in Buckets PROVE buckets'[i].failures = 0
  <2>1. ~(buckets[i].failures > 0)
    BY <1>1, <1>3, OptionFacts DEF BreakerInv, CoolingInv
  <2>2. buckets[i].failures \in Nat
    BY <1>3 DEF CircuitTypeOK
  <2> QED
    BY <1>1, <2>1, <2>2
<1> QED
  BY <1>1, <1>2, <1>3 DEF BreakerInv, CoolingInv, ProbeAccounted, FreshStart, TriedInv

LEMMA SendPreserves ==
    ASSUME CircuitTypeOK, BreakerInv, NEW c \in Callers, Send(c)
    PROVE  BreakerInv'
<1>1. /\ circuit # "open" /\ ~pendingClose' /\ UNCHANGED circuit
      /\ circuit = "halfOpen" => pendingClose /\ tried' = tried \cup {c}
  BY DEF Send, Admits, BreakerInv, CoolingInv
<1>2. \A i \in Buckets : buckets'[i].failures = buckets[i].failures
  BY CountFireKeeps DEF Send
<1>3. Waiting' = Waiting \cup {c}
  BY DEF Send, Waiting, CircuitTypeOK
<1> QED
  BY <1>1, <1>2, <1>3 DEF BreakerInv, CoolingInv, ProbeAccounted, FreshStart, TriedInv

LEMMA RejectPreserves ==
    ASSUME CircuitTypeOK, BreakerInv, NEW c \in Callers, Reject(c)
    PROVE  BreakerInv'
<1>1. \A i \in Buckets : buckets'[i].failures = buckets[i].failures
  BY CountFireKeeps DEF Reject
<1>2. Waiting' = Waiting /\ \A d \in Waiting : call'[d] = call[d]
  BY CountFireKeeps, SettleEnds DEF Reject
<1>3. UNCHANGED gateVars
  BY DEF Reject
<1> QED
  BY <1>1, <1>2, <1>3
     DEF BreakerInv, CoolingInv, ProbeAccounted, FreshStart, TriedInv, Left

LEMMA SucceedPreserves ==
    ASSUME CircuitTypeOK, BreakerInv, NEW c \in Callers, Succeed(c)
    PROVE  BreakerInv'
<1>1. Waiting' = Waiting \ {c} /\ \A d \in Waiting' : call'[d] = call[d]
  BY SettleEnds DEF Succeed
<1>2. UNCHANGED buckets
  BY DEF Succeed
<1>3. CASE circuit = "halfOpen"
  <2>1. circuit' = "closed" /\ ~pendingClose'
    BY <1>3 DEF Succeed, Close
  <2> QED
    BY <2>1 DEF BreakerInv, CoolingInv, ProbeAccounted, FreshStart, TriedInv
<1>4. CASE circuit # "halfOpen"
  <2>1. UNCHANGED gateVars
    BY <1>4 DEF Succeed
  <2> QED
    BY <1>1, <1>2, <1>4, <2>1
       DEF BreakerInv, CoolingInv, ProbeAccounted, FreshStart, TriedInv, Left
<1> QED
  BY <1>3, <1>4

LEMMA StepBreaker ==
    CircuitTypeOK /\ CircuitTypeOK' /\ BreakerInv /\ [Next]_vars => BreakerInv'
<1> SUFFICES ASSUME CircuitTypeOK, CircuitTypeOK', BreakerInv, [Next]_vars
             PROVE  BreakerInv'
  OBVIOUS
<1>1. ASSUME NEW c \in Callers, Fire(c) PROVE BreakerInv'
  BY <1>1, SendPreserves, RejectPreserves DEF Fire
<1>2. ASSUME NEW c \in Callers, Succeed(c) PROVE BreakerInv'
  BY <1>2, SucceedPreserves
<1>3. ASSUME NEW c \in Callers, Fail(c) \/ GiveUp(c) PROVE BreakerInv'
  BY <1>3, FailurePreserves DEF Fail, GiveUp
<1>4. ASSUME NEW c \in Callers, EndLate(c) PROVE BreakerInv'
  BY <1>4 DEF EndLate, BreakerInv, CoolingInv, ProbeAccounted, FreshStart, TriedInv,
              Left, Waiting
<1>5. CASE HalfOpen
  BY <1>5, HalfOpenPreserves
<1>6. CASE Tick
  BY <1>6, TickPreserves
<1>7. CASE Turn \/ UNCHANGED vars
  BY <1>7 DEF Turn, vars, BreakerInv, CoolingInv, ProbeAccounted, FreshStart, TriedInv,
              Left, Waiting
<1> QED
  BY <1>1, <1>2, <1>3, <1>4, <1>5, <1>6, <1>7 DEF Next, End

LEMMA BreakerAlways == Spec => [](CircuitTypeOK /\ BreakerInv)
<1>1. Init => CircuitTypeOK /\ BreakerInv
  BY InitType, InitBreaker
<1>2. CircuitTypeOK /\ BreakerInv /\ [Next]_vars
        => (CircuitTypeOK /\ BreakerInv)'
  BY StepType, StepBreaker
<1> QED
  BY <1>1, <1>2, PTL DEF Spec

\* A half-open circuit has one admission to give or one call under way, and
\* never a call from before it opened.
THEOREM ProbeIsAccounted == Spec => []ProbeAccounted
<1>1. BreakerInv => ProbeAccounted
  BY DEF BreakerInv
<1> QED
  BY <1>1, BreakerAlways, PTL

\* Whatever failed before is forgotten when a circuit may close again.
THEOREM StartsAfresh == Spec => []FreshStart
<1>1. BreakerInv => FreshStart
  BY DEF BreakerInv
<1> QED
  BY <1>1, BreakerAlways, PTL

-----------------------------------------------------------------------------
\* What the end of a call does to the circuit.
LEMMA EndJudges ==
    ASSUME CircuitTypeOK, BreakerInv, NEW c \in Callers, End(c)
    PROVE  /\ c \in Waiting /\ Waiting' = Waiting \ {c}
           /\ circuit = "halfOpen" =>
                 /\ Waiting = {c}
                 /\ \/ circuit' = "closed" /\ call'[c].status = "ok"
                    \/ circuit' = "open" /\ call'[c].status = "failed"
           /\ circuit # "halfOpen" =>
                 \/ UNCHANGED circuit
                 \/ circuit = "closed" /\ circuit' = "open"
<1>1. CASE Succeed(c)
  <2>1. /\ Waiting' = Waiting \ {c} /\ call'[c].status = "ok"
        /\ c \in Waiting
    BY <1>1, SettleEnds DEF Succeed
  <2>2. circuit = "halfOpen" => circuit' = "closed"
    BY <1>1 DEF Succeed, Close
  <2>3. circuit # "halfOpen" => UNCHANGED circuit
    BY <1>1 DEF Succeed
  <2> QED
    BY <2>1, <2>2, <2>3 DEF BreakerInv, ProbeAccounted
<1>2. CASE Fail(c) \/ GiveUp(c)
  <2>1. c \in Waiting /\ Settle(c, "failed") /\ OnFailure
    BY <1>2 DEF Fail, GiveUp
  <2>2. Waiting' = Waiting \ {c} /\ call'[c].status = "failed"
    BY <2>1, SettleEnds
  <2>3. \/ circuit # "open" /\ circuit' = "open"
        \/ circuit # "halfOpen" /\ UNCHANGED circuit
    BY <2>1, OnFailureCounts DEF Open
  <2> QED
    BY <2>1, <2>2, <2>3 DEF BreakerInv, ProbeAccounted, CircuitTypeOK
<1> QED
  BY <1>1, <1>2 DEF End

LEMMA StepDecides ==
    ASSUME CircuitTypeOK, BreakerInv, [Next]_vars,
           circuit = "halfOpen", circuit' # "halfOpen"
    PROVE  \E c \in Waiting \cap tried :
              call'[c].status = IF circuit' = "closed" THEN "ok" ELSE "failed"
<1>1. PICK c \in Callers : End(c)
  BY DEF Next, Fire, Send, Reject, EndLate, HalfOpen, Tick, Turn, vars
<1>2. Waiting = {c} /\ c \in tried
  BY <1>1, EndJudges DEF BreakerInv, TriedInv
<1> QED
  BY <1>1, <1>2, EndJudges

\* Only a call that was sent after the circuit half opened closes it, or opens
\* it again.
THEOREM ProbeAloneDecides == Spec => ProbeDecides
<1>1. /\ CircuitTypeOK /\ BreakerInv /\ [Next]_vars
      => [circuit = "halfOpen" /\ circuit' # "halfOpen" =>
             \E c \in Waiting \cap tried :
                call'[c].status =
                   IF circuit' = "closed" THEN "ok" ELSE "failed"]_vars
  BY StepDecides
<1> QED
  BY <1>1, BreakerAlways, PTL DEF Spec, ProbeDecides

-----------------------------------------------------------------------------
\* A circuit that changes neither its state nor who waits stutters.
LEMMA SameProbe ==
    ASSUME UNCHANGED circuit, Waiting' = Waiting \/ circuit # "halfOpen"
    PROVE  UNCHANGED <<circuit, Probe>>
BY DEF Probe

LEMMA ProbeIsCaller ==
    ASSUME NEW c, Waiting = {c}, circuit = "halfOpen"
    PROVE  Probe = c
BY DEF Probe, AnyOf

LEMMA StepImplements ==
    ASSUME CircuitTypeOK, CircuitTypeOK', BreakerInv, [Next]_vars
    PROVE  [Circuit!CircuitNext]_(Circuit!circuitVars)
<1> USE DEF Circuit!circuitVars
<1>1. ASSUME NEW c \in Callers, Send(c)
      PROVE  Circuit!Try(c) \/ UNCHANGED <<circuit, Probe>>
  <2>1. UNCHANGED circuit /\ Waiting' = Waiting \cup {c}
    BY <1>1 DEF Send, Waiting, CircuitTypeOK
  <2>2. CASE circuit = "halfOpen"
    <3>1. Waiting = {}
      BY <1>1, <2>2 DEF Send, Admits, BreakerInv, ProbeAccounted
    <3>2. Probe = Nobody /\ Probe' = c
      BY <2>1, <2>2, <3>1 DEF Probe, AnyOf
    <3> QED
      BY <2>1, <2>2, <3>2 DEF Circuit!Try
  <2> QED
    BY <2>1, <2>2, SameProbe
<1>2. ASSUME NEW c \in Callers, Reject(c) PROVE UNCHANGED <<circuit, Probe>>
  <2>1. Waiting' = Waiting /\ UNCHANGED circuit
    BY <1>2, CountFireKeeps, SettleEnds DEF Reject
  <2> QED
    BY <2>1, SameProbe
<1>3. ASSUME NEW c \in Callers, End(c)
      PROVE  Circuit!Judge \/ Circuit!Trip \/ UNCHANGED <<circuit, Probe>>
  <2>1. CASE circuit = "halfOpen"
    <3>1. Probe = c /\ c # Nobody
      BY <1>3, <2>1, EndJudges, ProbeIsCaller, NobodyAssumption
    <3>2. circuit' \in {"closed", "open"} /\ Probe' = Nobody
      BY <1>3, <2>1, EndJudges DEF Probe
    <3> QED
      BY <3>1, <3>2 DEF Circuit!Judge
  <2>2. CASE circuit # "halfOpen"
    <3>1. Probe = Nobody
      BY <2>2 DEF Probe
    <3>2. CASE UNCHANGED circuit
      BY <2>2, <3>2, SameProbe
    <3>3. CASE circuit = "closed" /\ circuit' = "open"
      <4>1. Probe' = Nobody
        BY <3>3 DEF Probe
      <4> QED
        BY <3>1, <3>3, <4>1 DEF Circuit!Trip
    <3> QED
      BY <1>3, <2>2, <3>2, <3>3, EndJudges
  <2> QED
    BY <2>1, <2>2
<1>4. ASSUME NEW c \in Callers, EndLate(c) PROVE UNCHANGED <<circuit, Probe>>
  BY <1>4 DEF EndLate, Probe, Waiting
<1>5. CASE HalfOpen
  <2>1. Probe = Nobody
    BY <1>5 DEF HalfOpen, Probe
  <2>2. Waiting' = {} /\ circuit = "open" /\ circuit' = "halfOpen"
    BY <1>5, HalfOpenPreserves DEF HalfOpen, BreakerInv, ProbeAccounted
  <2>3. Probe' = Nobody
    BY <2>2 DEF Probe
  <2> QED
    BY <2>1, <2>2, <2>3 DEF Circuit!Cool, Circuit!CircuitNext
<1>6. CASE Tick
  <2>1. Waiting' = Waiting /\ UNCHANGED circuit
    BY <1>6 DEF Tick, Waiting, CircuitTypeOK
  <2> QED
    BY <2>1, SameProbe
<1>7. CASE Turn \/ UNCHANGED vars
  <2>1. UNCHANGED <<circuit, Probe>>
    BY <1>7 DEF Turn, vars, Probe, Waiting
  <2> QED
    BY <2>1
<1> QED
  BY <1>1, <1>2, <1>3, <1>4, <1>5, <1>6, <1>7
     DEF Next, Fire, Circuit!CircuitNext

\* Every step of the breaker is a step or a stutter of the ProbingCircuit
\* under the mapping that the run checks: the safety of ImplementsCircuit.
THEOREM CircuitIsKept ==
    Spec => Circuit!CircuitInit /\ [][Circuit!CircuitNext]_(Circuit!circuitVars)
<1>1. Init => Circuit!CircuitInit
  BY DEF Init, Circuit!CircuitInit, Probe
<1>2. /\ CircuitTypeOK /\ CircuitTypeOK' /\ BreakerInv /\ [Next]_vars
      => [Circuit!CircuitNext]_(Circuit!circuitVars)
  BY StepImplements
<1> QED
  BY <1>1, <1>2, BreakerAlways, PTL DEF Spec
=============================================================================

--------------------------- MODULE ActuatorProofs ---------------------------
(***************************************************************************)
(* Proofs about Actuator, for any number of requests and databases and any *)
(* limits of their servers, which may go down and come up at any time.     *)
(***************************************************************************)
EXTENDS Actuator, TLAPS, FiniteSetTheorems

-----------------------------------------------------------------------------
(* The sessions that are counted.                                          *)

\* Fewer requests use fewer clients.
LEMMA FewerUsers ==
  ASSUME NEW S \in SUBSET Probes, NEW T \in SUBSET S
  PROVE  /\ Cardinality(S) \in Nat
         /\ Cardinality(T) \in Nat
         /\ Cardinality(T) <= Cardinality(S)
  <1>1. IsFiniteSet(S)
    BY ProbesAssumption, FS_Subset
  <1> QED
    BY <1>1, FS_Subset, FS_CardinalityType

LEMMA OneMoreUser ==
  ASSUME NEW S \in SUBSET Probes, NEW T \in SUBSET Probes, NEW p \in Probes,
         T \subseteq S \cup {p}
  PROVE  Cardinality(T) <= Cardinality(S) + 1
  <1>1. IsFiniteSet(S) /\ Cardinality(S) \in Nat
    BY ProbesAssumption, FS_Subset, FS_CardinalityType
  <1>2. Cardinality(S \cup {p}) <= Cardinality(S) + 1
    BY <1>1, FS_AddElement
  <1>3. Cardinality(T) \in Nat /\ Cardinality(S \cup {p}) \in Nat
        /\ Cardinality(T) <= Cardinality(S \cup {p})
    BY FewerUsers
  <1> QED
    BY <1>1, <1>2, <1>3

LEMMA UsersAreProbes == \A d : Using(d) \subseteq Probes /\ Using(d)' \subseteq Probes
  BY DEF Using

LEMMA NamesOfTargets == \A d \in Targets : getDBName(d) \in Names
  BY DEF Names

LEMMA TargetsAreNumbers ==
    /\ Cardinality(Targets) \in Nat
    /\ \A d \in Targets : d \in 1 .. Cardinality(Targets) /\ d + 1 \in Nat
    /\ \A d \in 1 .. Cardinality(Targets) : d \in Targets
    /\ 1 \in Targets
  <1>1. Cardinality(Targets) \in Nat
    BY ConfigurationAssumption, FS_CardinalityType
  <1>2. \A d \in Targets : d \in 1 .. Cardinality(Targets)
    BY ConfigurationAssumption
  <1>3. \A d \in 1 .. Cardinality(Targets) : d \in Targets
    BY ConfigurationAssumption
  <1>4. PICK d \in Targets : TRUE
    BY ConfigurationAssumption
  <1>5. \A n \in 1 .. Cardinality(Targets) : n + 1 \in Nat /\ 1 \in 1 .. Cardinality(Targets)
    BY <1>1
  <1> QED
    BY <1>1, <1>2, <1>3, <1>4, <1>5, Zenon

-----------------------------------------------------------------------------
(* Types.                                                                  *)

ProbeStates ==
    [endpoint : {"none", "health", "readiness"},
     at : Nat, allReady : BOOLEAN,
     details : [Names -> {"absent", "ready", "not connected"}]]

Settled == {"ready", "down", "thrown"}
Results == {"todo", "initializing", "querying", "broken", "given up"} \cup Settled

\* Readiness takes the databases in the order of the file: those before its
\* place are settled, those after it have not been asked.
AskedInOrder(p) ==
    probe[p].endpoint = "readiness" =>
        /\ probe[p].at \in 1 .. Cardinality(Targets) + 1
        /\ \A d \in Targets :
              /\ d < probe[p].at => check[p][d] \in Settled
              /\ d = probe[p].at =>
                    check[p][d] \in {"initializing", "querying", "broken"}
              /\ d > probe[p].at => check[p][d] = "todo"

\* Health asks all of them at once.
AskedTogether(p) ==
    probe[p].endpoint = "health" => \A d \in Targets : check[p][d] # "todo"

IdleWithin(p) ==
    ~UnderWay(p) => \A d \in Targets : check[p][d] \in {"todo", "given up"}

Asked(p) == AskedInOrder(p) /\ AskedTogether(p) /\ IdleWithin(p)

Counted == \A d \in Targets : sessions[d] \in Cardinality(Using(d)) .. Limit[d]

Typed ==
    /\ server \in [Targets -> {"up", "down"}]
    /\ sessions \in [Targets -> Nat]
    /\ probe \in [Probes -> ProbeStates]
    /\ check \in [Probes -> [Targets -> Results]]
    /\ wasUp \in [Probes -> SUBSET Targets]
    /\ wasAway \in [Probes -> SUBSET Targets]

\* The inductive invariant behind the types: that no statement is awaited for a
\* request that was answered follows from the order in which it asks.
ActuatorInv ==
    /\ Typed
    /\ Counted
    /\ \A p \in Probes : Asked(p)

LEMMA ActuatorInvTypes == ActuatorInv => ActuatorTypeOK
  BY DEF ActuatorInv, Typed, Counted, Asked, IdleWithin, ActuatorTypeOK,
         ProbeStates, Results, Settled

LEMMA UnaskedProbe == Unasked \in ProbeStates /\ Unasked.endpoint = "none"
  BY DEF Unasked, ProbeStates

LEMMA ActuatorInvInit == Init => ActuatorInv
  <1> SUFFICES ASSUME Init PROVE ActuatorInv
    OBVIOUS
  <1>1. Typed
    BY UnaskedProbe DEF Init, Typed, Results
  <1>2. ASSUME NEW d \in Targets
        PROVE  sessions[d] \in Cardinality(Using(d)) .. Limit[d]
    <2>1. Using(d) = {} /\ sessions[d] = 0
      BY DEF Init, Using
    <2> QED
      BY <2>1, ConfigurationAssumption, FS_EmptySet
  <1>3. Counted
    BY <1>2 DEF Counted
  <1>4. \A p \in Probes : Asked(p)
    BY UnaskedProbe
    DEF Init, Asked, AskedInOrder, AskedTogether, IdleWithin
  <1> QED
    BY <1>1, <1>3, <1>4 DEF ActuatorInv

\* What readiness reports on one database ...
Reported(p, d, v) ==
    /\ probe' \in [Probes -> ProbeStates]
    /\ \A q \in Probes \ {p} : probe'[q] = probe[q]
    /\ probe'[p].endpoint = probe[p].endpoint
    /\ probe'[p].at = d + 1
    /\ probe'[p].allReady = (probe[p].allReady /\ v = "ready")
    /\ probe'[p].details = [probe[p].details EXCEPT ![getDBName(d)] = v]

\* ... and how it goes on to the next one.
WentOn(p, d, result) ==
    /\ check' \in [Probes -> [Targets -> Results]]
    /\ \A q \in Probes \ {p} : check'[q] = check[q]
    /\ check'[p][d] = result
    /\ \A e \in Targets : e # d =>
          check'[p][e] = IF e = d + 1 THEN "initializing" ELSE check[p][e]

\* One check has moved, and the others have not.
Moved(p, d, result) ==
    /\ check' \in [Probes -> [Targets -> Results]]
    /\ \A q \in Probes \ {p} : check'[q] = check[q]
    /\ check'[p][d] = result
    /\ \A e \in Targets : e # d => check'[p][e] = check[p][e]

LEMMA ReportStep ==
  ASSUME Typed, NEW p \in Probes, NEW d \in Targets,
         NEW v \in {"ready", "not connected"}, Report(p, d, v)
  PROVE  Reported(p, d, v)
  <1> DEFINE f == [probe[p] EXCEPT !.at = d + 1,
                                   !.allReady = probe[p].allReady /\ v = "ready",
                                   !.details = [probe[p].details EXCEPT ![getDBName(d)] = v]]
  <1>0. d + 1 \in Nat
    BY TargetsAreNumbers
  <1>1. probe[p] \in ProbeStates /\ getDBName(d) \in Names /\ d + 1 \in Nat
    BY <1>0, NamesOfTargets, Zenon DEF Typed
  <1>2. probe' = [probe EXCEPT ![p] = f]
    BY <1>1 DEF Report, Typed, ProbeStates
  <1>3. f \in ProbeStates
    BY <1>1 DEF ProbeStates
  <1>4. /\ f.endpoint = probe[p].endpoint /\ f.at = d + 1
        /\ f.allReady = (probe[p].allReady /\ v = "ready")
        /\ f.details = [probe[p].details EXCEPT ![getDBName(d)] = v]
    BY <1>1 DEF ProbeStates
  <1> HIDE DEF f
  <1> QED
    BY <1>2, <1>3, <1>4 DEF Typed, Reported

\* The end of one check: readiness reports it and goes on ...
LEMMA ConcludeReadiness ==
  ASSUME Typed, NEW p \in Probes, NEW d \in Targets, NEW result \in Settled,
         Conclude(p, d, result), probe[p].endpoint = "readiness"
  PROVE  /\ Reported(p, d, IF result = "ready" THEN "ready" ELSE "not connected")
         /\ WentOn(p, d, result)
  <1> DEFINE v == IF result = "ready" THEN "ready" ELSE "not connected"
  <1>1. check' = [check EXCEPT ![p] = [e \in Targets |->
                   IF e = d THEN result
                   ELSE IF e = d + 1 THEN "initializing" ELSE check[p][e]]]
    BY DEF Conclude, Typed
  <1>2. WentOn(p, d, result)
    BY <1>1 DEF Typed, Results, WentOn
  <1>3. Report(p, d, v)
    BY DEF Conclude
  <1>4. v \in {"ready", "not connected"}
    OBVIOUS
  <1> HIDE DEF v
  <1>5. Reported(p, d, v)
    BY <1>3, <1>4, ReportStep
  <1> QED
    BY <1>2, <1>5 DEF v

\* ... and health waits for the others.
LEMMA MoveStep ==
  ASSUME Typed, NEW p \in Probes, NEW d \in Targets, NEW result \in Results,
         check' = [check EXCEPT ![p][d] = result]
  PROVE  Moved(p, d, result)
  BY DEF Typed, Moved

LEMMA ConcludeHealth ==
  ASSUME Typed, NEW p \in Probes, NEW d \in Targets, NEW result \in Settled,
         Conclude(p, d, result), probe[p].endpoint # "readiness"
  PROVE  probe' = probe /\ Moved(p, d, result)
  <1>1. probe' = probe /\ check' = [check EXCEPT ![p][d] = result]
    BY DEF Conclude
  <1>2. result \in Results
    BY DEF Results
  <1> QED
    BY <1>1, <1>2, MoveStep

\* What the answer of one request finds does not depend on the others.
Alone(p) == \A q \in Probes \ {p} : probe'[q] = probe[q] /\ check'[q] = check[q]

LEMMA OthersAsked ==
  ASSUME NEW p \in Probes, NEW q \in Probes \ {p}, Alone(p), Asked(q)
  PROVE  Asked(q)'
  <1>1. probe'[q] = probe[q] /\ check'[q] = check[q]
    BY DEF Alone
  <1>2. AskedInOrder(q)' /\ AskedTogether(q)' /\ IdleWithin(q)'
    BY <1>1, Zenon DEF Asked, AskedInOrder, AskedTogether, IdleWithin, UnderWay
  <1> QED
    BY <1>2, Zenon DEF Asked

\* The types but those of the history.
NowTyped ==
    /\ server \in [Targets -> {"up", "down"}]
    /\ sessions \in [Targets -> Nat]
    /\ probe \in [Probes -> ProbeStates]
    /\ check \in [Probes -> [Targets -> Results]]

LEMMA WatchTyped ==
  ASSUME Typed, NowTyped', Watch
  PROVE  Typed'
  <1>1. wasUp' \in [Probes -> SUBSET Targets]
    <2> DEFINE Up == {d \in Targets : server'[d] = "up"}
    <2>1. wasUp' = [p \in Probes |-> IF ~UnderWay(p)' THEN {} ELSE wasUp[p] \cup Up]
      BY DEF Watch
    <2>2. Up \in SUBSET Targets
      OBVIOUS
    <2> HIDE DEF Up
    <2> QED
      BY <2>1, <2>2 DEF Typed
  <1>2. wasAway' \in [Probes -> SUBSET Targets]
    <2> DEFINE Away(p) == {d \in Targets : server'[d] = "down" \/ Full(d)'
                                           \/ check'[p][d] = "given up"}
    <2>1. wasAway' = [p \in Probes |->
                        IF ~UnderWay(p)' THEN {} ELSE wasAway[p] \cup Away(p)]
      BY DEF Watch
    <2>2. \A p \in Probes : Away(p) \in SUBSET Targets
      OBVIOUS
    <2> HIDE DEF Away
    <2> QED
      BY <2>1, <2>2 DEF Typed
  <1> QED
    BY <1>1, <1>2 DEF Typed, NowTyped

LEMMA AskStep ==
  ASSUME ActuatorInv, NEW p \in Probes, NEW e \in {"health", "readiness"}, Ask(p, e)
  PROVE  NowTyped' /\ Alone(p) /\ Asked(p)'
  <1> DEFINE f == [Unasked EXCEPT !.endpoint = e, !.at = 1]
  <1>1. f \in ProbeStates /\ f.endpoint = e /\ f.at = 1
    BY DEF Unasked, ProbeStates
  <1>2. probe' = [probe EXCEPT ![p] = f]
    BY DEF Ask
  <1> HIDE DEF f
  <1> DEFINE g == [d \in Targets |->
                     IF e = "health" \/ d = 1 THEN "initializing" ELSE "todo"]
  <1>3. g \in [Targets -> Results]
    BY DEF Results
  <1>4. check' = [check EXCEPT ![p] = g]
    BY DEF Ask
  <1>5. NowTyped'
    BY <1>1, <1>2, <1>3, <1>4 DEF Ask, ActuatorInv, Typed, NowTyped
  <1>6. Alone(p)
    BY <1>2, <1>4 DEF Alone, ActuatorInv, Typed
  <1>7. probe'[p] = f /\ check'[p] = g
    BY <1>2, <1>4 DEF ActuatorInv, Typed
  <1>8. AskedInOrder(p)'
    <2>1. \A d \in Targets : g[d] = IF e = "health" \/ d = 1 THEN "initializing" ELSE "todo"
      OBVIOUS
    <2> HIDE DEF g
    <2> QED
      BY <1>1, <1>7, <2>1, TargetsAreNumbers DEF AskedInOrder
  <1>9. AskedTogether(p)' /\ IdleWithin(p)'
    BY <1>1, <1>7 DEF AskedTogether, IdleWithin, UnderWay
  <1> QED
    BY <1>5, <1>6, <1>8, <1>9 DEF Asked

\* A check is under way only in a request that is, and in readiness only at
\* its place.
LEMMA CheckUnderWay ==
  ASSUME ActuatorInv, NEW p \in Probes, NEW d \in Targets,
         check[p][d] \in {"initializing", "querying", "broken"}
  PROVE  /\ UnderWay(p)
         /\ probe[p].endpoint = "readiness" => d = probe[p].at
         /\ probe[p].endpoint # "readiness" => probe[p].endpoint = "health"
  <1>1. Asked(p) /\ probe[p].endpoint \in {"none", "health", "readiness"}
    BY DEF ActuatorInv, Typed, ProbeStates
  <1>2. UnderWay(p)
    BY <1>1 DEF Asked, IdleWithin
  <1>3. ASSUME probe[p].endpoint = "readiness" PROVE d = probe[p].at
    <2>1. d < probe[p].at \/ d = probe[p].at \/ d > probe[p].at
      BY <1>1, <1>3, TargetsAreNumbers DEF Asked, AskedInOrder
    <2> QED
      BY <1>1, <1>3, <2>1 DEF Asked, AskedInOrder, Settled
  <1> QED
    BY <1>1, <1>2, <1>3 DEF UnderWay

\* Readiness has no time limit for its statements.
LEMMA NotGivenUp ==
  ASSUME ActuatorInv, NEW p \in Probes, NEW d \in Targets,
         probe[p].endpoint = "readiness"
  PROVE  check[p][d] # "given up"
  <1>1. AskedInOrder(p)
    BY DEF ActuatorInv, Asked
  <1>2. d < probe[p].at \/ d = probe[p].at \/ d > probe[p].at
    BY <1>1, TargetsAreNumbers DEF AskedInOrder
  <1> QED
    BY <1>1, <1>2 DEF AskedInOrder, Settled

\* The two ways in which a check moves keep the order of the questions.
LEMMA WentOnInOrder ==
  ASSUME ActuatorInv, NEW p \in Probes, NEW d \in Targets, NEW result \in Settled,
         probe[p].endpoint = "readiness", d = probe[p].at,
         NEW v, Reported(p, d, v), WentOn(p, d, result)
  PROVE  Alone(p) /\ Asked(p)'
  <1>1. d \in Nat /\ Cardinality(Targets) \in Nat /\ \A e \in Targets : e \in Nat
    BY TargetsAreNumbers
  <1>2. \A e \in Targets : /\ e < d => check[p][e] \in Settled
                           /\ e > d => check[p][e] = "todo"
    BY DEF ActuatorInv, Asked, AskedInOrder
  <1>3. ASSUME NEW e \in Targets
        PROVE  /\ e < d + 1 => check'[p][e] \in Settled
               /\ e = d + 1 => check'[p][e] = "initializing"
               /\ e > d + 1 => check'[p][e] = "todo"
    <2>1. /\ e < d + 1 => e < d \/ e = d
          /\ e > d + 1 => e > d /\ e # d /\ e # d + 1
          /\ e < d => e # d /\ e # d + 1
          /\ e = d + 1 => e # d
      BY <1>1
    <2>2. /\ e = d => check'[p][e] = result
          /\ e # d => check'[p][e] =
                        IF e = d + 1 THEN "initializing" ELSE check[p][e]
      BY Zenon DEF WentOn
    <2> QED
      BY <1>2, <2>1, <2>2, Zenon
  <1>4. d + 1 \in 1 .. Cardinality(Targets) + 1
    BY TargetsAreNumbers
  <1>5. probe'[p].endpoint = "readiness" /\ probe'[p].at = d + 1
    BY DEF Reported
  <1>6. AskedInOrder(p)'
    BY <1>3, <1>4, <1>5 DEF AskedInOrder
  <1> QED
    BY <1>5, <1>6
    DEF Reported, WentOn, Alone, Asked, AskedTogether, IdleWithin, UnderWay

LEMMA MovedInOrder ==
  ASSUME ActuatorInv, NEW p \in Probes, NEW d \in Targets, NEW result \in Results,
         UnderWay(p), probe' = probe, Moved(p, d, result), result # "todo",
         probe[p].endpoint = "readiness" =>
            d = probe[p].at /\ result \in {"initializing", "querying", "broken"}
  PROVE  Alone(p) /\ Asked(p)'
  <1>1. Alone(p) /\ Asked(p)
    BY DEF Moved, Alone, ActuatorInv
  <1>2. AskedInOrder(p)'
    <2> SUFFICES ASSUME probe[p].endpoint = "readiness" PROVE AskedInOrder(p)'
      BY DEF AskedInOrder
    <2>1. ~(d < probe[p].at) /\ ~(d > probe[p].at)
      BY TargetsAreNumbers
    <2> QED
      BY <1>1, <2>1 DEF Asked, AskedInOrder, Moved
  <1>3. AskedTogether(p)' /\ IdleWithin(p)'
    BY <1>1 DEF Asked, AskedTogether, IdleWithin, UnderWay, Moved
  <1> QED
    BY <1>1, <1>2, <1>3 DEF Asked

LEMMA InitializeOkStep ==
  ASSUME ActuatorInv, NEW p \in Probes, NEW d \in Targets, InitializeOk(p, d)
  PROVE  NowTyped' /\ Alone(p) /\ Asked(p)' /\ Moved(p, d, "querying")
  <1>1. Moved(p, d, "querying") /\ Typed
    BY MoveStep DEF ActuatorInv, InitializeOk, Results
  <1>2. NowTyped'
    BY <1>1 DEF InitializeOk, Moved, Typed, NowTyped
  <1>3. /\ UnderWay(p) /\ probe' = probe
        /\ probe[p].endpoint = "readiness" => d = probe[p].at
    BY CheckUnderWay DEF InitializeOk
  <1>4. "querying" \in Results /\ "querying" # "todo"
    BY DEF Results
  <1>5. Alone(p) /\ Asked(p)'
    BY <1>1, <1>3, <1>4, MovedInOrder
  <1> QED
    BY <1>1, <1>2, <1>5

LEMMA EndStep ==
  ASSUME ActuatorInv, NEW p \in Probes, NEW d \in Targets, NEW result \in Settled,
         check[p][d] \in {"initializing", "querying", "broken"},
         Conclude(p, d, result), UNCHANGED <<server, sessions>>
  PROVE  NowTyped' /\ Alone(p) /\ Asked(p)'
  <1>1. Typed /\ UnderWay(p)
    BY CheckUnderWay DEF ActuatorInv
  <1>2. CASE probe[p].endpoint = "readiness"
    <2>1. PICK v : Reported(p, d, v)
      BY <1>1, <1>2, ConcludeReadiness
    <2>2. WentOn(p, d, result)
      BY <1>1, <1>2, ConcludeReadiness
    <2>3. d = probe[p].at
      BY <1>2, CheckUnderWay
    <2>4. Alone(p) /\ Asked(p)'
      BY <1>2, <2>1, <2>2, <2>3, WentOnInOrder
    <2> QED
      BY <1>1, <2>1, <2>2, <2>4 DEF Typed, NowTyped, Reported, WentOn
  <1>3. CASE probe[p].endpoint # "readiness"
    <2>1. probe' = probe /\ Moved(p, d, result)
      BY <1>1, <1>3, ConcludeHealth
    <2>2. result \in Results /\ result # "todo"
      BY DEF Results, Settled
    <2>3. Alone(p) /\ Asked(p)'
      BY <1>1, <1>3, <2>1, <2>2, MovedInOrder
    <2> QED
      BY <1>1, <2>1, <2>3 DEF Typed, NowTyped, Moved
  <1> QED
    BY <1>2, <1>3

LEMMA PingStep ==
  ASSUME ActuatorInv, NEW p \in Probes, NEW d \in Targets,
         PingTimeout(p, d) \/ PingEnds(p, d)
  PROVE  NowTyped' /\ Alone(p) /\ Asked(p)'
  <1>1. Typed /\ Asked(p)
    BY DEF ActuatorInv
  <1>2. CASE PingTimeout(p, d)
    <2>1. Moved(p, d, "given up") /\ "given up" \in Results
      BY <1>1, <1>2, MoveStep DEF PingTimeout, Results
    <2>2. UnderWay(p) /\ probe[p].endpoint # "readiness" /\ probe' = probe
      BY <1>2 DEF PingTimeout, UnderWay
    <2>3. Alone(p) /\ Asked(p)'
      BY <2>1, <2>2, MovedInOrder
    <2> QED
      BY <1>1, <1>2, <2>1, <2>3 DEF PingTimeout, Typed, NowTyped, Moved
  <1>3. CASE PingEnds(p, d)
    <2> DEFINE result == IF UnderWay(p) THEN "down" ELSE "todo"
    <2>1. result \in Results
      BY DEF Results, Settled
    <2>2. check' = [check EXCEPT ![p][d] = result] /\ probe' = probe
      BY <1>3 DEF PingEnds
    <2>3. probe[p].endpoint # "readiness"
      BY <1>3, NotGivenUp DEF PingEnds
    <2>4. Moved(p, d, result)
      <3> HIDE DEF result
      <3> QED
        BY <1>1, <2>1, <2>2, MoveStep
    <2>5. Asked(p)'
      BY <1>1, <2>2, <2>3, <2>4
      DEF Asked, AskedInOrder, AskedTogether, IdleWithin, UnderWay, Moved
    <2> QED
      BY <1>1, <1>3, <2>4, <2>5 DEF PingEnds, Typed, NowTyped, Moved, Alone
  <1> QED
    BY <1>2, <1>3

\* What a request knows when it is answered.
LEMMA AnsweredIsSettled ==
  ASSUME ActuatorInv, NEW p \in Probes, Answer(p), NEW d \in Targets
  PROVE  /\ probe[p].endpoint = "readiness" =>
               d < probe[p].at /\ check[p][d] \in Settled
         /\ probe[p].endpoint # "readiness" =>
               check[p][d] \in Settled \cup {"given up"}
  <1>1. Asked(p) /\ UnderWay(p) /\ Status(p) # 0 /\ check[p][d] \in Results
        /\ probe[p].endpoint \in {"none", "health", "readiness"}
    BY DEF ActuatorInv, Typed, ProbeStates, Answer
  <1>2. CASE probe[p].endpoint = "readiness"
    <2>1. probe[p].at \notin Targets /\ probe[p].at \in 1 .. Cardinality(Targets) + 1
      BY <1>1, <1>2 DEF Status, Readiness, Asked, AskedInOrder
    <2>2. d < probe[p].at
      BY <2>1, TargetsAreNumbers
    <2> QED
      BY <1>1, <1>2, <2>2 DEF Asked, AskedInOrder
  <1>3. CASE probe[p].endpoint = "health"
    <2>1. HealthCheck(p) # 0
      BY <1>1, <1>3 DEF Status
    <2>2. check[p][d] \notin {"initializing", "querying", "broken"}
      BY <2>1 DEF HealthCheck
    <2>3. check[p][d] # "todo"
      BY <1>1, <1>3 DEF Asked, AskedTogether
    <2> QED
      BY <1>1, <1>3, <2>2, <2>3 DEF Results
  <1> QED
    BY <1>1, <1>2, <1>3 DEF UnderWay

LEMMA AnswerStep ==
  ASSUME ActuatorInv, NEW p \in Probes, Answer(p)
  PROVE  NowTyped' /\ Alone(p) /\ Asked(p)'
  <1> DEFINE g == [d \in Targets |->
                     IF check[p][d] \in {"ready", "down", "thrown"} THEN "todo"
                     ELSE check[p][d]]
  <1>1. Typed
    BY DEF ActuatorInv
  <1>2. g \in [Targets -> Results]
    BY <1>1 DEF Typed, Results
  <1>3. check' = [check EXCEPT ![p] = g] /\ probe' = [probe EXCEPT ![p] = Unasked]
    BY <1>1 DEF Answer, Typed
  <1>4. \A d \in Targets : g[d] \in {"todo", "given up"}
    BY AnsweredIsSettled DEF Settled
  <1> HIDE DEF g
  <1>5. NowTyped' /\ Alone(p)
    BY <1>1, <1>2, <1>3, UnaskedProbe DEF Answer, Typed, NowTyped, Alone
  <1>6. check'[p] = g /\ probe'[p] = Unasked
    BY <1>1, <1>3 DEF Typed
  <1> QED
    BY <1>4, <1>5, <1>6, UnaskedProbe
    DEF Asked, AskedInOrder, AskedTogether, IdleWithin, UnderWay

\* A server that goes down takes its sessions with it.
LEMMA GoDownStep ==
  ASSUME ActuatorInv, NEW d \in Targets, GoDown(d)
  PROVE  /\ NowTyped'
         /\ \A p \in Probes : Asked(p)'
         /\ \A p \in Probes : \A e \in Targets :
               /\ e # d => check'[p][e] = check[p][e]
               /\ check'[p][d] =
                     IF check[p][d] = "querying" THEN "broken"
                     ELSE IF check[p][d] # "given up" THEN check[p][d]
                     ELSE IF UnderWay(p) THEN "down" ELSE "todo"
  <1> DEFINE g(p) == IF check[p][d] = "querying" THEN "broken"
                     ELSE IF check[p][d] # "given up" THEN check[p][d]
                     ELSE IF UnderWay(p) THEN "down" ELSE "todo"
  <1>1. Typed
    BY DEF ActuatorInv
  <1>2. ASSUME NEW p \in Probes PROVE g(p) \in Results
    BY <1>1 DEF Typed, Results, Settled
  <1>3. check' = [p \in Probes |-> [check[p] EXCEPT ![d] = g(p)]]
    BY <1>1 DEF GoDown, Typed
  <1> HIDE DEF g
  <1>4. NowTyped'
    <2>1. check' \in [Probes -> [Targets -> Results]]
      BY <1>1, <1>2, <1>3 DEF Typed
    <2>2. /\ server' = [server EXCEPT ![d] = "down"]
          /\ sessions' = [sessions EXCEPT ![d] = 0]
          /\ probe' = probe
      BY DEF GoDown
    <2> QED
      BY <1>1, <2>1, <2>2 DEF Typed, NowTyped
  <1>5. ASSUME NEW p \in Probes
        PROVE  /\ check'[p][d] = g(p)
               /\ \A e \in Targets : e # d => check'[p][e] = check[p][e]
    BY <1>1, <1>3 DEF Typed
  <1>6. ASSUME NEW p \in Probes PROVE Asked(p)'
    <2>1. Asked(p) /\ probe' = probe /\ check[p][d] \in Results
      BY <1>1 DEF ActuatorInv, GoDown, Typed
    <2>2. probe[p].endpoint = "readiness" => check[p][d] # "given up"
      BY NotGivenUp
    <2>3. AskedInOrder(p)'
      <3> SUFFICES ASSUME probe[p].endpoint = "readiness" PROVE AskedInOrder(p)'
        BY <2>1 DEF AskedInOrder
      <3>1. g(p) = IF check[p][d] = "querying" THEN "broken" ELSE check[p][d]
        BY <2>2 DEF g
      <3> QED
        BY <1>5, <2>1, <3>1, Zenon DEF Asked, AskedInOrder, Settled
    <2>4. AskedTogether(p)' /\ IdleWithin(p)'
      BY <1>5, <2>1 DEF g, Asked, AskedTogether, IdleWithin, UnderWay
    <2> QED
      BY <2>3, <2>4 DEF Asked
  <1> QED
    BY <1>4, <1>5, <1>6 DEF g

-----------------------------------------------------------------------------
(* The sessions that requests use are counted.                             *)

Users == {"querying", "given up"}

NoNewUsers ==
    \A p \in Probes, d \in Targets : check'[p][d] \in Users => check[p][d] \in Users

\* With no more users, sessions that stay are enough; IdleTimeout ends one that
\* nobody uses.
LEMMA CountedWithout ==
  ASSUME ActuatorInv, NoNewUsers,
         NEW d \in Targets,
         \/ sessions'[d] = sessions[d]
         \/ sessions'[d] = sessions[d] - 1 /\ sessions[d] > Cardinality(Using(d))
  PROVE  sessions'[d] \in Cardinality(Using(d)') .. Limit[d]
  <1>1. Using(d)' \subseteq Using(d)
    BY DEF NoNewUsers, Users, Using
  <1> DEFINE before == Cardinality(Using(d))
             after == Cardinality(Using(d)')
  <1>2. before \in Nat /\ after \in Nat /\ after <= before
    BY <1>1, UsersAreProbes, FewerUsers
  <1>3. sessions[d] \in before .. Limit[d] /\ Limit[d] \in Nat
    BY ConfigurationAssumption DEF ActuatorInv, Counted
  <1> HIDE DEF before, after
  <1>4. sessions'[d] \in after .. Limit[d]
    BY <1>2, <1>3 DEF before
  <1> QED
    BY <1>4 DEF after

LEMMA InitializeOkCounted ==
  ASSUME ActuatorInv, NEW p \in Probes, NEW d \in Targets, InitializeOk(p, d)
  PROVE  Counted'
  <1>1. Typed /\ Moved(p, d, "querying") /\ Alone(p)
    BY InitializeOkStep DEF ActuatorInv
  <1>2. ASSUME NEW e \in Targets PROVE sessions'[e] \in Cardinality(Using(e)') .. Limit[e]
    <2> DEFINE before == Cardinality(Using(e))
               after == Cardinality(Using(e)')
    <2>1. sessions[e] \in before .. Limit[e] /\ Limit[e] \in Nat
      BY ConfigurationAssumption DEF ActuatorInv, Counted
    <2>2. before \in Nat /\ after \in Nat
      BY UsersAreProbes, FewerUsers
    <2>3. CASE e = d
      <3>1. Using(e)' \subseteq Using(e) \cup {p}
        BY <1>1 DEF Using, Alone
      <3>2. after <= before + 1
        BY <3>1, UsersAreProbes, OneMoreUser
      <3>3. sessions'[e] = sessions[e] + 1 /\ ~(sessions[e] >= Limit[e])
        BY <1>1, <2>3 DEF InitializeOk, Full, Typed
      <3> HIDE DEF before, after
      <3>4. sessions'[e] \in after .. Limit[e]
        BY <2>1, <2>2, <3>2, <3>3
      <3> QED
        BY <3>4 DEF after
    <2>4. CASE e # d
      <3>1. Using(e)' \subseteq Using(e)
        BY <1>1, <2>4 DEF Using, Alone, Moved
      <3>2. after <= before
        BY <3>1, UsersAreProbes, FewerUsers
      <3>3. sessions'[e] = sessions[e]
        BY <1>1, <2>4 DEF InitializeOk, Typed
      <3> HIDE DEF before, after
      <3>4. sessions'[e] \in after .. Limit[e]
        BY <2>1, <2>2, <3>2, <3>3
      <3> QED
        BY <3>4 DEF after
    <2> QED
      BY <2>3, <2>4
  <1> QED
    BY <1>2 DEF Counted

LEMMA GoDownCounted ==
  ASSUME ActuatorInv, NEW d \in Targets, GoDown(d)
  PROVE  Counted'
  <1>1. ASSUME NEW e \in Targets, e # d
        PROVE  sessions'[e] \in Cardinality(Using(e)') .. Limit[e]
    <2>1. Using(e)' = Using(e)
      BY <1>1, GoDownStep DEF Using
    <2>2. sessions'[e] = sessions[e]
      BY <1>1 DEF GoDown, ActuatorInv, Typed
    <2> QED
      BY <2>1, <2>2 DEF ActuatorInv, Counted
  <1>2. sessions'[d] \in Cardinality(Using(d)') .. Limit[d]
    <2>1. ASSUME NEW p \in Probes PROVE check'[p][d] \notin {"querying", "given up"}
      BY GoDownStep
    <2>2. Using(d)' = {}
      BY <2>1 DEF Using
    <2>3. sessions'[d] = 0
      BY DEF GoDown, ActuatorInv, Typed
    <2> QED
      BY <2>2, <2>3, ConfigurationAssumption, FS_EmptySet
  <1> QED
    BY <1>1, <1>2 DEF Counted

LEMMA EndNoNewUsers ==
  ASSUME ActuatorInv, NEW p \in Probes, NEW d \in Targets, NEW result \in Settled,
         Conclude(p, d, result)
  PROVE  NoNewUsers
  <1>1. Typed
    BY DEF ActuatorInv
  <1>2. CASE probe[p].endpoint = "readiness"
    <2>1. WentOn(p, d, result)
      BY <1>1, <1>2, ConcludeReadiness
    <2> QED
      BY <2>1 DEF WentOn, NoNewUsers, Users, Settled
  <1>3. CASE probe[p].endpoint # "readiness"
    <2>1. Moved(p, d, result)
      BY <1>1, <1>3, ConcludeHealth
    <2> QED
      BY <2>1 DEF Moved, NoNewUsers, Users, Settled
  <1> QED
    BY <1>2, <1>3

LEMMA PingNoNewUsers ==
  ASSUME ActuatorInv, NEW p \in Probes, NEW d \in Targets,
         PingTimeout(p, d) \/ PingEnds(p, d)
  PROVE  NoNewUsers
  <1>1. check[p][d] \in Users
    BY DEF PingTimeout, PingEnds, Users
  <1>2. PICK result : check' = [check EXCEPT ![p][d] = result]
    BY DEF PingTimeout, PingEnds
  <1>3. \A q \in Probes, e \in Targets :
           check'[q][e] = check[q][e] \/ (q = p /\ e = d)
    BY <1>2 DEF ActuatorInv, Typed
  <1> QED
    BY <1>1, <1>3 DEF NoNewUsers

LEMMA AskNoNewUsers ==
  ASSUME ActuatorInv, NEW p \in Probes, NEW e \in {"health", "readiness"}, Ask(p, e)
  PROVE  NoNewUsers
  <1>1. check' = [check EXCEPT ![p] = [d \in Targets |->
                   IF e = "health" \/ d = 1 THEN "initializing" ELSE "todo"]]
    BY DEF Ask
  <1>2. ASSUME NEW d \in Targets PROVE check'[p][d] \in {"initializing", "todo"}
    BY <1>1 DEF ActuatorInv, Typed
  <1>3. \A q \in Probes : q # p => check'[q] = check[q]
    BY <1>1 DEF ActuatorInv, Typed
  <1> QED
    BY <1>2, <1>3 DEF NoNewUsers, Users

LEMMA AnswerNoNewUsers ==
  ASSUME ActuatorInv, NEW p \in Probes, Answer(p)
  PROVE  NoNewUsers
  <1>1. ASSUME NEW d \in Targets
        PROVE  check'[p][d] = IF check[p][d] \in {"ready", "down", "thrown"}
                              THEN "todo" ELSE check[p][d]
    BY DEF Answer, ActuatorInv, Typed
  <1>2. \A q \in Probes : q # p => check'[q] = check[q]
    BY DEF Answer, ActuatorInv, Typed
  <1> QED
    BY <1>1, <1>2 DEF NoNewUsers, Users

-----------------------------------------------------------------------------
(* The steps together.                                                     *)

\* A step of a request that takes no further client.
LEMMA WithoutNewUsers ==
  ASSUME ActuatorInv, UNCHANGED sessions, NoNewUsers
  PROVE  Counted'
  BY CountedWithout DEF Counted

LEMMA ProceedStep ==
  ASSUME ActuatorInv, NEW p \in Probes, NEW d \in Targets,
         Proceed(p, d) \/ PingTimeout(p, d)
  PROVE  NowTyped' /\ Alone(p) /\ Asked(p)' /\ Counted'
  <1>1. CASE InitializeOk(p, d)
    BY <1>1, InitializeOkStep, InitializeOkCounted
  <1>2. ASSUME NEW result \in Settled, Conclude(p, d, result),
               UNCHANGED <<server, sessions>>,
               check[p][d] \in {"initializing", "querying", "broken"}
        PROVE  NowTyped' /\ Alone(p) /\ Asked(p)' /\ Counted'
    BY <1>2, EndStep, EndNoNewUsers, WithoutNewUsers
  <1>3. CASE InitializeFail(p, d) \/ QueryOk(p, d) \/ QueryFail(p, d)
    BY <1>2, <1>3 DEF InitializeFail, QueryOk, QueryFail, Settled
  <1>4. CASE PingTimeout(p, d) \/ PingEnds(p, d)
    <2>1. UNCHANGED sessions
      BY <1>4 DEF PingTimeout, PingEnds
    <2> QED
      BY <1>4, <2>1, PingStep, PingNoNewUsers, WithoutNewUsers
  <1> QED
    BY <1>1, <1>3, <1>4 DEF Proceed

LEMMA RequestStep ==
  ASSUME ActuatorInv, NEW p \in Probes,
         Ask(p, "health") \/ Ask(p, "readiness") \/ Answer(p)
  PROVE  NowTyped' /\ Alone(p) /\ Asked(p)' /\ Counted'
  <1>1. UNCHANGED sessions
    BY DEF Ask, Answer
  <1>2. CASE Ask(p, "health") \/ Ask(p, "readiness")
    BY <1>1, <1>2, AskStep, AskNoNewUsers, WithoutNewUsers
  <1>3. CASE Answer(p)
    BY <1>1, <1>3, AnswerStep, AnswerNoNewUsers, WithoutNewUsers
  <1> QED
    BY <1>2, <1>3

LEMMA ServerStep ==
  ASSUME ActuatorInv, NEW d \in Targets, IdleTimeout(d) \/ GoDown(d) \/ ComeUp(d)
  PROVE  NowTyped' /\ (\A p \in Probes : Asked(p)') /\ Counted'
  <1>1. Typed /\ \A p \in Probes : Asked(p)
    BY DEF ActuatorInv
  <1>2. CASE GoDown(d)
    BY <1>2, GoDownStep, GoDownCounted
  <1>3. CASE IdleTimeout(d) \/ ComeUp(d)
    <2>1. UNCHANGED <<probe, check>>
      BY <1>3 DEF IdleTimeout, ComeUp
    <2>2. \A p \in Probes : Asked(p)'
      BY <1>1, <2>1 DEF Asked, AskedInOrder, AskedTogether, IdleWithin, UnderWay
    <2>3. ASSUME NEW e \in Targets
          PROVE  \/ sessions'[e] = sessions[e]
                 \/ sessions'[e] = sessions[e] - 1 /\ sessions[e] > Cardinality(Using(e))
      BY <1>1, <1>3 DEF IdleTimeout, ComeUp, Typed
    <2>4. NoNewUsers
      BY <2>1 DEF NoNewUsers
    <2>5. Counted'
      BY <2>3, <2>4, CountedWithout DEF Counted
    <2>6. server' \in [Targets -> {"up", "down"}]
      BY <1>1, <1>3 DEF IdleTimeout, ComeUp, Typed
    <2>7. sessions' \in [Targets -> Nat]
      <3>1. CASE ComeUp(d)
        BY <1>1, <3>1 DEF ComeUp, Typed
      <3>2. CASE IdleTimeout(d)
        <4>1. Cardinality(Using(d)) \in Nat
          BY UsersAreProbes, FewerUsers
        <4>2. sessions[d] - 1 \in Nat
          BY <1>1, <3>2, <4>1 DEF IdleTimeout, Typed
        <4> QED
          BY <1>1, <3>2, <4>2 DEF IdleTimeout, Typed
      <3> QED
        BY <1>3, <3>1, <3>2
    <2> QED
      BY <1>1, <2>1, <2>2, <2>5, <2>6, <2>7 DEF Typed, NowTyped
  <1> QED
    BY <1>2, <1>3

LEMMA ActuatorInvStep == ActuatorInv /\ [Next]_vars => ActuatorInv'
  <1> SUFFICES ASSUME ActuatorInv, [Next]_vars PROVE ActuatorInv'
    OBVIOUS
  <1>0. Typed /\ Counted /\ \A p \in Probes : Asked(p)
    BY DEF ActuatorInv
  <1>1. CASE UNCHANGED vars
    BY <1>0, <1>1
    DEF vars, ActuatorInv, Typed, Counted, Using, Asked, AskedInOrder,
        AskedTogether, IdleWithin, UnderWay
  <1>2. CASE Step /\ Watch
    <2>1. ASSUME NEW p \in Probes, NowTyped', Alone(p), Asked(p)', Counted'
          PROVE  ActuatorInv'
      <3>1. \A q \in Probes : Asked(q)'
        BY <1>0, <2>1, OthersAsked
      <3> QED
        BY <1>0, <1>2, <2>1, <3>1, WatchTyped DEF ActuatorInv
    <2>2. ASSUME NEW p \in Probes, Ask(p, "health") \/ Ask(p, "readiness") \/ Answer(p)
          PROVE  ActuatorInv'
      BY <2>1, <2>2, RequestStep
    <2>3. ASSUME NEW p \in Probes, NEW d \in Targets,
                 Proceed(p, d) \/ PingTimeout(p, d)
          PROVE  ActuatorInv'
      BY <2>1, <2>3, ProceedStep
    <2>4. ASSUME NEW d \in Targets, IdleTimeout(d) \/ GoDown(d) \/ ComeUp(d)
          PROVE  ActuatorInv'
      BY <1>0, <1>2, <2>4, ServerStep, WatchTyped DEF ActuatorInv
    <2> QED
      BY <1>2, <2>2, <2>3, <2>4 DEF Step
  <1> QED
    BY <1>1, <1>2 DEF Next

\* Every variable of the actuator keeps its type: no server has more sessions
\* than it grants or fewer than are in use, and nothing but a ping that was
\* given up is awaited for a request that was answered.
THEOREM ActuatorTypeCorrect == Spec => []ActuatorTypeOK
  BY ActuatorInvInit, ActuatorInvStep, ActuatorInvTypes, PTL DEF Spec

-----------------------------------------------------------------------------
(* What the answers say.                                                   *)

Up   == {"querying", "ready"}
Away == {"broken", "given up", "down", "thrown"}

\* What a check has found was so at some time of its request.
ResultsTrue(p) ==
    UnderWay(p) => \A d \in Targets :
        /\ check[p][d] \in Up => d \in wasUp[p]
        /\ check[p][d] \in Away => d \in wasAway[p]

\* The details of readiness are what its checks have found.
Agree(request, results) ==
    request.endpoint = "readiness" =>
        /\ \A d \in Targets : request.details[getDBName(d)] =
              IF d >= request.at THEN "absent"
              ELSE IF results[d] = "ready" THEN "ready" ELSE "not connected"
        /\ request.allReady <=>
              \A d \in Targets : d < request.at => results[d] = "ready"

DetailsTrue(p) == Agree(probe[p], check[p])

\* The inductive invariant behind AnswersAreHonest.
HonestInv ==
    /\ ActuatorInv
    /\ \A p \in Probes : ResultsTrue(p) /\ DetailsTrue(p)

\* No two databases have the same name in the answer.
DistinctNames ==
    \A d, e \in Targets : getDBName(d) = getDBName(e) => d = e

LEMMA HonestInvInit == Init => HonestInv
  <1> SUFFICES ASSUME Init PROVE HonestInv
    OBVIOUS
  <1>1. \A p \in Probes : probe[p].endpoint = "none"
    BY UnaskedProbe DEF Init
  <1> QED
    BY <1>1, ActuatorInvInit DEF HonestInv, ResultsTrue, DetailsTrue, Agree, UnderWay

\* A new result is seen by the watch, or follows from the one before.
Justified(p, d) ==
    /\ check'[p][d] \in Up => server'[d] = "up" \/ check[p][d] \in Up
    /\ check'[p][d] \in Away =>
          \/ server'[d] = "down" \/ Full(d)'
          \/ check'[p][d] = "given up" \/ check[p][d] \in Away

LEMMA WatchSees ==
  ASSUME Watch, NEW p \in Probes, UnderWay(p)', NEW d \in Targets
  PROVE  /\ d \in wasUp[p] => d \in wasUp'[p]
         /\ d \in wasAway[p] => d \in wasAway'[p]
         /\ server'[d] = "up" => d \in wasUp'[p]
         /\ server'[d] = "down" \/ Full(d)' \/ check'[p][d] = "given up"
               => d \in wasAway'[p]
  <1>1. wasUp'[p] = wasUp[p] \cup {e \in Targets : server'[e] = "up"}
    BY DEF Watch
  <1>2. wasAway'[p] = wasAway[p] \cup {e \in Targets : \/ server'[e] = "down"
                                                       \/ Full(e)'
                                                       \/ check'[p][e] = "given up"}
    BY DEF Watch
  <1> QED
    BY <1>1, <1>2

LEMMA ResultsStep ==
  ASSUME Watch, NEW p \in Probes, ResultsTrue(p), UnderWay(p)' => UnderWay(p),
         \A d \in Targets : Justified(p, d)
  PROVE  ResultsTrue(p)'
  <1> SUFFICES ASSUME UnderWay(p)', NEW d \in Targets
               PROVE  /\ check'[p][d] \in Up => d \in wasUp'[p]
                      /\ check'[p][d] \in Away => d \in wasAway'[p]
    BY DEF ResultsTrue
  <1>1. /\ check[p][d] \in Up => d \in wasUp[p]
        /\ check[p][d] \in Away => d \in wasAway[p]
    BY DEF ResultsTrue
  <1>2. Justified(p, d)
    OBVIOUS
  <1> QED
    BY <1>1, <1>2, WatchSees DEF Justified

\* A request that a step does not concern.
LEMMA StillHonest ==
  ASSUME Watch, NEW p \in Probes, ResultsTrue(p), DetailsTrue(p),
         probe'[p] = probe[p], check'[p] = check[p]
  PROVE  ResultsTrue(p)' /\ DetailsTrue(p)'
  <1>1. UnderWay(p)' => UnderWay(p)
    BY DEF UnderWay
  <1>2. \A d \in Targets : Justified(p, d)
    BY DEF Justified
  <1>3. DetailsTrue(p)'
    BY Zenon DEF DetailsTrue
  <1> QED
    BY <1>1, <1>2, <1>3, ResultsStep

LEMMA AskHonest ==
  ASSUME ActuatorInv, NEW p \in Probes, NEW e \in {"health", "readiness"}, Ask(p, e)
  PROVE  ResultsTrue(p)' /\ DetailsTrue(p)'
  <1> DEFINE f == [Unasked EXCEPT !.endpoint = e, !.at = 1]
  <1>1. /\ f.at = 1 /\ f.allReady = TRUE
        /\ \A n \in Names : f.details[n] = "absent"
    BY DEF Unasked
  <1>2. probe' = [probe EXCEPT ![p] = f]
    BY DEF Ask
  <1> HIDE DEF f
  <1>3. probe'[p] = f
    BY <1>2 DEF ActuatorInv, Typed
  <1>4. ASSUME NEW d \in Targets PROVE check'[p][d] \in {"initializing", "todo"}
    BY DEF Ask, ActuatorInv, Typed
  <1>5. ResultsTrue(p)'
    BY <1>4 DEF ResultsTrue, Up, Away
  <1>6. \A d \in Targets : d >= 1 /\ ~(d < 1)
    BY TargetsAreNumbers
  <1>7. DetailsTrue(p)'
    BY <1>1, <1>3, <1>6, NamesOfTargets, Zenon DEF DetailsTrue, Agree
  <1> QED
    BY <1>5, <1>7

\* A check that moves while its request stays where it is.
LEMMA MovedHonest ==
  ASSUME ActuatorInv, Watch, NEW p \in Probes, NEW d \in Targets, NEW result,
         ResultsTrue(p), DetailsTrue(p),
         probe' = probe, Moved(p, d, result), Justified(p, d),
         probe[p].endpoint = "readiness" => d = probe[p].at
  PROVE  ResultsTrue(p)' /\ DetailsTrue(p)'
  <1>1. UnderWay(p)' => UnderWay(p)
    BY DEF UnderWay
  <1>2. ASSUME NEW e \in Targets PROVE Justified(p, e)
    BY DEF Justified, Moved
  <1>3. ResultsTrue(p)'
    BY <1>1, <1>2, ResultsStep
  <1>4. ASSUME probe[p].endpoint = "readiness", NEW e \in Targets
        PROVE  \/ ~(e < probe[p].at) /\ e >= probe[p].at
               \/ e < probe[p].at /\ ~(e >= probe[p].at) /\ check'[p][e] = check[p][e]
    <2>1. probe[p].at = d
      BY <1>4
    <2>2. \/ ~(e < probe[p].at) /\ e >= probe[p].at
          \/ e < probe[p].at /\ ~(e >= probe[p].at) /\ e # d
      BY <2>1, TargetsAreNumbers
    <2>3. e # d => check'[p][e] = check[p][e]
      BY Zenon DEF Moved
    <2> QED
      BY <2>2, <2>3, Zenon
  <1>5. DetailsTrue(p)'
    BY <1>4, Zenon DEF DetailsTrue, Agree
  <1> QED
    BY <1>3, <1>5

LEMMA Places ==
  ASSUME NEW d \in Targets, NEW e \in Targets
  PROVE  \/ e = d /\ ~(e < d) /\ e < d + 1 /\ ~(e >= d + 1)
         \/ /\ e # d /\ e # d + 1 /\ e < d + 1 /\ e < d
            /\ ~(e >= d + 1) /\ ~(e >= d)
         \/ e # d /\ ~(e < d + 1) /\ ~(e < d) /\ e >= d + 1 /\ e >= d
  BY TargetsAreNumbers

\* Readiness reports what it has found, and goes on.
LEMMA WentOnHonest ==
  ASSUME DistinctNames, ActuatorInv, NEW p \in Probes, NEW d \in Targets,
         NEW result \in Settled, DetailsTrue(p),
         probe[p].endpoint = "readiness", d = probe[p].at,
         Reported(p, d, IF result = "ready" THEN "ready" ELSE "not connected"),
         WentOn(p, d, result)
  PROVE  DetailsTrue(p)'
  <1> DEFINE v == IF result = "ready" THEN "ready" ELSE "not connected"
             found(e) == IF check[p][e] = "ready" THEN "ready" ELSE "not connected"
  <1>1. /\ probe'[p].at = d + 1
        /\ probe'[p].allReady = (probe[p].allReady /\ v = "ready")
        /\ probe'[p].details = [probe[p].details EXCEPT ![getDBName(d)] = v]
    BY DEF Reported
  <1>2. /\ probe[p].details \in [Names -> {"absent", "ready", "not connected"}]
        /\ probe[p].allReady \in BOOLEAN
    BY DEF ActuatorInv, Typed, ProbeStates
  <1>3. probe'[p].details[getDBName(d)] = v
    BY <1>1, <1>2, NamesOfTargets, Zenon
  <1>4. ASSUME NEW e \in Targets, e # d
        PROVE  probe'[p].details[getDBName(e)] = probe[p].details[getDBName(e)]
    <2>1. getDBName(e) # getDBName(d)
      BY <1>4 DEF DistinctNames
    <2> QED
      BY <1>1, <1>2, <2>1, NamesOfTargets, Zenon
  <1>5. ASSUME NEW e \in Targets
        PROVE  \/ e = d /\ ~(e < d) /\ e < d + 1 /\ ~(e >= d + 1)
               \/ /\ e # d /\ e # d + 1 /\ e < d + 1 /\ e < d
                  /\ ~(e >= d + 1) /\ ~(e >= d)
               \/ e # d /\ ~(e < d + 1) /\ ~(e < d) /\ e >= d + 1 /\ e >= d
    BY Places, Zenon
  <1>6. /\ check'[p][d] = result
        /\ \A e \in Targets : e # d /\ e # d + 1 => check'[p][e] = check[p][e]
    BY Zenon DEF WentOn
  <1>7. /\ \A e \in Targets : probe[p].details[getDBName(e)] =
                                 IF e >= d THEN "absent" ELSE found(e)
        /\ probe[p].allReady <=> \A e \in Targets : e < d => check[p][e] = "ready"
    BY Zenon DEF DetailsTrue, Agree
  <1>8. ASSUME NEW e \in Targets
        PROVE  probe'[p].details[getDBName(e)] =
                  IF e >= d + 1 THEN "absent"
                  ELSE IF check'[p][e] = "ready" THEN "ready" ELSE "not connected"
    <2>1. CASE e = d
      <3>1. ~(e >= d + 1)
        BY <1>5, <2>1, Zenon
      <3>2. check'[p][e] = result /\ probe'[p].details[getDBName(e)] = v
        BY <1>3, <1>6, <2>1, Zenon
      <3> QED
        BY <3>1, <3>2, Zenon
    <2>2. CASE e < d
      BY <1>4, <1>5, <1>6, <1>7, <2>2, Zenon
    <2>3. CASE e # d /\ ~(e < d)
      BY <1>4, <1>5, <1>7, <2>3, Zenon
    <2> QED
      BY <2>1, <2>2, <2>3, Zenon
  <1>9. probe'[p].allReady <=>
           \A e \in Targets : e < d + 1 => check'[p][e] = "ready"
    <2>1. v = "ready" <=> result = "ready"
      OBVIOUS
    <2>2. (\A e \in Targets : e < d + 1 => check'[p][e] = "ready")
          <=> /\ \A e \in Targets : e < d => check[p][e] = "ready"
              /\ result = "ready"
      <3>1. ASSUME \A e \in Targets : e < d + 1 => check'[p][e] = "ready"
            PROVE  result = "ready" /\ \A e \in Targets : e < d => check[p][e] = "ready"
        <4>1. d < d + 1
          BY <1>5, Zenon
        <4>2. result = "ready"
          BY <1>6, <3>1, <4>1, Zenon
        <4> QED
          BY <1>5, <1>6, <3>1, <4>2, Zenon
      <3>2. ASSUME result = "ready", \A e \in Targets : e < d => check[p][e] = "ready"
            PROVE  \A e \in Targets : e < d + 1 => check'[p][e] = "ready"
        BY <1>5, <1>6, <3>2, Zenon
      <3> QED
        BY <3>1, <3>2
    <2> QED
      BY <1>1, <1>7, <2>1, <2>2, Zenon
  <1> QED
    BY <1>1, <1>8, <1>9, Zenon DEF DetailsTrue, Agree

\* The results of the steps are those of servers that are up, down or full.
LEMMA InitializeOkJustified ==
  ASSUME ActuatorInv, NEW p \in Probes, NEW d \in Targets, InitializeOk(p, d)
  PROVE  Justified(p, d)
  <1>1. check'[p][d] = "querying"
    BY InitializeOkStep DEF Moved
  <1>2. server'[d] = "up"
    BY DEF InitializeOk
  <1> QED
    BY <1>1, <1>2 DEF Justified, Away

EndJustified(p, d, result) ==
    /\ result = "ready" => check[p][d] \in Up
    /\ result \in Away => server[d] = "down" \/ Full(d) \/ check[p][d] \in Away

LEMMA EndHonest ==
  ASSUME DistinctNames, ActuatorInv, Watch, NEW p \in Probes, NEW d \in Targets,
         NEW result \in Settled, ResultsTrue(p), DetailsTrue(p),
         check[p][d] \in {"initializing", "querying", "broken"},
         Conclude(p, d, result), UNCHANGED <<server, sessions>>,
         EndJustified(p, d, result)
  PROVE  ResultsTrue(p)' /\ DetailsTrue(p)'
  <1>1. Typed /\ UnderWay(p)
    BY CheckUnderWay DEF ActuatorInv
  <1>2. server'[d] = server[d] /\ (Full(d)' <=> Full(d))
    <2>1. server' = server /\ sessions' = sessions
      OBVIOUS
    <2>2. server'[d] = server[d]
      BY <2>1
    <2>3. Full(d)' <=> Full(d)
      BY <2>1 DEF Full
    <2> QED
      BY <2>2, <2>3, Zenon
  <1>3. check'[p][d] = result => Justified(p, d)
    <2>1. result \in Up => result = "ready"
      BY DEF Settled, Up
    <2> QED
      BY <1>2, <2>1, Zenon DEF EndJustified, Justified
  <1>4. CASE probe[p].endpoint = "readiness"
    <2>1. Reported(p, d, IF result = "ready" THEN "ready" ELSE "not connected")
          /\ WentOn(p, d, result)
      BY <1>1, <1>4, ConcludeReadiness
    <2>2. d = probe[p].at
      BY <1>4, CheckUnderWay
    <2>3. DetailsTrue(p)'
      BY <1>4, <2>1, <2>2, WentOnHonest
    <2>4. ASSUME NEW e \in Targets PROVE Justified(p, e)
      <3>1. CASE e = d
        BY <1>3, <2>1, <3>1 DEF WentOn
      <3>2. CASE e # d
        <4>1. check'[p][e] \in {"initializing", check[p][e]}
          BY <2>1, <3>2, Zenon DEF WentOn
        <4> QED
          BY <4>1 DEF Justified, Up, Away
      <3> QED
        BY <3>1, <3>2
    <2>5. ResultsTrue(p)'
      BY <1>1, <2>4, ResultsStep
    <2> QED
      BY <2>3, <2>5
  <1>5. CASE probe[p].endpoint # "readiness"
    <2>1. probe' = probe /\ Moved(p, d, result)
      BY <1>1, <1>5, ConcludeHealth
    <2>2. Justified(p, d)
      BY <1>3, <2>1 DEF Moved
    <2> QED
      BY <1>5, <2>1, <2>2, MovedHonest
  <1> QED
    BY <1>4, <1>5

LEMMA PingHonest ==
  ASSUME ActuatorInv, Watch, NEW p \in Probes, NEW d \in Targets,
         ResultsTrue(p), DetailsTrue(p), PingTimeout(p, d) \/ PingEnds(p, d)
  PROVE  ResultsTrue(p)' /\ DetailsTrue(p)'
  <1>1. Typed /\ Asked(p) /\ probe' = probe
    BY DEF ActuatorInv, PingTimeout, PingEnds
  <1>2. PICK result \in {"given up", "down", "todo"} :
             /\ check' = [check EXCEPT ![p][d] = result]
             /\ result = "down" => check[p][d] = "given up"
    BY DEF PingTimeout, PingEnds
  <1>3. result \in Results
    BY DEF Results, Settled
  <1>4. Moved(p, d, result)
    BY <1>1, <1>2, <1>3, MoveStep
  <1>5. Justified(p, d)
    BY <1>2, <1>4 DEF Moved, Justified, Up, Away
  <1>6. probe[p].endpoint # "readiness"
    <2>1. CASE PingTimeout(p, d)
      BY <2>1 DEF PingTimeout
    <2>2. CASE PingEnds(p, d)
      BY <2>2, NotGivenUp DEF PingEnds
    <2> QED
      BY <2>1, <2>2
  <1> QED
    BY <1>1, <1>4, <1>5, <1>6, MovedHonest

LEMMA GoDownHonest ==
  ASSUME ActuatorInv, Watch, NEW d \in Targets, GoDown(d), NEW p \in Probes,
         ResultsTrue(p), DetailsTrue(p)
  PROVE  ResultsTrue(p)' /\ DetailsTrue(p)'
  <1>1. Typed /\ probe' = probe /\ server'[d] = "down"
    BY DEF ActuatorInv, GoDown, Typed
  <1>2. \A e \in Targets :
           /\ e # d => check'[p][e] = check[p][e]
           /\ check'[p][d] = IF check[p][d] = "querying" THEN "broken"
                             ELSE IF check[p][d] # "given up" THEN check[p][d]
                             ELSE IF UnderWay(p) THEN "down" ELSE "todo"
    BY GoDownStep
  <1>3. ASSUME NEW e \in Targets PROVE Justified(p, e)
    BY <1>1, <1>2 DEF Justified, Up, Away
  <1>4. ResultsTrue(p)'
    BY <1>1, <1>3, ResultsStep DEF UnderWay
  <1>5. ASSUME NEW e \in Targets
        PROVE  check'[p][e] = "ready" <=> check[p][e] = "ready"
    BY <1>2
  <1>6. DetailsTrue(p)'
    BY <1>1, <1>5, Zenon DEF DetailsTrue, Agree
  <1> QED
    BY <1>4, <1>6

LEMMA AnswerHonest ==
  ASSUME ActuatorInv, NEW p \in Probes, Answer(p)
  PROVE  ResultsTrue(p)' /\ DetailsTrue(p)'
  <1>1. probe'[p] = Unasked
    BY DEF Answer, ActuatorInv, Typed
  <1> QED
    BY <1>1, UnaskedProbe DEF ResultsTrue, DetailsTrue, Agree, UnderWay

LEMMA HonestInvStep ==
  ASSUME DistinctNames, HonestInv, [Next]_vars
  PROVE  HonestInv'
  <1>0. /\ ActuatorInv /\ ActuatorInv'
        /\ \A p \in Probes : ResultsTrue(p) /\ DetailsTrue(p)
    BY ActuatorInvStep DEF HonestInv
  <1> DEFINE Honest(p) == ResultsTrue(p)' /\ DetailsTrue(p)'
  <1>1. CASE UNCHANGED vars
    BY <1>0, <1>1, Zenon
    DEF vars, HonestInv, ResultsTrue, DetailsTrue, UnderWay
  <1>2. CASE Step /\ Watch
    <2>1. ASSUME NEW p \in Probes, Alone(p), Honest(p)
          PROVE  \A q \in Probes : Honest(q)
      BY <1>0, <1>2, <2>1, StillHonest DEF Alone
    <2>2. ASSUME NEW p \in Probes, Ask(p, "health") \/ Ask(p, "readiness")
          PROVE  \A q \in Probes : Honest(q)
      BY <1>0, <2>1, <2>2, AskStep, AskHonest
    <2>3. ASSUME NEW p \in Probes, Answer(p)
          PROVE  \A q \in Probes : Honest(q)
      BY <1>0, <2>1, <2>3, AnswerStep, AnswerHonest
    <2>4. ASSUME NEW p \in Probes, NEW d \in Targets, NEW result \in Settled,
                 check[p][d] \in {"initializing", "querying", "broken"},
                 Conclude(p, d, result), UNCHANGED <<server, sessions>>,
                 EndJustified(p, d, result)
          PROVE  \A q \in Probes : Honest(q)
      BY <1>0, <1>2, <2>1, <2>4, EndStep, EndHonest
    <2>5. ASSUME NEW p \in Probes, NEW d \in Targets,
                 InitializeFail(p, d) \/ QueryOk(p, d) \/ QueryFail(p, d)
          PROVE  \A q \in Probes : Honest(q)
      <3>1. CASE InitializeFail(p, d)
        BY <2>4, <3>1 DEF InitializeFail, EndJustified, Settled, Up
      <3>2. CASE QueryOk(p, d)
        BY <2>4, <3>2 DEF QueryOk, EndJustified, Settled, Up, Away
      <3>3. CASE QueryFail(p, d)
        BY <2>4, <3>3 DEF QueryFail, EndJustified, Settled, Away
      <3> QED
        BY <2>5, <3>1, <3>2, <3>3
    <2>6. ASSUME NEW p \in Probes, NEW d \in Targets, InitializeOk(p, d)
          PROVE  \A q \in Probes : Honest(q)
      <3>1. Alone(p) /\ Moved(p, d, "querying") /\ Justified(p, d)
        BY <1>0, <2>6, InitializeOkStep, InitializeOkJustified
      <3>2. probe' = probe /\ (probe[p].endpoint = "readiness" => d = probe[p].at)
        BY <1>0, <2>6, CheckUnderWay DEF InitializeOk
      <3>3. Honest(p)
        BY <1>0, <1>2, <3>1, <3>2, MovedHonest
      <3> QED
        BY <2>1, <3>1, <3>3
    <2>7. ASSUME NEW p \in Probes, NEW d \in Targets,
                 PingTimeout(p, d) \/ PingEnds(p, d)
          PROVE  \A q \in Probes : Honest(q)
      BY <1>0, <1>2, <2>1, <2>7, PingStep, PingHonest
    <2>8. ASSUME NEW d \in Targets, GoDown(d)
          PROVE  \A q \in Probes : Honest(q)
      BY <1>0, <1>2, <2>8, GoDownHonest
    <2>9. ASSUME NEW d \in Targets, IdleTimeout(d) \/ ComeUp(d)
          PROVE  \A q \in Probes : Honest(q)
      BY <1>0, <1>2, <2>9, StillHonest DEF IdleTimeout, ComeUp
    <2>10. \A q \in Probes : Honest(q)
      BY <1>2, <2>2, <2>3, <2>5, <2>6, <2>7, <2>8, <2>9 DEF Step, Proceed
    <2> QED
      BY <1>0, <2>10 DEF HonestInv
  <1> QED
    BY <1>1, <1>2 DEF Next

\* What is reported when a request is answered.
LEMMA HealthIsHonest ==
  ASSUME HonestInv, NEW p \in Probes, Answer(p), probe[p].endpoint = "health"
  PROVE  IF Status(p) = 200 THEN wasUp[p] = Targets ELSE wasAway[p] # {}
  <1>1. Status(p) = HealthCheck(p)
    BY Zenon DEF Status
  <1>2. ASSUME NEW d \in Targets PROVE check[p][d] \in Settled \cup {"given up"}
    BY AnsweredIsSettled DEF HonestInv
  <1> DEFINE found(result) == \E d \in Targets : check[p][d] = result
  <1>7. HealthCheck(p) = IF found("thrown") THEN 500
                         ELSE IF found("down") \/ found("given up") THEN 503
                         ELSE 200
    <2>1. /\ HealthCheck(p) = IF found("initializing") \/ found("querying") \/ found("broken")
                               THEN 0
                               ELSE IF found("thrown") THEN CustomExceptionFilter("Error")
                               ELSE IF found("down") \/ found("given up")
                               THEN CustomExceptionFilter("ServiceUnavailableException")
                               ELSE 200
      BY Zenon DEF HealthCheck
    <2>2. ~found("initializing") /\ ~found("querying") /\ ~found("broken")
      BY <1>2 DEF Settled
    <2>3. /\ CustomExceptionFilter("Error") = 500
          /\ CustomExceptionFilter("ServiceUnavailableException") = 503
      BY DEF CustomExceptionFilter
    <2> HIDE DEF found
    <2> QED
      BY <2>1, <2>2, <2>3
  <1>3. ASSUME NEW d \in Targets
        PROVE  /\ check[p][d] = "ready" => d \in wasUp[p]
               /\ check[p][d] \in {"thrown", "down", "given up"} => d \in wasAway[p]
    BY DEF HonestInv, ResultsTrue, Answer, Up, Away
  <1>4. wasUp[p] \subseteq Targets
    BY DEF HonestInv, ActuatorInv, Typed
  <1>5. CASE \E d \in Targets : check[p][d] \in {"thrown", "down", "given up"}
    <2> DEFINE status == Status(p)
    <2>1. found("thrown") \/ found("down") \/ found("given up")
      BY <1>5
    <2>2. status = 500 \/ status = 503
      BY <1>1, <1>7, <2>1, Zenon
    <2>3. wasAway[p] # {}
      BY <1>3, <1>5
    <2> HIDE DEF status
    <2>4. status # 200
      BY <2>2
    <2> QED
      BY <2>3, <2>4, Zenon DEF status
  <1>6. CASE \A d \in Targets : check[p][d] \notin {"thrown", "down", "given up"}
    <2>1. \A d \in Targets : check[p][d] = "ready"
      BY <1>2, <1>6 DEF Settled
    <2>2. ~found("thrown") /\ ~found("down") /\ ~found("given up")
      BY <2>1
    <2>3. Status(p) = 200
      BY <1>1, <1>7, <2>2, Zenon
    <2>4. wasUp[p] = Targets
      BY <1>3, <1>4, <2>1
    <2> QED
      BY <2>3, <2>4, Zenon
  <1> QED
    BY <1>5, <1>6

LEMMA ReadinessIsHonest ==
  ASSUME HonestInv, NEW p \in Probes, Answer(p), probe[p].endpoint = "readiness"
  PROVE  /\ \A d \in Targets :
               d \in IF probe[p].details[getDBName(d)] = "ready"
                    THEN wasUp[p] ELSE wasAway[p]
         /\ probe[p].allReady <=>
               \A n \in Names : probe[p].details[n] = "ready"
  <1>1. ActuatorInv /\ UnderWay(p) /\ ResultsTrue(p) /\ DetailsTrue(p)
    BY DEF HonestInv, Answer
  <1>2. ASSUME NEW d \in Targets
        PROVE  d < probe[p].at /\ ~(d >= probe[p].at) /\ check[p][d] \in Settled
    <2>1. d < probe[p].at /\ check[p][d] \in Settled
      BY <1>1, AnsweredIsSettled, Zenon
    <2>2. d \in Nat
      BY TargetsAreNumbers
    <2>4. probe[p].at \in Nat
      BY <1>1 DEF ActuatorInv, Typed, ProbeStates
    <2>3. d < probe[p].at => ~(d >= probe[p].at)
      BY <2>2, <2>4
    <2> QED
      BY <2>1, <2>3, Zenon
  <1>3. ASSUME NEW d \in Targets
        PROVE  probe[p].details[getDBName(d)] =
                  IF check[p][d] = "ready" THEN "ready" ELSE "not connected"
    BY <1>1, <1>2, Zenon DEF DetailsTrue, Agree
  <1>4. probe[p].allReady <=> \A d \in Targets : check[p][d] = "ready"
    BY <1>1, <1>2, Zenon DEF DetailsTrue, Agree
  <1>5. ASSUME NEW d \in Targets
        PROVE  d \in IF probe[p].details[getDBName(d)] = "ready"
                     THEN wasUp[p] ELSE wasAway[p]
    BY <1>1, <1>2, <1>3 DEF ResultsTrue, Up, Away, Settled
  <1>6. (\A n \in Names : probe[p].details[n] = "ready")
        <=> \A d \in Targets : check[p][d] = "ready"
    <2>1. \A d \in Targets :
             probe[p].details[getDBName(d)] = "ready" <=> check[p][d] = "ready"
      BY <1>3
    <2> QED
      BY <2>1, Zenon DEF Names
  <1> QED
    BY <1>4, <1>5, <1>6, Zenon

\* No other step ends a request.
LEMMA OnlyAnswerAnswers ==
  ASSUME ActuatorInv, [Next]_vars, NEW p \in Probes, Answers(p)
  PROVE  Answer(p)
  <1>1. UnderWay(p) /\ ~UnderWay(p)' /\ Typed
    BY DEF Answers, ActuatorInv
  <1>2. probe'[p].endpoint # probe[p].endpoint
    BY <1>1 DEF UnderWay
  <1>3. Step
    BY <1>2 DEF Next, vars
  <1>4. ASSUME NEW q \in Probes, Ask(q, "health") \/ Ask(q, "readiness")
        PROVE  FALSE
    <2>1. q # p /\ Alone(q)
      BY <1>1, <1>4, AskStep DEF Ask
    <2> QED
      BY <1>2, <2>1 DEF Alone
  <1>5. ASSUME NEW q \in Probes, Answer(q) PROVE q = p
    BY <1>2, <1>5, AnswerStep DEF Alone
  <1>6. ASSUME NEW q \in Probes, NEW d \in Targets, NEW result \in Settled,
               Conclude(q, d, result)
        PROVE  FALSE
    <2>1. CASE probe[q].endpoint = "readiness"
      <3>1. /\ probe'[q].endpoint = probe[q].endpoint
            /\ \A r \in Probes \ {q} : probe'[r] = probe[r]
        BY <1>1, <1>6, <2>1, ConcludeReadiness, Zenon DEF Reported
      <3> QED
        BY <1>2, <3>1
    <2>2. CASE probe[q].endpoint # "readiness"
      BY <1>1, <1>2, <1>6, <2>2, ConcludeHealth
    <2> QED
      BY <2>1, <2>2
  <1>7. ASSUME NEW q \in Probes, NEW d \in Targets,
               Proceed(q, d) \/ PingTimeout(q, d)
        PROVE  FALSE
    <2>1. CASE InitializeFail(q, d) \/ QueryOk(q, d) \/ QueryFail(q, d)
      BY <1>6, <2>1 DEF InitializeFail, QueryOk, QueryFail, Settled
    <2>2. CASE InitializeOk(q, d) \/ PingEnds(q, d) \/ PingTimeout(q, d)
      BY <1>2, <2>2 DEF InitializeOk, PingEnds, PingTimeout
    <2> QED
      BY <1>7, <2>1, <2>2 DEF Proceed
  <1>8. ASSUME NEW d \in Targets, IdleTimeout(d) \/ GoDown(d) \/ ComeUp(d)
        PROVE  FALSE
    BY <1>2, <1>8 DEF IdleTimeout, GoDown, ComeUp
  <1> QED
    BY <1>3, <1>4, <1>5, <1>7, <1>8 DEF Step

Honest(p) ==
    IF probe[p].endpoint = "health"
    THEN IF Status(p) = 200 THEN wasUp[p] = Targets ELSE wasAway[p] # {}
    ELSE /\ \A d \in Targets :
               d \in IF probe[p].details[getDBName(d)] = "ready"
                    THEN wasUp[p] ELSE wasAway[p]
         /\ probe[p].allReady <=>
               \A n \in Names : probe[p].details[n] = "ready"

LEMMA AnswerIsHonest ==
  ASSUME HonestInv, [Next]_vars, NEW p \in Probes, Answers(p)
  PROVE  Honest(p)
  <1>1. Answer(p)
    BY OnlyAnswerAnswers DEF HonestInv
  <1>2. probe[p].endpoint \in {"health", "readiness"}
    BY DEF Answers, UnderWay, HonestInv, ActuatorInv, Typed, ProbeStates
  <1>3. CASE probe[p].endpoint = "health"
    BY <1>1, <1>3, HealthIsHonest, Zenon DEF Honest
  <1>4. CASE probe[p].endpoint = "readiness"
    <2>1. probe[p].endpoint # "health"
      BY <1>4
    <2> QED
      BY <1>1, <1>4, <2>1, ReadinessIsHonest, Zenon DEF Honest
  <1> QED
    BY <1>2, <1>3, <1>4

\* Every answer is true of the servers as they were at some time of its request,
\* whatever they and the other requests do meanwhile, and readiness is the sum of
\* its details, as long as no two databases have the same name for getDBName.
THEOREM AnswersAreTrue == ASSUME DistinctNames PROVE Spec => AnswersAreHonest
  <1>1. HonestInv /\ [Next]_vars => HonestInv'
    BY HonestInvStep
  <1>2. HonestInv /\ [Next]_vars =>
           [\A p \in Probes : Answers(p) => Honest(p)]_vars
    BY AnswerIsHonest
  <1>3. Spec => [][\A p \in Probes : Answers(p) => Honest(p)]_vars
    BY HonestInvInit, <1>1, <1>2, PTL DEF Spec
  <1> QED
    BY <1>3 DEF AnswersAreHonest, Honest

=============================================================================

-------------------------- MODULE CircuitBreaker --------------------------
(***************************************************************************)
(* The HTTP client that createCircuitBreakerClient puts around a           *)
(* downstream service, as SampleClientModule builds it for SampleClient.   *)
(*                                                                         *)
(* get and post hand protectedRequest to one opossum circuit: fire counts  *)
(* the call, rejects it at once when the circuit does not admit it, or     *)
(* runs it against a time limit.  A call that is given up goes on without  *)
(* its caller, and ends later or never.  Failures, in a rolling window of  *)
(* buckets, open the circuit; after resetTimeout it is half open and       *)
(* admits one call.                                                        *)
(*                                                                         *)
(* The unit of time is the span of a bucket of the window.  Timers fire    *)
(* when they are due, in any order with what else happens in that unit.    *)
(***************************************************************************)
EXTENDS Integers, FiniteSets, Functions

CONSTANTS Callers,     \* handlers that use the client, a call at a time each
          Configured,  \* clients.sample.circuitBreaker of application.yml
          Defaults,    \* the @DefaultValue of each option
          MaxFires,    \* bound: calls in a unit of time
          Nobody

\* What binding the configuration gives.
Options ==
    [o \in DOMAIN Defaults |->
        IF o \in DOMAIN Configured THEN Configured[o] ELSE Defaults[o]]

Buckets == 1 .. Options.rollingCountBuckets

\* True of the defaults (10 s + 10 s <= 30 s) and of application.yml (5 s).
ASSUME OptionsAssumption ==
    /\ Options.timeout \in Nat \ {0}
    /\ Options.resetTimeout \in Nat
    /\ Options.rollingCountBuckets \in Nat \ {0}
    /\ Options.timeout + Options.rollingCountBuckets <= Options.resetTimeout

ASSUME NobodyAssumption == Nobody \notin Callers

VARIABLES
    circuit,       \* opossum's state
    pendingClose,  \* whether a half-open circuit still has a call to give
    resetTimer,    \* time until an open circuit is half open
    buckets,       \* the statistics, the latest bucket first
    call,          \* each caller's call: its outcome, its age, its fate
    abandoned,     \* callers with a request that was given up and goes on
    healthy,       \* whether the service answers what it is sent
    tried          \* history: who has sent a call since the circuit half opened

gateVars == <<circuit, pendingClose, resetTimer, tried>>
vars == <<gateVars, buckets, call, abandoned, healthy>>

\* What will become of a request, decided when it is sent: an answer or an
\* error (a status of 4xx or 5xx, no connection) in time, or neither.
Fates == {"answer", "error", "silence"}

Idle == [status |-> "idle", age |-> 0, fate |-> "silence"]
Zero == [fires |-> 0, failures |-> 0]

Init ==
    /\ circuit = "closed"
    /\ pendingClose = FALSE
    /\ resetTimer = 0
    /\ buckets = [i \in Buckets |-> Zero]
    /\ call = [c \in Callers |-> Idle]
    /\ abandoned = {}
    /\ healthy = TRUE
    /\ tried = {}

-----------------------------------------------------------------------------
Waiting == {c \in Callers : call[c].status = "waiting"}

Total(stats, count) ==
    FoldFunction(LAMBDA b, sum : b[count] + sum, 0, stats)

\* Whether fail() opens the circuit, the failure counted already.
Trips(stats) ==
    \/ circuit = "halfOpen"
    \/ /\ Total(stats, "fires") >= Options.volumeThreshold
       /\ Total(stats, "failures") * 100
            > Options.errorThresholdPercentage * Total(stats, "fires")

Admits == circuit = "closed" \/ pendingClose

\* A wrong version: the circuit waits for the time limit of a call only.
OpenBriefly ==
    /\ circuit' = "open"
    /\ pendingClose' = FALSE
    /\ resetTimer' = Options.timeout
    /\ tried' = {}

\* open(), which does nothing to a circuit that is open already.
Open ==
    /\ circuit' = "open"
    /\ pendingClose' = FALSE
    /\ resetTimer' = Options.resetTimeout
    /\ tried' = {}

\* close().
Close ==
    /\ circuit' = "closed"
    /\ pendingClose' = FALSE
    /\ resetTimer' = 0
    /\ tried' = {}

Settle(c, status) ==
    call' = [call EXCEPT ![c] =
               [status |-> status, age |-> 0, fate |-> "silence"]]

\* fire counts every call, also one that it rejects.
CountFire(c) ==
    /\ c \notin Waiting
    /\ buckets[1].fires < MaxFires
    /\ buckets' = [buckets EXCEPT ![1].fires = @ + 1]

\* A wrong version: a half-open circuit does not withdraw its one admission.
SendAll(c) ==
    /\ Admits
    /\ CountFire(c)
    /\ \E f \in Fates :
          /\ healthy => f = "answer"
          /\ call' = [call EXCEPT ![c] =
                        [status |-> "waiting", age |-> 0, fate |-> f]]
    /\ tried' = IF circuit = "halfOpen" THEN tried \cup {c} ELSE tried
    /\ UNCHANGED <<circuit, pendingClose, resetTimer, abandoned, healthy>>

\* An admitted call: protectedRequest sends it.
Send(c) ==
    /\ Admits
    /\ CountFire(c)
    /\ pendingClose' = FALSE
    /\ \E f \in Fates :
          /\ healthy => f = "answer"
          /\ call' = [call EXCEPT ![c] =
                        [status |-> "waiting", age |-> 0, fate |-> f]]
    /\ tried' = IF circuit = "halfOpen" THEN tried \cup {c} ELSE tried
    /\ UNCHANGED <<circuit, resetTimer, abandoned, healthy>>

\* "Breaker is open": the error is rethrown, and no request is made.
Reject(c) ==
    /\ ~Admits
    /\ CountFire(c)
    /\ Settle(c, "rejected")
    /\ UNCHANGED <<gateVars, abandoned, healthy>>

Fire(c) == Send(c) \/ Reject(c)

\* The response arrives in time; on success a half-open circuit closes.
Succeed(c) ==
    /\ c \in Waiting
    /\ call[c].fate = "answer"
    /\ Settle(c, "ok")
    /\ IF circuit = "halfOpen"
       THEN Close
       ELSE UNCHANGED gateVars
    /\ UNCHANGED <<buckets, abandoned, healthy>>

\* A wrong version: a failure counts for nothing unless the circuit is closed.
OnFailureWhenClosed ==
    /\ buckets' = [buckets EXCEPT ![1].failures = @ + 1]
    /\ IF circuit = "closed" /\ Trips(buckets')
       THEN Open
       ELSE UNCHANGED gateVars

\* fail(): the failure is counted, and the circuit opens if that is too much.
OnFailure ==
    /\ buckets' = [buckets EXCEPT ![1].failures = @ + 1]
    /\ IF circuit # "open" /\ Trips(buckets')
       THEN Open
       ELSE UNCHANGED gateVars

Expired(c) == call[c].age = Options.timeout

\* The request rejects, at the latest when axios' own time-out ends it, which
\* the module sets to the same value: then either of the two may be first.
Fail(c) ==
    /\ c \in Waiting
    /\ call[c].fate = "error" \/ Expired(c)
    /\ Settle(c, "failed")
    /\ OnFailure
    /\ UNCHANGED <<abandoned, healthy>>

\* A wrong version: the time limit starts again, as if the call were repeated.
GiveUpRepeating(c) ==
    /\ c \in Waiting
    /\ Expired(c)
    /\ call' = [call EXCEPT ![c].age = 0]
    /\ OnFailure
    /\ abandoned' = abandoned \cup {c}
    /\ UNCHANGED healthy

\* The time limit of the circuit passes: the caller is told so, and what
\* protectedRequest returns in the end will be ignored.
GiveUp(c) ==
    /\ c \in Waiting
    /\ Expired(c)
    /\ Settle(c, "failed")
    /\ OnFailure
    /\ abandoned' = abandoned \cup {c}
    /\ UNCHANGED healthy

\* A wrong version: whatever succeeds closes a half-open circuit.
EndLateClosing(c) ==
    /\ c \in abandoned
    /\ abandoned' = abandoned \ {c}
    /\ IF circuit = "halfOpen"
       THEN Close
       ELSE UNCHANGED gateVars
    /\ UNCHANGED <<buckets, call, healthy>>

\* A request that was given up is answered or fails: nobody looks at it.
EndLate(c) ==
    /\ c \in abandoned
    /\ abandoned' = abandoned \ {c}
    /\ UNCHANGED <<gateVars, buckets, call, healthy>>

\* A wrong version: half open, and nobody is admitted.
HalfOpenShut ==
    /\ circuit = "open"
    /\ resetTimer = 0
    /\ circuit' = "halfOpen"
    /\ UNCHANGED <<pendingClose, resetTimer, tried, buckets, call, abandoned,
                   healthy>>

\* The reset timer: from now on one call is admitted.
HalfOpen ==
    /\ circuit = "open"
    /\ resetTimer = 0
    /\ circuit' = "halfOpen"
    /\ pendingClose' = TRUE
    /\ UNCHANGED <<resetTimer, tried, buckets, call, abandoned, healthy>>

\* The calls whose time in this unit is not over yet.
InTime(c) ==
    IF call[c].fate = "silence" THEN call[c].age < Options.timeout
                                ELSE call[c].age + 1 < Options.timeout

Older(stats) == [i \in Buckets |-> IF i = 1 THEN Zero ELSE stats[i - 1]]

\* A wrong version: time passes although a time limit is due.
TickAnyway ==
    /\ circuit = "open" => resetTimer > 0
    /\ resetTimer' = IF resetTimer > 0 THEN resetTimer - 1 ELSE 0
    /\ buckets' = Older(buckets)
    /\ call' = [c \in Callers |->
                  IF c \in Waiting THEN [call[c] EXCEPT !.age = @ + 1]
                                   ELSE call[c]]
    /\ UNCHANGED <<circuit, pendingClose, tried, abandoned, healthy>>

\* A unit of time passes, when no timer is due: the window moves on.
Tick ==
    /\ circuit = "open" => resetTimer > 0
    /\ \A c \in Waiting : InTime(c)
    /\ resetTimer' = IF resetTimer > 0 THEN resetTimer - 1 ELSE 0
    /\ buckets' = Older(buckets)
    /\ call' = [c \in Callers |->
                  IF c \in Waiting THEN [call[c] EXCEPT !.age = @ + 1]
                                   ELSE call[c]]
    /\ UNCHANGED <<circuit, pendingClose, tried, abandoned, healthy>>

\* The service fails, or recovers.
Turn ==
    /\ healthy' = ~healthy
    /\ UNCHANGED <<gateVars, buckets, call, abandoned>>

End(c) == Succeed(c) \/ Fail(c) \/ GiveUp(c)

Next ==
    \/ \E c \in Callers : Fire(c) \/ End(c) \/ EndLate(c)
    \/ HalfOpen
    \/ Tick
    \/ Turn

Spec == Init /\ [][Next]_vars

\* Timers fire, and what has an answer or a time limit comes to it.
FairSpec ==
    /\ Spec
    /\ WF_vars(Tick)
    /\ WF_vars(HalfOpen)
    /\ \A c \in Callers : WF_vars(End(c))

-----------------------------------------------------------------------------
\* Every variable has its type; in particular no call outlives its time limit
\* and no timer is missed (fire, opossum's timers).
CircuitTypeOK ==
    /\ circuit \in {"closed", "open", "halfOpen"}
    /\ pendingClose \in BOOLEAN
    /\ resetTimer \in 0 .. Options.resetTimeout
    /\ buckets \in [Buckets -> [fires : Nat, failures : Nat]]
    /\ call \in [Callers ->
          [status : {"idle", "waiting", "ok", "failed", "rejected"},
           age : 0 .. Options.timeout, fate : Fates]]
    /\ abandoned \subseteq Callers
    /\ healthy \in BOOLEAN
    /\ tried \subseteq Callers

\* A half-open circuit either still has its one call to give and none is
\* under way, or exactly one is, whose end will settle it: no older call is
\* left that could decide in its place, and it never waits for nothing while
\* it rejects everybody (fire; sampleClientModule's timeout, resetTimeout).
ProbeAccounted ==
    circuit = "halfOpen" =>
        IF pendingClose THEN Waiting = {} ELSE \E c \in Callers : Waiting = {c}

\* When a circuit closes again, the failures that opened it, and those of
\* calls that were under way then, have left the window: the failure rate
\* after a recovery is that of the recovered service (sampleClientModule's
\* resetTimeout, timeout, rolling window).
FreshStart ==
    circuit = "halfOpen" => \A i \in Buckets : buckets[i].failures = 0

\* What closes a half-open circuit is the success, and what opens it the
\* failure, of a call that was sent since it half opened: no call from before,
\* however late it ends, and no request that was given up decides, although
\* opossum does not tell the end of one call from that of another (get, post;
\* sampleClientModule's timeout, resetTimeout).
ProbeDecides ==
    [][circuit = "halfOpen" /\ circuit' # "halfOpen" =>
          \E c \in Waiting \cap tried :
              call'[c].status = IF circuit' = "closed" THEN "ok" ELSE "failed"]_vars

AnyOf(S) == CHOOSE c \in S : TRUE

\* The call that is under way in a half-open circuit.
Probe == IF circuit = "halfOpen" /\ Waiting # {} THEN AnyOf(Waiting) ELSE Nobody

Circuit == INSTANCE ProbingCircuit WITH mode <- circuit, probe <- Probe

\* The circuit is the ProbingCircuit of its callers, fairness included.
ImplementsCircuit == Circuit!CircuitSpec

\* Nobody who uses the client waits for ever, whatever the service does (get,
\* post: the time limit).
EveryRequestEnds == \A c \in Callers : []<>(c \notin Waiting)

\* Once the service answers everything and as long as it is called again and
\* again, the circuit is closed for good in the end: it is not stuck half
\* open or open, and what it counted before does not open it again (fire).
Recovers ==
    <>[]healthy /\ []<><<\E c \in Callers : Fire(c)>>_vars
        => <>[](circuit = "closed")
=============================================================================

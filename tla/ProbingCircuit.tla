-------------------------- MODULE ProbingCircuit --------------------------
(***************************************************************************)
(* What the circuit breaker promises, without time, statistics and calls   *)
(* that overlap: a circuit that has opened lets one caller at a time try   *)
(* the service, and that caller's luck alone decides what happens next.    *)
(***************************************************************************)
CONSTANTS Callers, Nobody

VARIABLES
    mode,   \* "closed", "open" or "halfOpen"
    probe   \* whose request is trying the service of a half-open circuit

circuitVars == <<mode, probe>>

CircuitInit == mode = "closed" /\ probe = Nobody

Trip ==
    /\ mode = "closed"
    /\ mode' = "open"
    /\ UNCHANGED probe

Cool ==
    /\ mode = "open"
    /\ mode' = "halfOpen"
    /\ UNCHANGED probe

Try(c) ==
    /\ mode = "halfOpen"
    /\ probe = Nobody
    /\ probe' = c
    /\ UNCHANGED mode

Judge ==
    /\ probe # Nobody
    /\ mode' \in {"closed", "open"}
    /\ probe' = Nobody

CircuitNext == Trip \/ Cool \/ Judge \/ \E c \in Callers : Try(c)

\* An open circuit is tried again, and no trial goes on for ever.
CircuitSpec ==
    /\ CircuitInit
    /\ [][CircuitNext]_circuitVars
    /\ WF_circuitVars(Cool)
    /\ WF_circuitVars(Judge)
=============================================================================

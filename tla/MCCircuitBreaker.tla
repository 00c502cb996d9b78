------------------------- MODULE MCCircuitBreaker -------------------------
(***************************************************************************)
(* A small instance of CircuitBreaker.  The unit of time is the span of a  *)
(* bucket; as in application.yml a call may take half the rolling window,  *)
(* and the sum of timeout and window is no more than resetTimeout.         *)
(***************************************************************************)
EXTENDS CircuitBreaker, TLC

CONSTANTS c1, c2, c3

MCCallers == {c1, c2, c3}

\* The configuration sets some of the options, as application.yml does.
MCConfigured ==
    [timeout |-> 2, errorThresholdPercentage |-> 50, resetTimeout |-> 4]
MCDefaults ==
    [timeout |-> 3, errorThresholdPercentage |-> 10, resetTimeout |-> 6,
     rollingCountBuckets |-> 2, volumeThreshold |-> 2]
=============================================================================

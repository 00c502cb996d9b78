----------------------------- MODULE MCActuator -----------------------------
(***************************************************************************)
(* A small instance of Actuator: two requests, two tenants of one business *)
(* unit, whose servers grant one and two sessions.                         *)
(***************************************************************************)
EXTENDS Actuator

CONSTANTS p1, p2

MCProbes == {p1, p2}
MCPool == [idleTimeoutMillis |-> 10000]
MCConnections ==
    <<[database |-> "serhafen_common", schema |-> "us", pool |-> NoPool],
      [database |-> "serhafen_common", schema |-> "de", pool |-> MCPool]>>
MCLimit == <<1, 2>>
=============================================================================

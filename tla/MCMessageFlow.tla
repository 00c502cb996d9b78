--------------------------- MODULE MCMessageFlow ---------------------------
(***************************************************************************)
(* A small instance of MessageFlow: two requests, whose headers name one   *)
(* of two tenants or none, one handler, a message without a tenant from    *)
(* elsewhere, and pools of one connection for which all compete.           *)
(***************************************************************************)
EXTENDS MessageFlow

CONSTANTS r1, r2, h1, f1, d1, d2, d3, s1

MCBusinessUnits == {"serhafen"}
MCCountryCodes == {"us", "DE"}
MCLower == [n \in MCBusinessUnits \cup MCCountryCodes |->
              IF n = "DE" THEN "de" ELSE n]
MCConnections == [k \in {"serhafen-us", "serhafen-de"} |-> [pool |-> NoPool]]

MCRequests == {r1, r2}
MCHandlers == {h1}
MCCallers == Requests \cup Handlers
MCForeign == {f1}
MCDataSources == {d1, d2, d3}
MCSlots == {s1}

\* The names with "x-", and the others, which do not count beside them; an
\* empty value, which hides the other name.
US == [xbu |-> "serhafen", bu |-> Absent, xcc |-> "us", cc |-> "DE"]
DE == [xbu |-> Absent, bu |-> "serhafen", xcc |-> Absent, cc |-> "DE"]
None == [xbu |-> "serhafen", bu |-> Absent, xcc |-> Blank, cc |-> "us"]

MCRequestHeaders == {US, DE, None}
MCForeignAttributes == [m \in MCForeign |-> None]
=============================================================================

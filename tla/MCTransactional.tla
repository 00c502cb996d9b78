-------------------------- MODULE MCTransactional --------------------------
(***************************************************************************)
(* Small instances of Transactional: two requests, of one tenant or of two *)
(* whose country codes are spelled differently, and one request without a  *)
(* tenant context.                                                         *)
(***************************************************************************)
EXTENDS Transactional, TLC

CONSTANTS r1, r2, r3, d1, d2, s1, s2, s3

MCBusinessUnits == {"serhafen"}
MCCountryCodes == {"us", "US", "de"}
MCLower == [n \in MCBusinessUnits \cup MCCountryCodes |->
              IF n = "US" THEN "us" ELSE n]
MCConnections == [k \in {"serhafen-us", "serhafen-de"} |-> [pool |-> NoPool]]

One == {r1}
Two == {r1, r2}
Three == {r1, r2, r3}
OneSource == {d1}
TwoSources == {d1, d2}

ThreeSlots == {s1, s2, s3}
TwoSlots == {s1, s2}
OneSlot == {s1}

\* The slots of a pool are interchangeable.
SlotSymmetry == Permutations(Slots)

TwoAndOne == [r \in Callers |-> IF r = r1 THEN 2 ELSE 1]
TwoEach == [r \in Callers |-> 2]
FourEach == [r \in Callers |-> 4]

US == <<"serhafen", "us">>
TwoTenants == [r \in Callers |-> IF r = r1 THEN US ELSE <<"serhafen", "de">>]
\* r1 and r2 are of one tenant, r3 comes without tenant headers.
SameTenant == [r \in Callers |-> IF r = r1 THEN US
                                 ELSE IF r = r2 THEN <<"serhafen", "US">>
                                 ELSE NoTenant]
=============================================================================

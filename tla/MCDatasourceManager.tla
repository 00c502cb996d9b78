------------------------ MODULE MCDatasourceManager ------------------------
(***************************************************************************)
(* A small instance of DatasourceManager: three callers, three tenants,    *)
(* one of them spelled in two ways and one without a configuration, and as *)
(* many DataSource objects as the callers can hold open for all of them.   *)
(***************************************************************************)
EXTENDS DatasourceManager

CONSTANTS c1, c2, c3, d1, d2, d3, d4, d5, d6

MCCallers == {c1, c2, c3}
MCBusinessUnits == {"serhafen"}
MCCountryCodes == {"us", "US", "de", "fr"}
MCLower == [n \in MCBusinessUnits \cup MCCountryCodes |->
              IF n = "US" THEN "us" ELSE n]
\* "fr" has no entry, "de" no pool of its own.
MCConnections == [k \in {"serhafen-us", "serhafen-de"} |->
                    [pool |-> IF k = "serhafen-us" THEN 2 ELSE NoPool]]
MCDataSources == {d1, d2, d3, d4, d5, d6}
=============================================================================

--------------------------- MODULE ConnectionPool ---------------------------
(***************************************************************************)
(* The connections of the pools of DatasourceManager, as pg-pool and       *)
(* PostgreSQL give them to the program: a pool has places for connections, *)
(* connect() takes a free one and waits when there is none, and the        *)
(* session of a connection keeps its search_path when it is released.      *)
(***************************************************************************)
EXTENDS DatasourceManager

CONSTANTS Slots,   \* the places for connections in a pool
          Nobody, NoConn, NoPath

Conns == DataSources \X Slots

ASSUME PoolAssumption ==
    /\ IsFiniteSet(Slots)
    /\ \A k \in DOMAIN Connections : PoolMax(k) <= Cardinality(Slots)
    /\ NoConn \notin Conns

VARIABLES
    holder,     \* who took a connection out of its pool
    path        \* the search_path of its session

poolVars == <<holder, path>>

Paths == {Lower[cc] : cc \in CountryCodes} \cup {NoPath}

PoolInit ==
    /\ holder = [c \in Conns |-> Nobody]
    /\ path = [c \in Conns |-> NoPath]

Taken(d) == {s \in Slots : holder[<<d, s>>] # Nobody}

\* The connections that connect() may answer with.  When all are out it waits,
\* with no timeout: dataSourceOf does not pass connectionTimeoutMillis.
FreeConns(d) ==
    IF Cardinality(Taken(d)) < PoolMax(entry[d])
    THEN {<<d, s>> : s \in Slots \ Taken(d)}
    ELSE {}

\* PostgreSQL folds an unquoted country code to lower case.
SearchPathOf(t) == Lower[t[2]]
=============================================================================

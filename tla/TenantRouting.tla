--------------------------- MODULE TenantRouting ---------------------------
(***************************************************************************)
(* What DatasourceManager promises its callers, without its Map, its       *)
(* DataSource objects and the order of its awaits: a call for a tenant is  *)
(* served from that tenant's pool or refused, and once a tenant has been   *)
(* served every call made from then on is served, and at once.             *)
(***************************************************************************)
CONSTANTS Callers, Keys,
          Known,   \* the keys of the configured tenants
          NoKey

VARIABLES
    served,   \* the tenants that have been served
    request   \* each caller's call: the tenant, and whose pool answered it

routingVars == <<served, request>>

Idle == [state |-> "idle", key |-> NoKey, pool |-> NoKey]

RoutingTypeOK ==
    /\ served \subseteq Keys
    /\ request \in [Callers ->
          [state : {"idle", "waiting", "served", "refused"},
           key : Keys \cup {NoKey}, pool : Keys \cup {NoKey}]]

RoutingInit ==
    /\ served = {}
    /\ request = [c \in Callers |-> Idle]

Answer(c, s, k, p) ==
    request' = [request EXCEPT ![c] = [state |-> s, key |-> k, pool |-> p]]

\* A tenant that was never served: its pool has to be opened first ...
Ask(c, k) ==
    /\ request[c].state = "idle"
    /\ k \in Known \ served
    /\ Answer(c, "waiting", k, NoKey)
    /\ UNCHANGED served

\* ... which succeeds ...
Serve(c) ==
    /\ request[c].state = "waiting"
    /\ Answer(c, "served", request[c].key, request[c].key)
    /\ served' = served \cup {request[c].key}

\* ... or fails, and nothing is remembered of that.
Refuse(c) ==
    /\ request[c].state = "waiting"
    /\ Answer(c, "refused", request[c].key, NoKey)
    /\ UNCHANGED served

ServeAtOnce(c, k) ==
    /\ request[c].state = "idle"
    /\ k \in served
    /\ Answer(c, "served", k, k)
    /\ UNCHANGED served

RefuseAtOnce(c, k) ==
    /\ request[c].state = "idle"
    /\ k \notin Known \cup served
    /\ Answer(c, "refused", k, NoKey)
    /\ UNCHANGED served

Done(c) ==
    /\ request[c].state \in {"served", "refused"}
    /\ request' = [request EXCEPT ![c] = Idle]
    /\ UNCHANGED served

RoutingNext ==
    \E c \in Callers :
        \/ \E k \in Keys : Ask(c, k) \/ ServeAtOnce(c, k) \/ RefuseAtOnce(c, k)
        \/ Serve(c) \/ Refuse(c) \/ Done(c)

RoutingFairness == \A c \in Callers : WF_routingVars(Serve(c) \/ Refuse(c))

RoutingSpec == RoutingInit /\ [][RoutingNext]_routingVars /\ RoutingFairness
=============================================================================

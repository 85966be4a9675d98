------------------------------- MODULE Gateway -------------------------------
(***************************************************************************)
(* detect_default_gateway() of net/gateway.py: the gateway of the watched  *)
(* interface, from scapy's route table in its order.  If the table cannot  *)
(* be read again it is an older one; if the interface is unknown, no route *)
(* is on it.                                                               *)
(***************************************************************************)
EXTENDS Naturals, Sequences

CONSTANTS
    Addresses,  \* IPv4 addresses
    Unset       \* None, a blank gateway and 0.0.0.0

\* default: net and mask are 0.  here: on the watched interface.
Route == [ default : BOOLEAN, here : BOOLEAN,
           gateway : Addresses \cup {Unset}, metric : Nat ]

Usable(route) == route.default /\ route.here /\ route.gateway # Unset

NoRoute == [default |-> TRUE, here |-> TRUE, gateway |-> Unset, metric |-> 0]

\* Mistakes a change to this code could make, for the checks to catch.

FirstOrLowerFalsy(best, route) == best.metric = 0 \/ route.metric < best.metric

\* best_metric is None or metric < best_metric
FirstOrLower(best, route) == best = NoRoute \/ route.metric < best.metric

Better(best, route) ==
    IF Usable(route) /\ FirstOrLower(best, route) THEN route ELSE best

\* best_metric and best_gateway after the first i routes.
DetectDefaultGateway(routes) ==
    LET best[i \in 0..Len(routes)] ==
            IF i = 0 THEN NoRoute ELSE Better(best[i - 1], routes[i])
    IN  best[Len(routes)].gateway

-----------------------------------------------------------------------------
(***************************************************************************)
(* What it should find: the gateway of the first usable route of the       *)
(* lowest metric, and nothing only if no route is usable.                  *)
(***************************************************************************)
IsDefaultGateway(gateway, routes) ==
    IF gateway = Unset
    THEN \A i \in DOMAIN routes : ~Usable(routes[i])
    ELSE \E i \in DOMAIN routes :
            /\ Usable(routes[i]) /\ gateway = routes[i].gateway
            /\ \A j \in DOMAIN routes : Usable(routes[j]) =>
                \/ routes[i].metric < routes[j].metric
                \/ routes[i].metric = routes[j].metric /\ i <= j
=============================================================================

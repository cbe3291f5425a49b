--------------------------- MODULE MCGatewayRouting ---------------------------
(* GatewayRouting for one service: neither the cache nor the breaker lets   *)
(* services depend on each other but by the breaker's counts.               *)
EXTENDS GatewayRouting

CONSTANTS ticket, c1, c2, r1

OneService == {ticket}
TwoCycles == {c1, c2}
OneRequest == {r1}
=============================================================================

--------------------------- MODULE HostDocumented ---------------------------
(***************************************************************************)
(* What the headers of the program say of a host agent, against HostAgent. *)
(***************************************************************************)
EXTENDS MCHostAgent

\* The gateways of the default routes of a table, in all its datagrams.
DefaultGateways(d) ==
    UNION {{Routes[d][n][i].gateway : i \in {i \in DOMAIN Routes[d][n] :
                Routes[d][n][i].main /\ Routes[d][n][i].default}} :
             n \in DOMAIN Routes[d]}

\* net/gateway.h:30 calls IP::Gateway the "Agent for default gateway", and :37 has
\* detect() "Detect default gateway": when the routing table has a default route,
\* the address detect() stores is the gateway of one.
DefaultRouteIsFound ==
    [][Detected /\ DefaultGateways(answer) # {}
         => address' \in DefaultGateways(answer)]_vars
=============================================================================

------------------------------ MODULE RouteDump ------------------------------
(***************************************************************************)
(* IP::Gateway::detect (os/linux/defaultgateway.cc): the kernel answers a  *)
(* request for its routes with datagrams of route messages, and detect()   *)
(* looks for a gateway in what it has received of them.                    *)
(***************************************************************************)
EXTENDS Sequences, Integers

CONSTANTS
    Addresses,
    Dumps,      \* contents of the kernel's tables
    Routes      \* Routes[d]: the datagrams of d, each a sequence of routes

None == "none"       \* an empty IP::Address, an empty shared_ptr

\* `main': it is in RT_TABLE_MAIN; `default': its destination is everything, which
\* detect() does not look at; `long': RTA_GATEWAY and what follows it take more
\* than an IPv4 address and one interface, as in a route of IPv6.
Route == [main: BOOLEAN, default: BOOLEAN, gateway: Addresses \cup {None},
          long: BOOLEAN]

ASSUME RoutesAssumption ==
    /\ Routes \in [Dumps -> Seq(Seq(Route))]
    /\ \A d \in Dumps : Routes[d] # <<>>

\* The flags of the request; NLM_F_MULTI is one of the answer's.
RequestFlags == {"NLM_F_DUMP", "NLM_F_REQUEST"}

\* The loop that receives tests `nlmsg', the request, where it means `nlh': it
\* ends with the first datagram, whether or not others follow.
Received(d) == IF "NLM_F_MULTI" \in RequestFlags THEN Routes[d][Len(Routes[d])]
                                                 ELSE Routes[d][1]

\* The routes of the datagram whose gateway detect() takes.
Taken(datagram) == {i \in DOMAIN datagram :
                       datagram[i].main /\ datagram[i].gateway # None}

\* "Invalid size on RTA_GATEWAY": the length of all that is left is tested.
Misread(datagram) == \E i \in Taken(datagram) : datagram[i].long

\* Each route overwrites the gateway of the one before.
LastTaken(datagram, i) ==
    i \in Taken(datagram) /\ \A j \in Taken(datagram) : j <= i

----------------------------------------------------------------------------
\* A table that detect() reads rightly: no main route has another gateway than a,
\* none is Misread, and a default route through a comes in the first datagram.
LoneGateway(d, a) ==
    /\ \A n \in DOMAIN Routes[d] : \A i \in Taken(Routes[d][n]) :
          Routes[d][n][i].gateway = a /\ ~Routes[d][n][i].long
    /\ \E i \in Taken(Routes[d][1]) : Routes[d][1][i].default
=============================================================================

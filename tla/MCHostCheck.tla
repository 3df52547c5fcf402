---------------------------- MODULE MCHostCheck ----------------------------
(***************************************************************************)
(* Constants of HostCheck for TLC: a gateway that moves between two        *)
(* addresses, one of which answers, beside another worker.  Subnets and    *)
(* levels, which HostAgent is checked for alone, are left out.             *)
(***************************************************************************)
EXTENDS HostCheck

CONSTANTS me, other

MCWorkers   == {me, other}
MCInterval  == [w \in MCWorkers |-> 1]
MCAddresses == {"lan", "wan"}
MCDumps     == {"home", "away"}

MCNodes == { [type |-> "default-gateway", hostname |-> FALSE, ip |-> "none",
              server |-> FALSE, icmp |-> TRUE] }

MCRoute(gateway) == [main |-> TRUE, default |-> gateway # "none",
                     gateway |-> gateway, long |-> FALSE]
MCRoutes == [d \in MCDumps |-> CASE d = "home" -> << <<MCRoute("lan")>> >>
                                 [] d = "away" -> << <<MCRoute("wan")>> >>
                                 [] OTHER      -> << <<MCRoute("none")>> >>]

MCReach == [a \in MCAddresses |->
               {"timeout", "network_unreachable"}
                 \cup (IF a = "lan" THEN {"echo_reply"}
                                    ELSE {"destination_unreachable"})]

MCLevel == [s \in {"default", "none", "local", "remote", "success"} \cup Response |-> 0]
\* States that differ in the history `reports' alone are one: a step reads of it only
\* whether a report that ends a check is new, and it is, as the check was listed.
MCView == <<now, busy, hosts, timer, handler, fd, jobs, wire, started,
            agentVars, sentTo>>
=============================================================================

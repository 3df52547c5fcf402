----------------------------- MODULE MCHostAgent -----------------------------
(***************************************************************************)
(* Constants of HostAgent for TLC: an address in a subnet of the machine   *)
(* and one outside, two DNS errors, a timeout.                             *)
(***************************************************************************)
EXTENDS HostAgent

MCAddresses == {"lan", "wan"}
MCLocal     == {"lan"}
MCFailures  == {"host_not_found", "try_again"}
MCUnreached == {"timeout"}
MCReach     == [a \in MCAddresses |-> IF a = "lan" THEN {"echo_reply", "timeout"}
                                                  ELSE {"timeout"}]

\* Route tables: one router, with a default route through it, at home and away; a
\* static route listed after the default one; the default route in the second
\* datagram; a route of IPv6; nothing but the network itself.
MCDumps == {"home", "away", "static", "large", "ipv6", "isolated"}

RouteVia(gateway, isDefault, isLong) ==
    [main |-> TRUE, default |-> isDefault, gateway |-> gateway, long |-> isLong]
OnLink == RouteVia(None, FALSE, FALSE)

MCRoutes == [d \in MCDumps |->
    CASE d = "home"   -> << <<RouteVia("lan", TRUE, FALSE)>>, <<OnLink>> >>
      [] d = "away"   -> << <<OnLink, RouteVia("wan", TRUE, FALSE)>> >>
      [] d = "static" -> << <<RouteVia("wan", TRUE, FALSE),
                              RouteVia("lan", FALSE, FALSE)>> >>
      [] d = "large"  -> << <<OnLink>>, <<RouteVia("lan", TRUE, FALSE)>> >>
      [] d = "ipv6"   -> << <<RouteVia("wan", TRUE, TRUE)>> >>
      [] OTHER        -> << <<OnLink>> >>]

\* ready is 1, warning 2 and error 3: the levels of README.md:23-33 and of
\* dns/linux/state.cc.
MCLevel == [s \in States |->
               CASE s \in {"local", "echo_reply", "success"} -> 1
                 [] s = "remote"                             -> 2
                 [] s \in MCFailures \cup MCUnreached        -> 3
                 [] OTHER                                    -> 0]

XmlNode(type, hostname, ip_, server, icmp_) ==
    [type |-> type, hostname |-> hostname, ip |-> ip_, server |-> server,
     icmp |-> icmp_]

\* A name, gateways with and without a check, and fixed addresses, one of them
\* forgotten; then a name with its own DNS server, a name that is not checked,
\* and a name and a gateway that also have an address.
MCNodes ==
    { XmlNode("other", TRUE, None, FALSE, TRUE),
      XmlNode("default-gateway", FALSE, None, FALSE, TRUE),
      XmlNode("default-gateway", FALSE, None, FALSE, FALSE),
      XmlNode("", FALSE, "wan", FALSE, TRUE),
      XmlNode("other", FALSE, "lan", FALSE, TRUE),
      XmlNode("host", FALSE, None, FALSE, TRUE) }
MCServerNodes == { XmlNode("other", TRUE, None, TRUE, TRUE) }
MCAllNodes    == MCNodes \cup MCServerNodes
                   \cup { XmlNode("other", TRUE, None, FALSE, FALSE),
                          XmlNode("other", TRUE, "wan", FALSE, TRUE),
                          XmlNode("default-gateway", FALSE, "lan", FALSE, TRUE) }

\* A default gateway that nobody checks.
MCGateways == { XmlNode("default-gateway", FALSE, None, FALSE, FALSE) }

=============================================================================

------------------------------ MODULE MCSubNet ------------------------------
(***************************************************************************)
(* Constants of SubNet for TLC: addresses of four bits in an unsigned long *)
(* of eight, every address, netmask and count, one and two interfaces.     *)
(***************************************************************************)
EXTENDS SubNet

MCSearched == SUBSET Positions

\* The loopback interface, and one on another network.
Fixed == {NotInet, [addr |-> {0, 3}, mask |-> Prefix(2)]}

MCLists == {<<a>> : a \in Ifaces} \cup {<<a, b>> : a \in Fixed, b \in Ifaces}
             \cup {<<a, b>> : a \in Ifaces, b \in Fixed}

\* Counts up to one beyond the width.
MCSubnets == [addr: SUBSET Positions, bits: 0..W + 1]
=============================================================================

------------------------------- MODULE SubNet -------------------------------
(***************************************************************************)
(* How a `subnet' state decides that an address is local (IP::SubNet in    *)
(* ip/subnet.cc and os/linux/subnet.cc, Internal::compare in ip/state.cc): *)
(* SubNet::for_each makes a subnet of each interface by counting the ones  *)
(* of its netmask, contains() builds a netmask again from the count.       *)
(*                                                                         *)
(* A machine word is the set of the positions of its one bits, 0 being the *)
(* least significant: & is intersection, | union, a shift moves positions  *)
(* and drops those that leave the word.  Words are in host order: htonl is *)
(* applied to both operands of every comparison, or to none.               *)
(***************************************************************************)
EXTENDS Integers, Sequences, FiniteSets

CONSTANTS
    W,          \* bits of in_addr_t (32)
    LongBits,   \* bits of unsigned long (64)
    Lists,      \* lists of interfaces
    Subnets,    \* subnets given in XML: [addr, bits]
    Searched    \* addresses asked about

Positions == 0..W - 1

ASSUME WidthAssumption == W \in Nat \ {0} /\ LongBits \in Nat /\ LongBits >= W

VARIABLES
    own,      \* the state has a subnet of its own, from XML
    list,     \* interfaces, as getifaddrs returns them
    addr,     \* the address compared
    pc,       \* "iface", "count", "mask" or "done"
    i,        \* interfaces already passed
    s_addr,   \* local of for_each: what is left of the netmask
    subnet,   \* [addr, bits]: the subnet being built or tested
    ix,       \* local of contains
    netmask,  \* local of contains
    found     \* the result

vars == <<own, list, addr, pc, i, s_addr, subnet, ix, netmask, found>>

\* The first n bits of a word, the subnet mask that a count of n stands for.
Prefix(n) == {b \in Positions : b >= W - n}

\* An interface without an IPv4 address.
NotInet == [addr |-> {}, mask |-> {-1}]

\* The kernel accepts contiguous netmasks only.
Ifaces == {NotInet} \cup [addr: SUBSET Positions, mask: {Prefix(n) : n \in 0..W}]

ASSUME SubnetAssumption ==
    /\ Searched \subseteq SUBSET Positions
    /\ Subnets \subseteq [addr: SUBSET Positions, bits: Nat]
    /\ Lists \subseteq Seq(Ifaces)

----------------------------------------------------------------------------
\* A state `local' searches the interfaces; one of an XML subnet has its own.
Init ==
    /\ own \in BOOLEAN
    /\ addr \in Searched
    /\ i = 0 /\ s_addr = {} /\ ix = 0 /\ netmask = {} /\ found = FALSE
    /\ \/ /\ ~own /\ list \in Lists
          /\ pc = "iface" /\ subnet = [addr |-> {}, bits |-> 0]
       \/ /\ own /\ subnet \in Subnets
          /\ pc = "mask" /\ list = <<>>

\* for_each: the interface is skipped, or its subnet started.
Iface ==
    /\ pc = "iface" /\ i < Len(list)
    /\ LET iface == list[i + 1]
       IN IF iface = NotInet
            THEN i' = i + 1 /\ UNCHANGED <<pc, s_addr, subnet>>
            ELSE /\ subnet' = [addr |-> iface.addr, bits |-> 0]
                 /\ s_addr' = iface.mask
                 /\ pc' = "count"
                 /\ UNCHANGED i
    /\ UNCHANGED <<own, list, addr, ix, netmask, found>>

\* Mutant: the bit is looked for after the shift.
Count_AfterShift ==
    /\ pc = "count" /\ s_addr # {}
    /\ s_addr' = {b + 1 : b \in s_addr} \cap (0..LongBits - 1)
    /\ subnet' = [subnet EXCEPT !.bits = IF W - 1 \in s_addr' THEN @ + 1 ELSE @]
    /\ UNCHANGED <<own, list, addr, pc, i, ix, netmask, found>>

\* The body of while(s_addr).
Count ==
    /\ pc = "count" /\ s_addr # {}
    /\ subnet' = [subnet EXCEPT !.bits = IF W - 1 \in s_addr THEN @ + 1 ELSE @]
    /\ s_addr' = {b + 1 : b \in s_addr} \cap (0..LongBits - 1)
    /\ UNCHANGED <<own, list, addr, pc, i, ix, netmask, found>>

\* The lambda of Internal::compare calls contains().
Counted ==
    /\ pc = "count" /\ s_addr = {}
    /\ ix' = 0 /\ netmask' = {}
    /\ pc' = "mask"
    /\ UNCHANGED <<own, list, addr, i, s_addr, subnet, found>>

\* Mutant: the new bit is set before the shift, and shifted with the others.
Shift_SetFirst ==
    /\ pc = "mask" /\ ix < subnet.bits
    /\ netmask' = {b - 1 : b \in (netmask \cup {W - 1}) \ {0}}
    /\ ix' = ix + 1
    /\ UNCHANGED <<own, list, addr, pc, i, s_addr, subnet, found>>

\* Mutant: the netmask is an unsigned long, as in for_each, and the new bit the
\* one above the address.
Shift_SetsAbove ==
    /\ pc = "mask" /\ ix < subnet.bits
    /\ netmask' = {b - 1 : b \in netmask \ {0}} \cup {W}
    /\ ix' = ix + 1
    /\ UNCHANGED <<own, list, addr, pc, i, s_addr, subnet, found>>

\* The body of contains()'s loop: s_addr >>= 1, s_addr |= 0x80000000.
Shift ==
    /\ pc = "mask" /\ ix < subnet.bits
    /\ netmask' = {b - 1 : b \in netmask \ {0}} \cup {W - 1}
    /\ ix' = ix + 1
    /\ UNCHANGED <<own, list, addr, pc, i, s_addr, subnet, found>>

\* Mutant: the first comparison is dropped.
Equal_Covers(net, base) == base \cup net = net

\* (base == net) && ((base|net) == net)
Equal(net, base) == base = net /\ base \cup net = net

\* contains() returns; for_each goes on with the next interface or stops.
Tested ==
    /\ pc = "mask" /\ ix >= subnet.bits
    /\ found' = Equal(addr \cap netmask, subnet.addr \cap netmask)
    /\ pc' = IF found' \/ own THEN "done" ELSE "iface"
    /\ i' = IF found' THEN i ELSE i + 1
    /\ UNCHANGED <<own, list, addr, s_addr, subnet, ix, netmask>>

Exhausted ==
    /\ pc = "iface" /\ i >= Len(list)
    /\ pc' = "done"
    /\ UNCHANGED <<own, list, addr, i, s_addr, subnet, ix, netmask, found>>

Next == Iface \/ Count \/ Counted \/ Shift \/ Tested \/ Exhausted

Spec == Init /\ [][Next]_vars

----------------------------------------------------------------------------
\* Type invariant of the search.
TypeOK ==
    /\ own \in BOOLEAN
    /\ list \in Seq(Ifaces)
    /\ addr \subseteq Positions
    /\ pc \in {"iface", "count", "mask", "done"}
    /\ i \in Nat /\ ix \in Nat
    /\ s_addr \subseteq 0..LongBits - 1
    /\ subnet \in [addr: SUBSET Positions, bits: Nat]
    /\ netmask \subseteq Positions
    /\ found \in BOOLEAN

\* contains(): the netmask built by shifting is the one of the first `bits' bits,
\* also for a count beyond the width of an address.
MaskIsPrefix == netmask = Prefix(ix)

\* An address is in the subnet of an XML state exactly when it starts with the
\* same bits.
XmlSubnetIsPrefix ==
    pc = "done" /\ own =>
        found = \A b \in Prefix(subnet.bits) : b \in addr <=> b \in subnet.addr

\* What the kernel says: the address is in the network of an interface.
OnLink(iface) ==
    iface # NotInet /\ \A b \in iface.mask : b \in addr <=> b \in iface.addr

\* An address is local exactly when it is in the network of some interface, and
\* the subnet that the state keeps is that of the first such interface, although
\* each netmask went through a count and back.
LocalIsOnLink ==
    pc = "done" /\ ~own =>
        /\ found = \E k \in 1..Len(list) : OnLink(list[k])
        /\ found => /\ OnLink(list[i + 1])
                    /\ \A k \in 1..i : ~OnLink(list[k])
                    /\ subnet.addr = list[i + 1].addr
                    /\ Prefix(subnet.bits) = list[i + 1].mask
=============================================================================

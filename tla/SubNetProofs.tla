---------------------------- MODULE SubNetProofs ----------------------------
(***************************************************************************)
(* Proofs about SubNet, for words and addresses of any width, any list of  *)
(* interfaces and any subnet given in XML.                                 *)
(***************************************************************************)
EXTENDS SubNet, TLAPS

\* The control of the search: what each point of the two loops knows.
Control ==
    /\ own => pc \in {"mask", "done"}
    /\ pc # "done" => ~found
    /\ pc = "mask" => ix <= subnet.bits
    /\ ~own => i <= Len(list)
    /\ ~own /\ pc = "done" /\ ~found => i = Len(list)
    /\ ~own /\ (pc \in {"count", "mask"} \/ found) =>
            /\ i < Len(list)
            /\ list[i + 1] # NotInet
            /\ subnet.addr = list[i + 1].addr

\* After k turns of while(s_addr) on a netmask of n bits, the word holds the
\* netmask moved by k, and min(k, n) bits are counted.
Counting ==
    pc = "count" =>
        \E n \in 0..W, k \in Nat :
            /\ list[i + 1].mask = Prefix(n)
            /\ s_addr = {b \in 0..LongBits - 1 : b >= W - n + k /\ b <= W - 1 + k}
            /\ subnet.bits = IF k < n THEN k ELSE n

\* The count stands for the netmask it was taken from.
CountIsMask ==
    ~own /\ (pc = "mask" \/ found) => Prefix(subnet.bits) = list[i + 1].mask

\* The interfaces passed are not on link, the one found is.
Passed ==
    /\ ~own => \A k \in 1..i : ~OnLink(list[k])
    /\ ~own /\ found => OnLink(list[i + 1])

IInv ==
    /\ TypeOK
    /\ Control
    /\ MaskIsPrefix
    /\ Counting
    /\ CountIsMask
    /\ Passed
    /\ XmlSubnetIsPrefix

\* A prefix is a set of positions.
LEMMA PrefixIsWord ==
    ASSUME NEW n \in Nat
    PROVE  Prefix(n) \subseteq Positions
BY DEF Prefix

\* One turn of contains()'s loop makes the prefix one bit longer, whatever its
\* length.
LEMMA PrefixGrows ==
    ASSUME NEW n \in Nat
    PROVE  {b - 1 : b \in Prefix(n) \ {0}} \cup {W - 1} = Prefix(n + 1)
<1> DEFINE S == {b - 1 : b \in Prefix(n) \ {0}}
<1>1. ASSUME NEW x \in S \cup {W - 1}
      PROVE  x \in Prefix(n + 1)
  BY <1>1, WidthAssumption DEF Prefix, Positions
<1>2. ASSUME NEW x \in Prefix(n + 1), x # W - 1
      PROVE  x \in S
  <2>1. x + 1 \in Prefix(n) \ {0}
    BY <1>2, WidthAssumption DEF Prefix, Positions
  <2>2. x = (x + 1) - 1
    BY <1>2, WidthAssumption DEF Prefix, Positions
  <2> QED BY <2>1, <2>2
<1> QED BY <1>1, <1>2

\* Equal() under a mask: the two words agree on every bit of the mask.
LEMMA EqualAgrees ==
    ASSUME NEW x, NEW y, NEW mask
    PROVE  Equal(x \cap mask, y \cap mask) <=> \A b \in mask : b \in x <=> b \in y
<1>1. x \cap mask = y \cap mask <=> \A b \in mask : b \in x <=> b \in y
  OBVIOUS
<1> QED BY <1>1 DEF Equal

\* One turn of while(s_addr) moves the word by one position.
LEMMA WordMoves ==
    ASSUME NEW n \in 0..W, NEW k \in Nat, NEW word,
           word = {b \in 0..LongBits - 1 : b >= W - n + k /\ b <= W - 1 + k}
    PROVE  /\ W - 1 \in word <=> k < n
           /\ {b + 1 : b \in word} \cap (0..LongBits - 1)
                = {b \in 0..LongBits - 1 : b >= W - n + (k + 1) /\ b <= W - 1 + (k + 1)}
<1> DEFINE Left == {b + 1 : b \in word} \cap (0..LongBits - 1)
           Right == {b \in 0..LongBits - 1 :
                        b >= W - n + (k + 1) /\ b <= W - 1 + (k + 1)}
<1>1. W - 1 \in word <=> k < n
  BY WidthAssumption
<1>2. ASSUME NEW x \in Left PROVE x \in Right
  <2>1. PICK b \in word : x = b + 1 /\ x \in 0..LongBits - 1
    BY <1>2
  <2> QED BY <2>1, WidthAssumption
<1>3. ASSUME NEW x \in Right PROVE x \in Left
  <2>1. x - 1 \in word /\ x = (x - 1) + 1
    BY <1>3, WidthAssumption
  <2> QED BY <2>1, <1>3
<1> QED BY <1>1, <1>2, <1>3

\* An interface that is not skipped has an address and a contiguous netmask.
LEMMA InetInterface ==
    ASSUME NEW l \in Seq(Ifaces), NEW j \in Nat, j < Len(l), l[j + 1] # NotInet
    PROVE  /\ l[j + 1].addr \subseteq Positions
           /\ \E n \in 0..W : l[j + 1].mask = Prefix(n)
<1>1. l[j + 1] \in Ifaces
  OBVIOUS
<1>2. l[j + 1] \in [addr: SUBSET Positions, mask: {Prefix(n) : n \in 0..W}]
  BY <1>1 DEF Ifaces
<1> QED BY <1>2

LEMMA InitIInv == Init => IInv
<1> SUFFICES ASSUME Init PROVE IInv
  OBVIOUS
<1> USE DEF Init
<1>1. TypeOK
  <2>1. list \in Seq(Ifaces)
    <3>1. <<>> \in Seq(Ifaces)
      OBVIOUS
    <3> QED BY <3>1, SubnetAssumption
  <2>2. addr \subseteq Positions
    BY SubnetAssumption
  <2>3. subnet \in [addr: SUBSET Positions, bits: Nat]
    BY SubnetAssumption
  <2> QED BY <2>1, <2>2, <2>3 DEF TypeOK
<1>2. MaskIsPrefix
  BY WidthAssumption DEF MaskIsPrefix, Prefix, Positions
<1>3. Control
  BY <1>1 DEF Control, TypeOK
<1>4. Counting /\ CountIsMask /\ XmlSubnetIsPrefix
  <2>1. pc # "count" /\ pc # "done" /\ ~found /\ (~own => pc # "mask")
    OBVIOUS
  <2> QED BY <2>1 DEF Counting, CountIsMask, XmlSubnetIsPrefix
<1>5. Passed
  <2>1. 1..i = {}
    OBVIOUS
  <2> QED BY <2>1 DEF Passed
<1> QED BY <1>1, <1>2, <1>3, <1>4, <1>5 DEF IInv

LEMMA NextIInv == IInv /\ [Next]_vars => IInv'
<1> SUFFICES ASSUME IInv, [Next]_vars PROVE IInv'
  OBVIOUS
<1> USE DEF IInv
<1>1. CASE Iface
  <2> DEFINE iface == list[i + 1]
  <2>0. ~own /\ ~found /\ i' \in Nat
    BY <1>1 DEF Iface, Control, TypeOK
  <2>1. CASE iface = NotInet
    <3>1. i' = i + 1 /\ UNCHANGED <<pc, s_addr, subnet, own, list, addr, ix, netmask, found>>
      BY <1>1, <2>1 DEF Iface
    <3>2. ~OnLink(list[i + 1])
      BY <2>1 DEF OnLink
    <3>3. Passed'
      <4>1. \A k \in 1..i + 1 : ~OnLink(list[k])
        BY <3>2, <2>0 DEF Passed, TypeOK
      <4> QED BY <3>1, <4>1, <2>0 DEF Passed, OnLink
    <3>4. TypeOK' /\ MaskIsPrefix' /\ XmlSubnetIsPrefix'
      BY <3>1, <2>0 DEF TypeOK, MaskIsPrefix, XmlSubnetIsPrefix
    <3>5. Control' /\ Counting' /\ CountIsMask'
      BY <3>1, <2>0, <1>1 DEF Iface, Control, Counting, CountIsMask, TypeOK
    <3> QED BY <3>3, <3>4, <3>5
  <2>2. CASE iface # NotInet
    <3>1. /\ subnet' = [addr |-> iface.addr, bits |-> 0]
          /\ s_addr' = iface.mask /\ pc' = "count" /\ i < Len(list)
          /\ UNCHANGED <<i, own, list, addr, ix, netmask, found>>
      BY <1>1, <2>2 DEF Iface
    <3>2. iface.addr \subseteq Positions
      BY <3>1, <2>2, InetInterface DEF TypeOK
    <3>3. PICK n \in 0..W : iface.mask = Prefix(n)
      BY <3>1, <2>2, InetInterface DEF TypeOK
    <3>4. s_addr' = {b \in 0..LongBits - 1 : b >= W - n + 0 /\ b <= W - 1 + 0}
      BY <3>1, <3>3, WidthAssumption DEF Prefix, Positions
    <3>5. Counting'
      <4>1. subnet'.bits = IF 0 < n THEN 0 ELSE n
        BY <3>1
      <4>2. list'[i' + 1].mask = Prefix(n)
        BY <3>1, <3>3
      <4> QED BY <3>4, <4>1, <4>2 DEF Counting, Prefix, Positions
    <3>6. TypeOK'
      BY <3>1, <3>2, <3>4, <2>0 DEF TypeOK
    <3>7. Control'
      BY <3>1, <2>2, <2>0 DEF Control
    <3>8. MaskIsPrefix' /\ CountIsMask' /\ Passed' /\ XmlSubnetIsPrefix'
      BY <3>1, <2>0 DEF MaskIsPrefix, CountIsMask, Passed, XmlSubnetIsPrefix,
                        OnLink, Prefix, Positions
    <3> QED BY <3>5, <3>6, <3>7, <3>8
  <2> QED BY <2>1, <2>2
<1>2. CASE Count
  <2>0. ~own /\ ~found
    BY <1>2 DEF Count, Control
  <2>1. PICK n \in 0..W : \E k \in Nat :
            /\ list[i + 1].mask = Prefix(n)
            /\ s_addr = {b \in 0..LongBits - 1 : b >= W - n + k /\ b <= W - 1 + k}
            /\ subnet.bits = IF k < n THEN k ELSE n
    BY <1>2 DEF Count, Counting
  <2>2. PICK k \in Nat :
            /\ list[i + 1].mask = Prefix(n)
            /\ s_addr = {b \in 0..LongBits - 1 : b >= W - n + k /\ b <= W - 1 + k}
            /\ subnet.bits = IF k < n THEN k ELSE n
    BY <2>1
  <2>3. /\ W - 1 \in s_addr <=> k < n
        /\ s_addr' = {b \in 0..LongBits - 1 :
                        b >= W - n + (k + 1) /\ b <= W - 1 + (k + 1)}
    BY <1>2, <2>2, WordMoves DEF Count
  <2>4. /\ subnet' \in [addr: SUBSET Positions, bits: Nat]
        /\ subnet'.addr = subnet.addr
        /\ subnet'.bits = IF k < n THEN subnet.bits + 1 ELSE subnet.bits
    <3>1. subnet' = [subnet EXCEPT !.bits = IF k < n THEN @ + 1 ELSE @]
      BY <1>2, <2>3 DEF Count
    <3>2. subnet \in [addr: SUBSET Positions, bits: Nat]
      BY DEF TypeOK
    <3> QED BY <3>1, <3>2
  <2>5. subnet'.bits = IF k + 1 < n THEN k + 1 ELSE n
    BY <2>2, <2>4
  <2>6. UNCHANGED <<own, list, addr, pc, i, ix, netmask, found>>
    BY <1>2 DEF Count
  <2>7. Counting'
    <3>1. list'[i' + 1].mask = Prefix(n) /\ k + 1 \in Nat
      BY <2>2, <2>6
    <3> QED BY <2>3, <2>5, <3>1 DEF Counting, Prefix, Positions
  <2>8. TypeOK'
    BY <2>3, <2>4, <2>6 DEF TypeOK
  <2>9. Control' /\ MaskIsPrefix' /\ CountIsMask' /\ Passed' /\ XmlSubnetIsPrefix'
    BY <1>2, <2>0, <2>4, <2>6 DEF Count, Control, MaskIsPrefix, CountIsMask, Passed,
                        XmlSubnetIsPrefix, OnLink, Prefix, Positions
  <2> QED BY <2>7, <2>8, <2>9
<1>3. CASE Counted
  <2>0. ~own /\ ~found
    BY <1>3 DEF Counted, Control
  <2>1. PICK n \in 0..W : \E k \in Nat :
            /\ list[i + 1].mask = Prefix(n)
            /\ s_addr = {b \in 0..LongBits - 1 : b >= W - n + k /\ b <= W - 1 + k}
            /\ subnet.bits = IF k < n THEN k ELSE n
    BY <1>3 DEF Counted, Counting
  <2>2. PICK k \in Nat :
            /\ list[i + 1].mask = Prefix(n)
            /\ s_addr = {b \in 0..LongBits - 1 : b >= W - n + k /\ b <= W - 1 + k}
            /\ subnet.bits = IF k < n THEN k ELSE n
    BY <2>1
  <2>3. ~(k < n)
    BY <1>3, <2>2, WordMoves DEF Counted
  <2>4. Prefix(subnet.bits) = list[i + 1].mask
    BY <2>2, <2>3
  <2>5. /\ pc' = "mask" /\ ix' = 0 /\ netmask' = {}
        /\ UNCHANGED <<own, list, addr, i, s_addr, subnet, found>>
    BY <1>3 DEF Counted
  <2>6. CountIsMask'
    BY <2>4, <2>5 DEF CountIsMask, Prefix, Positions
  <2>7. MaskIsPrefix'
    BY <2>5, WidthAssumption DEF MaskIsPrefix, Prefix, Positions
  <2>8. TypeOK' /\ Control' /\ Counting' /\ Passed' /\ XmlSubnetIsPrefix'
    BY <1>3, <2>0, <2>5 DEF Counted, TypeOK, Control, Counting, Passed, XmlSubnetIsPrefix,
                        OnLink
  <2> QED BY <2>6, <2>7, <2>8
<1>4. CASE Shift
  <2>1. /\ pc = "mask" /\ ix < subnet.bits /\ ix' = ix + 1
        /\ netmask' = {b - 1 : b \in netmask \ {0}} \cup {W - 1}
        /\ UNCHANGED <<own, list, addr, pc, i, s_addr, subnet, found>>
    BY <1>4 DEF Shift
  <2>2. netmask' = Prefix(ix')
    BY <2>1, PrefixGrows DEF MaskIsPrefix, TypeOK
  <2>3. TypeOK'
    BY <2>1, <2>2, PrefixIsWord DEF TypeOK
  <2>4. MaskIsPrefix'
    BY <2>2 DEF MaskIsPrefix, Prefix, Positions
  <2>5. Control' /\ Counting' /\ CountIsMask' /\ Passed' /\ XmlSubnetIsPrefix'
    BY <2>1 DEF TypeOK, Control, Counting, CountIsMask, Passed, XmlSubnetIsPrefix,
                OnLink, Prefix, Positions
  <2> QED BY <2>3, <2>4, <2>5
<1>5. CASE Tested
  <2>1. /\ pc = "mask" /\ ix >= subnet.bits
        /\ found' = Equal(addr \cap netmask, subnet.addr \cap netmask)
        /\ pc' = IF found' \/ own THEN "done" ELSE "iface"
        /\ i' = IF found' THEN i ELSE i + 1
        /\ UNCHANGED <<own, list, addr, s_addr, subnet, ix, netmask>>
    BY <1>5 DEF Tested
  <2>2. netmask = Prefix(subnet.bits)
    <3>1. ix = subnet.bits
      BY <2>1 DEF Control, TypeOK
    <3> QED BY <3>1 DEF MaskIsPrefix
  <2>3. found' <=> \A b \in Prefix(subnet.bits) : b \in addr <=> b \in subnet.addr
    BY <2>1, <2>2, EqualAgrees
  <2>4. found' \in BOOLEAN
    BY <2>1 DEF Equal
  <2>5. ~own => (found' <=> OnLink(list[i + 1]))
    BY <2>1, <2>3 DEF Control, CountIsMask, OnLink
  <2>6. TypeOK'
    <3>1. i' \in Nat /\ pc' \in {"iface", "done"}
      BY <2>1 DEF TypeOK
    <3> QED BY <2>1, <2>4, <3>1 DEF TypeOK
  <2>7. XmlSubnetIsPrefix'
    <3>1. (\A b \in Prefix(subnet.bits) : b \in addr <=> b \in subnet.addr)'
            <=> \A b \in Prefix(subnet.bits) : b \in addr <=> b \in subnet.addr
      BY <2>1 DEF Prefix, Positions
    <3> QED BY <2>3, <2>4, <3>1 DEF XmlSubnetIsPrefix
  <2>8. Passed'
    <3>1. \A k : OnLink(list[k])' <=> OnLink(list[k])
      BY <2>1 DEF OnLink
    <3>2. CASE own
      BY <3>2, <2>1 DEF Passed
    <3>3. CASE ~own /\ found'
      BY <3>3, <3>1, <2>1, <2>5 DEF Passed, OnLink
    <3>4. CASE ~own /\ ~found'
      <4>1. \A k \in 1..i + 1 : ~OnLink(list[k])
        BY <3>4, <2>5 DEF Passed, TypeOK
      <4> QED BY <4>1, <3>4, <2>1 DEF Passed, OnLink
    <3> QED BY <3>2, <3>3, <3>4
  <2>9. MaskIsPrefix' /\ Counting' /\ CountIsMask'
    BY <2>1 DEF MaskIsPrefix, Counting, CountIsMask, Prefix, Positions
  <2>10. Control'
    BY <2>1 DEF Control, TypeOK
  <2> QED BY <2>6, <2>7, <2>8, <2>9, <2>10
<1>6. CASE Exhausted
  <2>1. pc = "iface" /\ i >= Len(list) /\ pc' = "done"
        /\ UNCHANGED <<own, list, addr, i, s_addr, subnet, ix, netmask, found>>
    BY <1>6 DEF Exhausted
  <2>2. ~own /\ ~found /\ i = Len(list)
    BY <2>1 DEF Control, TypeOK
  <2> QED BY <2>1, <2>2 DEF TypeOK, Control, MaskIsPrefix, Counting, CountIsMask,
                Passed, XmlSubnetIsPrefix, OnLink, Prefix, Positions
<1>7. CASE UNCHANGED vars
  BY <1>7 DEF vars, TypeOK, Control, MaskIsPrefix, Counting, CountIsMask,
              Passed, XmlSubnetIsPrefix, OnLink, Prefix, Positions
<1> QED BY <1>1, <1>2, <1>3, <1>4, <1>5, <1>6, <1>7 DEF Next

\* Every reachable state satisfies the strengthened invariant.
THEOREM Inductive == Spec => []IInv
BY InitIInv, NextIInv, PTL DEF Spec

\* Type correctness of the search, for any widths.
THEOREM TypeCorrect == Spec => []TypeOK
<1>1. IInv => TypeOK
  BY DEF IInv
<1> QED BY <1>1, Inductive, PTL

\* The netmask contains() builds by shifting is the prefix of that many bits.
THEOREM MaskCorrect == Spec => []MaskIsPrefix
<1>1. IInv => MaskIsPrefix
  BY DEF IInv
<1> QED BY <1>1, Inductive, PTL

\* An XML subnet contains exactly the addresses that start with its bits.
THEOREM XmlSubnetCorrect == Spec => []XmlSubnetIsPrefix
<1>1. IInv => XmlSubnetIsPrefix
  BY DEF IInv
<1> QED BY <1>1, Inductive, PTL

\* An address is local exactly when it is on the link of an interface, and the
\* subnet kept is the first interface's.
THEOREM LocalCorrect == Spec => []LocalIsOnLink
<1>1. IInv => LocalIsOnLink
  <2> SUFFICES ASSUME IInv, pc = "done", ~own PROVE
          /\ found = \E k \in 1..Len(list) : OnLink(list[k])
          /\ found => /\ OnLink(list[i + 1])
                      /\ \A k \in 1..i : ~OnLink(list[k])
                      /\ subnet.addr = list[i + 1].addr
                      /\ Prefix(subnet.bits) = list[i + 1].mask
    BY DEF LocalIsOnLink
  <2>1. CASE found
    <3>1. i + 1 \in 1..Len(list) /\ OnLink(list[i + 1])
      BY <2>1 DEF IInv, Control, Passed, TypeOK
    <3> QED BY <2>1, <3>1 DEF IInv, Control, Passed, CountIsMask, TypeOK
  <2>2. CASE ~found
    <3>1. \A k \in 1..Len(list) : ~OnLink(list[k])
      BY <2>2 DEF IInv, Control, Passed
    <3> QED BY <2>2, <3>1 DEF IInv, TypeOK
  <2> QED BY <2>1, <2>2
<1> QED BY <1>1, Inductive, PTL
=============================================================================

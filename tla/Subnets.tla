------------------------------ MODULE Subnets ------------------------------
(***************************************************************************)
(* IP arithmetic of package subnet (subnet.go) and the search for a free   *)
(* subnet that both subnet allocators run (alloc.go, combined_alloc.go).   *)
(*                                                                         *)
(* An address is a number of Bits[f] bits, where the family f is 4 or 6;   *)
(* a network is a record of family, first address and prefix length.  The  *)
(* code moves between byte strings and big integers; what it computes is   *)
(* arithmetic on numbers, modulo 2^Bits[f] where it cuts the result to the *)
(* length of an address.                                                   *)
(***************************************************************************)
EXTENDS Integers, FiniteSets

CONSTANTS
    Bits               \* family -> width of its addresses (32 and 128)

ASSUME BitsAssumption ==
    /\ DOMAIN Bits = {4, 6} /\ \A f \in {4, 6} : Bits[f] \in Nat
    /\ Bits[4] < Bits[6]

None == [family |-> 0, ip |-> 0, prefix |-> 0]

\* subnetSize, Capacity.
Size(f, prefix) == 2^(Bits[f] - prefix)

\* IP.Mask with CIDRMask(prefix).
Mask(f, ip, prefix) == ip - (ip % Size(f, prefix))

Network(f, ip, prefix) == [family |-> f, ip |-> Mask(f, ip, prefix), prefix |-> prefix]

\* Every network in normal form (normalizeIPNet).
Networks(f) == {Network(f, ip, prefix) : ip \in 0..(2^Bits[f] - 1), prefix \in 0..Bits[f]}

\* Next and Prev wrap around.
NextIP(f, ip) == (ip + 1) % 2^Bits[f]
PrevIP(f, ip) == (ip - 1) % 2^Bits[f]

\* Range.
FirstIP(n) == n.ip
LastIP(n) == n.ip + Size(n.family, n.prefix) - 1

\* net.IPNet.Contains.
Has(n, f, ip) == n.family = f /\ Mask(f, ip, n.prefix) = Mask(f, n.ip, n.prefix)

ContainsNet(parent, child) ==
    child.prefix >= parent.prefix /\ Has(parent, child.family, child.ip)

Overlap(nets) ==
    \E i \in DOMAIN nets : \E j \in DOMAIN nets :
        /\ i < j
        /\ Has(nets[i], nets[j].family, nets[j].ip) \/ Has(nets[j], nets[i].family, nets[i].ip)

\* FromRange takes two addresses, which may be of different families. A size of
\* more than 128 bits, that of the whole of IPv6, is refused.
FromRange(f, first, g, last) ==
    LET size == last - first + 1
        powers == {b \in 0..Bits[f] : 2^b = size}
    IN  IF f # g \/ first > last \/ size >= 2^Bits[6] \/ powers = {} THEN None
        ELSE LET prefix == Bits[f] - CHOOSE b \in powers : TRUE
             IN  IF Mask(f, first, prefix) # first THEN None
                 ELSE Network(f, first, prefix)

Split(n) ==
    IF n.prefix = Bits[n.family] THEN {}
    ELSE {Network(n.family, n.ip, n.prefix + 1),
          [n EXCEPT !.ip = @ + Size(n.family, n.prefix + 1), !.prefix = @ + 1]}

\* Outside the network there is no address: -1.
IPIndex(n, i) == IF i < 0 \/ i >= Size(n.family, n.prefix) THEN -1 ELSE n.ip + i

\* The offset may run past the last address; the result is cut to its length.
Extend(n, bits, num) ==
    LET prefix == n.prefix - bits
    IN  IF bits < 0 \/ num < 0 \/ prefix < 0 THEN None
        ELSE Network(n.family, (n.ip + num * Size(n.family, prefix)) % 2^Bits[n.family], prefix)

Narrow(n, bits, num) ==
    LET prefix == n.prefix + bits
    IN  IF bits < 0 \/ num < 0 \/ prefix > Bits[n.family] \/ num >= 2^bits THEN None
        ELSE [n EXCEPT !.ip = (@ + num * Size(n.family, prefix)) % 2^Bits[n.family],
                       !.prefix = prefix]

\* ExtendIPNet puts the bits of the index behind the prefix, one by one.
ExtendIPNet(n, numBits, index) ==
    IF numBits < 0 \/ n.prefix + numBits > Bits[n.family] \/ index < 0 \/ index >= 2^numBits
    THEN None
    ELSE LET bit(i) == (index \div 2^(numBits - 1 - i)) % 2
             fill[i \in 0..numBits] ==
                 IF i = 0 THEN n.ip
                 ELSE fill[i - 1] + bit(i - 1) * 2^(Bits[n.family] - n.prefix - i)
         IN  [n EXCEPT !.ip = fill[numBits], !.prefix = @ + numBits]

(***************************************************************************)
(* The search.                                                             *)
(***************************************************************************)

AlignUp(value, size) ==
    IF value % size = 0 THEN value ELSE value + (size - (value % size))

\* The blockers are intervals; the loops visit them ordered by start, then end,
\* so this is the one that moves a candidate [start, end].
FirstBlocker(blocking) ==
    CHOOSE b \in blocking : \A c \in blocking : b[1] < c[1] \/ (b[1] = c[1] /\ b[2] <= c[2])


\* Where the search looks after the candidate at start is blocked.
Skip(blocker, start, size) ==
    LET next == AlignUp(blocker[2] + 1, size)
    IN  IF next <= start THEN start + size ELSE next

\* The loop of alloc and allocSubnetLocked: the start of the first network of
\* this size at or behind first that no blocker touches and the filter accepts.
\* With turns the search goes on at the parent's start and ends where it began.
\* The result is -1 if there is none or the filter has rejected maxAttempts.
Search(parent, size, first, turns, blockers, rejected, maxAttempts) ==
    LET find[start \in Int, wrapped \in BOOLEAN, attempts \in Nat] ==
            LET end == start + size - 1
                blocking == {b \in blockers : b[2] >= start /\ b[1] <= end}
            IN  IF end > LastIP(parent)
                THEN IF wrapped \/ ~turns THEN -1
                     ELSE find[FirstIP(parent), TRUE, attempts]
                ELSE IF wrapped /\ start >= first THEN -1
                ELSE IF blocking # {}
                THEN find[Skip(FirstBlocker(blocking), start, size), wrapped, attempts]
                ELSE IF start \notin rejected THEN start
                ELSE IF attempts + 1 >= maxAttempts THEN -1
                ELSE find[start + size, wrapped, attempts + 1]
    IN  find[first, FALSE, 0]

\* The networks of a size in the parent that no blocker touches.
FreeStarts(parent, size, blockers) ==
    {s \in FirstIP(parent)..LastIP(parent) :
        /\ s % size = 0 /\ s + size - 1 <= LastIP(parent)
        /\ \A b \in blockers : b[2] < s \/ b[1] > s + size - 1}

(***************************************************************************)
(* What the arithmetic promises, network by network.                       *)
(***************************************************************************)

Addresses(n) == {n.family} \X (FirstIP(n)..LastIP(n))

\* The functions of subnet.go agree with the sets of addresses networks stand
\* for: FromRange finds every network again by its Range but the one of all IPv6
\* addresses, and nothing else, Split cuts in two, Contains and Overlap are
\* inclusion and intersection, Narrow enumerates the subnets in order, ExtendIPNet
\* does the same bit by bit, Extend names the supernet, and Next and Prev undo each
\* other at both ends of the address space.
Exact(n, m) ==
    LET f == n.family
    IN  /\ FromRange(f, FirstIP(n), f, LastIP(n)) = IF f = 6 /\ n.prefix = 0 THEN None ELSE n
        /\ \A last \in FirstIP(n)..(2^Bits[f] - 1) :
               LET r == FromRange(f, FirstIP(n), f, last)
               IN  r # None => Addresses(r) = {f} \X (FirstIP(n)..last)
        /\ Split(n) # {} =>
               /\ UNION {Addresses(h) : h \in Split(n)} = Addresses(n)
               /\ \A h, k \in Split(n) : h # k => Addresses(h) \cap Addresses(k) = {}
        /\ ContainsNet(n, m) <=> Addresses(m) \subseteq Addresses(n)
        /\ Overlap(<<n, m>>) <=> Addresses(m) \cap Addresses(n) # {}
        /\ \A i \in -1..Size(f, n.prefix) :
               (IPIndex(n, i) # -1) <=> <<f, n.ip + i>> \in Addresses(n)
        /\ \A b \in 0..Bits[f] : \A i \in 0..(2^b) :
               LET sub == Narrow(n, b, i)
               IN  /\ ExtendIPNet(n, b, i) = sub
                   /\ sub # None => /\ sub.ip = n.ip + i * Size(f, sub.prefix)
                                    /\ Extend(sub, b, 0) = n
                                    /\ sub = Network(f, sub.ip, sub.prefix)
        /\ \A ip \in {FirstIP(n), LastIP(n)} : PrevIP(f, NextIP(f, ip)) = ip /\ NextIP(f, PrevIP(f, ip)) = ip
=============================================================================

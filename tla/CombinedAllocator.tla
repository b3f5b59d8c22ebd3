------------------------- MODULE CombinedAllocator -------------------------
(***************************************************************************)
(* CombinedAllocator (subnet/combined_alloc.go): subnets and addresses     *)
(* handed out of one parent network per family.  Every method holds the    *)
(* allocator's lock from beginning to end, so each is one action.          *)
(*                                                                         *)
(* Reservations are counted.  Addresses come from pool subnets, which the  *)
(* allocator reserves for itself in the table its users share; pool        *)
(* subnets that have become empty are given back, all but one.             *)
(*                                                                         *)
(* Users give back what they were given or have reserved, and what is not  *)
(* in use by anybody: FreeSubnet may also be called with a pool subnet,    *)
(* which AllocIP returns beside the address.  The numbers of grants and    *)
(* reservations in users' hands are not part of the code.                  *)
(***************************************************************************)
EXTENDS Subnets, Sequences, SequencesExt

CONSTANTS
    Parent,            \* family -> its parent network, or None
    PoolPrefix,        \* family -> prefix of pool subnets
    BannedIPs, BannedSubnets,
    RejectedIPs,       \* addresses ipFilter rejects
    RejectedSubnets,   \* networks subnetFilter rejects
    MaxAttempts,       \* maxFilteredAllocationAttempts
    ReserveIPs, ReserveSubnets,        \* what users reserve
    MaxHeld            \* bound on what users hold

VARIABLES
    ips,               \* reservedIPs: counts by <<family, address>>
    subnets,           \* reservedSubnets: counts by network
    pools,             \* poolSubnets: family -> sequence of [net, next]
    grantedIPs, grantedSubnets,        \* allocated and not given back, counted
    heldIPs, heldSubnets               \* reserved and not given back, counted

vars == <<ips, subnets, pools, grantedIPs, grantedSubnets, heldIPs, heldSubnets>>

Families == DOMAIN Bits
AllIPs == UNION {{f} \X (0..(2^Bits[f] - 1)) : f \in Families}
AllNetworks == UNION {Networks(f) : f \in Families}
Zero(S) == [x \in S |-> 0]
Held == FoldFunction(+, 0, grantedIPs) + FoldFunction(+, 0, grantedSubnets)
        + FoldFunction(+, 0, heldIPs) + FoldFunction(+, 0, heldSubnets)

Init ==
    /\ ips = Zero(AllIPs) /\ grantedIPs = Zero(AllIPs) /\ heldIPs = Zero(AllIPs)
    /\ subnets = Zero(AllNetworks) /\ grantedSubnets = Zero(AllNetworks)
    /\ heldSubnets = Zero(AllNetworks)
    /\ pools = [f \in Families |-> <<>>]

----------------------------------------------------------------------------
(* Subnets. *)

Interval(n) == <<FirstIP(n), LastIP(n)>>

\* sortedSubnetBlockersLocked; what lies outside the parent blocks nothing.
Blockers(f) ==
    LET nets == {n \in Networks(f) : subnets[n] > 0 \/ n \in BannedSubnets}
        addrs == {a \in AllIPs : a[1] = f /\ (ips[a] > 0 \/ a \in BannedIPs)}
    IN  {b \in {Interval(n) : n \in nets} \cup {<<a[2], a[2]>> : a \in addrs} :
            b[2] >= FirstIP(Parent[f]) /\ b[1] <= LastIP(Parent[f])}

Rejected(f, prefix) == {n.ip : n \in {m \in RejectedSubnets : m.family = f /\ m.prefix = prefix}}

\* randomBigInt picks any aligned start in the parent.
FirstCandidates(f, prefix) ==
    {s \in FirstIP(Parent[f])..LastIP(Parent[f]) : s % Size(f, prefix) = 0}

\* The subnets allocSubnetLocked may come up with; None for nil.
Found(f, prefix) ==
    IF Parent[f] = None \/ prefix \notin 0..Bits[f] \/ prefix < Parent[f].prefix THEN {None}
    ELSE LET result(first) == Search(Parent[f], Size(f, prefix), first, TRUE, Blockers(f),
                                     Rejected(f, prefix), MaxAttempts)
         IN  {IF result(s) = -1 THEN None ELSE Network(f, result(s), prefix) :
                 s \in FirstCandidates(f, prefix)}

ReserveSubnet(n) ==
    /\ Held < MaxHeld
    /\ subnets' = [subnets EXCEPT ![n] = @ + 1]
    /\ heldSubnets' = [heldSubnets EXCEPT ![n] = @ + 1]
    /\ UNCHANGED <<ips, pools, grantedIPs, grantedSubnets, heldIPs>>

\* AllocSubnet4, AllocSubnet6.
AllocSubnet(f, prefix) ==
    /\ Held < MaxHeld
    /\ \E n \in Found(f, prefix) :
           /\ n # None
           /\ subnets' = [subnets EXCEPT ![n] = @ + 1]
           /\ grantedSubnets' = [grantedSubnets EXCEPT ![n] = @ + 1]
    /\ UNCHANGED <<ips, pools, grantedIPs, heldIPs, heldSubnets>>

PoolNets(f) == {pools[f][i].net : i \in DOMAIN pools[f]}

\* removePoolSubnetLocked.
WithoutPool(f, n) == SelectSeq(pools[f], LAMBDA p : p.net # n)

\* FreeSubnet of a network that is reserved: only the last reservation to go
\* takes a pool with it.
FreeReserved(n) ==
    /\ subnets' = [subnets EXCEPT ![n] = @ - 1]
    /\ pools' = IF subnets[n] > 1 THEN pools
                ELSE [pools EXCEPT ![n.family] = WithoutPool(n.family, n)]

FreeSubnet(n) ==
    /\ subnets[n] > 0 /\ FreeReserved(n)
    /\ \/ grantedSubnets[n] > 0
          /\ grantedSubnets' = [grantedSubnets EXCEPT ![n] = @ - 1]
          /\ UNCHANGED heldSubnets
       \/ heldSubnets[n] > 0
          /\ heldSubnets' = [heldSubnets EXCEPT ![n] = @ - 1]
          /\ UNCHANGED grantedSubnets
       \/ n \in PoolNets(n.family) /\ grantedSubnets[n] + heldSubnets[n] = 0
          /\ UNCHANGED <<grantedSubnets, heldSubnets>>
    /\ UNCHANGED <<ips, grantedIPs, heldIPs>>

FreeAllSubnets ==
    /\ subnets' = Zero(AllNetworks)
    /\ pools' = [f \in Families |-> <<>>]
    /\ grantedSubnets' = Zero(AllNetworks) /\ heldSubnets' = Zero(AllNetworks)
    /\ UNCHANGED <<ips, grantedIPs, heldIPs>>

----------------------------------------------------------------------------
(* Addresses. *)

\* isUsable: neither the first nor the last address of a pool.
Usable(n) == (FirstIP(n) + 1)..(LastIP(n) - 1)

\* The order in which tryAllocFromPoolSubnetLocked looks at addresses.
Candidates(pool) ==
    LET start == IF pool.next \in Usable(pool.net) THEN pool.next ELSE FirstIP(pool.net) + 1
        upTo(a, b) == IF a > b THEN <<>> ELSE [i \in 1..(b - a + 1) |-> a + i - 1]
    IN  upTo(start, LastIP(pool.net) - 1) \o upTo(FirstIP(pool.net) + 1, start - 1)

Acceptable(f, ip) == ips[<<f, ip>>] = 0 /\ <<f, ip>> \notin BannedIPs \cup RejectedIPs

\* What one pool yields when attempts addresses have been looked at: the address
\* or -1, and the attempts made by then. Every address looked at is an attempt.
TryPool(pool, attempts) ==
    LET order == Candidates(pool)
        looked == {i \in DOMAIN order : attempts + i <= MaxAttempts}
        hits == {i \in looked : Acceptable(pool.net.family, order[i])}
        hit == CHOOSE i \in hits : \A j \in hits : i <= j
    IN  IF hits = {} THEN [ip |-> -1, attempts |-> attempts + Cardinality(looked)]
        ELSE [ip |-> order[hit], attempts |-> attempts + hit]

\* allocIPFromPoolLocked: the pools in order, as long as attempts are left.
FromPools(f) ==
    LET try[i \in 0..Len(pools[f])] ==
            IF i = 0 THEN [ip |-> -1, attempts |-> 0, index |-> 0]
            ELSE LET before == try[i - 1]
                     here == TryPool(pools[f][i], before.attempts)
                 IN  IF before.ip # -1 \/ before.attempts >= MaxAttempts THEN before
                     ELSE [ip |-> here.ip, attempts |-> here.attempts, index |-> i]
    IN  try[Len(pools[f])]

Granted(f, ip) ==
    /\ ips' = [ips EXCEPT ![<<f, ip>>] = 1]
    /\ grantedIPs' = [grantedIPs EXCEPT ![<<f, ip>>] = @ + 1]

\* AllocIP4, AllocIP6. A new pool subnet stays even if it yields no address.
AllocIP(f) ==
    /\ Parent[f] # None /\ Held < MaxHeld
    /\ LET old == FromPools(f)
       IN  \/ /\ old.ip # -1
              /\ Granted(f, old.ip)
              /\ pools' = [pools EXCEPT ![f][old.index].next = NextIP(f, old.ip)]
              /\ UNCHANGED subnets
           \/ /\ old.ip = -1 /\ old.attempts < MaxAttempts
              /\ \E n \in Found(f, PoolPrefix[f]) :
                     LET pool == [net |-> n, next |-> NextIP(f, FirstIP(n))]
                         new == TryPool(pool, old.attempts)
                     IN  /\ n # None
                         /\ subnets' = [subnets EXCEPT ![n] = @ + 1]
                         /\ \/ /\ new.ip # -1
                               /\ Granted(f, new.ip)
                               /\ pools' = [pools EXCEPT ![f] =
                                               Append(@, [pool EXCEPT !.next = NextIP(f, new.ip)])]
                            \/ /\ new.ip = -1
                               /\ pools' = [pools EXCEPT ![f] = Append(@, pool)]
                               /\ UNCHANGED <<ips, grantedIPs>>
    /\ UNCHANGED <<grantedSubnets, heldIPs, heldSubnets>>

ReserveIP(a) ==
    /\ Held < MaxHeld
    /\ ips' = [ips EXCEPT ![a] = @ + 1]
    /\ heldIPs' = [heldIPs EXCEPT ![a] = @ + 1]
    /\ UNCHANGED <<subnets, pools, grantedIPs, grantedSubnets, heldSubnets>>

\* poolSubnetHasReservedIPLocked.
Empty(pool, table) == \A a \in AllIPs : table[a] = 0 \/ ~Has(pool.net, a[1], a[2])

\* Mutant: the pools that go leave their reservations behind.
PruneKeepsReserved(fs, table) ==
    LET empty(f) == {i \in DOMAIN pools[f] : Empty(pools[f][i], table)}
        gone(f) == {i \in empty(f) : \E j \in empty(f) : j < i}
        kept(f) == SetToSortSeq(DOMAIN pools[f] \ gone(f), <)
    IN  /\ pools' = [f \in Families |->
                        IF f \in fs THEN [i \in DOMAIN kept(f) |-> pools[f][kept(f)[i]]] ELSE pools[f]]
        /\ UNCHANGED subnets

\* pruneEmptyPoolSubnetsLocked of these families: all empty pools but the first
\* go, and a reservation of each with them.
Prune(fs, table) ==
    LET empty(f) == {i \in DOMAIN pools[f] : Empty(pools[f][i], table)}
        gone(f) == {i \in empty(f) : \E j \in empty(f) : j < i}
        kept(f) == SetToSortSeq(DOMAIN pools[f] \ gone(f), <)
        freed == UNION {{pools[f][i].net : i \in gone(f)} : f \in fs}
    IN  /\ pools' = [f \in Families |->
                        IF f \in fs THEN [i \in DOMAIN kept(f) |-> pools[f][kept(f)[i]]] ELSE pools[f]]
        /\ subnets' = [n \in AllNetworks |-> IF n \in freed THEN subnets[n] - 1 ELSE subnets[n]]

FreeIP(a) ==
    /\ \/ grantedIPs[a] > 0
          /\ grantedIPs' = [grantedIPs EXCEPT ![a] = @ - 1] /\ UNCHANGED heldIPs
       \/ heldIPs[a] > 0
          /\ heldIPs' = [heldIPs EXCEPT ![a] = @ - 1] /\ UNCHANGED grantedIPs
    /\ ips' = [ips EXCEPT ![a] = IF @ > 0 THEN @ - 1 ELSE 0]
    /\ Prune({a[1]}, ips')
    /\ UNCHANGED <<grantedSubnets, heldSubnets>>

FreeAllIP ==
    /\ ips' = Zero(AllIPs) /\ grantedIPs' = Zero(AllIPs) /\ heldIPs' = Zero(AllIPs)
    /\ Prune(Families, ips')
    /\ UNCHANGED <<grantedSubnets, heldSubnets>>

Next ==
    \/ \E n \in ReserveSubnets : ReserveSubnet(n)
    \/ \E f \in Families : \E prefix \in 0..Bits[f] : AllocSubnet(f, prefix)
    \/ \E n \in AllNetworks : FreeSubnet(n)
    \/ FreeAllSubnets
    \/ \E a \in ReserveIPs : ReserveIP(a)
    \/ \E f \in Families : AllocIP(f)
    \/ \E a \in AllIPs : FreeIP(a)
    \/ FreeAllIP

Spec == Init /\ [][Next]_vars

----------------------------------------------------------------------------
(* The tables count exactly what is in use: as many reservations of a      *)
(* network as users hold, and one more for a pool; whoever gives back what *)
(* they hold neither frees the share of another nor leaves one behind.     *)
CountsExact ==
    /\ \A n \in AllNetworks :
           subnets[n] = grantedSubnets[n] + heldSubnets[n]
                        + (IF n \in PoolNets(n.family) THEN 1 ELSE 0)
    /\ \A a \in AllIPs : ips[a] = grantedIPs[a] + heldIPs[a]

(* Nothing is handed out twice: subnets that are allocated, pools included,*)
(* are disjoint, and no allocated address is inside an allocated subnet or *)
(* allocated to a second user.                                             *)
GrantsDisjoint ==
    LET granted == {n \in AllNetworks : grantedSubnets[n] > 0}
        taken == granted \cup UNION {PoolNets(f) : f \in Families}
    IN  /\ \A n, m \in taken : n # m => ~Overlap(<<n, m>>)
        /\ \A n \in granted : grantedSubnets[n] = 1 /\ n \notin PoolNets(n.family)
        /\ \A a \in AllIPs : grantedIPs[a] > 0 =>
               grantedIPs[a] = 1 /\ \A n \in granted : ~Has(n, a[1], a[2])


(* Giving back addresses leaves at most one pool empty and takes away no   *)
(* pool from which an address is still in use.                             *)
PrunesToOne ==
    [][(\E a \in AllIPs : ips'[a] < ips[a]) =>
           \A f \in Families :
               /\ \A i \in DOMAIN pools[f] :
                      ~Empty(pools[f][i], ips') => pools[f][i].net \in PoolNets(f)'
               /\ ((\E a \in AllIPs : a[1] = f /\ ips'[a] < ips[a]) =>
                      Cardinality({i \in DOMAIN pools'[f] : Empty(pools'[f][i], ips')}) <= 1)]_vars
=============================================================================

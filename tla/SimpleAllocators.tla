-------------------------- MODULE SimpleAllocators --------------------------
(***************************************************************************)
(* The two allocators of package subnet that hand out one kind of thing:   *)
(* subnetAllocator (alloc.go) and ipAllocator (ip_alloc.go).  Both own one *)
(* network, here the same one; every method holds the lock throughout.     *)
(* Users give back what they hold; what they hold is not part of the code. *)
(***************************************************************************)
EXTENDS Subnets, Sequences, SequencesExt

CONSTANTS
    Owned,             \* the parent, the network
    RejectedIPs, RejectedSubnets,      \* what the filters reject
    MaxAttempts,       \* maxFilteredAllocationAttempts
    ReserveIPs, ReserveSubnets,        \* what users reserve
    MaxHeld            \* bound on what users hold

VARIABLES
    subnets,           \* subnetAllocator.reserved: counts by network
    ips,               \* ipAllocator.reserved: counts by address
    next,              \* ipAllocator.next
    granted,           \* networks and addresses allocated, counted
    held               \* networks and addresses reserved, counted

vars == <<subnets, ips, next, granted, held>>

Family == Owned.family
AllIPs == 0..(2^Bits[Family] - 1)
AllNetworks == UNION {Networks(f) : f \in DOMAIN Bits}
Zero(S) == [x \in S |-> 0]
Things == {<<"subnet", n>> : n \in AllNetworks} \cup {<<"ip", ip>> : ip \in AllIPs}
Users == FoldFunction(+, 0, granted) + FoldFunction(+, 0, held)

Init ==
    /\ subnets = Zero(AllNetworks) /\ ips = Zero(AllIPs)
    /\ next = NextIP(Family, FirstIP(Owned))
    /\ granted = Zero(Things) /\ held = Zero(Things)

GiveBack(thing) ==
    \/ granted[thing] > 0 /\ granted' = [granted EXCEPT ![thing] = @ - 1] /\ UNCHANGED held
    \/ held[thing] > 0 /\ held' = [held EXCEPT ![thing] = @ - 1] /\ UNCHANGED granted

GiveBackAll(kind) ==
    /\ granted' = [t \in Things |-> IF t[1] = kind THEN 0 ELSE granted[t]]
    /\ held' = [t \in Things |-> IF t[1] = kind THEN 0 ELSE held[t]]

----------------------------------------------------------------------------
(* subnetAllocator. *)

\* sortedBlockers.
Blockers ==
    {b \in {<<FirstIP(n), LastIP(n)>> : n \in {m \in AllNetworks : m.family = Family /\ subnets[m] > 0}} :
        b[2] >= FirstIP(Owned) /\ b[1] <= LastIP(Owned)}

RejectedStarts(prefix) == {n.ip : n \in {m \in RejectedSubnets : m.family = Family /\ m.prefix = prefix}}

\* alloc: from the start of the parent, once.
FoundSubnet(prefix) ==
    IF prefix \notin Owned.prefix..Bits[Family] THEN None
    ELSE LET start == Search(Owned, Size(Family, prefix), FirstIP(Owned), FALSE, Blockers,
                             RejectedStarts(prefix), MaxAttempts)
         IN  IF start = -1 THEN None ELSE Network(Family, start, prefix)

ReserveSubnet(n) ==
    /\ Users < MaxHeld
    /\ subnets' = [subnets EXCEPT ![n] = @ + 1]
    /\ held' = [held EXCEPT ![<<"subnet", n>>] = @ + 1]
    /\ UNCHANGED <<ips, next, granted>>

AllocSubnet(prefix) ==
    /\ Users < MaxHeld
    /\ LET n == FoundSubnet(prefix)
       IN  /\ n # None
           /\ subnets' = [subnets EXCEPT ![n] = @ + 1]
           /\ granted' = [granted EXCEPT ![<<"subnet", n>>] = @ + 1]
    /\ UNCHANGED <<ips, next, held>>

FreeSubnet(n) ==
    /\ GiveBack(<<"subnet", n>>)
    /\ subnets' = [subnets EXCEPT ![n] = IF @ > 0 THEN @ - 1 ELSE 0]
    /\ UNCHANGED <<ips, next>>

FreeAllSubnets ==
    /\ subnets' = Zero(AllNetworks)
    /\ GiveBackAll("subnet")
    /\ UNCHANGED <<ips, next>>

----------------------------------------------------------------------------
(* ipAllocator. *)

Usable == (FirstIP(Owned) + 1)..(LastIP(Owned) - 1)

\* The order in which alloc looks at addresses.
Candidates ==
    LET start == IF next \in Usable THEN next ELSE FirstIP(Owned) + 1
        upTo(a, b) == IF a > b THEN <<>> ELSE [i \in 1..(b - a + 1) |-> a + i - 1]
    IN  upTo(start, LastIP(Owned) - 1) \o upTo(FirstIP(Owned) + 1, start - 1)

\* alloc, tryAlloc: -1 if every address is reserved or rejected, or as many as
\* MaxAttempts have been rejected. Here only the filter's calls are counted.
FoundIP ==
    LET order == Candidates
        free == {i \in DOMAIN order : ips[order[i]] = 0}
        hits == {i \in free : order[i] \notin RejectedIPs}
        hit == CHOOSE i \in hits : \A j \in hits : i <= j
    IN  IF hits = {} \/ Cardinality({i \in free : i < hit}) >= MaxAttempts THEN -1
        ELSE order[hit]

\* What normalizeUsableIP refuses is not reserved.
ReserveIP(ip) ==
    /\ Users < MaxHeld /\ ip \in Usable
    /\ ips' = [ips EXCEPT ![ip] = @ + 1]
    /\ held' = [held EXCEPT ![<<"ip", ip>>] = @ + 1]
    /\ UNCHANGED <<subnets, next, granted>>

AllocIP ==
    /\ Users < MaxHeld
    /\ LET ip == FoundIP
       IN  /\ ip # -1
           /\ ips' = [ips EXCEPT ![ip] = 1]
           /\ next' = NextIP(Family, ip)
           /\ granted' = [granted EXCEPT ![<<"ip", ip>>] = @ + 1]
    /\ UNCHANGED <<subnets, held>>

FreeIP(ip) ==
    /\ GiveBack(<<"ip", ip>>)
    /\ ips' = [ips EXCEPT ![ip] = IF @ > 0 THEN @ - 1 ELSE 0]
    /\ UNCHANGED <<subnets, next>>

FreeAllIP ==
    /\ ips' = Zero(AllIPs)
    /\ next' = NextIP(Family, FirstIP(Owned))
    /\ GiveBackAll("ip")
    /\ UNCHANGED subnets

Next ==
    \/ \E n \in ReserveSubnets : ReserveSubnet(n)
    \/ \E prefix \in 0..Bits[Family] : AllocSubnet(prefix)
    \/ \E n \in AllNetworks : FreeSubnet(n)
    \/ FreeAllSubnets
    \/ \E ip \in ReserveIPs : ReserveIP(ip)
    \/ AllocIP
    \/ \E ip \in AllIPs : FreeIP(ip)
    \/ FreeAllIP

Spec == Init /\ [][Next]_vars

----------------------------------------------------------------------------
(* Each table counts what users hold, so that giving back one of several   *)
(* reservations keeps the others, and nothing is allocated twice: allocated*)
(* subnets are disjoint and an allocated address has one owner.            *)
HandedOutOnce ==
    LET nets == {n \in AllNetworks : granted[<<"subnet", n>>] > 0}
    IN  /\ \A n \in AllNetworks : subnets[n] = granted[<<"subnet", n>>] + held[<<"subnet", n>>]
        /\ \A ip \in AllIPs : ips[ip] = granted[<<"ip", ip>>] + held[<<"ip", ip>>]
        /\ \A n, m \in nets : n # m => ~Overlap(<<n, m>>)
        /\ \A t \in Things : granted[t] <= 1

(* alloc finds what is free and accepted, or there is none, or the filter  *)
(* has said no as often as it is asked.                                    *)
FindsFree ==
    /\ \A prefix \in Owned.prefix..Bits[Family] :
           LET free == FreeStarts(Owned, Size(Family, prefix), Blockers)
               rejected == RejectedStarts(prefix)
               n == FoundSubnet(prefix)
           IN  IF n # None THEN n.ip \in free \ rejected
               ELSE free \subseteq rejected \/ Cardinality(free \cap rejected) >= MaxAttempts
    /\ LET free == {ip \in Usable : ips[ip] = 0}
       IN  IF FoundIP # -1 THEN FoundIP \in free \ RejectedIPs
           ELSE free \subseteq RejectedIPs \/ Cardinality(free \cap RejectedIPs) >= MaxAttempts
=============================================================================

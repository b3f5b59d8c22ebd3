--------------------------- MODULE FirewallRules ---------------------------
(***************************************************************************)
(* The policy of gonnect.Firewall and tun.Firewall: how a list of firewall *)
(* rules decides about an endpoint (firewall_config.go) and how Optimize   *)
(* rewrites the list (firewall_config_optimize.go).  Both firewalls        *)
(* install only optimised lists, so a rewrite that is not exact changes    *)
(* what every connection may do.                                           *)
(*                                                                         *)
(* A host text is a record, so that the model keeps what netip.ParseAddr,  *)
(* netip.ParsePrefix and path.Match tell apart and drops the characters.   *)
(* The order of hosts and of ports inside a rule never matters to the code *)
(* (they are sorted before they are compared): both are sets here.  Rules  *)
(* are merged in list order, so rules are a sequence.                      *)
(***************************************************************************)
EXTENDS Integers, Sequences, FiniteSets, SequencesExt

CONSTANTS
    AddrBits,          \* width of an address (32 or 128 in the code)
    MaxPort,           \* the largest port, ^uint16(0) in the code
    Expansions,        \* pattern text -> the literal names path.Match accepts
    Wild,              \* the pattern texts that hold one of * ? [
    Escaped,           \* the pattern texts that hold a backslash
    Cut,               \* pattern text -> what is left of it up to its first %
    Malformed,         \* the pattern texts path.Match rejects
    ReverseNames,      \* address -> the names FirewallDNSCache holds for it
    CandidateRules(_), \* the rules tried at a position of the list
    MaxRules,          \* bound on the length of the list
    Endpoints(_)       \* the endpoints the policies of a list are compared on

VARIABLES
    rules,             \* the list the owner wrote
    excludes,          \* optimizeFirewallRules(rules, false)
    includes           \* optimizeFirewallRules(rules, true)

vars == <<rules, excludes, includes>>

(***************************************************************************)
(* Texts.  A host text is "*", "", an address (plain or in its IPv4-mapped *)
(* IPv6 writing), a CIDR prefix whose base may have host bits, or a name   *)
(* pattern.                                                                *)
(***************************************************************************)
Text(kind, addr, bits, name) ==
    [kind |-> kind, addr |-> addr, bits |-> bits, name |-> name]

NoAddr == <<0, 0>>
AnyHost == Text("any", NoAddr, 0, "*")
EmptyHost == Text("empty", NoAddr, 0, "")
AddrText(a) == Text("addr", a, 0, "")
MappedText(a) == Text("mapped", a, 0, "")
PrefixText(a, bits) == Text("prefix", a, bits, "")
Pattern(p) == Text("pattern", NoAddr, 0, p)
NameKinds == {"any", "empty", "pattern"}

\* A network name: "" and "*", "ip", "tcp", "udp", "icmp", "ip:<number>" and
\* "ip:<word>" as kinds, each of the last five with or without a family 4 or 6,
\* or a name of some other protocol.
Network(kind, family) == [kind |-> kind, family |-> family]
NumberKinds == {"ip:6", "ip:47"}
NumberedKinds == NumberKinds \cup {"ip:word"}
TransportKinds == {"tcp", "udp", "icmp"}
IPKinds == {"ip"} \cup TransportKinds \cup NumberedKinds

(***************************************************************************)
(* Matching, firewall_config.go.                                           *)
(***************************************************************************)

\* Prefix.Masked: the base without its host bits.
Masked(a, bits) ==
    LET size == 2^(AddrBits - bits) IN <<a[1], a[2] - (a[2] % size)>>

\* Prefix.Contains: only addresses of the prefix's own family.
PrefixContains(prefix, a) ==
    prefix.addr[1] = a[1] /\ Masked(a, prefix.bits) = Masked(prefix.addr, prefix.bits)

\* path.Match; a malformed pattern matches nothing.
PathMatch(pattern, name) ==
    pattern \notin Malformed /\ name \in Expansions[pattern]

\* An empty list and a "*" match every host. The zone of an address is cut, in a
\* name a % stays.
compileFirewallHostSelector(hosts) ==
    [any      |-> hosts = {} \/ AnyHost \in hosts,
     addrs    |-> {h.addr : h \in {g \in hosts : g.kind \in {"addr", "mapped"}}},
     prefixes |-> {h \in hosts : h.kind = "prefix"},
     names    |-> {h.name : h \in {g \in hosts : g.kind = "pattern"}}]

\* An endpoint's host is a name or an address, mapped writings included, of which
\* the zone is cut.
parseFirewallHost(text) ==
    IF text.kind \in {"addr", "mapped"}
    THEN [addr |-> text.addr, name |-> ""]
    ELSE [addr |-> NoAddr, name |-> Cut[text.name].name]

addrMatches(selector, a) ==
    \/ a \in selector.addrs
    \/ \E prefix \in selector.prefixes : PrefixContains(prefix, a)

nameMatches(selector, name) ==
    name # "" /\ \E pattern \in selector.names : PathMatch(pattern, name)

\* Names are looked up for a numeric host only when its address did not match.
selectorMatches(selector, host) ==
    IF host.addr = NoAddr
    THEN nameMatches(selector, host.name)
    ELSE \/ addrMatches(selector, host.addr)
         \/ \E name \in ReverseNames[host.addr] : nameMatches(selector, name)

HostsMatch(hosts, host) ==
    LET selector == compileFirewallHostSelector(hosts)
    IN  selector.any \/ selectorMatches(selector, host)

\* Reversed ranges are read the right way round.
portMatches(rule, port) ==
    \/ rule.ports = {} /\ rule.ranges = {}
    \/ port \in rule.ports
    \/ \E r \in rule.ranges : \/ r[1] <= port /\ port <= r[2]
                              \/ r[2] <= port /\ port <= r[1]

firewallIPNetwork(network) ==
    network.kind \in IPKinds /\ network # Network("ip", 0)

firewallNetworkMatches(rule, network) ==
    \/ rule.kind \in {"", "*"}
    \/ rule = network
    \/ rule = Network("ip", 0) /\ firewallIPNetwork(network)
    \/ /\ rule.kind = "ip" /\ rule.family # 0
       /\ network.family = rule.family /\ network.kind # "ip"
    \/ /\ rule.kind \in TransportKinds \cup NumberedKinds /\ rule.family = 0
       /\ network.kind = rule.kind /\ network.family # 0

\* The protocol an IP packet must carry, by the rule's network name.
compileFirewallIPSelector(network) ==
    [version   |-> network.family,
     protocols |-> CASE network.kind \in {"", "*", "ip"} -> 0..255
                     [] network.kind \in {"tcp", "ip:6"} -> {6}
                     [] network.kind = "udp"   -> {17}
                     [] network.kind = "ip:47" -> {47}
                     [] OTHER -> {},
     icmp      |-> network.kind = "icmp"]

\* Rule.matchesIP, the version test and ipProtocolMatches.
IPNetworkMatches(rule, version, protocol) ==
    LET selector == compileFirewallIPSelector(rule)
    IN  /\ selector.version \in {0, version}
        /\ \/ protocol \in selector.protocols
           \/ selector.icmp /\ protocol = (IF version = 4 THEN 1 ELSE 58)

\* matchFirewallRules and matchFirewallAddrRules: the outgoing question asked
\* with a text and with an address.
matchFirewallRules(list, ep) ==
    \E i \in 1..Len(list) :
        /\ firewallNetworkMatches(list[i].network, ep.network)
        /\ portMatches(list[i], ep.port)
        /\ HostsMatch(list[i].hosts, parseFirewallHost(ep.peer))

\* matchFirewallIPRules: the outgoing question asked with a packet.
matchFirewallIPRules(list, ep) ==
    \E i \in 1..Len(list) :
        /\ IPNetworkMatches(list[i].network, ep.peer.addr[1], ep.protocol)
        /\ portMatches(list[i], ep.port)
        /\ HostsMatch(list[i].hosts, parseFirewallHost(ep.peer))

\* A rule with local hosts needs a known local endpoint.
LocalMatches(rule, ep) ==
    LET selector == compileFirewallHostSelector(rule.localHosts)
    IN  \/ selector.any
        \/ ep.localKnown /\ selectorMatches(selector, parseFirewallHost(ep.local))

\* matchIncomingFirewallRules and matchIncomingFirewallAddrRules.
matchIncomingFirewallRules(list, ep) ==
    \E i \in 1..Len(list) :
        /\ firewallNetworkMatches(list[i].network, ep.network)
        /\ portMatches(list[i], ep.port)
        /\ LocalMatches(list[i], ep)
        /\ HostsMatch(list[i].hosts, parseFirewallHost(ep.peer))

\* The version of an incoming packet is that of its local address, if known.
matchIncomingFirewallIPRules(list, ep) ==
    LET version == IF ep.localKnown THEN ep.local.addr[1] ELSE ep.peer.addr[1]
    IN  \E i \in 1..Len(list) :
            /\ IPNetworkMatches(list[i].network, version, ep.protocol)
            /\ portMatches(list[i], ep.port)
            /\ LocalMatches(list[i], ep)
            /\ HostsMatch(list[i].hosts, parseFirewallHost(ep.peer))

(***************************************************************************)
(* Optimisation, firewall_config_optimize.go.                              *)
(***************************************************************************)

\* A pattern that holds a wildcard itself is never taken as subsumed. Any other is
\* matched as it is written, its backslashes included.
firewallHostSubsumes(a, b) ==
    \/ a = b
    \/ a.kind = "prefix" /\ b.kind = "addr" /\ PrefixContains(a, b.addr)
    \/ a.kind = "prefix" /\ b.kind = "prefix" /\ a.bits <= b.bits /\ PrefixContains(a, b.addr)
    \/ /\ a.kind \in NameKinds /\ b.kind \in NameKinds
       /\ b.name \notin Wild /\ PathMatch(a.name, b.name)

removeSubsumedFirewallHosts(hosts) ==
    {h \in hosts : ~\E c \in hosts \ {h} : firewallHostSubsumes(c, h)}

\* One host text in canonical writing: a name ends before its first %, mapped
\* addresses are unmapped and prefixes masked (canonicalFirewallPrefix).
CanonicalHost(text) ==
    LET h == IF text.kind = "pattern" THEN Cut[text.name] ELSE text
    IN  CASE h.kind = "mapped" -> AddrText(h.addr)
          [] h.kind = "prefix" -> PrefixText(Masked(h.addr, h.bits), h.bits)
          [] OTHER -> h

\* The hosts that can match, and whether the selector matches every host.
\* Empty texts are left out, and malformed patterns once they are cut.
canonicalFirewallHosts(hosts) ==
    IF hosts = {} \/ AnyHost \in hosts
    THEN [hosts |-> {}, any |-> TRUE]
    ELSE [hosts |-> removeSubsumedFirewallHosts(
                       {h \in {CanonicalHost(g) : g \in hosts \ {EmptyHost}} :
                            ~(h.kind = "pattern" /\ h.name \in Malformed)}),
          any   |-> FALSE]

\* Port intervals in the order of their first and then their last port.
SortedIntervals(intervals) ==
    SetToSortSeq(intervals, LAMBDA x, y : x[1] < y[1] \/ (x[1] = y[1] /\ x[2] < y[2]))

\* One round of the loop of canonicalFirewallPorts: join the interval to the
\* last one when they overlap or touch; the successor of the last port does not
\* wrap around to 0.
JoinInterval(merged, interval) ==
    IF merged = <<>> THEN <<interval>>
    ELSE LET last == merged[Len(merged)]
             adjacent == last[2] # MaxPort /\ interval[1] = (last[2] + 1) % (MaxPort + 1)
         IN  IF interval[1] <= last[2] \/ adjacent
             THEN IF interval[2] > last[2]
                  THEN Append(Front(merged), <<last[1], interval[2]>>)
                  ELSE merged
             ELSE Append(merged, interval)

canonicalFirewallPorts(ports, ranges) ==
    LET intervals == {<<p, p>> : p \in ports}
                     \cup {IF r[2] < r[1] THEN <<r[2], r[1]>> ELSE r : r \in ranges}
        merged == ToSet(FoldLeft(JoinInterval, <<>>, SortedIntervals(intervals)))
    IN  [ports  |-> {i[1] : i \in {m \in merged : m[1] = m[2]}},
         ranges |-> {m \in merged : m[1] # m[2]}]

\* Exclude rules never look at the local host, so Optimize drops it there.
canonicalFirewallRule(rule, matchLocalHosts) ==
    LET ports == canonicalFirewallPorts(rule.ports, rule.ranges)
    IN  [network    |-> IF rule.network.kind = "*" THEN Network("", 0) ELSE rule.network,
         hosts      |-> canonicalFirewallHosts(rule.hosts).hosts,
         localHosts |-> IF matchLocalHosts
                        THEN canonicalFirewallHosts(rule.localHosts).hosts ELSE {},
         ports      |-> ports.ports,
         ranges     |-> ports.ranges]

\* A selector without one usable host matches nothing, and neither does its rule.
Useful(rule, matchLocalHosts) ==
    \A hosts \in {rule.hosts} \cup (IF matchLocalHosts THEN {rule.localHosts} ELSE {}) :
        LET canonical == canonicalFirewallHosts(hosts)
        IN  canonical.any \/ canonical.hosts # {}

firewallNetworkSubsumes(a, b) ==
    \/ a = b \/ a.kind = ""
    \/ a = Network("ip", 0) /\ b.kind \in IPKinds
    \/ a.kind = "ip" /\ a.family # 0 /\ b.family = a.family /\ b.kind # "ip"
    \/ /\ a.kind \in TransportKinds \cup NumberedKinds /\ a.family = 0
       /\ b.kind = a.kind /\ b.family # 0

firewallHostsSubsumes(a, b) ==
    \/ a = {}
    \/ b # {} /\ \A h \in b : \E c \in a : firewallHostSubsumes(c, h)

firewallRulePortIntervals(rule) == {<<p, p>> : p \in rule.ports} \cup rule.ranges

\* No interval at all stands for every port.
firewallPortsSubsume(a, b) ==
    LET aIntervals == firewallRulePortIntervals(a)
        bIntervals == firewallRulePortIntervals(b)
    IN  \/ aIntervals = {}
        \/ /\ bIntervals # {}
           /\ \A i \in bIntervals : \E k \in aIntervals : k[1] <= i[1] /\ k[2] >= i[2]

firewallRuleSubsumes(a, b) ==
    /\ firewallNetworkSubsumes(a.network, b.network)
    /\ firewallHostsSubsumes(a.hosts, b.hosts)
    /\ firewallHostsSubsumes(a.localHosts, b.localHosts)
    /\ firewallPortsSubsume(a, b)

\* Rules are visited in list order; a rule already dropped drops no other.
removeSubsumedFirewallRules(list) ==
    LET drop(keep, i) ==
            IF i \notin keep THEN keep
            ELSE {j \in keep : j = i \/ ~firewallRuleSubsumes(list[i], list[j])}
        kept == FoldLeft(drop, 1..Len(list), [i \in 1..Len(list) |-> i])
    IN  [n \in 1..Cardinality(kept) |-> list[SetToSortSeq(kept, <)[n]]]

mergeFirewallHostSelectors(a, b) ==
    IF a = {} \/ b = {} THEN {} ELSE canonicalFirewallHosts(a \cup b).hosts

NoPorts(rule) == rule.ports = {} /\ rule.ranges = {}

\* Mutant: rules with the same local hosts are joined whatever else differs.
MergeableLocal(a, b) == a.network = b.network /\ a.localHosts = b.localHosts

\* Two rules are joined only when they differ in one selector.
Mergeable(a, b) ==
    /\ a.network = b.network
    /\ Cardinality({f \in {"hosts", "localHosts"} : a[f] # b[f]}
                   \cup (IF <<a.ports, a.ranges>> # <<b.ports, b.ranges>>
                         THEN {"ports"} ELSE {})) <= 1

mergeFirewallRules(a, b) ==
    LET ports == IF NoPorts(a) \/ NoPorts(b) THEN [ports |-> {}, ranges |-> {}]
                 ELSE canonicalFirewallPorts(a.ports \cup b.ports, a.ranges \cup b.ranges)
    IN  IF a.hosts = b.hosts /\ a.localHosts = b.localHosts
        THEN [a EXCEPT !.ports = ports.ports, !.ranges = ports.ranges]
        ELSE IF a.localHosts = b.localHosts
             THEN [a EXCEPT !.hosts = mergeFirewallHostSelectors(a.hosts, b.hosts)]
             ELSE [a EXCEPT !.localHosts = mergeFirewallHostSelectors(a.localHosts, b.localHosts)]

\* The loop of optimizeFirewallRules: join the first pair that can be joined
\* and start again.
RECURSIVE MergeAll(_)
MergeAll(list) ==
    LET pairs == {p \in (1..Len(list)) \X (1..Len(list)) :
                     p[1] < p[2] /\ Mergeable(list[p[1]], list[p[2]])}
    IN  IF pairs = {} THEN list
        ELSE LET p == CHOOSE p \in pairs : \A q \in pairs :
                          p[1] < q[1] \/ (p[1] = q[1] /\ p[2] <= q[2])
                 joined == RemoveAt([list EXCEPT ![p[1]] =
                               mergeFirewallRules(list[p[1]], list[p[2]])], p[2])
             IN  MergeAll(removeSubsumedFirewallRules(joined))

\* The final sort.Slice orders the rules by text, which no decision depends on.
optimizeFirewallRules(list, matchLocalHosts) ==
    LET useful == SelectSeq(list, LAMBDA rule : Useful(rule, matchLocalHosts))
    IN  MergeAll(removeSubsumedFirewallRules(
            [i \in 1..Len(useful) |-> canonicalFirewallRule(useful[i], matchLocalHosts)]))

(***************************************************************************)
(* The owner writes a list rule by rule; Merge appends the lists of        *)
(* several owners and optimises the result, which is the same question.    *)
(***************************************************************************)
Init == rules = <<>> /\ excludes = <<>> /\ includes = <<>>

AddRule ==
    /\ Len(rules) < MaxRules
    /\ \E rule \in CandidateRules(rules) :
        /\ rules' = Append(rules, rule)
        /\ excludes' = optimizeFirewallRules(rules', FALSE)
        /\ includes' = optimizeFirewallRules(rules', TRUE)

Next == AddRule

Spec == Init /\ [][Next]_vars

(***************************************************************************)
(* Properties.                                                             *)
(***************************************************************************)

HostTexts == UNION {rules[i].hosts \cup rules[i].localHosts : i \in 1..Len(rules)}
Names == {h.name : h \in {g \in HostTexts : g.kind = "pattern"}}
NoEscapes == Names \cap Escaped = {}
NoZones == \A name \in Names : Cut[name] = Pattern(name)

\* The answers to an endpoint's questions: those the connections ask and, for an
\* address, those the packets ask.
Answers(outgoing, incoming, ep) ==
    <<matchFirewallRules(outgoing, ep), matchIncomingFirewallRules(incoming, ep)>>
    \o IF ep.peer.kind = "pattern" THEN <<>>
       ELSE <<matchFirewallIPRules(outgoing, ep), matchIncomingFirewallIPRules(incoming, ep)>>

\* "Optimize returns a canonical, independent config with the same policy"
\* (firewall_config_optimize.go:13): for every endpoint the optimised lists
\* answer every one of the questions the firewalls ask as the written list does,
\* if no name in it holds a backslash or a %.  What canonicalFirewallHosts cuts
\* behind a % of a name only ever makes rules match more.
SamePolicy ==
    \A ep \in Endpoints(rules) :
        LET written == Answers(rules, rules, ep)
            optimised == Answers(excludes, includes, ep)
        IN  /\ NoEscapes => \A q \in DOMAIN written : written[q] => optimised[q]
            /\ NoEscapes /\ NoZones => written = optimised

\* What Optimize returns needs no further optimisation: run again, on the same
\* rules in any order, it changes nothing (both constructors and SetConfig
\* optimise lists that Merge has optimised already).  A list with a % in a name may
\* take two rounds, because "*%eth0" is "*" after the first.
OptimizedOnce ==
    NoZones =>
        /\ \A list \in SetToSeqs(ToSet(excludes)) :
               ToSet(optimizeFirewallRules(list, FALSE)) = ToSet(excludes)
        /\ \A list \in SetToSeqs(ToSet(includes)) :
               ToSet(optimizeFirewallRules(list, TRUE)) = ToSet(includes)

\* "FirewallConfig defines the common policy used by Firewall and tun.Firewall"
\* (firewall_config.go:67): the decision on a transport named tcp4, udp6 and so
\* on, which Firewall asks for by name, is the one tun.Firewall takes for the
\* packet's version and protocol number.  A rule that names one of these
\* transports by number (ip:6) is known to packets only.
CommonPolicy ==
    (\A i \in 1..Len(rules) : rules[i].network.kind # "ip:6") =>
        \A ep \in Endpoints(rules) :
            (ep.peer.kind # "pattern" /\ ep.network.kind \in TransportKinds \cup {"ip:47"}
             /\ ep.network.family = ep.peer.addr[1]) =>
                /\ matchFirewallRules(rules, ep) = matchFirewallIPRules(rules, ep)
                /\ matchIncomingFirewallRules(rules, ep) = matchIncomingFirewallIPRules(rules, ep)
=============================================================================

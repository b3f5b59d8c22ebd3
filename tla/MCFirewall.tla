----------------------------- MODULE MCFirewall -----------------------------
(* The firewalls in one run: their rules, their tables of responses and    *)
(* the batches of the tun's firewall, with those of a pipe between Tuns.   *)
(* Each behaviour is one of a single part, while the others rest in an     *)
(* initial state.                                                          *)
EXTENDS FirewallRules, TLC

CONSTANTS Peers, NoPeer, Senders, Receivers, SweepEvery, MaxTime, MaxQueue, MaxMoves,
          MaxBatch, MaxCalls

VARIABLES
    part,           \* the part that runs
    kind, config, now, responses, recorded, snd, rcv, inbox, reached, granted, latest,
    shortened, moves,                                             \* FirewallResponses
    passes, roomy, bufs, kept, err, from, got, calls,          \* FirewallTun
    shut, wpc, written, rpc, room, told, reads, arrived        \* TunChannel

responseVars == <<kind, config, now, responses, recorded, snd, rcv, inbox, reached, granted,
                  latest, shortened, moves>>
batchVars == <<passes, roomy, bufs, kept, err, from, got, calls>>
pipeVars == <<shut, wpc, written, rpc, room, told, reads, arrived>>

(* Policies that differ in what they let in, in what they deny and in how  *)
(* long they remember.                                                     *)
MCConfigs ==
    {[exclude |-> {}, include |-> {}, ttl |-> 1], [exclude |-> {}, include |-> {}, ttl |-> 2],
     [exclude |-> Peers, include |-> Peers, ttl |-> 1]}

Responses == INSTANCE FirewallResponses WITH Configs <- MCConfigs

Batches == INSTANCE FirewallTun

Pipe == INSTANCE TunChannel WITH
    Writers <- Senders, Readers <- Receivers, Batch <- 2, MaxReads <- MaxBatch,
    closed <- shut, n <- told, got <- arrived

ResponsesRest ==
    Responses!Init /\ kind = "conn" /\ config = [exclude |-> {}, include |-> {}, ttl |-> 1]
BatchesRest == Batches!Init /\ passes = <<TRUE>> /\ roomy = <<TRUE>>

PartsInit ==
    /\ Init /\ Pipe!Init
    /\ \/ part \in {"rules", "pipe"} /\ ResponsesRest /\ BatchesRest
       \/ part = "responses" /\ Responses!Init /\ config.ttl = 2 /\ BatchesRest
       \/ part = "batches" /\ ResponsesRest /\ Batches!Init

PartsNext ==
    /\ \/ part = "rules" /\ Next /\ UNCHANGED <<responseVars, batchVars, pipeVars>>
       \/ part = "responses" /\ Responses!Next /\ UNCHANGED <<vars, batchVars, pipeVars>>
       \/ part = "batches" /\ Batches!Next /\ UNCHANGED <<vars, responseVars, pipeVars>>
       \/ part = "pipe" /\ Pipe!Next /\ UNCHANGED <<vars, responseVars, batchVars>>
    /\ UNCHANGED part

firewallVars == <<part, vars, responseVars, batchVars, pipeVars>>

PartsSpec == PartsInit /\ [][PartsNext]_firewallVars

Symmetry == Permutations(Peers) \cup Permutations(Senders)

ResponsesSpec == part = "responses" /\ PartsSpec

----------------------------------------------------------------------------

MCExpansions == ("n" :> {"n"}) @@ ("m" :> {"m"}) @@ ("n*" :> {"n", "nn", "n%z"}) @@ ("bad" :> {"m"})
                @@ ("?n" :> {"nn", "\\n"}) @@ ("\\n" :> {"n"}) @@ ("n%z" :> {"n%z"}) @@ ("*%z" :> {"n%z"})
                @@ ("%z" :> {"%z"}) @@ ("*" :> {"n", "m", "nn", "\\n", ""}) @@ ("" :> {""})
MCEscaped == {"\\n"}
MCCut == [p \in DOMAIN MCExpansions \cup {"nn"} |->
            CASE p = "n%z" -> Pattern("n") [] p = "*%z" -> AnyHost [] p = "%z" -> EmptyHost
              [] OTHER -> Pattern(p)]
MCReverseNames == [a \in ({4, 6} \X (0..3)) |-> IF a = <<4, 3>> THEN {"n", "m"} ELSE {}]

Rule(network, hosts, localHosts, ports, ranges) ==
    [network |-> network, hosts |-> hosts, localHosts |-> localHosts,
     ports |-> ports, ranges |-> ranges]

V4(n) == AddrText(<<4, n>>)
TCP == Network("tcp", 0)

\* Lists of one family vary the network names ...
NetworkNames ==
    {Network(k, 0) : k \in {"", "*", "other"}}
    \cup {Network(k, f) : k \in IPKinds, f \in {0, 4, 6}}
NetworkRules == {Rule(n, h, {}, {}, {}) : n \in NetworkNames, h \in {{}, {V4(1)}}}

\* ... of another the hosts and the ports ...
HostSelectors ==
    {{}, {V4(1)}, {V4(1), MappedText(<<4, 2>>)}, {MappedText(<<4, 1>>)},
     {PrefixText(<<4, 1>>, 1)}, {PrefixText(<<4, 2>>, 0), V4(3)}, {PrefixText(<<6, 0>>, 0)},
     {Pattern("n")}, {Pattern("n*"), Pattern("n")}, {Pattern("n*"), V4(2)},
     {Pattern("bad")}, {Pattern("bad"), Pattern("m")}, {EmptyHost}, {AnyHost, V4(1)},
     {Pattern("n%z"), Pattern("m")}, {Pattern("*%z")}, {Pattern("*%z"), Pattern("%z"), Pattern("\\n")},
     {Pattern("?n")}, {Pattern("\\n")}}
PortSelectors ==
    {<<{}, {}>>, <<{1}, {}>>, <<{}, {<<2, 1>>}>>, <<{0, 3}, {}>>,
     <<{1}, {<<2, 3>>}>>, <<{}, {<<0, 1>>, <<1, 3>>}>>}
SelectorRules ==
    {Rule(TCP, h, {}, p[1], p[2]) : h \in HostSelectors, p \in PortSelectors}

\* ... and of the third all three selectors, in lists long enough for a merge to
\* make the next merge possible.
MergeRules ==
    {Rule(TCP, h, l, p[1], p[2]) :
        h \in {{}, {V4(1)}, {PrefixText(<<4, 2>>, 1)}},
        l \in {{}, {V4(1)}},
        p \in {<<{1}, {}>>, <<{2}, {}>>, <<{}, {<<2, 3>>}>>}}

Families == {NetworkRules, SelectorRules, MergeRules}
Short(f) == f # MergeRules

MCCandidateRules(list) ==
    IF list = <<>> THEN UNION Families
    ELSE UNION {f \in Families : ToSet(list) \subseteq f /\ (Short(f) => Len(list) < 2)}

Endpoint(network, protocol, peer, port, local, localKnown) ==
    [network |-> network, protocol |-> protocol, peer |-> peer, port |-> port,
     local |-> local, localKnown |-> localKnown]

ProtocolOf(n) == CASE n.kind = "tcp" -> 6 [] n.kind = "udp" -> 17 [] n.kind = "ip:47" -> 47
                   [] n.kind = "ip:6" -> 6 [] n.kind = "icmp" /\ n.family = 6 -> 58
                   [] n.kind = "icmp" -> 1 [] OTHER -> 99

NetworkEndpoints ==
    {Endpoint(n, ProtocolOf(n), p, 1, p, TRUE) : n \in NetworkNames \ {Network("*", 0)},
                                               p \in {V4(1), AddrText(<<6, 1>>)}}
SelectorEndpoints ==
    {Endpoint(Network("tcp", 4), 6, p, port, V4(0), FALSE) :
        p \in {V4(n) : n \in 0..3} \cup {AddrText(<<6, 1>>), Pattern("n"), Pattern("nn"), Pattern("m"),
                                           Pattern("n%z")}
              \cup {MappedText(<<4, 2>>)},
        port \in 0..3}
MergeEndpoints ==
    {Endpoint(Network("tcp", 4), 6, V4(p), port, V4(l), known) :
        p \in 0..2, port \in 1..3, l \in 0..1, known \in BOOLEAN}

MCEndpoints(list) ==
    CASE list = <<>> -> {}
      [] list # <<>> /\ ToSet(list) \subseteq NetworkRules -> NetworkEndpoints
      [] list # <<>> /\ ToSet(list) \subseteq SelectorRules -> SelectorEndpoints
      [] OTHER -> MergeEndpoints

----------------------------------------------------------------------------
(* FirewallRules: a rule means the same, however it is written, merged and *)
(* ordered, and optimising twice changes nothing.                          *)
PolicyKept == SamePolicy /\ OptimizedOnce /\ CommonPolicy

(* FirewallResponses: what is let in as a response answers a datagram that *)
(* was allowed, on a connection one that was sent, and sweeping entries    *)
(* changes no answer.                                                      *)
ResponseEarned == Responses!ResponseEarned /\ Responses!SweepInvisible

(* FirewallResponses: the tun's firewall discards no answer within its     *)
(* lease, unless a record has cut that short.                              *)
TunResponsePasses == Responses!TunResponsePasses

(* FirewallResponses: neither does the firewall of a connection.           *)
ConnResponsePasses == Responses!ConnResponsePasses

(* FirewallTun: Read hands out the allowed packets in order, and a caller  *)
(* of Write that goes on where Write says loses and doubles none.          *)
(* TunChannel: what two writers send to one reader of a pipe is read once, *)
(* in the order of each, as far as their calls count it.                   *)
BatchesExact == Batches!ReadCompacts /\ Batches!WriteResumes /\ Pipe!ReadOnce
=============================================================================

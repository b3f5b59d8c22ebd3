---------------------------- MODULE MCMiddleware -----------------------------
(* What stands between a user and a backend, in one run: the detached Tun, *)
(* the Splitter with a frontend of it, and the DNS components. Each        *)
(* behaviour is one of a single part. The detached Tun has its own         *)
(* variables; the other parts are instantiated with the same ones, which   *)
(* hold the state of the one that runs.                                    *)
EXTENDS DetachedTun, Integers, TLC

CONSTANTS Users, Attachers, QueueCap, MaxUps, MaxChans, Backends, Indexes, MaxMoves, Asked,
          Upstream, Others, FallbackSlots, MaxChanges, MaxAttach, Host, Alias, Addr, MaxTime,
          Datagrams, Limit

VARIABLES
    part,           \* the part that runs
    s1, s2, s3, s4, s5, s6, s7, s8, s9, s10, s11, s12, s13, s14, s15, s16, s17, s18   \* its variables, in the order of its module

all == <<s1, s2, s3, s4, s5, s6, s7, s8, s9, s10, s11, s12, s13, s14, s15, s16, s17, s18>>

(* A host and its alias share an address. An upstream gives the records of *)
(* an answer different TTLs, none of the first for one answer.             *)
Record(name, data, ttl) == [name |-> name, data |-> data, ttl |-> ttl]
MCAnswers ==
    (Host :> {<<Record(Host, Addr, 1)>>, <<Record(Host, Addr, 2), Record(Alias, Addr, 1)>>,
              <<Record(Host, Addr, 0), Record(Host, Addr, 2)>>})
    @@ (Alias :> {<<Record(Alias, Addr, 2)>>})
    @@ (Addr :> {<<Record(Addr, Alias, 1)>>})
MCServers == <<[net |-> "dot", addrs |-> 2], [net |-> "udp", addrs |-> 2]>>

Frontend == INSTANCE SplitFrontend WITH
    Callers <- Users, splitterDone <- s1, up <- s2, closed <- s3, done <- s4, doneClosed <- s5,
    eff <- s6, effOf <- s7, effClosed <- s8, closing <- s9, reading <- s10, delivering <- s11,
    writing <- s12, queue <- s13, pumping <- s14, sent <- s15

Split == INSTANCE Splitter WITH
    Nobody <- None, Callers <- Attachers, Frontends <- Users, closed <- s1, backend <- s2,
    table <- s3, index <- s4, open <- s5, up <- s6, bclosed <- s7, rpc <- s8, todo <- s9,
    wpc <- s10, tunUp <- s11, tunClosed <- s12, events <- s13, moves <- s14, writer <- s15,
    pc <- s16, mine <- s17, toClose <- s18

Fallback == INSTANCE DnsFallback WITH
    Requests <- Asked, Upstreams <- {Upstream}, Slots <- 1..FallbackSlots, Nobody <- None,
    closed <- s1, loop <- s2, returned <- s3, pc <- s4, cancelled <- s5, last <- s6, slots <- s7,
    changed <- s8, fclosed <- s9, changes <- s10, slot <- s11, using <- s12, tried <- s13,
    stable <- s14

Routed == INSTANCE DnsRouter WITH
    Requests <- Asked, Backends <- {Upstream} \cup Others, Names <- {"m", "n"}, Nobody <- None,
    closed <- s1, loop <- s2, returned <- s3, pc <- s4, cancelled <- s5, last <- s6,
    backends <- s7, route <- s8, done <- s9, rclosed <- s10, seen <- s11, using <- s12,
    config <- s13

Cached == INSTANCE DnsCache WITH
    Requests <- Users, Names <- {Host, Alias}, Addrs <- {Addr}, Upstreams <- {Upstream},
    Nobody <- None, Answers <- MCAnswers, MaxAttach <- 1, closed <- s1, loop <- s2,
    returned <- s3, pc <- s4, cancelled <- s5, last <- s6, storage <- s7, upstream <- s8,
    gen <- s9, now <- s10, attached <- s11, asks <- s12, mine <- s13, at <- s14, reply <- s15,
    stored <- s16, hit <- s17, given <- s18

Asking == INSTANCE DnsClient WITH
    Requests <- Asked, Servers <- MCServers, closed <- s1, loop <- s2, returned <- s3, pc <- s4,
    cancelled <- s5, last <- s6, server <- s7, attempt <- s8, results <- s9, taken <- s10,
    first <- s11, expired <- s12, valid <- s13

Serving == INSTANCE DnsServer WITH
    Packets <- Datagrams, Upstreams <- {Upstream}, Nobody <- None, tokens <- s1, serve <- s2,
    reading <- s3, upstream <- s4, gen <- s5, closed <- s6, returned <- s7, pc <- s8, mine <- s9,
    why <- s10

Injecting == INSTANCE DnsPackets WITH
    Packets <- Datagrams, closed <- s1, tokens <- s2, pc <- s3, expired <- s4, late <- s5

\* The variables from a number on, which a part does not have.
from16 == <<s16, s17, s18>>
from15 == <<s15, from16>>
from14 == <<s14, from15>>
from11 == <<s11, s12, s13, from14>>
from6 == <<s6, s7, s8, s9, s10, from11>>
from1 == <<s1, s2, s3, s4, s5, from6>>
Unused16 == s16 = None /\ s17 = None /\ s18 = None
Unused15 == s15 = None /\ Unused16
Unused14 == s14 = None /\ Unused15
Unused11 == s11 = None /\ s12 = None /\ s13 = None /\ Unused14
Unused6 == s6 = None /\ s7 = None /\ s8 = None /\ s9 = None /\ s10 = None /\ Unused11
Unused1 == s1 = None /\ s2 = None /\ s3 = None /\ s4 = None /\ s5 = None /\ Unused6

PartsInit ==
    \/ part = "tun" /\ Init /\ Unused1
    \/ part = "front" /\ Frontend!Init /\ Init /\ Unused16
    \/ part = "split" /\ Split!Init /\ Init
    \/ part = "fallback" /\ Fallback!Init /\ Init /\ Unused15
    \/ part = "route" /\ Routed!Init /\ Init /\ Unused14
    \/ part = "cache" /\ Cached!Init /\ Init
    \/ part = "client" /\ Asking!Init /\ Init /\ Unused14
    \/ part = "serve" /\ Serving!Init /\ Init /\ Unused11
    \/ part = "inject" /\ Injecting!Init /\ Init /\ Unused6

PartsNext ==
    /\ \/ part = "tun" /\ Next /\ UNCHANGED all
       \/ part = "front" /\ Frontend!Next /\ UNCHANGED vars /\ UNCHANGED from16
       \/ part = "split" /\ Split!Next /\ UNCHANGED vars
       \/ part = "fallback" /\ Fallback!Next /\ UNCHANGED vars /\ UNCHANGED from15
       \/ part = "route" /\ Routed!Next /\ UNCHANGED vars /\ UNCHANGED from14
       \/ part = "cache" /\ Cached!Next /\ UNCHANGED vars
       \/ part = "client" /\ Asking!Next /\ UNCHANGED vars /\ UNCHANGED from14
       \/ part = "serve" /\ Serving!Next /\ UNCHANGED vars /\ UNCHANGED from11
       \/ part = "inject" /\ Injecting!Next /\ UNCHANGED vars /\ UNCHANGED from6
    /\ UNCHANGED part

PartsSpec == PartsInit /\ [][PartsNext]_<<part, vars, all>>

Symmetry ==
    UNION {Permutations(S) : S \in {Backends, Users, Attachers}}

----------------------------------------------------------------------------
(* Splitter and SplitFrontend: what is replaced is closed, and no channel  *)
(* is closed twice.                                                        *)
ReplacedClosed ==
    /\ part = "split" => Split!ReplacedClosed
    /\ part = "front" => Frontend!DoneOnce

(* DnsFallback and DnsRouter: a request is answered by the upstream that   *)
(* the configuration names, although it changes meanwhile.                 *)
AnswererRight ==
    /\ part = "fallback" => Fallback!TriesInOrder
    /\ part = "route" => Routed!RoutedConsistently

(* DnsCache: no record is served, to a request or to the firewall, beyond  *)
(* its time.                                                               *)
CachedFresh == part = "cache" => Cached!HitsFresh /\ Cached!NamesBacked

(* DnsClient: no exchange outlives its request.                            *)
ExchangesEnd == part = "client" => Asking!ExchangesEnd

(* DnsServer and DnsPackets: there is a token for each handler.            *)
TokensExact ==
    /\ part = "serve" => Serving!TokensExact
    /\ part = "inject" => Injecting!TokensExact

(* DnsProvider: the component that runs answers what it accepts, once, and *)
(* its Close waits for it.                                                 *)
IsProvider == part \in {"fallback", "route", "cache", "client"}
Phase ==
    [r \in Users \cup Asked |->
        IF ~IsProvider \/ r \notin DOMAIN s4 THEN "offered"
        ELSE IF s4[r] \in {"offered", "answered"} THEN s4[r] ELSE "accepted"]

Contract == INSTANCE DnsContract WITH
    Requests <- Users \cup Asked, phase <- Phase, closed <- IsProvider /\ s1,
    loop <- IsProvider => s2, returned <- IsProvider /\ s3

KeepsContract == Contract!Spec
=============================================================================

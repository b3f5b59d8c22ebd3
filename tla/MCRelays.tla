------------------------------ MODULE MCRelays -------------------------------
(* What relays the traffic of others, in one run: the Joiner, its table of *)
(* flows and the Sniffer. Each behaviour is one of a single part. The      *)
(* Joiner has its own variables; the other parts are instantiated with the *)
(* same ones, which hold the state of the one that runs.                   *)
EXTENDS Joiner, TLC

CONSTANTS Timeout, Limit, MaxHeaders, MaxTime, Calls, Movers, Subs, MaxGen

VARIABLES
    part,           \* the part that runs
    s1, s2, s3, s4, s5, s6, s7, s8, s9, s10, s11, s12, s13, s14, s15, s16, s17
    \* its variables, in the order of its module

all == <<s1, s2, s3, s4, s5, s6, s7, s8, s9, s10, s11, s12, s13, s14, s15, s16, s17>>

(* Packets between a, which several Tuns share, and r; an error about one  *)
(* comes from a router between them.                                       *)
MCAddrs == {"a", "r", "router"}
Packet(src, dst, sport, dport, kind, frag) ==
    [src |-> src, dst |-> dst, sport |-> sport, dport |-> dport, kind |-> kind, frag |-> frag,
     id |-> 1, headers |-> 0, cut |-> "none", quoted |-> <<>>]
Query == Packet("a", "r", 1, 9, "flow", "whole")
Answer == Packet("r", "a", 9, 1, "flow", "whole")
MCOutbound ==
    {Query, [Query EXCEPT !.sport = 2], Packet("a", "r", 7, 7, "request", "whole"),
     [Query EXCEPT !.cut = "headers"]}
MCInbound ==
    {Answer, [Answer EXCEPT !.frag = "first"], Packet("r", "a", 0, 0, "flow", "later"),
     Packet("r", "a", 7, 7, "reply", "whole"),
     [Packet("router", "a", 0, 0, "error", "whole") EXCEPT !.quoted = [Query EXCEPT !.sport = 2]],
     [Answer EXCEPT !.headers = 2], [Answer EXCEPT !.cut = "all"]}

Flows == INSTANCE JoinerFlows WITH
    Outbound <- MCOutbound, Inbound <- MCInbound, Addrs <- MCAddrs, status <- s1,
    defaultTun <- s2, addrs <- s3, dyn <- s4, now <- s5, stamp <- s6

Sniff == INSTANCE Sniffer WITH
    up <- s1, closed <- s2, gen <- s3, doneClosed <- s4, closers <- s5, pc <- s6, op <- s7,
    mine <- s8, obj <- s9, ch <- s10, late <- s11, bridge <- s12, upstream <- s13, move <- s14,
    toClose <- s15, subs <- s16, subClosed <- s17

\* The variables from a number on, which a part does not have.
from7 == <<s7, s8, s9, s10, s11, s12, s13, s14, s15, s16, s17>>
from1 == <<s1, s2, s3, s4, s5, s6, from7>>
Unused7 == s7 = Nobody /\ s8 = Nobody /\ s9 = Nobody /\ s10 = Nobody /\ s11 = Nobody /\ s12 = Nobody
    /\ s13 = Nobody /\ s14 = Nobody /\ s15 = Nobody /\ s16 = Nobody /\ s17 = Nobody
Unused1 == s1 = Nobody /\ s2 = Nobody /\ s3 = Nobody /\ s4 = Nobody /\ s5 = Nobody /\ s6 = Nobody /\ Unused7

(* The Joiner, with its Tuns given, while another part runs. *)
Rests == Init /\ tunOf = [n \in Nested |-> CHOOSE t \in Tuns : TRUE]

PartsInit ==
    \/ part = "joiner" /\ Init /\ Unused1
    \/ part = "flows" /\ Flows!Init /\ Rests /\ Unused7
    \/ part = "sniffer" /\ Sniff!Init /\ Rests

PartsNext ==
    /\ \/ part = "joiner" /\ Next /\ Len(targets') <= 1 /\ UNCHANGED all
       \/ part = "flows" /\ Flows!Next /\ UNCHANGED vars /\ UNCHANGED from7
       \/ part = "sniffer" /\ Sniff!Next /\ UNCHANGED vars
    /\ UNCHANGED part

PartsSpec == PartsInit /\ [][PartsNext]_<<part, vars, all>>

FlowsSpec == part = "flows" /\ PartsSpec

Symmetry == 
    UNION {Permutations(S) : S \in {Tuns, Nested, Calls, Movers}}

----------------------------------------------------------------------------
(* JoinerFlows: the routes agree with each other, with the limit and with  *)
(* the Tuns attached, and answers and fragments follow their flow.         *)
RoutesExact == part = "flows" => Flows!RoutesExact /\ Flows!AnswersComeBack

(* JoinerFlows: a flow that is alive keeps the Tun it began with.          *)
FirstOwnerKeeps == [][part = "flows" => Flows!OwnersKept]_<<part, vars, all>>

(* Sniffer: every object that is open is in somebody's hands.              *)
NothingForgotten == part = "sniffer" => Sniff!NothingForgotten

(* JoinerFlows: expiring routes from the head of the list is the same as   *)
(* expiring each of them in time.                                          *)
SameAsImmediate == Flows!SameAsImmediate
=============================================================================

----------------------------- MODULE DnsPackets -----------------------------
(***************************************************************************)
(* dns.IPPacketAdapter (dns/ip_packet_adapter.go): callers feed IP packets *)
(* at the same time; each takes a token of the packetLimiter or waits for  *)
(* one until its timeout, and its handler asks the upstream and calls the  *)
(* callback with the response, unless the adapter was closed.              *)
(***************************************************************************)
EXTENDS Integers, FiniteSets

CONSTANTS Packets, Limit

VARIABLES
    closed,            \* IPPacketAdapter.closed (and done)
    tokens,            \* the number of tokens in the packetLimiter
    pc,                \* packet -> how far it is
    expired,           \* the packets whose timeout has passed
    late               \* history: packets fed after Close returned

vars == <<closed, tokens, pc, expired, late>>

Init ==
    /\ closed = FALSE /\ tokens = 0
    /\ pc = [p \in Packets |-> "new"]
    /\ expired = {} /\ late = {}

Go(p, to) == pc' = [pc EXCEPT ![p] = to]
Ended(p) == closed \/ p \in expired

Close ==
    /\ ~closed /\ closed' = TRUE
    /\ late' = {p \in Packets : pc[p] = "new"}
    /\ UNCHANGED <<tokens, pc, expired>>

Expire(p) ==
    /\ pc[p] \in {"acquire", "handle", "query"} /\ p \notin expired
    /\ expired' = expired \cup {p}
    /\ UNCHANGED <<closed, tokens, pc, late>>

\* FeedPacket up to the token: a packet that is no DNS query is dropped.
Feed(p) ==
    /\ pc[p] = "new"
    /\ Go(p, "dropped") \/ (~closed /\ Go(p, "acquire"))
    /\ UNCHANGED <<closed, tokens, expired, late>>

\* acquire: the token, or the end of the context.
Acquire(p) ==
    /\ pc[p] = "acquire"
    /\ \/ tokens < Limit /\ tokens' = tokens + 1 /\ Go(p, "handle")
       \/ Ended(p) /\ Go(p, "dropped") /\ UNCHANGED tokens
    /\ UNCHANGED <<closed, expired, late>>

Release == IF tokens > 0 THEN tokens - 1 ELSE 0

\* handleRequest returns.
Done(p) == Go(p, "dropped") /\ tokens' = Release

\* The first look at closed.
Handle(p) ==
    /\ pc[p] = "handle"
    /\ IF closed THEN Done(p) ELSE Go(p, "query") /\ UNCHANGED tokens
    /\ UNCHANGED <<closed, expired, late>>

\* query gives the upstream's response or a server failure, or nothing once the
\* context has ended.
Query(p) ==
    /\ pc[p] = "query"
    /\ \/ Go(p, "check") /\ UNCHANGED tokens
       \/ Ended(p) /\ Done(p)
    /\ UNCHANGED <<closed, expired, late>>

\* The second look, and buildDNSIPResponse, which may fail.
Check(p) ==
    /\ pc[p] = "check"
    /\ \/ Done(p)
       \/ ~closed /\ Go(p, "emit") /\ UNCHANGED tokens
    /\ UNCHANGED <<closed, expired, late>>

\* emit looks once more and calls the callback, which Close does not wait for.
Emit(p) ==
    /\ pc[p] = "emit"
    /\ IF closed THEN Done(p) ELSE Go(p, "callback") /\ UNCHANGED tokens
    /\ UNCHANGED <<closed, expired, late>>

Callback(p) ==
    /\ pc[p] = "callback"
    /\ Go(p, "answered") /\ tokens' = Release
    /\ UNCHANGED <<closed, expired, late>>

Handler(p) == Acquire(p) \/ Handle(p) \/ Query(p) \/ Check(p) \/ Emit(p) \/ Callback(p)

Next == Close \/ \E p \in Packets : Expire(p) \/ Feed(p) \/ Handler(p)

Spec == Init /\ [][Next]_vars

----------------------------------------------------------------------------
(* There are as many tokens as handlers, at most the limit, and a packet   *)
(* fed after Close is never answered.                                      *)
TokensExact ==
    /\ tokens = Cardinality({p \in Packets : pc[p] \notin {"new", "acquire", "answered", "dropped"}})
    /\ tokens <= Limit
    /\ \A p \in late : pc[p] \in {"new", "dropped"}
=============================================================================

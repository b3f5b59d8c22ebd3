------------------------------ MODULE DnsServer ------------------------------
(***************************************************************************)
(* dns.Server (dns/transport.go): one goroutine reads packets, takes a     *)
(* token of the packetLimiter for each and starts its handler; the handler *)
(* asks the attached upstream and writes the response.  Attach, Detach and *)
(* Close happen meanwhile.  Close waits for the goroutine that reads, not  *)
(* for the handlers.                                                       *)
(***************************************************************************)
EXTENDS Integers, FiniteSets

CONSTANTS
    Packets, Upstreams, Nobody,
    Limit,             \* MaxConcurrentRequests
    MaxAttach          \* bound on Attach

VARIABLES
    tokens,            \* the number of tokens in the packetLimiter
    serve, reading,    \* "read", "acquire", "spawn", "ended"; the packet read, or Nobody
    upstream, gen,     \* Server.upstream, Server.gen
    closed, returned,  \* closeOnce; Close has returned
    pc,                \* packet -> "sent", its handler's step, "answered", "servfail", "dropped"
    mine, why          \* packet -> generation it asks; history: why it was dropped

vars == <<tokens, serve, reading, upstream, gen, closed, returned, pc, mine, why>>

Init ==
    /\ tokens = 0 /\ serve = "read" /\ reading = Nobody
    /\ upstream = Nobody /\ gen = 1
    /\ closed = FALSE /\ returned = FALSE
    /\ pc = [p \in Packets |-> "sent"]
    /\ mine = [p \in Packets |-> 0]
    /\ why = [p \in Packets |-> "none"]

\* Attach, or Detach when u is Nobody.
Attach(u) ==
    /\ gen <= MaxAttach
    /\ upstream' = u /\ gen' = gen + 1
    /\ UNCHANGED <<tokens, serve, reading, closed, returned, pc, mine, why>>

Close ==
    /\ ~closed /\ closed' = TRUE
    /\ upstream' = Nobody /\ gen' = gen + 1
    /\ UNCHANGED <<tokens, serve, reading, returned, pc, mine, why>>

CloseReturns ==
    /\ closed /\ ~returned /\ serve = "ended"
    /\ returned' = TRUE
    /\ UNCHANGED <<tokens, serve, reading, upstream, gen, closed, pc, mine, why>>

----------------------------------------------------------------------------
(* serve. *)

others == <<upstream, gen, closed, returned, mine>>

Read(p) ==
    /\ serve = "read" /\ ~closed /\ pc[p] = "sent"
    /\ serve' = "acquire" /\ reading' = p
    /\ pc' = [pc EXCEPT ![p] = "read"]
    /\ UNCHANGED <<others, tokens, why>>

\* ReadFrom fails although nobody has called Close, and that is the end of serve.
ReadFails ==
    /\ serve = "read" /\ serve' = "ended"
    /\ UNCHANGED <<others, tokens, reading, pc, why>>

\* The packet connection is closed, or the context is.
ServeEnds ==
    /\ serve \in {"read", "acquire"} /\ closed
    /\ serve' = "ended" /\ reading' = Nobody
    /\ pc' = [p \in Packets |-> IF p = reading THEN "dropped" ELSE pc[p]]
    /\ why' = [p \in Packets |-> IF p = reading THEN "closed" ELSE why[p]]
    /\ UNCHANGED <<others, tokens>>

Acquire ==
    /\ serve = "acquire" /\ tokens < Limit
    /\ tokens' = tokens + 1 /\ serve' = "spawn"
    /\ UNCHANGED <<others, reading, pc, why>>

\* packetLimiter.release.
Release == IF tokens > 0 THEN tokens - 1 ELSE 0

\* spawn starts the handler, or fails and serve gives up.
Spawn ==
    /\ serve = "spawn" /\ reading' = Nobody
    /\ \/ /\ serve' = "read" /\ pc' = [pc EXCEPT ![reading] = "handle"]
          /\ UNCHANGED <<tokens, why>>
       \/ /\ serve' = "ended" /\ tokens' = Release
          /\ pc' = [pc EXCEPT ![reading] = "dropped"] /\ why' = [why EXCEPT ![reading] = "spawner"]
    /\ UNCHANGED others

----------------------------------------------------------------------------
(* handlePacket. *)

server == <<serve, reading, upstream, gen, closed, returned>>

\* The handler returns and its token with it.
Done(p, how) ==
    /\ tokens' = Release
    /\ pc' = [pc EXCEPT ![p] = how]

\* Mutant: a packet that does not parse keeps its token.
HandleLeaky(p) ==
    /\ pc[p] = "handle"
    /\ \/ pc' = [pc EXCEPT ![p] = "dropped"] /\ why' = [why EXCEPT ![p] = "malformed"] /\ UNCHANGED <<mine, tokens>>
       \/ upstream = Nobody /\ Done(p, "servfail") /\ UNCHANGED <<mine, why>>
       \/ /\ upstream # Nobody
          /\ mine' = [mine EXCEPT ![p] = gen] /\ pc' = [pc EXCEPT ![p] = "query"]
          /\ UNCHANGED <<tokens, why>>
    /\ UNCHANGED server

Handle(p) ==
    /\ pc[p] = "handle"
    /\ \/ Done(p, "dropped") /\ why' = [why EXCEPT ![p] = "malformed"] /\ UNCHANGED mine
       \/ upstream = Nobody /\ Done(p, "servfail") /\ UNCHANGED <<mine, why>>
       \/ /\ upstream # Nobody
          /\ mine' = [mine EXCEPT ![p] = gen] /\ pc' = [pc EXCEPT ![p] = "query"]
          /\ UNCHANGED <<tokens, why>>
    /\ UNCHANGED server

\* Query returns a response, or an error of the upstream or of the deadline.
Answered(p, how) ==
    /\ pc[p] = "query"
    /\ Done(p, how)
    /\ UNCHANGED <<server, mine, why>>

\* Query returns context.Canceled: the upstream was replaced, the Server closed,
\* or the upstream itself answers so (a Router whose routes changed does).
Cancelled(p, cause) ==
    /\ pc[p] = "query"
    /\ CASE cause = "detached" -> mine[p] # gen
         [] cause = "closed"   -> closed
         [] cause = "upstream" -> TRUE
    /\ Done(p, "dropped") /\ why' = [why EXCEPT ![p] = cause]
    /\ UNCHANGED <<server, mine>>

Handler(p) == Handle(p) \/ Answered(p, "servfail")

Next ==
    \/ \E u \in Upstreams \cup {Nobody} : Attach(u)
    \/ Close \/ CloseReturns \/ ReadFails \/ ServeEnds \/ Acquire \/ Spawn
    \/ \E p \in Packets :
          \/ Read(p) \/ Handler(p) \/ Answered(p, "answered")
          \/ \E c \in {"detached", "closed", "upstream"} : Cancelled(p, c)

Spec == Init /\ [][Next]_vars

(* serve, the handlers and Close go on; a Query ends by its deadline.      *)
Goroutines == Packets \cup {"serve", "close"}

Goroutine(g) ==
    \/ g \in Packets /\ Handler(g)
    \/ g = "serve" /\ (ServeEnds \/ Acquire \/ Spawn)
    \/ g = "close" /\ CloseReturns

Fairness == \A g \in Goroutines : WF_vars(Goroutine(g))

----------------------------------------------------------------------------
Active == {p \in Packets : pc[p] \in {"handle", "query"}}

(* A token is held for each handler that runs, and by serve between        *)
(* acquire and spawn: never more than MaxConcurrentRequests, and none is   *)
(* lost on any way out of a handler.                                       *)
TokensExact ==
    /\ tokens = Cardinality(Active) + (IF serve = "spawn" THEN 1 ELSE 0)
    /\ tokens <= Limit

(* A packet that was read is answered, unless it does not parse, or the    *)
(* request was cancelled; a handler that waits for a token gets one.       *)
Finished(p) == pc[p] \in {"answered", "servfail", "dropped"}
EveryPacketEnds == \A p \in Packets : pc[p] = "read" ~> Finished(p)
=============================================================================

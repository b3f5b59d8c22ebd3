------------------------------ MODULE DnsClient ------------------------------
(***************************************************************************)
(* dns.Client (dns/transport.go): a request tries the configured servers   *)
(* in order.  A server's host is resolved; udp and tcp servers try its     *)
(* addresses in order, dot servers all at once, one worker each, the first *)
(* valid response stopping the others.  A truncated udp response is asked  *)
(* for again over tcp.                                                     *)
(***************************************************************************)
EXTENDS DnsProvider, FiniteSets

CONSTANT
    Servers            \* sequence of [net, addrs]: scheme, number of addresses

VARIABLES
    server,            \* request -> the number of its server
    attempt,           \* request -> address -> how far exchangeAddr is
    results, taken,    \* request -> the results channel; how many were received
    first,             \* request -> address of the first valid response, or 0
    expired,           \* the requests whose timeout has passed
    valid              \* history: request -> the <<server, address>> that responded well

handlers == <<server, attempt, results, taken, first, expired, valid>>
vars == <<providerVars, handlers>>

Addresses == 1..2
Idle == [a \in Addresses |-> "none"]

Init ==
    /\ ProviderInit
    /\ server = [r \in Requests |-> 1]
    /\ attempt = [r \in Requests |-> Idle]
    /\ results = [r \in Requests |-> <<>>] /\ taken = [r \in Requests |-> 0]
    /\ first = [r \in Requests |-> 0]
    /\ expired = {}
    /\ valid = [r \in Requests |-> {}]

rest == <<closed, loop, returned, cancelled, expired>>
This(r) == Servers[server[r]]
Running(r) == {a \in Addresses : attempt[r][a] \in {"dial", "open", "again"}}

\* The context of the exchange: also cancelled by the first valid response.
Stopped(r) == Ended(r) \/ r \in expired \/ (pc[r] = "parallel" /\ first[r] # 0)

Expire(r) ==
    /\ Working(r) /\ r \notin expired
    /\ expired' = expired \cup {r}
    /\ UNCHANGED <<providerVars, server, attempt, results, taken, first, valid>>

\* The next server, after a failure of this one.
NextServer(r) ==
    /\ server' = [server EXCEPT ![r] = @ + 1]
    /\ attempt' = [attempt EXCEPT ![r] = Idle]
    /\ results' = [results EXCEPT ![r] = <<>>] /\ taken' = [taken EXCEPT ![r] = 0]
    /\ pc' = [pc EXCEPT ![r] = "server"]
    /\ last' = [last EXCEPT ![r] = "error"]

\* handle's loop and exchange up to the first dial: serverAddrs may fail, and so
\* may the spawner for each worker.
Begin(r) ==
    /\ pc[r] = "server"
    /\ \/ /\ server[r] > Len(Servers)
          /\ Answer(r, IF last[r] = "none" THEN "no upstream" ELSE last[r])
          /\ UNCHANGED <<server, attempt, results, taken>>
       \/ server[r] <= Len(Servers) /\ NextServer(r)
       \/ /\ server[r] <= Len(Servers) /\ This(r).net = "dot" /\ This(r).addrs > 1
          /\ \E failed \in SUBSET (1..This(r).addrs) :
                /\ attempt' = [attempt EXCEPT ![r] = [a \in Addresses |->
                                   IF a > This(r).addrs THEN "none"
                                   ELSE IF a \in failed THEN "failed" ELSE "dial"]]
                /\ results' = [results EXCEPT ![r] = [i \in 1..Cardinality(failed) |-> 0]]
          /\ pc' = [pc EXCEPT ![r] = "parallel"]
          /\ UNCHANGED <<last, server, taken>>
       \/ /\ server[r] <= Len(Servers) /\ ~(This(r).net = "dot" /\ This(r).addrs > 1)
          /\ attempt' = [attempt EXCEPT ![r] = [Idle EXCEPT ![1] = "dial"]]
          /\ pc' = [pc EXCEPT ![r] = "sequence"]
          /\ UNCHANGED <<last, server, results, taken>>
    /\ UNCHANGED <<rest, first, valid>>

\* An attempt goes on: the connection is open, or the response was truncated.
Goes(r, a, from, to) ==
    /\ attempt[r][a] = from
    /\ attempt' = [attempt EXCEPT ![r][a] = to]
    /\ UNCHANGED <<rest, pc, last, server, results, taken, first, valid>>

\* exchangeAddr has returned.
Ends(r, a, ok) ==
    /\ attempt' = [attempt EXCEPT ![r][a] = IF ok THEN "ok" ELSE "failed"]
    /\ valid' = [valid EXCEPT ![r] = IF ok THEN @ \cup {<<server[r], a>>} ELSE @]
    /\ results' = [results EXCEPT ![r] = Append(@, IF ok THEN a ELSE 0)]
    /\ UNCHANGED <<rest, pc, last, server, taken, first>>

Dialed(r, a) == Goes(r, a, "dial", "open")
Truncated(r, a) == Goes(r, a, "open", "again") /\ This(r).net = "udp"
Responds(r, a) == attempt[r][a] \in {"open", "again"} /\ Ends(r, a, TRUE)

\* The dial fails, the connection fails or is closed by closeConnOnContext, or
\* the response has another ID.
Fails(r, a) == a \in Running(r) /\ Ends(r, a, FALSE)

\* The loop over the addresses of a udp or tcp server.
After(r) ==
    LET a == Len(results[r])
    IN  /\ pc[r] = "sequence" /\ Running(r) = {}
        /\ IF results[r][a] # 0
           THEN /\ Answer(r, "answer")
                /\ first' = [first EXCEPT ![r] = a]
                /\ UNCHANGED <<server, attempt, results, taken>>
           ELSE /\ UNCHANGED first
                /\ IF a < This(r).addrs
                   THEN /\ attempt' = [attempt EXCEPT ![r][a + 1] = "dial"]
                        /\ UNCHANGED <<pc, last, server, results, taken>>
                   ELSE NextServer(r)
        /\ UNCHANGED <<rest, valid>>

\* Mutant: the first valid response is returned without waiting for the others.
CollectFirst(r) ==
    /\ pc[r] = "parallel" /\ taken[r] < Len(results[r])
    /\ LET a == results[r][taken[r] + 1]
       IN  /\ taken' = [taken EXCEPT ![r] = @ + 1]
           /\ first' = [first EXCEPT ![r] = IF @ = 0 THEN a ELSE @]
           /\ IF a # 0 THEN Answer(r, "answer") ELSE UNCHANGED <<pc, last>>
    /\ UNCHANGED <<rest, server, attempt, results, valid>>

\* exchangeDoTParallel receives a result.
Collect(r) ==
    /\ pc[r] = "parallel" /\ taken[r] < Len(results[r])
    /\ taken' = [taken EXCEPT ![r] = @ + 1]
    /\ first' = [first EXCEPT ![r] = IF @ = 0 THEN results[r][taken[r] + 1] ELSE @]
    /\ UNCHANGED <<rest, pc, last, server, attempt, results, valid>>

Collected(r) ==
    /\ pc[r] = "parallel" /\ taken[r] = This(r).addrs /\ Running(r) = {}
    /\ IF first[r] # 0
       THEN Answer(r, "answer") /\ UNCHANGED <<server, attempt, results, taken>>
       ELSE NextServer(r)
    /\ UNCHANGED <<rest, first, valid>>

Attempts(r) == \E a \in Addresses : Dialed(r, a) \/ Truncated(r, a) \/ Responds(r, a) \/ Fails(r, a)
Handler(r) == Begin(r) \/ After(r) \/ Collect(r) \/ Collected(r)

Next ==
    \/ (CancelRoot \/ LoopEnds \/ CloseReturns) /\ UNCHANGED handlers
    \/ \E r \in Requests :
          \/ (Cancel(r) \/ Accept(r, "server")) /\ UNCHANGED handlers
          \/ Expire(r) \/ Handler(r) \/ Attempts(r)

Spec == Init /\ [][Next]_vars

(* Handlers and Close go on, and the connections of an exchange that is    *)
(* stopped fail.                                                           *)
Goroutines ==
    {<<"provider", 0>>} \cup ({"handler", "timer"} \X Requests) \cup (Requests \X Addresses)

Goroutine(g) ==
    \/ g[1] = "provider" /\ (LoopEnds \/ CloseReturns) /\ UNCHANGED handlers
    \/ g[1] = "handler" /\ Handler(g[2])
    \/ g[1] = "timer" /\ Expire(g[2])
    \/ g \in Requests \X Addresses /\ Stopped(g[1]) /\ Fails(g[1], g[2])

Fairness == \A g \in Goroutines : WF_vars(Goroutine(g))

----------------------------------------------------------------------------
(* "This prevents an exchange from outliving its request or Client.Close": *)
(* when a request is answered none of its exchanges runs, and what it is   *)
(* answered is a valid response of the first server that gave one; it      *)
(* fails only if no server did.                                            *)
ExchangesEnd ==
    \A r \in Requests :
        pc[r] = "answered" =>
            /\ Running(r) = {}
            /\ last[r] = "answer" =>
                  <<server[r], first[r]>> \in valid[r] /\ \A v \in valid[r] : v[1] = server[r]
            /\ last[r] # "answer" => valid[r] = {}
=============================================================================

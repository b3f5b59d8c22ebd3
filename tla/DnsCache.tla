------------------------------ MODULE DnsCache ------------------------------
(***************************************************************************)
(* dns.Cache over a MemoryStorage (dns/middleware.go), with reverse        *)
(* lookups enabled: hits are served from the storage, misses go to the     *)
(* upstream and their answers are stored if the upstream is still the      *)
(* same, under the question and, for each address, as a PTR answer.  The   *)
(* PTR entries also feed the firewall (CachedReverseDNSNames).             *)
(* An answer is a sequence of records [name, data, ttl].                   *)
(***************************************************************************)
EXTENDS DnsProvider

CONSTANTS
    Names, Addrs,      \* what questions are about: A of a name, PTR of an address
    Upstreams, Nobody,
    Answers,           \* question -> the answers an upstream may give
    MaxTime, MaxAttach \* bounds on the clock and on Attach

VARIABLES
    storage,           \* key -> [answer, expire]
    upstream, gen,     \* Cache.upstream, Cache.gen
    now, attached,     \* the clock; the number of calls to Attach
    asks, mine, at,    \* request -> question; generation it uses; time of its answer
    reply, stored,     \* request -> its answer; the records stored in reverse
    hit, given         \* history: requests served from the storage; the upstreams' answers

own == <<storage, upstream, gen, attached>>
handlers == <<asks, mine, at, reply, stored, hit, given>>
vars == <<providerVars, own, handlers, now>>

\* The names of ptrCacheNames: the reverse name, and the literal address that
\* CachedReverseDNSNames looks up.
Literal(a) == <<a>>
Keys == Names \cup Addrs \cup {Literal(a) : a \in Addrs}
Empty == [answer |-> <<>>, expire |-> 0]

Init ==
    /\ ProviderInit
    /\ storage = [k \in Keys |-> Empty]
    /\ upstream \in Upstreams /\ gen = 1 /\ attached = 0 /\ now = 0
    /\ asks \in [Requests -> Names \cup Addrs]
    /\ mine = [r \in Requests |-> 0] /\ at = [r \in Requests |-> 0]
    /\ reply = [r \in Requests |-> <<>>] /\ stored = [r \in Requests |-> 0]
    /\ hit = {} /\ given = {}

----------------------------------------------------------------------------
(* MemoryStorage. *)

\* Mutant: an entry is good until after its last second.
FreshInclusive(entry, t) == entry.answer # <<>> /\ t <= entry.expire

Fresh(entry, t) == entry.answer # <<>> /\ t < entry.expire

\* Get deletes what has expired.
Get(k) == IF Fresh(storage[k], now) THEN storage ELSE [storage EXCEPT ![k] = Empty]

minTTL(answer) ==
    LET ttl[i \in 0..Len(answer)] ==
            IF i = 0 THEN 0
            ELSE IF ttl[i - 1] = 0 \/ answer[i].ttl < ttl[i - 1] THEN answer[i].ttl ELSE ttl[i - 1]
    IN  ttl[Len(answer)]

Set(s, k, answer, t) ==
    IF minTTL(answer) = 0 THEN s
    ELSE [s EXCEPT ![k] = [answer |-> answer, expire |-> t + minTTL(answer)]]

----------------------------------------------------------------------------
(* Cache. *)

\* Attach, or Detach when u is Nobody.
Attach(u) ==
    /\ attached < MaxAttach
    /\ attached' = attached + 1 /\ upstream' = u /\ gen' = gen + 1
    /\ UNCHANGED <<providerVars, storage, handlers, now>>

\* Close: Detach, and the provider's Close.
Close ==
    /\ CancelRoot
    /\ upstream' = Nobody /\ gen' = gen + 1
    /\ UNCHANGED <<storage, attached, handlers, now>>

Tick ==
    /\ now < MaxTime /\ now' = now + 1
    /\ UNCHANGED <<providerVars, own, handlers>>

rest == <<closed, loop, returned, cancelled, upstream, gen, attached, now, asks>>

\* handle: the storage first, then the upstream of the moment.
Look(r) ==
    LET k == asks[r]
    IN  /\ pc[r] = "look"
        /\ storage' = Get(k)
        /\ IF Fresh(storage[k], now)
           THEN /\ Answer(r, "answer")
                /\ reply' = [reply EXCEPT ![r] = storage[k].answer]
                /\ at' = [at EXCEPT ![r] = now]
                /\ hit' = hit \cup {r}
           ELSE /\ pc' = [pc EXCEPT ![r] = "current"]
                /\ UNCHANGED <<last, reply, at, hit>>
        /\ UNCHANGED <<rest, mine, stored, given>>

Current(r) ==
    /\ pc[r] = "current"
    /\ IF upstream = Nobody
       THEN Answer(r, "no upstream") /\ UNCHANGED mine
       ELSE /\ pc' = [pc EXCEPT ![r] = "query"]
            /\ mine' = [mine EXCEPT ![r] = gen]
            /\ UNCHANGED last
    /\ UNCHANGED <<rest, storage, at, reply, stored, hit, given>>

\* Query returns with an answer, and the time is taken.
Answered(r, answer) ==
    /\ pc[r] = "query"
    /\ pc' = [pc EXCEPT ![r] = "check"]
    /\ reply' = [reply EXCEPT ![r] = answer]
    /\ at' = [at EXCEPT ![r] = now]
    /\ given' = given \cup {[question |-> asks[r], answer |-> answer, at |-> now]}
    /\ UNCHANGED <<rest, last, storage, mine, stored, hit>>

\* Query returns with an error: of the upstream, or because its context ended.
Fails(r) ==
    /\ pc[r] = "query"
    /\ Answer(r, "error")
    /\ UNCHANGED <<rest, storage, mine, at, reply, stored, hit, given>>

\* stillCurrent, read under the lock and used after it.
Check(r) ==
    /\ pc[r] = "check"
    /\ IF mine[r] = gen
       THEN pc' = [pc EXCEPT ![r] = "store"] /\ UNCHANGED last
       ELSE Answer(r, "answer")
    /\ UNCHANGED <<rest, storage, mine, at, reply, stored, hit, given>>

Store(r) ==
    /\ pc[r] = "store"
    /\ storage' = Set(storage, asks[r], reply[r], at[r])
    /\ pc' = [pc EXCEPT ![r] = "reverse"]
    /\ UNCHANGED <<rest, last, mine, at, reply, stored, hit, given>>

\* One round of storeReverseLookups: the record's address leads to its name.
StoreReverse(r) ==
    LET i == stored[r] + 1
        a == reply[r][i].data
        ptr(k) == <<[name |-> k, data |-> reply[r][i].name, ttl |-> reply[r][i].ttl]>>
    IN  /\ pc[r] = "reverse"
        /\ IF i > Len(reply[r])
           THEN Answer(r, "answer") /\ UNCHANGED <<storage, stored>>
           ELSE /\ stored' = [stored EXCEPT ![r] = i]
                /\ storage' = IF a \in Addrs
                              THEN Set(Set(storage, a, ptr(a), at[r]), Literal(a), ptr(a), at[r])
                              ELSE storage
                /\ UNCHANGED <<pc, last>>
        /\ UNCHANGED <<rest, mine, at, reply, hit, given>>

Handler(r) == Look(r) \/ Current(r) \/ Check(r) \/ Store(r) \/ StoreReverse(r)

Next ==
    \/ \E u \in Upstreams \cup {Nobody} : Attach(u)
    \/ Close \/ Tick
    \/ (LoopEnds \/ CloseReturns) /\ UNCHANGED <<own, handlers, now>>
    \/ \E r \in Requests :
          \/ (Cancel(r) \/ Accept(r, "look")) /\ UNCHANGED <<own, handlers, now>>
          \/ Handler(r) \/ Fails(r)
          \/ \E answer \in Answers[asks[r]] : Answered(r, answer)

Spec == Init /\ [][Next]_vars

----------------------------------------------------------------------------
\* An upstream's answer that still holds for all its records at time t.
Holds(g, t) == \A i \in DOMAIN g.answer : g.answer[i].ttl = 0 \/ t < g.at + g.answer[i].ttl

\* Record i of an upstream's answer says, at time t, that host has address a.
Says(g, host, a, t) ==
    \E i \in DOMAIN g.answer :
        g.answer[i].data = a /\ g.answer[i].name = host /\ t < g.at + g.answer[i].ttl

(* A hit is an upstream's answer to the same question of which no record   *)
(* with a TTL has run out, or a name for an address that an upstream gave  *)
(* to that name for at least as long.                                      *)
HitsFresh ==
    \A r \in hit :
        \/ \E g \in given : g.question = asks[r] /\ g.answer = reply[r] /\ Holds(g, at[r])
        \/ asks[r] \in Addrs /\ \E g \in given : Says(g, reply[r][1].data, asks[r], at[r])

(* The names the firewall is given for an address, whenever it asks, are   *)
(* backed by an answer that still holds (CachedReverseDNSNames).           *)
NamesBacked ==
    \A a \in Addrs :
        LET entry == storage[Literal(a)]
        IN  Fresh(entry, now) => \E g \in given : Says(g, entry.answer[1].data, a, now)
=============================================================================

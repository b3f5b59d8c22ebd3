------------------------- MODULE FirewallResponses -------------------------
(***************************************************************************)
(* How the firewalls recognise responses.  gonnect.Firewall keeps a table  *)
(* per packet connection (firewallPacketState), tun.Firewall one per tun;  *)
(* both map the peer of an allowed outgoing datagram to the time until     *)
(* which its answers are let in without an Include rule.                   *)
(*                                                                         *)
(* The two differ in one place.  A connection's Write hands the datagram   *)
(* to the wrapped connection and then records the peer (kind "conn"); the  *)
(* tun's Read records the reversed flow and then hands the packet to its   *)
(* caller, who sends it on (kind "tun").                                   *)
(*                                                                         *)
(* Peers stand for firewallPeerKey and for reversed firewallFlow values;   *)
(* what a rule list decides is FirewallRules, here it is a set of peers.   *)
(***************************************************************************)
EXTENDS Integers, FiniteSets

CONSTANTS
    Peers, NoPeer,
    Senders,           \* goroutines in Write of one connection, or in Read of the tun
    Receivers,         \* goroutines reading a connection, or in Write of a tun
    Configs,           \* the policies: [exclude, include : SUBSET Peers, ttl : Nat]
    SweepEvery,        \* 256 in the code
    MaxTime, MaxQueue, \* bounds: the clock, the datagrams waiting at once,
    MaxMoves           \* the datagrams sent and policies installed together

VARIABLES
    kind,              \* which of the two firewalls this is
    config,            \* config, an atomic pointer
    now,               \* time.Now
    responses,         \* responses: peer -> expiry, 0 for no entry
    recorded,          \* recorded % SweepEvery
    snd,               \* per sender: pc, peer, ok, at, expires
    rcv,               \* per receiver: pc, d, at; how its last datagram fared
    inbox,             \* datagrams the wrapped side holds for a receiver
    reached,           \* per peer: until when it was told answers are welcome
    granted,           \* per peer: the longest lease earned by a datagram that was sent,
                       \* or by a packet that the tun is about to hand out
    latest,            \* per peer: the lease recorded last
    shortened,         \* the peers whose lease a record has replaced by a shorter one
    moves              \* sends and SetConfigs so far

table == <<responses, recorded, latest>>
vars == <<kind, config, now, table, snd, rcv, inbox, reached, granted, shortened, moves>>

Larger(a, b) == IF a > b THEN a ELSE b

Datagrams == [peer : Peers, about : Peers \cup {NoPeer}, until : 0..(2 * MaxTime)]
NoDatagram == [peer |-> NoPeer, about |-> NoPeer, until |-> 0]
NoSend == [pc |-> "idle", peer |-> NoPeer, ok |-> FALSE, at |-> 0, expires |-> 0]
NoReceive == [pc |-> "idle", d |-> NoDatagram, at |-> 0]

Init ==
    /\ kind \in {"conn", "tun"}
    /\ config \in Configs
    /\ now = 1
    /\ responses = [p \in Peers |-> 0] /\ recorded = 0
    /\ snd = [s \in Senders |-> NoSend]
    /\ rcv = [r \in Receivers |-> NoReceive]
    /\ inbox = {}
    /\ reached = [p \in Peers |-> 0]
    /\ granted = [p \in Peers |-> 0]
    /\ latest = [p \in Peers |-> 0]
    /\ shortened = {} /\ moves = 0

\* Installing a policy leaves the tables alone.
SetConfig(c) ==
    /\ c # config
    /\ moves < MaxMoves /\ moves' = moves + 1
    /\ config' = c
    /\ UNCHANGED <<kind, now, table, snd, rcv, inbox, reached, granted, shortened>>

(***************************************************************************)
(* Outgoing.  The policy is read once, before anything is sent.            *)
(***************************************************************************)

\* checkOutgoing, blocksOutgoing: a denied datagram goes nowhere.
CheckOutgoing(s, p) ==
    /\ snd[s].pc = "idle"
    /\ moves < MaxMoves /\ moves' = moves + 1
    /\ p \notin config.exclude
    /\ snd' = [snd EXCEPT ![s] = [NoSend EXCEPT !.peer = p, !.ok = kind = "tun",
                                     !.pc = IF kind = "conn" THEN "write" ELSE "stamp"]]
    /\ UNCHANGED <<kind, config, now, table, rcv, inbox, reached, granted, shortened>>

\* Mutant: a datagram that could not be sent is recorded too.
WrappedWriteRecorded(s) ==
    /\ snd[s].pc = "write"
    /\ \/ /\ snd' = [snd EXCEPT ![s].pc = "stamp", ![s].ok = TRUE]
          /\ reached' = [reached EXCEPT ![snd[s].peer] = now + config.ttl]
       \/ snd' = [snd EXCEPT ![s].pc = "stamp"] /\ UNCHANGED reached
    /\ UNCHANGED <<kind, config, now, table, rcv, inbox, granted, shortened, moves>>

\* The wrapped connection's Write; only a successful one is recorded.  From here
\* on the peer may answer.
WrappedWrite(s) ==
    /\ snd[s].pc = "write"
    /\ \/ /\ snd' = [snd EXCEPT ![s].pc = "stamp", ![s].ok = TRUE]
          /\ reached' = [reached EXCEPT ![snd[s].peer] = now + config.ttl]
       \/ snd' = [snd EXCEPT ![s] = NoSend] /\ UNCHANGED reached
    /\ UNCHANGED <<kind, config, now, table, rcv, inbox, granted, shortened, moves>>

\* recordResponse reads the clock and the TTL before it takes the lock.
RecordStamp(s) ==
    /\ snd[s].pc = "stamp"
    /\ snd' = [snd EXCEPT ![s].pc = "store", ![s].at = now, ![s].expires = now + config.ttl]
    /\ granted' = IF snd[s].ok
                  THEN [granted EXCEPT ![snd[s].peer] = Larger(@, now + config.ttl)]
                  ELSE granted
    /\ UNCHANGED <<kind, config, now, table, rcv, inbox, reached, shortened, moves>>

\* deleteExpiredResponsesLocked.
Swept(entries, at) == [p \in Peers |-> IF entries[p] < at THEN 0 ELSE entries[p]]

\* The rest of recordResponse, under the lock: every SweepEvery-th call sweeps.
RecordStore(s) ==
    LET entries == [responses EXCEPT ![snd[s].peer] = snd[s].expires]
    IN  /\ snd[s].pc = "store"
        /\ recorded' = (recorded + 1) % SweepEvery
        /\ responses' = IF recorded' = 0 THEN Swept(entries, snd[s].at) ELSE entries
        /\ latest' = [latest EXCEPT ![snd[s].peer] = snd[s].expires]
        /\ shortened' = shortened \cup {p \in {snd[s].peer} : snd[s].expires < latest[p]}
        /\ snd' = [snd EXCEPT ![s] = IF kind = "conn" THEN NoSend
                                     ELSE [@ EXCEPT !.pc = "handout"]]
        /\ UNCHANGED <<kind, config, now, rcv, inbox, reached, granted, moves>>

\* The tun's Read returns the packet, or fails with io.ErrShortBuffer.
HandOut(s) ==
    /\ snd[s].pc = "handout"
    /\ \/ reached' = [reached EXCEPT ![snd[s].peer] = snd[s].expires]
       \/ UNCHANGED reached
    /\ snd' = [snd EXCEPT ![s] = NoSend]
    /\ UNCHANGED <<kind, config, now, table, rcv, inbox, granted, shortened, moves>>

(***************************************************************************)
(* Incoming.                                                               *)
(***************************************************************************)

\* A peer sends: an answer, if a datagram has reached it, or of its own accord.
\* For a tun it may also be an ICMP error about another flow.
PeerSends(p, about) ==
    /\ Cardinality(inbox) < MaxQueue
    /\ about = NoPeer \/ (kind = "tun" /\ about # p)
    /\ inbox' = inbox \cup {[peer |-> p, about |-> about,
                             until |-> IF about = NoPeer THEN reached[p] ELSE reached[about]]}
    /\ UNCHANGED <<kind, config, now, table, snd, rcv, reached, granted, shortened, moves>>

\* The wrapped read returns, and hasResponse reads the clock.
Receive(r, d) ==
    /\ rcv[r].pc \in {"idle", "response", "discarded"}
    /\ inbox' = inbox \ {d}
    /\ rcv' = [rcv EXCEPT ![r] = [pc |-> "lookup", d |-> d, at |-> now]]
    /\ UNCHANGED <<kind, config, now, table, snd, reached, granted, shortened, moves>>

\* Mutant: the entry must outlive the moment of the lookup.
HasResponseStrict(r, p, miss) ==
    LET hit == responses[p] # 0 /\ responses[p] > rcv[r].at
    IN  /\ rcv' = [rcv EXCEPT ![r] = IF hit THEN [NoReceive EXCEPT !.pc = "response"]
                                     ELSE [@ EXCEPT !.pc = miss, !.at = now]]
        /\ responses' = [responses EXCEPT ![p] = IF hit THEN @ ELSE 0]
        /\ UNCHANGED <<kind, config, now, recorded, latest, snd, inbox, reached, granted, shortened, moves>>

\* hasResponse under its lock: a live entry lets the datagram in, a dead one is
\* deleted.  A lookup that follows reads the clock again.
HasResponse(r, p, miss) ==
    LET hit == responses[p] # 0 /\ responses[p] >= rcv[r].at
    IN  /\ rcv' = [rcv EXCEPT ![r] = IF hit THEN [NoReceive EXCEPT !.pc = "response"]
                                     ELSE [@ EXCEPT !.pc = miss, !.at = now]]
        /\ responses' = [responses EXCEPT ![p] = IF hit THEN @ ELSE 0]
        /\ UNCHANGED <<kind, config, now, recorded, latest, snd, inbox, reached, granted, shortened, moves>>

\* The datagram's own flow.
Lookup(r) ==
    /\ rcv[r].pc = "lookup"
    /\ HasResponse(r, rcv[r].d.peer, IF rcv[r].d.about = NoPeer THEN "policy" ELSE "related")

\* relatedICMPResponse: the flow the error quotes.
LookupRelated(r) ==
    /\ rcv[r].pc = "related"
    /\ HasResponse(r, rcv[r].d.about, "policy")

\* AllowsIncoming: anything else needs an Include rule of the policy in force now.
Policy(r) ==
    /\ rcv[r].pc = "policy"
    /\ rcv' = [rcv EXCEPT ![r] = IF rcv[r].d.peer \in config.include THEN NoReceive
                                 ELSE [NoReceive EXCEPT !.pc = "discarded"]]
    /\ UNCHANGED <<kind, config, now, table, snd, inbox, reached, granted, shortened, moves>>

Tick ==
    /\ now < MaxTime
    /\ now' = now + 1
    /\ UNCHANGED <<kind, config, table, snd, rcv, inbox, reached, granted, shortened, moves>>

Send(s) ==
    \/ \E p \in Peers : CheckOutgoing(s, p)
    \/ WrappedWrite(s) \/ RecordStamp(s) \/ RecordStore(s) \/ HandOut(s)

Take(r) ==
    \/ \E d \in inbox : Receive(r, d)
    \/ Lookup(r) \/ LookupRelated(r) \/ Policy(r)

Next ==
    \/ \E c \in Configs : SetConfig(c)
    \/ \E s \in Senders : Send(s)
    \/ \E p \in Peers, about \in Peers \cup {NoPeer} : PeerSends(p, about)
    \/ \E r \in Receivers : Take(r)
    \/ Tick

Spec == Init /\ [][Next]_vars

(***************************************************************************)
(* Properties.                                                             *)
(***************************************************************************)

\* A datagram let in as a response answers one that the policy allowed, on a
\* connection one that really went out: its flow, or the flow an ICMP error quotes,
\* earned a lease that still ran when the clock was read (allowsIncoming,
\* hasResponse).  The tun records a packet before it hands it out, and keeps the
\* lease of one that its caller then does not get (filterOutgoingRead).
ResponseEarned ==
    [][\A r \in Receivers :
          (rcv[r].pc \in {"lookup", "related"} /\ rcv'[r].pc = "response") =>
              \E p \in {rcv[r].d.peer, rcv[r].d.about} \ {NoPeer} : granted[p] >= rcv[r].at]_vars

\* Sweeping and deleting on lookup are not observable: a lookup fails only if the
\* lease recorded last for the flow, had it been kept for ever, is over by the
\* time of the lookup (deleteExpiredResponsesLocked, hasResponse).
SweepInvisible ==
    [][\A r \in Receivers :
          /\ (rcv[r].pc = "lookup" /\ rcv'[r].pc \in {"related", "policy"})
                 => latest[rcv[r].d.peer] < now
          /\ (rcv[r].pc = "related" /\ rcv'[r].pc = "policy")
                 => latest[rcv[r].d.about] < now]_vars

\* An answer that came within the lease of its flow is discarded, although no
\* record has replaced that lease by a shorter one.
DiscardsAnswer(r) ==
    LET d == rcv[r].d
    IN  /\ rcv[r].pc = "policy" /\ rcv'[r].pc = "discarded"
        /\ d.until >= now
        /\ (IF d.about = NoPeer THEN d.peer ELSE d.about) \notin shortened

\* "Incoming responses to allowed outgoing traffic do not need an Include rule"
\* (firewall_config.go:70), for tun.Firewall: no answer that arrives within the
\* TTL is discarded, however lookups, sweeps, Reads and policy changes interleave,
\* unless a record has cut the lease short: one made after SetConfig lowered the
\* TTL, or one that read the clock before another Read's record did and took the
\* lock after it (recordResponse).
TunResponsePasses == [][\A r \in Receivers : kind = "tun" => ~DiscardsAnswer(r)]_vars

\* The same for gonnect.Firewall: "silently discard incoming datagrams that are
\* neither included nor a response to an allowed outgoing datagram"
\* (firewall.go:28).  A connection records the peer after the datagram is out.
ConnResponsePasses == [][\A r \in Receivers : kind = "conn" => ~DiscardsAnswer(r)]_vars
=============================================================================

---------------------------- MODULE JoinerFlows ----------------------------
(***************************************************************************)
(* Shared-address routing of tun.Joiner (tun/joiner_flow.go and the parts  *)
(* of tun/joiner.go it uses): which nested Tun gets a packet.  Flow and    *)
(* fragment routes share one list, ordered by last use, with a limit; they *)
(* expire from its head.  Everything happens under Joiner.mu, except that  *)
(* the reader of a nested Tun reads the clock before it takes the lock     *)
(* (rememberRoutes), while Write reads it inside.                          *)
(*                                                                         *)
(* A packet is a record: addresses, ports (of an echo, its identifier as   *)
(* both), kind, place in a fragmented datagram and its identity, number of *)
(* IPv6 extension headers, and how much of it is there.  The counters of   *)
(* RoutingStats are left out: nothing reads them.                          *)
(***************************************************************************)
EXTENDS Integers, Sequences, SequencesExt, FiniteSets

CONSTANTS
    Nested,            \* joinerNested objects; one is made for every attachment
    Nobody,            \* nil
    Timeout, Limit,    \* flowTimeout, flowLimit
    MaxHeaders,        \* 16
    Outbound, Inbound, \* the packets that are tried
    Addrs,
    MaxTime            \* bound on the clock

VARIABLES
    status,            \* nested -> "new", "attached" or "gone"
    defaultTun,
    addrs,             \* routes4, routes6: address -> owner or Nobody
    dyn,               \* the list: records of kind, key, owner and expires
    now,
    stamp              \* nested -> the time its reader took, or -1

vars == <<status, defaultTun, addrs, dyn, now, stamp>>

Attached == {n \in Nested : status[n] = "attached"}

Init ==
    /\ status = [n \in Nested |-> "new"]
    /\ defaultTun = Nobody
    /\ addrs = [a \in Addrs |-> Nobody]
    /\ dyn = <<>>
    /\ now = 0
    /\ stamp = [n \in Nested |-> -1]

----------------------------------------------------------------------------
(* Packets and keys. *)

\* parseJoinerPacket: the walk over the headers takes MaxHeaders steps, of which
\* the last finds the transport header.
Parsed(p) == p.cut = "none" /\ p.headers < MaxHeaders

NoKey == <<>>

\* joinerICMPEchoPeerType.
Peer(kind) == CASE kind = "request" -> "reply" [] kind = "reply" -> "request" [] OTHER -> kind

\* joinerDirectFlowKey.
DirectKey(p) ==
    IF p.frag = "later" \/ p.kind \notin {"flow", "request", "reply"} THEN NoKey
    ELSE <<p.src, p.dst, p.sport, p.dport, p.kind>>

\* joinerReverseFlowKey.
ReverseKey(p) ==
    LET k == DirectKey(p)
    IN  IF k = NoKey THEN NoKey ELSE <<k[2], k[1], k[4], k[3], Peer(k[5])>>

\* joinerInboundFlowKey: an ICMP error belongs to the flow it quotes.
InboundKey(p) ==
    IF DirectKey(p) # NoKey THEN DirectKey(p)
    ELSE IF p.kind = "error" /\ Parsed(p.quoted) THEN ReverseKey(p.quoted)
    ELSE NoKey

FragmentKey(p) == <<p.src, p.dst, p.id>>

----------------------------------------------------------------------------
(* The list. *)

\* Position of a route, 0 if there is none (the maps flows and fragments).
Find(list, kind, key) ==
    LET at == {i \in DOMAIN list : list[i].kind = kind /\ list[i].key = key}
    IN  IF at = {} THEN 0 ELSE CHOOSE i \in at : TRUE

\* touchDynamicRouteLocked.
Touch(list, i, time) == Append(RemoveAt(list, i), [list[i] EXCEPT !.expires = time + Timeout])

\* newDynamicRouteLocked, addDynamicRouteLocked: evict from the head, add at the tail.
Add(list, kind, key, owner, time) ==
    LET evicted == IF Len(list) >= Limit THEN Len(list) - Limit + 1 ELSE 0
    IN  Append(SubSeq(list, evicted + 1, Len(list)),
               [kind |-> kind, key |-> key, owner |-> owner, expires |-> time + Timeout])

\* expireDynamicRoutesLocked: from the head, up to the first that is alive.
Expire(list, time) ==
    LET alive == {i \in DOMAIN list : time < list[i].expires}
    IN  IF alive = {} THEN <<>>
        ELSE SubSeq(list, CHOOSE i \in alive : \A j \in alive : i <= j, Len(list))

\* Mutant: the last sender takes the route.
RememberFlowLast(list, key, owner, time) ==
    LET i == Find(list, "flow", key)
    IN  IF i = 0 THEN Add(list, "flow", key, owner, time)
        ELSE Touch([list EXCEPT ![i].owner = owner], i, time)

\* rememberFlowLocked: the first owner keeps the route.
RememberFlow(list, key, owner, time) ==
    LET i == Find(list, "flow", key)
    IN  IF i = 0 THEN Add(list, "flow", key, owner, time)
        ELSE IF list[i].owner # owner THEN list
        ELSE Touch(list, i, time)

\* rememberInboundFragmentLocked.
RememberFragment(list, p, owner, time) ==
    LET i == Find(list, "fragment", FragmentKey(p))
    IN  IF owner = Nobody \/ p.frag # "first" \/ ~Parsed(p) THEN list
        ELSE IF i = 0 THEN Add(list, "fragment", FragmentKey(p), owner, time)
        ELSE Touch([list EXCEPT ![i].owner = owner], i, time)

\* routes4 and routes6, by destination; a packet too short to hold addresses has none.
AddressRoute(p) == IF p.cut = "all" THEN Nobody ELSE addrs[p.dst]

\* routeSharedAddressLocked.
Route(list, p, time) ==
    LET frag == IF Parsed(p) /\ p.frag = "later" THEN Find(list, "fragment", FragmentKey(p)) ELSE 0
        flow == IF Parsed(p) /\ InboundKey(p) # NoKey THEN Find(list, "flow", InboundKey(p)) ELSE 0
        result(owner, l) == [owner |-> owner, list |-> l]
        fallback(owner) == result(owner, RememberFragment(list, p, owner, time))
    IN  IF frag # 0 THEN result(list[frag].owner, Touch(list, frag, time))
        ELSE IF flow # 0
        THEN result(list[flow].owner,
                    RememberFragment(Touch(list, flow, time), p, list[flow].owner, time))
        ELSE IF AddressRoute(p) # Nobody THEN fallback(AddressRoute(p))
        ELSE fallback(defaultTun)

----------------------------------------------------------------------------
(* The operations. *)

\* Mutant: dynamic routes stay.
ForgetListNot(gone) == dyn

\* removeNestedLocked: its routes of every kind go with a nested Tun.
ForgetList(gone) == SelectSeq(dyn, LAMBDA r : r.owner \notin gone)

Forget(gone) ==
    /\ addrs' = [a \in Addrs |-> IF addrs[a] \in gone THEN Nobody ELSE addrs[a]]
    /\ dyn' = ForgetList(gone)

\* AttachDefault replaces a default; AttachSecondary does not.
Attach(n, asDefault) ==
    LET old == IF asDefault THEN {defaultTun} \ {Nobody} ELSE {}
    IN  /\ status[n] = "new"
        /\ status' = [m \in Nested |-> IF m = n THEN "attached" ELSE IF m \in old THEN "gone" ELSE status[m]]
        /\ defaultTun' = IF asDefault THEN n ELSE defaultTun
        /\ Forget(old)
        /\ UNCHANGED <<now, stamp>>

\* Detach, DetachDefault, detachNested.
Detach(n) ==
    /\ status[n] = "attached"
    /\ status' = [status EXCEPT ![n] = "gone"]
    /\ defaultTun' = IF defaultTun = n THEN Nobody ELSE defaultTun
    /\ Forget({n})
    /\ UNCHANGED <<now, stamp>>

\* The reader of n has a packet and reads the clock.
Stamp(n) ==
    /\ status[n] = "attached" /\ stamp[n] = -1
    /\ stamp' = [stamp EXCEPT ![n] = now]
    /\ UNCHANGED <<status, defaultTun, addrs, dyn, now>>

\* rememberRoutes, rememberRouteLocked. A packet that is not parsed still teaches
\* its source address.
Remember(n, p) ==
    /\ stamp[n] # -1
    /\ stamp' = [stamp EXCEPT ![n] = -1]
    /\ IF status[n] # "attached" THEN UNCHANGED <<addrs, dyn>>
       ELSE /\ addrs' = IF p.cut = "all" THEN addrs ELSE [addrs EXCEPT ![p.src] = n]
            /\ LET list == Expire(dyn, stamp[n])
               IN  dyn' = IF Parsed(p) /\ ReverseKey(p) # NoKey
                          THEN RememberFlow(list, ReverseKey(p), n, stamp[n]) ELSE list
    /\ UNCHANGED <<status, defaultTun, now>>

\* What Write does with one packet before it unlocks.
Write(p) ==
    LET r == Route(Expire(dyn, now), p, now)
    IN  /\ dyn' = r.list
        /\ UNCHANGED <<status, defaultTun, addrs, now, stamp>>

RoutingStats ==
    /\ dyn' = Expire(dyn, now)
    /\ UNCHANGED <<status, defaultTun, addrs, now, stamp>>

\* Close, clearDynamicRoutesLocked.
Close ==
    /\ status' = [n \in Nested |-> "gone"]
    /\ defaultTun' = Nobody
    /\ addrs' = [a \in Addrs |-> Nobody]
    /\ dyn' = <<>>
    /\ UNCHANGED <<now, stamp>>

Tick ==
    /\ now < MaxTime
    /\ now' = now + 1
    /\ UNCHANGED <<status, defaultTun, addrs, dyn, stamp>>

Next ==
    \/ \E n \in Nested : \E asDefault \in BOOLEAN : Attach(n, asDefault)
    \/ \E n \in Nested : Detach(n) \/ Stamp(n)
    \/ \E n \in Nested, p \in Outbound : Remember(n, p)
    \/ \E p \in Inbound : Write(p)
    \/ RoutingStats \/ Close \/ Tick

Spec == Init /\ [][Next]_vars

----------------------------------------------------------------------------
(* The two maps and the list describe the same routes, no more than the    *)
(* limit, and no route of any kind leads to a Tun that has been detached.  *)
RoutesExact ==
    /\ \A i, j \in DOMAIN dyn : (dyn[i].kind = dyn[j].kind /\ dyn[i].key = dyn[j].key) => i = j
    /\ Len(dyn) <= Limit
    /\ \A i \in DOMAIN dyn : dyn[i].owner \in Attached
    /\ \A a \in Addrs : addrs[a] \in Attached \cup {Nobody}
    /\ defaultTun \in Attached \cup {Nobody}

WriteRoute(p) == Route(Expire(dyn, now), p, now)

Alive(r) == now < r.expires

\* What the far end of a flow, or a router on the way, may answer to packet p.
Answers(p) ==
    LET back == [p EXCEPT !.src = p.dst, !.dst = p.src, !.sport = p.dport, !.dport = p.sport,
                          !.kind = Peer(p.kind)]
    IN  {back, [back EXCEPT !.frag = "first"],
         [p EXCEPT !.src = "router", !.dst = p.src, !.kind = "error", !.quoted = p]}

(* As long as its route is alive, whatever comes back for a flow, also an  *)
(* echo reply, a first fragment or an ICMP error of a router on the way,   *)
(* goes to the nested Tun that sent the first packet, and the later        *)
(* fragments of a datagram go where its first one went.                    *)
AnswersComeBack ==
    /\ \A p \in Outbound :
           LET i == Find(dyn, "flow", ReverseKey(p))
           IN  (Parsed(p) /\ ReverseKey(p) # NoKey /\ i # 0 /\ Alive(dyn[i])) =>
                   \A a \in Answers(p) : WriteRoute(a).owner = dyn[i].owner
    /\ \A p \in Inbound :
           LET r == WriteRoute(p)
           IN  (Parsed(p) /\ p.frag = "first" /\ r.owner # Nobody) =>
                   Route(r.list, [p EXCEPT !.frag = "later"], now).owner = r.owner

(* A flow that is alive never passes from one nested Tun to another, what- *)
(* ever packets with the same identity others send.                        *)
OwnersKept ==
    \A i \in DOMAIN dyn :
        LET j == Find(dyn', "flow", dyn[i].key)
        IN  (dyn[i].kind = "flow" /\ Alive(dyn[i]) /\ j # 0) => dyn'[j].owner = dyn[i].owner
FirstOwnerKeeps == [][OwnersKept]_vars

(* Expiring routes from the head of the list routes packets as if every    *)
(* route disappeared when its time is up.                                  *)
SameAsImmediate ==
    \A p \in Inbound :
        WriteRoute(p).owner = Route(SelectSeq(dyn, Alive), p, now).owner
=============================================================================

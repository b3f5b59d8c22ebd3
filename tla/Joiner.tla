------------------------------- MODULE Joiner -------------------------------
(***************************************************************************)
(* tun.Joiner (tun/joiner.go): several nested Tuns behind one.  A nested   *)
(* Tun has a goroutine that reads its packets into the channel reads and   *)
(* one that follows its events; Attach, Detach and Close come from any     *)
(* goroutine, and a packet that is written goes to the Tun from which its  *)
(* destination address was learned, or to the default.                     *)
(*                                                                         *)
(* A nested Tun is external: it goes down, up and away by itself, and says *)
(* so on a channel of events that drops what it has no room for; and any   *)
(* of its calls may fail, with an error that ends its use or with another, *)
(* while it is open.  Routes are those of one address; JoinerFlows has the *)
(* rest of routing.  The offsets, batch size and MTU that                  *)
(* recalculateLocked derives are left out.                                 *)
(***************************************************************************)
EXTENDS Integers, Sequences, FiniteSets

CONSTANTS
    Tuns,
    Nested,            \* joinerNested objects; one is made for every attachment
    Callers,           \* goroutines that attach, detach and close
    Nobody,            \* nil
    ReadsCap, EventsCap,               \* capacities of reads and of a Tun's events
    MaxMoves           \* bound on the changes of a Tun's state

ASSUME NobodyAssumption == Nobody \notin Nested

VARIABLES
    tunOf,             \* nested -> its Tun
    closed,            \* Joiner.closed, and done
    defaultTun, secondaries, nested,   \* nested or Nobody; Tun -> nested or Nobody
    route,             \* the nested Tun a packet came from, or Nobody
    reads, got, pending,   \* owners of the packets in the channel, of those Read has
                       \* received, and of those it keeps for later
    up, nclosed,       \* joinerNested.up, closed
    rpc, wpc,          \* readNested, watchNestedEvents
    tunUp, tunClosed, events, moves,   \* the Tuns
    pc, mine, toClose, \* Callers: their step, the nested they start, Tuns to close
    targets, accepted, \* the Write under way: where its packets go, whether
                       \* acceptsWrites has let the first pass,
    broken,            \* and the nested it has detached and whose Tun it closes
    pump               \* writePump: it waits, is in the Write under way, or has ended

members == <<defaultTun, secondaries, nested, route, pending>>
tuns == <<tunUp, tunClosed, events, moves>>
vars == <<tunOf, closed, members, reads, up, nclosed, rpc, wpc, tuns, pc, mine, toClose,
          got, targets, accepted, broken, pump>>
writing == <<targets, accepted, broken, pump>>

Empty == [t \in Tuns |-> Nobody]

Init ==
    /\ tunOf \in [Nested -> Tuns]
    /\ closed = FALSE
    /\ defaultTun = Nobody /\ secondaries = Empty /\ nested = Empty
    /\ route = Nobody
    /\ reads = <<>> /\ got = Nobody /\ pending = {}
    /\ up = [n \in Nested |-> FALSE] /\ nclosed = [n \in Nested |-> FALSE]
    /\ rpc = [n \in Nested |-> "none"] /\ wpc = [n \in Nested |-> "none"]
    /\ tunUp = [t \in Tuns |-> TRUE] /\ tunClosed = [t \in Tuns |-> FALSE]
    /\ events = [t \in Tuns |-> <<>>] /\ moves = 0
    /\ pc = [c \in Callers |-> "idle"] /\ mine = [c \in Callers |-> Nobody]
    /\ toClose = [c \in Callers |-> {}]
    /\ targets = <<>> /\ accepted = FALSE /\ broken = Nobody /\ pump = "select"

----------------------------------------------------------------------------
(* Members. *)

Member(n) == nested[tunOf[n]] = n

\* removeNestedLocked of the members in gone, and n added if it is one, as the
\* default or beside it.
Remove(gone) ==
    /\ route' = IF route \in gone THEN Nobody ELSE route
    /\ pending' = pending \ gone
    /\ nclosed' = [n \in Nested |-> nclosed[n] \/ n \in gone]

Without(m, gone) == [t \in Tuns |-> IF m[t] \in gone THEN Nobody ELSE m[t]]

RemoveAll(gone) ==
    /\ defaultTun' = IF defaultTun \in gone THEN Nobody ELSE defaultTun
    /\ secondaries' = Without(secondaries, gone)
    /\ nested' = Without(nested, gone)
    /\ Remove(gone)
    /\ up' = [n \in Nested |-> up[n] /\ n \notin gone]

\* detachNested.
DetachNested(n) ==
    IF Member(n) THEN RemoveAll({n}) ELSE UNCHANGED <<members, up, nclosed>>

\* The Tun detachNested closes after the unlock.
Leaving(n) == IF Member(n) THEN {tunOf[n]} ELSE {}

\* Close of a nested Tun, whose events end then.
CloseTun(t) == tunClosed' = [tunClosed EXCEPT ![t] = TRUE] /\ UNCHANGED <<tunUp, events, moves>>

----------------------------------------------------------------------------
(* AttachDefault, AttachSecondary, Detach, DetachDefault and Close.        *)

Fresh(n) == rpc[n] = "none" /\ \A c \in Callers : mine[c] # n

\* Up to the unlock. An old default is removed; a Tun that is attached the other way is refused.
Attach(c, n, asDefault) ==
    LET t == tunOf[n]
        old == IF asDefault THEN {defaultTun} \ {Nobody} ELSE {}
    IN  /\ pc[c] = "idle" /\ Fresh(n) /\ ~closed
        /\ nested[t] = Nobody
        /\ defaultTun' = IF asDefault THEN n ELSE defaultTun
        /\ secondaries' = IF asDefault THEN secondaries ELSE [secondaries EXCEPT ![t] = n]
        /\ nested' = [Without(nested, old) EXCEPT ![t] = n]
        /\ Remove(old)
        /\ up' = [m \in Nested |-> m = n \/ (up[m] /\ m \notin old)]
        /\ mine' = [mine EXCEPT ![c] = n]
        /\ toClose' = [toClose EXCEPT ![c] = {tunOf[m] : m \in old}]
        /\ pc' = [pc EXCEPT ![c] = "closing"]
        /\ UNCHANGED <<tunOf, closed, reads, rpc, wpc, tuns, got, writing>>

Detach(c, n) ==
    /\ pc[c] = "idle" /\ ~closed /\ Member(n)
    /\ RemoveAll({n})
    /\ toClose' = [toClose EXCEPT ![c] = {tunOf[n]}]
    /\ pc' = [pc EXCEPT ![c] = "closing"]
    /\ UNCHANGED <<tunOf, closed, reads, rpc, wpc, tuns, mine, got, writing>>

\* sync.Once: only the first Close does anything, so it is the only one here.
Close(c) ==
    LET all == {n \in Nested : Member(n)}
    IN  /\ pc[c] = "idle" /\ ~closed
        /\ closed' = TRUE
        /\ defaultTun' = Nobody /\ secondaries' = Empty /\ nested' = Empty
        /\ route' = Nobody /\ pending' = {}
        /\ nclosed' = [n \in Nested |-> nclosed[n] \/ n \in all]
        /\ up' = [n \in Nested |-> up[n] /\ n \notin all]
        /\ toClose' = [toClose EXCEPT ![c] = {tunOf[n] : n \in all}]
        /\ pc' = [pc EXCEPT ![c] = "shutting"]
        /\ UNCHANGED <<tunOf, reads, rpc, wpc, tuns, mine, got, writing>>

\* The Tuns are closed one by one, outside the lock.
CloseOne(c) ==
    /\ pc[c] \in {"closing", "shutting"}
    /\ \E t \in toClose[c] : CloseTun(t) /\ toClose' = [toClose EXCEPT ![c] = @ \ {t}]
    /\ UNCHANGED <<tunOf, closed, members, reads, up, nclosed, rpc, wpc, pc, mine,
                   got, writing>>

\* startNested; if the spawner refuses one of the goroutines, detachNested.
Start(c) ==
    LET n == mine[c]
    IN  /\ pc[c] = "closing" /\ toClose[c] = {} /\ n # Nobody
        /\ mine' = [mine EXCEPT ![c] = Nobody]
        /\ \/ /\ rpc' = [rpc EXCEPT ![n] = "wait"] /\ wpc' = [wpc EXCEPT ![n] = "watch"]
              /\ pc' = [pc EXCEPT ![c] = "idle"]
              /\ UNCHANGED <<members, up, nclosed, toClose>>
           \/ \E reader \in {"wait", "done"} :
              /\ rpc' = [rpc EXCEPT ![n] = reader] /\ wpc' = [wpc EXCEPT ![n] = "done"]
              /\ DetachNested(n)
              /\ toClose' = [toClose EXCEPT ![c] = Leaving(n)]
              /\ UNCHANGED pc
        /\ UNCHANGED <<tunOf, closed, reads, tuns, got, writing>>

Returned(c) ==
    /\ pc[c] = "closing" /\ toClose[c] = {} /\ mine[c] = Nobody
    /\ pc' = [pc EXCEPT ![c] = "idle"]
    /\ UNCHANGED <<tunOf, closed, members, reads, up, nclosed, rpc, wpc, tuns, mine, toClose,
                   got, writing>>

\* wg.Wait, for writePump and the readers, and drainDetachedTunReads.
CloseReturns(c) ==
    /\ pc[c] = "shutting" /\ toClose[c] = {}
    /\ pump = "done" /\ \A n \in Nested : rpc[n] \in {"none", "done"}
    /\ reads' = <<>>
    /\ pc' = [pc EXCEPT ![c] = "closed"]
    /\ UNCHANGED <<tunOf, closed, members, up, nclosed, rpc, wpc, tuns, mine, toClose,
                   got, writing>>

----------------------------------------------------------------------------
(* readNested. *)

others == <<tunOf, closed, wpc, pc, mine, toClose, got, writing>>

\* waitUp, isClosed.
ReaderWaits(n) ==
    /\ rpc[n] = "wait" /\ (up[n] \/ nclosed[n])
    /\ rpc' = [rpc EXCEPT ![n] = IF nclosed[n] THEN "done" ELSE "read"]
    /\ UNCHANGED <<members, reads, up, nclosed, tuns, others>>

\* n.t.Read returns a packet.
ReaderGets(n) ==
    /\ rpc[n] = "read" /\ tunUp[tunOf[n]] /\ ~tunClosed[tunOf[n]]
    /\ rpc' = [rpc EXCEPT ![n] = "remember"]
    /\ UNCHANGED <<members, reads, up, nclosed, tuns, others>>

\* n.t.Read of a Tun that is closed or down returns: ErrDetachedTunDown, or an
\* error that ends the Tun.
ReaderFails(n) ==
    /\ rpc[n] = "read" /\ (tunClosed[tunOf[n]] \/ ~tunUp[tunOf[n]])
    /\ rpc' = [rpc EXCEPT ![n] = IF tunClosed[tunOf[n]] THEN "detach" ELSE "down"]
    /\ UNCHANGED <<members, reads, up, nclosed, tuns, others>>

\* n.t.Read of an open Tun fails: IsTunTermError of the error ends its use, and
\* any other, or a packet of a wrong size, only this Read.
ReaderBreaks(n) ==
    /\ rpc[n] = "read" /\ ~tunClosed[tunOf[n]]
    /\ \E next \in {"detach", "wait"} : rpc' = [rpc EXCEPT ![n] = next]
    /\ UNCHANGED <<members, reads, up, nclosed, tuns, others>>

ReaderDown(n) ==
    /\ rpc[n] = "down"
    /\ up' = [up EXCEPT ![n] = FALSE]
    /\ rpc' = [rpc EXCEPT ![n] = "wait"]
    /\ UNCHANGED <<members, reads, nclosed, tuns, others>>

\* detachNested(n, true), up to the unlock and after it.
ReaderDetaches(n) ==
    /\ rpc[n] = "detach"
    /\ DetachNested(n)
    /\ rpc' = [rpc EXCEPT ![n] = IF Member(n) THEN "close" ELSE "done"]
    /\ UNCHANGED <<reads, tuns, others>>

ReaderCloses(n) ==
    /\ rpc[n] = "close"
    /\ CloseTun(tunOf[n])
    /\ rpc' = [rpc EXCEPT ![n] = "done"]
    /\ UNCHANGED <<members, reads, up, nclosed, others>>

\* rememberRoutes.
ReaderRemembers(n) ==
    /\ rpc[n] = "remember"
    /\ route' = IF Member(n) THEN n ELSE route
    /\ rpc' = [rpc EXCEPT ![n] = "send"]
    /\ UNCHANGED <<defaultTun, secondaries, nested, pending, reads, up, nclosed, tuns, others>>

\* Mutant: the reader only waits for room.
ReaderSendsBlind(n) ==
    /\ rpc[n] = "send" /\ Len(reads) < ReadsCap
    /\ reads' = Append(reads, n)
    /\ rpc' = [rpc EXCEPT ![n] = "wait"]
    /\ UNCHANGED <<members, up, nclosed, tuns, others>>

\* The select on reads and done.
ReaderSends(n) ==
    /\ rpc[n] = "send"
    /\ \/ closed /\ rpc' = [rpc EXCEPT ![n] = "done"] /\ UNCHANGED reads
       \/ Len(reads) < ReadsCap /\ reads' = Append(reads, n) /\ rpc' = [rpc EXCEPT ![n] = "wait"]
    /\ UNCHANGED <<members, up, nclosed, tuns, others>>

----------------------------------------------------------------------------
(* watchNestedEvents. *)

rest == <<tunOf, closed, reads, rpc, pc, mine, toClose, got, writing>>

WatcherSees(n) ==
    LET t == tunOf[n]
    IN  /\ wpc[n] = "watch" /\ events[t] # <<>>
        /\ events' = [events EXCEPT ![t] = Tail(@)]
        /\ up' = [up EXCEPT ![n] = Head(events[t]) = "up"]
        /\ UNCHANGED <<members, nclosed, wpc, tunUp, tunClosed, moves, rest>>

WatcherEnds(n) ==
    /\ wpc[n] = "watch" /\ events[tunOf[n]] = <<>> /\ tunClosed[tunOf[n]]
    /\ DetachNested(n)
    /\ wpc' = [wpc EXCEPT ![n] = "done"]
    /\ UNCHANGED <<tuns, rest>>

----------------------------------------------------------------------------
(* The user's Read, one at a time. *)

sides == <<tunOf, closed, up, nclosed, rpc, wpc, tuns, pc, mine, toClose, writing>>

\* readPending hands out a packet that was kept.
ReadPending ==
    /\ ~closed /\ got = Nobody
    /\ \E n \in pending : pending' = pending \ {n}
    /\ UNCHANGED <<defaultTun, secondaries, nested, route, reads, got, sides>>

\* The channel gives one; done may win even then.
ReadReceives ==
    /\ got = Nobody /\ pending = {} /\ reads # <<>>
    /\ got' = Head(reads) /\ reads' = Tail(reads)
    /\ UNCHANGED <<members, sides>>

\* Mutant: it is enough that the owner's Tun is attached.
CurrentTun(n) == nested[tunOf[n]] # Nobody

\* A packet whose owner is no longer attached is dropped.
Current(n) == Member(n)

ReadKeeps ==
    /\ got # Nobody
    /\ got' = Nobody
    /\ pending' = IF Current(got) THEN pending \cup {got} ELSE pending
    /\ UNCHANGED <<defaultTun, secondaries, nested, route, reads, sides>>

----------------------------------------------------------------------------
(* Write, one at a time: the user's, or that of writePump for a request from *)
(* the channel writes.                                                     *)

lower == <<tunOf, closed, reads, rpc, wpc, pc, mine, toClose, got>>

\* Up to the unlock: each packet of a batch of one or two is for the address
\* that has a route or for an unknown one. A batch for one target is written at once.
WriteRoutes ==
    /\ targets = <<>> /\ broken = Nobody /\ pump # "write" /\ ~closed
    /\ LET toRoute == IF route # Nobody THEN route ELSE defaultTun
       IN  \E batch \in {<<toRoute>>, <<defaultTun>>, <<toRoute, defaultTun>>} :
               targets' = IF Len(batch) = 2 /\ batch[1] = batch[2] THEN <<batch[1]>> ELSE batch
    /\ \/ pump = "select" /\ pump' = "write"
       \/ UNCHANGED pump
    /\ UNCHANGED <<members, up, nclosed, tuns, accepted, broken, lower>>

\* acceptsWrites; a packet without a target counts as written.
WriteAccepts ==
    /\ targets # <<>> /\ ~accepted
    /\ IF Head(targets) # Nobody /\ up[Head(targets)] /\ ~nclosed[Head(targets)]
       THEN accepted' = TRUE /\ UNCHANGED targets
       ELSE targets' = Tail(targets) /\ UNCHANGED accepted
    /\ UNCHANGED <<members, up, nclosed, tuns, broken, pump, lower>>

\* n.t.Write of an open Tun: it writes the packets, or the Tun is down and they
\* are dropped; or it fails with an error that ends the Write alone.
WriteNested ==
    LET n == Head(targets)
        t == tunOf[n]
    IN  /\ accepted /\ ~tunClosed[t]
        /\ accepted' = FALSE
        /\ \/ up' = [up EXCEPT ![n] = @ /\ tunUp[t]] /\ targets' = Tail(targets)
           \/ UNCHANGED up /\ targets' = <<>>
        /\ UNCHANGED <<members, nclosed, tuns, broken, pump, lower>>

\* n.t.Write fails with an error that ends the Tun, which may be open:
\* detachNested(n, true), up to the unlock and after it.
WriteFails ==
    LET n == Head(targets)
    IN  /\ accepted
        /\ accepted' = FALSE /\ targets' = <<>>
        /\ DetachNested(n)
        /\ broken' = IF Member(n) THEN n ELSE Nobody
        /\ UNCHANGED <<tuns, pump, lower>>

WriteCloses ==
    /\ broken # Nobody
    /\ CloseTun(tunOf[broken])
    /\ broken' = Nobody
    /\ UNCHANGED <<members, up, nclosed, targets, accepted, pump, lower>>

\* writePump answers the request, and ends once done is closed.
PumpReturns ==
    /\ \/ pump = "write" /\ targets = <<>> /\ broken = Nobody /\ pump' = "select"
       \/ pump = "select" /\ closed /\ pump' = "done"
    /\ UNCHANGED <<members, up, nclosed, tuns, targets, accepted, broken, lower>>

----------------------------------------------------------------------------
(* The Tuns themselves. *)

Announce(t, e) ==
    events' = [events EXCEPT ![t] = IF Len(@) < EventsCap THEN Append(@, e) ELSE @]

TunMoves(t) ==
    /\ moves < MaxMoves /\ ~tunClosed[t]
    /\ moves' = moves + 1
    /\ \/ /\ tunUp' = [tunUp EXCEPT ![t] = ~@]
          /\ Announce(t, IF tunUp[t] THEN "down" ELSE "up")
          /\ UNCHANGED tunClosed
       \/ tunClosed' = [tunClosed EXCEPT ![t] = TRUE] /\ UNCHANGED <<tunUp, events>>
    /\ UNCHANGED <<members, up, nclosed, wpc, rest>>

Caller(c) ==
    \/ \E n \in Nested : \E asDefault \in BOOLEAN : Attach(c, n, asDefault)
    \/ \E n \in Nested : Detach(c, n)
    \/ Close(c)

CallerMoves(c) == CloseOne(c) \/ Start(c) \/ Returned(c) \/ CloseReturns(c)

Reader(n) ==
    \/ ReaderWaits(n) \/ ReaderFails(n) \/ ReaderDown(n) \/ ReaderDetaches(n)
    \/ ReaderCloses(n) \/ ReaderRemembers(n) \/ ReaderSends(n)

Watcher(n) == WatcherSees(n) \/ WatcherEnds(n)

Writer == WriteAccepts \/ WriteFails \/ WriteCloses \/ PumpReturns

Next ==
    \/ \E c \in Callers : Caller(c) \/ CallerMoves(c)
    \/ \E n \in Nested : Reader(n) \/ ReaderGets(n) \/ ReaderBreaks(n) \/ Watcher(n)
    \/ ReadPending \/ ReadReceives \/ ReadKeeps
    \/ WriteRoutes \/ WriteNested \/ Writer
    \/ \E t \in Tuns : TunMoves(t)

Spec == Init /\ [][Next]_vars

(* A goroutine that is not blocked goes on.  Packets need not come, and a  *)
(* Read or a Write of a Tun that is open may take as long as it likes.     *)
Goroutines == Callers \cup ({"reader", "watcher"} \X Nested) \cup {<<"writer", Nobody>>}

Goroutine(g) ==
    \/ g \in Callers /\ CallerMoves(g)
    \/ g \notin Callers /\ g[1] = "reader" /\ Reader(g[2])
    \/ g \notin Callers /\ g[1] = "watcher" /\ Watcher(g[2])
    \/ /\ g \notin Callers /\ g[1] = "writer" /\ Writer
       /\ accepted => tunClosed[tunOf[Head(targets)]]

Fairness == \A g \in Goroutines : WF_vars(Goroutine(g))

----------------------------------------------------------------------------
(* Type invariant. *)
Types ==
    /\ tunOf \in [Nested -> Tuns]
    /\ {defaultTun, route, got, broken} \subseteq Nested \cup {Nobody}
    /\ pump \in {"select", "write", "done"}
    /\ secondaries \in [Tuns -> Nested \cup {Nobody}] /\ nested \in [Tuns -> Nested \cup {Nobody}]
    /\ reads \in Seq(Nested) /\ pending \subseteq Nested
    /\ up \in [Nested -> BOOLEAN] /\ nclosed \in [Nested -> BOOLEAN]
    /\ rpc \in [Nested -> {"none", "wait", "read", "down", "detach", "close", "remember", "send",
                        "done"}]
    /\ wpc \in [Nested -> {"none", "watch", "done"}]
    /\ tunUp \in [Tuns -> BOOLEAN] /\ tunClosed \in [Tuns -> BOOLEAN]
    /\ events \in [Tuns -> Seq({"up", "down"})] /\ moves \in Nat
    /\ pc \in [Callers -> {"idle", "closing", "shutting", "closed"}]
    /\ mine \in [Callers -> Nested \cup {Nobody}] /\ toClose \in [Callers -> SUBSET Tuns]
    /\ targets \in Seq(Nested \cup {Nobody})
    /\ accepted => targets # <<>> /\ Head(targets) # Nobody

TypeOK == Types /\ {closed, accepted} \subseteq BOOLEAN

(* A Tun that is no longer attached is out of every table: no route, no    *)
(* default and no packet that Read may still hand out belongs to it; and   *)
(* the three tables of members agree.                                      *)
OutOfTables ==
    /\ \A n \in {defaultTun, route} : n # Nobody => Member(n)
    /\ \A n \in pending : Member(n)
    /\ \A t \in Tuns :
           /\ secondaries[t] # Nobody => nested[t] = secondaries[t] /\ tunOf[nested[t]] = t
           /\ nested[t] # Nobody => (nested[t] = defaultTun) # (nested[t] = secondaries[t])

(* Whoever detaches a Tun closes it: one that was attached and is not any  *)
(* more is closed, or somebody is about to close it, and a Tun that stays  *)
(* attached has both its goroutines.                                       *)
NoTunLeaked ==
    \A n \in Nested :
        LET t == tunOf[n]
        IN  IF Member(n)
            THEN \/ rpc[n] # "done" /\ wpc[n] # "done" /\ ~nclosed[n]
                 \/ tunClosed[t]
            ELSE nclosed[n] => \/ tunClosed[t]
                               \/ rpc[n] = "close" \/ broken = n
                               \/ \E c \in Callers : t \in toClose[c]

(* A Tun that leaves is forgotten and closed by whoever took it out.       *)
DetachedForgotten == OutOfTables /\ NoTunLeaked

(* Close comes back: closing the Tuns ends every reader and the Write that *)
(* writePump is in.                                                        *)
CloseAlwaysReturns ==
    \A c \in Callers : pc[c] = "shutting" ~> pc[c] = "closed"
=============================================================================

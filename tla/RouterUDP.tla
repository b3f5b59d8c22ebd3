----------------------------- MODULE RouterUDP ------------------------------
(* The UDP listener of a Router (router.go, routerUDPConn): one socket of  *)
(* every attached backend behind one frontend. Attach and Detach replace   *)
(* sockets, WriteTo opens one that is missing, a goroutine reads from each *)
(* socket, and Close, or the Router going down, closes them all.           *)
EXTENDS Naturals, FiniteSets

CONSTANTS
    Slots, Backends, None,
    Setup,              \* the goroutine in trackRouterUDPConn
    Admins,             \* goroutines in Attach or Detach
    Writers,            \* goroutines in WriteTo
    ReadCap,            \* the capacity of readCh
    MaxSockets,         \* bound on the sockets made
    MaxChanges          \* bound on the calls of Attach and Detach

Procs == Admins \cup Writers \cup {Setup}
Ids == 1..MaxSockets

VARIABLES
    slots,              \* Router.slots
    tracked,            \* the listener is in Router.udp
    changes,            \* the number of Attach and Detach calls
    made, open,         \* sockets made, and those that are open
    backends, closed,   \* routerUDPConn.backends and closed (with closeCh)
    at,                 \* goroutine -> its step, slot, backend and socket
    todo,               \* the slots and backends trackRouterUDPConn has left
    drop,               \* goroutine -> the socket it closes next, its locks released
    rpc, ron,           \* of the reader of each socket: its step, its slot
    queued,             \* the number of datagrams in readCh
    cpc, toClose        \* the step of Close, and the sockets it has to close

router == <<slots, tracked, changes>>
listener == <<backends, closed>>
readers == <<rpc, ron, queued>>
closer == <<cpc, toClose>>
vars == <<router, made, open, listener, at, todo, drop, readers, closer>>

Idle == [pc |-> "idle", slot |-> None, backend |-> None, bc |-> None]

\* trackRouterUDPConn has registered the listener and copied the slots.
Init ==
    /\ slots \in [Slots -> Backends \cup {None}]
    /\ tracked = TRUE /\ changes = 0 /\ made = 0 /\ open = {}
    /\ backends = [s \in Slots |-> None] /\ closed = FALSE
    /\ at = [p \in Procs |-> Idle]
    /\ todo = {<<s, slots[s]>> : s \in {s \in Slots : slots[s] # None}}
    /\ drop = [g \in Procs \cup Ids |-> None]
    /\ rpc = [k \in Ids |-> "none"] /\ ron = [k \in Ids |-> None] /\ queued = 0
    /\ cpc = "no" /\ toClose = {}

At(p, step) == at[p].pc = step /\ drop[p] = None
Goes(p, to) == at' = [at EXCEPT ![p].pc = to]
Enters(p, to, s, b) == at' = [at EXCEPT ![p] = [pc |-> to, slot |-> s, backend |-> b, bc |-> None]]
\* Where attachBackend returns to.
Back(p) == at' = [at EXCEPT ![p] = IF p \in Writers THEN [@ EXCEPT !.pc = "again", !.bc = None] ELSE Idle]

\* bc.Close, without a lock.
Drop(g) ==
    /\ drop[g] # None
    /\ open' = open \ {drop[g]}
    /\ drop' = [drop EXCEPT ![g] = None]
    /\ UNCHANGED <<router, made, listener, at, todo, readers, closer>>

----------------------------------------------------------------------------
(* attachBackend. *)

\* backend.ListenUDP, which may fail.
ListenUDP(p) ==
    /\ At(p, "listen")
    /\ \/ Back(p) /\ UNCHANGED <<made, open>>
       \/ /\ made < MaxSockets
          /\ made' = made + 1 /\ open' = open \cup {made + 1}
          /\ at' = [at EXCEPT ![p].pc = "store", ![p].bc = made + 1]
    /\ UNCHANGED <<router, listener, todo, drop, readers, closer>>

\* Under the lock: a listener that is closed takes no socket, and the socket
\* that was in the slot is dropped.
Store(p) ==
    LET s == at[p].slot
        bc == at[p].bc
    IN  /\ At(p, "store")
        /\ IF closed
           THEN /\ drop' = [drop EXCEPT ![p] = bc] /\ Back(p)
                /\ UNCHANGED <<backends, rpc, ron>>
           ELSE /\ drop' = [drop EXCEPT ![p] = backends[s]]
                /\ backends' = [backends EXCEPT ![s] = bc]
                /\ rpc' = [rpc EXCEPT ![bc] = "new"] /\ ron' = [ron EXCEPT ![bc] = s]
                /\ Goes(p, "spawn")
        /\ UNCHANGED <<router, made, open, closed, todo, queued, closer>>

\* Mutant: the slot is emptied whatever it holds.
WithoutAny(s, k) == [backends EXCEPT ![s] = None]

\* The slot is emptied if it still has this socket.
Without(s, k) == IF backends[s] = k THEN [backends EXCEPT ![s] = None] ELSE backends

\* closeBackend, and what a goroutine that is not started leaves.
CloseBackend(g, s, k) == backends' = Without(s, k) /\ drop' = [drop EXCEPT ![g] = k]

\* The spawner starts the reader, or refuses.
Spawn(p) ==
    LET k == at[p].bc
    IN  /\ At(p, "spawn")
        /\ \/ rpc' = [rpc EXCEPT ![k] = "read"] /\ UNCHANGED <<backends, drop>>
           \/ rpc' = [rpc EXCEPT ![k] = "ended"] /\ CloseBackend(p, at[p].slot, k)
        /\ Back(p)
        /\ UNCHANGED <<router, made, open, closed, todo, ron, queued, closer>>

\* trackRouterUDPConn attaches one backend after the other.
SetupNext ==
    /\ At(Setup, "idle")
    /\ \E t \in todo :
          /\ \A u \in todo : t[1] <= u[1]
          /\ todo' = todo \ {t} /\ Enters(Setup, "listen", t[1], t[2])
    /\ UNCHANGED <<router, made, open, listener, drop, readers, closer>>

----------------------------------------------------------------------------
(* Attach and Detach: replaceSlot, then detachBackend and, for a backend,  *)
(* attachBackend of the listener if it was tracked.                        *)
ReplaceSlot(a, s, b) ==
    /\ At(a, "idle") /\ changes < MaxChanges
    /\ changes' = changes + 1
    /\ slots' = [slots EXCEPT ![s] = b]
    /\ IF tracked THEN Enters(a, "detach", s, b) ELSE UNCHANGED at
    /\ UNCHANGED <<tracked, made, open, listener, todo, drop, readers, closer>>

DetachBackend(a) ==
    LET s == at[a].slot
    IN  /\ At(a, "detach")
        /\ drop' = [drop EXCEPT ![a] = backends[s]]
        /\ backends' = [backends EXCEPT ![s] = None]
        /\ IF at[a].backend = None THEN at' = [at EXCEPT ![a] = Idle] ELSE Goes(a, "listen")
        /\ UNCHANGED <<router, made, open, closed, todo, readers, closer>>

----------------------------------------------------------------------------
(* readBackend. *)
RGoes(k, to) == rpc' = [rpc EXCEPT ![k] = to]

\* A datagram; an error, as the socket was closed or by itself.
ReadFrom(k) ==
    /\ rpc[k] = "read"
    /\ \/ k \in open /\ RGoes(k, "send")
       \/ RGoes(k, "close")
    /\ UNCHANGED <<router, made, open, listener, at, todo, drop, ron, queued, closer>>

\* The select on readCh and closeCh.
HandOver(k) ==
    /\ rpc[k] = "send"
    /\ \/ queued < ReadCap /\ queued' = queued + 1 /\ RGoes(k, "read")
       \/ closed /\ RGoes(k, "ended") /\ UNCHANGED queued
    /\ UNCHANGED <<router, made, open, listener, at, todo, drop, ron, closer>>

ReaderEnds(k) ==
    /\ rpc[k] = "close"
    /\ CloseBackend(k, ron[k], k)
    /\ RGoes(k, "ended")
    /\ UNCHANGED <<router, made, open, closed, at, todo, ron, queued, closer>>

\* ReadFrom of the listener; a datagram may still be taken as it is closed.
UserReads ==
    /\ queued > 0
    /\ queued' = queued - 1
    /\ UNCHANGED <<router, made, open, listener, at, todo, drop, rpc, ron, closer>>

----------------------------------------------------------------------------
(* WriteTo, once ListenUDP has returned the listener. *)
BeginWrite(w) ==
    /\ At(w, "idle") /\ At(Setup, "idle") /\ todo = {} /\ ~closed
    /\ Goes(w, "route")
    /\ UNCHANGED <<router, made, open, listener, todo, drop, readers, closer>>

\* routeUDP: the slot the configuration chooses, and its backend if there is
\* one and the Router is up.
RouteUDP(w, s) ==
    /\ At(w, "route")
    /\ \/ at' = [at EXCEPT ![w] = Idle]
       \/ slots[s] # None /\ Enters(w, "look", s, slots[s])
    /\ UNCHANGED <<router, made, open, listener, todo, drop, readers, closer>>

\* The socket of the slot; one is opened, once, if there is none.
Look(w) ==
    /\ At(w, "look") \/ At(w, "again")
    /\ LET k == backends[at[w].slot]
       IN  at' = [at EXCEPT ![w] = CASE k # None -> [@ EXCEPT !.pc = "write", !.bc = k]
                                     [] k = None /\ @.pc = "look" -> [@ EXCEPT !.pc = "listen"]
                                     [] OTHER -> Idle]
    /\ UNCHANGED <<router, made, open, listener, todo, drop, readers, closer>>

WriteTo(w) ==
    /\ At(w, "write")
    /\ \/ at[w].bc \in open /\ UNCHANGED <<backends, drop>>
       \/ CloseBackend(w, at[w].slot, at[w].bc)
    /\ at' = [at EXCEPT ![w] = Idle]
    /\ UNCHANGED <<router, made, open, closed, todo, readers, closer>>

----------------------------------------------------------------------------
(* Close, by the user, or by a Router that goes down or is closed; either  *)
(* takes the listener off the Router's list first.                         *)
BeginClose ==
    /\ cpc = "no"
    /\ cpc' = "unregistered" /\ tracked' = FALSE
    /\ UNCHANGED <<slots, changes, made, open, listener, at, todo, drop, readers, toClose>>

Close ==
    /\ cpc = "unregistered"
    /\ cpc' = "closing" /\ closed' = TRUE
    /\ toClose' = {backends[s] : s \in Slots} \ {None}
    /\ backends' = [s \in Slots |-> None]
    /\ UNCHANGED <<router, made, open, at, todo, drop, readers>>

CloseOne(k) ==
    /\ k \in toClose
    /\ toClose' = toClose \ {k} /\ open' = open \ {k}
    /\ UNCHANGED <<router, made, listener, at, todo, drop, readers, cpc>>

----------------------------------------------------------------------------
Proc(p) ==
    \/ Drop(p) \/ ListenUDP(p) \/ Store(p) \/ Spawn(p)
    \/ p = Setup /\ SetupNext
    \/ p \in Admins /\ DetachBackend(p)
    \/ p \in Writers /\ (Look(p) \/ WriteTo(p) \/ \E s \in Slots : RouteUDP(p, s))
Reader(k) == Drop(k) \/ HandOver(k) \/ ReaderEnds(k)
Closer == Close \/ \E k \in Ids : CloseOne(k)

Next ==
    \/ \E p \in Procs : Proc(p)
    \/ \E a \in Admins, s \in Slots, b \in Backends \cup {None} : ReplaceSlot(a, s, b)
    \/ \E w \in Writers : BeginWrite(w)
    \/ \E k \in Ids : Reader(k) \/ ReadFrom(k)
    \/ UserReads
    \/ BeginClose \/ Closer

Spec == Init /\ [][Next]_vars

\* A goroutine that has begun goes on; a read on a closed socket returns.
Goroutines == (Procs \X {"proc"}) \cup (Ids \X {"reader"}) \cup {<<None, "close">>}

Goroutine(g) ==
    \/ g[2] = "proc" /\ Proc(g[1])
    \/ g[2] = "reader" /\ (Reader(g[1]) \/ (g[1] \notin open /\ ReadFrom(g[1])))
    \/ g[2] = "close" /\ Closer

Fairness == \A g \in Goroutines : WF_vars(Goroutine(g))

----------------------------------------------------------------------------
(* attachBackend, detachBackend, closeBackend and Close: a socket that is  *)
(* open is in its slot, or a goroutine is about to store or to close it; a *)
(* socket in a slot has a reader, or is about to; a closed listener has no *)
(* socket in a slot.                                                       *)
SocketsOwned ==
    /\ \A k \in open :
          \/ k \in {backends[s] : s \in Slots} \cup toClose
          \/ \E g \in Procs \cup Ids : drop[g] = k
          \/ \E p \in Procs : at[p].pc = "store" /\ at[p].bc = k
    /\ \A s \in Slots : backends[s] # None => rpc[backends[s]] \notin {"none", "ended"}
    /\ closed => \A s \in Slots : backends[s] = None

(* Once the listener is closed every socket is closed and every reader     *)
(* ends.                                                                   *)
Remains(k) == closed /\ (k \in open \/ rpc[k] \notin {"none", "ended"})
Finished(k) == k \notin open /\ rpc[k] \in {"none", "ended"}
CloseEnds == \A k \in Ids : Remains(k) ~> Finished(k)
=============================================================================

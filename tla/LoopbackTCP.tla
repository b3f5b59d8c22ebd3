----------------------------- MODULE LoopbackTCP -----------------------------
(***************************************************************************)
(* Listening, dialling and accepting on one registry of the loopback       *)
(* network (loopbackTCPRegistry, loopbackTCPListener, loopbackTCPConn in   *)
(* loopback_tcp.go, the TCP part of LoopbackNetwork.DialTCP in             *)
(* loopback.go).  A step is a critical section of the registry or of the   *)
(* listener.  Which free port the allocator picks is left open (module     *)
(* LoopbackPorts), and so is what a connection carries (module             *)
(* LoopbackTCPStream).                                                     *)
(***************************************************************************)
EXTENDS Naturals, Sequences, FiniteSets

CONSTANTS Listeners, Conns,    \* every listener and connection that is ever made
          Acceptors, Closers,  \* goroutines that call AcceptTCP and Close
          Ports,               \* ports callers name or the allocator hands out
          QueueCap,            \* runtime.NumCPU(), the capacity of acceptQ
          None

VARIABLES listeners, inUse,     \* the registry: listener by port, ports in use
          port,                 \* Port of listeners and of dialled connections
          isClosed, closeDone,  \* of a listener
          acceptQ,
          dpc, target,          \* DialTCP: where it is, the listener it found
          client, server,       \* the two ends of a connection
          accepted,             \* connections AcceptTCP returned
          apc, al, timed,       \* AcceptTCP: where, on which listener, a deadline
          kpc, kl, queued       \* Close: where, of which listener, what it drained

regVars    == <<listeners, inUse, port>>
listenVars == <<isClosed, closeDone, acceptQ>>
connVars   == <<dpc, target, client, server>>
acceptVars == <<accepted, apc, al, timed>>
closeVars  == <<kpc, kl, queued>>
vars == <<regVars, listenVars, connVars, acceptVars, closeVars>>

Init ==
    /\ listeners = [p \in Ports |-> None]
    /\ inUse = {}
    /\ port = [x \in Listeners \cup Conns |-> None]
    /\ isClosed = [l \in Listeners |-> FALSE]
    /\ closeDone = [l \in Listeners |-> FALSE]
    /\ acceptQ = [l \in Listeners |-> <<>>]
    /\ dpc = [c \in Conns |-> "idle"]
    /\ target = [c \in Conns |-> None]
    /\ client = [c \in Conns |-> "none"]
    /\ server = [c \in Conns |-> "none"]
    /\ accepted = {}
    /\ apc = [a \in Acceptors |-> "idle"]
    /\ al = [a \in Acceptors |-> None]
    /\ timed = [a \in Acceptors |-> FALSE]
    /\ kpc = [k \in Closers |-> "idle"]
    /\ kl = [k \in Closers |-> None]
    /\ queued = [k \in Closers |-> {}]

(* notifyQueueChangedLocked: everybody who waits on l's queueChanged       *)
(* channel, which was read under the lock, looks at the listener again.    *)
WakeDials(l) ==
    [c \in Conns |-> IF dpc[c] = "waiting" /\ target[c] = l THEN "queue" ELSE dpc[c]]
WakeAccepts(l) ==
    [a \in Acceptors |-> IF apc[a] = "waiting" /\ al[a] = l THEN "woken" ELSE apc[a]]

(* Mutant: the queue takes one connection too many. *)
HasRoomOverfull(l) == Len(acceptQ[l]) <= QueueCap

HasRoom(l) == Len(acceptQ[l]) < QueueCap
Queued(l) == {acceptQ[l][i] : i \in DOMAIN acceptQ[l]}

----------------------------------------------------------------------------
(* The registry. *)

(* newLoopbackTCPListener and RegListener on a port that is free. *)
RegListener(l, p) ==
    /\ port[l] = None
    /\ p \notin inUse
    /\ inUse' = inUse \cup {p}
    /\ listeners' = [listeners EXCEPT ![p] = l]
    /\ port' = [port EXCEPT ![l] = p]
    /\ UNCHANGED <<listenVars, connVars, acceptVars, closeVars>>

(* UnregListener: what it does to the registry. *)
UnregListener(l) ==
    IF port[l] # 0 /\ listeners[port[l]] = l
    THEN /\ listeners' = [listeners EXCEPT ![port[l]] = None]
         /\ inUse' = inUse \ {port[l]}
    ELSE UNCHANGED <<listeners, inUse>>

----------------------------------------------------------------------------
(* DialTCP. *)

(* Lookup, and the two ends of a new pipe. *)
Lookup(c, p) ==
    /\ dpc[c] = "idle"
    /\ listeners[p] # None
    /\ target' = [target EXCEPT ![c] = listeners[p]]
    /\ dpc' = [dpc EXCEPT ![c] = "reg"]
    /\ client' = [client EXCEPT ![c] = "open"]
    /\ server' = [server EXCEPT ![c] = "open"]
    /\ UNCHANGED <<regVars, listenVars, acceptVars, closeVars>>

(* RegConn on a free port. *)
RegConn(c, p) ==
    /\ dpc[c] = "reg"
    /\ p \notin inUse
    /\ inUse' = inUse \cup {p}
    /\ port' = [port EXCEPT ![c] = p]
    /\ dpc' = [dpc EXCEPT ![c] = "queue"]
    /\ UNCHANGED <<listeners, listenVars, target, client, server, acceptVars, closeVars>>

(* RegConn fails: the caller's port is in use, or none is left.            *)
RegConnFails(c) ==
    /\ dpc[c] = "reg"
    /\ inUse # {}
    /\ dpc' = [dpc EXCEPT ![c] = "failed"]
    /\ server' = [server EXCEPT ![c] = "closed"]
    /\ client' = [client EXCEPT ![c] = "closed"]
    /\ UNCHANGED <<regVars, listenVars, target, acceptVars, closeVars>>

(* The critical section of NewConn. *)
NewConn(c) ==
    LET l == target[c] IN
    /\ dpc[c] = "queue"
    /\ IF isClosed[l]
       THEN /\ dpc' = [dpc EXCEPT ![c] = "undo"]
            /\ UNCHANGED <<acceptQ, apc>>
       ELSE IF HasRoom(l)
       THEN /\ acceptQ' = [acceptQ EXCEPT ![l] = Append(@, c)]
            /\ dpc' = [WakeDials(l) EXCEPT ![c] = "ok"]
            /\ apc' = WakeAccepts(l)
       ELSE /\ dpc' = [dpc EXCEPT ![c] = "waiting"]
            /\ UNCHANGED <<acceptQ, apc>>
    /\ UNCHANGED <<regVars, isClosed, closeDone, target, client, server,
                   accepted, al, timed, closeVars>>

(* NewConn failed: DialTCP closes the server's end and then the client's.  *)
DialUndo(c) ==
    /\ dpc[c] = "undo"
    /\ server' = [server EXCEPT ![c] = "closed"]
    /\ dpc' = [dpc EXCEPT ![c] = "unreg"]
    /\ UNCHANGED <<regVars, listenVars, target, client, acceptVars, closeVars>>

----------------------------------------------------------------------------
(* loopbackTCPConn.Close. *)

(* Of the client's end, which the registry knows: UnregConn first.  The    *)
(* caller of DialTCP may close what it got at any time.                    *)
UnregConn(c) ==
    /\ dpc[c] \in {"ok", "unreg"}
    /\ client[c] = "open"
    /\ client' = [client EXCEPT ![c] = "closing"]
    /\ inUse' = IF port[c] # 0 THEN inUse \ {port[c]} ELSE inUse
    /\ UNCHANGED <<listeners, port, listenVars, dpc, target, server, acceptVars, closeVars>>

CloseClient(c) ==
    /\ client[c] = "closing"
    /\ client' = [client EXCEPT ![c] = "closed"]
    /\ dpc' = [dpc EXCEPT ![c] = IF @ = "unreg" THEN "failed" ELSE @]
    /\ UNCHANGED <<regVars, listenVars, target, server, acceptVars, closeVars>>

(* Of the server's end: its Port is the listener's, but its reg is nil.    *)
CloseServer(c) ==
    /\ c \in accepted
    /\ server[c] = "open"
    /\ server' = [server EXCEPT ![c] = "closed"]
    /\ UNCHANGED <<regVars, listenVars, dpc, target, client, acceptVars, closeVars>>

----------------------------------------------------------------------------
(* AcceptTCP. *)

(* AcceptTCP reads the deadline once. *)
BeginAccept(a, l, d) ==
    /\ apc[a] = "idle"
    /\ port[l] # None
    /\ apc' = [apc EXCEPT ![a] = "lock"]
    /\ al' = [al EXCEPT ![a] = l]
    /\ timed' = [timed EXCEPT ![a] = d]
    /\ UNCHANGED <<regVars, listenVars, connVars, accepted, closeVars>>

AcceptReturns(a) ==
    /\ al' = [al EXCEPT ![a] = None]
    /\ timed' = [timed EXCEPT ![a] = FALSE]

(* The critical section of AcceptTCP. *)
AcceptTCP(a) ==
    LET l == al[a] IN
    /\ apc[a] \in {"lock", "woken"}
    /\ IF isClosed[l]
       THEN /\ apc' = [apc EXCEPT ![a] = "idle"]
            /\ AcceptReturns(a)
            /\ UNCHANGED <<acceptQ, accepted, dpc>>
       ELSE IF acceptQ[l] # <<>>
       THEN /\ acceptQ' = [acceptQ EXCEPT ![l] = Tail(@)]
            /\ accepted' = accepted \cup {Head(acceptQ[l])}
            /\ dpc' = WakeDials(l)
            /\ apc' = [WakeAccepts(l) EXCEPT ![a] = "idle"]
            /\ AcceptReturns(a)
       ELSE /\ apc' = [apc EXCEPT ![a] = "waiting"]
            /\ UNCHANGED <<acceptQ, accepted, dpc, al, timed>>
    /\ UNCHANGED <<regVars, isClosed, closeDone, target, client, server, closeVars>>

(* The deadline passes; the select may take it although queueChanged is    *)
(* closed too.                                                             *)
AcceptTimeout(a) ==
    /\ apc[a] \in {"waiting", "woken"}
    /\ timed[a]
    /\ apc' = [apc EXCEPT ![a] = "idle"]
    /\ AcceptReturns(a)
    /\ UNCHANGED <<regVars, listenVars, connVars, accepted, closeVars>>

----------------------------------------------------------------------------
(* Close of a listener. *)

(* Mutant: a second Close does not wait for the first one. *)
BeginCloseHurries(k, l) ==
    /\ kpc[k] = "idle"
    /\ port[l] # None
    /\ IF isClosed[l]
       THEN /\ kpc' = [kpc EXCEPT ![k] = "returned"]
            /\ kl' = [kl EXCEPT ![k] = l]
            /\ UNCHANGED <<isClosed, acceptQ, queued, dpc, apc>>
       ELSE /\ kpc' = [kpc EXCEPT ![k] = "unreg"]
            /\ kl' = [kl EXCEPT ![k] = l]
            /\ isClosed' = [isClosed EXCEPT ![l] = TRUE]
            /\ queued' = [queued EXCEPT ![k] = Queued(l)]
            /\ acceptQ' = [acceptQ EXCEPT ![l] = <<>>]
            /\ dpc' = WakeDials(l)
            /\ apc' = WakeAccepts(l)
    /\ UNCHANGED <<regVars, closeDone, target, client, server, accepted, al, timed>>

(* The first Close marks the listener and empties the queue; a later one   *)
(* waits for closeDone.                                                    *)
BeginClose(k, l) ==
    /\ kpc[k] = "idle"
    /\ port[l] # None
    /\ kl' = [kl EXCEPT ![k] = l]
    /\ IF isClosed[l]
       THEN /\ kpc' = [kpc EXCEPT ![k] = "wait"]
            /\ UNCHANGED <<isClosed, acceptQ, queued, dpc, apc>>
       ELSE /\ kpc' = [kpc EXCEPT ![k] = "unreg"]
            /\ isClosed' = [isClosed EXCEPT ![l] = TRUE]
            /\ queued' = [queued EXCEPT ![k] = Queued(l)]
            /\ acceptQ' = [acceptQ EXCEPT ![l] = <<>>]
            /\ dpc' = WakeDials(l)
            /\ apc' = WakeAccepts(l)
    /\ UNCHANGED <<regVars, closeDone, target, client, server, accepted, al, timed>>

CloseUnreg(k) ==
    /\ kpc[k] = "unreg"
    /\ UnregListener(kl[k])
    /\ kpc' = [kpc EXCEPT ![k] = "drain"]
    /\ UNCHANGED <<port, listenVars, connVars, acceptVars, kl, queued>>

(* Close the connections that nobody accepted, one after the other. *)
CloseDrain(k) ==
    /\ kpc[k] = "drain"
    /\ IF queued[k] # {}
       THEN \E c \in queued[k] :
                /\ server' = [server EXCEPT ![c] = "closed"]
                /\ queued' = [queued EXCEPT ![k] = @ \ {c}]
                /\ UNCHANGED <<closeDone, kpc>>
       ELSE /\ closeDone' = [closeDone EXCEPT ![kl[k]] = TRUE]
            /\ kpc' = [kpc EXCEPT ![k] = "returned"]
            /\ UNCHANGED <<server, queued>>
    /\ UNCHANGED <<regVars, isClosed, acceptQ, dpc, target, client, acceptVars, kl>>

CloseWaits(k) ==
    /\ kpc[k] = "wait"
    /\ closeDone[kl[k]]
    /\ kpc' = [kpc EXCEPT ![k] = "returned"]
    /\ UNCHANGED <<regVars, listenVars, connVars, acceptVars, kl, queued>>

----------------------------------------------------------------------------
Next ==
    \/ \E l \in Listeners, p \in Ports : RegListener(l, p)
    \/ \E c \in Conns, p \in Ports : Lookup(c, p) \/ RegConn(c, p)
    \/ \E c \in Conns :
           \/ RegConnFails(c) \/ NewConn(c) \/ DialUndo(c)
           \/ UnregConn(c) \/ CloseClient(c) \/ CloseServer(c)
    \/ \E a \in Acceptors :
           \/ \E l \in Listeners, d \in BOOLEAN : BeginAccept(a, l, d)
           \/ AcceptTCP(a) \/ AcceptTimeout(a)
    \/ \E k \in Closers :
           \/ \E l \in Listeners : BeginClose(k, l)
           \/ CloseUnreg(k) \/ CloseDrain(k) \/ CloseWaits(k)

Spec == Init /\ [][Next]_vars

(* A goroutine inside DialTCP, AcceptTCP or Close keeps running.           *)
Goroutines == Conns \cup Acceptors \cup Closers

Goroutine(g) ==
    \/ /\ g \in Conns
       /\ \/ RegConnFails(g) \/ (\E p \in Ports : RegConn(g, p)) \/ NewConn(g) \/ DialUndo(g)
          \/ (dpc[g] = "unreg" /\ UnregConn(g)) \/ CloseClient(g)
    \/ g \in Acceptors /\ AcceptTCP(g)
    \/ g \in Closers /\ (CloseUnreg(g) \/ CloseDrain(g) \/ CloseWaits(g))

Fairness == \A g \in Goroutines : WF_vars(Goroutine(g))

----------------------------------------------------------------------------
(* Type invariant; acceptQ keeps to its capacity. *)
TypeOK ==
    /\ listeners \in [Ports -> Listeners \cup {None}]
    /\ inUse \subseteq Ports
    /\ port \in [Listeners \cup Conns -> Ports \cup {None}]
    /\ isClosed \in [Listeners -> BOOLEAN] /\ closeDone \in [Listeners -> BOOLEAN]
    /\ \A l \in Listeners : acceptQ[l] \in Seq(Conns) /\ Len(acceptQ[l]) <= QueueCap
    /\ dpc \in [Conns -> {"idle", "reg", "queue", "waiting", "ok", "undo", "unreg", "failed"}]
    /\ target \in [Conns -> Listeners \cup {None}]
    /\ client \in [Conns -> {"none", "open", "closing", "closed"}]
    /\ server \in [Conns -> {"none", "open", "closed"}]
    /\ accepted \subseteq Conns
    /\ apc \in [Acceptors -> {"idle", "lock", "waiting", "woken"}]
    /\ al \in [Acceptors -> Listeners \cup {None}] /\ timed \in [Acceptors -> BOOLEAN]
    /\ kpc \in [Closers -> {"idle", "unreg", "drain", "wait", "returned"}]
    /\ kl \in [Closers -> Listeners \cup {None}] /\ queued \in [Closers -> SUBSET Conns]

(* The server's end of a connection, while it is open, is with exactly one *)
(* of: the DialTCP that made it, the queue of an open listener, the caller *)
(* of AcceptTCP, the Close that drains the queue.  A Close racing NewConn  *)
(* and AcceptTCP neither strands nor shares a connection.                  *)
Places(c) ==
    {<<"dial", None>> : x \in {y \in {c} : dpc[y] \in {"reg", "queue", "waiting", "undo"}}}
        \cup {<<"accepted", None>> : x \in {c} \cap accepted}
        \cup {<<"queue", l>> : l \in {m \in Listeners : ~isClosed[m] /\ \E i \in DOMAIN acceptQ[m] : acceptQ[m][i] = c}}
        \cup {<<"drain", k>> : k \in {j \in Closers : c \in queued[j]}}

OnePlace == \A c \in Conns : server[c] = "open" => Cardinality(Places(c)) = 1

(* When any Close of a listener returns, the first one or a later one, the *)
(* listener is out of the registry and no connection is left in its queue. *)
CloseComplete ==
    \A k \in Closers : kpc[k] = "returned" =>
        LET l == kl[k] IN
        /\ \A p \in Ports : listeners[p] # l
        /\ \A c \in Conns : target[c] = l /\ dpc[c] = "ok" /\ c \notin accepted
                                => server[c] = "closed"

(* No wakeup is lost: who waits on queueChanged waits for something that   *)
(* has not happened (NewConn, AcceptTCP).                                  *)
NobodyForgotten ==
    /\ \A c \in Conns : dpc[c] = "waiting" =>
           ~isClosed[target[c]] /\ Len(acceptQ[target[c]]) = QueueCap
    /\ \A a \in Acceptors : apc[a] = "waiting" =>
           ~isClosed[al[a]] /\ acceptQ[al[a]] = <<>>

(* Closing a listener ends every DialTCP and AcceptTCP that hangs on it.   *)
Hangs(w) == \E l \in Listeners : isClosed[l] /\ l = IF w \in Conns THEN target[w] ELSE al[w]
LetGo(w) == IF w \in Conns THEN dpc[w] \in {"ok", "failed"} ELSE apc[w] = "idle"
CloseReleases == \A w \in Conns \cup Acceptors : Hangs(w) ~> LetGo(w)
============================================================================

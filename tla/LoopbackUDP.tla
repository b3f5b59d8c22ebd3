---------------------------- MODULE LoopbackUDP -----------------------------
(* The datagram sockets of the loopback network (loopback_udp.go): the     *)
(* registry that finds a socket by its port, the bounded queue of each     *)
(* socket, deadlines, and the pair of PipeUDP, whose ends send to each     *)
(* other without the registry. A writer sends its datagrams one after the  *)
(* other; the numbers stand for their contents.                            *)
EXTENDS Naturals, Sequences, FiniteSets

CONSTANTS
    Sockets, Readers, Writers,
    Ports,          \* the ports the allocator can give (LoopbackPorts)
    InCap,          \* the capacity of a queue
    MaxSent,        \* bound on the datagrams of a writer
    None

VARIABLES
    conns,          \* loopbackUDPRegistry.conns: port -> socket
    port,           \* socket -> its port
    peer,           \* directSend and peerCloseCh: the other end of a pipe
    closed, in,     \* of each socket
    limited,        \* the sockets with a readDeadline, and with a writeDeadline
    rpc, ron,       \* reader -> its step and the socket it reads
    wpc, won, wto,  \* writer -> its step, its socket, and the destination
    timed,          \* the readers and writers whose timer runs
    sent, got       \* history: writer -> datagrams begun; socket -> what was read

registry == <<conns, port, peer, closed>>
readers == <<rpc, ron, got>>
writers == <<wpc, won, wto, sent>>
vars == <<registry, in, limited, readers, writers, timed>>

Init ==
    /\ conns = [p \in Ports |-> None]
    /\ port = [s \in Sockets |-> None] /\ peer = [s \in Sockets |-> None]
    /\ closed = {} /\ in = [s \in Sockets |-> <<>>]
    /\ limited = [read |-> {}, write |-> {}]
    /\ rpc = [r \in Readers |-> "idle"] /\ ron = [r \in Readers |-> None]
    /\ wpc = [w \in Writers |-> "idle"] /\ won = [w \in Writers |-> None]
    /\ wto = [w \in Writers |-> None]
    /\ timed = {}
    /\ sent = [w \in Writers |-> 0] /\ got = [s \in Sockets |-> <<>>]

Made(s) == port[s] # None \/ peer[s] # None
Full(s) == Len(in[s]) >= InCap

----------------------------------------------------------------------------
\* newLoopbackUDPConn: reg takes a port that is free, or fails and leaves
\* nothing behind.
Open(s, p) ==
    /\ ~Made(s) /\ conns[p] = None
    /\ conns' = [conns EXCEPT ![p] = s]
    /\ port' = [port EXCEPT ![s] = p]
    /\ UNCHANGED <<peer, closed, in, limited, readers, writers, timed>>

PipeUDP(s, t) ==
    /\ s # t /\ ~Made(s) /\ ~Made(t)
    /\ peer' = [peer EXCEPT ![s] = t, ![t] = s]
    /\ UNCHANGED <<conns, port, closed, in, limited, readers, writers, timed>>

Unreg(s) == [p \in Ports |-> IF conns[p] = s THEN None ELSE conns[p]]

\* Close: closed, unreg and closeCh, with the socket locked. The queue stays.
Close(s) ==
    /\ Made(s) /\ s \notin closed
    /\ closed' = closed \cup {s}
    /\ conns' = Unreg(s)
    /\ UNCHANGED <<port, peer, in, limited, readers, writers, timed>>

\* SetDeadline, SetReadDeadline and SetWriteDeadline: calls that have begun
\* keep the deadline they have read.
SetDeadline(s, sides, set) ==
    /\ Made(s)
    /\ limited' = [k \in DOMAIN limited |->
                      CASE k \notin sides -> limited[k]
                        [] set -> limited[k] \cup {s}
                        [] OTHER -> limited[k] \ {s}]
    /\ UNCHANGED <<registry, in, readers, writers, timed>>

----------------------------------------------------------------------------
(* ReadFrom. *)
BeginRead(r, s) ==
    /\ rpc[r] = "idle" /\ Made(s) /\ s \notin closed
    /\ rpc' = [rpc EXCEPT ![r] = "select"]
    /\ ron' = [ron EXCEPT ![r] = s]
    /\ timed' = IF s \in limited.read THEN timed \cup {r} ELSE timed
    /\ UNCHANGED <<registry, in, limited, writers, got>>

\* The select: a datagram is there, the timer fires, or the socket is closed.
Read(r) ==
    LET s == ron[r]
    IN  /\ rpc[r] = "select"
        /\ \/ /\ in[s] # <<>>
              /\ in' = [in EXCEPT ![s] = Tail(@)]
              /\ got' = [got EXCEPT ![s] = Append(@, Head(in[s]))]
           \/ (r \in timed \/ s \in closed) /\ UNCHANGED <<in, got>>
        /\ rpc' = [rpc EXCEPT ![r] = "idle"]
        /\ timed' = timed \ {r}
        /\ UNCHANGED <<registry, limited, ron, writers>>

----------------------------------------------------------------------------
(* WriteTo and sendTo. *)
Goes(w, to) == wpc' = [wpc EXCEPT ![w] = to]

BeginWrite(w, s) ==
    /\ wpc[w] = "idle" /\ Made(s) /\ s \notin closed /\ sent[w] < MaxSent
    /\ Goes(w, "lookup")
    /\ won' = [won EXCEPT ![w] = s]
    /\ sent' = [sent EXCEPT ![w] = @ + 1]
    /\ timed' = IF s \in limited.write THEN timed \cup {w} ELSE timed
    /\ UNCHANGED <<registry, in, limited, readers, wto>>

\* The other end of the pipe, if it is open, or the socket at the port.
Lookup(w, p) ==
    LET s == won[w]
        dst == IF peer[s] # None THEN peer[s] ELSE conns[p]
    IN  /\ wpc[w] = "lookup"
        /\ IF dst = None \/ (peer[s] # None /\ dst \in closed)
           THEN Goes(w, "idle") /\ timed' = timed \ {w} /\ UNCHANGED wto
           ELSE Goes(w, "select") /\ wto' = [wto EXCEPT ![w] = dst] /\ UNCHANGED timed
        /\ UNCHANGED <<registry, in, limited, readers, won, sent>>

\* The select of sendTo.
Send(w) ==
    /\ wpc[w] = "select"
    /\ \/ /\ ~Full(wto[w])
          /\ in' = [in EXCEPT ![wto[w]] = Append(@, <<w, sent[w]>>)]
       \/ /\ w \in timed \/ {wto[w], won[w]} \cap closed # {}
          /\ UNCHANGED in
    /\ Goes(w, "idle")
    /\ timed' = timed \ {w}
    /\ UNCHANGED <<registry, limited, readers, won, wto, sent>>

----------------------------------------------------------------------------
Next ==
    \/ \E s \in Sockets :
          \/ \E p \in Ports : Open(s, p)
          \/ \E t \in Sockets : PipeUDP(s, t)
          \/ Close(s)
          \/ \E sides \in {{"read", "write"}, {"read"}, {"write"}}, set \in BOOLEAN :
                SetDeadline(s, sides, set)
    \/ \E r \in Readers : Read(r) \/ \E s \in Sockets : BeginRead(r, s)
    \/ \E w \in Writers :
          \/ \E s \in Sockets : BeginWrite(w, s)
          \/ \E p \in Ports : Lookup(w, p)
          \/ Send(w)

Spec == Init /\ [][Next]_vars

\* Goroutines that have begun go on, and timers fire.
Goroutines == Readers \cup Writers

Goroutine(g) ==
    \/ g \in Readers /\ Read(g)
    \/ g \in Writers /\ (Send(g) \/ \E p \in Ports : Lookup(g, p))

Fairness == \A g \in Goroutines : WF_vars(Goroutine(g))

----------------------------------------------------------------------------
(* reg, unreg and Close: the registry holds exactly the open sockets, each *)
(* under its own port.                                                     *)
Registered ==
    \A s \in Sockets :
        (port[s] # None /\ s \notin closed) <=> (\E p \in Ports : conns[p] = s /\ port[s] = p)

(* sendTo and ReadFrom: what a writer sent to a socket is there once, in   *)
(* the order of the calls.                                                 *)
InOrder ==
    \A s \in Sockets, w \in Writers :
        LET all == got[s] \o in[s]
        IN  \A i, j \in DOMAIN all :
                i < j /\ all[i][1] = w /\ all[j][1] = w => all[i][2] < all[j][2]

(* A call whose socket, or whose destination, was closed comes back.       *)
Hangs(g) ==
    \/ g \in Readers /\ rpc[g] = "select" /\ ron[g] \in closed
    \/ g \in Writers /\ wpc[g] = "select" /\ {wto[g], won[g]} \cap closed # {}
Free(g) == IF g \in Readers THEN rpc[g] = "idle" ELSE wpc[g] = "idle"
CloseReleases == \A g \in Goroutines : Hangs(g) ~> Free(g)
=============================================================================

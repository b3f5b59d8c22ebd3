------------------------- MODULE LoopbackMulticast --------------------------
(* The multicast sockets of the loopback network (loopback_multicast.go):  *)
(* one registry of sockets and of the members of each group, and sockets   *)
(* that join, leave, write to a group, read and are closed. A membership   *)
(* is that of a group at the port of the socket.                           *)
EXTENDS Naturals, Sequences, FiniteSets

CONSTANTS
    Socks, Writers, Groups,
    Ports,              \* users ask for one of them, or let the allocator choose
    InCap,              \* the capacity of a queue
    MaxSent,            \* bound on the datagrams of a writer
    None

VARIABLES
    conns,          \* loopbackMulticastRegistry.conns
    memberships,    \* group and port -> the sockets
    taken,          \* the ports the allocator has given
    allocated,      \* the sockets that have their port from the allocator
    port, closed,   \* of each socket: its port; isClosed
    closing,        \* socket -> what Close still has to do
    mine, in,       \* socket -> its own record of its groups; its queue
    jpc, jkey,      \* socket -> the step of JoinGroup or LeaveGroup, and the group
    wpc, wkey, left,\* writer -> its step, its destination, the recipients to go
    told, sent, got \* history: the recipients of a datagram; datagrams; what was read

Keys == Groups \X Ports

sockets == <<conns, taken, allocated, port, closed, closing>>
groups == <<memberships, mine, jpc, jkey>>
writers == <<wpc, wkey, left, told, sent>>
vars == <<sockets, groups, in, writers, got>>

Init ==
    /\ conns = {} /\ taken = {} /\ allocated = {} /\ memberships = [k \in Keys |-> {}]
    /\ port = [c \in Socks |-> None] /\ closed = {}
    /\ closing = [c \in Socks |-> "no"]
    /\ mine = [c \in Socks |-> {}] /\ in = [c \in Socks |-> <<>>]
    /\ jpc = [c \in Socks |-> "idle"] /\ jkey = [c \in Socks |-> None]
    /\ wpc = [w \in Writers |-> "idle"] /\ wkey = [w \in Writers |-> None]
    /\ left = [w \in Writers |-> {}] /\ told = [w \in Writers |-> {}]
    /\ sent = [w \in Writers |-> 0] /\ got = [c \in Socks |-> <<>>]

----------------------------------------------------------------------------
\* A port that is asked for is not reserved: several sockets may share it.
Listen(c, p) ==
    /\ port[c] = None
    /\ \/ UNCHANGED <<taken, allocated>>
       \/ p \notin taken /\ taken' = taken \cup {p} /\ allocated' = allocated \cup {c}
    /\ port' = [port EXCEPT ![c] = p]
    /\ conns' = conns \cup {c}
    /\ UNCHANGED <<closed, closing, groups, in, writers, got>>

\* Close marks the socket, has it unregistered, and closes closeCh.
Close(c) ==
    /\ c \in conns /\ c \notin closed
    /\ closed' = closed \cup {c}
    /\ closing' = [closing EXCEPT ![c] = "unregister"]
    /\ UNCHANGED <<conns, taken, allocated, port, groups, in, writers, got>>

\* Mutant: the port is freed whoever chose it.
FreesAny(c) == {port[c]}

Frees(c) == IF c \in allocated THEN {port[c]} ELSE {}

Unregister(c) ==
    /\ closing[c] = "unregister"
    /\ memberships' = [k \in Keys |-> memberships[k] \ (IF k \in mine[c] THEN {c} ELSE {})]
    /\ conns' = conns \ {c}
    /\ taken' = taken \ Frees(c)
    /\ closing' = [closing EXCEPT ![c] = "closeCh"]
    /\ UNCHANGED <<allocated, port, closed, mine, jpc, jkey, in, writers, got>>

CloseCh(c) ==
    /\ closing[c] = "closeCh"
    /\ closing' = [closing EXCEPT ![c] = "done"]
    /\ UNCHANGED <<conns, taken, allocated, port, closed, groups, in, writers, got>>

----------------------------------------------------------------------------
(* JoinGroup and LeaveGroup look at closed, and then call the registry. *)
JoinGroup(c, g, to) ==
    /\ c \in conns /\ c \notin closed /\ jpc[c] = "idle"
    /\ jpc' = [jpc EXCEPT ![c] = to]
    /\ jkey' = [jkey EXCEPT ![c] = <<g, port[c]>>]
    /\ UNCHANGED <<memberships, mine, sockets, in, writers, got>>

Member(c, k, in_) ==
    /\ memberships' = [memberships EXCEPT ![k] = IF in_ THEN @ \cup {c} ELSE @ \ {c}]
    /\ mine' = [mine EXCEPT ![c] = IF in_ THEN @ \cup {k} ELSE @ \ {k}]

Join(c) ==
    /\ jpc[c] = "join"
    /\ Member(c, jkey[c], TRUE)
    /\ jpc' = [jpc EXCEPT ![c] = "idle"]
    /\ UNCHANGED <<jkey, sockets, in, writers, got>>

Leave(c) ==
    /\ jpc[c] = "leave"
    /\ Member(c, jkey[c], FALSE)
    /\ jpc' = [jpc EXCEPT ![c] = "idle"]
    /\ UNCHANGED <<jkey, sockets, in, writers, got>>

----------------------------------------------------------------------------
(* WriteToControl of a socket that is open. *)
BeginWrite(w, c, k) ==
    /\ wpc[w] \in {"idle", "ok"} /\ sent[w] < MaxSent /\ c \in conns /\ c \notin closed
    /\ wpc' = [wpc EXCEPT ![w] = "deliver"]
    /\ wkey' = [wkey EXCEPT ![w] = k]
    /\ sent' = [sent EXCEPT ![w] = @ + 1]
    /\ UNCHANGED <<left, told, sockets, groups, in, got>>

\* deliver: the members of the moment, or "no route to host".
Recipients(w) ==
    /\ wpc[w] = "deliver"
    /\ LET to == memberships[wkey[w]]
       IN  /\ wpc' = [wpc EXCEPT ![w] = IF to = {} THEN "idle" ELSE "loop"]
           /\ left' = [left EXCEPT ![w] = to]
           /\ told' = [told EXCEPT ![w] = to]
    /\ UNCHANGED <<wkey, sent, sockets, groups, in, got>>

\* The select for one recipient after the other: it has room, or it is closed.
Deliver(w, c) ==
    /\ wpc[w] = "loop" /\ c \in left[w]
    /\ \/ Len(in[c]) < InCap /\ in' = [in EXCEPT ![c] = Append(@, <<w, sent[w]>>)]
       \/ closing[c] = "done" /\ UNCHANGED in
    /\ left' = [left EXCEPT ![w] = @ \ {c}]
    /\ wpc' = [wpc EXCEPT ![w] = IF left[w] = {c} THEN "ok" ELSE "loop"]
    /\ UNCHANGED <<wkey, told, sent, sockets, groups, got>>

\* The write deadline passes.
WriteTimeout(w) ==
    /\ wpc[w] = "loop"
    /\ wpc' = [wpc EXCEPT ![w] = "idle"]
    /\ UNCHANGED <<wkey, left, told, sent, sockets, groups, in, got>>

\* ReadFromControl takes a datagram; a call that was under way when the
\* socket was closed may still do so.
Read(c) ==
    /\ in[c] # <<>>
    /\ in' = [in EXCEPT ![c] = Tail(@)]
    /\ got' = [got EXCEPT ![c] = Append(@, Head(in[c]))]
    /\ UNCHANGED <<sockets, groups, writers>>

----------------------------------------------------------------------------
Next ==
    \/ \E c \in Socks :
          \/ \E p \in Ports : Listen(c, p)
          \/ Close(c) \/ Unregister(c) \/ CloseCh(c)
          \/ \E g \in Groups, to \in {"join", "leave"} : JoinGroup(c, g, to)
          \/ Join(c) \/ Leave(c) \/ Read(c)
    \/ \E w \in Writers :
          \/ \E c \in Socks, k \in Keys : BeginWrite(w, c, k)
          \/ Recipients(w) \/ WriteTimeout(w)
          \/ \E c \in Socks : Deliver(w, c)

Spec == Init /\ [][Next]_vars

----------------------------------------------------------------------------
(* join, leave and unregister: the registry and an open socket agree on    *)
(* its groups, under the port it has, and the allocator has exactly the    *)
(* ports in use that it gave to registered sockets.                        *)
MembershipsExact ==
    /\ \A k \in Keys : \A c \in memberships[k] : k[2] = port[c]
    /\ \A c \in Socks \ closed : mine[c] = {k \in Keys : c \in memberships[k]}
    /\ taken = {port[c] : c \in conns \cap allocated}

(* deliver: a write that succeeded has reached every member of that moment *)
(* once, unless that member was closed; nobody else, and never again.      *)
DeliveredOnce ==
    \A w \in Writers, c \in Socks :
        LET all == got[c] \o in[c]
            copies == {i \in DOMAIN all : all[i] = <<w, sent[w]>>}
        IN  /\ Cardinality(copies) <= 1
            /\ wpc[w] = "ok" /\ c \in told[w] => copies # {} \/ closing[c] = "done"
            /\ wpc[w] = "ok" /\ c \notin told[w] => copies = {}
=============================================================================

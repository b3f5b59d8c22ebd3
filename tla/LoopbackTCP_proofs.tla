------------------------- MODULE LoopbackTCP_proofs -------------------------
(***************************************************************************)
(* Dialling, accepting and closing on a loopback registry neither strand   *)
(* nor share a connection, for any numbers of listeners, connections and   *)
(* goroutines and any capacity of the accept queue.                        *)
(***************************************************************************)
EXTENDS LoopbackTCP, TLAPS

(* What the theorems assume of the constants: None is neither a listener   *)
(* nor a port, and nobody has port 0.  "0" and "" mean any free port, but  *)
(* a port spelled "00" is reserved as 0, and UnregListener leaves it: such *)
(* a listener stays in the registry, and CloseComplete fails for it.       *)
Distinguished ==
    /\ QueueCap \in Nat
    /\ None \notin Listeners /\ None \notin Ports /\ 0 \notin Ports
    /\ Listeners \cap Conns = {}

Dialling == {"reg", "queue", "waiting", "undo"}

(* A queue holds no connection twice, that of a closed listener none.      *)
QueuesInv ==
    \A l \in Listeners :
        /\ \A i, j \in DOMAIN acceptQ[l] : acceptQ[l][i] = acceptQ[l][j] => i = j
        /\ isClosed[l] => acceptQ[l] = <<>>

(* Where connection c is.  Only one that DialTCP delivered is in a queue,  *)
(* is drained or is accepted; it is in one of the three at a time; and an  *)
(* open one is in one of them, or still with DialTCP.                      *)
Placed(c) ==
    /\ dpc[c] # "idle" => target[c] \in Listeners /\ server[c] # "none"
    /\ c \in accepted => dpc[c] = "ok"
    /\ \A l \in Listeners : c \in Queued(l) => dpc[c] = "ok" /\ target[c] = l /\ c \notin accepted
    /\ \A k \in Closers : c \in queued[k] =>
          /\ dpc[c] = "ok" /\ target[c] = kl[k] /\ c \notin accepted
          /\ \A l \in Listeners : c \notin Queued(l)
          /\ \A j \in Closers : c \in queued[j] => j = k
    /\ server[c] = "open" =>
          \/ dpc[c] \in Dialling
          \/ /\ dpc[c] = "ok"
             /\ \/ c \in accepted
                \/ \E l \in Listeners : c \in Queued(l)
                \/ \E k \in Closers : c \in queued[k]

(* A Close that has not drained its listener's queue is the only one, and  *)
(* none has returned; when one has, the listener is out of the registry.   *)
Closing(k) ==
    /\ kpc[k] # "idle" => kl[k] \in Listeners /\ port[kl[k]] # None /\ isClosed[kl[k]]
    /\ queued[k] # {} => kpc[k] \in {"unreg", "drain"}
    /\ kpc[k] \in {"unreg", "drain"} =>
          /\ ~closeDone[kl[k]]
          /\ \A j \in Closers : kpc[j] \in {"unreg", "drain"} /\ kl[j] = kl[k] => j = k
    /\ kpc[k] = "drain" => \A p \in Ports : listeners[p] # kl[k]
    /\ kpc[k] = "returned" => closeDone[kl[k]]

RegInv ==
    /\ \A l \in Listeners :
          /\ isClosed[l] => port[l] # None
          /\ closeDone[l] => isClosed[l] /\ \A p \in Ports : listeners[p] # l
    /\ \A p \in Ports : listeners[p] # None => port[listeners[p]] = p

CloseInv == RegInv /\ \A k \in Closers : Closing(k)

(* Who waits is on a listener, and has reason to wait. *)
WakeInv ==
    /\ NobodyForgotten
    /\ \A a \in Acceptors : apc[a] # "idle" => al[a] \in Listeners

QueueTypes == acceptQ \in [Listeners -> Seq(Conns)] /\ \A l \in Listeners : Len(acceptQ[l]) <= QueueCap

(* The inductive invariant. *)
IInv ==
    /\ TypeOK /\ QueueTypes /\ QueuesInv
    /\ \A c \in Conns : Placed(c)
    /\ CloseInv /\ WakeInv

----------------------------------------------------------------------------
(* Queues. *)

Elements(s) == {s[i] : i \in DOMAIN s}
Once(s) == \A i, j \in DOMAIN s : s[i] = s[j] => i = j

(* Append adds one element at the end, ... *)
LEMMA Appended ==
    ASSUME NEW S, NEW s \in Seq(S), NEW x \in S
    PROVE  /\ Append(s, x) \in Seq(S) /\ Len(Append(s, x)) = Len(s) + 1
           /\ Elements(Append(s, x)) = Elements(s) \cup {x}
           /\ Once(s) /\ x \notin Elements(s) => Once(Append(s, x))
<1>1. /\ Append(s, x) \in Seq(S) /\ Len(Append(s, x)) = Len(s) + 1
      /\ DOMAIN Append(s, x) = 1 .. Len(s) + 1 /\ DOMAIN s = 1 .. Len(s) /\ Len(s) \in Nat
      /\ \A i \in 1 .. Len(s) : Append(s, x)[i] = s[i]
      /\ Append(s, x)[Len(s) + 1] = x
    OBVIOUS
<1>2. PICK t : t = Append(s, x)
    BY Zenon
<1>3. \A i : i \in DOMAIN t <=> i \in DOMAIN s \/ i = Len(s) + 1
    BY <1>1, <1>2
<1>4. Elements(t) = Elements(s) \cup {x}
    BY <1>1, <1>2, <1>3, Zenon DEF Elements
<1>5. ASSUME Once(s), x \notin Elements(s) PROVE Once(t)
    <2> SUFFICES ASSUME NEW i \in DOMAIN t, NEW j \in DOMAIN t, t[i] = t[j] PROVE i = j
        BY Zenon DEF Once
    <2>1. (\A k \in DOMAIN s : t[k] = s[k]) /\ t[Len(s) + 1] = x
        BY <1>1, <1>2, Zenon
    <2>2. \A k \in DOMAIN s : s[k] # x
        BY <1>5, Zenon DEF Elements
    <2> QED
        BY <1>3, <1>5, <2>1, <2>2, Zenon DEF Once
<1> QED
    BY <1>1, <1>2, <1>4, <1>5, Zenon

(* ... and Tail takes the first one away. *)
LEMMA Tailed ==
    ASSUME NEW S, NEW s \in Seq(S), s # <<>>
    PROVE  /\ Tail(s) \in Seq(S) /\ Len(s) \in Nat /\ Len(s) > 0 /\ Len(Tail(s)) = Len(s) - 1
           /\ Head(s) \in Elements(s) /\ Head(s) \in S
           /\ Once(s) => Once(Tail(s)) /\ Elements(Tail(s)) = Elements(s) \ {Head(s)}
<1>1. /\ Tail(s) \in Seq(S) /\ Len(s) \in Nat /\ Len(s) > 0 /\ Len(Tail(s)) = Len(s) - 1
      /\ DOMAIN Tail(s) = 1 .. Len(s) - 1 /\ DOMAIN s = 1 .. Len(s)
      /\ \A i \in 1 .. Len(s) - 1 : Tail(s)[i] = s[i + 1]
      /\ Head(s) = s[1] /\ Head(s) \in S
    OBVIOUS
<1>2. PICK t : t = Tail(s)
    BY Zenon
<1>3. /\ \A i \in DOMAIN t : i + 1 \in DOMAIN s /\ i + 1 # 1 /\ t[i] = s[i + 1]
      /\ \A i, j \in DOMAIN t : i + 1 = j + 1 => i = j
      /\ \A i \in DOMAIN s : i # 1 => \E j \in DOMAIN t : i = j + 1
      /\ 1 \in DOMAIN s
    <2>1. \A i \in DOMAIN t : i + 1 \in DOMAIN s /\ i + 1 # 1 /\ t[i] = s[i + 1]
        BY <1>1, <1>2
    <2>2. \A i, j \in DOMAIN t : i + 1 = j + 1 => i = j
        BY <1>1, <1>2
    <2>3. ASSUME NEW i \in DOMAIN s, i # 1 PROVE \E j \in DOMAIN t : i = j + 1
        <3>1. i - 1 \in DOMAIN t /\ i = (i - 1) + 1
            BY <1>1, <1>2, <2>3
        <3> QED
            BY Zenon, <3>1
    <2>4. 1 \in DOMAIN s
        BY <1>1
    <2> QED
        BY Zenon, <2>1, <2>2, <2>3, <2>4
<1>4. Head(s) \in Elements(s)
    BY <1>1, <1>3, Zenon DEF Elements
<1>5. ASSUME Once(s) PROVE Once(t)
    BY ZenonT(30), <1>3, <1>5 DEF Once
<1>6. ASSUME Once(s) PROVE Elements(t) = Elements(s) \ {Head(s)}
    <2>1. ASSUME NEW x \in Elements(t) PROVE x \in Elements(s) \ {s[1]}
        <3>1. PICK i \in DOMAIN t : x = t[i]
            BY <2>1, Zenon DEF Elements
        <3>2. i + 1 \in DOMAIN s /\ i + 1 # 1 /\ x = s[i + 1]
            BY <1>3, <3>1, Zenon
        <3> QED
            BY <1>3, <1>6, <3>2, Zenon DEF Elements, Once
    <2>2. ASSUME NEW x \in Elements(s) \ {s[1]} PROVE x \in Elements(t)
        <3>1. PICK i \in DOMAIN s : x = s[i] /\ i # 1
            BY <2>2, Zenon DEF Elements
        <3>2. PICK j \in DOMAIN t : i = j + 1
            BY <1>3, <3>1, Zenon
        <3> QED
            BY <1>3, <3>1, <3>2, Zenon DEF Elements
    <2> QED
        BY <1>1, <2>1, <2>2, Zenon
<1> QED
    BY <1>1, <1>2, <1>4, <1>5, <1>6, Zenon

----------------------------------------------------------------------------
(* Types, group by group. *)

RegTypes ==
    /\ listeners \in [Ports -> Listeners \cup {None}]
    /\ inUse \subseteq Ports
    /\ port \in [Listeners \cup Conns -> Ports \cup {None}]

ListenTypes == isClosed \in [Listeners -> BOOLEAN] /\ closeDone \in [Listeners -> BOOLEAN]

DialStates == {"idle", "reg", "queue", "waiting", "ok", "undo", "unreg", "failed"}

ConnTypes ==
    /\ dpc \in [Conns -> DialStates]
    /\ target \in [Conns -> Listeners \cup {None}]
    /\ client \in [Conns -> {"none", "open", "closing", "closed"}]
    /\ server \in [Conns -> {"none", "open", "closed"}]
    /\ accepted \subseteq Conns

AcceptTypes ==
    /\ apc \in [Acceptors -> {"idle", "lock", "waiting", "woken"}]
    /\ al \in [Acceptors -> Listeners \cup {None}]
    /\ timed \in [Acceptors -> BOOLEAN]

CloseTypes ==
    /\ kpc \in [Closers -> {"idle", "unreg", "drain", "wait", "returned"}]
    /\ kl \in [Closers -> Listeners \cup {None}]
    /\ queued \in [Closers -> SUBSET Conns]

Types == RegTypes /\ ListenTypes /\ ConnTypes /\ AcceptTypes /\ CloseTypes /\ QueueTypes

(* The groups are the type invariant. *)
LEMMA Typed == Types <=> TypeOK /\ QueueTypes
<1>1. QueueTypes => \A l \in Listeners : acceptQ[l] \in Seq(Conns) /\ Len(acceptQ[l]) <= QueueCap
    BY Zenon DEF QueueTypes
<1> QED
    BY Zenon, <1>1 DEF Types, TypeOK, RegTypes, ListenTypes, ConnTypes, AcceptTypes, CloseTypes, DialStates

(* Waking leaves everybody where the types allow and nobody on l waiting. *)
LEMMA Woken ==
    ASSUME ConnTypes, AcceptTypes, NEW l
    PROVE  /\ WakeDials(l) \in [Conns -> DialStates]
           /\ WakeAccepts(l) \in [Acceptors -> {"idle", "lock", "waiting", "woken"}]
           /\ \A c \in Conns : \/ WakeDials(l)[c] = dpc[c] /\ ~(dpc[c] = "waiting" /\ target[c] = l)
                               \/ WakeDials(l)[c] = "queue" /\ dpc[c] = "waiting" /\ target[c] = l
           /\ \A a \in Acceptors : \/ WakeAccepts(l)[a] = apc[a] /\ ~(apc[a] = "waiting" /\ al[a] = l)
                                   \/ WakeAccepts(l)[a] = "woken" /\ apc[a] = "waiting" /\ al[a] = l
    BY Zenon DEF WakeDials, WakeAccepts, ConnTypes, AcceptTypes, DialStates

(* Every step keeps the types of the registry and of the listeners. *)
LEMMA RegTypesKept == ASSUME Types, [Next]_vars PROVE RegTypes' /\ ListenTypes'
<1>0. RegTypes /\ ListenTypes
    BY Zenon DEF Types
<1>u. ASSUME UNCHANGED <<regVars, isClosed, closeDone>> PROVE RegTypes' /\ ListenTypes'
    BY Zenon, <1>0, <1>u DEF regVars, RegTypes, ListenTypes
<1>1. ASSUME NEW l \in Listeners, NEW p \in Ports, RegListener(l, p) PROVE RegTypes' /\ ListenTypes'
    <2>1. RegTypes'
        BY Zenon, <1>0, <1>1 DEF RegListener, RegTypes
    <2> QED
        BY Zenon, <1>0, <1>1, <2>1 DEF RegListener, listenVars, ListenTypes
<1>2. ASSUME NEW c \in Conns, NEW p \in Ports, Lookup(c, p) \/ RegConn(c, p) PROVE RegTypes' /\ ListenTypes'
    <2>1. CASE Lookup(c, p)
        BY Zenon, <1>u, <2>1 DEF Lookup, listenVars
    <2>2. CASE RegConn(c, p)
        <3>1. RegTypes'
            BY Zenon, <1>0, <2>2 DEF RegConn, RegTypes
        <3> QED
            BY Zenon, <1>0, <2>2, <3>1 DEF RegConn, listenVars, ListenTypes
    <2> QED
        BY Zenon, <1>2, <2>1, <2>2
<1>3. ASSUME NEW c \in Conns, RegConnFails(c) \/ NewConn(c) \/ DialUndo(c) \/ CloseClient(c) \/ CloseServer(c)
      PROVE  RegTypes' /\ ListenTypes'
    BY Zenon, <1>u, <1>3 DEF RegConnFails, NewConn, DialUndo, CloseClient, CloseServer, listenVars
<1>4. ASSUME NEW c \in Conns, UnregConn(c) PROVE RegTypes' /\ ListenTypes'
    <2>1. inUse' \subseteq Ports
        BY Zenon, <1>0, <1>4 DEF UnregConn, RegTypes
    <2> QED
        BY Zenon, <1>0, <1>4, <2>1 DEF UnregConn, listenVars, RegTypes, ListenTypes
<1>5. ASSUME NEW a, NEW l, NEW d, BeginAccept(a, l, d) \/ AcceptTCP(a) \/ AcceptTimeout(a) PROVE RegTypes' /\ ListenTypes'
    BY Zenon, <1>u, <1>5 DEF BeginAccept, AcceptTCP, AcceptTimeout, listenVars
<1>6. ASSUME NEW k \in Closers, NEW l \in Listeners, BeginClose(k, l) PROVE RegTypes' /\ ListenTypes'
    <2>1. ListenTypes'
        BY Zenon, <1>0, <1>6 DEF BeginClose, ListenTypes
    <2> QED
        BY Zenon, <1>0, <1>6, <2>1 DEF BeginClose, regVars, RegTypes
<1>7. ASSUME NEW k \in Closers, CloseUnreg(k) PROVE RegTypes' /\ ListenTypes'
    <2>1. RegTypes'
        BY Zenon, <1>0, <1>7 DEF CloseUnreg, UnregListener, RegTypes
    <2> QED
        BY Zenon, <1>0, <1>7, <2>1 DEF CloseUnreg, listenVars, ListenTypes
<1>8. ASSUME NEW k \in Closers, CloseDrain(k) PROVE RegTypes' /\ ListenTypes'
    <2>1. ListenTypes'
        BY Zenon, <1>0, <1>8 DEF CloseDrain, ListenTypes
    <2> QED
        BY Zenon, <1>0, <1>8, <2>1 DEF CloseDrain, regVars, RegTypes
<1>9. ASSUME NEW k, CloseWaits(k) PROVE RegTypes' /\ ListenTypes'
    BY Zenon, <1>u, <1>9 DEF CloseWaits, listenVars
<1>10. CASE UNCHANGED vars
    BY Zenon, <1>u, <1>10 DEF vars, listenVars
<1> QED
    BY Zenon, <1>1, <1>2, <1>3, <1>4, <1>5, <1>6, <1>7, <1>8, <1>9, <1>10 DEF Next

(* The queues: NewConn appends, AcceptTCP takes the tail, Close empties.   *)
LEMMA QueueMoves ==
    ASSUME [Next]_vars
    PROVE  \/ UNCHANGED acceptQ
           \/ \E c \in Conns : /\ NewConn(c) /\ ~isClosed[target[c]] /\ HasRoom(target[c])
                                /\ acceptQ' = [acceptQ EXCEPT ![target[c]] = Append(@, c)]
           \/ \E a \in Acceptors : /\ AcceptTCP(a) /\ ~isClosed[al[a]] /\ acceptQ[al[a]] # <<>>
                                    /\ acceptQ' = [acceptQ EXCEPT ![al[a]] = Tail(@)]
           \/ \E k \in Closers, l \in Listeners : /\ BeginClose(k, l) /\ ~isClosed[l]
                                                  /\ acceptQ' = [acceptQ EXCEPT ![l] = <<>>]
<1>1. ASSUME NEW x, NEW p, RegListener(x, p) \/ Lookup(x, p) \/ RegConn(x, p) PROVE UNCHANGED acceptQ
    BY Zenon, <1>1 DEF RegListener, Lookup, RegConn, listenVars
<1>2. ASSUME NEW c, \/ RegConnFails(c) \/ DialUndo(c) \/ UnregConn(c) \/ CloseClient(c) \/ CloseServer(c)
      PROVE  UNCHANGED acceptQ
    BY Zenon, <1>2 DEF RegConnFails, DialUndo, UnregConn, CloseClient, CloseServer, listenVars
<1>3. ASSUME NEW a, NEW l, NEW d, BeginAccept(a, l, d) \/ AcceptTimeout(a) PROVE UNCHANGED acceptQ
    BY Zenon, <1>3 DEF BeginAccept, AcceptTimeout, listenVars
<1>4. ASSUME NEW k, CloseUnreg(k) \/ CloseDrain(k) \/ CloseWaits(k) PROVE UNCHANGED acceptQ
    BY Zenon, <1>4 DEF CloseUnreg, CloseDrain, CloseWaits, listenVars
<1>5. CASE UNCHANGED vars
    BY Zenon, <1>5 DEF vars, listenVars
<1>6. ASSUME NEW c \in Conns, NewConn(c)
      PROVE  \/ UNCHANGED acceptQ
             \/ /\ ~isClosed[target[c]] /\ HasRoom(target[c])
                /\ acceptQ' = [acceptQ EXCEPT ![target[c]] = Append(@, c)]
    BY Zenon, <1>6 DEF NewConn
<1>7. ASSUME NEW a \in Acceptors, AcceptTCP(a)
      PROVE  \/ UNCHANGED acceptQ
             \/ /\ ~isClosed[al[a]] /\ acceptQ[al[a]] # <<>>
                /\ acceptQ' = [acceptQ EXCEPT ![al[a]] = Tail(@)]
    BY Zenon, <1>7 DEF AcceptTCP
<1>8. ASSUME NEW k \in Closers, NEW l \in Listeners, BeginClose(k, l)
      PROVE  UNCHANGED acceptQ \/ (~isClosed[l] /\ acceptQ' = [acceptQ EXCEPT ![l] = <<>>])
    BY Zenon, <1>8 DEF BeginClose
<1> QED
    BY Zenon, <1>1, <1>2, <1>3, <1>4, <1>5, <1>6, <1>7, <1>8 DEF Next

(* Only the first Close of a listener closes it. *)
LEMMA ClosedByClose ==
    ASSUME Types, [Next]_vars, NEW l \in Listeners, isClosed'[l], ~isClosed[l]
    PROVE  \E k \in Closers : BeginClose(k, l)
<1>0. isClosed' # isClosed
    BY Zenon
<1>1. ASSUME NEW x, NEW p, RegListener(x, p) \/ Lookup(x, p) \/ RegConn(x, p) PROVE FALSE
    BY Zenon, <1>0, <1>1 DEF RegListener, Lookup, RegConn, listenVars
<1>2. ASSUME NEW c, \/ RegConnFails(c) \/ NewConn(c) \/ DialUndo(c)
                     \/ UnregConn(c) \/ CloseClient(c) \/ CloseServer(c)
      PROVE  FALSE
    BY Zenon, <1>0, <1>2 DEF RegConnFails, NewConn, DialUndo, UnregConn, CloseClient, CloseServer, listenVars
<1>3. ASSUME NEW a, NEW m, NEW d, BeginAccept(a, m, d) \/ AcceptTCP(a) \/ AcceptTimeout(a) PROVE FALSE
    BY Zenon, <1>0, <1>3 DEF BeginAccept, AcceptTCP, AcceptTimeout, listenVars
<1>4. ASSUME NEW k, CloseUnreg(k) \/ CloseDrain(k) \/ CloseWaits(k) PROVE FALSE
    BY Zenon, <1>0, <1>4 DEF CloseUnreg, CloseDrain, CloseWaits, listenVars
<1>5. CASE UNCHANGED vars
    BY Zenon, <1>0, <1>5 DEF vars, listenVars
<1>6. ASSUME NEW k \in Closers, NEW m \in Listeners, BeginClose(k, m) PROVE m = l
    BY Zenon, <1>0, <1>6 DEF BeginClose, Types, ListenTypes
<1> QED
    BY Zenon, <1>1, <1>2, <1>3, <1>4, <1>5, <1>6 DEF Next

(* What the three do to the queues. *)
LEMMA QueueAppends ==
    ASSUME Types, NEW c \in Conns, NEW l \in Listeners, HasRoom(l), QueueCap \in Nat,
           acceptQ' = [acceptQ EXCEPT ![l] = Append(@, c)]
    PROVE  /\ QueueTypes'
           /\ \A m \in Listeners : m # l => acceptQ'[m] = acceptQ[m]
           /\ Queued(l)' = Queued(l) \cup {c}
           /\ Once(acceptQ[l]) /\ c \notin Queued(l) => Once(acceptQ'[l])
<1>0. acceptQ \in [Listeners -> Seq(Conns)] /\ Len(acceptQ[l]) < QueueCap
    BY Zenon DEF Types, QueueTypes, HasRoom
<1>1. acceptQ'[l] = Append(acceptQ[l], c) /\ \A m \in Listeners : m # l => acceptQ'[m] = acceptQ[m]
    BY Zenon, <1>0
<1>2. PICK s \in Seq(Conns) : s = acceptQ[l]
    BY Zenon, <1>0
<1>3. /\ Append(s, c) \in Seq(Conns) /\ Len(Append(s, c)) = Len(s) + 1
      /\ Elements(Append(s, c)) = Elements(s) \cup {c}
      /\ Once(s) /\ c \notin Elements(s) => Once(Append(s, c))
    BY Zenon, Appended
<1>4. Len(s) + 1 <= QueueCap
    BY <1>0, <1>2
<1>5. acceptQ' \in [Listeners -> Seq(Conns)]
    BY Zenon, <1>0, <1>2, <1>3
<1>6. QueueTypes'
    BY Zenon, <1>1, <1>2, <1>3, <1>4, <1>5 DEF Types, QueueTypes
<1>7. Queued(l) = Elements(s) /\ Queued(l)' = Elements(Append(s, c))
    BY Zenon, <1>1, <1>2 DEF Queued, Elements
<1> QED
    BY Zenon, <1>1, <1>2, <1>3, <1>6, <1>7

(* AcceptTCP takes the head of a queue, ... *)
LEMMA QueueTakes ==
    ASSUME Types, NEW l \in Listeners, acceptQ[l] # <<>>, QueueCap \in Nat,
           acceptQ' = [acceptQ EXCEPT ![l] = Tail(@)]
    PROVE  /\ QueueTypes'
           /\ \A m \in Listeners : m # l => acceptQ'[m] = acceptQ[m]
           /\ Head(acceptQ[l]) \in Queued(l) /\ Head(acceptQ[l]) \in Conns
           /\ Once(acceptQ[l]) => Once(acceptQ'[l]) /\ Queued(l)' = Queued(l) \ {Head(acceptQ[l])}
<1>0. acceptQ \in [Listeners -> Seq(Conns)] /\ Len(acceptQ[l]) <= QueueCap
    BY Zenon DEF Types, QueueTypes
<1>1. acceptQ'[l] = Tail(acceptQ[l]) /\ \A m \in Listeners : m # l => acceptQ'[m] = acceptQ[m]
    BY Zenon, <1>0
<1>2. PICK s \in Seq(Conns) : s = acceptQ[l]
    BY Zenon, <1>0
<1>3. /\ Tail(s) \in Seq(Conns) /\ Len(s) \in Nat /\ Len(s) > 0 /\ Len(Tail(s)) = Len(s) - 1
      /\ Head(s) \in Elements(s) /\ Head(s) \in Conns
      /\ Once(s) => Once(Tail(s)) /\ Elements(Tail(s)) = Elements(s) \ {Head(s)}
    <2>1. s # <<>>
        BY Zenon, <1>2
    <2> QED
        BY Zenon, <2>1, Tailed
<1>4. Len(Tail(s)) <= QueueCap
    BY <1>0, <1>2, <1>3
<1>5. acceptQ' \in [Listeners -> Seq(Conns)]
    BY Zenon, <1>0, <1>2, <1>3
<1>6. QueueTypes'
    BY Zenon, <1>1, <1>2, <1>4, <1>5 DEF Types, QueueTypes
<1>7. Queued(l) = Elements(s) /\ Queued(l)' = Elements(Tail(s))
    BY Zenon, <1>1, <1>2 DEF Queued, Elements
<1> QED
    BY Zenon, <1>1, <1>2, <1>3, <1>6, <1>7

(* ... and Close all of it. *)
LEMMA QueueEmptied ==
    ASSUME Types, NEW l \in Listeners, QueueCap \in Nat, acceptQ' = [acceptQ EXCEPT ![l] = <<>>]
    PROVE  /\ QueueTypes'
           /\ \A m \in Listeners : m # l => acceptQ'[m] = acceptQ[m]
           /\ acceptQ'[l] = <<>> /\ Queued(l)' = {} /\ Once(acceptQ'[l])
<1>0. acceptQ \in [Listeners -> Seq(Conns)]
    BY Zenon DEF Types, QueueTypes
<1>1. acceptQ'[l] = <<>> /\ \A m \in Listeners : m # l => acceptQ'[m] = acceptQ[m]
    BY Zenon, <1>0
<1>2. <<>> \in Seq(Conns) /\ Len(<<>>) <= QueueCap /\ DOMAIN <<>> = {}
    OBVIOUS
<1>3. acceptQ' \in [Listeners -> Seq(Conns)]
    BY Zenon, <1>0, <1>2
<1>4. QueueTypes'
    BY Zenon, <1>1, <1>2, <1>3 DEF Types, QueueTypes
<1>5. Queued(l)' = {} /\ Once(acceptQ'[l])
    BY Zenon, <1>1, <1>2 DEF Queued, Once
<1> QED
    BY Zenon, <1>1, <1>4, <1>5

(* A queue never holds a connection twice or too many, and none after Close. *)
LEMMA QueuesKept ==
    ASSUME Distinguished, IInv, [Next]_vars
    PROVE  QueueTypes' /\ QueuesInv'
<1>0. Types /\ QueueCap \in Nat /\ \A l \in Listeners : Once(acceptQ[l]) /\ (isClosed[l] => acceptQ[l] = <<>>)
    BY Zenon, Typed DEF Distinguished, IInv, QueuesInv, Once
<1>1. QueueTypes' /\ \A l \in Listeners : Once(acceptQ'[l])
    <2>1. CASE UNCHANGED acceptQ
        BY Zenon, <1>0, <2>1 DEF Types, QueueTypes
    <2>2. ASSUME NEW c \in Conns, NewConn(c), HasRoom(target[c]), acceptQ' = [acceptQ EXCEPT ![target[c]] = Append(@, c)]
          PROVE  QueueTypes' /\ \A l \in Listeners : Once(acceptQ'[l])
        <3>1. dpc[c] = "queue" /\ target[c] \in Listeners /\ c \notin Queued(target[c])
            BY Zenon, <2>2 DEF NewConn, IInv, Placed
        <3> QED
            BY Zenon, <1>0, <2>2, <3>1, QueueAppends
    <2>3. ASSUME NEW a \in Acceptors, AcceptTCP(a), acceptQ[al[a]] # <<>>, acceptQ' = [acceptQ EXCEPT ![al[a]] = Tail(@)]
          PROVE  QueueTypes' /\ \A l \in Listeners : Once(acceptQ'[l])
        <3>1. al[a] \in Listeners
            BY Zenon, <2>3 DEF AcceptTCP, IInv, WakeInv
        <3> QED
            BY Zenon, <1>0, <2>3, <3>1, QueueTakes
    <2>4. ASSUME NEW l \in Listeners, acceptQ' = [acceptQ EXCEPT ![l] = <<>>]
          PROVE  QueueTypes' /\ \A m \in Listeners : Once(acceptQ'[m])
        BY Zenon, <1>0, <2>4, QueueEmptied
    <2> QED
        BY Zenon, <2>1, <2>2, <2>3, <2>4, QueueMoves
<1>2. ASSUME NEW l \in Listeners, isClosed'[l] PROVE acceptQ'[l] = <<>>
    <2>1. CASE isClosed[l]
        <3>1. acceptQ'[l] = acceptQ[l] \/ acceptQ'[l] = <<>>
            <4>1. acceptQ \in [Listeners -> Seq(Conns)]
                BY Zenon, <1>0 DEF Types, QueueTypes
            <4>2. ASSUME NEW m, m # l, NEW v, acceptQ' = [acceptQ EXCEPT ![m] = v] PROVE acceptQ'[l] = acceptQ[l]
                BY Zenon, <4>1, <4>2
            <4> QED
                BY Zenon, <2>1, <4>1, <4>2, QueueMoves
        <3> QED
            BY Zenon, <1>0, <2>1, <3>1
    <2>2. CASE ~isClosed[l]
        <3>1. PICK k \in Closers : BeginClose(k, l)
            BY Zenon, <1>0, <1>2, <2>2, ClosedByClose
        <3> QED
            BY Zenon, <1>0, <2>2, <3>1, QueueEmptied DEF BeginClose
    <2> QED
        BY Zenon, <2>1, <2>2
<1> QED
    BY Zenon, <1>1, <1>2 DEF QueuesInv, Once

(* Every step keeps the types of the connections, ... *)
LEMMA ConnTypesKept ==
    ASSUME Distinguished, IInv, [Next]_vars
    PROVE  ConnTypes'
<1>0. Types /\ ConnTypes /\ AcceptTypes /\ QueueCap \in Nat
    BY Zenon, Typed DEF Types, IInv, Distinguished
<1>u. ASSUME UNCHANGED <<connVars, accepted>> PROVE ConnTypes'
    BY Zenon, <1>0, <1>u DEF connVars, ConnTypes
<1>w. \A l : WakeDials(l) \in [Conns -> DialStates]
    BY Zenon, <1>0, Woken
<1>1. ASSUME NEW l, NEW p, RegListener(l, p) PROVE ConnTypes'
    BY Zenon, <1>1, <1>u DEF RegListener, acceptVars
<1>2. ASSUME NEW c \in Conns, NEW p \in Ports, Lookup(c, p) PROVE ConnTypes'
    <2>1. listeners[p] \in Listeners \cup {None}
        BY Zenon, <1>0 DEF Types, RegTypes
    <2> QED
        BY Zenon, <1>0, <1>2, <2>1 DEF Lookup, acceptVars, ConnTypes, DialStates
<1>3. ASSUME NEW c \in Conns, NEW p, RegConn(c, p) PROVE ConnTypes'
    BY Zenon, <1>0, <1>3 DEF RegConn, acceptVars, ConnTypes, DialStates
<1>4. ASSUME NEW c \in Conns, RegConnFails(c) \/ DialUndo(c) \/ UnregConn(c) PROVE ConnTypes'
    BY Zenon, <1>0, <1>4 DEF RegConnFails, DialUndo, UnregConn, acceptVars, ConnTypes, DialStates
<1>5. ASSUME NEW c \in Conns, CloseClient(c) \/ CloseServer(c) PROVE ConnTypes'
    BY Zenon, <1>0, <1>5 DEF CloseClient, CloseServer, acceptVars, ConnTypes, DialStates
<1>6. ASSUME NEW c \in Conns, NewConn(c) PROVE ConnTypes'
    <2>1. PICK f \in [Conns -> DialStates], x \in DialStates : dpc' = [f EXCEPT ![c] = x]
        <3>1. {"undo", "ok", "waiting"} \subseteq DialStates /\ dpc \in [Conns -> DialStates]
            BY Zenon, <1>0 DEF DialStates, ConnTypes
        <3> QED
            BY Zenon, <1>6, <1>w, <3>1 DEF NewConn
    <2>2. dpc' \in [Conns -> DialStates]
        BY Zenon, <2>1
    <2> QED
        BY Zenon, <1>0, <1>6, <2>2 DEF NewConn, ConnTypes
<1>7. ASSUME NEW a, NEW l, NEW d, BeginAccept(a, l, d) PROVE ConnTypes'
    BY Zenon, <1>u, <1>7 DEF BeginAccept
<1>8. ASSUME NEW a, AcceptTimeout(a) PROVE ConnTypes'
    BY Zenon, <1>u, <1>8 DEF AcceptTimeout
<1>9. ASSUME NEW a \in Acceptors, AcceptTCP(a) PROVE ConnTypes'
    <2>1. dpc' \in [Conns -> DialStates]
        BY Zenon, <1>0, <1>9, <1>w DEF AcceptTCP, ConnTypes
    <2>2. accepted' \subseteq Conns
        <3>1. al[a] \in Listeners
            BY Zenon, <1>9 DEF AcceptTCP, IInv, WakeInv
        <3>2. acceptQ[al[a]] # <<>> => Head(acceptQ[al[a]]) \in Conns
            BY <1>0, <3>1 DEF Types, QueueTypes
        <3> QED
            BY Zenon, <1>0, <1>9, <3>2 DEF AcceptTCP, ConnTypes
    <2> QED
        BY Zenon, <1>0, <1>9, <2>1, <2>2 DEF AcceptTCP, ConnTypes
<1>10. ASSUME NEW k, NEW l, BeginClose(k, l) PROVE ConnTypes'
    <2>1. dpc' = dpc \/ dpc' = WakeDials(l)
        BY Zenon, <1>10 DEF BeginClose
    <2>2. dpc' \in [Conns -> DialStates]
        BY Zenon, <1>0, <1>w, <2>1 DEF ConnTypes
    <2>3. UNCHANGED <<target, client, server, accepted>>
        BY Zenon, <1>10 DEF BeginClose
    <2> QED
        BY Zenon, <1>0, <2>2, <2>3 DEF ConnTypes
<1>11. ASSUME NEW k, CloseUnreg(k) \/ CloseWaits(k) PROVE ConnTypes'
    BY Zenon, <1>u, <1>11 DEF CloseUnreg, CloseWaits, acceptVars
<1>12. ASSUME NEW k \in Closers, CloseDrain(k) PROVE ConnTypes'
    <2>1. server' \in [Conns -> {"none", "open", "closed"}]
        BY Zenon, <1>0, <1>12 DEF CloseDrain, ConnTypes
    <2> QED
        BY Zenon, <1>0, <1>12, <2>1 DEF CloseDrain, acceptVars, ConnTypes
<1>13. CASE UNCHANGED vars
    BY Zenon, <1>u, <1>13 DEF vars, acceptVars
<1> QED
    BY Zenon, <1>1, <1>2, <1>3, <1>4, <1>5, <1>6, <1>7, <1>8, <1>9, <1>10, <1>11, <1>12, <1>13 DEF Next

(* ... and those of AcceptTCP and Close. *)
LEMMA CallTypesKept ==
    ASSUME Distinguished, IInv, [Next]_vars
    PROVE  AcceptTypes' /\ CloseTypes'
<1>0. Types /\ ConnTypes /\ AcceptTypes /\ CloseTypes
    BY Zenon, Typed DEF Types, IInv
<1>w. \A l : WakeAccepts(l) \in [Acceptors -> {"idle", "lock", "waiting", "woken"}]
    BY Zenon, <1>0, Woken
<1>u. ASSUME UNCHANGED <<acceptVars, closeVars>> PROVE AcceptTypes' /\ CloseTypes'
    BY Zenon, <1>0, <1>u DEF acceptVars, closeVars, AcceptTypes, CloseTypes
<1>1. ASSUME NEW x, NEW p, RegListener(x, p) \/ Lookup(x, p) \/ RegConn(x, p) PROVE AcceptTypes' /\ CloseTypes'
    BY Zenon, <1>u, <1>1 DEF RegListener, Lookup, RegConn
<1>2. ASSUME NEW c, \/ RegConnFails(c) \/ DialUndo(c) \/ UnregConn(c) \/ CloseClient(c) \/ CloseServer(c)
      PROVE  AcceptTypes' /\ CloseTypes'
    BY Zenon, <1>u, <1>2 DEF RegConnFails, DialUndo, UnregConn, CloseClient, CloseServer
<1>3. ASSUME NEW c, NewConn(c) PROVE AcceptTypes' /\ CloseTypes'
    <2>1. apc' \in [Acceptors -> {"idle", "lock", "waiting", "woken"}]
        BY Zenon, <1>0, <1>w, <1>3 DEF NewConn, AcceptTypes
    <2> QED
        BY Zenon, <1>0, <1>3, <2>1 DEF NewConn, closeVars, AcceptTypes, CloseTypes
<1>4. ASSUME NEW a \in Acceptors, NEW l \in Listeners, NEW d \in BOOLEAN, BeginAccept(a, l, d)
      PROVE  AcceptTypes' /\ CloseTypes'
    BY Zenon, <1>0, <1>4 DEF BeginAccept, closeVars, AcceptTypes, CloseTypes
<1>5. ASSUME NEW a \in Acceptors, AcceptTCP(a) PROVE AcceptTypes' /\ CloseTypes'
    <2>1. PICK f \in [Acceptors -> {"idle", "lock", "waiting", "woken"}], x \in {"idle", "waiting"} :
              apc' = [f EXCEPT ![a] = x]
        BY Zenon, <1>0, <1>w, <1>5 DEF AcceptTCP, AcceptTypes
    <2>2. apc' \in [Acceptors -> {"idle", "lock", "waiting", "woken"}]
        BY Zenon, <2>1
    <2>3. al' \in [Acceptors -> Listeners \cup {None}] /\ timed' \in [Acceptors -> BOOLEAN]
        BY Zenon, <1>0, <1>5 DEF AcceptTCP, AcceptReturns, AcceptTypes
    <2> QED
        BY Zenon, <1>0, <1>5, <2>2, <2>3 DEF AcceptTCP, closeVars, AcceptTypes, CloseTypes
<1>6. ASSUME NEW a \in Acceptors, AcceptTimeout(a) PROVE AcceptTypes' /\ CloseTypes'
    BY Zenon, <1>0, <1>6 DEF AcceptTimeout, AcceptReturns, closeVars, AcceptTypes, CloseTypes
<1>7. ASSUME NEW k \in Closers, NEW l \in Listeners, BeginClose(k, l) PROVE AcceptTypes' /\ CloseTypes'
    <2>1. Queued(l) \subseteq Conns
        BY <1>0 DEF Types, QueueTypes, Queued
    <2>2. CloseTypes'
        BY Zenon, <1>0, <1>7, <2>1 DEF BeginClose, CloseTypes
    <2>3. apc' \in [Acceptors -> {"idle", "lock", "waiting", "woken"}]
        BY Zenon, <1>0, <1>w, <1>7 DEF BeginClose, AcceptTypes
    <2> QED
        BY Zenon, <1>0, <1>7, <2>2, <2>3 DEF BeginClose, AcceptTypes
<1>8. ASSUME NEW k \in Closers, CloseUnreg(k) \/ CloseWaits(k) PROVE AcceptTypes' /\ CloseTypes'
    BY Zenon, <1>0, <1>8 DEF CloseUnreg, CloseWaits, acceptVars, AcceptTypes, CloseTypes
<1>9. ASSUME NEW k \in Closers, CloseDrain(k) PROVE AcceptTypes' /\ CloseTypes'
    <2>1. CloseTypes'
        BY Zenon, <1>0, <1>9 DEF CloseDrain, CloseTypes
    <2> QED
        BY Zenon, <1>0, <1>9, <2>1 DEF CloseDrain, acceptVars, AcceptTypes
<1>10. CASE UNCHANGED vars
    BY Zenon, <1>u, <1>10 DEF vars
<1> QED
    BY Zenon, <1>1, <1>2, <1>3, <1>4, <1>5, <1>6, <1>7, <1>8, <1>9, <1>10 DEF Next

----------------------------------------------------------------------------
(* Where the connections are. *)

(* A step that leaves c where it is: with DialTCP, in a queue, drained or  *)
(* accepted; it may close c and only then drop it.                         *)
Stays(c) ==
    /\ target'[c] = target[c]
    /\ server'[c] = server[c] \/ server'[c] = "closed"
    /\ \/ dpc'[c] = dpc[c]
       \/ /\ dpc[c] # "idle" /\ dpc[c] # "ok" /\ dpc'[c] # "idle" /\ dpc'[c] # "ok"
          /\ server'[c] = "open" => dpc'[c] \in Dialling
    /\ c \in accepted' <=> c \in accepted
    /\ \A l \in Listeners : c \in Queued(l)' <=> c \in Queued(l)
    /\ \A k \in Closers : /\ c \in queued'[k] => c \in queued[k] /\ kl'[k] = kl[k]
                          /\ server'[c] = "open" /\ c \in queued[k] => c \in queued'[k]

(* A connection that stays keeps what is known of where it is. *)
LEMMA Staying ==
    ASSUME NEW c \in Conns, Placed(c), Stays(c)
    PROVE  Placed(c)'
<1>n. "closed" # "open" /\ "closed" # "none" /\ "ok" \notin Dialling /\ "idle" \notin Dialling
    BY Zenon DEF Dialling
<1>1. dpc'[c] # "idle" => target'[c] \in Listeners /\ server'[c] # "none"
    BY Zenon, <1>n DEF Placed, Stays
<1>2. dpc'[c] = "ok" <=> dpc[c] = "ok"
    BY Zenon DEF Stays
<1>3. c \in accepted' => dpc'[c] = "ok"
    BY Zenon, <1>2 DEF Placed, Stays
<1>4. \A l \in Listeners : c \in Queued(l)' => dpc'[c] = "ok" /\ target'[c] = l /\ c \notin accepted'
    BY Zenon, <1>2 DEF Placed, Stays
<1>5. ASSUME NEW k \in Closers, c \in queued'[k]
      PROVE  /\ dpc'[c] = "ok" /\ target'[c] = kl'[k] /\ c \notin accepted'
             /\ \A l \in Listeners : c \notin Queued(l)'
             /\ \A j \in Closers : c \in queued'[j] => j = k
    BY Zenon, <1>2, <1>5 DEF Placed, Stays
<1>6. ASSUME server'[c] = "open"
      PROVE  \/ dpc'[c] \in Dialling
             \/ /\ dpc'[c] = "ok"
                /\ \/ c \in accepted'
                   \/ \E l \in Listeners : c \in Queued(l)'
                   \/ \E k \in Closers : c \in queued'[k]
    <2>1. server[c] = "open"
        BY Zenon, <1>6, <1>n DEF Stays
    <2> QED
        BY Zenon, <1>6, <2>1 DEF Placed, Stays
<1> QED
    BY Zenon, <1>1, <1>3, <1>4, <1>5, <1>6 DEF Placed

(* What waking does to one dial. *)
LEMMA WokenDial ==
    ASSUME ConnTypes, NEW l, NEW c \in Conns
    PROVE  /\ WakeDials(l) \in [Conns -> DialStates]
           /\ WakeDials(l)[c] = dpc[c] \/ (dpc[c] = "waiting" /\ WakeDials(l)[c] = "queue")
    BY Zenon DEF WakeDials, ConnTypes, DialStates

(* NewConn delivers connection d. *)
LEMMA PlacedByNewConn ==
    ASSUME Distinguished, IInv, NEW d \in Conns, NewConn(d), NEW c \in Conns
    PROVE  Placed(c)'
<1>0. /\ Types /\ ConnTypes /\ AcceptTypes /\ QueueCap \in Nat /\ dpc[d] = "queue"
      /\ Placed(c) /\ Placed(d) /\ target[d] \in Listeners /\ server[d] # "none"
    <2>1. dpc[d] = "queue" /\ "queue" # "idle"
        BY Zenon DEF NewConn
    <2> QED
        BY Zenon, <2>1, Typed DEF Types, IInv, Distinguished, Placed
<1>1. UNCHANGED <<target, server, accepted, kl, queued>>
    BY Zenon DEF NewConn, closeVars
<1>2. CASE UNCHANGED acceptQ /\ (dpc' = [dpc EXCEPT ![d] = "undo"] \/ dpc' = [dpc EXCEPT ![d] = "waiting"])
    <2>1. dpc'[c] = dpc[c] \/ (c = d /\ (dpc'[c] = "undo" \/ dpc'[c] = "waiting"))
        BY Zenon, <1>0, <1>2 DEF ConnTypes
    <2>2. /\ "queue" # "idle" /\ "queue" # "ok" /\ "undo" # "idle" /\ "undo" # "ok" /\ "waiting" # "idle"
          /\ "waiting" # "ok" /\ "undo" \in Dialling /\ "waiting" \in Dialling
        BY Zenon DEF Dialling
    <2>3. \A l : Queued(l)' = Queued(l)
        BY Zenon, <1>2 DEF Queued
    <2> QED
        BY Zenon, <1>0, <1>1, <2>1, <2>2, <2>3, Staying DEF Stays
<1>3. CASE /\ HasRoom(target[d])
           /\ acceptQ' = [acceptQ EXCEPT ![target[d]] = Append(@, d)]
           /\ dpc' = [WakeDials(target[d]) EXCEPT ![d] = "ok"]
    <2>1. PICK l \in Listeners : l = target[d]
        BY Zenon, <1>0
    <2>2. /\ \A m \in Listeners : m # l => acceptQ'[m] = acceptQ[m]
          /\ Queued(l)' = Queued(l) \cup {d}
        BY Zenon, <1>0, <1>3, <2>1, QueueAppends
    <2>3. \A m \in Listeners : m # l => Queued(m)' = Queued(m)
        BY Zenon, <2>2 DEF Queued
    <2>4. "queue" # "idle" /\ "queue" # "ok" /\ "waiting" # "idle" /\ "waiting" # "ok" /\ "queue" \in Dialling
        BY Zenon DEF Dialling
    <2>w. /\ WakeDials(target[d]) \in [Conns -> DialStates]
          /\ WakeDials(target[d])[c] = dpc[c] \/ (dpc[c] = "waiting" /\ WakeDials(target[d])[c] = "queue")
        BY Zenon, <1>0, WokenDial
    <2>5. CASE c = d
        <3>1. dpc'[d] = "ok"
            BY Zenon, <1>3, <2>w
        <3>2. d \notin accepted /\ (\A m \in Listeners : d \notin Queued(m)) /\ (\A k \in Closers : d \notin queued[k])
            BY Zenon, <1>0, <2>4 DEF Placed
        <3> QED
            BY Zenon, <1>0, <1>1, <2>1, <2>2, <2>3, <2>5, <3>1, <3>2 DEF Placed
    <2>6. CASE c # d
        <3>1. dpc'[c] = dpc[c] \/ (dpc[c] = "waiting" /\ dpc'[c] = "queue")
            BY Zenon, <1>3, <2>6, <2>w
        <3>2. \A m \in Listeners : c \in Queued(m)' <=> c \in Queued(m)
            BY Zenon, <2>2, <2>3, <2>6
        <3> QED
            BY Zenon, <1>0, <1>1, <2>4, <3>1, <3>2, Staying DEF Stays
    <2> QED
        BY Zenon, <2>5, <2>6
<1> QED
    BY Zenon, <1>2, <1>3 DEF NewConn

(* AcceptTCP takes the head of the queue. *)
LEMMA PlacedByAccept ==
    ASSUME Distinguished, IInv, NEW a \in Acceptors, AcceptTCP(a), NEW c \in Conns
    PROVE  Placed(c)'
<1>0. Types /\ ConnTypes /\ AcceptTypes /\ QueueCap \in Nat /\ Placed(c) /\ al[a] \in Listeners
    <2>1. apc[a] # "idle"
        BY Zenon DEF AcceptTCP
    <2> QED
        BY Zenon, <2>1, Typed DEF Types, IInv, Distinguished, WakeInv
<1>1. UNCHANGED <<target, server, kl, queued>>
    BY Zenon DEF AcceptTCP, closeVars
<1>2. CASE UNCHANGED <<acceptQ, accepted, dpc>>
    <2>1. \A l : Queued(l)' = Queued(l)
        BY Zenon, <1>2 DEF Queued
    <2> QED
        BY Zenon, <1>0, <1>1, <1>2, <2>1, Staying DEF Stays
<1>3. CASE /\ acceptQ[al[a]] # <<>>
           /\ acceptQ' = [acceptQ EXCEPT ![al[a]] = Tail(@)]
           /\ accepted' = accepted \cup {Head(acceptQ[al[a]])}
           /\ dpc' = WakeDials(al[a])
    <2>1. PICK l \in Listeners, h \in {Head(acceptQ[al[a]])} : l = al[a] /\ h = Head(acceptQ[l])
        BY Zenon, <1>0
    <2>2. Once(acceptQ[l])
        BY Zenon DEF IInv, QueuesInv, Once
    <2>3. /\ \A m \in Listeners : m # l => acceptQ'[m] = acceptQ[m]
          /\ Queued(l)' = Queued(l) \ {h} /\ h \in Queued(l)
        BY Zenon, <1>0, <1>3, <2>1, <2>2, QueueTakes
    <2>4. \A m \in Listeners : m # l => Queued(m)' = Queued(m)
        BY Zenon, <2>3 DEF Queued
    <2>5. dpc'[c] = dpc[c] \/ (dpc[c] = "waiting" /\ dpc'[c] = "queue")
        BY Zenon, <1>0, <1>3, WokenDial
    <2>6. "ok" # "waiting" /\ "ok" # "idle" /\ "queue" # "idle" /\ "queue" # "ok" /\ "waiting" # "idle" /\ "queue" \in Dialling
        BY Zenon DEF Dialling
    <2>7. CASE c = h
        <3>1. /\ dpc[c] = "ok" /\ target[c] = l
              /\ \A m \in Listeners : c \in Queued(m) => m = l
              /\ \A k \in Closers : c \notin queued[k]
            BY Zenon, <1>0, <2>3, <2>7 DEF Placed
        <3>2. dpc'[c] = "ok" /\ server'[c] # "none" /\ target'[c] \in Listeners
            BY Zenon, <1>0, <1>1, <2>1, <2>5, <2>6, <3>1 DEF Placed
        <3>3. c \in accepted' /\ (\A m \in Listeners : c \notin Queued(m)') /\ (\A k \in Closers : c \notin queued'[k])
            BY Zenon, <1>1, <1>3, <2>1, <2>3, <2>4, <2>7, <3>1
        <3> QED
            BY Zenon, <3>2, <3>3 DEF Placed
    <2>8. CASE c # h
        <3>1. \A m \in Listeners : c \in Queued(m)' <=> c \in Queued(m)
            BY Zenon, <2>3, <2>4, <2>8
        <3>2. c \in accepted' <=> c \in accepted
            BY Zenon, <1>3, <2>1, <2>8
        <3> QED
            BY Zenon, <1>0, <1>1, <2>5, <2>6, <3>1, <3>2, Staying DEF Stays
    <2> QED
        BY Zenon, <2>7, <2>8
<1> QED
    BY Zenon, <1>2, <1>3 DEF AcceptTCP

(* The first Close takes the whole queue. *)
LEMMA PlacedByClose ==
    ASSUME Distinguished, IInv, NEW k \in Closers, NEW l \in Listeners, BeginClose(k, l), NEW c \in Conns
    PROVE  Placed(c)'
<1>0. Types /\ ConnTypes /\ AcceptTypes /\ CloseTypes /\ QueueCap \in Nat /\ Placed(c) /\ queued[k] = {}
    <2>1. kpc[k] = "idle" /\ "idle" \notin {"unreg", "drain"}
        BY Zenon DEF BeginClose
    <2> QED
        BY Zenon, <2>1, Typed DEF Types, IInv, Distinguished, CloseInv, Closing
<1>1. UNCHANGED <<target, server, accepted>>
    BY Zenon DEF BeginClose
<1>2. kl'[k] = l /\ \A j \in Closers : j # k => kl'[j] = kl[j]
    BY Zenon, <1>0 DEF BeginClose, CloseTypes
<1>3. CASE UNCHANGED <<acceptQ, queued, dpc>>
    <2>1. \A m : Queued(m)' = Queued(m)
        BY Zenon, <1>3 DEF Queued
    <2> QED
        BY Zenon, <1>0, <1>1, <1>2, <1>3, <2>1, Staying DEF Stays
<1>4. CASE /\ queued' = [queued EXCEPT ![k] = Queued(l)]
           /\ acceptQ' = [acceptQ EXCEPT ![l] = <<>>]
           /\ dpc' = WakeDials(l)
    <2>1. /\ \A m \in Listeners : m # l => acceptQ'[m] = acceptQ[m]
          /\ Queued(l)' = {}
        BY Zenon, <1>0, <1>4, QueueEmptied
    <2>2. \A m \in Listeners : m # l => Queued(m)' = Queued(m)
        BY Zenon, <2>1 DEF Queued
    <2>3. queued'[k] = Queued(l) /\ \A j \in Closers : j # k => queued'[j] = queued[j]
        BY Zenon, <1>0, <1>4 DEF CloseTypes
    <2>4. dpc'[c] = dpc[c] \/ (dpc[c] = "waiting" /\ dpc'[c] = "queue")
        BY Zenon, <1>0, <1>4, WokenDial
    <2>5. "ok" # "waiting" /\ "ok" # "idle" /\ "queue" # "idle" /\ "queue" # "ok" /\ "waiting" # "idle" /\ "queue" \in Dialling
        BY Zenon DEF Dialling
    <2>6. CASE c \in Queued(l)
        <3>1. /\ dpc[c] = "ok" /\ target[c] = l /\ c \notin accepted
              /\ \A m \in Listeners : c \in Queued(m) => m = l
              /\ \A j \in Closers : c \notin queued[j]
            BY Zenon, <1>0, <2>6 DEF Placed
        <3>2. dpc'[c] = "ok" /\ server'[c] # "none" /\ target'[c] = l /\ c \notin accepted'
            BY Zenon, <1>0, <1>1, <2>4, <2>5, <3>1 DEF Placed
        <3>3. \A m \in Listeners : c \notin Queued(m)'
            BY Zenon, <2>1, <2>2, <3>1
        <3>4. c \in queued'[k] /\ \A j \in Closers : c \in queued'[j] => j = k
            BY Zenon, <2>3, <2>6, <3>1
        <3> QED
            BY Zenon, <1>2, <3>2, <3>3, <3>4 DEF Placed
    <2>7. CASE c \notin Queued(l)
        <3>1. \A m \in Listeners : c \in Queued(m)' <=> c \in Queued(m)
            BY Zenon, <2>1, <2>2, <2>7
        <3>2. \A j \in Closers : (c \in queued'[j] <=> c \in queued[j]) /\ (c \in queued'[j] => kl'[j] = kl[j])
            BY Zenon, <1>0, <1>2, <2>3, <2>7
        <3> QED
            BY Zenon, <1>0, <1>1, <2>4, <2>5, <3>1, <3>2, Staying DEF Stays
    <2> QED
        BY Zenon, <2>6, <2>7
<1> QED
    BY Zenon, <1>3, <1>4 DEF BeginClose

(* Every step leaves each connection in its place or moves it whole. *)
LEMMA PlacedKept ==
    ASSUME Distinguished, IInv, [Next]_vars, NEW c \in Conns
    PROVE  Placed(c)'
<1>0. Types /\ ConnTypes /\ CloseTypes /\ Placed(c)
    BY Zenon, Typed DEF Types, IInv
<1>n. /\ "reg" # "idle" /\ "reg" # "ok" /\ "queue" # "idle" /\ "queue" # "ok" /\ "failed" # "idle" /\ "failed" # "ok"
      /\ "undo" # "idle" /\ "undo" # "ok" /\ "unreg" # "idle" /\ "unreg" # "ok" /\ "closed" # "open" /\ "open" # "none"
      /\ "queue" \in Dialling /\ "reg" \in Dialling /\ "unreg" \notin Dialling
    BY Zenon DEF Dialling
<1>q. UNCHANGED acceptQ => \A l : Queued(l)' = Queued(l)
    BY Zenon DEF Queued
<1>u. ASSUME UNCHANGED <<acceptQ, dpc, target, server, accepted, kl, queued>> PROVE Placed(c)'
    <2>1. \A l : Queued(l)' = Queued(l)
        BY Zenon, <1>q, <1>u
    <2> QED
        BY Zenon, <1>0, <1>u, <2>1, Staying DEF Stays
<1>1. ASSUME NEW l, NEW p, RegListener(l, p) PROVE Placed(c)'
    BY Zenon, <1>1, <1>u DEF RegListener, listenVars, connVars, acceptVars, closeVars
<1>2. ASSUME NEW d \in Conns, NEW p \in Ports, Lookup(d, p) PROVE Placed(c)'
    <2>1. /\ target'[d] = listeners[p] /\ dpc'[d] = "reg" /\ server'[d] = "open"
          /\ c # d => target'[c] = target[c] /\ dpc'[c] = dpc[c] /\ server'[c] = server[c]
        BY Zenon, <1>0, <1>2 DEF Lookup, ConnTypes
    <2>2. UNCHANGED <<acceptQ, accepted, kl, queued>>
        BY Zenon, <1>2 DEF Lookup, listenVars, acceptVars, closeVars
    <2>3. CASE c = d
        <3>1. dpc[c] = "idle" /\ listeners[p] \in Listeners
            BY Zenon, <1>0, <1>2, <2>3 DEF Lookup, Types, RegTypes
        <3>2. c \notin accepted /\ (\A l \in Listeners : c \notin Queued(l)) /\ (\A k \in Closers : c \notin queued[k])
            BY Zenon, <1>0, <3>1 DEF Placed
        <3> QED
            BY Zenon, <1>n, <1>q, <2>1, <2>2, <2>3, <3>1, <3>2 DEF Placed
    <2>4. CASE c # d
        <3>1. \A l : Queued(l)' = Queued(l)
            BY Zenon, <1>q, <2>2
        <3> QED
            BY Zenon, <1>0, <2>1, <2>2, <2>4, <3>1, Staying DEF Stays
    <2> QED
        BY Zenon, <2>3, <2>4
<1>3. ASSUME NEW d \in Conns, NEW p, RegConn(d, p) PROVE Placed(c)'
    <2>1. dpc'[c] = dpc[c] \/ (dpc[c] = "reg" /\ dpc'[c] = "queue")
        BY Zenon, <1>0, <1>3 DEF RegConn, ConnTypes
    <2>2. UNCHANGED <<acceptQ, target, server, accepted, kl, queued>>
        BY Zenon, <1>3 DEF RegConn, listenVars, acceptVars, closeVars
    <2>q. \A l : Queued(l)' = Queued(l)
        BY Zenon, <1>q, <2>2
    <2> QED
        BY Zenon, <1>0, <1>n, <2>1, <2>2, <2>q, Staying DEF Stays
<1>4. ASSUME NEW d \in Conns, RegConnFails(d) \/ DialUndo(d) PROVE Placed(c)'
    <2>1. \/ dpc'[c] = dpc[c] /\ server'[c] = server[c]
          \/ dpc[c] = "reg" /\ dpc'[c] = "failed" /\ server'[c] = "closed"
          \/ dpc[c] = "undo" /\ dpc'[c] = "unreg" /\ server'[c] = "closed"
        BY Zenon, <1>0, <1>4 DEF RegConnFails, DialUndo, ConnTypes
    <2>2. UNCHANGED <<acceptQ, target, accepted, kl, queued>>
        BY Zenon, <1>4 DEF RegConnFails, DialUndo, listenVars, acceptVars, closeVars
    <2>q. \A l : Queued(l)' = Queued(l)
        BY Zenon, <1>q, <2>2
    <2> QED
        BY Zenon, <1>0, <1>n, <2>1, <2>2, <2>q, Staying DEF Stays
<1>5. ASSUME NEW d \in Conns, UnregConn(d) PROVE Placed(c)'
    BY Zenon, <1>5, <1>u DEF UnregConn, listenVars, acceptVars, closeVars
<1>6. ASSUME NEW d \in Conns, CloseClient(d) PROVE Placed(c)'
    <2>1. dpc'[c] = dpc[c] \/ (dpc[c] = "unreg" /\ dpc'[c] = "failed")
        BY Zenon, <1>0, <1>6 DEF CloseClient, ConnTypes
    <2>2. UNCHANGED <<acceptQ, target, server, accepted, kl, queued>>
        BY Zenon, <1>6 DEF CloseClient, listenVars, acceptVars, closeVars
    <2>3. dpc[c] = "unreg" => server[c] # "open"
        BY Zenon, <1>0, <1>n DEF Placed
    <2>q. \A l : Queued(l)' = Queued(l)
        BY Zenon, <1>q, <2>2
    <2> QED
        BY Zenon, <1>0, <1>n, <2>1, <2>2, <2>3, <2>q, Staying DEF Stays
<1>7. ASSUME NEW d \in Conns, CloseServer(d) PROVE Placed(c)'
    <2>1. server'[c] = server[c] \/ server'[c] = "closed"
        BY Zenon, <1>0, <1>7 DEF CloseServer, ConnTypes
    <2>2. UNCHANGED <<acceptQ, dpc, target, accepted, kl, queued>>
        BY Zenon, <1>7 DEF CloseServer, listenVars, acceptVars, closeVars
    <2>q. \A l : Queued(l)' = Queued(l)
        BY Zenon, <1>q, <2>2
    <2> QED
        BY Zenon, <1>0, <2>1, <2>2, <2>q, Staying DEF Stays
<1>8. ASSUME NEW a, NEW l, NEW d, BeginAccept(a, l, d) \/ AcceptTimeout(a) PROVE Placed(c)'
    BY Zenon, <1>8, <1>u DEF BeginAccept, AcceptTimeout, listenVars, connVars, closeVars
<1>9. ASSUME NEW k, CloseUnreg(k) \/ CloseWaits(k) PROVE Placed(c)'
    BY Zenon, <1>9, <1>u DEF CloseUnreg, CloseWaits, listenVars, connVars, acceptVars
<1>10. ASSUME NEW k \in Closers, CloseDrain(k) PROVE Placed(c)'
    <2>1. UNCHANGED <<acceptQ, dpc, target, accepted, kl>>
        BY Zenon, <1>10 DEF CloseDrain, acceptVars
    <2>2. CASE UNCHANGED <<server, queued>>
        BY Zenon, <1>u, <2>1, <2>2
    <2>3. ASSUME NEW d \in queued[k], server' = [server EXCEPT ![d] = "closed"],
                 queued' = [queued EXCEPT ![k] = @ \ {d}]
          PROVE  Placed(c)'
        <3>1. IF c = d THEN server'[c] = "closed" ELSE server'[c] = server[c]
            BY Zenon, <1>0, <2>3 DEF ConnTypes
        <3>2. \A j \in Closers : IF j = k THEN queued'[j] = queued[j] \ {d} ELSE queued'[j] = queued[j]
            BY Zenon, <1>0, <2>3 DEF CloseTypes
        <3>3. \A j \in Closers : /\ c \in queued'[j] => c \in queued[j]
                                 /\ c # d /\ c \in queued[j] => c \in queued'[j]
            BY Zenon, <3>2
        <3> QED
            BY Zenon, <1>0, <1>n, <1>q, <2>1, <3>1, <3>3, Staying DEF Stays
    <2> QED
        BY Zenon, <1>10, <2>2, <2>3 DEF CloseDrain
<1>11. CASE UNCHANGED vars
    BY Zenon, <1>u, <1>11 DEF vars, listenVars, connVars, acceptVars, closeVars
<1> QED
    BY Zenon, <1>1, <1>2, <1>3, <1>4, <1>5, <1>6, <1>7, <1>8, <1>9, <1>10, <1>11,
       PlacedByNewConn, PlacedByAccept, PlacedByClose DEF Next

----------------------------------------------------------------------------
(* Closing, and the registry. *)

(* Most steps do not concern closing. *)
LEMMA ClosingQuiet ==
    ASSUME CloseInv, UNCHANGED <<listeners, port, isClosed, closeDone, kpc, kl, queued>>
    PROVE  CloseInv'
    BY Zenon DEF CloseInv, RegInv, Closing

(* A listener that is registered was not closed. *)
LEMMA ClosingByRegister ==
    ASSUME Distinguished, Types, CloseInv, NEW l \in Listeners, NEW p \in Ports, RegListener(l, p)
    PROVE  CloseInv'
<1>0. /\ port[l] = None
      /\ port'[l] = p /\ \A m \in Listeners : m # l => port'[m] = port[m]
      /\ listeners'[p] = l /\ \A q \in Ports : q # p => listeners'[q] = listeners[q]
      /\ \A q \in Ports : listeners[q] # None => listeners[q] \in Listeners
    BY Zenon DEF RegListener, Types, RegTypes
<1>1. UNCHANGED <<isClosed, closeDone, kpc, kl, queued>>
    BY Zenon DEF RegListener, listenVars, closeVars
<1>2. None \notin Ports /\ None \notin Listeners
    BY Zenon DEF Distinguished
<1>3. \A k \in Closers : kpc[k] # "idle" => kl[k] \in Listeners /\ kl[k] # l
    BY Zenon, <1>0 DEF CloseInv, Closing
<1>4. ASSUME NEW k \in Closers PROVE Closing(k)'
    <2>1. Closing(k) /\ "drain" # "idle"
        BY Zenon DEF CloseInv
    <2>2. kpc[k] = "drain" => \A q \in Ports : listeners'[q] # kl[k]
        BY Zenon, <1>0, <1>3, <2>1 DEF Closing
    <2>3. kpc[k] # "idle" => kl[k] \in Listeners /\ port'[kl[k]] # None /\ isClosed[kl[k]]
        BY Zenon, <1>0, <1>3, <2>1 DEF Closing
    <2> QED
        BY Zenon, <1>1, <2>1, <2>2, <2>3 DEF Closing
<1>5. RegInv'
    <2>1. ~isClosed[l] /\ ~closeDone[l]
        BY Zenon, <1>0 DEF CloseInv, RegInv
    <2>2. ASSUME NEW m \in Listeners
          PROVE  /\ isClosed[m] => port'[m] # None
                 /\ closeDone[m] => isClosed[m] /\ \A q \in Ports : listeners'[q] # m
        <3>1. /\ isClosed[m] => port[m] # None
              /\ closeDone[m] => isClosed[m] /\ \A q \in Ports : listeners[q] # m
            BY Zenon DEF CloseInv, RegInv
        <3> QED
            BY Zenon, <1>0, <2>1, <3>1
    <2>3. ASSUME NEW q \in Ports, listeners'[q] # None PROVE port'[listeners'[q]] = q
        <3>1. listeners[q] # None => port[listeners[q]] = q
            BY Zenon DEF CloseInv, RegInv
        <3>2. CASE q = p
            BY Zenon, <1>0, <3>2
        <3>3. CASE q # p
            <4>1. listeners'[q] = listeners[q] /\ listeners[q] \in Listeners /\ port[listeners[q]] = q
                BY Zenon, <1>0, <2>3, <3>1, <3>3
            <4>2. listeners[q] # l
                BY Zenon, <1>0, <1>2, <4>1
            <4> QED
                BY Zenon, <1>0, <4>1, <4>2
        <3> QED
            BY Zenon, <3>2, <3>3
    <2> QED
        BY Zenon, <1>1, <2>2, <2>3 DEF RegInv
<1> QED
    BY Zenon, <1>4, <1>5 DEF CloseInv

(* The port of a dial is not that of a listener object. *)
LEMMA ClosingByDial ==
    ASSUME Distinguished, Types, CloseInv, NEW c \in Conns, NEW p, RegConn(c, p)
    PROVE  CloseInv'
<1>1. \A l \in Listeners : port'[l] = port[l]
    BY Zenon DEF RegConn, Types, RegTypes, Distinguished
<1>2. UNCHANGED <<listeners, isClosed, closeDone, kpc, kl, queued>>
    BY Zenon DEF RegConn, listenVars, closeVars
<1>3. \A q \in Ports : listeners[q] # None => listeners[q] \in Listeners
    BY Zenon DEF Types, RegTypes
<1> QED
    BY Zenon, <1>1, <1>2, <1>3 DEF CloseInv, RegInv, Closing

(* The first Close becomes the one that drains; a later one only waits. *)
LEMMA ClosingByBegin ==
    ASSUME Distinguished, Types, CloseInv, NEW k \in Closers, NEW l \in Listeners, BeginClose(k, l)
    PROVE  CloseInv'
<1>n. /\ "idle" \notin {"unreg", "drain"} /\ "wait" \notin {"unreg", "drain"} /\ "wait" # "returned"
      /\ "unreg" \in {"unreg", "drain"} /\ "unreg" # "drain" /\ "unreg" # "returned" /\ "wait" # "drain"
      /\ "unreg" # "idle" /\ "drain" # "idle"
    BY Zenon
<1>0. /\ kpc[k] = "idle" /\ port[l] # None /\ UNCHANGED <<listeners, port, closeDone>>
      /\ kl'[k] = l /\ (\A j \in Closers : j # k => kl'[j] = kl[j])
      /\ queued[k] = {} /\ Closing(k)
    BY Zenon, <1>n DEF BeginClose, regVars, Types, CloseTypes, CloseInv, Closing
<1>1. CASE isClosed[l]
    <2>1. kpc'[k] = "wait" /\ (\A j \in Closers : j # k => kpc'[j] = kpc[j]) /\ UNCHANGED <<isClosed, queued>>
        BY Zenon, <1>1 DEF BeginClose, Types, CloseTypes
    <2>2. RegInv'
        BY Zenon, <1>0, <2>1 DEF CloseInv, RegInv
    <2>3. Closing(k)'
        BY Zenon, <1>n, <1>0, <1>1, <2>1 DEF Closing
    <2>4. ASSUME NEW j \in Closers, j # k PROVE Closing(j)'
        <3>1. Closing(j) /\ kpc'[j] = kpc[j] /\ kl'[j] = kl[j] /\ UNCHANGED <<isClosed, closeDone, queued, port, listeners>>
            BY Zenon, <1>0, <2>1, <2>4 DEF CloseInv
        <3>2. kpc[j] \in {"unreg", "drain"} =>
                 \A i \in Closers : kpc'[i] \in {"unreg", "drain"} /\ kl'[i] = kl[j] => i = j
            BY Zenon, <1>n, <1>0, <2>1, <3>1 DEF Closing
        <3> QED
            BY Zenon, <3>1, <3>2 DEF Closing
    <2> QED
        BY Zenon, <2>2, <2>3, <2>4 DEF CloseInv
<1>2. CASE ~isClosed[l]
    <2>1. /\ kpc'[k] = "unreg" /\ (\A j \in Closers : j # k => kpc'[j] = kpc[j])
          /\ \A j \in Closers : j # k => queued'[j] = queued[j]
          /\ isClosed'[l] /\ \A m \in Listeners : m # l => isClosed'[m] = isClosed[m]
        BY Zenon, <1>2 DEF BeginClose, Types, CloseTypes, ListenTypes
    <2>2. ~closeDone[l]
        BY Zenon, <1>2 DEF CloseInv, RegInv
    <2>3. \A j \in Closers : kpc[j] # "idle" => kl[j] \in Listeners /\ kl[j] # l
        BY Zenon, <1>2 DEF CloseInv, Closing
    <2>4. RegInv'
        BY Zenon, <1>0, <2>1, <2>2 DEF CloseInv, RegInv
    <2>5. Closing(k)'
        <3>1. \A j \in Closers : kpc'[j] \in {"unreg", "drain"} /\ kl'[j] = l => j = k
            BY Zenon, <1>n, <1>0, <2>1, <2>3
        <3> QED
            BY Zenon, <1>n, <1>0, <2>1, <2>2, <3>1 DEF Closing
    <2>6. ASSUME NEW j \in Closers, j # k PROVE Closing(j)'
        <3>1. Closing(j) /\ kpc'[j] = kpc[j] /\ kl'[j] = kl[j] /\ queued'[j] = queued[j]
            BY Zenon, <1>0, <2>1, <2>6 DEF CloseInv
        <3>2. kpc[j] # "idle" => isClosed'[kl[j]] = isClosed[kl[j]]
            BY Zenon, <2>1, <2>3
        <3>3. kpc[j] \in {"unreg", "drain"} =>
                 \A i \in Closers : kpc'[i] \in {"unreg", "drain"} /\ kl'[i] = kl[j] => i = j
            BY Zenon, <1>n, <1>0, <2>1, <2>3, <3>1 DEF Closing
        <3> QED
            BY Zenon, <1>0, <3>1, <3>2, <3>3 DEF Closing
    <2> QED
        BY Zenon, <2>4, <2>5, <2>6 DEF CloseInv
<1> QED
    BY Zenon, <1>1, <1>2

(* UnregListener takes the listener out of the registry. *)
LEMMA ClosingByUnreg ==
    ASSUME Distinguished, Types, CloseInv, NEW k \in Closers, CloseUnreg(k)
    PROVE  CloseInv'
<1>n. "unreg" \in {"unreg", "drain"} /\ "drain" \in {"unreg", "drain"} /\ "unreg" # "idle" /\ "drain" # "returned"
    BY Zenon
<1>0. /\ kpc[k] = "unreg" /\ UNCHANGED <<port, isClosed, closeDone, kl, queued>>
      /\ kpc'[k] = "drain" /\ \A j \in Closers : j # k => kpc'[j] = kpc[j]
    BY Zenon DEF CloseUnreg, listenVars, Types, CloseTypes
<1>1. PICK l \in Listeners : l = kl[k] /\ port[l] # None /\ isClosed[l]
    BY Zenon, <1>n, <1>0 DEF CloseInv, Closing
<1>2. port[l] \in Ports /\ port[l] # 0
    BY Zenon, <1>1 DEF Types, RegTypes, Distinguished
<1>3. /\ \A q \in Ports : listeners'[q] = listeners[q] \/ listeners'[q] = None
      /\ \A q \in Ports : listeners'[q] # l
    <2>1. CASE listeners[port[l]] = l
        <3>1. listeners'[port[l]] = None /\ \A q \in Ports : q # port[l] => listeners'[q] = listeners[q]
            BY Zenon, <1>1, <1>2, <2>1 DEF CloseUnreg, UnregListener, Types, RegTypes
        <3>2. None # l /\ \A q \in Ports : listeners[q] = l => q = port[l]
            BY Zenon DEF CloseInv, RegInv, Distinguished
        <3> QED
            BY Zenon, <3>1, <3>2
    <2>2. CASE listeners[port[l]] # l
        <3>1. listeners' = listeners
            BY Zenon, <1>1, <2>2 DEF CloseUnreg, UnregListener
        <3>2. None # l /\ \A q \in Ports : listeners[q] = l => q = port[l]
            BY Zenon DEF CloseInv, RegInv, Distinguished
        <3> QED
            BY Zenon, <2>2, <3>1, <3>2
    <2> QED
        BY Zenon, <2>1, <2>2
<1>4. RegInv'
    <2>1. RegInv /\ None \notin Listeners
        BY Zenon DEF CloseInv, Distinguished
    <2>2. \A m \in Listeners : closeDone[m] => isClosed[m] /\ \A q \in Ports : listeners'[q] # m
        BY Zenon, <1>3, <2>1 DEF RegInv
    <2>3. \A q \in Ports : listeners'[q] # None => port[listeners'[q]] = q
        BY Zenon, <1>3, <2>1 DEF RegInv
    <2> QED
        BY Zenon, <1>0, <2>1, <2>2, <2>3 DEF RegInv
<1>5. ASSUME NEW j \in Closers PROVE Closing(j)'
    <2>1. Closing(j) /\ None \notin Listeners
        BY Zenon DEF CloseInv, Distinguished
    <2>2. /\ kpc'[j] # "idle" <=> kpc[j] # "idle"
          /\ \A i \in Closers : kpc'[i] \in {"unreg", "drain"} <=> kpc[i] \in {"unreg", "drain"}
          /\ kpc'[j] = "returned" => kpc[j] = "returned"
        <3>1. \A i \in Closers : kpc'[i] = kpc[i] \/ (kpc[i] = "unreg" /\ kpc'[i] = "drain")
            BY Zenon, <1>0
        <3> QED
            BY Zenon, <3>1
    <2>3. kpc'[j] = "drain" => \A p \in Ports : listeners'[p] # kl[j]
        <3>1. CASE j = k
            BY Zenon, <1>1, <1>3, <3>1
        <3>2. CASE j # k /\ kpc[j] = "drain"
            <4>1. kl[j] \in Listeners /\ \A p \in Ports : listeners[p] # kl[j]
                BY Zenon, <2>1, <3>2, <2>2, <1>0 DEF Closing
            <4> QED
                BY Zenon, <1>3, <2>1, <4>1
        <3> QED
            BY Zenon, <1>0, <3>1, <3>2
    <2> QED
        BY Zenon, <1>0, <2>1, <2>2, <2>3 DEF Closing
<1> QED
    BY Zenon, <1>4, <1>5 DEF CloseInv

(* The draining Close marks closeDone when nothing is left. *)
LEMMA ClosingByDrain ==
    ASSUME Distinguished, Types, CloseInv, NEW k \in Closers, CloseDrain(k)
    PROVE  CloseInv'
<1>n. "drain" \in {"unreg", "drain"} /\ "drain" # "idle" /\ "returned" \notin {"unreg", "drain"} /\ "returned" # "idle"
      /\ "returned" # "drain"
    BY Zenon
<1>0. kpc[k] = "drain" /\ UNCHANGED <<listeners, port, isClosed, kl>>
    BY Zenon DEF CloseDrain, regVars
<1>1. PICK l \in Listeners : l = kl[k] /\ isClosed[l] /\ \A p \in Ports : listeners[p] # l
    BY Zenon, <1>n, <1>0 DEF CloseInv, Closing
<1>2. ASSUME NEW c \in queued[k], queued' = [queued EXCEPT ![k] = @ \ {c}], UNCHANGED <<closeDone, kpc>>
      PROVE  CloseInv'
    <2>1. \A j \in Closers : queued'[j] # {} => queued[j] # {}
        <3>1. \A j \in Closers : IF j = k THEN queued'[j] = queued[j] \ {c} ELSE queued'[j] = queued[j]
            BY Zenon, <1>2 DEF Types, CloseTypes
        <3> QED
            BY Zenon, <1>2, <3>1
    <2> QED
        BY Zenon, <1>0, <1>2, <2>1 DEF CloseInv, RegInv, Closing
<1>3. ASSUME queued[k] = {}, closeDone' = [closeDone EXCEPT ![kl[k]] = TRUE],
             kpc' = [kpc EXCEPT ![k] = "returned"], UNCHANGED queued
      PROVE  CloseInv'
    <2>1. /\ closeDone'[l] /\ (\A m \in Listeners : m # l => closeDone'[m] = closeDone[m])
          /\ kpc'[k] = "returned" /\ (\A j \in Closers : j # k => kpc'[j] = kpc[j])
        BY Zenon, <1>1, <1>3 DEF Types, ListenTypes, CloseTypes
    <2>2. RegInv'
        BY Zenon, <1>0, <1>1, <2>1 DEF CloseInv, RegInv
    <2>3. Closing(k)'
        <3>1. Closing(k)
            BY Zenon DEF CloseInv
        <3> QED
            BY Zenon, <1>n, <1>0, <1>1, <1>3, <2>1, <3>1 DEF Closing
    <2>4. ASSUME NEW j \in Closers, j # k PROVE Closing(j)'
        <3>1. Closing(j) /\ Closing(k) /\ kpc'[j] = kpc[j]
            BY Zenon, <2>1, <2>4 DEF CloseInv
        <3>2. kpc[j] \in {"unreg", "drain"} => kl[j] # l
            BY Zenon, <1>n, <1>0, <1>1, <2>4, <3>1 DEF Closing
        <3>3. kpc[j] \in {"unreg", "drain"} => kl[j] \in Listeners /\ ~closeDone'[kl[j]]
            <4>1. kpc[j] \in {"unreg", "drain"} => kl[j] \in Listeners /\ ~closeDone[kl[j]]
                <5>1. kpc[j] \in {"unreg", "drain"} => kpc[j] # "idle"
                    BY Zenon
                <5> QED
                    BY Zenon, <3>1, <5>1 DEF Closing
            <4> QED
                BY Zenon, <2>1, <3>2, <4>1
        <3>4. kpc[j] = "returned" => closeDone'[kl[j]]
            BY Zenon, <1>n, <2>1, <3>1 DEF Closing
        <3>5. kpc[j] \in {"unreg", "drain"} =>
                 \A i \in Closers : kpc'[i] \in {"unreg", "drain"} /\ kl[i] = kl[j] => i = j
            BY Zenon, <1>n, <2>1, <3>1 DEF Closing
        <3> QED
            BY Zenon, <1>0, <1>3, <3>1, <3>3, <3>4, <3>5 DEF Closing
    <2> QED
        BY Zenon, <2>2, <2>3, <2>4 DEF CloseInv
<1> QED
    BY Zenon, <1>2, <1>3 DEF CloseDrain

(* Every step keeps the invariant on closing. *)
LEMMA CloseKept ==
    ASSUME Distinguished, IInv, [Next]_vars
    PROVE  CloseInv'
<1>0. Types /\ CloseTypes /\ CloseInv
    BY Zenon, Typed DEF Types, IInv
<1>1. ASSUME NEW c, NEW p, \/ Lookup(c, p) \/ RegConnFails(c) \/ NewConn(c) \/ DialUndo(c)
                            \/ UnregConn(c) \/ CloseClient(c) \/ CloseServer(c)
      PROVE  CloseInv'
    BY Zenon, <1>0, <1>1, ClosingQuiet
    DEF Lookup, RegConnFails, NewConn, DialUndo, UnregConn, CloseClient, CloseServer, regVars, listenVars, closeVars
<1>2. ASSUME NEW a, NEW l, NEW d, BeginAccept(a, l, d) \/ AcceptTCP(a) \/ AcceptTimeout(a) PROVE CloseInv'
    BY Zenon, <1>0, <1>2, ClosingQuiet DEF BeginAccept, AcceptTCP, AcceptTimeout, regVars, listenVars, closeVars
<1>3. ASSUME NEW k \in Closers, CloseWaits(k) PROVE CloseInv'
    <2>1. /\ kpc[k] = "wait" /\ closeDone[kl[k]]
          /\ UNCHANGED <<listeners, port, isClosed, closeDone, kl, queued>>
          /\ kpc'[k] = "returned" /\ \A j \in Closers : j # k => kpc'[j] = kpc[j]
        BY Zenon, <1>0, <1>3 DEF CloseWaits, regVars, listenVars, CloseTypes
    <2>2. /\ "wait" \notin {"unreg", "drain"} /\ "wait" # "idle" /\ "returned" \notin {"unreg", "drain"}
          /\ "returned" # "idle" /\ "returned" # "drain"
        BY Zenon
    <2>3. RegInv'
        BY Zenon, <1>0, <2>1 DEF CloseInv, RegInv
    <2>4. ASSUME NEW j \in Closers PROVE Closing(j)'
        <3>1. Closing(j)
            BY Zenon, <1>0 DEF CloseInv
        <3>2. \A i \in Closers : kpc'[i] \in {"unreg", "drain"} <=> kpc[i] \in {"unreg", "drain"}
            BY Zenon, <2>1, <2>2
        <3>3. CASE j = k
            BY Zenon, <2>1, <2>2, <3>1, <3>3 DEF Closing
        <3>4. CASE j # k
            BY Zenon, <2>1, <3>1, <3>2, <3>4 DEF Closing
        <3> QED
            BY Zenon, <3>3, <3>4
    <2> QED
        BY Zenon, <2>3, <2>4 DEF CloseInv
<1>4. CASE UNCHANGED vars
    BY Zenon, <1>0, <1>4, ClosingQuiet DEF vars, regVars, listenVars, closeVars
<1> QED
    BY Zenon, <1>0, <1>1, <1>2, <1>3, <1>4, ClosingByRegister, ClosingByDial, ClosingByBegin, ClosingByUnreg,
       ClosingByDrain DEF Next

----------------------------------------------------------------------------
(* Nobody waits for what has happened. *)

DialWaits(c) == dpc[c] = "waiting" => ~isClosed[target[c]] /\ Len(acceptQ[target[c]]) = QueueCap

AcceptWaits(a) ==
    /\ apc[a] = "waiting" => ~isClosed[al[a]] /\ acceptQ[al[a]] = <<>>
    /\ apc[a] # "idle" => al[a] \in Listeners

(* The invariant on wakeups, one waiter at a time. *)
LEMMA Waits == WakeInv <=> (\A c \in Conns : DialWaits(c)) /\ (\A a \in Acceptors : AcceptWaits(a))
    BY Zenon DEF WakeInv, NobodyForgotten, DialWaits, AcceptWaits

(* NewConn wakes everybody when it adds to a queue, and waits only for a   *)
(* full one.                                                               *)
LEMMA WaitsByNewConn ==
    ASSUME Distinguished, IInv, NEW d \in Conns, NewConn(d)
    PROVE  WakeInv'
<1>0. /\ Types /\ ConnTypes /\ AcceptTypes /\ QueueCap \in Nat /\ dpc[d] = "queue"
      /\ (\A c \in Conns : DialWaits(c)) /\ (\A a \in Acceptors : AcceptWaits(a))
      /\ UNCHANGED <<isClosed, target, al>>
    BY Zenon, Typed, Waits DEF IInv, Types, Distinguished, NewConn
<1>1. PICK l \in Listeners : l = target[d]
    <2>1. "queue" # "idle"
        BY Zenon
    <2> QED
        BY Zenon, <1>0, <2>1 DEF IInv, Placed
<1>n. "undo" # "waiting" /\ "ok" # "waiting" /\ "waiting" # "idle" /\ "queue" # "waiting" /\ "woken" # "waiting" /\ "woken" # "idle"
    BY Zenon
<1>2. CASE UNCHANGED <<acceptQ, apc>> /\ dpc' = [dpc EXCEPT ![d] = "undo"]
    <2>1. \A c \in Conns : dpc'[c] = "waiting" => dpc[c] = "waiting"
        BY Zenon, <1>0, <1>2, <1>n DEF ConnTypes
    <2> QED
        BY Zenon, <1>0, <1>2, <2>1, Waits DEF WakeInv, NobodyForgotten, DialWaits, AcceptWaits
<1>3. CASE UNCHANGED <<acceptQ, apc>> /\ dpc' = [dpc EXCEPT ![d] = "waiting"] /\ ~isClosed[l] /\ ~HasRoom(l)
    <2>1. \A c \in Conns : c # d => dpc'[c] = dpc[c]
        BY Zenon, <1>0, <1>3 DEF ConnTypes
    <2>2. Len(acceptQ[l]) = QueueCap
        <3>1. ~(Len(acceptQ[l]) < QueueCap) /\ Len(acceptQ[l]) <= QueueCap /\ acceptQ[l] \in Seq(Conns)
            BY Zenon, <1>0, <1>3 DEF HasRoom, Types, QueueTypes
        <3>2. Len(acceptQ[l]) \in Nat
            BY <3>1
        <3> QED
            BY <1>0, <3>1, <3>2
    <2> QED
        BY Zenon, <1>0, <1>1, <1>3, <2>1, <2>2 DEF WakeInv, NobodyForgotten, DialWaits, AcceptWaits
<1>4. CASE /\ HasRoom(l) /\ acceptQ' = [acceptQ EXCEPT ![l] = Append(@, d)]
           /\ dpc' = [WakeDials(l) EXCEPT ![d] = "ok"] /\ apc' = WakeAccepts(l)
    <2>1. \A m \in Listeners : m # l => acceptQ'[m] = acceptQ[m]
        BY Zenon, <1>0, <1>4, QueueAppends
    <2>2. \A c \in Conns : dpc'[c] = "waiting" => dpc[c] = "waiting" /\ target[c] # l
        BY Zenon, <1>0, <1>4 DEF WakeDials, ConnTypes
    <2>3. \A a \in Acceptors : /\ apc'[a] = "waiting" => apc[a] = "waiting" /\ al[a] # l
                               /\ apc'[a] # "idle" => apc[a] # "idle"
        BY Zenon, <1>0, <1>4 DEF WakeAccepts, AcceptTypes
    <2>4. \A c \in Conns : dpc[c] = "waiting" => target[c] \in Listeners
        BY Zenon, <1>n DEF IInv, Placed
    <2>5. ASSUME NEW c \in Conns PROVE DialWaits(c)'
        BY Zenon, <1>0, <2>1, <2>2, <2>4 DEF DialWaits
    <2>6. ASSUME NEW a \in Acceptors PROVE AcceptWaits(a)'
        BY Zenon, <1>0, <1>n, <2>1, <2>3 DEF AcceptWaits
    <2> QED
        BY Zenon, <2>5, <2>6 DEF WakeInv, NobodyForgotten, DialWaits, AcceptWaits
<1> QED
    BY Zenon, <1>1, <1>2, <1>3, <1>4 DEF NewConn

(* AcceptTCP wakes everybody when it takes from a queue, and waits only    *)
(* for an empty one.                                                       *)
LEMMA WaitsByAccept ==
    ASSUME Distinguished, IInv, NEW b \in Acceptors, AcceptTCP(b)
    PROVE  WakeInv'
<1>n. "waiting" # "idle" /\ "woken" # "waiting" /\ "lock" # "idle" /\ "woken" # "idle" /\ "queue" # "waiting"
    BY Zenon
<1>0. /\ Types /\ ConnTypes /\ AcceptTypes /\ QueueCap \in Nat /\ apc[b] # "idle"
      /\ (\A c \in Conns : DialWaits(c)) /\ (\A a \in Acceptors : AcceptWaits(a))
      /\ UNCHANGED <<isClosed, target>>
    <2>1. apc[b] # "idle"
        BY Zenon DEF AcceptTCP
    <2> QED
        BY Zenon, <2>1, Typed, Waits DEF IInv, Types, Distinguished, AcceptTCP
<1>1. PICK l \in Listeners : l = al[b]
    BY Zenon, <1>0 DEF AcceptWaits
<1>2. CASE apc' = [apc EXCEPT ![b] = "idle"] /\ AcceptReturns(b) /\ UNCHANGED <<acceptQ, dpc>>
    <2>1. \A a \in Acceptors : apc'[a] # "idle" => apc'[a] = apc[a] /\ al'[a] = al[a]
        BY Zenon, <1>0, <1>2 DEF AcceptReturns, AcceptTypes
    <2> QED
        BY Zenon, <1>0, <1>2, <1>n, <2>1 DEF WakeInv, NobodyForgotten, DialWaits, AcceptWaits
<1>3. CASE /\ ~isClosed[l] /\ acceptQ[l] = <<>> /\ apc' = [apc EXCEPT ![b] = "waiting"]
           /\ UNCHANGED <<acceptQ, dpc, al>>
    <2>1. \A a \in Acceptors : a # b => apc'[a] = apc[a]
        BY Zenon, <1>0, <1>3 DEF AcceptTypes
    <2> QED
        BY Zenon, <1>0, <1>1, <1>3, <2>1 DEF WakeInv, NobodyForgotten, DialWaits, AcceptWaits
<1>4. CASE /\ acceptQ[l] # <<>> /\ acceptQ' = [acceptQ EXCEPT ![l] = Tail(@)]
           /\ dpc' = WakeDials(l) /\ apc' = [WakeAccepts(l) EXCEPT ![b] = "idle"] /\ AcceptReturns(b)
    <2>1. \A m \in Listeners : m # l => acceptQ'[m] = acceptQ[m]
        BY Zenon, <1>0, <1>4, QueueTakes
    <2>2. \A c \in Conns : dpc'[c] = "waiting" => dpc[c] = "waiting" /\ target[c] # l
        BY Zenon, <1>0, <1>4 DEF WakeDials, ConnTypes
    <2>3. \A a \in Acceptors : /\ apc'[a] = "waiting" => apc[a] = "waiting" /\ al[a] # l
                               /\ apc'[a] # "idle" => apc[a] # "idle" /\ al'[a] = al[a]
        BY Zenon, <1>0, <1>4 DEF WakeAccepts, AcceptReturns, AcceptTypes
    <2>4. \A c \in Conns : dpc[c] = "waiting" => target[c] \in Listeners
        BY Zenon, <1>n DEF IInv, Placed
    <2>5. ASSUME NEW c \in Conns PROVE DialWaits(c)'
        BY Zenon, <1>0, <2>1, <2>2, <2>4 DEF DialWaits
    <2>6. ASSUME NEW a \in Acceptors PROVE AcceptWaits(a)'
        BY Zenon, <1>0, <1>n, <2>1, <2>3 DEF AcceptWaits
    <2> QED
        BY Zenon, <2>5, <2>6 DEF WakeInv, NobodyForgotten, DialWaits, AcceptWaits
<1> QED
    BY Zenon, <1>1, <1>2, <1>3, <1>4 DEF AcceptTCP

(* Close wakes everybody who waits on its listener. *)
LEMMA WaitsByClose ==
    ASSUME Distinguished, IInv, NEW k \in Closers, NEW l \in Listeners, BeginClose(k, l)
    PROVE  WakeInv'
<1>n. "waiting" # "idle"
    BY Zenon
<1>0. /\ Types /\ ConnTypes /\ AcceptTypes /\ QueueCap \in Nat
      /\ (\A c \in Conns : DialWaits(c)) /\ (\A a \in Acceptors : AcceptWaits(a))
      /\ UNCHANGED <<target, al>>
    BY Zenon, Typed, Waits DEF IInv, Types, Distinguished, BeginClose
<1>1. CASE UNCHANGED <<isClosed, acceptQ, dpc, apc>>
    BY Zenon, <1>0, <1>1 DEF WakeInv, NobodyForgotten, DialWaits, AcceptWaits
<1>2. CASE /\ isClosed' = [isClosed EXCEPT ![l] = TRUE] /\ acceptQ' = [acceptQ EXCEPT ![l] = <<>>]
           /\ dpc' = WakeDials(l) /\ apc' = WakeAccepts(l)
    <2>1. \A m \in Listeners : m # l => acceptQ'[m] = acceptQ[m] /\ isClosed'[m] = isClosed[m]
        BY Zenon, <1>0, <1>2, QueueEmptied DEF Types, ListenTypes
    <2>2. \A c \in Conns : dpc'[c] = "waiting" => dpc[c] = "waiting" /\ target[c] # l
        BY Zenon, <1>0, <1>2 DEF WakeDials, ConnTypes
    <2>3. \A a \in Acceptors : /\ apc'[a] = "waiting" => apc[a] = "waiting" /\ al[a] # l
                               /\ apc'[a] # "idle" => apc[a] # "idle"
        BY Zenon, <1>0, <1>2 DEF WakeAccepts, AcceptTypes
    <2>4. \A c \in Conns : dpc[c] = "waiting" => target[c] \in Listeners
        BY Zenon, <1>n DEF IInv, Placed
    <2>5. ASSUME NEW c \in Conns PROVE DialWaits(c)'
        BY Zenon, <1>0, <2>1, <2>2, <2>4 DEF DialWaits
    <2>6. ASSUME NEW a \in Acceptors PROVE AcceptWaits(a)'
        BY Zenon, <1>0, <1>n, <2>1, <2>3 DEF AcceptWaits
    <2> QED
        BY Zenon, <2>5, <2>6 DEF WakeInv, NobodyForgotten, DialWaits, AcceptWaits
<1> QED
    BY Zenon, <1>1, <1>2 DEF BeginClose

(* No step leaves somebody waiting for what has happened. *)
LEMMA WakeKept ==
    ASSUME Distinguished, IInv, [Next]_vars
    PROVE  WakeInv'
<1>0. /\ Types /\ ConnTypes /\ AcceptTypes
      /\ (\A c \in Conns : DialWaits(c)) /\ (\A a \in Acceptors : AcceptWaits(a))
    BY Zenon, Typed, Waits DEF IInv, Types
<1>d. ASSUME UNCHANGED <<isClosed, acceptQ, apc, al>>,
             \A c \in Conns : dpc'[c] = "waiting" => dpc[c] = "waiting" /\ target'[c] = target[c]
      PROVE  WakeInv'
    BY Zenon, <1>0, <1>d DEF WakeInv, NobodyForgotten, DialWaits, AcceptWaits
<1>a. ASSUME UNCHANGED <<isClosed, acceptQ, dpc, target>>,
             \A a \in Acceptors : /\ apc'[a] = "waiting" => apc[a] = "waiting" /\ al'[a] = al[a]
                                  /\ apc'[a] # "idle" => al'[a] \in Listeners
      PROVE  WakeInv'
    BY Zenon, <1>0, <1>a DEF WakeInv, NobodyForgotten, DialWaits, AcceptWaits
<1>u. ASSUME UNCHANGED <<isClosed, acceptQ, dpc, target, apc, al>> PROVE WakeInv'
    BY Zenon, <1>0, <1>u DEF WakeInv, NobodyForgotten, DialWaits, AcceptWaits
<1>1. ASSUME NEW l, NEW p, RegListener(l, p) PROVE WakeInv'
    BY Zenon, <1>u, <1>1 DEF RegListener, listenVars, connVars, acceptVars
<1>2. ASSUME NEW d \in Conns, NEW p, Lookup(d, p) \/ RegConn(d, p) PROVE WakeInv'
    <2>1. \A c \in Conns : dpc'[c] = "waiting" => dpc[c] = "waiting" /\ target'[c] = target[c]
        BY Zenon, <1>0, <1>2 DEF Lookup, RegConn, ConnTypes
    <2> QED
        BY Zenon, <1>d, <1>2, <2>1 DEF Lookup, RegConn, listenVars, acceptVars
<1>3. ASSUME NEW d \in Conns, RegConnFails(d) \/ DialUndo(d) \/ CloseClient(d) PROVE WakeInv'
    <2>1. \A c \in Conns : dpc'[c] = "waiting" => dpc[c] = "waiting" /\ target'[c] = target[c]
        BY Zenon, <1>0, <1>3 DEF RegConnFails, DialUndo, CloseClient, ConnTypes
    <2> QED
        BY Zenon, <1>d, <1>3, <2>1 DEF RegConnFails, DialUndo, CloseClient, listenVars, acceptVars
<1>4. ASSUME NEW d, UnregConn(d) \/ CloseServer(d) PROVE WakeInv'
    BY Zenon, <1>u, <1>4 DEF UnregConn, CloseServer, listenVars, acceptVars
<1>5. ASSUME NEW a \in Acceptors, NEW l \in Listeners, NEW d, BeginAccept(a, l, d) PROVE WakeInv'
    <2>1. \A b \in Acceptors : /\ apc'[b] = "waiting" => apc[b] = "waiting" /\ al'[b] = al[b]
                               /\ apc'[b] # "idle" => al'[b] \in Listeners
        BY Zenon, <1>0, <1>5 DEF BeginAccept, AcceptTypes, AcceptWaits
    <2> QED
        BY Zenon, <1>a, <1>5, <2>1 DEF BeginAccept, listenVars, connVars
<1>6. ASSUME NEW a \in Acceptors, AcceptTimeout(a) PROVE WakeInv'
    <2>1. \A b \in Acceptors : /\ apc'[b] = "waiting" => apc[b] = "waiting" /\ al'[b] = al[b]
                               /\ apc'[b] # "idle" => al'[b] \in Listeners
        BY Zenon, <1>0, <1>6 DEF AcceptTimeout, AcceptReturns, AcceptTypes, AcceptWaits
    <2> QED
        BY Zenon, <1>a, <1>6, <2>1 DEF AcceptTimeout, listenVars, connVars
<1>7. ASSUME NEW k, CloseUnreg(k) \/ CloseDrain(k) \/ CloseWaits(k) PROVE WakeInv'
    BY Zenon, <1>u, <1>7 DEF CloseUnreg, CloseDrain, CloseWaits, listenVars, connVars, acceptVars
<1>8. CASE UNCHANGED vars
    BY Zenon, <1>u, <1>8 DEF vars, listenVars, connVars, acceptVars
<1> QED
    BY Zenon, <1>1, <1>2, <1>3, <1>4, <1>5, <1>6, <1>7, <1>8, WaitsByNewConn, WaitsByAccept, WaitsByClose DEF Next

----------------------------------------------------------------------------
(* The invariant and what it says. *)

(* The invariant holds at the start, ... *)
LEMMA InitIInv == Distinguished /\ Init => IInv
<1> SUFFICES ASSUME Distinguished, Init PROVE IInv
    BY Zenon
<1>0. <<>> \in Seq(Conns) /\ Len(<<>>) = 0 /\ 0 <= QueueCap /\ DOMAIN <<>> = {}
    BY DEF Distinguished
<1>1. Types
    <2>1. RegTypes /\ ListenTypes
        BY Zenon DEF Init, RegTypes, ListenTypes
    <2>2. ConnTypes /\ AcceptTypes /\ CloseTypes
        BY Zenon DEF Init, ConnTypes, AcceptTypes, CloseTypes, DialStates
    <2>3. QueueTypes
        BY Zenon, <1>0 DEF Init, QueueTypes
    <2> QED
        BY Zenon, <2>1, <2>2, <2>3 DEF Types
<1>2. \A l \in Listeners : acceptQ[l] = <<>> /\ Queued(l) = {} /\ ~isClosed[l] /\ ~closeDone[l]
    BY Zenon, <1>0 DEF Init, Queued
<1>3. QueuesInv
    BY Zenon, <1>0, <1>2 DEF QueuesInv
<1>4. \A c \in Conns : Placed(c)
    <2>1. "none" # "open"
        BY Zenon
    <2> QED
        BY Zenon, <1>2, <2>1 DEF Init, Placed
<1>5. CloseInv
    <2>1. "idle" \notin {"unreg", "drain"} /\ "idle" # "drain" /\ "idle" # "returned"
        BY Zenon
    <2>2. \A k \in Closers : kpc[k] = "idle" /\ queued[k] = {}
        BY Zenon DEF Init
    <2>3. \A p \in Ports : listeners[p] = None
        BY Zenon DEF Init
    <2> QED
        BY Zenon, <1>2, <2>1, <2>2, <2>3 DEF CloseInv, RegInv, Closing
<1>6. WakeInv
    <2>1. (\A c \in Conns : dpc[c] # "waiting") /\ (\A a \in Acceptors : apc[a] = "idle" /\ apc[a] # "waiting")
        BY Zenon DEF Init
    <2> QED
        BY Zenon, <2>1 DEF WakeInv, NobodyForgotten
<1> QED
    BY Zenon, <1>1, <1>3, <1>4, <1>5, <1>6, Typed DEF IInv

(* ... and every step keeps it. *)
LEMMA NextIInv == Distinguished /\ IInv /\ [Next]_vars => IInv'
<1> SUFFICES ASSUME Distinguished, IInv, [Next]_vars PROVE IInv'
    BY Zenon
<1>1. Types
    BY Zenon, Typed DEF IInv
<1>2. RegTypes' /\ ListenTypes' /\ ConnTypes' /\ AcceptTypes' /\ CloseTypes' /\ QueueTypes' /\ QueuesInv'
    BY Zenon, <1>1, RegTypesKept, ConnTypesKept, CallTypesKept, QueuesKept
<1>3. TypeOK'
    <2>1. Types'
        BY Zenon, <1>2 DEF Types
    <2> QED
        BY <2>1, Typed, PTL
<1> QED
    BY Zenon, <1>2, <1>3, PlacedKept, CloseKept, WakeKept DEF IInv

FS == INSTANCE FiniteSetTheorems

(* A set of one element has one. *)
LEMMA CountOne == \A x : Cardinality({x}) = 1
<1>1. \A S : FS!Cardinality(S) = Cardinality(S)
    BY Zenon DEF FS!Cardinality, Cardinality
<1> QED
    BY Zenon, <1>1, FS!FS_Singleton

(* An open connection is in one of the four places, so in exactly one.     *)
LEMMA InOnePlace ==
    ASSUME IInv, NEW c \in Conns, server[c] = "open"
    PROVE  Cardinality(Places(c)) = 1
<1>0. Placed(c) /\ \A l \in Listeners : c \in Queued(l) <=> \E i \in DOMAIN acceptQ[l] : acceptQ[l][i] = c
    BY Zenon DEF IInv, Queued
<1>n. "ok" \notin Dialling
    BY Zenon DEF Dialling
<1>1. \A l \in Listeners : c \in Queued(l) => ~isClosed[l]
    <2>1. DOMAIN <<>> = {}
        OBVIOUS
    <2> QED
        BY Zenon, <1>0, <2>1 DEF IInv, QueuesInv
<1>2. \A x : x \in Places(c) <=>
          \/ x = <<"dial", None>> /\ dpc[c] \in Dialling
          \/ x = <<"accepted", None>> /\ c \in accepted
          \/ \E l \in Listeners : x = <<"queue", l>> /\ c \in Queued(l)
          \/ \E k \in Closers : x = <<"drain", k>> /\ c \in queued[k]
    BY Zenon, <1>0, <1>1 DEF Places, Dialling
<1>3. \E x : Places(c) = {x}
    <2>1. CASE dpc[c] \in Dialling
        <3>1. Places(c) = {<<"dial", None>>}
            BY Zenon, <1>n, <1>0, <1>2, <2>1 DEF Placed
        <3> QED
            BY Zenon, <3>1
    <2>2. CASE c \in accepted
        <3>1. Places(c) = {<<"accepted", None>>}
            BY Zenon, <1>n, <1>0, <1>2, <2>2 DEF Placed
        <3> QED
            BY Zenon, <3>1
    <2>3. ASSUME NEW l \in Listeners, c \in Queued(l) PROVE \E x : Places(c) = {x}
        <3>1. Places(c) = {<<"queue", l>>}
            BY Zenon, <1>n, <1>0, <1>2, <2>3 DEF Placed
        <3> QED
            BY Zenon, <3>1
    <2>4. ASSUME NEW k \in Closers, c \in queued[k] PROVE \E x : Places(c) = {x}
        <3>1. Places(c) = {<<"drain", k>>}
            BY Zenon, <1>n, <1>0, <1>2, <2>4 DEF Placed
        <3> QED
            BY Zenon, <3>1
    <2> QED
        BY Zenon, <1>0, <2>1, <2>2, <2>3, <2>4 DEF Placed
<1> QED
    BY Zenon, <1>3, CountOne

(* What the invariant says to a user. *)
LEMMA Implied == IInv => TypeOK /\ OnePlace /\ CloseComplete /\ NobodyForgotten
<1> SUFFICES ASSUME IInv PROVE TypeOK /\ OnePlace /\ CloseComplete /\ NobodyForgotten
    BY Zenon
<1>1. OnePlace
    BY Zenon, InOnePlace DEF OnePlace
<1>2. CloseComplete
    <2> SUFFICES ASSUME NEW k \in Closers, kpc[k] = "returned"
                 PROVE  /\ \A p \in Ports : listeners[p] # kl[k]
                        /\ \A c \in Conns : target[c] = kl[k] /\ dpc[c] = "ok" /\ c \notin accepted
                                               => server[c] = "closed"
        BY Zenon DEF CloseComplete
    <2>n. "returned" # "idle" /\ "ok" # "idle" /\ "ok" \notin Dialling /\ "closed" # "open"
        BY Zenon DEF Dialling
    <2>1. kl[k] \in Listeners /\ closeDone[kl[k]] /\ isClosed[kl[k]]
        BY Zenon, <2>n DEF IInv, CloseInv, Closing
    <2>2. \A p \in Ports : listeners[p] # kl[k]
        BY Zenon, <2>1 DEF IInv, CloseInv, RegInv
    <2>3. ASSUME NEW c \in Conns, target[c] = kl[k], dpc[c] = "ok", c \notin accepted
          PROVE  server[c] = "closed"
        <3>1. Placed(c)
            BY Zenon DEF IInv
        <3>2. \A l \in Listeners : c \notin Queued(l)
            <4>1. acceptQ[kl[k]] = <<>> /\ DOMAIN <<>> = {}
                BY <2>1 DEF IInv, QueuesInv
            <4>2. Queued(kl[k]) = {}
                BY Zenon, <4>1 DEF Queued
            <4> QED
                BY Zenon, <2>3, <3>1, <4>2 DEF Placed
        <3>3. \A j \in Closers : c \notin queued[j]
            <4>1. ASSUME NEW j \in Closers, c \in queued[j] PROVE FALSE
                <5>1. kl[j] = kl[k] /\ queued[j] # {}
                    BY Zenon, <2>3, <3>1, <4>1 DEF Placed
                <5> QED
                    BY Zenon, <2>1, <5>1 DEF IInv, CloseInv, Closing
            <4> QED
                BY Zenon, <4>1
        <3>4. server[c] # "open" /\ server[c] # "none"
            BY Zenon, <2>n, <2>3, <3>1, <3>2, <3>3 DEF Placed
        <3>5. server[c] \in {"none", "open", "closed"}
            BY Zenon, Typed DEF IInv, Types, ConnTypes
        <3> QED
            BY Zenon, <3>4, <3>5
    <2> QED
        BY Zenon, <2>2, <2>3
<1> QED
    BY Zenon, <1>1, <1>2 DEF IInv, WakeInv

(* The inductive invariant holds in every reachable state. *)
THEOREM Invariance == ASSUME Distinguished PROVE Spec => []IInv
<1>1. Init => IInv
    BY Zenon, InitIInv
<1>2. IInv /\ [Next]_vars => IInv'
    BY Zenon, NextIInv
<1> QED
    BY <1>1, <1>2, PTL DEF Spec

(* acceptQ never holds more than its capacity, however many dials race for *)
(* room (NewConn), and every variable keeps to its type.                   *)
THEOREM TypeSafety == ASSUME Distinguished PROVE Spec => []TypeOK
<1>1. IInv => TypeOK
    BY Zenon, Implied
<1> QED
    BY <1>1, Invariance, PTL

(* DialTCP, AcceptTCP and Close, interleaved in any way, neither strand    *)
(* nor share the server's end of a connection.                             *)
THEOREM ExactlyOnePlace == ASSUME Distinguished PROVE Spec => []OnePlace
<1>1. IInv => OnePlace
    BY Zenon, Implied
<1> QED
    BY <1>1, Invariance, PTL

(* When a Close of a listener returns, the first one or a later one, the   *)
(* listener is out of the registry and what nobody accepted is closed.     *)
THEOREM CloseLeavesNothing == ASSUME Distinguished PROVE Spec => []CloseComplete
<1>1. IInv => CloseComplete
    BY Zenon, Implied
<1> QED
    BY <1>1, Invariance, PTL

(* Who waits on queueChanged waits for something that has not happened.    *)
THEOREM WakeupsKept == ASSUME Distinguished PROVE Spec => []NobodyForgotten
<1>1. IInv => NobodyForgotten
    BY Zenon, Implied
<1> QED
    BY <1>1, Invariance, PTL
=============================================================================

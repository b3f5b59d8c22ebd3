--------------------------- MODULE LoopbackNetwork ---------------------------
(***************************************************************************)
(* How a LoopbackNetwork (loopback.go) keeps track of what it hands out:   *)
(* DialTCP, DialUDP, ListenTCP and ListenUDP check that the network is up  *)
(* in one critical section of ln.mu and register what they made in         *)
(* another; connections come out of its listeners; goroutines call Up,     *)
(* Down and Close.  The transports are LoopbackTCP and LoopbackTCPStream.  *)
(***************************************************************************)
EXTENDS Naturals, TLAPS

CONSTANTS Calls,     \* dial and listen calls, each with the object it makes
          Accepts,   \* accept calls, each with the connection it gets
          Callers,   \* goroutines that call Up, Down and Close
          UpDowns,   \* subscribers to Up and Down
          Subs,      \* subscribers to Close
          MaxMoves   \* bound on the calls of Up, Down and Close

VARIABLES up, closed,      \* of the network
          closers,         \* ln.closers: the objects that are tracked
          pc, open,        \* of a call or accept, and of its object
          from,            \* the listener of an accept
          kpc, snapshot,   \* of Up, Down and Close: where, what is left to close
          movs, moved,     \* subscribers left to move, and which way
          drops,           \* close subscribers left to close
          moves,           \* calls of Up, Down and Close so far
          updowns, isUp,   \* subscribers to Up and Down, and their state
          upc,             \* SubscribeUpDown
          closeSubs, spc   \* subscribers to Close, SubscribeCloser

netVars  == <<up, closed, closers>>
callVars == <<pc, open, from>>
moveVars == <<kpc, snapshot, movs, moved, drops, moves>>
upVars   == <<updowns, isUp, upc>>
subVars  == <<closeSubs, spc>>
vars == <<netVars, callVars, moveVars, upVars, subVars>>

Objects == Calls \cup Accepts

(* NewLoopbackNetwork. *)
Init ==
    /\ up = TRUE /\ closed = FALSE /\ closers = {}
    /\ pc = [o \in Objects |-> "idle"]
    /\ open = [o \in Objects |-> FALSE]
    /\ from = [o \in Accepts |-> o]
    /\ kpc = [k \in Callers |-> "idle"]
    /\ snapshot = [k \in Callers |-> {}]
    /\ movs = [k \in Callers |-> {}]
    /\ moved = [k \in Callers |-> FALSE]
    /\ drops = [k \in Callers |-> {}]
    /\ moves = 0
    /\ updowns = {} /\ isUp = [u \in UpDowns |-> TRUE]
    /\ upc = [u \in UpDowns |-> "idle"]
    /\ closeSubs = {} /\ spc = [s \in Subs |-> "idle"]

----------------------------------------------------------------------------
(* DialTCP, DialUDP, ListenTCP, ListenUDP.  Dial, Listen and ListenPacket  *)
(* only check once more.                                                   *)

CheckUp(o) ==
    /\ pc[o] = "idle"
    /\ pc' = [pc EXCEPT ![o] = IF up /\ ~closed THEN "checked" ELSE "failed"]
    /\ UNCHANGED <<netVars, open, from, moveVars, upVars, subVars>>

(* The transport makes the object, or fails. *)
Make(o) ==
    /\ pc[o] = "checked"
    /\ \/ pc' = [pc EXCEPT ![o] = "made"] /\ open' = [open EXCEPT ![o] = TRUE]
       \/ pc' = [pc EXCEPT ![o] = "failed"] /\ UNCHANGED open
    /\ UNCHANGED <<netVars, from, moveVars, upVars, subVars>>

Register(o) ==
    /\ pc[o] = "made"
    /\ closers' = closers \cup {o}
    /\ pc' = [pc EXCEPT ![o] = "out"]
    /\ UNCHANGED <<up, closed, open, from, moveVars, upVars, subVars>>

(* Accept and AcceptTCP of a tracked listener l: the transport's part. *)
Accept(o, l) ==
    /\ pc[o] = "idle"
    /\ pc[l] \in {"out", "unreg"} /\ open[l]
    /\ from' = [from EXCEPT ![o] = l]
    /\ pc' = [pc EXCEPT ![o] = "accepted"]
    /\ open' = [open EXCEPT ![o] = TRUE]
    /\ UNCHANGED <<netVars, moveVars, upVars, subVars>>

(* The stopped flag of a listener's callbacks, set when it is closed. *)
Stopped(l) == ~open[l] \/ pc[l] = "unreg"

(* runOnAccept and runOnAcceptTCP close the connection of a listener that  *)
(* is closed.  Accept returns any other as it is: only OnAcceptTCP is set. *)
RunOnAccept(o) ==
    /\ pc[o] = "accepted"
    /\ IF Stopped(from[o])
       THEN pc' = [pc EXCEPT ![o] = "failed"] /\ open' = [open EXCEPT ![o] = FALSE]
       ELSE /\ \E next \in {"untracked", "callback"} : pc' = [pc EXCEPT ![o] = next]
            /\ UNCHANGED open
    /\ UNCHANGED <<netVars, from, moveVars, upVars, subVars>>

(* registerTCPConnCallback; a connection that it rejects is nil to         *)
(* runOnAcceptTCP, which closes nothing.                                   *)
RegisterTCPConnCallback(o) ==
    /\ pc[o] = "callback"
    /\ IF up
       THEN closers' = closers \cup {o} /\ pc' = [pc EXCEPT ![o] = "out"]
       ELSE pc' = [pc EXCEPT ![o] = "rejected"] /\ UNCHANGED closers
    /\ UNCHANGED <<up, closed, open, from, moveVars, upVars, subVars>>

----------------------------------------------------------------------------
(* The user closes an object: BeforeClose unregisters it, then it closes.  *)

(* Mutant: the object is closed but stays registered. *)
UnregisterNot(o) ==
    /\ pc[o] = "out"
    /\ pc' = [pc EXCEPT ![o] = "unreg"]
    /\ UNCHANGED <<netVars, open, from, moveVars, upVars, subVars>>

Unregister(o) ==
    /\ pc[o] \in {"out", "half"}
    /\ closers' = closers \ {o}
    /\ pc' = [pc EXCEPT ![o] = "unreg"]
    /\ UNCHANGED <<up, closed, open, from, moveVars, upVars, subVars>>

UserClose(o) ==
    /\ pc[o] \in {"unreg", "untracked"}
    /\ open' = [open EXCEPT ![o] = FALSE]
    /\ pc' = [pc EXCEPT ![o] = "done"]
    /\ UNCHANGED <<netVars, from, moveVars, upVars, subVars>>

(* CloseRead and CloseWrite of a TCP connection close it whole, and the    *)
(* wrapper of a tracked one passes them on without its callback.  A call   *)
(* that nothing was accepted from may have been a dial.                    *)
CloseHalf(o) ==
    /\ o \in Accepts \/ \A a \in Accepts : from[a] # o
    /\ pc[o] \in {"out", "unreg", "untracked"} /\ open[o]
    /\ open' = [open EXCEPT ![o] = FALSE]
    /\ pc' = [pc EXCEPT ![o] = IF @ = "out" THEN "half" ELSE @]
    /\ UNCHANGED <<netVars, from, moveVars, upVars, subVars>>

----------------------------------------------------------------------------
(* Up, Down and Close. *)

Begin(k) == kpc[k] = "idle" /\ moves < MaxMoves /\ moves' = moves + 1

Up(k) ==
    /\ Begin(k)
    /\ IF closed \/ up
       THEN UNCHANGED <<up, kpc, movs, moved>>
       ELSE /\ up' = TRUE
            /\ kpc' = [kpc EXCEPT ![k] = "moving"]
            /\ movs' = [movs EXCEPT ![k] = updowns]
            /\ moved' = [moved EXCEPT ![k] = TRUE]
    /\ UNCHANGED <<closed, closers, callVars, snapshot, drops, upVars, subVars>>

(* downPrep. *)
Down(k) ==
    /\ Begin(k)
    /\ IF closed \/ ~up
       THEN UNCHANGED <<up, closers, kpc, snapshot, movs, moved>>
       ELSE /\ up' = FALSE
            /\ closers' = {}
            /\ kpc' = [kpc EXCEPT ![k] = "closing"]
            /\ snapshot' = [snapshot EXCEPT ![k] = closers]
            /\ movs' = [movs EXCEPT ![k] = updowns]
            /\ moved' = [moved EXCEPT ![k] = FALSE]
    /\ UNCHANGED <<closed, callVars, drops, upVars, subVars>>

(* closePrep; subscribers are moved only if the network was up. *)
Close(k) ==
    /\ Begin(k)
    /\ IF closed
       THEN UNCHANGED <<netVars, kpc, snapshot, movs, moved, drops, closeSubs>>
       ELSE /\ closed' = TRUE /\ up' = FALSE
            /\ closers' = {} /\ closeSubs' = {}
            /\ kpc' = [kpc EXCEPT ![k] = "closing"]
            /\ snapshot' = [snapshot EXCEPT ![k] = closers]
            /\ movs' = [movs EXCEPT ![k] = IF up THEN updowns ELSE {}]
            /\ moved' = [moved EXCEPT ![k] = FALSE]
            /\ drops' = [drops EXCEPT ![k] = closeSubs]
    /\ UNCHANGED <<callVars, upVars, spc>>

(* Mutant: the first object that fails to close ends the loop. *)
CloseNextStops(k) ==
    /\ kpc[k] = "closing"
    /\ kpc' = [kpc EXCEPT ![k] = "moving"]
    /\ \/ snapshot[k] = {} /\ UNCHANGED open
       \/ \E o \in snapshot[k] : open' = [open EXCEPT ![o] = FALSE]
    /\ snapshot' = [snapshot EXCEPT ![k] = {}]
    /\ UNCHANGED <<netVars, pc, from, movs, moved, drops, moves, upVars, subVars>>

(* The rest runs without the lock: close what was tracked ...              *)
CloseNext(k) ==
    /\ kpc[k] = "closing"
    /\ IF snapshot[k] = {}
       THEN kpc' = [kpc EXCEPT ![k] = "moving"] /\ UNCHANGED <<open, snapshot>>
       ELSE \E o \in snapshot[k] :
                /\ open' = [open EXCEPT ![o] = FALSE]
                /\ snapshot' = [snapshot EXCEPT ![k] = @ \ {o}]
                /\ UNCHANGED kpc
    /\ UNCHANGED <<netVars, pc, from, movs, moved, drops, moves, upVars, subVars>>

(* ... move the subscribers to Up and Down ...                             *)
MoveNext(k) ==
    /\ kpc[k] = "moving"
    /\ IF movs[k] = {}
       THEN kpc' = [kpc EXCEPT ![k] = "dropping"] /\ UNCHANGED <<isUp, movs>>
       ELSE \E u \in movs[k] :
                /\ isUp' = [isUp EXCEPT ![u] = moved[k]]
                /\ movs' = [movs EXCEPT ![k] = @ \ {u}]
                /\ UNCHANGED kpc
    /\ UNCHANGED <<netVars, callVars, snapshot, moved, drops, moves, updowns, upc, subVars>>

(* ... and close the subscribers to Close.                                 *)
DropNext(k) ==
    /\ kpc[k] = "dropping"
    /\ IF drops[k] = {}
       THEN kpc' = [kpc EXCEPT ![k] = "idle"] /\ UNCHANGED <<drops, spc>>
       ELSE \E s \in drops[k] :
                /\ spc' = [spc EXCEPT ![s] = "closed"]
                /\ drops' = [drops EXCEPT ![k] = @ \ {s}]
                /\ UNCHANGED kpc
    /\ UNCHANGED <<netVars, callVars, snapshot, movs, moved, moves, upVars, closeSubs>>

----------------------------------------------------------------------------
(* Subscriptions. *)

SubscribeUpDown(u) ==
    /\ upc[u] = "idle"
    /\ updowns' = updowns \cup {u}
    /\ upc' = [upc EXCEPT ![u] = IF up /\ ~closed THEN "subscribed" ELSE "down"]
    /\ UNCHANGED <<netVars, callVars, moveVars, isUp, subVars>>

(* u.Down(), after the lock was released. *)
SubscribeDown(u) ==
    /\ upc[u] = "down"
    /\ isUp' = [isUp EXCEPT ![u] = FALSE]
    /\ upc' = [upc EXCEPT ![u] = "subscribed"]
    /\ UNCHANGED <<netVars, callVars, moveVars, updowns, subVars>>

UnregisterUpDown(u) ==
    /\ upc[u] = "subscribed"
    /\ updowns' = updowns \ {u}
    /\ upc' = [upc EXCEPT ![u] = "gone"]
    /\ UNCHANGED <<netVars, callVars, moveVars, isUp, subVars>>

(* The closer of a network that is closed is closed at once.               *)
SubscribeCloser(s) ==
    /\ spc[s] = "idle"
    /\ IF closed
       THEN spc' = [spc EXCEPT ![s] = "closed"] /\ UNCHANGED closeSubs
       ELSE /\ closeSubs' = closeSubs \cup {s}
            /\ spc' = [spc EXCEPT ![s] = "subscribed"]
    /\ UNCHANGED <<netVars, callVars, moveVars, upVars>>

UnregisterCloseSub(s) ==
    /\ spc[s] = "subscribed"
    /\ closeSubs' = closeSubs \ {s}
    /\ spc' = [spc EXCEPT ![s] = "gone"]
    /\ UNCHANGED <<netVars, callVars, moveVars, upVars>>

----------------------------------------------------------------------------
Next ==
    \/ \E o \in Calls : CheckUp(o) \/ Make(o) \/ Register(o)
    \/ \E o \in Accepts :
           \/ \E l \in Calls : Accept(o, l)
           \/ RunOnAccept(o) \/ RegisterTCPConnCallback(o)
    \/ \E o \in Objects : Unregister(o) \/ UserClose(o) \/ CloseHalf(o)
    \/ \E k \in Callers : \/ Up(k) \/ Down(k) \/ Close(k)
                          \/ CloseNext(k) \/ MoveNext(k) \/ DropNext(k)
    \/ \E u \in UpDowns : SubscribeUpDown(u) \/ SubscribeDown(u) \/ UnregisterUpDown(u)
    \/ \E s \in Subs : SubscribeCloser(s) \/ UnregisterCloseSub(s)

Spec == Init /\ [][Next]_vars

(* Up, Down and Close, and the calls, keep running.                        *)
Goroutines == Callers \cup Calls

Goroutine(g) ==
    \/ g \in Callers /\ (CloseNext(g) \/ MoveNext(g) \/ DropNext(g))
    \/ g \in Calls /\ (Make(g) \/ Register(g))

Fairness == \A g \in Goroutines : WF_vars(Goroutine(g))

----------------------------------------------------------------------------
(* Type invariant; a closed network is not up. *)
TypeOK ==
    /\ {up, closed} \subseteq BOOLEAN /\ (closed => ~up)
    /\ closers \subseteq Objects
    /\ pc \in [Objects -> {"idle", "checked", "made", "accepted", "callback", "untracked",
                           "rejected", "out", "half", "unreg", "done", "failed"}]
    /\ from \in [Accepts -> Objects]
    /\ open \in [Objects -> BOOLEAN]
    /\ kpc \in [Callers -> {"idle", "closing", "moving", "dropping"}]
    /\ snapshot \in [Callers -> SUBSET Objects]
    /\ movs \in [Callers -> SUBSET UpDowns] /\ moved \in [Callers -> BOOLEAN]
    /\ drops \in [Callers -> SUBSET Subs] /\ moves \in 0 .. MaxMoves
    /\ updowns \subseteq UpDowns /\ isUp \in [UpDowns -> BOOLEAN]
    /\ upc \in [UpDowns -> {"idle", "down", "subscribed", "gone"}]
    /\ closeSubs \subseteq Subs /\ spc \in [Subs -> {"idle", "subscribed", "closed", "gone"}]

Dying(o) == \E k \in Callers : o \in snapshot[k]

(* An object in its user's hands is closed, tracked, or about to be closed *)
(* by a Down or Close that is running.  The map of tracked objects keeps   *)
(* no closed one, but for connections that were closed with CloseRead or   *)
(* CloseWrite and not yet with Close.                                      *)
TrackedWhileOpen ==
    \A o \in Objects :
        /\ pc[o] = "out" /\ open[o] => o \in closers \/ Dying(o)
        /\ o \in closers => IF open[o] THEN pc[o] = "out" ELSE pc[o] = "half"

(* What was tracked when Down or Close ran is closed in the end.           *)
DownClosesTracked == \A o \in Objects : Dying(o) ~> ~open[o]

(* "All active connections/listeners/etc must be closed on down": what its *)
(* listeners accepted.                                                     *)
DownClosesAccepted ==
    \A o \in Accepts : pc[o] \in {"out", "untracked"} /\ open[o] => up \/ Dying(o)

----------------------------------------------------------------------------
(* TrackedWhileOpen holds for any number of calls, objects and callers.    *)

(* What is true of an object: besides TrackedWhileOpen, it is open before  *)
(* it is registered, and what a Down or Close has in hand was registered   *)
(* and is not again.                                                       *)
Tracked(o) ==
    /\ pc[o] = "out" /\ open[o] => o \in closers \/ Dying(o)
    /\ o \in closers => IF open[o] THEN pc[o] = "out" ELSE pc[o] = "half"
    /\ pc[o] = "half" => ~open[o]
    /\ pc[o] \in {"made", "accepted", "callback"} => open[o]
    /\ Dying(o) => pc[o] \in {"out", "half", "unreg", "done"} /\ o \notin closers

(* Up, Down and Close are done with their snapshot when they return, so    *)
(* that the next one overwrites nothing.                                   *)
SnapshotsDone == \A k \in Callers : kpc[k] # "closing" => snapshot[k] = {}

(* The inductive invariant. *)
IInv == TypeOK /\ SnapshotsDone /\ \A o \in Objects : Tracked(o)

PCs == {"idle", "checked", "made", "accepted", "callback", "untracked",
        "rejected", "out", "half", "unreg", "done", "failed"}

ObjectTypes ==
    /\ closers \subseteq Objects
    /\ pc \in [Objects -> PCs]
    /\ from \in [Accepts -> Objects]
    /\ open \in [Objects -> BOOLEAN]
    /\ kpc \in [Callers -> {"idle", "closing", "moving", "dropping"}]
    /\ snapshot \in [Callers -> SUBSET Objects]

(* The steps of a call, of an accept or of a user, by what they do to the  *)
(* object o.                                                               *)
ObjectStep(o) ==
    \/ CheckUp(o) \/ Make(o) \/ Register(o) \/ RunOnAccept(o) \/ RegisterTCPConnCallback(o)
    \/ Unregister(o) \/ UserClose(o) \/ CloseHalf(o) \/ \E l \in Calls : Accept(o, l)

(* Such a step leaves every other object alone. *)
LEMMA OneObject ==
    ASSUME ObjectTypes, NEW o \in Objects, ObjectStep(o)
    PROVE  /\ \E p \in PCs : pc' = [pc EXCEPT ![o] = p]
           /\ \E b \in BOOLEAN : open' = [open EXCEPT ![o] = b]
           /\ closers' \in {closers, closers \cup {o}, closers \ {o}}
           /\ UNCHANGED <<kpc, snapshot>>
<1>0. pc = [pc EXCEPT ![o] = pc[o]] /\ open = [open EXCEPT ![o] = open[o]]
    BY DEF ObjectTypes
<1>1. \E p \in PCs : pc' = [pc EXCEPT ![o] = p]
    BY DEF ObjectStep, CheckUp, Make, Register, RunOnAccept, RegisterTCPConnCallback, Unregister, UserClose, CloseHalf, Accept, PCs
<1>2. \E b \in BOOLEAN : open' = [open EXCEPT ![o] = b]
    <2>1. open[o] \in BOOLEAN
        BY DEF ObjectTypes
    <2>2. open' = open \/ open' = [open EXCEPT ![o] = TRUE] \/ open' = [open EXCEPT ![o] = FALSE]
        BY Zenon DEF ObjectStep, CheckUp, Make, Register, RunOnAccept, RegisterTCPConnCallback, Unregister, UserClose, CloseHalf, Accept
    <2> QED
        BY Zenon, <1>0, <2>1, <2>2
<1>3. closers' \in {closers, closers \cup {o}, closers \ {o}} /\ UNCHANGED <<kpc, snapshot>>
    BY Zenon DEF ObjectStep, CheckUp, Make, Register, RunOnAccept, RegisterTCPConnCallback, Unregister, UserClose, CloseHalf, Accept,
                 netVars, moveVars
<1> QED
    BY Zenon, <1>1, <1>2, <1>3

(* Every step of a call keeps what is known of its object. *)
LEMMA ObjectTracked ==
    ASSUME ObjectTypes, SnapshotsDone, \A q \in Objects : Tracked(q), NEW o \in Objects, ObjectStep(o)
    PROVE  SnapshotsDone' /\ \A q \in Objects : Tracked(q)'
<1>1. SnapshotsDone'
    BY Zenon, OneObject DEF SnapshotsDone
<1>2. ASSUME NEW q \in Objects, q # o PROVE Tracked(q)'
    <2>1. pc'[q] = pc[q] /\ open'[q] = open[q]
        BY <1>2, OneObject DEF ObjectTypes
    <2>2. (q \in closers' <=> q \in closers) /\ snapshot' = snapshot
        BY Zenon, <1>2, OneObject
    <2> QED
        BY Zenon, <2>1, <2>2 DEF Tracked, Dying
<1>3. Tracked(o)'
    <2>0. Dying(o)' <=> Dying(o)
        BY Zenon, OneObject DEF Dying
    <2> USE DEF ObjectTypes, Tracked
    <2>1. CASE CheckUp(o)
        BY <2>0, <2>1 DEF CheckUp, netVars
    <2>2. CASE Make(o)
        BY <2>0, <2>2 DEF Make, netVars
    <2>3. CASE Register(o)
        BY <2>0, <2>3 DEF Register
    <2>4. CASE RunOnAccept(o)
        BY <2>0, <2>4 DEF RunOnAccept, netVars
    <2>5. CASE RegisterTCPConnCallback(o)
        BY <2>0, <2>5 DEF RegisterTCPConnCallback
    <2>6. CASE Unregister(o)
        BY <2>0, <2>6 DEF Unregister
    <2>7. CASE UserClose(o)
        BY <2>0, <2>7 DEF UserClose, netVars
    <2>8. ASSUME NEW l \in Calls, Accept(o, l) PROVE Tracked(o)'
        BY <2>0, <2>8 DEF Accept, netVars
    <2>9. CASE CloseHalf(o)
        BY <2>0, <2>9 DEF CloseHalf, netVars
    <2> QED
        BY Zenon, <2>1, <2>2, <2>3, <2>4, <2>5, <2>6, <2>7, <2>8, <2>9 DEF ObjectStep
<1> QED
    BY Zenon, <1>1, <1>2, <1>3

(* Up, Down and Close. *)
LEMMA CallerTracked ==
    ASSUME ObjectTypes, SnapshotsDone, \A q \in Objects : Tracked(q), NEW k \in Callers,
           Up(k) \/ Down(k) \/ Close(k) \/ CloseNext(k) \/ MoveNext(k) \/ DropNext(k)
    PROVE  SnapshotsDone' /\ \A q \in Objects : Tracked(q)'
<1>1. ASSUME \/ UNCHANGED kpc
             \/ \E x \in {"idle", "moving", "dropping"} : kpc[k] # "closing" /\ kpc' = [kpc EXCEPT ![k] = x],
             UNCHANGED <<closers, pc, open, snapshot>>
      PROVE  SnapshotsDone' /\ \A q \in Objects : Tracked(q)'
    <2>1. \A j \in Callers : kpc'[j] # "closing" => kpc[j] # "closing"
        BY <1>1 DEF ObjectTypes
    <2> QED
        BY Zenon, <1>1, <2>1 DEF SnapshotsDone, Tracked, Dying
<1>2. ASSUME kpc[k] = "idle", closers' = {}, kpc' = [kpc EXCEPT ![k] = "closing"],
             snapshot' = [snapshot EXCEPT ![k] = closers], UNCHANGED <<pc, open>>
      PROVE  SnapshotsDone' /\ \A q \in Objects : Tracked(q)'
    <2>1. snapshot[k] = {}
        BY Zenon, <1>2 DEF SnapshotsDone
    <2>2. /\ snapshot'[k] = closers
          /\ \A j \in Callers : j # k => snapshot'[j] = snapshot[j] /\ kpc'[j] = kpc[j]
          /\ kpc'[k] = "closing"
        BY <1>2 DEF ObjectTypes
    <2>3. SnapshotsDone'
        BY Zenon, <2>2 DEF SnapshotsDone
    <2>4. \A q \in Objects : Dying(q)' <=> Dying(q) \/ q \in closers
        BY Zenon, <2>1, <2>2 DEF Dying
    <2> QED
        BY <1>2, <2>3, <2>4 DEF Tracked
<1>3. CASE Up(k)
    BY Zenon, <1>1, <1>3 DEF Up, Begin, callVars
<1>4. CASE Down(k)
    BY Zenon, <1>1, <1>2, <1>4 DEF Down, Begin, callVars
<1>5. CASE Close(k)
    BY Zenon, <1>1, <1>2, <1>5 DEF Close, Begin, callVars, netVars
<1>6. CASE CloseNext(k)
    <2>1. CASE snapshot[k] = {}
        <3>1. kpc' = [kpc EXCEPT ![k] = "moving"] /\ UNCHANGED <<closers, pc, open, snapshot>>
            BY Zenon, <1>6, <2>1 DEF CloseNext, netVars
        <3>2. \A j \in Callers : j # k => kpc'[j] = kpc[j]
            BY <3>1 DEF ObjectTypes
        <3> QED
            BY Zenon, <2>1, <3>1, <3>2 DEF SnapshotsDone, Tracked, Dying
    <2>2. ASSUME NEW o \in snapshot[k], open' = [open EXCEPT ![o] = FALSE],
                 snapshot' = [snapshot EXCEPT ![k] = @ \ {o}], UNCHANGED <<kpc, closers, pc>>
          PROVE  SnapshotsDone' /\ \A q \in Objects : Tracked(q)'
        <3>1. /\ snapshot'[k] = snapshot[k] \ {o}
              /\ \A j \in Callers : j # k => snapshot'[j] = snapshot[j]
              /\ o \in Objects /\ ~open'[o]
              /\ \A q \in Objects : q # o => open'[q] = open[q]
            BY <2>2 DEF ObjectTypes
        <3>2. SnapshotsDone'
            BY Zenon, <2>2, <3>1 DEF SnapshotsDone
        <3>3. /\ Dying(o) /\ (Dying(o)' => Dying(o))
              /\ \A q \in Objects : q # o => (Dying(q)' <=> Dying(q))
            BY Zenon, <3>1 DEF Dying
        <3>4. Tracked(o)'
            <4>1. pc[o] \in {"out", "half", "unreg", "done"} /\ o \notin closers
                BY Zenon, <3>1, <3>3 DEF Tracked
            <4> QED
                BY <2>2, <3>1, <4>1 DEF Tracked
        <3>5. ASSUME NEW q \in Objects, q # o PROVE Tracked(q)'
            BY Zenon, <2>2, <3>1, <3>3, <3>5 DEF Tracked
        <3> QED
            BY Zenon, <3>2, <3>4, <3>5
    <2> QED
        BY Zenon, <1>6, <2>1, <2>2 DEF CloseNext, netVars
<1>7. CASE MoveNext(k)
    BY Zenon, <1>1, <1>7 DEF MoveNext, netVars, callVars
<1>8. CASE DropNext(k)
    BY Zenon, <1>1, <1>8 DEF DropNext, netVars, callVars
<1> QED
    BY Zenon, <1>3, <1>4, <1>5, <1>6, <1>7, <1>8

(* Types: the objects and the snapshots, ... *)
LEMMA ObjectTypesKept ==
    ASSUME ObjectTypes, [Next]_vars
    PROVE  ObjectTypes'
<1>u. ASSUME UNCHANGED <<closers, pc, from, open, kpc, snapshot>> PROVE ObjectTypes'
    BY Zenon, <1>u DEF ObjectTypes
<1>1. ASSUME NEW o \in Objects, ObjectStep(o), from' \in [Accepts -> Objects] PROVE ObjectTypes'
    <2>1. pc' \in [Objects -> PCs] /\ open' \in [Objects -> BOOLEAN] /\ closers' \subseteq Objects
        BY <1>1, OneObject DEF ObjectTypes
    <2> QED
        BY Zenon, <1>1, <2>1, OneObject DEF ObjectTypes
<1>2. ASSUME NEW k \in Callers, Up(k) \/ Down(k) \/ Close(k) PROVE ObjectTypes'
    BY SMTT(30), <1>2 DEF Up, Down, Close, Begin, callVars, netVars, ObjectTypes
<1>3. ASSUME NEW k \in Callers, CloseNext(k) PROVE ObjectTypes'
    <2>1. UNCHANGED <<closers, pc, from>>
        BY Zenon, <1>3 DEF CloseNext, netVars
    <2>2. CASE snapshot[k] = {}
        <3>1. kpc' = [kpc EXCEPT ![k] = "moving"] /\ UNCHANGED <<open, snapshot>>
            BY Zenon, <1>3, <2>2 DEF CloseNext
        <3> QED
            BY Zenon, <2>1, <3>1 DEF ObjectTypes
    <2>3. CASE snapshot[k] # {}
        <3>1. PICK o \in snapshot[k] :
                  /\ open' = [open EXCEPT ![o] = FALSE]
                  /\ snapshot' = [snapshot EXCEPT ![k] = @ \ {o}]
                  /\ UNCHANGED kpc
            BY Zenon, <1>3, <2>3 DEF CloseNext
        <3>2. snapshot[k] \ {o} \in SUBSET Objects
            BY Zenon DEF ObjectTypes
        <3>3. snapshot' \in [Callers -> SUBSET Objects]
            BY Zenon, <3>1, <3>2 DEF ObjectTypes
        <3>4. open' \in [Objects -> BOOLEAN]
            BY Zenon, <3>1 DEF ObjectTypes
        <3> QED
            BY Zenon, <2>1, <3>1, <3>3, <3>4 DEF ObjectTypes
    <2> QED
        BY Zenon, <2>2, <2>3
<1>4. ASSUME NEW k \in Callers, MoveNext(k) \/ DropNext(k) PROVE ObjectTypes'
    BY SMTT(30), <1>4 DEF MoveNext, DropNext, netVars, callVars, ObjectTypes
<1>5. ASSUME NEW u, SubscribeUpDown(u) \/ SubscribeDown(u) \/ UnregisterUpDown(u) PROVE ObjectTypes'
    BY Zenon, <1>5, <1>u DEF SubscribeUpDown, SubscribeDown, UnregisterUpDown, netVars, callVars, moveVars
<1>6. ASSUME NEW s, SubscribeCloser(s) \/ UnregisterCloseSub(s) PROVE ObjectTypes'
    BY Zenon, <1>6, <1>u DEF SubscribeCloser, UnregisterCloseSub, netVars, callVars, moveVars
<1>7. CASE UNCHANGED vars
    BY Zenon, <1>7, <1>u DEF vars, netVars, callVars, moveVars
<1>8. ASSUME NEW o \in Objects, \/ CheckUp(o) \/ Make(o) \/ Register(o) \/ RunOnAccept(o)
                                \/ RegisterTCPConnCallback(o) \/ Unregister(o) \/ UserClose(o) \/ CloseHalf(o)
      PROVE  ObjectTypes'
    <2>1. from' = from
        BY Zenon, <1>8 DEF CheckUp, Make, Register, RunOnAccept, RegisterTCPConnCallback, Unregister, UserClose, CloseHalf
    <2> QED
        BY Zenon, <1>1, <1>8, <2>1 DEF ObjectStep, ObjectTypes
<1>9. ASSUME NEW o \in Accepts, NEW l \in Calls, Accept(o, l) PROVE ObjectTypes'
    <2>1. from' \in [Accepts -> Objects]
        BY <1>9 DEF Accept, ObjectTypes, Objects
    <2> QED
        BY Zenon, <1>1, <1>9, <2>1 DEF ObjectStep, Objects
<1> QED
    BY Zenon, <1>2, <1>3, <1>4, <1>5, <1>6, <1>7, <1>8, <1>9 DEF Next, Objects

(* ... the state of the network, the callers and the subscribers.          *)
OtherTypes ==
    /\ {up, closed} \subseteq BOOLEAN /\ (closed => ~up)
    /\ movs \in [Callers -> SUBSET UpDowns] /\ moved \in [Callers -> BOOLEAN]
    /\ drops \in [Callers -> SUBSET Subs] /\ moves \in 0 .. MaxMoves
    /\ updowns \subseteq UpDowns /\ isUp \in [UpDowns -> BOOLEAN]
    /\ upc \in [UpDowns -> {"idle", "down", "subscribed", "gone"}]
    /\ closeSubs \subseteq Subs /\ spc \in [Subs -> {"idle", "subscribed", "closed", "gone"}]

(* Every step keeps the other types. *)
LEMMA OtherTypesKept ==
    ASSUME MaxMoves \in Nat, OtherTypes, [Next]_vars
    PROVE  OtherTypes'
<1>u. ASSUME UNCHANGED <<up, closed, movs, moved, drops, moves, upVars, subVars>> PROVE OtherTypes'
    BY Zenon, <1>u DEF upVars, subVars, OtherTypes
<1>1. ASSUME NEW o, \/ CheckUp(o) \/ Make(o) \/ Register(o) \/ RunOnAccept(o)
                     \/ RegisterTCPConnCallback(o) \/ Unregister(o) \/ UserClose(o) \/ CloseHalf(o)
      PROVE  OtherTypes'
    BY Zenon, <1>1, <1>u DEF CheckUp, Make, Register, RunOnAccept, RegisterTCPConnCallback, Unregister, UserClose, CloseHalf,
                             netVars, moveVars
<1>2. ASSUME NEW o, NEW l, Accept(o, l) PROVE OtherTypes'
    BY Zenon, <1>2, <1>u DEF Accept, netVars, moveVars
<1>3. ASSUME NEW k \in Callers, Up(k) \/ Down(k) \/ Close(k) PROVE OtherTypes'
    <2>1. moves' \in 0 .. MaxMoves
        BY <1>3 DEF Up, Down, Close, Begin, OtherTypes
    <2>2. {up', closed'} \subseteq BOOLEAN /\ (closed' => ~up')
        <3>1. CASE Up(k)
            BY Zenon, <3>1 DEF Up, OtherTypes
        <3>2. CASE Down(k)
            BY Zenon, <3>2 DEF Down, OtherTypes
        <3>3. CASE Close(k)
            BY Zenon, <3>3 DEF Close, OtherTypes, netVars
        <3> QED
            BY Zenon, <1>3, <3>1, <3>2, <3>3
    <2>3. /\ movs' \in [Callers -> SUBSET UpDowns] /\ moved' \in [Callers -> BOOLEAN]
          /\ drops' \in [Callers -> SUBSET Subs] /\ closeSubs' \subseteq Subs
        BY ZenonT(60), <1>3 DEF Up, Down, Close, OtherTypes, subVars
    <2> QED
        BY Zenon, <1>3, <2>1, <2>2, <2>3 DEF Up, Down, Close, OtherTypes, upVars, subVars
<1>4. ASSUME NEW k, CloseNext(k) PROVE OtherTypes'
    BY Zenon, <1>4, <1>u DEF CloseNext, netVars
<1>5. ASSUME NEW k \in Callers, MoveNext(k) PROVE OtherTypes'
    <2>1. movs' \in [Callers -> SUBSET UpDowns] /\ isUp' \in [UpDowns -> BOOLEAN]
        BY <1>5 DEF MoveNext, OtherTypes
    <2> QED
        BY Zenon, <1>5, <2>1 DEF MoveNext, OtherTypes, netVars, subVars
<1>6. ASSUME NEW k \in Callers, DropNext(k) PROVE OtherTypes'
    <2>1. drops' \in [Callers -> SUBSET Subs] /\ spc' \in [Subs -> {"idle", "subscribed", "closed", "gone"}]
        BY <1>6 DEF DropNext, OtherTypes
    <2> QED
        BY Zenon, <1>6, <2>1 DEF DropNext, OtherTypes, netVars, upVars
<1>7. ASSUME NEW u \in UpDowns, SubscribeUpDown(u) \/ SubscribeDown(u) \/ UnregisterUpDown(u) PROVE OtherTypes'
    <2>1. /\ updowns' \subseteq UpDowns /\ isUp' \in [UpDowns -> BOOLEAN]
          /\ upc' \in [UpDowns -> {"idle", "down", "subscribed", "gone"}]
        BY <1>7 DEF SubscribeUpDown, SubscribeDown, UnregisterUpDown, OtherTypes
    <2>2. UNCHANGED <<netVars, moveVars, subVars>>
        BY Zenon, <1>7 DEF SubscribeUpDown, SubscribeDown, UnregisterUpDown
    <2> QED
        BY Zenon, <2>1, <2>2 DEF OtherTypes, netVars, moveVars, subVars
<1>8. ASSUME NEW s \in Subs, SubscribeCloser(s) \/ UnregisterCloseSub(s) PROVE OtherTypes'
    <2>1. closeSubs' \subseteq Subs /\ spc' \in [Subs -> {"idle", "subscribed", "closed", "gone"}]
        BY <1>8 DEF SubscribeCloser, UnregisterCloseSub, OtherTypes
    <2>2. UNCHANGED <<netVars, moveVars, upVars>>
        BY Zenon, <1>8 DEF SubscribeCloser, UnregisterCloseSub
    <2> QED
        BY Zenon, <2>1, <2>2 DEF OtherTypes, netVars, moveVars, upVars
<1>9. CASE UNCHANGED vars
    BY Zenon, <1>9, <1>u DEF vars, netVars, moveVars
<1> QED
    BY Zenon, <1>1, <1>2, <1>3, <1>4, <1>5, <1>6, <1>7, <1>8, <1>9 DEF Next

(* The two groups are the type invariant. *)
LEMMA Typed == TypeOK <=> ObjectTypes /\ OtherTypes
    BY Zenon DEF TypeOK, ObjectTypes, OtherTypes, PCs

(* A new network satisfies the invariant, ... *)
LEMMA InitIInv == MaxMoves \in Nat /\ Init => IInv
<1> SUFFICES ASSUME MaxMoves \in Nat, Init PROVE IInv
    OBVIOUS
<1>1. ObjectTypes
    BY DEF Init, ObjectTypes, PCs, Objects
<1>2. OtherTypes
    <2>1. /\ movs \in [Callers -> SUBSET UpDowns] /\ moved \in [Callers -> BOOLEAN]
          /\ drops \in [Callers -> SUBSET Subs] /\ moves \in 0 .. MaxMoves
          /\ updowns \subseteq UpDowns /\ isUp \in [UpDowns -> BOOLEAN]
          /\ upc \in [UpDowns -> {"idle", "down", "subscribed", "gone"}]
          /\ closeSubs \subseteq Subs /\ spc \in [Subs -> {"idle", "subscribed", "closed", "gone"}]
        BY DEF Init
    <2> QED
        BY Zenon, <2>1 DEF Init, OtherTypes
<1>3. SnapshotsDone
    BY DEF Init, SnapshotsDone
<1>4. ASSUME NEW o \in Objects PROVE Tracked(o)
    BY DEF Init, Tracked, Dying
<1> QED
    BY Zenon, <1>1, <1>2, <1>3, <1>4, Typed DEF IInv

(* ... and every step keeps it. *)
LEMMA NextIInv == MaxMoves \in Nat /\ IInv /\ [Next]_vars => IInv'
<1> SUFFICES ASSUME MaxMoves \in Nat, IInv, [Next]_vars PROVE IInv'
    OBVIOUS
<1> DEFINE Goal == SnapshotsDone' /\ \A o \in Objects : Tracked(o)'
<1>0. ObjectTypes /\ OtherTypes
    BY Zenon, Typed DEF IInv
<1>1. ObjectTypes' /\ OtherTypes'
    BY Zenon, <1>0, ObjectTypesKept, OtherTypesKept
<1>2. TypeOK'
    BY Zenon, <1>1 DEF TypeOK, ObjectTypes, OtherTypes, PCs
<1>3. ASSUME NEW o \in Objects, ObjectStep(o) PROVE Goal
    BY Zenon, <1>0, <1>3, ObjectTracked DEF IInv
<1>4. ASSUME NEW k \in Callers, Up(k) \/ Down(k) \/ Close(k) \/ CloseNext(k) \/ MoveNext(k) \/ DropNext(k) PROVE Goal
    BY Zenon, <1>0, <1>4, CallerTracked DEF IInv
<1>5. ASSUME UNCHANGED <<netVars, callVars, moveVars>> PROVE Goal
    BY Zenon, <1>5 DEF IInv, SnapshotsDone, Tracked, Dying, netVars, callVars, moveVars
<1>6. ASSUME NEW u, SubscribeUpDown(u) \/ SubscribeDown(u) \/ UnregisterUpDown(u) PROVE Goal
    BY Zenon, <1>5, <1>6 DEF SubscribeUpDown, SubscribeDown, UnregisterUpDown
<1>7. ASSUME NEW s, SubscribeCloser(s) \/ UnregisterCloseSub(s) PROVE Goal
    BY Zenon, <1>5, <1>7 DEF SubscribeCloser, UnregisterCloseSub
<1>8. ASSUME UNCHANGED vars PROVE Goal
    BY Zenon, <1>5, <1>8 DEF vars
<1> HIDE DEF Goal
<1>9. Goal
    BY Zenon, <1>3, <1>4, <1>6, <1>7, <1>8 DEF Next, ObjectStep, Objects
<1> QED
    BY Zenon, <1>2, <1>9 DEF Goal, IInv

(* What the invariant says to a user. *)
LEMMA Implied == IInv => TypeOK /\ TrackedWhileOpen
    BY Zenon DEF IInv, Tracked, TrackedWhileOpen

(* The invariant holds in every reachable state. *)
THEOREM Invariance == ASSUME MaxMoves \in Nat PROVE Spec => []IInv
<1>1. Init => IInv
    BY InitIInv
<1>2. IInv /\ [Next]_vars => IInv'
    BY NextIInv
<1> QED
    BY <1>1, <1>2, PTL DEF Spec

(* An open object in its user's hands is tracked or about to be closed,    *)
(* and ln.closers holds open objects and those that CloseRead or           *)
(* CloseWrite closed.                                                      *)
THEOREM OpenIsTracked == ASSUME MaxMoves \in Nat PROVE Spec => []TrackedWhileOpen
<1>1. IInv => TrackedWhileOpen
    BY Implied
<1> QED
    BY <1>1, Invariance, PTL
============================================================================

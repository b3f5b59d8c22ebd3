------------------------------ MODULE Splitter ------------------------------
(***************************************************************************)
(* tun.Splitter (tun/splitter.go): one backend Tun behind several          *)
(* frontends.  Backends are replaced while a goroutine reads the old one   *)
(* and may be handing its packets to a frontend nobody reads; Get replaces *)
(* frontends.  Of a frontend only whether it is closed matters here:       *)
(* SplitFrontend has its states.  Of a backend's Tun, external, so do its  *)
(* moves down, up and away, the events it sends, and that its calls may    *)
(* fail while it is open, with an error that ends its use or with another. *)
(* The offsets, batch size and MTU that recalculateLocked copies are left  *)
(* out.                                                                    *)
(***************************************************************************)
EXTENDS Integers, Sequences, FiniteSets

CONSTANTS
    Backends, Frontends, Indexes,      \* 1 is the index packets go to without a router
    Callers,           \* goroutines that call Attach, Detach, Get and Close
    Nobody,            \* nil
    MaxMoves           \* bound on the changes of the Tuns

VARIABLES
    closed, backend,
    table, index, open,        \* frontends; the index of each, and those not closed
    up, bclosed,       \* splitterBackend.up, closed (and done)
    rpc, todo, wpc,    \* readBackend, the frontends it has packets for, watchBackendEvents
    tunUp, tunClosed, events, moves,
    writer,            \* writePump: its step, and the backend it has chosen or Nobody
    pc, mine, toClose  \* callers: their step, the backend to start, what they have to close

tuns == <<tunUp, tunClosed, events, moves>>
fronts == <<table, index, open>>
callers == <<pc, mine, toClose>>
vars == <<closed, backend, fronts, up, bclosed, rpc, todo, wpc, tuns, writer, callers>>

Init ==
    /\ closed = FALSE /\ backend = Nobody
    /\ table = [i \in Indexes |-> Nobody] /\ index = [f \in Frontends |-> 0] /\ open = {}
    /\ up = [b \in Backends |-> FALSE] /\ bclosed = [b \in Backends |-> FALSE]
    /\ rpc = [b \in Backends |-> "none"] /\ wpc = [b \in Backends |-> "none"]
    /\ todo = [b \in Backends |-> <<>>]
    /\ tunUp = [b \in Backends |-> TRUE] /\ tunClosed = [b \in Backends |-> FALSE]
    /\ events = [b \in Backends |-> <<>>] /\ moves = 0
    /\ writer = <<"select", Nobody>>
    /\ pc = [c \in Callers |-> "idle"] /\ mine = [c \in Callers |-> Nobody]
    /\ toClose = [c \in Callers |-> {}]

----------------------------------------------------------------------------
(* Attach, Detach, Get and Close: each up to its unlock, then what it      *)
(* closes, then startBackend.                                              *)

\* closeBackendLocked of what is attached, if anything is.
Release(b) ==
    /\ bclosed' = [x \in Backends |-> bclosed[x] \/ x = b]
    /\ up' = [x \in Backends |-> up[x] /\ x # b]

Attach(c, b) ==
    /\ pc[c] = "idle" /\ ~closed
    /\ rpc[b] = "none" /\ \A d \in Callers : mine[d] # b
    /\ backend' = b
    /\ bclosed' = [x \in Backends |-> bclosed[x] \/ x = backend]
    /\ up' = [x \in Backends |-> x = b \/ (up[x] /\ x # backend)]
    /\ mine' = [mine EXCEPT ![c] = b]
    /\ toClose' = [toClose EXCEPT ![c] = {backend} \ {Nobody}]
    /\ pc' = [pc EXCEPT ![c] = "closing"]
    /\ UNCHANGED <<closed, fronts, rpc, todo, wpc, tuns, writer>>

Detach(c) ==
    /\ pc[c] = "idle" /\ ~closed /\ backend # Nobody
    /\ backend' = Nobody
    /\ Release(backend)
    /\ toClose' = [toClose EXCEPT ![c] = {backend}]
    /\ pc' = [pc EXCEPT ![c] = "closing"]
    /\ UNCHANGED <<closed, fronts, rpc, todo, wpc, tuns, writer, mine>>

Get(c, i, f) ==
    /\ pc[c] = "idle" /\ index[f] = 0
    /\ index' = [index EXCEPT ![f] = i]
    /\ IF closed
       THEN UNCHANGED <<table, open, toClose, pc>>
       ELSE /\ table' = [table EXCEPT ![i] = f]
            /\ open' = open \cup {f}
            /\ toClose' = [toClose EXCEPT ![c] = {table[i]} \ {Nobody}]
            /\ pc' = [pc EXCEPT ![c] = "closing"]
    /\ UNCHANGED <<closed, backend, up, bclosed, rpc, todo, wpc, tuns, writer, mine>>

\* A frontend closed by its user stays in the table.
FrontendClose(f) ==
    /\ f \in open
    /\ open' = open \ {f}
    /\ UNCHANGED <<closed, backend, table, index, up, bclosed, rpc, todo, wpc, tuns,
                   writer, callers>>

Close(c) ==
    /\ pc[c] = "idle" /\ ~closed
    /\ closed' = TRUE /\ backend' = Nobody
    /\ Release(backend)
    /\ table' = [i \in Indexes |-> Nobody]
    /\ toClose' = [toClose EXCEPT ![c] = ({backend} \cup {table[i] : i \in Indexes}) \ {Nobody}]
    /\ pc' = [pc EXCEPT ![c] = "shutting"]
    /\ UNCHANGED <<index, open, rpc, todo, wpc, tuns, writer, mine>>

CloseOne(c) ==
    /\ \E x \in toClose[c] :
          /\ toClose' = [toClose EXCEPT ![c] = @ \ {x}]
          /\ open' = open \ {x}
          /\ tunClosed' = [b \in Backends |-> tunClosed[b] \/ b = x]
    /\ UNCHANGED <<closed, backend, table, index, up, bclosed, rpc, todo, wpc,
                   tunUp, events, moves, writer, pc, mine>>

\* detachBackend.
DetachBackend(b) ==
    IF backend = b THEN backend' = Nobody /\ Release(b)
    ELSE UNCHANGED <<backend, up, bclosed>>

CloseTun(b) == tunClosed' = [tunClosed EXCEPT ![b] = TRUE] /\ UNCHANGED <<tunUp, events, moves>>

\* startBackend, or either goroutine is refused.
Start(c) ==
    LET b == mine[c]
    IN  /\ pc[c] = "closing" /\ toClose[c] = {} /\ b # Nobody
        /\ mine' = [mine EXCEPT ![c] = Nobody]
        /\ \/ /\ rpc' = [rpc EXCEPT ![b] = "wait"] /\ wpc' = [wpc EXCEPT ![b] = "watch"]
              /\ UNCHANGED <<backend, up, bclosed, toClose>>
           \/ \E reader \in {"wait", "done"} :
              /\ rpc' = [rpc EXCEPT ![b] = reader] /\ wpc' = [wpc EXCEPT ![b] = "done"]
              /\ DetachBackend(b)
              /\ toClose' = [toClose EXCEPT ![c] = IF backend = b THEN {b} ELSE {}]
        /\ UNCHANGED <<closed, fronts, todo, tuns, writer, pc>>

\* Close waits for writePump and the readers.
Returned(c) ==
    /\ toClose[c] = {} /\ mine[c] = Nobody
    /\ \/ pc[c] = "closing" /\ pc' = [pc EXCEPT ![c] = "idle"]
       \/ /\ pc[c] = "shutting"
          /\ writer[1] = "done" /\ \A b \in Backends : rpc[b] \in {"none", "done"}
          /\ pc' = [pc EXCEPT ![c] = "closed"]
    /\ UNCHANGED <<closed, backend, fronts, up, bclosed, rpc, todo, wpc, tuns, writer, mine, toClose>>

----------------------------------------------------------------------------
(* readBackend. *)

side == <<closed, fronts, wpc, tuns, writer, callers>>

ReaderWaits(b) ==
    /\ rpc[b] = "wait" /\ (up[b] \/ bclosed[b])
    /\ rpc' = [rpc EXCEPT ![b] = IF bclosed[b] THEN "done" ELSE "read"]
    /\ UNCHANGED <<backend, up, bclosed, todo, side>>

\* Read returns packets.
ReaderGets(b) ==
    /\ rpc[b] = "read" /\ tunUp[b] /\ ~tunClosed[b]
    /\ rpc' = [rpc EXCEPT ![b] = "route"]
    /\ UNCHANGED <<backend, up, bclosed, todo, side>>

\* Read of a Tun that is closed or down: ErrDetachedTunDown, or an error that
\* ends the Tun.
ReaderFails(b) ==
    /\ rpc[b] = "read" /\ (tunClosed[b] \/ ~tunUp[b])
    /\ rpc' = [rpc EXCEPT ![b] = IF tunClosed[b] THEN "detach" ELSE "down"]
    /\ UNCHANGED <<backend, up, bclosed, todo, side>>

\* Read of an open Tun fails: IsTunTermError of the error ends its use, and any
\* other, or a packet of a wrong size, only this Read.
ReaderBreaks(b) ==
    /\ rpc[b] = "read" /\ ~tunClosed[b]
    /\ \E next \in {"detach", "wait"} : rpc' = [rpc EXCEPT ![b] = next]
    /\ UNCHANGED <<backend, up, bclosed, todo, side>>

\* setUp(false), or detachBackend(n, true) up to its unlock.
ReaderReacts(b) ==
    /\ \/ /\ rpc[b] = "down" /\ rpc' = [rpc EXCEPT ![b] = "wait"]
          /\ up' = [up EXCEPT ![b] = FALSE] /\ UNCHANGED <<backend, bclosed>>
       \/ /\ rpc[b] = "detach" /\ DetachBackend(b)
          /\ rpc' = [rpc EXCEPT ![b] = IF backend = b THEN "close" ELSE "done"]
    /\ UNCHANGED <<todo, side>>

ReaderCloses(b) ==
    /\ rpc[b] = "close"
    /\ CloseTun(b)
    /\ rpc' = [rpc EXCEPT ![b] = "done"]
    /\ UNCHANGED <<closed, backend, fronts, up, bclosed, todo, wpc, writer, callers>>

\* routeBatch and backendActive: two packets of a batch go wherever the router
\* says, or a batch goes to one frontend, to the first without a router.
ReaderRoutes(b) ==
    /\ rpc[b] = "route"
    /\ IF closed \/ backend # b
       THEN rpc' = [rpc EXCEPT ![b] = "wait"] /\ UNCHANGED todo
       ELSE /\ rpc' = [rpc EXCEPT ![b] = "next"]
            /\ \E i, j \in Indexes : todo' = [todo EXCEPT ![b] = IF i = j THEN <<i>> ELSE <<i, j>>]
    /\ UNCHANGED <<backend, up, bclosed, side>>

\* On to the next packet of the batch, or the next batch.
Handed(b) ==
    /\ todo' = [todo EXCEPT ![b] = Tail(@)]
    /\ rpc' = [rpc EXCEPT ![b] = IF Len(todo[b]) = 1 THEN "wait" ELSE "next"]

\* frontendForRoute.
ReaderNext(b) ==
    /\ rpc[b] = "next"
    /\ LET f == table[Head(todo[b])]
       IN  IF closed \/ f = Nobody \/ f \notin open
           THEN Handed(b)
           ELSE todo' = [todo EXCEPT ![b] = <<f>> \o Tail(@)] /\ rpc' = [rpc EXCEPT ![b] = "hand"]
    /\ UNCHANGED <<backend, up, bclosed, side>>

\* Mutant: deliver does not look at the backend's done.
ReaderFreedByFrontend(b) ==
    /\ rpc[b] = "hand" /\ (closed \/ Head(todo[b]) \notin open)
    /\ Handed(b)
    /\ UNCHANGED <<backend, up, bclosed, side>>

\* deliver: the frontend or the backend is done.
ReaderFreed(b) ==
    /\ rpc[b] = "hand" /\ (bclosed[b] \/ closed \/ Head(todo[b]) \notin open)
    /\ Handed(b)
    /\ UNCHANGED <<backend, up, bclosed, side>>

\* deliver: somebody reads the frontend.
ReaderHands(b) ==
    /\ rpc[b] = "hand" /\ Head(todo[b]) \in open
    /\ Handed(b)
    /\ UNCHANGED <<backend, up, bclosed, side>>

Reader(b) ==
    \/ ReaderWaits(b) \/ ReaderFails(b) \/ ReaderReacts(b) \/ ReaderCloses(b)
    \/ ReaderRoutes(b) \/ ReaderNext(b) \/ ReaderFreed(b)

----------------------------------------------------------------------------
(* watchBackendEvents, writePump and the Tuns. *)

WatcherSees(b) ==
    /\ wpc[b] = "watch" /\ events[b] # <<>>
    /\ events' = [events EXCEPT ![b] = Tail(@)]
    /\ up' = [up EXCEPT ![b] = Head(events[b]) = "up"]
    /\ UNCHANGED <<closed, backend, fronts, bclosed, rpc, todo, wpc, tunUp, tunClosed, moves,
                   writer, callers>>

WatcherEnds(b) ==
    /\ wpc[b] = "watch" /\ events[b] = <<>> /\ tunClosed[b]
    /\ wpc' = [wpc EXCEPT ![b] = "done"]
    /\ DetachBackend(b)
    /\ UNCHANGED <<closed, fronts, rpc, todo, tuns, writer, callers>>

\* writePump takes a request: backendForWrite.
PumpChooses ==
    /\ writer[1] = "select" /\ ~closed /\ backend # Nobody /\ up[backend] /\ ~bclosed[backend]
    /\ writer' = <<"write", backend>>
    /\ UNCHANGED <<closed, backend, fronts, up, bclosed, rpc, todo, wpc, tuns, callers>>

\* Write of an open backend: it is done, or the backend is down, or it fails with
\* an error that ends this Write alone.
PumpWrites ==
    LET b == writer[2]
    IN  /\ writer[1] = "write" /\ ~tunClosed[b]
        /\ writer' = <<"select", Nobody>>
        /\ up' = [up EXCEPT ![b] = @ /\ tunUp[b]]
        /\ UNCHANGED <<closed, backend, fronts, bclosed, rpc, todo, wpc, tuns, callers>>

\* Write fails with an error that ends the Tun, which may be open:
\* detachBackend(n, true), up to the unlock and after it.
PumpFails ==
    LET b == writer[2]
    IN  /\ writer[1] = "write"
        /\ DetachBackend(b)
        /\ writer' = IF backend = b THEN <<"close", b>> ELSE <<"select", Nobody>>
        /\ UNCHANGED <<closed, fronts, rpc, todo, wpc, tuns, callers>>

PumpCloses ==
    /\ writer[1] = "close"
    /\ CloseTun(writer[2])
    /\ writer' = <<"select", Nobody>>
    /\ UNCHANGED <<closed, backend, fronts, up, bclosed, rpc, todo, wpc, callers>>

PumpEnds ==
    /\ writer[1] = "select" /\ closed
    /\ writer' = <<"done", Nobody>>
    /\ UNCHANGED <<closed, backend, fronts, up, bclosed, rpc, todo, wpc, tuns, callers>>

TunMoves(b) ==
    /\ moves < MaxMoves /\ ~tunClosed[b] /\ wpc[b] # "none"
    /\ moves' = moves + 1
    /\ \/ /\ tunUp' = [tunUp EXCEPT ![b] = ~@]
          /\ events' = [events EXCEPT ![b] = Append(@, IF tunUp[b] THEN "down" ELSE "up")]
          /\ UNCHANGED tunClosed
       \/ tunClosed' = [tunClosed EXCEPT ![b] = TRUE] /\ UNCHANGED <<tunUp, events>>
    /\ UNCHANGED <<closed, backend, fronts, up, bclosed, rpc, todo, wpc, writer, callers>>

Next ==
    \/ \E c \in Callers :
          \/ \E b \in Backends : Attach(c, b)
          \/ \E i \in Indexes, f \in Frontends : Get(c, i, f)
          \/ Detach(c) \/ Close(c) \/ CloseOne(c) \/ Start(c) \/ Returned(c)
    \/ \E f \in Frontends : FrontendClose(f)
    \/ \E b \in Backends :
          \/ Reader(b) \/ ReaderGets(b) \/ ReaderBreaks(b) \/ ReaderHands(b)
          \/ WatcherSees(b) \/ WatcherEnds(b) \/ TunMoves(b)
    \/ PumpChooses \/ PumpWrites \/ PumpFails \/ PumpCloses \/ PumpEnds

Spec == Init /\ [][Next]_vars

(* Goroutines go on; packets and readers of the frontends need not come,   *)
(* and a Read or a Write of a Tun that is open may take as long as it      *)
(* likes.                                                                  *)
Goroutines == Callers \cup Backends \cup {Nobody}    \* Nobody stands for writePump

Goroutine(g) ==
    \/ g \in Callers /\ (CloseOne(g) \/ Start(g) \/ Returned(g))
    \/ g \in Backends /\ Reader(g)
    \/ /\ g = Nobody
       /\ (PumpFails /\ tunClosed[writer[2]]) \/ PumpCloses \/ PumpEnds

Fairness == \A g \in Goroutines : WF_vars(Goroutine(g))

----------------------------------------------------------------------------
(* What leaves the Splitter is closed: a backend that is not the current   *)
(* one, and a frontend another has taken the place of, is closed or about  *)
(* to be, by the caller that replaced it or by the reader or writePump to  *)
(* which its Tun failed; and the current backend keeps its goroutines      *)
(* until its Tun ends.                                                     *)
ReplacedClosed ==
    LET leaving(x) == \E c \in Callers : x \in toClose[c]
    IN  /\ \A b \in Backends :
               /\ bclosed[b] => tunClosed[b] \/ rpc[b] = "close" \/ writer = <<"close", b>> \/ leaving(b)
               /\ backend = b => ~bclosed[b] /\ (tunClosed[b] \/ (rpc[b] # "done" /\ wpc[b] # "done"))
        /\ \A f \in open : table[index[f]] = f \/ leaving(f)

(* The reader of a backend that is replaced or detached ends, even while   *)
(* it holds a packet for a frontend nobody reads.                          *)
Outlived(b) == bclosed[b] /\ rpc[b] # "none"
OldReadersEnd == \A b \in Backends : Outlived(b) ~> rpc[b] = "done"
=============================================================================

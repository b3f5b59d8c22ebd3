------------------------------- MODULE Sniffer -------------------------------
(***************************************************************************)
(* sniffer.Sniffer (sniffer/network.go): a Network that routes each call   *)
(* to an output, tracks the connections and listeners it returns and       *)
(* closes them on Down and Close.  An intercepted TCP dial returns one end *)
(* of a pipe at once; a bridge sniffs the other end, chooses the output    *)
(* and dials it.  Calls, their workers, bridges and the calls that move    *)
(* the Sniffer interleave at its mutex and channels.                       *)
(***************************************************************************)
EXTENDS Integers, FiniteSets

CONSTANTS
    Calls,             \* Network calls and Accepts, each with its object
    Movers,            \* callers of Down and Close
    Subs,              \* closers subscribed with SubscribeCloser
    MaxGen             \* bound on gen, hence on Up, Down and Close

VARIABLES
    up, closed, gen,   \* the fields of Sniffer
    doneClosed,        \* the generations whose channel done is closed
    closers,           \* the calls whose object is tracked
    pc, op, mine,      \* call -> its step, its operation, the generation it began in
    obj,               \* call -> its connection or listener: "none", "open", "closed"
    ch, late,          \* call -> the result its worker sent; calls left before it
    bridge, upstream,  \* call -> the bridge's step; the connection it dialled
    move, toClose,     \* mover -> its step; what it has drained
    subs, subClosed    \* subscribed closers; the closed ones

life == <<up, closed, gen, doneClosed>>
subscribers == <<subs, subClosed>>
movers == <<move, toClose>>
workers == <<ch, late>>
bridges == <<bridge, upstream>>
calls == <<pc, op, mine>>
vars == <<life, closers, calls, obj, workers, bridges, movers, subscribers>>

Init ==
    /\ up = TRUE /\ closed = FALSE /\ gen = 1 /\ doneClosed = {}
    /\ closers = {}
    /\ pc = [c \in Calls |-> "idle"] /\ op = [c \in Calls |-> "none"]
    /\ mine = [c \in Calls |-> 0] /\ obj = [c \in Calls |-> "none"]
    /\ ch = [c \in Calls |-> "empty"] /\ late = {}
    /\ bridge = [c \in Calls |-> "none"] /\ upstream = [c \in Calls |-> "none"]
    /\ move = [m \in Movers |-> "idle"]
    /\ toClose = [m \in Movers |-> [calls |-> {}, subs |-> {}, done |-> 0]]
    /\ subs = {} /\ subClosed = {}

----------------------------------------------------------------------------
(* Up, Down and Close. *)

Up ==
    /\ ~closed /\ ~up /\ gen < MaxGen
    /\ up' = TRUE /\ gen' = gen + 1
    /\ closers' = {}
    /\ UNCHANGED <<closed, doneClosed, calls, obj, workers, bridges, movers, subscribers>>

\* Down up to its unlock; the channel of the generation that was up is gen's.
Down(m) ==
    /\ move[m] = "idle" /\ ~closed /\ up /\ gen < MaxGen
    /\ up' = FALSE /\ gen' = gen + 1
    /\ closers' = {}
    /\ toClose' = [toClose EXCEPT ![m] = [calls |-> closers, subs |-> {}, done |-> gen]]
    /\ move' = [move EXCEPT ![m] = "done"]
    /\ UNCHANGED <<closed, doneClosed, calls, obj, workers, bridges, subscribers>>

\* Close up to its unlock.
Close(m) ==
    /\ move[m] = "idle" /\ ~closed
    /\ closed' = TRUE /\ up' = FALSE /\ gen' = gen + 1
    /\ closers' = {} /\ subs' = {}
    /\ toClose' = [toClose EXCEPT ![m] = [calls |-> closers, subs |-> subs,
                                          done |-> IF up THEN gen ELSE 0]]
    /\ move' = [move EXCEPT ![m] = "done"]
    /\ UNCHANGED <<doneClosed, calls, obj, workers, bridges, subClosed>>

\* close(done), where the generation was up.
CloseDone(m) ==
    /\ move[m] = "done"
    /\ doneClosed' = doneClosed \cup ({toClose[m].done} \ {0})
    /\ move' = [move EXCEPT ![m] = "closing"]
    /\ UNCHANGED <<up, closed, gen, closers, calls, obj, workers, bridges, toClose, subscribers>>

\* Closing an object removes it from the closers first, and ends its bridge's
\* context.
Drop(c) == closers' = closers \ {c} /\ obj' = [obj EXCEPT ![c] = "closed"]

\* snifferCloseAll, one object at a time, then the subscribers.
CloseOne(m) ==
    /\ move[m] = "closing"
    /\ \/ \E c \in toClose[m].calls :
             /\ Drop(c)
             /\ toClose' = [toClose EXCEPT ![m].calls = @ \ {c}]
             /\ UNCHANGED <<move, subClosed>>
       \/ \E s \in toClose[m].subs :
             /\ toClose[m].calls = {}
             /\ subClosed' = subClosed \cup {s}
             /\ toClose' = [toClose EXCEPT ![m].subs = @ \ {s}]
             /\ UNCHANGED <<move, closers, obj>>
       \/ /\ toClose[m].calls = {} /\ toClose[m].subs = {}
          /\ move' = [move EXCEPT ![m] = "idle"]
          /\ UNCHANGED <<toClose, closers, obj, subClosed>>
    /\ UNCHANGED <<life, calls, workers, bridges, subs>>

SubscribeCloser(s) ==
    /\ s \notin subs \cup subClosed
    /\ IF closed THEN subClosed' = subClosed \cup {s} /\ UNCHANGED subs
       ELSE subs' = subs \cup {s} /\ UNCHANGED subClosed
    /\ UNCHANGED <<life, closers, calls, obj, workers, bridges, movers>>

----------------------------------------------------------------------------
(* A call: begin, the control callback, backend, the worker, tracking. *)

rest == <<life, movers, subscribers>>
Go(c, to) == pc' = [pc EXCEPT ![c] = to]
Alive(c) == up /\ ~closed /\ gen = mine[c]

\* begin and beginNoContext.
Begin(c, o) ==
    /\ pc[c] = "idle"
    /\ op' = [op EXCEPT ![c] = o]
    /\ mine' = [mine EXCEPT ![c] = gen]
    /\ Go(c, IF up /\ ~closed THEN "control" ELSE "failed")
    /\ UNCHANGED <<rest, closers, obj, workers, bridges>>

Dial(c) == Begin(c, "dial")
Listen(c) == Begin(c, "listener")
PacketDial(c) == Begin(c, "packet")
ListenPacket(c) == Begin(c, "packet")
DialTCP(c) == Begin(c, "dial")
ListenTCP(c) == Begin(c, "listener")
DialUDP(c) == Begin(c, "packet")
ListenUDP(c) == Begin(c, "packet")
ListenPacketConfig(c) == Begin(c, "packet")
ListenUDPConfig(c) == Begin(c, "packet")
ListenMulticastUDP(c) == Begin(c, "packet")
Lookup(c) == Begin(c, "lookup")
Interfaces(c) == Begin(c, "collect")

\* controlCall: only Dial and DialTCP of a TCP network may be intercepted, for
\* other calls the action becomes a rejection.
Control(c) ==
    /\ pc[c] = "control"
    /\ Go(c, "backend") \/ (op[c] = "dial" /\ Go(c, "intercept"))
    /\ UNCHANGED <<rest, closers, op, mine, obj, workers, bridges>>

\* backend, and the spawner: a lookup or listing has no object, and listings
\* run without a worker.
Backend(c) ==
    /\ pc[c] = "backend"
    /\ Go(c, "failed")
       \/ (Alive(c) /\ Go(c, IF op[c] = "collect" THEN "returned" ELSE "run"))
    /\ UNCHANGED <<rest, closers, op, mine, obj, workers, bridges>>

\* runSnifferOp's worker: the output answers; a dial or listen opens an object.
Worker(c) ==
    /\ pc[c] = "run" \/ c \in late
    /\ ch[c] = "empty"
    /\ \/ /\ ch' = [ch EXCEPT ![c] = "value"]
          /\ obj' = [obj EXCEPT ![c] = IF op[c] = "lookup" THEN "none" ELSE "open"]
       \/ ch' = [ch EXCEPT ![c] = "error"] /\ UNCHANGED obj
    /\ UNCHANGED <<rest, closers, calls, late, bridges>>

\* runSnifferOp's select: the result, also when done is closed.
Result(c) ==
    /\ pc[c] = "run" /\ ch[c] # "empty"
    /\ Go(c, CASE ch[c] = "error" -> "failed"
               [] op[c] = "lookup" -> "returned"
               [] OTHER -> "reserve")
    /\ UNCHANGED <<rest, closers, op, mine, obj, workers, bridges>>

\* done is closed, or the caller's context has ended: the call leaves and a
\* goroutine waits for the late result.
Leave(c) ==
    /\ pc[c] = "run"
    /\ Go(c, "failed") /\ late' = late \cup {c}
    /\ UNCHANGED <<rest, closers, op, mine, obj, ch, bridges>>

CloseLate(c) ==
    /\ c \in late /\ ch[c] # "empty"
    /\ late' = late \ {c}
    /\ obj' = [obj EXCEPT ![c] = IF @ = "open" THEN "closed" ELSE @]
    /\ UNCHANGED <<rest, closers, calls, ch, bridges>>

\* reserveTracked.
Reserve(c) ==
    /\ pc[c] = "reserve"
    /\ IF Alive(c) THEN Go(c, "finish") /\ UNCHANGED obj
       ELSE Go(c, "failed") /\ obj' = [obj EXCEPT ![c] = "closed"]
    /\ UNCHANGED <<rest, closers, op, mine, workers, bridges>>

Tracked(c) == IF op[c] = "intercept" THEN "spawn" ELSE "returned"

\* Mutant: the second look at the generation is left out.
FinishBlind(c) ==
    /\ pc[c] = "finish"
    /\ closers' = closers \cup {c} /\ Go(c, Tracked(c))
    /\ UNCHANGED <<rest, op, mine, obj, workers, bridges>>

\* finishTracked, and closing what can no longer be tracked.
Finish(c) ==
    /\ pc[c] = "finish"
    /\ IF Alive(c)
       THEN closers' = closers \cup {c} /\ Go(c, Tracked(c)) /\ UNCHANGED obj
       ELSE Drop(c) /\ Go(c, "failed")
    /\ UNCHANGED <<rest, op, mine, workers, bridges>>

\* The user closes an object.
CloseObject(c) ==
    /\ pc[c] = "returned" /\ obj[c] = "open"
    /\ Drop(c)
    /\ UNCHANGED <<rest, calls, workers, bridges>>

\* acceptConn and acceptTCPConn: the listener of l accepts a connection, which
\* is tracked in the generation of the moment.
Accept(c, l) ==
    /\ pc[c] = "idle" /\ pc[l] = "returned" /\ op[l] = "listener" /\ obj[l] = "open"
    /\ op' = [op EXCEPT ![c] = "accept"]
    /\ mine' = [mine EXCEPT ![c] = gen]
    /\ IF up /\ ~closed
       THEN Go(c, "reserve") /\ obj' = [obj EXCEPT ![c] = "open"]
       ELSE Go(c, "failed") /\ obj' = [obj EXCEPT ![c] = "closed"]
    /\ UNCHANGED <<rest, closers, workers, bridges>>

----------------------------------------------------------------------------
(* newInterceptedConn and serveIntercepted. *)

\* The pipe is made; its client end is the object. The context may have ended.
Intercept(c) ==
    /\ pc[c] = "intercept"
    /\ \/ Go(c, "failed") /\ UNCHANGED <<op, obj>>
       \/ /\ op' = [op EXCEPT ![c] = "intercept"]
          /\ obj' = [obj EXCEPT ![c] = "open"]
          /\ Go(c, "reserve")
    /\ UNCHANGED <<rest, closers, mine, workers, bridges>>

Spawn(c) ==
    /\ pc[c] = "spawn"
    /\ \/ /\ bridge' = [bridge EXCEPT ![c] = "sniff"] /\ Go(c, "look")
          /\ UNCHANGED <<closers, obj>>
       \/ Drop(c) /\ Go(c, "failed") /\ UNCHANGED bridge
    /\ UNCHANGED <<rest, op, mine, workers, upstream>>

\* The last look at done.
Look(c) ==
    /\ pc[c] = "look"
    /\ IF mine[c] \in doneClosed THEN Drop(c) /\ Go(c, "failed")
       ELSE Go(c, "returned") /\ UNCHANGED <<closers, obj>>
    /\ UNCHANGED <<rest, op, mine, workers, bridges>>

bridgeRest == <<rest, closers, calls, obj, workers>>
Bridge(c, to) == bridge' = [bridge EXCEPT ![c] = to]

\* sniff: the client's first bytes, or its end.
Sniff(c) == bridge[c] = "sniff" /\ Bridge(c, "route") /\ UNCHANGED <<bridgeRest, upstream>>

\* sniffCtl and backend.
Route(c) ==
    /\ bridge[c] = "route"
    /\ Bridge(c, "ended") \/ (Alive(c) /\ Bridge(c, "dial"))
    /\ UNCHANGED <<bridgeRest, upstream>>

\* dialIntercepted.
DialOutput(c) ==
    /\ bridge[c] = "dial"
    /\ \/ Bridge(c, "ended") /\ UNCHANGED upstream
       \/ Bridge(c, "check") /\ upstream' = [upstream EXCEPT ![c] = "open"]
    /\ UNCHANGED bridgeRest

\* The look at the context, and PipeConn.
Check(c) ==
    /\ bridge[c] = "check"
    /\ IF obj[c] = "closed"
       THEN Bridge(c, "ended") /\ upstream' = [upstream EXCEPT ![c] = "closed"]
       ELSE Bridge(c, "pipe") /\ UNCHANGED upstream
    /\ UNCHANGED bridgeRest

\* Either end closes and PipeConn returns.
PipeEnds(c) ==
    /\ bridge[c] = "pipe"
    /\ Bridge(c, "ended") /\ upstream' = [upstream EXCEPT ![c] = "closed"]
    /\ UNCHANGED bridgeRest

----------------------------------------------------------------------------
Operation(c) ==
    \/ Dial(c) \/ Listen(c) \/ PacketDial(c) \/ ListenPacket(c) \/ DialTCP(c) \/ ListenTCP(c)
    \/ DialUDP(c) \/ ListenUDP(c) \/ ListenPacketConfig(c) \/ ListenUDPConfig(c)
    \/ ListenMulticastUDP(c) \/ Lookup(c) \/ Interfaces(c)

Step(c) ==
    \/ Control(c) \/ Backend(c) \/ Result(c) \/ CloseLate(c) \/ Reserve(c) \/ Finish(c)
    \/ Intercept(c) \/ Spawn(c) \/ Look(c)

\* What a bridge does by itself; the rest needs its context to have ended.
BridgeStep(c) ==
    \/ Route(c) \/ Check(c)
    \/ obj[c] = "closed" /\ (Sniff(c) \/ DialOutput(c) \/ PipeEnds(c))

Next ==
    \/ Up
    \/ \E m \in Movers : Down(m) \/ Close(m) \/ CloseDone(m) \/ CloseOne(m)
    \/ \E s \in Subs : SubscribeCloser(s)
    \/ \E c \in Calls :
          \/ Operation(c) \/ Step(c) \/ Leave(c) \/ Worker(c) \/ CloseObject(c)
          \/ \E l \in Calls : Accept(c, l)
          \/ Sniff(c) \/ Route(c) \/ DialOutput(c) \/ Check(c) \/ PipeEnds(c)

Spec == Init /\ [][Next]_vars

\* The done channel of its generation is closed, which ends the context of
\* begin.
Overtaken(c) == mine[c] \in doneClosed

(* Goroutines go on; outputs return once the context they run under ends.  *)
Goroutines == Movers \cup ({"call", "bridge", "worker"} \X Calls)

Goroutine(g) ==
    \/ g \in Movers /\ (CloseDone(g) \/ CloseOne(g))
    \/ g \notin Movers /\ g[1] = "call" /\ Step(g[2])
    \/ g \notin Movers /\ g[1] = "bridge" /\ BridgeStep(g[2])
    \/ g \notin Movers /\ g[1] = "worker" /\ (Overtaken(g[2]) \/ g[2] \in late) /\ Worker(g[2])

Fairness == \A g \in Goroutines : WF_vars(Goroutine(g))

----------------------------------------------------------------------------
(* "It owns only the connections and listeners returned by its own         *)
(* methods": an open object is in the hands of a call in progress, of its  *)
(* late closer, tracked while the Sniffer is up, or about to be closed by  *)
(* Down or Close; none is forgotten.  What a bridge dialled is open only   *)
(* while the bridge runs.  No closer is subscribed after Close.            *)
NothingForgotten ==
    /\ \A c \in Calls :
          obj[c] = "open" =>
              \/ pc[c] \in {"run", "reserve", "finish"} \/ c \in late
              \/ c \in closers /\ up
              \/ \E m \in Movers : c \in toClose[m].calls
    /\ \A c \in Calls : upstream[c] = "open" => bridge[c] \in {"check", "pipe"}
    /\ closed => subs = {}

(* Down and Close close every object, also those whose call or bridge was  *)
(* under way, and end the bridges.                                         *)
Gone(c) == obj[c] # "open" /\ bridge[c] \in {"none", "ended"} /\ upstream[c] # "open"
DownCloses == \A c \in Calls : Overtaken(c) ~> Gone(c)
=============================================================================

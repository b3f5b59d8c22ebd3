-------------------------- MODULE DetachedNetwork --------------------------
(***************************************************************************)
(* The lifecycle of gonnect.DetachedNetwork (detachable.go): a wrapper     *)
(* that can be brought Down, Up and Closed independently of the network it *)
(* wraps, while calls that create connections and listeners are in flight. *)
(*                                                                         *)
(* One step is one critical section of n.mu, one channel operation, or one *)
(* call into an object the wrapper does not own.  A "done" channel is      *)
(* named by the generation that made it.  Every call of Dial, Listen,      *)
(* ListenPacket, ... or Accept creates at most one object, so an object    *)
(* and its id in n.closers are named by the call.                          *)
(***************************************************************************)
EXTENDS Naturals, FiniteSets

CONSTANTS Calls,    \* calls of Dial*, Listen*, Lookup* or Accept
          Callers,  \* goroutines that call Up, Down and Close
          Subs,     \* UpDown and io.Closer values that subscribe
          MaxGen,   \* bound on the generation counter n.gen
          None      \* no listener, no object

ASSUME GenAssumption == MaxGen \in Nat /\ MaxGen >= 1

ASSUME NoneAssumption == None \notin Calls

VARIABLES up, closed, gen, done, closers,  \* the fields under n.mu
          closedDones,  \* the done channels that were closed
          panicked,     \* some goroutine closed a closed channel
          pc, kind,     \* where a call is, and what it creates
          opGen, opDone,\* the snapshot begin took for the call
          lst,          \* the listener an Accept call waits on
          result,       \* the channel of runDetachedOp
          obj,          \* the object the wrapped network made for the call
          stopped,      \* callbackSet.stopped of the call's object
          cpc,          \* where a lifecycle caller is
          cdone,        \* the channel it has to close, 0 for none
          toClose,      \* the closers it took and has not closed yet
          cur,          \* the closer it is closing
          toMove,       \* the UpDown subscribers it has to move up or down
          toShut,       \* the closer subscribers it has to close
          updowns, closeSubs,  \* the subscriptions, also under n.mu
          upc, kpc,     \* where SubscribeUpDown and SubscribeCloser are
          subUp,        \* the subscriber is up
          subClosed     \* the subscriber was closed

lockVars == <<up, closed, gen, done, closers>>
chanVars == <<closedDones, panicked>>
callVars == <<pc, kind, opGen, opDone, lst, result>>
objVars  == <<obj, stopped>>
ctlVars  == <<cpc, cdone, toClose, cur, toMove, toShut>>
subVars  == <<updowns, closeSubs, upc, kpc, subUp, subClosed>>
vars == <<lockVars, chanVars, callVars, objVars, ctlVars, subVars>>

Gens  == 0 .. MaxGen
Kinds == {"conn", "listener", "multicast", "lookup", "accept"}

CallPCs == {"idle", "resolve", "wait", "track", "register", "accept",
            "onAccept", "acceptTrack", "acceptRegister", "discard",
            "live", "unregister", "shut", "closed", "late", "over"}

CallerPCs == {"idle", "closeDone", "closeAll", "unregister", "shut",
              "downAll", "closeSubs", "upAll"}

SubPCs == {"out", "pending", "in", "gone"}

----------------------------------------------------------------------------
(* DetachNetwork: the wrapper starts up, in generation 1. *)
Init ==
    /\ up = TRUE
    /\ closed = FALSE
    /\ gen = 1
    /\ done = 1
    /\ closers = {}
    /\ closedDones = {}
    /\ panicked = FALSE
    /\ pc = [p \in Calls |-> "idle"]
    /\ kind = [p \in Calls |-> "conn"]
    /\ opGen = [p \in Calls |-> 0]
    /\ opDone = [p \in Calls |-> 0]
    /\ lst = [p \in Calls |-> None]
    /\ result = [p \in Calls |-> "none"]
    /\ obj = [p \in Calls |-> "none"]
    /\ stopped = [p \in Calls |-> FALSE]
    /\ cpc = [c \in Callers |-> "idle"]
    /\ cdone = [c \in Callers |-> 0]
    /\ toClose = [c \in Callers |-> {}]
    /\ cur = [c \in Callers |-> None]
    /\ toMove = [c \in Callers |-> {}]
    /\ toShut = [c \in Callers |-> {}]
    /\ updowns = {}
    /\ closeSubs = {}
    /\ upc = [u \in Subs |-> "out"]
    /\ kpc = [u \in Subs |-> "out"]
    /\ subUp = [u \in Subs |-> TRUE]
    /\ subClosed = [u \in Subs |-> FALSE]

----------------------------------------------------------------------------
(* Calls that create an object: begin, resolveNetAddr, runDetachedOp and   *)
(* the track functions.                                                    *)

Operational == up /\ ~closed

(* The test both critical sections of a track function make. *)
Current(p) == Operational /\ gen = opGen[p]

Goto(p, label) == pc' = [pc EXCEPT ![p] = label]

(* n.begin: refuse, or take the generation and its done channel. *)
Begin(p, k) ==
    /\ pc[p] = "idle"
    /\ k \in Kinds \ {"accept"}
    /\ kind' = [kind EXCEPT ![p] = k]
    /\ IF Operational
       THEN /\ opGen' = [opGen EXCEPT ![p] = gen]
            /\ opDone' = [opDone EXCEPT ![p] = done]
            /\ Goto(p, "resolve")
       ELSE /\ Goto(p, "over")
            /\ UNCHANGED <<opGen, opDone>>
    /\ UNCHANGED <<lockVars, chanVars, lst, result, objVars, ctlVars, subVars>>

(* n.resolveNetAddr and the spawn in runDetachedOp: either may fail, and   *)
(* then nothing was created.                                               *)
Resolve(p) ==
    /\ pc[p] = "resolve"
    /\ \/ /\ Goto(p, "wait")
          /\ result' = [result EXCEPT ![p] = "running"]
       \/ /\ Goto(p, "over")
          /\ UNCHANGED result
    /\ UNCHANGED <<lockVars, chanVars, kind, opGen, opDone, lst, objVars, ctlVars, subVars>>

(* The spawned goroutine: the wrapped network answers, perhaps long after  *)
(* the caller gave up.  A lookup answers with plain data.                  *)
WrappedReturns(p) ==
    /\ result[p] = "running"
    /\ \/ /\ result' = [result EXCEPT ![p] = "ok"]
          /\ obj' = [obj EXCEPT ![p] = IF kind[p] = "lookup" THEN @ ELSE "open"]
       \/ /\ result' = [result EXCEPT ![p] = "err"]
          /\ UNCHANGED obj
    /\ UNCHANGED <<lockVars, chanVars, pc, kind, opGen, opDone, lst, stopped, ctlVars, subVars>>

(* runDetachedOp's select: the result is ready. *)
SelectResult(p) ==
    /\ pc[p] = "wait"
    /\ result[p] \in {"ok", "err"}
    /\ Goto(p, IF result[p] = "ok" /\ kind[p] # "lookup" THEN "track" ELSE "over")
    /\ UNCHANGED <<lockVars, chanVars, kind, opGen, opDone, lst, result, objVars, ctlVars, subVars>>

(* runDetachedOp's select: the wrapper went down, so a goroutine is left   *)
(* behind to close a late result.                                          *)
SelectDone(p) ==
    /\ pc[p] = "wait"
    /\ opDone[p] \in closedDones
    /\ Goto(p, "late")
    /\ UNCHANGED <<lockVars, chanVars, kind, opGen, opDone, lst, result, objVars, ctlVars, subVars>>

(* runDetachedOp's select: the caller cancelled its own context. *)
SelectCtx(p) ==
    /\ pc[p] = "wait"
    /\ Goto(p, "late")
    /\ UNCHANGED <<lockVars, chanVars, kind, opGen, opDone, lst, result, objVars, ctlVars, subVars>>

(* Mutant: the late result is dropped instead of closed. *)
LateCloseLeaks(p) ==
    /\ pc[p] = "late"
    /\ result[p] \in {"ok", "err"}
    /\ Goto(p, "over")
    /\ UNCHANGED <<lockVars, chanVars, kind, opGen, opDone, lst, result, objVars, ctlVars, subVars>>

(* closeDetachedOpResult: receive the late result and close it. *)
LateClose(p) ==
    /\ pc[p] = "late"
    /\ result[p] \in {"ok", "err"}
    /\ obj' = [obj EXCEPT ![p] = IF @ = "open" THEN "closed" ELSE @]
    /\ Goto(p, "over")
    /\ UNCHANGED <<lockVars, chanVars, kind, opGen, opDone, lst, result, stopped, ctlVars, subVars>>

(* First critical section of a track function.  trackMulticastPacketConn   *)
(* registers in it; the others wrap the object first.                      *)
Track(p) ==
    /\ pc[p] = "track"
    /\ IF Current(p)
       THEN IF kind[p] = "multicast"
            THEN Goto(p, "live") /\ closers' = closers \cup {p}
            ELSE Goto(p, "register") /\ UNCHANGED closers
       ELSE Goto(p, "discard") /\ UNCHANGED closers
    /\ UNCHANGED <<up, closed, gen, done, chanVars, kind, opGen, opDone, lst, result, objVars, ctlVars, subVars>>

(* Mutant: the second critical section does not compare generations. *)
RegisterStale(p) ==
    /\ pc[p] = "register"
    /\ IF Operational
       THEN Goto(p, "live") /\ closers' = closers \cup {p}
       ELSE Goto(p, "discard") /\ UNCHANGED closers
    /\ UNCHANGED <<up, closed, gen, done, chanVars, kind, opGen, opDone, lst, result, objVars, ctlVars, subVars>>

(* Second critical section of a track function. *)
Register(p) ==
    /\ pc[p] = "register"
    /\ IF Current(p)
       THEN Goto(p, "live") /\ closers' = closers \cup {p}
       ELSE Goto(p, "discard") /\ UNCHANGED closers
    /\ UNCHANGED <<up, closed, gen, done, chanVars, kind, opGen, opDone, lst, result, objVars, ctlVars, subVars>>

(* The object that was not registered is closed; if it was wrapped, its    *)
(* BeforeClose callback unregisters an id that was never in the map.       *)
Discard(p) ==
    /\ pc[p] = "discard"
    /\ obj' = [obj EXCEPT ![p] = "closed"]
    /\ stopped' = [stopped EXCEPT ![p] = TRUE]
    /\ closers' = closers \ {p}
    /\ Goto(p, "over")
    /\ UNCHANGED <<up, closed, gen, done, chanVars, kind, opGen, opDone, lst, result, ctlVars, subVars>>

----------------------------------------------------------------------------
(* Accept on a listener that the wrapper returned. *)

(* Accept is called on a tracked listener; no generation is taken. *)
Accept(p, l) ==
    /\ pc[p] = "idle"
    /\ kind[l] = "listener"
    /\ pc[l] = "live"
    /\ kind' = [kind EXCEPT ![p] = "accept"]
    /\ lst' = [lst EXCEPT ![p] = l]
    /\ Goto(p, "accept")
    /\ UNCHANGED <<lockVars, chanVars, opGen, opDone, result, objVars, ctlVars, subVars>>

(* The wrapped listener hands out a connection, or reports it is closed. *)
AcceptReturns(p) ==
    /\ pc[p] = "accept"
    /\ IF obj[lst[p]] = "open"
       THEN obj' = [obj EXCEPT ![p] = "open"] /\ Goto(p, "onAccept")
       ELSE Goto(p, "over") /\ UNCHANGED obj
    /\ UNCHANGED <<lockVars, chanVars, kind, opGen, opDone, lst, result, stopped, ctlVars, subVars>>

(* callbackSet.runOnAccept: a listener that is being closed rejects. *)
RunOnAccept(p) ==
    /\ pc[p] = "onAccept"
    /\ Goto(p, IF stopped[lst[p]] THEN "discard" ELSE "acceptTrack")
    /\ UNCHANGED <<lockVars, chanVars, kind, opGen, opDone, lst, result, objVars, ctlVars, subVars>>

(* First critical section of acceptConnCallback and acceptTCPConnCallback. *)
AcceptTrack(p) ==
    /\ pc[p] = "acceptTrack"
    /\ Goto(p, IF Operational THEN "acceptRegister" ELSE "discard")
    /\ UNCHANGED <<lockVars, chanVars, kind, opGen, opDone, lst, result, objVars, ctlVars, subVars>>

(* Second critical section: registered in whatever generation it is now. *)
AcceptRegister(p) ==
    /\ pc[p] = "acceptRegister"
    /\ IF Operational
       THEN Goto(p, "live") /\ closers' = closers \cup {p}
       ELSE Goto(p, "discard") /\ UNCHANGED closers
    /\ UNCHANGED <<up, closed, gen, done, chanVars, kind, opGen, opDone, lst, result, objVars, ctlVars, subVars>>

----------------------------------------------------------------------------
(* Close of a returned object by its user: callbackSet.runBeforeClose stops *)
(* the callback set, runs n.unregister, and then the object is closed.      *)

UserClose(p) ==
    /\ pc[p] = "live"
    /\ stopped' = [stopped EXCEPT ![p] = TRUE]
    /\ Goto(p, "unregister")
    /\ UNCHANGED <<lockVars, chanVars, kind, opGen, opDone, lst, result, obj, ctlVars, subVars>>

UserUnregister(p) ==
    /\ pc[p] = "unregister"
    /\ closers' = closers \ {p}
    /\ Goto(p, "shut")
    /\ UNCHANGED <<up, closed, gen, done, chanVars, kind, opGen, opDone, lst, result, objVars, ctlVars, subVars>>

UserShut(p) ==
    /\ pc[p] = "shut"
    /\ obj' = [obj EXCEPT ![p] = "closed"]
    /\ Goto(p, "closed")
    /\ UNCHANGED <<lockVars, chanVars, kind, opGen, opDone, lst, result, stopped, ctlVars, subVars>>

----------------------------------------------------------------------------
(* Up, Down and Close.  A call that finds nothing to do changes nothing.   *)

(* Up: a new generation with a new done channel; the subscribers are moved *)
(* up after the lock is released.                                          *)
Up(c) ==
    /\ cpc[c] = "idle"
    /\ ~closed /\ ~up
    /\ gen < MaxGen
    /\ up' = TRUE
    /\ gen' = gen + 1
    /\ done' = gen + 1
    /\ toMove' = [toMove EXCEPT ![c] = updowns]
    /\ cpc' = [cpc EXCEPT ![c] = "upAll"]
    /\ UNCHANGED <<closed, closers, chanVars, callVars, objVars, cdone, toClose, cur, toShut, subVars>>

(* Mutant: Down closes the closers but leaves them registered. *)
DownKeepsClosers(c) ==
    /\ cpc[c] = "idle"
    /\ Operational
    /\ gen < MaxGen
    /\ up' = FALSE
    /\ gen' = gen + 1
    /\ cdone' = [cdone EXCEPT ![c] = done]
    /\ toClose' = [toClose EXCEPT ![c] = closers]
    /\ toMove' = [toMove EXCEPT ![c] = updowns]
    /\ cpc' = [cpc EXCEPT ![c] = "closeDone"]
    /\ UNCHANGED <<closed, done, closers, chanVars, callVars, objVars, cur, toShut, subVars>>

(* The critical section of Down: it takes all closers with it. *)
Down(c) ==
    /\ cpc[c] = "idle"
    /\ Operational
    /\ gen < MaxGen
    /\ up' = FALSE
    /\ gen' = gen + 1
    /\ cdone' = [cdone EXCEPT ![c] = done]
    /\ toClose' = [toClose EXCEPT ![c] = closers]
    /\ closers' = {}
    /\ toMove' = [toMove EXCEPT ![c] = updowns]
    /\ cpc' = [cpc EXCEPT ![c] = "closeDone"]
    /\ UNCHANGED <<closed, done, chanVars, callVars, objVars, cur, toShut, subVars>>

(* Mutant: closePrep takes the done channel of a wrapper that is down, too. *)
CloseTakesDone(c) ==
    /\ cpc[c] = "idle"
    /\ ~closed
    /\ gen < MaxGen
    /\ closed' = TRUE
    /\ up' = FALSE
    /\ gen' = gen + 1
    /\ cdone' = [cdone EXCEPT ![c] = done]
    /\ toClose' = [toClose EXCEPT ![c] = closers]
    /\ closers' = {}
    /\ toMove' = [toMove EXCEPT ![c] = IF up THEN updowns ELSE {}]
    /\ toShut' = [toShut EXCEPT ![c] = closeSubs]
    /\ closeSubs' = {}
    /\ cpc' = [cpc EXCEPT ![c] = "closeDone"]
    /\ UNCHANGED <<done, chanVars, callVars, objVars, cur, updowns, upc, kpc, subUp, subClosed>>

(* closePrep: terminal.  The done channel is closed and the subscribers are *)
(* moved down only if the wrapper was up, because Down does both otherwise. *)
Close(c) ==
    /\ cpc[c] = "idle"
    /\ ~closed
    /\ gen < MaxGen
    /\ closed' = TRUE
    /\ up' = FALSE
    /\ gen' = gen + 1
    /\ cdone' = [cdone EXCEPT ![c] = IF up THEN done ELSE 0]
    /\ toClose' = [toClose EXCEPT ![c] = closers]
    /\ closers' = {}
    /\ toMove' = [toMove EXCEPT ![c] = IF up THEN updowns ELSE {}]
    /\ toShut' = [toShut EXCEPT ![c] = closeSubs]
    /\ closeSubs' = {}
    /\ cpc' = [cpc EXCEPT ![c] = "closeDone"]
    /\ UNCHANGED <<done, chanVars, callVars, objVars, cur, updowns, upc, kpc, subUp, subClosed>>

(* close(done), outside the lock.  Closing a closed channel panics. *)
CloseDone(c) ==
    /\ cpc[c] = "closeDone"
    /\ panicked' = (panicked \/ cdone[c] \in closedDones)
    /\ closedDones' = closedDones \cup ({cdone[c]} \ {0})
    /\ cdone' = [cdone EXCEPT ![c] = 0]
    /\ cpc' = [cpc EXCEPT ![c] = "closeAll"]
    /\ UNCHANGED <<lockVars, callVars, objVars, toClose, cur, toMove, toShut, subVars>>

(* closeAll: Close of the next object, which first stops its callback set. *)
CloseNext(c, x) ==
    /\ cpc[c] = "closeAll"
    /\ x \in toClose[c]
    /\ cur' = [cur EXCEPT ![c] = x]
    /\ toClose' = [toClose EXCEPT ![c] = @ \ {x}]
    /\ stopped' = [stopped EXCEPT ![x] = TRUE]
    /\ cpc' = [cpc EXCEPT ![c] = "unregister"]
    /\ UNCHANGED <<lockVars, chanVars, callVars, obj, cdone, toMove, toShut, subVars>>

(* ... runs its BeforeClose callback n.unregister ... *)
Unregister(c) ==
    /\ cpc[c] = "unregister"
    /\ closers' = closers \ {cur[c]}
    /\ cpc' = [cpc EXCEPT ![c] = "shut"]
    /\ UNCHANGED <<up, closed, gen, done, chanVars, callVars, objVars, cdone, toClose, cur, toMove, toShut, subVars>>

(* ... and closes the wrapped object. *)
Shut(c) ==
    /\ cpc[c] = "shut"
    /\ obj' = [obj EXCEPT ![cur[c]] = "closed"]
    /\ cur' = [cur EXCEPT ![c] = None]
    /\ cpc' = [cpc EXCEPT ![c] = "closeAll"]
    /\ UNCHANGED <<lockVars, chanVars, callVars, stopped, cdone, toClose, toMove, toShut, subVars>>

(* closeAll is through: go on with downAll. *)
ClosedAll(c) ==
    /\ cpc[c] = "closeAll"
    /\ toClose[c] = {}
    /\ cpc' = [cpc EXCEPT ![c] = "downAll"]
    /\ UNCHANGED <<lockVars, chanVars, callVars, objVars, cdone, toClose, cur, toMove, toShut, subVars>>

(* downAll and upAll: move the next subscriber of the snapshot. *)
MoveNext(c, u) ==
    /\ cpc[c] \in {"downAll", "upAll"}
    /\ u \in toMove[c]
    /\ subUp' = [subUp EXCEPT ![u] = (cpc[c] = "upAll")]
    /\ toMove' = [toMove EXCEPT ![c] = @ \ {u}]
    /\ UNCHANGED <<lockVars, chanVars, callVars, objVars, cpc, cdone, toClose, cur, toShut,
                   updowns, closeSubs, upc, kpc, subClosed>>

(* Every subscriber was moved: Up returns, Down and Close go on with the   *)
(* closer subscribers (none for Down).                                     *)
MovedAll(c) ==
    /\ cpc[c] \in {"downAll", "upAll"}
    /\ toMove[c] = {}
    /\ cpc' = [cpc EXCEPT ![c] = IF @ = "upAll" THEN "idle" ELSE "closeSubs"]
    /\ UNCHANGED <<lockVars, chanVars, callVars, objVars, cdone, toClose, cur, toMove, toShut, subVars>>

(* closeAll(closeSubs): close the next closer subscriber. *)
ShutNext(c, u) ==
    /\ cpc[c] = "closeSubs"
    /\ u \in toShut[c]
    /\ subClosed' = [subClosed EXCEPT ![u] = TRUE]
    /\ toShut' = [toShut EXCEPT ![c] = @ \ {u}]
    /\ UNCHANGED <<lockVars, chanVars, callVars, objVars, cpc, cdone, toClose, cur, toMove,
                   updowns, closeSubs, upc, kpc, subUp>>

(* Down or Close returns. *)
Return(c) ==
    /\ cpc[c] = "closeSubs"
    /\ toShut[c] = {}
    /\ cpc' = [cpc EXCEPT ![c] = "idle"]
    /\ UNCHANGED <<lockVars, chanVars, callVars, objVars, cdone, toClose, cur, toMove, toShut, subVars>>

----------------------------------------------------------------------------
(* SubscribeUpDown, SubscribeCloser and the functions they return. *)

SubscribeUpDown(u) ==
    /\ upc[u] = "out"
    /\ updowns' = updowns \cup {u}
    /\ upc' = [upc EXCEPT ![u] = IF Operational THEN "in" ELSE "pending"]
    /\ UNCHANGED <<lockVars, chanVars, callVars, objVars, ctlVars, closeSubs, kpc, subUp, subClosed>>

(* The wrapper was down: u.Down() after the lock is released. *)
SubscribeDown(u) ==
    /\ upc[u] = "pending"
    /\ subUp' = [subUp EXCEPT ![u] = FALSE]
    /\ upc' = [upc EXCEPT ![u] = "in"]
    /\ UNCHANGED <<lockVars, chanVars, callVars, objVars, ctlVars, updowns, closeSubs, kpc, subClosed>>

UnregisterUpDown(u) ==
    /\ upc[u] = "in"
    /\ updowns' = updowns \ {u}
    /\ upc' = [upc EXCEPT ![u] = "gone"]
    /\ UNCHANGED <<lockVars, chanVars, callVars, objVars, ctlVars, closeSubs, kpc, subUp, subClosed>>

(* Mutant: SubscribeCloser registers with a closed wrapper. *)
SubscribeCloserUnchecked(u) ==
    /\ kpc[u] = "out"
    /\ kpc' = [kpc EXCEPT ![u] = "in"]
    /\ closeSubs' = closeSubs \cup {u}
    /\ UNCHANGED <<lockVars, chanVars, callVars, objVars, ctlVars, updowns, upc, subUp, subClosed>>

SubscribeCloser(u) ==
    /\ kpc[u] = "out"
    /\ IF closed
       THEN kpc' = [kpc EXCEPT ![u] = "pending"] /\ UNCHANGED closeSubs
       ELSE kpc' = [kpc EXCEPT ![u] = "in"] /\ closeSubs' = closeSubs \cup {u}
    /\ UNCHANGED <<lockVars, chanVars, callVars, objVars, ctlVars, updowns, upc, subUp, subClosed>>

(* The wrapper was closed: c.Close() after the lock is released. *)
SubscribeClose(u) ==
    /\ kpc[u] = "pending"
    /\ subClosed' = [subClosed EXCEPT ![u] = TRUE]
    /\ kpc' = [kpc EXCEPT ![u] = "gone"]
    /\ UNCHANGED <<lockVars, chanVars, callVars, objVars, ctlVars, updowns, closeSubs, upc, subUp>>

UnregisterCloseSub(u) ==
    /\ kpc[u] = "in"
    /\ closeSubs' = closeSubs \ {u}
    /\ kpc' = [kpc EXCEPT ![u] = "gone"]
    /\ UNCHANGED <<lockVars, chanVars, callVars, objVars, ctlVars, updowns, upc, subUp, subClosed>>

----------------------------------------------------------------------------
(* Calls of the users, the resolver, the wrapped network and its listeners. *)
CallEnv(p) ==
    \/ \E k \in Kinds : Begin(p, k)
    \/ \E l \in Calls : Accept(p, l)
    \/ Resolve(p) \/ WrappedReturns(p) \/ AcceptReturns(p)
    \/ SelectCtx(p) \/ UserClose(p)

(* What the goroutine of a call, or the one it left behind, does next. *)
CallSteps(p) ==
    \/ SelectResult(p) \/ SelectDone(p) \/ LateClose(p)
    \/ Track(p) \/ Register(p) \/ Discard(p)
    \/ RunOnAccept(p) \/ AcceptTrack(p) \/ AcceptRegister(p)
    \/ UserUnregister(p) \/ UserShut(p)

CallerEnv(c) == Up(c) \/ Down(c) \/ Close(c)

(* What a running Up, Down or Close does next. *)
CallerSteps(c) ==
    \/ CloseDone(c) \/ (\E x \in Calls : CloseNext(c, x))
    \/ Unregister(c) \/ Shut(c) \/ ClosedAll(c)
    \/ (\E u \in Subs : MoveNext(c, u) \/ ShutNext(c, u))
    \/ MovedAll(c) \/ Return(c)

SubEnv(u) ==
    \/ SubscribeUpDown(u) \/ UnregisterUpDown(u)
    \/ SubscribeCloser(u) \/ UnregisterCloseSub(u)

SubSteps(u) == SubscribeDown(u) \/ SubscribeClose(u)

Next ==
    \/ \E p \in Calls : CallEnv(p) \/ CallSteps(p)
    \/ \E c \in Callers : CallerEnv(c) \/ CallerSteps(c)
    \/ \E u \in Subs : SubEnv(u) \/ SubSteps(u)

Spec == Init /\ [][Next]_vars

(* The runtime schedules every goroutine that can run.  The resolver and   *)
(* the wrapped network may never answer, and nobody has to call Up, Down,  *)
(* Close or the Close of an object.                                        *)
Goroutines == Calls \cup Callers \cup Subs

Goroutine(g) ==
    \/ g \in Calls /\ CallSteps(g)
    \/ g \in Callers /\ CallerSteps(g)
    \/ g \in Subs /\ SubSteps(g)

Fairness == \A g \in Goroutines : WF_vars(Goroutine(g))

----------------------------------------------------------------------------
(* What the wrapper promises. *)

(* Type invariant: the fields of DetachedNetwork, the calls and the callers *)
(* have the values the code gives them.                                     *)
TypeOK ==
    /\ up \in BOOLEAN /\ closed \in BOOLEAN /\ panicked \in BOOLEAN
    /\ gen \in Gens /\ done \in Gens
    /\ closers \subseteq Calls
    /\ closedDones \subseteq Gens
    /\ pc \in [Calls -> CallPCs]
    /\ kind \in [Calls -> Kinds]
    /\ opGen \in [Calls -> Gens]
    /\ opDone \in [Calls -> Gens]
    /\ lst \in [Calls -> Calls \cup {None}]
    /\ result \in [Calls -> {"none", "running", "ok", "err"}]
    /\ obj \in [Calls -> {"none", "open", "closed"}]
    /\ stopped \in [Calls -> BOOLEAN]
    /\ cpc \in [Callers -> CallerPCs]
    /\ cdone \in [Callers -> Gens]
    /\ toClose \in [Callers -> SUBSET Calls]
    /\ cur \in [Callers -> Calls \cup {None}]
    /\ toMove \in [Callers -> SUBSET Subs]
    /\ toShut \in [Callers -> SUBSET Subs]
    /\ updowns \subseteq Subs /\ closeSubs \subseteq Subs
    /\ upc \in [Subs -> SubPCs] /\ kpc \in [Subs -> SubPCs]
    /\ subUp \in [Subs -> BOOLEAN] /\ subClosed \in [Subs -> BOOLEAN]

(* A Down or Close that has not returned is going to close p. *)
Doomed(p) == \E c \in Callers : p \in toClose[c] \/ cur[c] = p

InCall == {"wait", "late", "track", "register", "discard",
           "onAccept", "acceptTrack", "acceptRegister"}

(* No object is lost: an open object is in the hands of a call that will   *)
(* return or close it, of the goroutine that closes late results, of its   *)
(* user closing it, of n.closers, or of a Down or Close on its way to it.  *)
(* A call that gave up, failed a generation check, or raced a Down in      *)
(* between its two critical sections leaves nothing open behind.           *)
NoObjectLost ==
    \A p \in Calls : obj[p] = "open" =>
        \/ pc[p] \in InCall \cup {"unregister", "shut"}
        \/ pc[p] = "live" /\ (p \in closers \/ Doomed(p))

(* Down and Close keep their promise: once the wrapper is down, or was     *)
(* down since the call began, an object that was returned to a user is     *)
(* closed, or a Down, a Close or its own user is closing it.               *)
DownClosesObjects ==
    \A p \in Calls :
        /\ pc[p] = "live" /\ obj[p] = "open"
        /\ ~Operational \/ (kind[p] # "accept" /\ opGen[p] # gen)
        => Doomed(p)

(* The channel of a generation is closed once: close(done) runs outside    *)
(* n.mu in Down and in Close, and a second close would panic.              *)
DoneClosedOnce == ~panicked

(* Cancellation is never lost: a call that waits holds the channel of the  *)
(* generation that is up, or one that was closed or is about to be.        *)
CancelNeverLost ==
    \A p \in Calls : pc[p] \in {"resolve", "wait"} =>
        \/ Operational /\ opDone[p] = done
        \/ opDone[p] \in closedDones
        \/ \E c \in Callers : cdone[c] = opDone[p]

(* A closer subscribed with SubscribeCloser and not unsubscribed is closed *)
(* with the wrapper, however the subscription raced Close, and not before. *)
CloserSubsClosed ==
    \A u \in Subs :
        /\ subClosed[u] => closed
        /\ closed /\ kpc[u] = "in" => subClosed[u] \/ \E c \in Callers : u \in toShut[c]

(* Down and Close cancel calls that are in flight: a call overtaken by a   *)
(* Down or a Close returns, even if the wrapped network never answers.     *)
Overtaken(p) == pc[p] = "wait" /\ opGen[p] # gen
GaveUp(p) == pc[p] \in {"late", "over"}
OvertakenCallsReturn == \A p \in Calls : Overtaken(p) ~> GaveUp(p)

(* Nothing that was created before a Close stays open: not an object that  *)
(* was returned, nor one that is on its way, nor a late result.            *)
CloseClosesEverything ==
    \A p \in Calls : (closed /\ obj[p] = "open") ~> obj[p] = "closed"

----------------------------------------------------------------------------
(* The wrapper implements the contract of a stoppable network: n.closers   *)
(* is exactly the set of objects that are out, and an object that left it  *)
(* without being closed is in somebody's hands.                            *)

AfterReturn == {"live", "unregister", "shut", "closed"}

ContractState == IF closed THEN "closed" ELSE IF up THEN "up" ELSE "down"

Dying == {p \in Calls : pc[p] \in AfterReturn /\ p \notin closers /\ obj[p] = "open"}

Dead == {p \in Calls : pc[p] \in AfterReturn /\ p \notin closers /\ obj[p] = "closed"}

Contract == INSTANCE NetworkContract WITH
    Objects <- Calls, state <- ContractState, out <- closers, dying <- Dying, dead <- Dead

(* Every step of the wrapper is a step of the contract, or changes nothing *)
(* that the contract speaks of.                                            *)
ImplementsContract == Contract!Spec
============================================================================

------------------------------- MODULE Router -------------------------------
(* Router (router.go): the slots, the state that follows from them, and    *)
(* the objects that calls open through a slot.  Goroutines run Attach,     *)
(* Detach, Up, Down and Close (Admins), dial or listen (Calls) and accept  *)
(* (Accepts); a backend announces its own changes of state from a          *)
(* goroutine of its own.  Each step is one critical section of r.mu, or    *)
(* one call that is made without it.                                       *)
EXTENDS Naturals, Sequences, SequencesExt

CONSTANTS Slots,       \* the slots 1 .. RouterSlots
          Backends,    \* Networks that can be attached
          Admins, Calls, Accepts,
          MaxGen,      \* bound on the changes of state, r.gen
          MaxSlotGen,  \* bound on the attachments per slot, r.slotGen
          None

Actors  == Admins \cup Backends
Objects == Calls \cup Accepts

VARIABLES
    wantUp, up, closed, gen, done,            \* fields of Router
    slots, slotUp, slotGen, slotSub,
    closers, bySlot,
    closedDones,    \* done channels that were closed
    panicked,       \* a channel was closed twice
    backendUp,      \* what IsUp of a backend answers
    subs,           \* UpDown subscriptions that backends hold
    pending,        \* subscriptions that a backend has yet to call
    todo,           \* what an actor has yet to do, in order
    target,         \* slot and backend of the Attach or Detach
    sawUp,          \* the last IsUp that Attach has read
    watchGen,       \* the slot generation that watchSlot has read
    unsubs, tDone, toClose,   \* what a transition has to undo
    pc, slot, opGen, open     \* the objects

routerVars == <<wantUp, up, closed, gen, done>>
slotVars   == <<slots, slotUp, slotGen, slotSub>>
trackVars  == <<closers, bySlot>>
doneVars   == <<closedDones, panicked>>
backVars   == <<backendUp, subs, pending>>
attachVars == <<target, sawUp, watchGen>>
transVars  == <<unsubs, tDone, toClose>>
objVars    == <<pc, slot, opGen, open>>
vars == <<routerVars, slotVars, trackVars, doneVars, backVars, todo, attachVars,
          transVars, objVars>>

(* What a backend calls is a routerSlotUpDown, made by one Attach.         *)
Sub(a) == [by |-> a, slot |-> target[a].slot, gen |-> watchGen[a],
           backend |-> target[a].backend]

NoTarget == [slot |-> None, backend |-> None]

(* NewRouter: an empty Router wants to be up and is down.                  *)
Init ==
    /\ wantUp = TRUE /\ up = FALSE /\ closed = FALSE /\ gen = 1 /\ done = 1
    /\ slots = [s \in Slots |-> None] /\ slotUp = [s \in Slots |-> FALSE]
    /\ slotGen = [s \in Slots |-> 0] /\ slotSub = [s \in Slots |-> None]
    /\ closers = {} /\ bySlot = [s \in Slots |-> {}]
    /\ closedDones = {} /\ panicked = FALSE
    /\ backendUp \in [Backends -> BOOLEAN]
    /\ subs = {} /\ pending = [b \in Backends |-> {}]
    /\ todo = [x \in Actors |-> <<>>]
    /\ target = [a \in Admins |-> NoTarget]
    /\ sawUp = [a \in Admins |-> FALSE] /\ watchGen = [a \in Admins |-> 0]
    /\ unsubs = [x \in Actors |-> {}] /\ tDone = [x \in Actors |-> 0]
    /\ toClose = [x \in Actors |-> {}]
    /\ pc = [o \in Objects |-> "idle"] /\ slot = [o \in Objects |-> None]
    /\ opGen = [o \in Objects |-> 0] /\ open = [o \in Objects |-> FALSE]

-----------------------------------------------------------------------------
(* What every change of state ends with.                                   *)

(* delete(r.bySlot[i], id) for the objects O, in every slot.               *)
Forget(O) == [s \in Slots |-> bySlot[s] \ O]

(* Fault: drainTrackedLocked leaves bySlot alone.                          *)
ClearedNot == bySlot

(* clear(r.bySlot[i]) for every slot.                                      *)
Cleared == [s \in Slots |-> {}]

(* Fault: Close takes the channel of a Router that is down already.        *)
LiveDoneAlways == done

(* The channel that calls may be waiting on.                               *)
LiveDone == IF up THEN done ELSE 0

(* Fault: the old subscription is overwritten.                             *)
OldSubForgotten(s) == {}

(* The unsubscribe function that a slot holds, if any.                     *)
OldSub(s) == {slotSub[s]} \ {None}

(* Fault: a new generation is not counted.                                 *)
NextGenSame == gen

NextGen == gen + 1

(* applyAutoStateLocked and applyEffectiveStateLocked for the new values   *)
(* want, sl and su, with r.closers already without old.  Actor x takes     *)
(* away what it has to close.                                              *)
ApplyState(x, want, sl, su, old) ==
    LET auto  == \E s \in Slots : sl[s] # None /\ su[s]
        newUp == want /\ auto /\ ~closed
    IN  /\ up' = newUp
        /\ gen' = IF newUp = up THEN gen ELSE NextGen
        /\ done' = IF newUp /\ ~up THEN gen + 1 ELSE done
        /\ closers' = IF newUp = up THEN closers \ old ELSE {}
        /\ bySlot' = IF up /\ ~newUp THEN Cleared ELSE Forget(old)
        /\ tDone' = [tDone EXCEPT ![x] = IF up /\ ~newUp THEN done ELSE 0]
        /\ toClose' = [toClose EXCEPT
               ![x] = IF up /\ ~newUp THEN old \cup closers ELSE old]

(* setSlotUp: nothing happens, but for the unsubscription of a new watch,  *)
(* once the slot has another backend.  A new watch replaces an old one.    *)
SetSlotUp(x, s, g, value, watch) ==
    IF closed \/ slotGen[s] # g
    THEN /\ unsubs' = [unsubs EXCEPT ![x] = watch]
         /\ tDone' = [tDone EXCEPT ![x] = 0]
         /\ toClose' = [toClose EXCEPT ![x] = {}]
         /\ UNCHANGED <<routerVars, slotVars, trackVars>>
    ELSE /\ slotUp' = [slotUp EXCEPT ![s] = value]
         /\ slotSub' = [slotSub EXCEPT ![s] = IF watch = {} THEN @ ELSE CHOOSE w \in watch : TRUE]
         /\ unsubs' = [unsubs EXCEPT ![x] = IF watch = {} THEN {} ELSE OldSub(s)]
         /\ ApplyState(x, wantUp, slots, [slotUp EXCEPT ![s] = value], {})
         /\ UNCHANGED <<wantUp, closed, slots, slotGen>>

(* What actor x does after it releases the lock, if there is anything to   *)
(* do: close the channel, close the objects, unsubscribe.                  *)
Done(x)   == IF tDone'[x] = 0 THEN <<>> ELSE <<"done">>
Shut(x)   == IF toClose'[x] = {} THEN <<>> ELSE <<"close">>
Cancel(x) == IF unsubs'[x] = {} THEN <<>> ELSE <<"unsub">>

Then(x, stages) == todo' = [todo EXCEPT ![x] = stages]

Step(x, stage) == todo[x] # <<>> /\ Head(todo[x]) = stage

Advance(x) == todo' = [todo EXCEPT ![x] = Tail(@)]

(* closeTransition, Close: close(done).                                    *)
CloseDone(x) ==
    /\ Step(x, "done")
    /\ closedDones' = closedDones \cup ({tDone[x]} \ {0})
    /\ panicked' = (panicked \/ tDone[x] \in closedDones)
    /\ tDone' = [tDone EXCEPT ![x] = 0]
    /\ Advance(x)
    /\ UNCHANGED <<routerVars, slotVars, trackVars, backVars, attachVars, unsubs,
                   toClose, objVars>>

(* closeAll: the object unregisters itself and is closed.                  *)
CloseNext(x) ==
    /\ Step(x, "close")
    /\ \E o \in toClose[x] :
          /\ toClose' = [toClose EXCEPT ![x] = @ \ {o}]
          /\ open' = [open EXCEPT ![o] = FALSE]
          /\ closers' = closers \ {o} /\ bySlot' = Forget({o})
    /\ Then(x, Shut(x) \o Tail(todo[x]))
    /\ UNCHANGED <<routerVars, slotVars, doneVars, backVars, attachVars,
                   unsubs, tDone, pc, slot, opGen>>

(* The unsubscribe functions that the transition has taken.                *)
Unsubscribe(x) ==
    /\ Step(x, "unsub")
    /\ subs' = subs \ unsubs[x]
    /\ unsubs' = [unsubs EXCEPT ![x] = {}]
    /\ Advance(x)
    /\ UNCHANGED <<routerVars, slotVars, trackVars, doneVars, backendUp, pending,
                   attachVars, tDone, toClose, objVars>>

-----------------------------------------------------------------------------
(* The administration of the Router.                                       *)

Idle(a) == todo[a] = <<>>

(* replaceSlot by admin a; rest is what follows it.                        *)
ReplaceSlot(a, s, b, value, rest) ==
    IF closed
    THEN /\ Then(a, <<>>)
         /\ UNCHANGED <<routerVars, slotVars, trackVars, transVars>>
    ELSE /\ slots' = [slots EXCEPT ![s] = b]
         /\ slotUp' = [slotUp EXCEPT ![s] = value]
         /\ slotGen' = [slotGen EXCEPT ![s] = @ + 1]
         /\ slotSub' = [slotSub EXCEPT ![s] = None]
         /\ unsubs' = [unsubs EXCEPT ![a] = OldSub(s)]
         /\ ApplyState(a, wantUp, [slots EXCEPT ![s] = b],
                       [slotUp EXCEPT ![s] = value], bySlot[s])
         /\ Then(a, Cancel(a) \o Done(a) \o Shut(a) \o rest)
         /\ UNCHANGED <<wantUp, closed>>

(* Attach no longer needs its variables.                                   *)
EndAttach(a) ==
    /\ target' = [target EXCEPT ![a] = NoTarget]
    /\ sawUp' = [sawUp EXCEPT ![a] = FALSE]
    /\ watchGen' = [watchGen EXCEPT ![a] = 0]

(* Attach reads the state of the backend before it takes the lock.         *)
Attach(a, s, b) ==
    /\ Idle(a) /\ slotGen[s] < MaxSlotGen /\ gen < MaxGen
    /\ target' = [target EXCEPT ![a] = [slot |-> s, backend |-> b]]
    /\ sawUp' = [sawUp EXCEPT ![a] = backendUp[b]]
    /\ Then(a, <<"replace">>)
    /\ UNCHANGED <<routerVars, slotVars, trackVars, doneVars, backVars, watchGen,
                   transVars, objVars>>

AttachReplace(a) ==
    /\ Step(a, "replace") /\ slotGen[target[a].slot] < MaxSlotGen /\ gen < MaxGen
    /\ ReplaceSlot(a, target[a].slot, target[a].backend, sawUp[a],
                   <<"watch", "subscribe", "isup", "set">>)
    /\ IF closed THEN EndAttach(a) ELSE UNCHANGED attachVars
    /\ UNCHANGED <<doneVars, backVars, objVars>>

Detach(a, s) ==
    /\ Idle(a) /\ slotGen[s] < MaxSlotGen /\ gen < MaxGen
    /\ ReplaceSlot(a, s, None, FALSE, <<>>)
    /\ UNCHANGED <<doneVars, backVars, attachVars, objVars>>

(* watchSlot: the generation of the slot, in a critical section of its own.*)
WatchSlot(a) ==
    /\ Step(a, "watch")
    /\ watchGen' = [watchGen EXCEPT ![a] = slotGen[target[a].slot]]
    /\ Advance(a)
    /\ UNCHANGED <<routerVars, slotVars, trackVars, doneVars, backVars, target,
                   sawUp, transVars, objVars>>

(* SubscribeUpDown of the backend; one that is down calls Down at once.    *)
BackendSubscribe(a) ==
    /\ Step(a, "subscribe")
    /\ subs' = subs \cup {Sub(a)}
    /\ Then(a, (IF backendUp[target[a].backend] THEN <<>> ELSE <<"down">>)
                   \o Tail(todo[a]))
    /\ UNCHANGED <<routerVars, slotVars, trackVars, doneVars, backendUp, pending,
                   attachVars, transVars, objVars>>

SubscribedDown(a) ==
    /\ Step(a, "down") /\ gen < MaxGen
    /\ SetSlotUp(a, target[a].slot, watchGen[a], FALSE, {})
    /\ Then(a, Done(a) \o Shut(a) \o Tail(todo[a]))
    /\ UNCHANGED <<doneVars, backVars, attachVars, objVars>>

(* watchSlot asks the backend once it is subscribed, without a lock ...    *)
BackendIsUp(a) ==
    /\ Step(a, "isup")
    /\ sawUp' = [sawUp EXCEPT ![a] = backendUp[target[a].backend]]
    /\ Advance(a)
    /\ UNCHANGED <<routerVars, slotVars, trackVars, doneVars, backVars, target,
                   watchGen, transVars, objVars>>

(* ... and stores the answer.                                              *)
WatchSet(a) ==
    /\ Step(a, "set") /\ gen < MaxGen
    /\ SetSlotUp(a, target[a].slot, watchGen[a], sawUp[a], {Sub(a)})
    /\ Then(a, Done(a) \o Shut(a) \o Cancel(a))
    /\ EndAttach(a)
    /\ UNCHANGED <<doneVars, backVars, objVars>>

Up(a) ==
    /\ Idle(a) /\ ~closed /\ gen < MaxGen
    /\ wantUp' = TRUE
    /\ ApplyState(a, TRUE, slots, slotUp, {})
    /\ Then(a, Done(a) \o Shut(a))
    /\ UNCHANGED <<closed, slotVars, doneVars, backVars, attachVars, unsubs, objVars>>

(* Fault: Down only records the wish.                                      *)
DownLazy(a) ==
    /\ Idle(a) /\ ~closed /\ wantUp' = FALSE
    /\ UNCHANGED <<up, gen, done, closed, slotVars, trackVars, doneVars, backVars,
                   todo, attachVars, transVars, objVars>>

Down(a) ==
    /\ Idle(a) /\ ~closed /\ gen < MaxGen
    /\ wantUp' = FALSE
    /\ ApplyState(a, FALSE, slots, slotUp, {})
    /\ Then(a, Done(a) \o Shut(a))
    /\ UNCHANGED <<closed, slotVars, doneVars, backVars, attachVars, unsubs, objVars>>

(* closePrep.                                                              *)
Close(a) ==
    /\ Idle(a) /\ ~closed
    /\ closed' = TRUE /\ wantUp' = FALSE /\ up' = FALSE /\ gen' = NextGen
    /\ tDone' = [tDone EXCEPT ![a] = LiveDone]
    /\ toClose' = [toClose EXCEPT ![a] = closers]
    /\ closers' = {} /\ bySlot' = Cleared
    /\ unsubs' = [unsubs EXCEPT ![a] = UNION {OldSub(s) : s \in Slots}]
    /\ slotSub' = [s \in Slots |-> None]
    /\ Then(a, Done(a) \o Cancel(a) \o Shut(a))
    /\ UNCHANGED <<done, slots, slotUp, slotGen, doneVars, backVars, attachVars,
                   objVars>>

-----------------------------------------------------------------------------
(* A backend goes up or down and calls its subscribers one after the other,*)
(* from the list it had at that moment.                                    *)
BackendMoves(b) ==
    /\ todo[b] = <<>> /\ pending[b] = {} /\ gen < MaxGen
    /\ backendUp' = [backendUp EXCEPT ![b] = ~@]
    /\ pending' = [pending EXCEPT ![b] = {w \in subs : w.backend = b}]
    /\ UNCHANGED <<routerVars, slotVars, trackVars, doneVars, subs, todo, attachVars,
                   transVars, objVars>>

(* routerSlotUpDown.Up and Down.                                           *)
SlotUpDown(b) ==
    /\ todo[b] = <<>> /\ gen < MaxGen
    /\ \E w \in pending[b] :
          /\ pending' = [pending EXCEPT ![b] = @ \ {w}]
          /\ SetSlotUp(b, w.slot, w.gen, backendUp[b], {})
    /\ Then(b, Done(b) \o Shut(b))
    /\ UNCHANGED <<doneVars, backendUp, subs, attachVars, objVars>>

-----------------------------------------------------------------------------
(* The objects.                                                            *)

Operational == up /\ ~closed

(* begin.  A call that fails is forgotten.                                 *)
Begin(o) ==
    /\ pc[o] = "idle" /\ Operational
    /\ pc' = [pc EXCEPT ![o] = "begun"]
    /\ opGen' = [opGen EXCEPT ![o] = gen]
    /\ UNCHANGED <<routerVars, slotVars, trackVars, doneVars, backVars, todo,
                   attachVars, transVars, slot, open>>

(* routeStarted: the slot is what the RouterCfg says.  Its first critical  *)
(* section makes the test that the second repeats.                         *)
RouteStarted(o, s) ==
    /\ pc[o] = "begun"
    /\ IF Operational /\ gen = opGen[o] /\ slots[s] # None
       THEN /\ pc' = [pc EXCEPT ![o] = "op"]
            /\ slot' = [slot EXCEPT ![o] = s]
            /\ UNCHANGED opGen
       ELSE /\ pc' = [pc EXCEPT ![o] = "idle"]
            /\ opGen' = [opGen EXCEPT ![o] = 0]
            /\ UNCHANGED slot
    /\ UNCHANGED <<routerVars, slotVars, trackVars, doneVars, backVars, todo,
                   attachVars, transVars, open>>

(* runDetachedOp: the backend makes the object, or fails or comes too late *)
(* (DetachedNetwork models the two goroutines).                            *)
OpReturns(o) ==
    /\ pc[o] = "op"
    /\ \/ /\ pc' = [pc EXCEPT ![o] = "made"]
          /\ open' = [open EXCEPT ![o] = TRUE]
          /\ UNCHANGED <<slot, opGen>>
       \/ /\ pc' = [pc EXCEPT ![o] = "idle"]
          /\ slot' = [slot EXCEPT ![o] = None]
          /\ opGen' = [opGen EXCEPT ![o] = 0]
          /\ UNCHANGED open
    /\ UNCHANGED <<routerVars, slotVars, trackVars, doneVars, backVars, todo,
                   attachVars, transVars>>

(* r.closers[id] = c; r.bySlot[slot-1][id] = c.                            *)
Register(o) ==
    /\ closers' = closers \cup {o}
    /\ bySlot' = [bySlot EXCEPT ![slot[o]] = @ \cup {o}]

(* reserveTracked makes the test that finishTracked repeats.               *)
FinishTracked(o) ==
    /\ pc[o] = "made"
    /\ IF Operational /\ gen = opGen[o]
       THEN /\ Register(o)
            /\ pc' = [pc EXCEPT ![o] = "live"]
            /\ UNCHANGED open
       ELSE /\ pc' = [pc EXCEPT ![o] = "closed"]
            /\ open' = [open EXCEPT ![o] = FALSE]
            /\ UNCHANGED trackVars
    /\ UNCHANGED <<routerVars, slotVars, doneVars, backVars, todo, attachVars,
                   transVars, slot, opGen>>

(* Accept on a listener: the wrapped listener returns a connection, ...    *)
Accept(o, l) ==
    /\ pc[o] = "idle" /\ pc[l] = "live" /\ open[l]
    /\ pc' = [pc EXCEPT ![o] = "accepted"]
    /\ slot' = [slot EXCEPT ![o] = slot[l]]
    /\ open' = [open EXCEPT ![o] = TRUE]
    /\ UNCHANGED <<routerVars, slotVars, trackVars, doneVars, backVars, todo,
                   attachVars, transVars, opGen>>

(* Fault: subscribeCloser forgets that a Router can be down.               *)
AcceptUnlessClosed == ~closed

AcceptAllowed == Operational

(* ... and acceptConnCallback subscribes it: subscribeCloser with a slot.  *)
SubscribeAccepted(o) ==
    /\ pc[o] = "accepted"
    /\ IF AcceptAllowed
       THEN /\ Register(o)
            /\ pc' = [pc EXCEPT ![o] = "live"]
            /\ UNCHANGED open
       ELSE /\ pc' = [pc EXCEPT ![o] = "closed"]
            /\ open' = [open EXCEPT ![o] = FALSE]
            /\ UNCHANGED trackVars
    /\ UNCHANGED <<routerVars, slotVars, doneVars, backVars, todo, attachVars,
                   transVars, slot, opGen>>

(* The user closes an object: unregister, then the object itself.          *)
Unregister(o) ==
    /\ pc[o] = "live" /\ open[o]
    /\ closers' = closers \ {o}
    /\ bySlot' = Forget({o})
    /\ pc' = [pc EXCEPT ![o] = "closing"]
    /\ UNCHANGED <<routerVars, slotVars, doneVars, backVars, todo, attachVars,
                   transVars, slot, opGen, open>>

UserShut(o) ==
    /\ pc[o] = "closing"
    /\ pc' = [pc EXCEPT ![o] = "closed"]
    /\ open' = [open EXCEPT ![o] = FALSE]
    /\ UNCHANGED <<routerVars, slotVars, trackVars, doneVars, backVars, todo,
                   attachVars, transVars, slot, opGen>>

Next ==
    \/ \E a \in Admins :
          \/ \E s \in Slots : Detach(a, s) \/ \E b \in Backends : Attach(a, s, b)
          \/ AttachReplace(a) \/ WatchSlot(a) \/ BackendSubscribe(a)
          \/ SubscribedDown(a) \/ BackendIsUp(a) \/ WatchSet(a)
          \/ Up(a) \/ Down(a) \/ Close(a)
    \/ \E x \in Actors : CloseDone(x) \/ CloseNext(x) \/ Unsubscribe(x)
    \/ \E b \in Backends : BackendMoves(b) \/ SlotUpDown(b)
    \/ \E o \in Calls : Begin(o) \/ OpReturns(o) \/ FinishTracked(o)
    \/ \E o \in Calls, s \in Slots : RouteStarted(o, s)
    \/ \E o \in Accepts : SubscribeAccepted(o) \/ \E l \in Calls : Accept(o, l)
    \/ \E o \in Objects : Unregister(o) \/ UserShut(o)

Spec == Init /\ [][Next]_vars

-----------------------------------------------------------------------------
Stages == {"replace", "unsub", "done", "close", "watch", "subscribe", "down",
           "isup", "set"}

Subscriptions == [by : Admins, slot : Slots, gen : Nat, backend : Backends]

(* Type invariant.                                                         *)
TypeOK ==
    /\ wantUp \in BOOLEAN /\ up \in BOOLEAN /\ closed \in BOOLEAN
    /\ gen \in Nat /\ done \in 1 .. gen
    /\ slots \in [Slots -> Backends \cup {None}] /\ slotUp \in [Slots -> BOOLEAN]
    /\ slotGen \in [Slots -> 0 .. MaxSlotGen]
    /\ slotSub \in [Slots -> Subscriptions \cup {None}]
    /\ closers \subseteq Objects /\ bySlot \in [Slots -> SUBSET Objects]
    /\ closedDones \subseteq 1 .. gen /\ panicked \in BOOLEAN
    /\ backendUp \in [Backends -> BOOLEAN] /\ subs \subseteq Subscriptions
    /\ pending \in [Backends -> SUBSET Subscriptions]
    /\ todo \in [Actors -> Seq(Stages)]
    /\ target \in [Admins -> [slot : Slots, backend : Backends] \cup {NoTarget}]
    /\ sawUp \in [Admins -> BOOLEAN] /\ watchGen \in [Admins -> Nat]
    /\ unsubs \in [Actors -> SUBSET Subscriptions]
    /\ tDone \in [Actors -> 0 .. gen] /\ toClose \in [Actors -> SUBSET Objects]
    /\ pc \in [Objects -> {"idle", "begun", "op", "made", "accepted", "live",
                           "closing", "closed"}]
    /\ slot \in [Objects -> Slots \cup {None}] /\ opGen \in [Objects -> 0 .. gen]
    /\ open \in [Objects -> BOOLEAN]

(* "A Router is operational only when it has not been forced down with     *)
(* Down and at least one attached backend slot is operational."            *)
EffectiveState ==
    up <=> wantUp /\ ~closed /\ \E s \in Slots : slots[s] # None /\ slotUp[s]

(* close(done) runs outside the lock in Attach, Detach, setSlotUp, Down    *)
(* and Close; no channel is closed twice, which would panic.               *)
DoneClosedOnce == ~panicked

(* r.closers and r.bySlot are kept apart in every function but hold the    *)
(* same objects, each in the slot that it was opened through.              *)
SlotIndexExact ==
    \A o \in Objects, s \in Slots :
        o \in bySlot[s] <=> o \in closers /\ slot[o] = s

(* Close, Down and Detach "close all objects returned by the Router": an   *)
(* open object that a user holds is tracked by a Router that is up, or     *)
(* somebody is about to close it.  Replacing the maps when the Router goes *)
(* up loses nothing.                                                       *)
NoObjectLost ==
    \A o \in Objects : pc[o] = "live" /\ open[o] =>
        \/ up /\ o \in closers
        \/ \E x \in Actors : o \in toClose[x] /\ Contains(todo[x], "close")

(* Attach, Detach and Close leave no subscription behind at a backend: it  *)
(* is that of a slot, or somebody is about to cancel it or to store it.    *)
NoSubscriptionLeaked ==
    \A w \in subs :
        \/ slotSub[w.slot] = w
        \/ \E x \in Actors : w \in unsubs[x] /\ Contains(todo[x], "unsub")
        \/ Contains(todo[w.by], "set") /\ Sub(w.by) = w

Quiet == \A x \in Actors : todo[x] = <<>> /\ (x \in Backends => pending[x] = {})

(* "Empty slots and attached UpDown backends that are down or closed do    *)
(* not keep the Router up": when nothing is running, a Router that is up   *)
(* has a backend that is up.                                               *)
DownBackendsKeepNothingUp ==
    Quiet /\ up => \E s \in Slots : slots[s] # None /\ backendUp[slots[s]]
============================================================================

----------------------- MODULE DetachedNetwork_proofs -----------------------
(***************************************************************************)
(* Theorems about DetachedNetwork, for any number of calls, lifecycle      *)
(* callers and subscribers: the inductive invariant and that every step    *)
(* keeps it, what it implies, and the refinement of NetworkContract.       *)
(***************************************************************************)
EXTENDS DetachedNetwork, TLAPS

----------------------------------------------------------------------------
(* The inductive invariant, one part per concern. *)

(* What a call holds at each place it can be. *)
CallInv ==
    \A p \in Calls :
        /\ result[p] = "running" => pc[p] \in {"wait", "late"}
        /\ pc[p] \in {"idle", "resolve", "accept"} => obj[p] = "none" /\ result[p] = "none"
        /\ pc[p] \in {"wait", "late"} =>
              /\ result[p] = "running" => obj[p] = "none"
              /\ result[p] = "err" => obj[p] = "none"
              /\ result[p] = "ok" => obj[p] = IF kind[p] = "lookup" THEN "none" ELSE "open"
        /\ pc[p] \in InCall \ {"wait", "late"} => obj[p] = "open"
        /\ pc[p] \in {"accept", "onAccept", "acceptTrack", "acceptRegister"} => kind[p] = "accept"
        /\ pc[p] \in AfterReturn => obj[p] # "none"
        /\ pc[p] = "over" => obj[p] # "open"
        /\ pc[p] = "closed" => obj[p] = "closed"
        /\ pc[p] = "live" /\ obj[p] = "open" => p \in closers \/ Doomed(p)

(* A registered object is open and belongs to the generation that is up;   *)
(* an object that a Down or Close took is registered no more.              *)
CloserInv ==
    /\ \A p \in closers :
          /\ pc[p] \in {"live", "unregister"}
          /\ obj[p] = "open"
          /\ Operational
          /\ kind[p] # "accept" => opGen[p] = gen
    /\ \A c \in Callers : \A x \in Calls :
          x \in toClose[c] \/ cur[c] = x => pc[x] \in AfterReturn /\ x \notin closers

(* What a lifecycle caller holds at each place it can be. *)
CallerInv ==
    \A c \in Callers :
        /\ cpc[c] \notin {"unregister", "shut"} => cur[c] = None
        /\ cpc[c] \in {"unregister", "shut"} => cur[c] \in Calls
        /\ cpc[c] \notin {"closeDone", "closeAll", "unregister", "shut"} => toClose[c] = {}
        /\ cpc[c] # "closeDone" => cdone[c] = 0
        /\ cpc[c] \in {"idle", "upAll"} => toShut[c] = {}

(* Every done channel that is not the current one was closed or has exactly *)
(* one caller that is going to close it.                                    *)
DoneInv ==
    /\ 0 \notin closedDones
    /\ 1 <= done /\ done <= gen
    /\ \A d \in closedDones : d <= gen
    /\ closed => ~up
    /\ up => done \notin closedDones /\ \A c \in Callers : cdone[c] # done
    /\ \A c \in Callers :
          /\ cdone[c] <= gen
          /\ cdone[c] \notin closedDones
          /\ \A d \in Callers : c # d /\ cdone[c] # 0 => cdone[c] # cdone[d]

(* A call that waits holds a real channel, and does not miss its closing. *)
WaitInv ==
    /\ CancelNeverLost
    /\ \A p \in Calls : pc[p] \in {"resolve", "wait"} => opDone[p] # 0

(* Closer subscriptions. *)
SubInv ==
    \A u \in Subs :
        /\ subClosed[u] => closed
        /\ u \in closeSubs => ~closed
        /\ kpc[u] = "pending" => closed
        /\ \A c \in Callers : u \in toShut[c] => closed
        /\ kpc[u] = "in" => \/ u \in closeSubs
                            \/ subClosed[u]
                            \/ \E c \in Callers : u \in toShut[c]

IInv ==
    /\ TypeOK /\ CallInv /\ CloserInv /\ CallerInv
    /\ DoneInv /\ DoneClosedOnce /\ WaitInv /\ SubInv
----------------------------------------------------------------------------
(* Frames. *)

(* A step of a call leaves the generation, the done channels, the lifecycle *)
(* callers and the subscriptions alone.                                     *)
LEMMA CallFrame ==
    ASSUME NEW p \in Calls, CallEnv(p) \/ CallSteps(p)
    PROVE  UNCHANGED <<up, closed, gen, done, chanVars, ctlVars, subVars>>
  BY Zenon DEF CallEnv, CallSteps,
     Begin, Accept, Resolve, WrappedReturns, AcceptReturns, SelectCtx, UserClose, SelectResult, SelectDone, LateClose,
     Track, Register, Discard, RunOnAccept, AcceptTrack, AcceptRegister, UserUnregister, UserShut,
     lockVars, chanVars, callVars, objVars, ctlVars, subVars

(* A step of Up, Down or Close leaves the calls alone, and who subscribed. *)
LEMMA CallerFrame ==
    ASSUME NEW c \in Callers, CallerEnv(c) \/ CallerSteps(c)
    PROVE  UNCHANGED <<callVars, updowns, upc, kpc>>
  BY Zenon DEF CallerEnv, CallerSteps,
     Up, Down, Close, CloseDone, CloseNext, Unregister, Shut, ClosedAll, MoveNext, MovedAll,
     ShutNext, Return,
     lockVars, chanVars, callVars, objVars, ctlVars, subVars

(* What of a lifecycle call runs outside n.mu. *)
Sweeps(c) ==
    \/ \E x \in Calls : CloseNext(c, x)
    \/ \E u \in Subs : MoveNext(c, u) \/ ShutNext(c, u)
    \/ Unregister(c) \/ Shut(c) \/ ClosedAll(c) \/ MovedAll(c) \/ Return(c)

(* Only Up, Down, Close and close(done) touch the generation, the done     *)
(* channels or who holds one.                                              *)
LEMMA SweepFrame ==
    ASSUME NEW c \in Callers, Sweeps(c)
    PROVE  UNCHANGED <<up, closed, gen, done, chanVars, callVars, cdone, updowns, closeSubs, upc, kpc>>
  BY Zenon DEF Sweeps, CloseNext, Unregister, Shut, ClosedAll, MoveNext, MovedAll, ShutNext, Return,
     lockVars, chanVars, callVars, objVars, ctlVars, subVars

(* A subscription touches nothing but the subscribers. *)
LEMMA SubFrame ==
    ASSUME NEW u \in Subs, SubEnv(u) \/ SubSteps(u)
    PROVE  UNCHANGED <<lockVars, chanVars, callVars, objVars, ctlVars>>
  BY Zenon DEF SubEnv, SubSteps,
     SubscribeUpDown, UnregisterUpDown, SubscribeCloser, UnregisterCloseSub, SubscribeDown, SubscribeClose,
     lockVars, chanVars, callVars, objVars, ctlVars, subVars

----------------------------------------------------------------------------
(* Each part of the inductive invariant is preserved. *)

(* The types of what the calls change. *)
CallTypes ==
    /\ closers \subseteq Calls
    /\ pc \in [Calls -> CallPCs] /\ kind \in [Calls -> Kinds]
    /\ opGen \in [Calls -> Gens] /\ opDone \in [Calls -> Gens]
    /\ lst \in [Calls -> Calls \cup {None}]
    /\ result \in [Calls -> {"none", "running", "ok", "err"}]
    /\ obj \in [Calls -> {"none", "open", "closed"}]
    /\ stopped \in [Calls -> BOOLEAN]

(* A step of a call keeps those types. *)
LEMMA CallTypesCorrect ==
    ASSUME NEW p \in Calls, CallEnv(p) \/ CallSteps(p), CallTypes, gen \in Gens, done \in Gens
    PROVE  CallTypes'
<1> USE DEF CallTypes, CallPCs, Kinds, Goto
<1>1. ASSUME NEW k \in Kinds, Begin(p, k) PROVE CallTypes'
  <2>1. pc' \in [Calls -> CallPCs] /\ kind' \in [Calls -> Kinds]
    BY Zenon, <1>1 DEF Begin
  <2>2. opGen' \in [Calls -> Gens] /\ opDone' \in [Calls -> Gens]
    BY <1>1 DEF Begin
  <2> QED
    BY Zenon, <1>1, <2>1, <2>2 DEF Begin, lockVars, objVars
<1>2. ASSUME NEW l \in Calls, Accept(p, l) PROVE CallTypes'
  BY Zenon, <1>2 DEF Accept, lockVars, objVars
<1>3. CASE Resolve(p)
  BY Zenon, <1>3 DEF Resolve, lockVars, objVars
<1>4. CASE WrappedReturns(p)
  BY Zenon, <1>4 DEF WrappedReturns, lockVars
<1>5. CASE AcceptReturns(p)
  BY <1>5 DEF AcceptReturns, lockVars
<1>6. CASE SelectCtx(p)
  BY Zenon, <1>6 DEF SelectCtx, lockVars, objVars
<1>7. CASE UserClose(p)
  BY Zenon, <1>7 DEF UserClose, lockVars
<1>8. CASE SelectResult(p)
  BY Zenon, <1>8 DEF SelectResult, lockVars, objVars
<1>9. CASE SelectDone(p)
  BY Zenon, <1>9 DEF SelectDone, lockVars, objVars
<1>10. CASE LateClose(p)
  BY Zenon, <1>10 DEF LateClose, lockVars
<1>11. CASE Track(p)
  BY Zenon, <1>11 DEF Track, objVars
<1>12. CASE Register(p)
  BY <1>12 DEF Register, objVars
<1>13. CASE Discard(p)
  BY Zenon, <1>13 DEF Discard
<1>14. CASE RunOnAccept(p)
  BY Zenon, <1>14 DEF RunOnAccept, lockVars, objVars
<1>15. CASE AcceptTrack(p)
  BY Zenon, <1>15 DEF AcceptTrack, lockVars, objVars
<1>16. CASE AcceptRegister(p)
  BY <1>16 DEF AcceptRegister, objVars
<1>17. CASE UserUnregister(p)
  BY Zenon, <1>17 DEF UserUnregister, objVars
<1>18. CASE UserShut(p)
  BY Zenon, <1>18 DEF UserShut, lockVars
<1> QED
  BY Zenon, <1>1, <1>2, <1>3, <1>4, <1>5, <1>6, <1>7, <1>8, <1>9, <1>10,
     <1>11, <1>12, <1>13, <1>14, <1>15, <1>16, <1>17, <1>18 DEF CallEnv, CallSteps

(* The types of what Down and Close change once they let go of n.mu. *)
SweepTypes ==
    /\ closers \subseteq Calls
    /\ obj \in [Calls -> {"none", "open", "closed"}] /\ stopped \in [Calls -> BOOLEAN]
    /\ cpc \in [Callers -> CallerPCs]
    /\ toClose \in [Callers -> SUBSET Calls] /\ cur \in [Callers -> Calls \cup {None}]
    /\ toMove \in [Callers -> SUBSET Subs] /\ toShut \in [Callers -> SUBSET Subs]
    /\ subUp \in [Subs -> BOOLEAN] /\ subClosed \in [Subs -> BOOLEAN]

(* Those steps keep those types. *)
LEMMA SweepTypesCorrect ==
    ASSUME NEW c \in Callers, Sweeps(c), SweepTypes
    PROVE  SweepTypes'
<1> USE DEF SweepTypes, CallerPCs
<1>1. ASSUME NEW x \in Calls, CloseNext(c, x) PROVE SweepTypes'
  BY Zenon, <1>1 DEF CloseNext, lockVars, subVars
<1>2. CASE Unregister(c)
  BY Zenon, <1>2 DEF Unregister, objVars, subVars
<1>3. CASE Shut(c)
  BY Zenon, <1>3 DEF Shut, lockVars, subVars
<1>4. CASE ClosedAll(c)
  BY Zenon, <1>4 DEF ClosedAll, lockVars, objVars, subVars
<1>5. ASSUME NEW u \in Subs, MoveNext(c, u) PROVE SweepTypes'
  BY Zenon, <1>5 DEF MoveNext, lockVars, objVars
<1>6. CASE MovedAll(c)
  BY Zenon, <1>6 DEF MovedAll, lockVars, objVars, subVars
<1>7. ASSUME NEW u \in Subs, ShutNext(c, u) PROVE SweepTypes'
  BY Zenon, <1>7 DEF ShutNext, lockVars, objVars
<1>8. CASE Return(c)
  BY Zenon, <1>8 DEF Return, lockVars, objVars, subVars
<1> QED
  BY Zenon, <1>1, <1>2, <1>3, <1>4, <1>5, <1>6, <1>7, <1>8 DEF Sweeps

(* No step leaves the types, the generation bound included. *)
LEMMA TypeCorrect == TypeOK /\ [Next]_vars => TypeOK'
<1> SUFFICES ASSUME TypeOK, [Next]_vars PROVE TypeOK'
  BY Zenon
<1>1. ASSUME NEW p \in Calls, CallEnv(p) \/ CallSteps(p) PROVE TypeOK'
  <2>1. CallTypes /\ gen \in Gens /\ done \in Gens
    BY Zenon DEF TypeOK, CallTypes
  <2>2. CallTypes'
    BY Zenon, <1>1, <2>1, CallTypesCorrect
  <2>3. UNCHANGED <<up, closed, gen, done, chanVars, ctlVars, subVars>>
    BY Zenon, <1>1, CallFrame
  <2> QED
    BY Zenon, <2>2, <2>3 DEF TypeOK, CallTypes, chanVars, ctlVars, subVars
<1>2. ASSUME NEW c \in Callers, Sweeps(c) PROVE TypeOK'
  <2>1. SweepTypes
    BY Zenon DEF TypeOK, SweepTypes
  <2>2. SweepTypes'
    BY Zenon, <1>2, <2>1, SweepTypesCorrect
  <2>3. UNCHANGED <<up, closed, gen, done, chanVars, callVars, cdone, updowns, closeSubs, upc, kpc>>
    BY Zenon, <1>2, SweepFrame
  <2> QED
    BY Zenon, <2>2, <2>3 DEF TypeOK, SweepTypes, chanVars, callVars
<1>3. ASSUME NEW c \in Callers, CallerEnv(c) \/ CallerSteps(c) PROVE TypeOK'
  <2> USE DEF TypeOK, CallerPCs, Operational
  <2>1. CASE Up(c)
    <3>1. gen' \in Gens /\ done' \in Gens
      BY <2>1, GenAssumption DEF Up, Gens
    <3>2. toMove' \in [Callers -> SUBSET Subs] /\ cpc' \in [Callers -> CallerPCs]
      BY Zenon, <2>1 DEF Up
    <3> QED
      BY Zenon, <2>1, <3>1, <3>2 DEF Up, chanVars, callVars, objVars, subVars
  <2>2. CASE Down(c)
    <3>1. gen' \in Gens /\ cdone' \in [Callers -> Gens] /\ cpc' \in [Callers -> CallerPCs]
      BY <2>2, GenAssumption DEF Down, Gens
    <3>2. toClose' \in [Callers -> SUBSET Calls] /\ toMove' \in [Callers -> SUBSET Subs]
      BY Zenon, <2>2 DEF Down
    <3> QED
      BY Zenon, <2>2, <3>1, <3>2 DEF Down, lockVars, chanVars, callVars, objVars, ctlVars, subVars
  <2>3. CASE Close(c)
    <3>1. gen' \in Gens /\ cdone' \in [Callers -> Gens] /\ cpc' \in [Callers -> CallerPCs]
      BY <2>3, GenAssumption DEF Close, Gens
    <3>2. /\ toClose' \in [Callers -> SUBSET Calls]
          /\ toMove' \in [Callers -> SUBSET Subs]
          /\ toShut' \in [Callers -> SUBSET Subs]
      BY Zenon, <2>3 DEF Close
    <3> QED
      BY Zenon, <2>3, <3>1, <3>2 DEF Close, lockVars, chanVars, callVars, objVars, ctlVars, subVars
  <2>4. CASE CloseDone(c)
    <3>1. panicked' \in BOOLEAN
      BY <2>4, Zenon DEF CloseDone
    <3>2. closedDones' \subseteq Gens
      <4>1. cdone[c] \in Gens
        BY Zenon
      <4> QED
        BY Zenon, <2>4, <4>1 DEF CloseDone
    <3>3. cdone' \in [Callers -> Gens] /\ cpc' \in [Callers -> CallerPCs]
      BY <2>4, GenAssumption DEF CloseDone, Gens
    <3> QED
      BY Zenon, <2>4, <3>1, <3>2, <3>3 DEF CloseDone, lockVars, callVars, objVars, ctlVars, subVars
  <2> QED
    BY Zenon, <1>2, <1>3, <2>1, <2>2, <2>3, <2>4 DEF CallerEnv, CallerSteps, Sweeps
<1>4. ASSUME NEW u \in Subs, SubEnv(u) \/ SubSteps(u) PROVE TypeOK'
  <2> DEFINE SubTypes ==
        /\ updowns \subseteq Subs /\ closeSubs \subseteq Subs
        /\ upc \in [Subs -> SubPCs] /\ kpc \in [Subs -> SubPCs]
        /\ subUp \in [Subs -> BOOLEAN] /\ subClosed \in [Subs -> BOOLEAN]
  <2>a. SubTypes
    BY Zenon DEF TypeOK
  <2>b. SUFFICES SubTypes'
    <3>1. UNCHANGED <<lockVars, chanVars, callVars, objVars, ctlVars>>
      BY Zenon, <1>4, SubFrame
    <3> QED
      BY Zenon, <3>1 DEF TypeOK, lockVars, chanVars, callVars, objVars, ctlVars
  <2> USE DEF SubPCs
  <2>1. CASE SubscribeUpDown(u)
    BY Zenon, <2>a, <2>1 DEF SubscribeUpDown
  <2>2. CASE UnregisterUpDown(u)
    BY Zenon, <2>a, <2>2 DEF UnregisterUpDown
  <2>3. CASE SubscribeCloser(u)
    BY Zenon, <2>a, <2>3 DEF SubscribeCloser
  <2>4. CASE UnregisterCloseSub(u)
    BY Zenon, <2>a, <2>4 DEF UnregisterCloseSub
  <2>5. CASE SubscribeDown(u)
    BY Zenon, <2>a, <2>5 DEF SubscribeDown
  <2>6. CASE SubscribeClose(u)
    BY Zenon, <2>a, <2>6 DEF SubscribeClose
  <2> QED
    BY Zenon, <1>4, <2>1, <2>2, <2>3, <2>4, <2>5, <2>6 DEF SubEnv, SubSteps
<1>5. CASE UNCHANGED vars
  BY Zenon, <1>5 DEF TypeOK, vars, lockVars, chanVars, callVars, objVars, ctlVars, subVars
<1> QED
  BY Zenon, <1>1, <1>3, <1>4, <1>5 DEF Next

(* A call holds what it should at every place: an open object until it is  *)
(* registered or closed, and none after it gave up.                        *)
LEMMA CallInvCorrect == IInv /\ [Next]_vars => CallInv'
<1> SUFFICES ASSUME IInv, [Next]_vars PROVE CallInv'
  BY Zenon
<1>0. /\ CallInv /\ closers \subseteq Calls
      /\ pc \in [Calls -> CallPCs] /\ kind \in [Calls -> Kinds]
      /\ result \in [Calls -> {"none", "running", "ok", "err"}]
      /\ obj \in [Calls -> {"none", "open", "closed"}]
  BY Zenon DEF IInv, TypeOK
<1>c. CallerInv /\ CloserInv /\ toClose \in [Callers -> SUBSET Calls] /\ cur \in [Callers -> Calls \cup {None}]
  BY Zenon DEF IInv, TypeOK
<1> USE <1>0 DEF CallInv, Goto, InCall, AfterReturn
<1>1. ASSUME NEW p \in Calls, CallEnv(p) \/ CallSteps(p) PROVE CallInv'
  <2>1. CASE WrappedReturns(p)
    BY <2>1 DEF Doomed, WrappedReturns, lockVars, chanVars, callVars, objVars, ctlVars, subVars
  <2>2. CASE AcceptReturns(p)
    BY <2>2 DEF Doomed, AcceptReturns, lockVars, chanVars, callVars, objVars, ctlVars, subVars
  <2>3. CASE SelectResult(p)
    BY <2>3 DEF Doomed, SelectResult, lockVars, chanVars, callVars, objVars, ctlVars, subVars
  <2>4. CASE LateClose(p)
    BY <2>4 DEF Doomed, LateClose, lockVars, chanVars, callVars, objVars, ctlVars, subVars
  <2>5. CASE Track(p)
    BY <2>5 DEF Doomed, Track, Current, Operational, lockVars, chanVars, callVars, objVars, ctlVars, subVars
  <2>6. CASE Register(p)
    BY <2>6 DEF Doomed, Register, lockVars, chanVars, callVars, objVars, ctlVars, subVars
  <2>7. CASE Discard(p)
    BY <2>7 DEF Doomed, Discard, lockVars, chanVars, callVars, objVars, ctlVars, subVars
  <2>8. CASE AcceptRegister(p)
    BY <2>8 DEF Doomed, AcceptRegister, lockVars, chanVars, callVars, objVars, ctlVars, subVars
  <2>9. CASE UserUnregister(p)
    BY <2>9 DEF Doomed, UserUnregister, lockVars, chanVars, callVars, objVars, ctlVars, subVars
  <2>10. CASE UserShut(p)
    BY <2>10 DEF Doomed, UserShut, lockVars, chanVars, callVars, objVars, ctlVars, subVars
  <2>11. CASE (\E k \in Kinds : Begin(p, k)) \/ (\E l \in Calls : Accept(p, l)) \/ Resolve(p) \/ SelectCtx(p) \/ UserClose(p)
           \/ SelectDone(p) \/ RunOnAccept(p) \/ AcceptTrack(p)
    BY <2>11 DEF Doomed, Begin, Accept, Resolve, SelectCtx, UserClose, SelectDone, RunOnAccept, AcceptTrack,
       lockVars, chanVars, callVars, objVars, ctlVars, subVars
  <2> QED
    BY Zenon, <1>1, <2>1, <2>2, <2>3, <2>4, <2>5, <2>6, <2>7, <2>8, <2>9, <2>10,
       <2>11 DEF CallEnv, CallSteps
<1>2. ASSUME NEW c \in Callers, CallerEnv(c) \/ CallerSteps(c) PROVE CallInv'
  <2> DEFINE Kept == \A q \in Calls : q \in closers \/ Doomed(q) => q \in closers' \/ Doomed(q)'
  <2>0. ASSUME UNCHANGED <<callVars, obj>>, Kept PROVE CallInv'
    BY Zenon, <2>0 DEF callVars
  <2>1. CASE Down(c) \/ Close(c)
    <3>1. /\ UNCHANGED <<callVars, obj, cur>> /\ toClose' = [toClose EXCEPT ![c] = closers]
          /\ toClose[c] = {}
      BY Zenon, <2>1, <1>c DEF Down, Close, CallerInv, objVars
    <3>2. Kept
      BY Zenon, <1>c, <3>1 DEF Doomed
    <3> QED
      BY Zenon, <2>0, <3>1, <3>2
  <2>2. ASSUME NEW x \in Calls, CloseNext(c, x) PROVE CallInv'
    <3>1. /\ UNCHANGED <<callVars, obj, closers>> /\ cur[c] = None
          /\ cur' = [cur EXCEPT ![c] = x] /\ toClose' = [toClose EXCEPT ![c] = @ \ {x}]
      BY Zenon, <2>2, <1>c DEF CloseNext, CallerInv, lockVars
    <3>2. Kept
      BY <1>c, <3>1, NoneAssumption DEF Doomed
    <3> QED
      BY Zenon, <2>0, <3>1, <3>2
  <2>3. CASE Shut(c)
    <3>1. /\ UNCHANGED <<callVars, closers, toClose>> /\ cur[c] \in Calls
          /\ cur' = [cur EXCEPT ![c] = None] /\ obj' = [obj EXCEPT ![cur[c]] = "closed"]
      BY Zenon, <2>3, <1>c DEF Shut, CallerInv, lockVars
    <3>2. \A q \in Calls : q # cur[c] /\ (q \in closers \/ Doomed(q)) => q \in closers' \/ Doomed(q)'
      BY Zenon, <1>c, <3>1 DEF Doomed
    <3>3. pc[cur[c]] \in AfterReturn
      BY Zenon, <1>c, <3>1 DEF CloserInv
    <3> QED
      BY Zenon, <3>1, <3>2, <3>3 DEF callVars
  <2>4. CASE Unregister(c)
    <3>1. /\ UNCHANGED <<callVars, obj, toClose, cur>> /\ closers' = closers \ {cur[c]}
      BY Zenon, <2>4 DEF Unregister, objVars
    <3>2. Kept
      BY Zenon, <1>c, <3>1 DEF Doomed
    <3> QED
      BY Zenon, <2>0, <3>1, <3>2
  <2>5. CASE Up(c) \/ CloseDone(c) \/ ClosedAll(c) \/ (\E u \in Subs : MoveNext(c, u) \/ ShutNext(c, u))
           \/ MovedAll(c) \/ Return(c)
    <3>1. UNCHANGED <<callVars, obj, closers, toClose, cur>>
      BY Zenon, <2>5 DEF Up, CloseDone, ClosedAll, MoveNext, MovedAll, ShutNext, Return, lockVars, objVars
    <3>2. Kept
      BY Zenon, <3>1 DEF Doomed
    <3> QED
      BY Zenon, <2>0, <3>1, <3>2
  <2> QED
    BY Zenon, <1>2, <2>1, <2>2, <2>3, <2>4, <2>5 DEF CallerEnv, CallerSteps
<1>3. ASSUME NEW u \in Subs, SubEnv(u) \/ SubSteps(u) PROVE CallInv'
  <2>1. UNCHANGED <<pc, kind, result, obj, closers, toClose, cur>>
    BY Zenon, <1>3, SubFrame DEF lockVars, callVars, objVars, ctlVars
  <2> QED
    BY Zenon, <2>1 DEF Doomed
<1>4. CASE UNCHANGED vars
  BY <1>4 DEF Doomed, vars, lockVars, chanVars, callVars, objVars, ctlVars, subVars
<1> QED
  BY Zenon, <1>1, <1>2, <1>3, <1>4 DEF Next

(* What is registered is open and of the generation that is up. *)
LEMMA CloserInvCorrect == IInv /\ [Next]_vars => CloserInv'
<1> SUFFICES ASSUME IInv, [Next]_vars PROVE CloserInv'
  BY Zenon
<1>0. /\ CloserInv /\ closers \subseteq Calls
      /\ pc \in [Calls -> CallPCs] /\ kind \in [Calls -> Kinds] /\ opGen \in [Calls -> Gens]
      /\ obj \in [Calls -> {"none", "open", "closed"}]
  BY Zenon DEF IInv, TypeOK
<1>a. CallInv
  BY Zenon DEF IInv
<1>c. CallerInv /\ toClose \in [Callers -> SUBSET Calls] /\ cur \in [Callers -> Calls \cup {None}]
  BY Zenon DEF IInv, TypeOK
<1> USE <1>0 DEF CloserInv, Operational, AfterReturn
<1> DEFINE Returned == \A q \in Calls : pc[q] \in AfterReturn => pc'[q] \in AfterReturn
           Same == \A q \in closers' : kind'[q] = kind[q] /\ opGen'[q] = opGen[q]
           Alive == \A q \in closers' : pc'[q] \in {"live", "unregister"} /\ obj'[q] = "open"
<1>s. ASSUME UNCHANGED <<up, closed, gen, toClose, cur>>, closers' \subseteq closers, Returned, Same, Alive
      PROVE  CloserInv'
  BY <1>s
<1>r. ASSUME NEW p \in Calls, UNCHANGED <<up, closed, gen, toClose, cur, kind, opGen, obj>>, Operational,
             kind[p] # "accept" => opGen[p] = gen,
             closers' = closers \cup {p}, pc' = [pc EXCEPT ![p] = "live"],
             pc[p] \notin AfterReturn, obj[p] = "open"
      PROVE  CloserInv'
  BY Zenon, <1>r
<1>1. ASSUME NEW p \in Calls, CallEnv(p) \/ CallSteps(p) PROVE CloserInv'
  <2>0. UNCHANGED <<up, closed, gen, toClose, cur>>
    BY Zenon, <1>1, CallFrame DEF ctlVars
  <2> HIDE DEF Returned, Same, Alive
  <2>1. ASSUME NEW k \in Kinds, Begin(p, k) PROVE CloserInv'
    <3>1. closers' = closers /\ Returned /\ Same /\ Alive
      BY Zenon, <2>1 DEF Begin, Goto, lockVars, objVars, Returned, Same, Alive
    <3> QED
      BY Zenon, <1>s, <2>0, <3>1
  <2>2. CASE Track(p) \/ Register(p) \/ AcceptRegister(p)
    <3>1. pc[p] \notin AfterReturn /\ obj[p] = "open" /\ (pc[p] = "acceptRegister" => kind[p] = "accept")
      BY Zenon, <1>a, <2>2 DEF CallInv, InCall, Track, Register, AcceptRegister
    <3>2. UNCHANGED <<kind, opGen, obj>>
      BY Zenon, <2>2 DEF Track, Register, AcceptRegister, objVars
    <3>3. CASE Operational /\ closers' = closers \cup {p} /\ Goto(p, "live") /\ (kind[p] # "accept" => opGen[p] = gen)
      BY Zenon, <1>r, <2>0, <3>1, <3>2, <3>3 DEF Goto
    <3>4. CASE UNCHANGED closers /\ (Goto(p, "register") \/ Goto(p, "discard"))
      <4>1. Returned /\ Same /\ Alive
        BY Zenon, <3>1, <3>2, <3>4 DEF Goto, Returned, Same, Alive
      <4> QED
        BY Zenon, <1>s, <2>0, <3>4, <4>1
    <3> QED
      BY <2>2, <3>1, <3>3, <3>4, Zenon DEF Track, Register, AcceptRegister, Current, lockVars
  <2>3. CASE LateClose(p) \/ Discard(p) \/ UserShut(p)
    <3>1. closers' \subseteq closers /\ Returned /\ Same
      BY Zenon, <2>3 DEF LateClose, Discard, UserShut, Goto, lockVars, Returned, Same
    <3>2. Alive
      BY Zenon, <2>3 DEF LateClose, Discard, UserShut, Goto, lockVars, Alive
    <3> QED
      BY Zenon, <1>s, <2>0, <3>1, <3>2
  <2>4. CASE UserUnregister(p)
    <3>1. closers' \subseteq closers /\ Returned /\ Same /\ Alive
      BY Zenon, <2>4 DEF UserUnregister, Goto, objVars, Returned, Same, Alive
    <3> QED
      BY Zenon, <1>s, <2>0, <3>1
  <2>5. CASE WrappedReturns(p) \/ AcceptReturns(p)
    <3>1. closers' = closers /\ Returned /\ Same
      BY Zenon, <2>5 DEF WrappedReturns, AcceptReturns, Goto, lockVars, Returned, Same
    <3>2. \A q \in closers : obj'[q] = "open" /\ pc'[q] \in {"live", "unregister"}
      BY Zenon, <2>5 DEF WrappedReturns, AcceptReturns, Goto
    <3> QED
      BY Zenon, <1>s, <2>0, <3>1, <3>2 DEF Alive
  <2>6. CASE \/ (\E l \in Calls : Accept(p, l)) \/ Resolve(p) \/ SelectCtx(p)
              \/ UserClose(p) \/ SelectResult(p) \/ SelectDone(p)
              \/ RunOnAccept(p) \/ AcceptTrack(p)
    <3>1. UNCHANGED <<closers, obj>>
      BY Zenon, <2>6 DEF Accept, Resolve, SelectCtx, UserClose, SelectResult, SelectDone,
         RunOnAccept, AcceptTrack, lockVars, objVars
    <3>2. Returned
      BY Zenon, <2>6 DEF Accept, Resolve, SelectCtx, UserClose, SelectResult, SelectDone,
         RunOnAccept, AcceptTrack, Goto, Returned
    <3>3. \A q \in closers : pc'[q] \in {"live", "unregister"}
      BY Zenon, <2>6 DEF Accept, Resolve, SelectCtx, UserClose, SelectResult, SelectDone,
         RunOnAccept, AcceptTrack, Goto
    <3>4. \A q \in closers : kind'[q] = kind[q] /\ opGen'[q] = opGen[q]
      BY Zenon, <2>6 DEF Accept, Resolve, SelectCtx, UserClose, SelectResult, SelectDone,
         RunOnAccept, AcceptTrack
    <3> QED
      BY Zenon, <1>s, <2>0, <3>1, <3>2, <3>3, <3>4 DEF Same, Alive
  <2> QED
    BY Zenon, <1>1, <2>1, <2>2, <2>3, <2>4, <2>5, <2>6 DEF CallEnv, CallSteps
<1>2. ASSUME NEW c \in Callers, CallerEnv(c) \/ CallerSteps(c) PROVE CloserInv'
  <2>1. CASE Up(c)
    <3>1. closers = {} /\ UNCHANGED <<closers, callVars, toClose, cur>>
      BY Zenon, <2>1 DEF Up
    <3> QED
      BY Zenon, <3>1 DEF callVars
  <2>2. CASE Down(c) \/ Close(c)
    <3>1. closers' = {} /\ UNCHANGED <<callVars, cur>> /\ toClose' = [toClose EXCEPT ![c] = closers]
      BY Zenon, <2>2 DEF Down, Close
    <3> QED
      BY Zenon, <1>c, <3>1 DEF callVars
  <2>3. ASSUME NEW x \in Calls, CloseNext(c, x) PROVE CloserInv'
    <3>1. /\ UNCHANGED <<lockVars, callVars, obj>> /\ x \in toClose[c]
          /\ cur' = [cur EXCEPT ![c] = x] /\ toClose' = [toClose EXCEPT ![c] = @ \ {x}]
      BY Zenon, <2>3 DEF CloseNext
    <3> QED
      BY Zenon, <1>c, <3>1 DEF lockVars, callVars
  <2>4. CASE Unregister(c)
    <3>1. UNCHANGED <<up, closed, gen, callVars, obj, toClose, cur>> /\ closers' = closers \ {cur[c]}
      BY Zenon, <2>4 DEF Unregister, objVars
    <3> QED
      BY Zenon, <1>s, <3>1 DEF callVars
  <2>5. CASE Shut(c)
    <3>1. /\ UNCHANGED <<lockVars, callVars, toClose>> /\ cur[c] \in Calls
          /\ cur' = [cur EXCEPT ![c] = None] /\ obj' = [obj EXCEPT ![cur[c]] = "closed"]
      BY Zenon, <1>c, <2>5 DEF Shut, CallerInv
    <3> QED
      BY Zenon, <1>c, <3>1, NoneAssumption DEF lockVars, callVars
  <2>6. CASE \/ CloseDone(c) \/ ClosedAll(c) \/ (\E u \in Subs : MoveNext(c, u) \/ ShutNext(c, u))
             \/ MovedAll(c) \/ Return(c)
    <3>1. UNCHANGED <<lockVars, callVars, obj, toClose, cur>>
      BY Zenon, <2>6 DEF CloseDone, ClosedAll, MoveNext, MovedAll, ShutNext, Return, objVars
    <3> QED
      BY Zenon, <1>s, <3>1 DEF lockVars, callVars
  <2> QED
    BY Zenon, <1>2, <2>1, <2>2, <2>3, <2>4, <2>5, <2>6 DEF CallerEnv, CallerSteps
<1>3. ASSUME NEW u \in Subs, SubEnv(u) \/ SubSteps(u) PROVE CloserInv'
  <2>1. UNCHANGED <<up, closed, gen, closers, toClose, cur, pc, kind, opGen, obj>>
    BY Zenon, <1>3, SubFrame DEF lockVars, callVars, objVars, ctlVars
  <2> QED
    BY Zenon, <1>s, <2>1
<1>4. CASE UNCHANGED vars
  BY Zenon, <1>4, <1>s DEF vars, lockVars, callVars, objVars, ctlVars
<1> QED
  BY Zenon, <1>1, <1>2, <1>3, <1>4 DEF Next

----------------------------------------------------------------------------
(* A lifecycle caller returns with empty hands. *)
LEMMA CallerInvCorrect == IInv /\ [Next]_vars => CallerInv'
<1> SUFFICES ASSUME IInv, [Next]_vars PROVE CallerInv'
  BY Zenon
<1> USE NoneAssumption DEF IInv, CallerInv, CloserInv, TypeOK
<1>1. ASSUME NEW p \in Calls, CallEnv(p) \/ CallSteps(p) PROVE CallerInv'
  BY Zenon, <1>1, CallFrame DEF ctlVars
<1>2. ASSUME NEW c \in Callers, CallerEnv(c) \/ CallerSteps(c) PROVE CallerInv'
  <2>1. CASE Up(c)
    BY Zenon, <2>1 DEF Up, lockVars, chanVars, callVars, objVars, ctlVars, subVars
  <2>2. CASE Down(c)
    BY Zenon, <2>2 DEF Down, lockVars, chanVars, callVars, objVars, ctlVars, subVars
  <2>3. CASE Close(c)
    BY Zenon, <2>3 DEF Close, lockVars, chanVars, callVars, objVars, ctlVars, subVars
  <2>4. CASE CloseDone(c)
    BY Zenon, <2>4 DEF CloseDone, lockVars, chanVars, callVars, objVars, ctlVars, subVars
  <2>5. ASSUME NEW x \in Calls, CloseNext(c, x) PROVE CallerInv'
    BY Zenon, <2>5 DEF CloseNext, lockVars, chanVars, callVars, objVars, ctlVars, subVars
  <2>6. CASE Shut(c)
    BY Zenon, <2>6 DEF Shut, lockVars, chanVars, callVars, objVars, ctlVars, subVars
  <2>7. CASE ClosedAll(c)
    BY Zenon, <2>7 DEF ClosedAll, lockVars, chanVars, callVars, objVars, ctlVars, subVars
  <2>8. CASE MovedAll(c)
    BY <2>8 DEF MovedAll, lockVars, chanVars, callVars, objVars, ctlVars, subVars
  <2>9. CASE Return(c)
    BY Zenon, <2>9 DEF Return, lockVars, chanVars, callVars, objVars, ctlVars, subVars
  <2>10. CASE Unregister(c) \/ (\E u \in Subs : MoveNext(c, u)) \/ (\E u \in Subs : ShutNext(c, u))
    BY <2>10 DEF Unregister, MoveNext, ShutNext,
       lockVars, chanVars, callVars, objVars, ctlVars, subVars
  <2> QED
    BY Zenon, <1>2, <2>1, <2>2, <2>3, <2>4, <2>5, <2>6, <2>7, <2>8, <2>9, <2>10 DEF CallerEnv, CallerSteps
<1>3. ASSUME NEW u \in Subs, SubEnv(u) \/ SubSteps(u) PROVE CallerInv'
  BY Zenon, <1>3, SubFrame DEF lockVars, chanVars, callVars, objVars, ctlVars, subVars
<1>4. CASE UNCHANGED vars
  BY Zenon, <1>4 DEF vars, lockVars, chanVars, callVars, objVars, ctlVars, subVars
<1> QED
  BY Zenon, <1>1, <1>2, <1>3, <1>4 DEF Next

(* No channel is closed twice or forgotten. *)
LEMMA DoneInvCorrect == IInv /\ [Next]_vars => DoneInv'
<1> SUFFICES ASSUME IInv, [Next]_vars PROVE DoneInv'
  BY Zenon
<1> USE GenAssumption DEF IInv, CallerInv, DoneInv, TypeOK, Gens, Operational, Current, Goto, Doomed, InCall, AfterReturn
<1>1. ASSUME NEW p \in Calls, CallEnv(p) \/ CallSteps(p) PROVE DoneInv'
  <2>1. UNCHANGED <<up, closed, gen, done, closedDones, cdone>>
    BY Zenon, <1>1, CallFrame DEF chanVars, ctlVars
  <2> QED
    BY Zenon, <1>1, <2>1
<1>2. ASSUME NEW c \in Callers, CallerEnv(c) \/ CallerSteps(c) PROVE DoneInv'
  <2>1. CASE Up(c)
    BY <2>1 DEF Up, lockVars, chanVars, callVars, objVars, ctlVars, subVars
  <2>2. CASE Down(c)
    BY <2>2 DEF Down, lockVars, chanVars, callVars, objVars, ctlVars, subVars
  <2>3. CASE Close(c)
    BY <2>3 DEF Close, lockVars, chanVars, callVars, objVars, ctlVars, subVars
  <2>4. CASE CloseDone(c)
    BY <2>4 DEF CloseDone, lockVars, chanVars, callVars, objVars, ctlVars, subVars
  <2>5. CASE Sweeps(c)
    <3>1. UNCHANGED <<up, closed, gen, done, closedDones, cdone, pc, opDone>>
      BY Zenon, <2>5, SweepFrame DEF chanVars, callVars
    <3> QED
      BY Zenon, <3>1
  <2> QED
    BY Zenon, <1>2, <2>1, <2>2, <2>3, <2>4, <2>5 DEF CallerEnv, CallerSteps, Sweeps
<1>3. ASSUME NEW u \in Subs, SubEnv(u) \/ SubSteps(u) PROVE DoneInv'
  <2>1. UNCHANGED <<up, closed, gen, done, closedDones, cdone>>
    BY Zenon, <1>3, SubFrame DEF lockVars, chanVars, ctlVars
  <2> QED
    BY Zenon, <1>3, <2>1
<1>4. CASE UNCHANGED vars
  BY Zenon, <1>4 DEF vars, lockVars, chanVars, callVars, objVars, ctlVars, subVars
<1> QED
  BY Zenon, <1>1, <1>2, <1>3, <1>4 DEF Next

(* Only a caller that holds a channel nobody closed yet closes it. *)
LEMMA DoneClosedOnceCorrect == IInv /\ [Next]_vars => DoneClosedOnce'
<1> SUFFICES ASSUME IInv, [Next]_vars PROVE DoneClosedOnce'
  BY Zenon
<1> USE DEF IInv, DoneInv, DoneClosedOnce, TypeOK
<1>1. ASSUME NEW p \in Calls, CallEnv(p) \/ CallSteps(p) PROVE DoneClosedOnce'
  BY Zenon, <1>1, CallFrame DEF chanVars
<1>2. ASSUME NEW c \in Callers, CallerEnv(c) \/ CallerSteps(c) PROVE DoneClosedOnce'
  <2>1. CASE CloseDone(c)
    BY Zenon, <2>1 DEF CloseDone, lockVars, chanVars, callVars, objVars, ctlVars, subVars
  <2>2. CASE Up(c) \/ Down(c) \/ Close(c) \/ (\E x \in Calls : CloseNext(c, x)) \/ Unregister(c)
           \/ Shut(c) \/ ClosedAll(c) \/ (\E u \in Subs : MoveNext(c, u)) \/ MovedAll(c) \/ (\E u \in Subs : ShutNext(c, u))
           \/ Return(c)
    BY Zenon, <2>2 DEF Up, Down, Close, CloseNext, Unregister, Shut, ClosedAll, MoveNext, MovedAll, ShutNext,
       Return,
       lockVars, chanVars, callVars, objVars, ctlVars, subVars
  <2> QED
    BY Zenon, <1>2, <2>1, <2>2 DEF CallerEnv, CallerSteps
<1>3. ASSUME NEW u \in Subs, SubEnv(u) \/ SubSteps(u) PROVE DoneClosedOnce'
  BY Zenon, <1>3, SubFrame DEF lockVars, chanVars, callVars, objVars, ctlVars, subVars
<1>4. CASE UNCHANGED vars
  BY Zenon, <1>4 DEF vars, lockVars, chanVars, callVars, objVars, ctlVars, subVars
<1> QED
  BY Zenon, <1>1, <1>2, <1>3, <1>4 DEF Next

(* A call that waits after a step of a call waited before, or just took    *)
(* the channel of the generation that is up.                               *)
LEMMA CallWaits ==
    ASSUME TypeOK, NEW p \in Calls, CallEnv(p) \/ CallSteps(p),
           NEW q \in Calls, pc'[q] \in {"resolve", "wait"}
    PROVE  \/ pc[q] \in {"resolve", "wait"} /\ opDone'[q] = opDone[q]
           \/ Operational /\ opDone'[q] = done
<1>1. ASSUME NEW k \in Kinds, Begin(p, k)
      PROVE  \/ pc[q] \in {"resolve", "wait"} /\ opDone'[q] = opDone[q]
             \/ Operational /\ opDone'[q] = done
  BY <1>1 DEF Begin, TypeOK, Goto
<1>2. CASE Resolve(p) \/ WrappedReturns(p)
  <2>1. opDone' = opDone
    BY Zenon, <1>2 DEF Resolve, WrappedReturns
  <2>2. pc[q] \in {"resolve", "wait"}
    BY Zenon, <1>2 DEF Resolve, WrappedReturns, TypeOK, Goto
  <2> QED
    BY Zenon, <2>1, <2>2
<1>3. CASE \/ (\E l \in Calls : Accept(p, l)) \/ AcceptReturns(p) \/ SelectCtx(p) \/ UserClose(p) \/ CallSteps(p)
  <2>1. opDone' = opDone
    BY Zenon, <1>3 DEF CallSteps, Accept, AcceptReturns, SelectCtx, UserClose, SelectResult, SelectDone,
       LateClose, Track, Register, Discard, RunOnAccept, AcceptTrack, AcceptRegister, UserUnregister, UserShut
  <2>2. PICK l \in CallPCs \ {"resolve", "wait"} : Goto(p, l)
    <3>1. CASE (\E l \in Calls : Accept(p, l)) \/ AcceptReturns(p) \/ SelectCtx(p) \/ UserClose(p)
      BY Zenon, <3>1 DEF Accept, AcceptReturns, SelectCtx, UserClose, CallPCs
    <3>2. CASE SelectResult(p) \/ SelectDone(p) \/ LateClose(p) \/ Discard(p) \/ RunOnAccept(p)
      BY Zenon, <3>2 DEF SelectResult, SelectDone, LateClose, Discard, RunOnAccept, CallPCs
    <3>3. CASE Track(p) \/ Register(p) \/ AcceptTrack(p) \/ AcceptRegister(p) \/ UserUnregister(p) \/ UserShut(p)
      BY Zenon, <3>3 DEF Track, Register, AcceptTrack, AcceptRegister, UserUnregister, UserShut, CallPCs
    <3> QED
      BY Zenon, <1>3, <3>1, <3>2, <3>3 DEF CallSteps
  <2>3. pc[q] \in {"resolve", "wait"}
    BY Zenon, <2>2 DEF TypeOK, Goto
  <2> QED
    BY Zenon, <2>1, <2>3
<1> QED
  BY Zenon, <1>1, <1>2, <1>3 DEF CallEnv

(* A channel that a call waits on moves from current to held by one caller *)
(* to closed, and never out of sight.                                      *)
LEMMA WaitInvCorrect == IInv /\ [Next]_vars => WaitInv'
<1> SUFFICES ASSUME IInv, [Next]_vars PROVE WaitInv'
  BY Zenon
<1> USE DEF IInv, CallerInv, DoneInv, WaitInv, CancelNeverLost, TypeOK, Gens, Operational
<1>1. ASSUME NEW p \in Calls, CallEnv(p) \/ CallSteps(p) PROVE WaitInv'
  <2>1. UNCHANGED <<up, closed, gen, done, closedDones, cdone>>
    BY Zenon, <1>1, CallFrame DEF chanVars, ctlVars
  <2>2. TypeOK /\ done # 0
    OBVIOUS
  <2> SUFFICES ASSUME NEW q \in Calls, pc'[q] \in {"resolve", "wait"}
               PROVE  /\ opDone'[q] # 0
                      /\ \/ Operational' /\ opDone'[q] = done'
                         \/ opDone'[q] \in closedDones'
                         \/ \E c \in Callers : cdone'[c] = opDone'[q]
    BY Zenon
  <2>3. CASE pc[q] \in {"resolve", "wait"} /\ opDone'[q] = opDone[q]
    BY Zenon, <2>1, <2>3
  <2>4. CASE Operational /\ opDone'[q] = done
    BY Zenon, <2>1, <2>2, <2>4
  <2> QED
    BY Zenon, <1>1, <2>2, <2>3, <2>4, CallWaits
<1>2. ASSUME NEW c \in Callers, CallerEnv(c) \/ CallerSteps(c) PROVE WaitInv'
  <2>1. CASE Up(c)
    BY Zenon, <2>1 DEF Up, lockVars, chanVars, callVars, objVars, ctlVars, subVars
  <2>2. CASE Down(c)
    BY <2>2 DEF Down, lockVars, chanVars, callVars, objVars, ctlVars, subVars
  <2>3. CASE Close(c)
    BY <2>3 DEF Close, lockVars, chanVars, callVars, objVars, ctlVars, subVars
  <2>4. CASE CloseDone(c)
    BY Zenon, <2>4 DEF CloseDone, lockVars, chanVars, callVars, objVars, ctlVars, subVars
  <2>5. CASE Sweeps(c)
    <3>1. UNCHANGED <<up, closed, gen, done, closedDones, cdone, pc, opDone>>
      BY Zenon, <2>5, SweepFrame DEF chanVars, callVars
    <3> QED
      BY Zenon, <3>1
  <2> QED
    BY Zenon, <1>2, <2>1, <2>2, <2>3, <2>4, <2>5 DEF CallerEnv, CallerSteps, Sweeps
<1>3. ASSUME NEW u \in Subs, SubEnv(u) \/ SubSteps(u) PROVE WaitInv'
  <2>1. UNCHANGED <<up, closed, gen, done, closedDones, cdone, pc, opDone>>
    BY Zenon, <1>3, SubFrame DEF lockVars, chanVars, callVars, ctlVars
  <2> QED
    BY Zenon, <1>3, <2>1
<1>4. CASE UNCHANGED vars
  BY Zenon, <1>4 DEF vars, lockVars, chanVars, callVars, objVars, ctlVars, subVars
<1> QED
  BY Zenon, <1>1, <1>2, <1>3, <1>4 DEF Next

(* A closer subscription is registered, taken by a Close, or done. *)
LEMMA SubInvCorrect == IInv /\ [Next]_vars => SubInv'
<1> SUFFICES ASSUME IInv, [Next]_vars PROVE SubInv'
  BY Zenon
<1> USE DEF IInv, CallerInv, SubInv, TypeOK, Operational, Current, Goto, Doomed, InCall, AfterReturn
<1>1. ASSUME NEW p \in Calls, CallEnv(p) \/ CallSteps(p) PROVE SubInv'
  BY <1>1, CallFrame DEF ctlVars, subVars
<1>2. ASSUME NEW c \in Callers, CallerEnv(c) \/ CallerSteps(c) PROVE SubInv'
  <2>1. CASE Down(c)
    BY Zenon, <2>1 DEF Down, lockVars, chanVars, callVars, objVars, ctlVars, subVars
  <2>2. CASE Close(c)
    BY Zenon, <2>2 DEF Close, lockVars, chanVars, callVars, objVars, ctlVars, subVars
  <2>3. ASSUME NEW u \in Subs, ShutNext(c, u) PROVE SubInv'
    BY <2>3 DEF ShutNext, lockVars, chanVars, callVars, objVars, ctlVars, subVars
  <2>4. CASE Up(c) \/ CloseDone(c) \/ (\E x \in Calls : CloseNext(c, x)) \/ Unregister(c) \/ Shut(c)
           \/ ClosedAll(c) \/ (\E u \in Subs : MoveNext(c, u)) \/ MovedAll(c) \/ Return(c)
    <3>1. UNCHANGED <<closed, closeSubs, subClosed, kpc, toShut>>
      BY Zenon, <2>4 DEF Up, CloseDone, CloseNext, Unregister, Shut, ClosedAll, MoveNext, MovedAll, Return, lockVars, subVars
    <3> QED
      BY Zenon, <3>1
  <2> QED
    BY Zenon, <1>2, <2>1, <2>2, <2>3, <2>4 DEF CallerEnv, CallerSteps
<1>3. ASSUME NEW u \in Subs, SubEnv(u) \/ SubSteps(u) PROVE SubInv'
  <2>1. CASE SubscribeUpDown(u)
    BY Zenon, <2>1 DEF SubscribeUpDown, lockVars, chanVars, callVars, objVars, ctlVars, subVars
  <2>2. CASE UnregisterUpDown(u)
    BY Zenon, <2>2 DEF UnregisterUpDown, lockVars, chanVars, callVars, objVars, ctlVars, subVars
  <2>3. CASE SubscribeCloser(u)
    BY <2>3 DEF SubscribeCloser, lockVars, chanVars, callVars, objVars, ctlVars, subVars
  <2>4. CASE UnregisterCloseSub(u)
    BY Zenon, <2>4 DEF UnregisterCloseSub, lockVars, chanVars, callVars, objVars, ctlVars, subVars
  <2>5. CASE SubscribeDown(u)
    BY Zenon, <2>5 DEF SubscribeDown, lockVars, chanVars, callVars, objVars, ctlVars, subVars
  <2>6. CASE SubscribeClose(u)
    BY Zenon, <2>6 DEF SubscribeClose, lockVars, chanVars, callVars, objVars, ctlVars, subVars
  <2> QED
    BY Zenon, <1>3, <2>1, <2>2, <2>3, <2>4, <2>5, <2>6 DEF SubEnv, SubSteps
<1>4. CASE UNCHANGED vars
  BY Zenon, <1>4 DEF vars, lockVars, chanVars, callVars, objVars, ctlVars, subVars
<1> QED
  BY Zenon, <1>1, <1>2, <1>3, <1>4 DEF Next

----------------------------------------------------------------------------
(* DetachNetwork establishes the invariant. *)
LEMMA InitIInv == Init => IInv
<1> SUFFICES ASSUME Init PROVE IInv
  BY Zenon
<1>1. TypeOK
  <2>1. gen \in Gens /\ done \in Gens /\ 0 \in Gens
    BY GenAssumption DEF Init, Gens
  <2> QED
    BY Zenon, <2>1 DEF Init, TypeOK, Kinds, CallPCs, CallerPCs, SubPCs
<1>2. CallInv
  BY Zenon DEF Init, CallInv, InCall, AfterReturn
<1>3. CloserInv /\ CallerInv
  BY Zenon, NoneAssumption DEF Init, CloserInv, CallerInv
<1>4. DoneInv
  BY DEF Init, DoneInv
<1>5. DoneClosedOnce /\ WaitInv /\ SubInv
  BY Zenon DEF Init, DoneClosedOnce, WaitInv, CancelNeverLost, SubInv
<1> QED
  BY Zenon, <1>1, <1>2, <1>3, <1>4, <1>5 DEF IInv

(* Every step keeps the invariant. *)
LEMMA NextIInv == IInv /\ [Next]_vars => IInv'
  BY Zenon, TypeCorrect, CallInvCorrect, CloserInvCorrect, CallerInvCorrect, DoneInvCorrect,
     DoneClosedOnceCorrect, WaitInvCorrect, SubInvCorrect DEF IInv

(* The inductive invariant holds in every reachable state of the wrapper. *)
THEOREM Invariance == Spec => []IInv
  BY InitIInv, NextIInv, PTL DEF Spec

(* Every field, call and caller keeps its type. *)
THEOREM TypeSafety == Spec => []TypeOK
  BY Invariance, PTL DEF IInv

(* No object is ever lost: what a call created is returned and registered, *)
(* or closed by the call, by the late-result goroutine, by its user or by  *)
(* a Down or Close.                                                        *)
THEOREM NothingLost == Spec => []NoObjectLost
<1>1. IInv => NoObjectLost
  BY Zenon DEF IInv, TypeOK, CallPCs, CallInv, NoObjectLost, InCall, AfterReturn
<1> QED
  BY <1>1, Invariance, PTL

(* Down and Close keep their promise for every object a user holds. *)
THEOREM DownPromise == Spec => []DownClosesObjects
<1>1. IInv => DownClosesObjects
  BY Zenon DEF IInv, CallInv, CloserInv, DownClosesObjects, Operational
<1> QED
  BY <1>1, Invariance, PTL

(* close(done) never panics. *)
THEOREM NoDoubleClose == Spec => []DoneClosedOnce
  BY Invariance, PTL DEF IInv

(* No call in flight can miss the Down or Close that overtakes it. *)
THEOREM CancellationReaches == Spec => []CancelNeverLost
  BY Invariance, PTL DEF IInv, WaitInv

(* A closer subscription is honoured however it races Close. *)
THEOREM CloserSubscriptions == Spec => []CloserSubsClosed
<1>1. IInv => CloserSubsClosed
  BY Zenon DEF IInv, SubInv, CloserSubsClosed
<1> QED
  BY <1>1, Invariance, PTL

----------------------------------------------------------------------------
(* The wrapper implements NetworkContract. *)

(* What the contract does not see changes nothing in it. *)
LEMMA ContractFrame ==
    ASSUME UNCHANGED <<up, closed, closers>>,
           \A q \in Calls : pc'[q] \in AfterReturn <=> pc[q] \in AfterReturn,
           \A q \in Calls : pc[q] \in AfterReturn => obj'[q] = obj[q]
    PROVE  UNCHANGED Contract!vars
  BY Zenon DEF Contract!vars, ContractState, Dying, Dead

(* An object that is neither out nor returned becomes out. *)
LEMMA ContractReturn ==
    ASSUME IInv, NEW p \in Calls, Operational, UNCHANGED <<up, closed, obj>>,
           pc[p] \in {"track", "register", "acceptRegister"},
           pc' = [pc EXCEPT ![p] = "live"], closers' = closers \cup {p}
    PROVE  Contract!Return(p)
  BY Zenon DEF IInv, TypeOK, CloserInv, Operational, AfterReturn,
         Contract!Return, ContractState, Dying, Dead

(* An object that was returned and has left n.closers is closed: it dies,  *)
(* or it was dead already.                                                 *)
LEMMA ContractDie ==
    ASSUME IInv, NEW p \in Calls, UNCHANGED <<up, closed, closers>>,
           pc[p] \in AfterReturn, p \notin closers,
           \A q \in Calls : pc'[q] \in AfterReturn <=> pc[q] \in AfterReturn,
           obj' = [obj EXCEPT ![p] = "closed"]
    PROVE  Contract!Die(p) \/ UNCHANGED Contract!vars
<1>1. CASE obj[p] = "open"
  BY <1>1 DEF IInv, TypeOK, Contract!Die, ContractState, Dying, Dead
<1>2. CASE obj[p] = "closed"
  BY Zenon, <1>2, ContractFrame DEF IInv, TypeOK
<1> QED
  BY Zenon, <1>1, <1>2 DEF IInv, TypeOK, CallInv

(* Every step of the wrapper is a step of the contract or a stutter. *)
LEMMA ContractStep == IInv /\ [Next]_vars => [Contract!Next]_(Contract!vars)
<1> SUFFICES ASSUME IInv, [Next]_vars PROVE Contract!Next \/ UNCHANGED Contract!vars
  BY Zenon
<1> USE DEF IInv, TypeOK
<1>1. ASSUME NEW p \in Calls, CallEnv(p) \/ CallSteps(p)
      PROVE  Contract!Next \/ UNCHANGED Contract!vars
  <2> USE DEF AfterReturn, Goto
  <2>1. CASE Track(p)
    BY <2>1, ContractReturn, ContractFrame DEF Track, Current, objVars, Contract!Next
  <2>2. CASE Register(p)
    BY <2>2, ContractReturn, ContractFrame DEF Register, Current, objVars, Contract!Next
  <2>3. CASE AcceptRegister(p)
    BY <2>3, ContractReturn, ContractFrame DEF AcceptRegister, objVars, Contract!Next
  <2>4. CASE UserUnregister(p)
    <3>1. CASE p \in closers
      <4>1. Contract!Release(p)
        BY <2>4, <3>1 DEF UserUnregister, objVars, CloserInv, Contract!Release,
           ContractState, Dying, Dead
      <4> QED
        BY Zenon, <4>1 DEF Contract!Next
    <3>2. CASE p \notin closers
      BY Zenon, <2>4, <3>2, ContractFrame DEF UserUnregister, objVars
    <3> QED
      BY Zenon, <3>1, <3>2
  <2>5. CASE UserShut(p)
    BY Zenon, <2>5, ContractDie DEF UserShut, lockVars, CloserInv, Contract!Next
  <2>6. CASE UserClose(p)
    BY Zenon, <2>6, ContractFrame DEF UserClose, lockVars
  <2>7. CASE Discard(p)
    BY Zenon, <2>7, ContractFrame DEF Discard, CloserInv
  <2>8. CASE WrappedReturns(p)
    <3>1. pc[p] \notin AfterReturn
      BY Zenon, <2>8 DEF WrappedReturns, CallInv
    <3>2. UNCHANGED <<lockVars, pc>> /\ \A q \in Calls \ {p} : obj'[q] = obj[q]
      BY Zenon, <2>8 DEF WrappedReturns
    <3> QED
      BY Zenon, <3>1, <3>2, ContractFrame DEF lockVars
  <2>9. CASE (\E k \in Kinds : Begin(p, k)) \/ (\E l \in Calls : Accept(p, l)) \/ Resolve(p) \/ AcceptReturns(p)
    <3>1. pc[p] \notin AfterReturn /\ pc'[p] \notin AfterReturn
      BY <2>9 DEF Begin, Accept, Resolve, AcceptReturns
    <3>2. UNCHANGED <<up, closed, closers>>
      BY Zenon, <2>9 DEF Begin, Accept, Resolve, AcceptReturns, lockVars
    <3>3. \A q \in Calls \ {p} : pc'[q] = pc[q] /\ obj'[q] = obj[q]
      BY <2>9 DEF Begin, Accept, Resolve, AcceptReturns, objVars
    <3> QED
      BY Zenon, <3>1, <3>2, <3>3, ContractFrame
  <2>10. CASE SelectCtx(p) \/ SelectResult(p) \/ SelectDone(p)
    <3>1. pc[p] \notin AfterReturn /\ pc'[p] \notin AfterReturn
      BY Zenon, <2>10 DEF SelectCtx, SelectResult, SelectDone
    <3>2. UNCHANGED <<up, closed, closers>>
      BY Zenon, <2>10 DEF SelectCtx, SelectResult, SelectDone, lockVars
    <3>3. \A q \in Calls \ {p} : pc'[q] = pc[q] /\ obj'[q] = obj[q]
      BY Zenon, <2>10 DEF SelectCtx, SelectResult, SelectDone, objVars
    <3> QED
      BY Zenon, <3>1, <3>2, <3>3, ContractFrame
  <2>11. CASE LateClose(p) \/ RunOnAccept(p) \/ AcceptTrack(p)
    <3>1. pc[p] \notin AfterReturn /\ pc'[p] \notin AfterReturn
      BY <2>11 DEF LateClose, RunOnAccept, AcceptTrack
    <3>2. UNCHANGED <<up, closed, closers>>
      BY Zenon, <2>11 DEF LateClose, RunOnAccept, AcceptTrack, lockVars
    <3>3. \A q \in Calls \ {p} : pc'[q] = pc[q] /\ obj'[q] = obj[q]
      BY Zenon, <2>11 DEF LateClose, RunOnAccept, AcceptTrack, objVars
    <3> QED
      BY Zenon, <3>1, <3>2, <3>3, ContractFrame
  <2> QED
    BY Zenon, <1>1, <2>1, <2>2, <2>3, <2>4, <2>5, <2>6, <2>7, <2>8, <2>9, <2>10,
       <2>11 DEF CallEnv, CallSteps
<1>2. ASSUME NEW c \in Callers, CallerEnv(c) \/ CallerSteps(c)
      PROVE  Contract!Next \/ UNCHANGED Contract!vars
  <2>0. pc' = pc
    BY Zenon, <1>2, CallerFrame DEF callVars
  <2>1. CASE Up(c)
    BY Zenon, <2>0, <2>1 DEF Up, objVars, Contract!Next, Contract!Up, ContractState, Dying, Dead
  <2>2. CASE Down(c)
    <3>1. Contract!Down
      BY Zenon, <2>0, <2>2 DEF Down, Operational, objVars, CloserInv, AfterReturn,
         Contract!Down, Contract!Stop, ContractState, Dying, Dead
    <3> QED
      BY Zenon, <3>1 DEF Contract!Next
  <2>3. CASE Close(c)
    <3>1. Contract!Close
      BY Zenon, <2>0, <2>3 DEF Close, objVars, CloserInv, AfterReturn,
         Contract!Close, Contract!Stop, ContractState, Dying, Dead
    <3> QED
      BY Zenon, <3>1 DEF Contract!Next
  <2>4. CASE Shut(c)
    <3>1. cur[c] \in Calls /\ pc[cur[c]] \in AfterReturn /\ cur[c] \notin closers
      BY Zenon, <2>4 DEF Shut, CallerInv, CloserInv
    <3> QED
      BY Zenon, <2>0, <2>4, <3>1, ContractDie DEF Shut, lockVars, Contract!Next
  <2>5. CASE Unregister(c)
    <3>1. cur[c] \notin closers
      BY Zenon, <2>5 DEF Unregister, CallerInv, CloserInv
    <3> QED
      BY Zenon, <2>0, <2>5, <3>1, ContractFrame DEF Unregister, objVars
  <2>6. CASE \/ CloseDone(c) \/ (\E x \in Calls : CloseNext(c, x)) \/ ClosedAll(c)
             \/ (\E u \in Subs : MoveNext(c, u) \/ ShutNext(c, u)) \/ MovedAll(c) \/ Return(c)
    <3>1. UNCHANGED <<up, closed, closers, obj>>
      BY Zenon, <2>6 DEF CloseDone, CloseNext, ClosedAll, MoveNext, MovedAll, ShutNext, Return,
         lockVars, objVars
    <3> QED
      BY Zenon, <2>0, <3>1, ContractFrame
  <2> QED
    BY Zenon, <1>2, <2>1, <2>2, <2>3, <2>4, <2>5, <2>6 DEF CallerEnv, CallerSteps
<1>3. ASSUME NEW u \in Subs, SubEnv(u) \/ SubSteps(u) PROVE UNCHANGED Contract!vars
  BY Zenon, <1>3, SubFrame, ContractFrame DEF lockVars, callVars, objVars
<1>4. CASE UNCHANGED vars
  BY Zenon, <1>4, ContractFrame DEF vars, lockVars, callVars, objVars
<1> QED
  BY Zenon, <1>1, <1>2, <1>3, <1>4 DEF Next

(* The wrapper implements the contract of a stoppable network. *)
THEOREM Refinement == Spec => ImplementsContract
<1>1. Init => Contract!Init
  BY DEF Init, Contract!Init, ContractState, Dying, Dead, AfterReturn
<1> QED
  BY <1>1, Invariance, ContractStep, PTL DEF Spec, ImplementsContract, Contract!Spec
============================================================================

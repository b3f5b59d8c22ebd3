----------------------------- MODULE DetachedTun -----------------------------
(* DetachedTun (tun/detachable.go), a wrapper that owns its pumps.  Every  *)
(* Up starts a read pump and a write pump with channels of their own; Down,*)
(* Close and a failed pump end a generation by closing its done channel,   *)
(* and a pump that is inside the wrapped Tun finds out when it comes back. *)
(* What is at stake are the buffers: each one comes from the pool and has  *)
(* to go back to it once.                                                  *)
EXTENDS Naturals, Sequences, FiniteSets

CONSTANTS Packets,   \* packets that the wrapped Tun may return
          Requests,  \* calls of Write
          MaxGen,    \* bound on d.gen
          ChanCap,   \* channelBufferSize()
          None

Gens == 1 .. MaxGen

ASSUME BoundAssumption == MaxGen \in Nat \ {0} /\ ChanCap \in Nat
ASSUME RequestAssumption == IsFiniteSet(Requests)
ASSUME NoneAssumption == None \notin Packets

VARIABLES
    up, closed, failed, gen,   \* fields of DetachedTun
    cur,           \* the generation that d.done, d.reads and d.writes are of
    doneClosed,    \* generations whose done channel is closed
    panicked,      \* a channel was closed twice
    reads, writes, \* per generation, what is in the channel
    pendingWrites, \* d.pendingWrites
    rpump, rpkt, rdst,   \* read pump: state, packet in hand, where it goes
    wpump, wreq,   \* write pump: state, request in hand
    buf,           \* packets: "none", "owned", "put", "twice"
    wpc, wdst,     \* callers of Write
    wbuf, taken, resp, finished,   \* a detachedTunWrite
    ending,        \* generations whose done channel a Down is yet to close
    cpc            \* Close and the Wait after it

stateVars == <<up, closed, failed, gen, cur>>
doneVars  == <<doneClosed, panicked>>
rpumpVars == <<rpump, rpkt, rdst>>
wpumpVars == <<wpump, wreq>>
reqVars   == <<wbuf, taken, resp, finished, pendingWrites>>
callVars  == <<wpc, wdst>>
adminVars == <<ending, cpc>>
vars == <<stateVars, doneVars, reads, writes, rpumpVars, wpumpVars, buf, reqVars,
          callVars, adminVars>>

(* DetachWithOptions: the wrapper starts up, in generation 1.              *)
Init ==
    /\ up = TRUE /\ closed = FALSE /\ failed = FALSE /\ gen = 1 /\ cur = 1
    /\ doneClosed = {} /\ panicked = FALSE
    /\ reads = [g \in Gens |-> <<>>] /\ writes = [g \in Gens |-> <<>>]
    /\ pendingWrites = 0
    /\ rpump = [g \in Gens |-> IF g = 1 THEN "read" ELSE "none"]
    /\ rpkt = [g \in Gens |-> None] /\ rdst = [g \in Gens |-> 0]
    /\ wpump = [g \in Gens |-> IF g = 1 THEN "select" ELSE "none"]
    /\ wreq = [g \in Gens |-> None]
    /\ buf = [p \in Packets |-> "none"]
    /\ wpc = [r \in Requests |-> "idle"] /\ wdst = [r \in Requests |-> 0]
    /\ wbuf = [r \in Requests |-> "none"] /\ taken = [r \in Requests |-> FALSE]
    /\ resp = [r \in Requests |-> FALSE] /\ finished = [r \in Requests |-> FALSE]
    /\ ending = {} /\ cpc = "idle"

-----------------------------------------------------------------------------
Put(state) == IF state = "owned" THEN "put" ELSE "twice"

Generation(g) == up /\ ~closed /\ ~failed /\ gen = g   \* generationActive

(* What is in a channel: packets, or errors that own nothing.              *)
Held(g) == {p \in Packets : \E i \in 1..Len(reads[g]) : reads[g][i] = p}

(* drainDetachedTunReads.                                                  *)
DrainReads(g) ==
    /\ reads' = [reads EXCEPT ![g] = <<>>]
    /\ buf' = [p \in Packets |-> IF p \in Held(g) THEN Put(buf[p]) ELSE buf[p]]

(* Fault: a request that the pump has taken can be cancelled.              *)
CancelledTaken(R) == {r \in R : wbuf[r] = "owned"}

(* req.cancel: only a request that nobody has taken and that still has its *)
(* buffers.                                                                *)
Cancelled(R) == {r \in R : ~taken[r] /\ wbuf[r] = "owned"}

(* Fault: finish does not count the request down.                          *)
PendingKept(F) == pendingWrites

(* finishPendingWrite, once for every request.                             *)
PendingAfter(F) == pendingWrites - Cardinality({r \in F : ~finished[r]})

(* release and finish for the requests F, with an answer to the requests A.*)
Release(F, A) ==
    /\ wbuf' = [r \in Requests |-> IF r \in F THEN Put(wbuf[r]) ELSE wbuf[r]]
    /\ finished' = [r \in Requests |-> finished[r] \/ r \in F]
    /\ pendingWrites' = PendingAfter(F)
    /\ resp' = [r \in Requests |-> resp[r] \/ r \in A]
    /\ UNCHANGED taken

(* cancel for the requests R, with an answer to the requests A.            *)
Cancel(R, A) == Release(Cancelled(R), Cancelled(R) \cup A)

Queued(g) == {r \in Requests : \E i \in 1..Len(writes[g]) : writes[g][i] = r}

(* drainDetachedTunWrites, after an answer to the requests A.              *)
DrainWrites(g, A) ==
    /\ writes' = [writes EXCEPT ![g] = <<>>]
    /\ Cancel(Queued(g), A)

(* close(done).                                                            *)
CloseChan(g) ==
    /\ doneClosed' = doneClosed \cup {g}
    /\ panicked' = (panicked \/ g \in doneClosed)

(* Fault: every end of a generation is counted, also when there is none.   *)
GenAfterAlways == gen + 1

(* d.gen after setFailureLocked and Close.                                 *)
GenAfter == IF up THEN gen + 1 ELSE gen

(* Fault: a failure leaves the done channel open.                          *)
SetFailureOpen ==
    /\ failed' = TRUE /\ up' = FALSE /\ gen' = GenAfter
    /\ UNCHANGED <<closed, cur, doneVars>>

(* setFailureLocked: a done channel that is closed is left alone.          *)
SetFailure ==
    /\ failed' = TRUE
    /\ up' = FALSE
    /\ gen' = GenAfter
    /\ doneClosed' = doneClosed \cup {cur}
    /\ UNCHANGED <<closed, cur, panicked>>

-----------------------------------------------------------------------------
(* Up, Down, Close and Wait, from any number of goroutines.                *)

(* Up: startLocked makes the channels and starts the pumps.                *)
Up ==
    /\ ~closed /\ ~failed /\ ~up /\ gen < MaxGen
    /\ up' = TRUE /\ gen' = gen + 1 /\ cur' = gen + 1
    /\ rpump' = [rpump EXCEPT ![gen + 1] = "read"]
    /\ wpump' = [wpump EXCEPT ![gen + 1] = "select"]
    /\ UNCHANGED <<closed, failed, doneVars, reads, writes, rpkt, rdst, wreq, buf,
                   reqVars, callVars, adminVars>>

(* Up, but the spawner refuses the read pump, or the write pump once the   *)
(* read pump runs: startLocked closes the new done channel and Up records  *)
(* the failure.                                                            *)
UpFails ==
    /\ ~closed /\ ~failed /\ ~up /\ gen < MaxGen
    /\ failed' = TRUE /\ gen' = gen + 1 /\ cur' = gen + 1
    /\ CloseChan(gen + 1)
    /\ \/ UNCHANGED rpump
       \/ rpump' = [rpump EXCEPT ![gen + 1] = "read"]
    /\ UNCHANGED <<up, closed, reads, writes, rpkt, rdst, wpumpVars, buf, reqVars,
                   callVars, adminVars>>

Down ==
    /\ ~closed /\ up /\ gen < MaxGen
    /\ up' = FALSE /\ gen' = gen + 1
    /\ ending' = ending \cup {cur}
    /\ UNCHANGED <<closed, failed, cur, doneVars, reads, writes, rpumpVars,
                   wpumpVars, buf, reqVars, callVars, cpc>>

(* Down closes the channel without the lock.                               *)
DownDone(g) ==
    /\ g \in ending
    /\ CloseChan(g)
    /\ ending' = ending \ {g}
    /\ UNCHANGED <<stateVars, reads, writes, rpumpVars, wpumpVars, buf, reqVars,
                   callVars, cpc>>

(* Fault: Close closes the done channel whatever the state.                *)
ClosesDoneAlways == TRUE

ClosesDone == up   \* wasUp

(* Close, in the once: under the lock ...                                  *)
Close ==
    /\ ~closed
    /\ closed' = TRUE /\ up' = FALSE /\ gen' = GenAfter
    /\ IF ClosesDone THEN CloseChan(cur) ELSE UNCHANGED doneVars
    /\ cpc' = "drain"
    /\ UNCHANGED <<failed, cur, reads, writes, rpumpVars, wpumpVars, buf, reqVars,
                   callVars, ending>>

(* ... and after it.                                                       *)
CloseDrain ==
    /\ cpc = "drain"
    /\ DrainReads(cur)
    /\ cpc' = "wait"
    /\ UNCHANGED <<stateVars, doneVars, writes, rpumpVars, wpumpVars, reqVars,
                   callVars, ending>>

(* Wait after Close: the pumps first, then the writes.                     *)
WaitPumps ==
    /\ cpc = "wait"
    /\ \A g \in Gens : rpump[g] \in {"none", "end"} /\ wpump[g] \in {"none", "end"}
    /\ cpc' = "waitwrites"
    /\ UNCHANGED <<stateVars, doneVars, reads, writes, rpumpVars, wpumpVars, buf,
                   reqVars, callVars, ending>>

WaitWrites ==
    /\ cpc = "waitwrites" /\ pendingWrites = 0
    /\ cpc' = "waited"
    /\ UNCHANGED <<stateVars, doneVars, reads, writes, rpumpVars, wpumpVars, buf,
                   reqVars, callVars, ending>>

-----------------------------------------------------------------------------
(* readPump of generation g.                                               *)

PumpTo(g, state, p, dst) ==
    /\ rpump' = [rpump EXCEPT ![g] = state]
    /\ rpkt' = [rpkt EXCEPT ![g] = p]
    /\ rdst' = [rdst EXCEPT ![g] = dst]

(* The wrapped Tun returns a packet, which is copied to a new buffer.  A   *)
(* pump of an old generation hands it to the new one (the first half of    *)
(* forwardStaleRead) or, when there is none, gives it up.                  *)
PumpReads(g) ==
    /\ rpump[g] = "read"
    /\ \E p \in Packets :
          /\ buf[p] = "none"
          /\ \/ /\ Generation(g)
                /\ buf' = [buf EXCEPT ![p] = "owned"]
                /\ PumpTo(g, "send", p, 0)
             \/ /\ ~Generation(g) /\ (~up \/ closed)
                /\ buf' = [buf EXCEPT ![p] = "put"]
                /\ PumpTo(g, "end", None, 0)
             \/ /\ ~Generation(g) /\ up /\ ~closed
                /\ buf' = [buf EXCEPT ![p] = "owned"]
                /\ PumpTo(g, "forward", p, cur)
    /\ UNCHANGED <<stateVars, doneVars, reads, writes, wpumpVars, reqVars, callVars,
                   adminVars>>

(* The wrapped Tun returns an error: a terminal one is a failure of the    *)
(* wrapper (failPump), another is passed on.                               *)
PumpReadFails(g) ==
    /\ rpump[g] = "read"
    /\ \/ ~Generation(g) /\ PumpTo(g, "end", None, 0) /\ UNCHANGED <<stateVars, doneVars>>
       \/ Generation(g) /\ PumpTo(g, "faildrain", None, 0) /\ SetFailure
       \/ Generation(g) /\ PumpTo(g, "senderr", None, 0) /\ UNCHANGED <<stateVars, doneVars>>
    /\ UNCHANGED <<reads, writes, wpumpVars, buf, reqVars, callVars, adminVars>>

(* failPump drains both channels without the lock.                         *)
PumpFailDrain(g) ==
    /\ rpump[g] = "faildrain"
    /\ DrainReads(cur) /\ DrainWrites(cur, {})
    /\ PumpTo(g, "end", None, 0)
    /\ UNCHANGED <<stateVars, doneVars, wpumpVars, callVars, adminVars>>

DrainIfClosed(g) ==
    IF closed THEN DrainReads(g) ELSE UNCHANGED <<reads, buf>>

PumpSendsError(g) ==
    /\ rpump[g] = "senderr"
    /\ \/ /\ g \in doneClosed
          /\ DrainIfClosed(g)
          /\ PumpTo(g, "end", None, 0)
       \/ /\ Len(reads[g]) < ChanCap
          /\ reads' = [reads EXCEPT ![g] = Append(@, None)]
          /\ PumpTo(g, "read", None, 0)
          /\ UNCHANGED buf
    /\ UNCHANGED <<stateVars, doneVars, writes, wpumpVars, reqVars, callVars,
                   adminVars>>

(* The select of readPump; both cases may be ready.                        *)
PumpSends(g) ==
    /\ rpump[g] = "send"
    /\ \/ /\ g \in doneClosed
          /\ buf' = [buf EXCEPT ![rpkt[g]] = Put(@)]
          /\ PumpTo(g, "stopped", None, 0)
          /\ UNCHANGED reads
       \/ /\ Len(reads[g]) < ChanCap
          /\ reads' = [reads EXCEPT ![g] = Append(@, rpkt[g])]
          /\ PumpTo(g, "sent", None, 0)
          /\ UNCHANGED buf
    /\ UNCHANGED <<stateVars, doneVars, writes, wpumpVars, reqVars, callVars,
                   adminVars>>

(* After either case the pump of a closed wrapper empties the channel.     *)
PumpSent(g) ==
    /\ rpump[g] \in {"sent", "stopped"}
    /\ DrainIfClosed(g)
    /\ PumpTo(g, IF closed \/ rpump[g] = "stopped" THEN "end" ELSE "read", None, 0)
    /\ UNCHANGED <<stateVars, doneVars, writes, wpumpVars, reqVars, callVars,
                   adminVars>>

(* The select of forwardStaleRead.                                         *)
PumpForwards(g) ==
    /\ rpump[g] = "forward"
    /\ \/ /\ rdst[g] \in doneClosed
          /\ buf' = [buf EXCEPT ![rpkt[g]] = Put(@)]
          /\ UNCHANGED reads
       \/ /\ Len(reads[rdst[g]]) < ChanCap
          /\ reads' = [reads EXCEPT ![rdst[g]] = Append(@, rpkt[g])]
          /\ UNCHANGED buf
    /\ PumpTo(g, "end", None, 0)
    /\ UNCHANGED <<stateVars, doneVars, writes, wpumpVars, reqVars, callVars,
                   adminVars>>

-----------------------------------------------------------------------------
(* writePump of generation g.                                              *)

WriterTo(g, state, r) ==
    /\ wpump' = [wpump EXCEPT ![g] = state]
    /\ wreq' = [wreq EXCEPT ![g] = r]

(* Fault: take does not look whether the request was cancelled.            *)
TakeAlways(r) == TRUE

(* req.take.                                                               *)
Take(r) == ~taken[r] /\ wbuf[r] = "owned"

WriterTakes(g) ==
    /\ wpump[g] = "select" /\ writes[g] # <<>>
    /\ LET r == Head(writes[g]) IN
          IF Take(r)
          THEN taken' = [taken EXCEPT ![r] = TRUE] /\ WriterTo(g, "writing", r)
          ELSE UNCHANGED <<taken, wpumpVars>>
    /\ writes' = [writes EXCEPT ![g] = Tail(@)]
    /\ UNCHANGED <<stateVars, doneVars, reads, rpumpVars, buf, wbuf, resp, finished,
                   pendingWrites, callVars, adminVars>>

WriterStops(g) ==
    /\ wpump[g] = "select" /\ g \in doneClosed
    /\ DrainWrites(g, {})
    /\ WriterTo(g, "end", None)
    /\ UNCHANGED <<stateVars, doneVars, reads, rpumpVars, buf, callVars, adminVars>>

(* The wrapped Tun returns from Write.  The pump releases the buffers and  *)
(* answers the request, unless its generation is over or Write failed.     *)
WriterWritten(g) ==
    /\ wpump[g] = "writing"
    /\ \/ /\ ~Generation(g)
          /\ LET C == Cancelled(Queued(g)) \cup {wreq[g]}
             IN Release(C, C)
          /\ writes' = [writes EXCEPT ![g] = <<>>]
          /\ WriterTo(g, "end", None)
          /\ UNCHANGED <<stateVars, doneVars>>
       \/ /\ Generation(g)
          /\ SetFailure
          /\ Release({wreq[g]}, {})
          /\ WriterTo(g, "faildrain", wreq[g])
          /\ UNCHANGED writes
       \/ /\ Generation(g)
          /\ Release({wreq[g]}, {wreq[g]})
          /\ WriterTo(g, "select", None)
          /\ UNCHANGED <<stateVars, doneVars, writes>>
    /\ UNCHANGED <<reads, rpumpVars, buf, callVars, adminVars>>

WriterFailDrain(g) ==
    /\ wpump[g] = "faildrain"
    /\ DrainReads(cur) /\ DrainWrites(cur, {wreq[g]})
    /\ WriterTo(g, "end", None)
    /\ UNCHANGED <<stateVars, doneVars, rpumpVars, callVars, adminVars>>

-----------------------------------------------------------------------------
(* The callers.  channels and writeRequest hand out the channels of the    *)
(* current generation under the lock.                                      *)

Usable == up /\ ~closed /\ ~failed

(* Read: there may be any number of callers, each of which waits on the    *)
(* channels of the generation it began in and may still take a packet when *)
(* that is over.  What it takes goes back to the pool once it is copied.   *)
Read(g) ==
    /\ reads[g] # <<>>
    /\ reads' = [reads EXCEPT ![g] = Tail(@)]
    /\ buf' = [p \in Packets |->
           IF p = Head(reads[g]) THEN Put(buf[p]) ELSE buf[p]]
    /\ UNCHANGED <<stateVars, doneVars, writes, rpumpVars, wpumpVars, reqVars,
                   callVars, adminVars>>

(* Write: writeRequest copies the packets to buffers of the pool.          *)
WriteRequest(r) ==
    /\ wpc[r] = "idle" /\ Usable
    /\ wpc' = [wpc EXCEPT ![r] = "enqueue"]
    /\ wdst' = [wdst EXCEPT ![r] = cur]
    /\ wbuf' = [wbuf EXCEPT ![r] = "owned"]
    /\ pendingWrites' = pendingWrites + 1
    /\ UNCHANGED <<stateVars, doneVars, reads, writes, rpumpVars, wpumpVars, buf,
                   taken, resp, finished, adminVars>>

WriterReturns(r) ==
    /\ wpc' = [wpc EXCEPT ![r] = "returned"]
    /\ wdst' = [wdst EXCEPT ![r] = 0]

(* enqueueDetachedTunWrite.                                                *)
Enqueue(r) ==
    /\ wpc[r] = "enqueue"
    /\ \/ /\ wdst[r] \in doneClosed
          /\ Cancel({r}, {}) /\ WriterReturns(r)
          /\ UNCHANGED writes
       \/ /\ Len(writes[wdst[r]]) < ChanCap
          /\ writes' = [writes EXCEPT ![wdst[r]] = Append(@, r)]
          /\ wpc' = [wpc EXCEPT ![r] = "wait"]
          /\ UNCHANGED <<reqVars, wdst>>
    /\ UNCHANGED <<stateVars, doneVars, reads, rpumpVars, wpumpVars, buf,
                   adminVars>>

(* The last select of Write.                                               *)
WriteReturns(r) ==
    /\ wpc[r] = "wait"
    /\ \/ wdst[r] \in doneClosed /\ Cancel({r}, {})
       \/ resp[r] /\ UNCHANGED reqVars
    /\ WriterReturns(r)
    /\ UNCHANGED <<stateVars, doneVars, reads, writes, rpumpVars, wpumpVars, buf,
                   adminVars>>

ReadPump(g) ==
    \/ PumpReads(g) \/ PumpReadFails(g) \/ PumpFailDrain(g) \/ PumpSendsError(g)
    \/ PumpSends(g) \/ PumpSent(g) \/ PumpForwards(g)

WritePump(g) ==
    \/ WriterTakes(g) \/ WriterStops(g) \/ WriterWritten(g)
    \/ WriterFailDrain(g)

CloseReturns == CloseDrain \/ WaitPumps \/ WaitWrites

Writes(r) == Enqueue(r) \/ WriteReturns(r)

Next ==
    \/ Up \/ UpFails \/ Down \/ Close \/ CloseReturns
    \/ \E g \in Gens : ReadPump(g) \/ WritePump(g) \/ Read(g) \/ DownDone(g)
    \/ \E r \in Requests : WriteRequest(r) \/ Writes(r)

Spec == Init /\ [][Next]_vars

(* Goroutines that can run do, and a wrapped Tun that is closed or         *)
(* otherwise unblocked returns from its calls, as Wait requires.           *)
Goroutines == Requests \cup {<<"close", 0>>} \cup ({"down", "read", "write"} \X Gens)

Goroutine(g) ==
    \/ g \in Requests /\ Writes(g)
    \/ g \notin Requests /\ g[1] = "close" /\ CloseReturns
    \/ g \notin Requests /\ g[1] = "down" /\ DownDone(g[2])
    \/ g \notin Requests /\ g[1] = "read" /\ ReadPump(g[2])
    \/ g \notin Requests /\ g[1] = "write" /\ WritePump(g[2])

Fairness == \A g \in Goroutines : WF_vars(Goroutine(g))

-----------------------------------------------------------------------------
BufStates == {"none", "owned", "put", "twice"}

(* Type invariant; the channels keep to their capacity, and d.pendingWrites*)
(* counts no more than the requests.                                       *)
Types ==
    /\ gen \in 1 .. MaxGen + 1 /\ cur \in Gens
    /\ doneClosed \subseteq Gens /\ ending \subseteq Gens
    /\ reads \in [Gens -> Seq(Packets \cup {None})] /\ writes \in [Gens -> Seq(Requests)]
    /\ rpump \in [Gens -> {"none", "read", "senderr", "send", "sent",
                           "stopped", "forward", "faildrain", "end"}]
    /\ rpkt \in [Gens -> Packets \cup {None}] /\ rdst \in [Gens -> Gens \cup {0}]
    /\ wpump \in [Gens -> {"none", "select", "writing", "faildrain", "end"}]
    /\ wreq \in [Gens -> Requests \cup {None}]
    /\ buf \in [Packets -> BufStates] /\ wbuf \in [Requests -> BufStates]
    /\ wdst \in [Requests -> Gens \cup {0}]
    /\ wpc \in [Requests -> {"idle", "enqueue", "wait", "returned"}]
    /\ taken \in [Requests -> BOOLEAN] /\ resp \in [Requests -> BOOLEAN]
    /\ finished \in [Requests -> BOOLEAN]
    /\ cpc \in {"idle", "drain", "wait", "waitwrites", "waited"}

TypeOK ==
    /\ Types
    /\ {up, closed, failed, panicked} \subseteq BOOLEAN
    /\ \A g \in Gens : Len(reads[g]) <= ChanCap /\ Len(writes[g]) <= ChanCap
    /\ pendingWrites \in 0 .. Cardinality(Requests)

(* What must happen once happens once.  A buffer goes back to the pool     *)
(* once, whoever gets there first: the pump, a drain, the caller that gave *)
(* up, or Close.  Down closes the done channel without the lock, Close and *)
(* a failed pump with it; none is closed twice, which would panic.         *)
PutOnce ==
    /\ ~panicked
    /\ \A p \in Packets : buf[p] # "twice"
    /\ \A r \in Requests : wbuf[r] # "twice"

(* While the wrapped Tun writes a request, the buffers of the request are  *)
(* not in the pool, although its caller may have left.                     *)
NotReusedWhileWriting ==
    \A g \in Gens : wpump[g] = "writing" => wbuf[wreq[g]] = "owned"

(* A buffer goes back to the pool once, and not before the wrapped Tun has *)
(* finished with it.                                                       *)
BuffersSafe == PutOnce /\ NotReusedWhileWriting

(* d.pendingWrites, which Wait waits for, counts the requests that have    *)
(* buffers.                                                                *)
PendingWritesExact ==
    pendingWrites = Cardinality({r \in Requests : wbuf[r] = "owned"})

(* "Pending Read and Write calls on the wrapper return when the wrapper is *)
(* taken down or closed", and so does Wait, if the wrapped Tun returns     *)
(* from its calls.                                                         *)
WaitReturns == cpc = "drain" ~> cpc = "waited"

(* "Wait waits until this detached wrapper no longer owns buffers allocated*)
(* from the pool passed to Detach."                                        *)
WaitPromise ==
    cpc = "waited" =>
        /\ \A p \in Packets : buf[p] # "owned"
        /\ \A r \in Requests : wbuf[r] # "owned"
============================================================================

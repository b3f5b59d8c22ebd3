--------------------------- MODULE SplitFrontend ---------------------------
(***************************************************************************)
(* One SplitFrontend of tun.Splitter (tun/splitter.go): Up, Down and Close *)
(* by any goroutine, one Read, one Write and one delivery at a time, and   *)
(* the Splitter's writePump.  done is made anew by every Up.  Calls wait   *)
(* on effectiveDone, which a goroutine closes after done or the Splitter's *)
(* done; refreshEffectiveDoneLocked makes a new one once the old is closed.*)
(* Channels are numbered in the order they are made.                       *)
(***************************************************************************)
EXTENDS Integers, Sequences, FiniteSets

CONSTANTS
    Callers,           \* goroutines that call Up, Down and Close
    QueueCap,          \* capacity of Splitter.writes
    MaxUps, MaxChans   \* bounds on the channels done and effectiveDone made

NoChan == 0

VARIABLES
    splitterDone,      \* Splitter.done is closed
    up, closed,
    done, doneClosed,  \* SplitFrontend.done, and the closed ones
    eff, effOf, effClosed,     \* effectiveDone, the done each one follows, the closed ones
    closing,           \* caller -> the done that its Down is about to close, or NoChan
    reading, delivering, writing,      \* effectiveDone of the call in progress, or NoChan
    queue, pumping,    \* Splitter.writes; the request writePump is at
    sent               \* what became of the Write in progress

vars == <<splitterDone, up, closed, done, doneClosed, eff, effOf, effClosed, closing,
          reading, delivering, writing, queue, pumping, sent>>

Init ==
    /\ splitterDone = FALSE /\ up = TRUE /\ closed = FALSE
    /\ done = 1 /\ doneClosed = {}
    /\ eff = 1 /\ effOf = <<1>> /\ effClosed = {}
    /\ closing = [c \in Callers |-> NoChan]
    /\ reading = NoChan /\ delivering = NoChan /\ writing = NoChan
    /\ queue = <<>> /\ pumping = "idle" /\ sent = "no"

----------------------------------------------------------------------------
(* refreshEffectiveDoneLocked; a closed effectiveDone is followed by one   *)
(* of the done of now.                                                     *)
Refresh(d) ==
    IF eff \notin effClosed THEN UNCHANGED <<eff, effOf>>
    ELSE eff' = Len(effOf) + 1 /\ effOf' = Append(effOf, d)

\* The goroutine of an effectiveDone.
Forward(e) ==
    /\ e \in DOMAIN effOf /\ e \notin effClosed
    /\ effOf[e] \in doneClosed \/ splitterDone
    /\ effClosed' = effClosed \cup {e}
    /\ UNCHANGED <<splitterDone, up, closed, done, doneClosed, eff, effOf, closing,
                   reading, delivering, writing, queue, pumping, sent>>

room == Len(effOf) < MaxChans
calls == <<reading, delivering, writing, queue, pumping, sent>>

Up ==
    /\ ~closed /\ ~up /\ done < MaxUps /\ room
    /\ up' = TRUE
    /\ done' = done + 1
    /\ Refresh(done')
    /\ UNCHANGED <<splitterDone, closed, doneClosed, effClosed, closing, calls>>

\* Down up to the unlock.
Down(c) ==
    /\ closing[c] = NoChan /\ ~closed /\ up
    /\ up' = FALSE
    /\ closing' = [closing EXCEPT ![c] = done]
    /\ UNCHANGED <<splitterDone, closed, done, doneClosed, eff, effOf, effClosed, calls>>

\* The rest of Down.
DownCloses(c) ==
    /\ closing[c] # NoChan
    /\ doneClosed' = doneClosed \cup {closing[c]}
    /\ closing' = [closing EXCEPT ![c] = NoChan]
    /\ UNCHANGED <<splitterDone, up, closed, done, eff, effOf, effClosed, calls>>

\* Mutant: Close closes done whether Down has been there or not.
CloseAgain ==
    /\ ~closed
    /\ closed' = TRUE /\ up' = FALSE
    /\ doneClosed' = doneClosed \cup {done}
    /\ UNCHANGED <<splitterDone, done, eff, effOf, effClosed, closing, calls>>

Close ==
    /\ ~closed
    /\ closed' = TRUE /\ up' = FALSE
    /\ doneClosed' = IF up THEN doneClosed \cup {done} ELSE doneClosed
    /\ UNCHANGED <<splitterDone, done, eff, effOf, effClosed, closing, calls>>

\* Splitter.Close closes done first.
SplitterClose ==
    /\ ~splitterDone
    /\ splitterDone' = TRUE
    /\ UNCHANGED <<up, closed, done, doneClosed, eff, effOf, effClosed, closing, calls>>

----------------------------------------------------------------------------
(* Read: channels, then the select. *)

state == <<splitterDone, up, closed, done, doneClosed, effClosed, closing>>

ReadBegins ==
    /\ reading = NoChan /\ ~closed /\ up /\ room
    /\ Refresh(done)
    /\ reading' = eff'
    /\ UNCHANGED <<state, delivering, writing, queue, pumping, sent>>

ReadDown ==
    /\ reading # NoChan /\ reading \in effClosed
    /\ reading' = NoChan
    /\ UNCHANGED <<state, eff, effOf, delivering, writing, queue, pumping, sent>>

(* deliver, of the reader of a backend: it takes effectiveDone as it is.   *)
DeliverBegins ==
    /\ delivering = NoChan /\ ~closed /\ up
    /\ delivering' = eff
    /\ UNCHANGED <<state, eff, effOf, reading, writing, queue, pumping, sent>>

\* reads is not buffered: the two meet, or the packet is dropped.
DeliverMeets ==
    /\ delivering # NoChan /\ reading # NoChan
    /\ delivering' = NoChan /\ reading' = NoChan
    /\ UNCHANGED <<state, eff, effOf, writing, queue, pumping, sent>>

DeliverDrops ==
    /\ delivering # NoChan /\ delivering \in effClosed
    /\ delivering' = NoChan
    /\ UNCHANGED <<state, eff, effOf, reading, writing, queue, pumping, sent>>

----------------------------------------------------------------------------
(* Write: writeChannel, then enqueueDetachedTunWrite, then the answer.     *)

WriteBegins ==
    /\ writing = NoChan /\ ~closed /\ up /\ room
    /\ Refresh(done)
    /\ writing' = eff'
    /\ UNCHANGED <<state, reading, delivering, queue, pumping, sent>>

WriteQueues ==
    /\ writing # NoChan /\ sent = "no" /\ Len(queue) < QueueCap
    /\ queue' = Append(queue, "live") /\ sent' = "queued"
    /\ UNCHANGED <<state, eff, effOf, reading, delivering, writing, pumping>>

\* The call returns; a request that is still queued is cancelled.
WriteDown ==
    /\ writing # NoChan /\ writing \in effClosed
    /\ writing' = NoChan /\ sent' = "no"
    /\ queue' = [i \in DOMAIN queue |-> "cancelled"]
    /\ pumping' = IF pumping = "live" THEN "cancelled" ELSE pumping
    /\ UNCHANGED <<state, eff, effOf, reading, delivering>>

WriteReturns ==
    /\ sent = "answered"
    /\ writing' = NoChan /\ sent' = "no"
    /\ UNCHANGED <<state, eff, effOf, reading, delivering, queue, pumping>>

(* writePump. *)
PumpTakes ==
    /\ pumping = "idle" /\ queue # <<>>
    /\ pumping' = IF Head(queue) = "live" THEN "live" ELSE "idle"
    /\ queue' = Tail(queue)
    /\ UNCHANGED <<state, eff, effOf, reading, delivering, writing, sent>>

PumpAnswers ==
    /\ pumping \in {"live", "cancelled"}
    /\ pumping' = "idle"
    /\ sent' = IF pumping = "live" THEN "answered" ELSE sent
    /\ UNCHANGED <<state, eff, effOf, reading, delivering, writing, queue>>

\* drainDetachedTunWrites, and writePump ends.
PumpDrains ==
    /\ pumping = "idle" /\ splitterDone
    /\ pumping' = "ended"
    /\ sent' = IF \E i \in DOMAIN queue : queue[i] = "live" THEN "answered" ELSE sent
    /\ queue' = <<>>
    /\ UNCHANGED <<state, eff, effOf, reading, delivering, writing>>

Pump == PumpTakes \/ PumpAnswers \/ PumpDrains

Next ==
    \/ \E e \in 1..MaxChans : Forward(e)
    \/ Up \/ Close \/ SplitterClose
    \/ \E c \in Callers : Down(c) \/ DownCloses(c)
    \/ ReadBegins \/ ReadDown
    \/ DeliverBegins \/ DeliverMeets \/ DeliverDrops
    \/ WriteBegins \/ WriteQueues \/ WriteDown \/ WriteReturns
    \/ Pump

Spec == Init /\ [][Next]_vars

(* Goroutines that can go on do; nobody need call anything.                *)
Goroutines ==
    Callers \cup ({"forward"} \X (1..MaxChans)) \cup ({"read", "deliver", "write", "pump"} \X {0})

Goroutine(g) ==
    \/ g \in Callers /\ DownCloses(g)
    \/ g \notin Callers /\ g[1] = "forward" /\ Forward(g[2])
    \/ g \notin Callers /\ g[1] = "read" /\ ReadDown
    \/ g \notin Callers /\ g[1] = "deliver" /\ DeliverDrops
    \/ g \notin Callers /\ g[1] = "write" /\ (WriteDown \/ WriteReturns)
    \/ g \notin Callers /\ g[1] = "pump" /\ Pump

Fairness == \A g \in Goroutines : WF_vars(Goroutine(g))

----------------------------------------------------------------------------
(* No done is closed twice, which would panic: not by two Downs, by a Down *)
(* that an Up has overtaken, or by Close after Down.                       *)
DoneOnce ==
    /\ up => done \notin doneClosed
    /\ \A c \in Callers : closing[c] # NoChan =>
           /\ closing[c] \notin doneClosed
           /\ \A d \in Callers : closing[d] = closing[c] => d = c
           /\ up => done # closing[c]

(* Down and Close release the calls in progress, whatever follows them:    *)
(* "Down stops this frontend and releases pending Read and Write calls".   *)
Free(call) ==
    CASE call = "read" -> reading = NoChan
      [] call = "deliver" -> delivering = NoChan
      [] call = "write" -> writing = NoChan
Stuck(call) == (~up \/ splitterDone) /\ ~Free(call)
DownReleasesCalls == \A call \in {"read", "deliver", "write"} : Stuck(call) ~> Free(call)

=============================================================================

------------------------- MODULE LoopbackTCPStream -------------------------
(***************************************************************************)
(* One direction of a loopback TCP connection (loopbackTCPStream and       *)
(* loopbackTCPPipeConn, loopback_tcp.go): goroutines that Write into it at *)
(* one end and Read from it at the other, while either end may be closed   *)
(* and deadlines are set and expire.  The other direction is its mirror    *)
(* image and shares nothing with it but the two closed channels.           *)
(*                                                                         *)
(* A step is a critical section of s.mu, up to the Wait or the return that *)
(* ends it, or a step that needs no lock.  Bytes are numbered in the order *)
(* in which the stream takes them.                                         *)
(***************************************************************************)
EXTENDS Naturals, Sequences

CONSTANTS Writers, Readers,  \* goroutines at the two ends
          Cap,               \* loopbackTCPBufferSize
          MaxLen             \* bound on the length of a slice

VARIABLES buf, cap,                    \* s.buf and its capacity
          readerClosed, writerClosed,
          rClosed, wClosed,            \* the closed channels of the two ends
          rpc, rlen, rres,             \* Read: where, len(b), what it returned
          wpc, want,                   \* Write: where, bytes left
          sent, got,                   \* bytes taken in, bytes handed out
          settled,                     \* sent before the writing end was closed
          rdl, rtimer, rnotify,        \* readDeadline, its timer, its notify call
          wdl, wtimer, wnotify         \* writeDeadline

bufVars   == <<buf, cap, sent, got>>
closeVars == <<readerClosed, writerClosed, rClosed, wClosed, settled>>
readVars  == <<rpc, rlen, rres>>
writeVars == <<wpc, want>>
rdlVars   == <<rdl, rtimer, rnotify>>
wdlVars   == <<wdl, wtimer, wnotify>>
vars == <<bufVars, closeVars, readVars, writeVars, rdlVars, wdlVars>>

PCs == {"idle", "lock", "waiting", "woken"}

Smaller(m, n) == IF m < n THEN m ELSE n

(* newLoopbackTCPPipePair. *)
Init ==
    /\ buf = <<>> /\ cap = Cap /\ sent = 0 /\ got = <<>>
    /\ readerClosed = FALSE /\ writerClosed = FALSE
    /\ rClosed = FALSE /\ wClosed = FALSE /\ settled = 0
    /\ rpc = [r \in Readers |-> "idle"]
    /\ rlen = [r \in Readers |-> 0]
    /\ rres = [r \in Readers |-> "none"]
    /\ wpc = [w \in Writers |-> "idle"]
    /\ want = [w \in Writers |-> 0]
    /\ rdl = "none" /\ rtimer = FALSE /\ rnotify = FALSE
    /\ wdl = "none" /\ wtimer = FALSE /\ wnotify = FALSE

(* Cond.Broadcast: who waits goes on once it gets the lock. *)
Wake(pc) == [x \in DOMAIN pc |-> IF pc[x] = "waiting" THEN "woken" ELSE pc[x]]

(* Free capacity of s.buf, and s.buf[n:]. *)
Room == cap - Len(buf)
Rest(n) == SubSeq(buf, n + 1, Len(buf))

----------------------------------------------------------------------------
(* Read. *)

(* checkClosed before the lock. *)
BeginRead(r, n) ==
    /\ rpc[r] = "idle"
    /\ IF rClosed
       THEN rres' = [rres EXCEPT ![r] = "closed"] /\ UNCHANGED <<rpc, rlen>>
       ELSE /\ rpc' = [rpc EXCEPT ![r] = "lock"]
            /\ rlen' = [rlen EXCEPT ![r] = n]
            /\ rres' = [rres EXCEPT ![r] = "none"]
    /\ UNCHANGED <<bufVars, closeVars, writeVars, rdlVars, wdlVars>>

ReadReturns(r, res) ==
    /\ rres' = [rres EXCEPT ![r] = res]
    /\ rpc' = [rpc EXCEPT ![r] = "idle"]
    /\ rlen' = [rlen EXCEPT ![r] = 0]
    /\ UNCHANGED <<bufVars, writeVars>>

(* Hand out up to len(b) bytes.  Reslicing s.buf gives their capacity up.  *)
ReadData(r) ==
    LET n == Smaller(rlen[r], Len(buf)) IN
    /\ got' = got \o SubSeq(buf, 1, n)
    /\ buf' = Rest(n)
    /\ cap' = cap - n
    /\ wpc' = Wake(wpc)
    /\ rres' = [rres EXCEPT ![r] = "data"]
    /\ rpc' = [rpc EXCEPT ![r] = "idle"]
    /\ rlen' = [rlen EXCEPT ![r] = 0]
    /\ UNCHANGED <<sent, want>>

ReadWaits(r) ==
    /\ rpc' = [rpc EXCEPT ![r] = "waiting"]
    /\ UNCHANGED <<bufVars, rlen, rres, writeVars>>

(* Mutant: end of file is reported before the buffer is empty. *)
ReadEOFFirst(r) ==
    /\ rpc[r] \in {"lock", "woken"}
    /\ IF rpc[r] = "woken" /\ rClosed THEN ReadReturns(r, "closed")
       ELSE IF writerClosed THEN ReadReturns(r, "eof")
       ELSE IF Len(buf) > 0 THEN ReadData(r)
       ELSE IF readerClosed THEN ReadReturns(r, "closed")
       ELSE IF rdl = "past" THEN ReadReturns(r, "timeout")
       ELSE ReadWaits(r)
    /\ UNCHANGED <<closeVars, rdlVars, wdlVars>>

(* The critical section of Read. *)
Read(r) ==
    /\ rpc[r] \in {"lock", "woken"}
    /\ IF rpc[r] = "woken" /\ rClosed THEN ReadReturns(r, "closed")
       ELSE IF Len(buf) > 0 THEN ReadData(r)
       ELSE IF readerClosed THEN ReadReturns(r, "closed")
       ELSE IF writerClosed THEN ReadReturns(r, "eof")
       ELSE IF rdl = "past" THEN ReadReturns(r, "timeout")
       ELSE ReadWaits(r)
    /\ UNCHANGED <<closeVars, rdlVars, wdlVars>>

----------------------------------------------------------------------------
(* Write. *)

(* checkClosed before the lock; on a closed end Write changes nothing. *)
BeginWrite(w, n) ==
    /\ wpc[w] = "idle"
    /\ ~wClosed
    /\ wpc' = [wpc EXCEPT ![w] = "lock"]
    /\ want' = [want EXCEPT ![w] = n]
    /\ UNCHANGED <<bufVars, closeVars, readVars, rdlVars, wdlVars>>

(* Return early with an error: ErrClosed, ErrClosedPipe or a timeout. *)
WriteFails(w) ==
    /\ wpc' = [wpc EXCEPT ![w] = "idle"]
    /\ want' = [want EXCEPT ![w] = 0]
    /\ UNCHANGED <<bufVars, readVars, settled>>

(* Take as many bytes as there is room for, and return or wait.            *)
WriteData(w) ==
    LET n == Smaller(want[w], Room) IN
    /\ buf' = buf \o [i \in 1 .. n |-> sent + i]
    /\ sent' = sent + n
    /\ want' = [want EXCEPT ![w] = @ - n]
    /\ rpc' = IF n > 0 THEN Wake(rpc) ELSE rpc
    /\ IF n = want[w]
       THEN /\ wpc' = [wpc EXCEPT ![w] = "idle"]
            /\ settled' = IF wClosed THEN settled ELSE sent + n
       ELSE /\ wpc' = [wpc EXCEPT ![w] = "waiting"]
            /\ UNCHANGED settled
    /\ UNCHANGED <<cap, got, rlen, rres>>

(* The critical section of Write. *)
Write(w) ==
    /\ wpc[w] \in {"lock", "woken"}
    /\ IF (wpc[w] = "woken" /\ wClosed) \/ readerClosed \/ wdl = "past"
       THEN WriteFails(w)
       ELSE WriteData(w)
    /\ UNCHANGED <<readerClosed, writerClosed, rClosed, wClosed, rdlVars, wdlVars>>

----------------------------------------------------------------------------
(* Close of the reading and of the writing end: first the channel, then    *)
(* the flag under the lock.                                                *)

CloseReader ==
    /\ ~rClosed
    /\ rClosed' = TRUE
    /\ UNCHANGED <<bufVars, readerClosed, writerClosed, wClosed, settled,
                   readVars, writeVars, rdlVars, wdlVars>>

ClosedReader ==
    /\ rClosed /\ ~readerClosed
    /\ readerClosed' = TRUE
    /\ rpc' = Wake(rpc)
    /\ wpc' = Wake(wpc)
    /\ UNCHANGED <<bufVars, writerClosed, rClosed, wClosed, settled,
                   rlen, rres, want, rdlVars, wdlVars>>

CloseWriter ==
    /\ ~wClosed
    /\ wClosed' = TRUE
    /\ UNCHANGED <<bufVars, readerClosed, writerClosed, rClosed, settled,
                   readVars, writeVars, rdlVars, wdlVars>>

ClosedWriter ==
    /\ wClosed /\ ~writerClosed
    /\ writerClosed' = TRUE
    /\ rpc' = Wake(rpc)
    /\ wpc' = Wake(wpc)
    /\ UNCHANGED <<bufVars, readerClosed, rClosed, wClosed, settled,
                   rlen, rres, want, rdlVars, wdlVars>>

----------------------------------------------------------------------------
(* Deadlines (deadlineState): "future" becomes "past" when time passes.    *)
(* set stops the timer; of a deadline in the past it runs notify at once.  *)

SetReadDeadline(d) ==
    /\ rdl' = d
    /\ rtimer' = (d = "future")
    /\ rnotify' = (rnotify \/ d = "past")
    /\ UNCHANGED <<bufVars, closeVars, readVars, writeVars, wdlVars>>

SetWriteDeadline(d) ==
    /\ wdl' = d
    /\ wtimer' = (d = "future")
    /\ wnotify' = (wnotify \/ d = "past")
    /\ UNCHANGED <<bufVars, closeVars, readVars, writeVars, rdlVars>>

(* Time passes; the timer fires after that, unless set stops it.           *)
ReadTimePasses ==
    /\ rdl = "future"
    /\ rdl' = "past"
    /\ UNCHANGED <<bufVars, closeVars, readVars, writeVars, rtimer, rnotify, wdlVars>>

WriteTimePasses ==
    /\ wdl = "future"
    /\ wdl' = "past"
    /\ UNCHANGED <<bufVars, closeVars, readVars, writeVars, wtimer, wnotify, rdlVars>>

FireRead ==
    /\ rtimer /\ rdl = "past"
    /\ rtimer' = FALSE /\ rnotify' = TRUE
    /\ UNCHANGED <<bufVars, closeVars, readVars, writeVars, rdl, wdlVars>>

FireWrite ==
    /\ wtimer /\ wdl = "past"
    /\ wtimer' = FALSE /\ wnotify' = TRUE
    /\ UNCHANGED <<bufVars, closeVars, readVars, writeVars, wdl, rdlVars>>

(* The notify functions of SetReadDeadline and SetWriteDeadline. *)
NotifyRead ==
    /\ rnotify
    /\ rnotify' = FALSE
    /\ rpc' = Wake(rpc)
    /\ UNCHANGED <<bufVars, closeVars, rlen, rres, writeVars, rdl, rtimer, wdlVars>>

NotifyWrite ==
    /\ wnotify
    /\ wnotify' = FALSE
    /\ wpc' = Wake(wpc)
    /\ UNCHANGED <<bufVars, closeVars, readVars, want, rdlVars, wdl, wtimer>>

----------------------------------------------------------------------------
Deadlines == {"none", "future", "past"}

Next ==
    \/ \E r \in Readers : Read(r) \/ \E n \in 1 .. MaxLen : BeginRead(r, n)
    \/ \E w \in Writers : Write(w) \/ \E n \in 1 .. MaxLen : BeginWrite(w, n)
    \/ CloseReader \/ ClosedReader \/ CloseWriter \/ ClosedWriter
    \/ \E d \in Deadlines : SetReadDeadline(d) \/ SetWriteDeadline(d)
    \/ ReadTimePasses \/ FireRead \/ NotifyRead
    \/ WriteTimePasses \/ FireWrite \/ NotifyWrite

Spec == Init /\ [][Next]_vars

(* Goroutines that are in a call, timers and clocks make progress; nobody  *)
(* has to call Read, Write, Close or to set a deadline.                    *)
Goroutines == Readers \cup Writers \cup {"reader", "writer", "read timer", "write timer"}

Goroutine(g) ==
    \/ g \in Readers /\ Read(g)
    \/ g \in Writers /\ Write(g)
    \/ g = "reader" /\ ClosedReader
    \/ g = "writer" /\ ClosedWriter
    \/ g = "read timer" /\ (ReadTimePasses \/ FireRead \/ NotifyRead)
    \/ g = "write timer" /\ (WriteTimePasses \/ FireWrite \/ NotifyWrite)

Fairness == \A g \in Goroutines : WF_vars(Goroutine(g))

(* ... and, besides, every end keeps reading. *)
ReadingSpec == Spec /\ Fairness /\ \A r \in Readers : WF_vars(BeginRead(r, MaxLen))

----------------------------------------------------------------------------
(* Type invariant; the buffer never outgrows its capacity. *)
TypeOK ==
    /\ cap \in 0 .. Cap
    /\ sent \in 0 .. Cap /\ settled \in 0 .. Cap
    /\ buf \in Seq(1 .. Cap) /\ Len(buf) <= cap
    /\ got \in Seq(1 .. Cap)
    /\ {readerClosed, writerClosed, rClosed, wClosed} \subseteq BOOLEAN
    /\ rpc \in [Readers -> PCs] /\ wpc \in [Writers -> PCs]
    /\ rlen \in [Readers -> 0 .. MaxLen] /\ want \in [Writers -> 0 .. MaxLen]
    /\ rres \in [Readers -> {"none", "data", "closed", "eof", "timeout"}]
    /\ {rdl, wdl} \subseteq Deadlines
    /\ {rtimer, rnotify, wtimer, wnotify} \subseteq BOOLEAN

(* The stream neither loses, duplicates nor reorders bytes, however reads  *)
(* and partial writes interleave.                                          *)
InOrder == got \o buf = [i \in 1 .. sent |-> i]

(* A reader that sees the end of the stream has seen every byte of every   *)
(* Write that returned before the writing end was closed.                  *)
EOFAfterData ==
    \A r \in Readers : rres[r] = "eof" => Len(got) >= settled

(* No wakeup is lost: while a Read waits there is nothing to read and      *)
(* nothing to report, while a Write waits there is no room and the reading *)
(* end is open, or somebody is about to broadcast.                         *)
NobodyForgotten ==
    /\ \A r \in Readers : rpc[r] = "waiting" =>
          /\ buf = <<>>
          /\ ~readerClosed /\ ~writerClosed
          /\ rdl = "past" => rtimer \/ rnotify
    /\ \A w \in Writers : wpc[w] = "waiting" =>
          /\ Len(buf) = cap
          /\ ~readerClosed
          /\ wdl = "past" => wtimer \/ wnotify

(* A Read returns after its end was closed, after the other end was closed *)
(* and the data drained, and after its deadline passed.                    *)
HasToReturn(r) == rpc[r] # "idle" /\ (rClosed \/ wClosed \/ rdl = "past")
ReadReturnsAtLast == \A r \in Readers : HasToReturn(r) ~> ~HasToReturn(r)

(* PipeTCP is "analogous to net.Pipe()": while the other end reads, a      *)
(* Write comes to its end.                                                 *)
WriteCompletes == \A w \in Writers : wpc[w] # "idle" ~> wpc[w] = "idle"
============================================================================

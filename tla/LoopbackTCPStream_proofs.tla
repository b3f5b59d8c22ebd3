---------------------- MODULE LoopbackTCPStream_proofs ----------------------
(***************************************************************************)
(* One direction of a loopback TCP connection keeps its bytes in order and *)
(* loses no wakeup, for any number of readers and writers, any buffer size *)
(* and slices of any length.                                               *)
(***************************************************************************)
EXTENDS LoopbackTCPStream, TLAPS

(* What the theorems assume of the constants. *)
Sizes == Cap \in Nat /\ MaxLen \in Nat

(* The buffer: byte number i is the i-th that was taken in, those handed   *)
(* out come before those still buffered, and every byte handed out has     *)
(* taken its place in the capacity of s.buf with it.                       *)
DataInv ==
    /\ cap \in Nat /\ sent \in Nat
    /\ buf \in Seq(1 .. Cap) /\ got \in Seq(1 .. Cap)
    /\ Len(buf) <= cap
    /\ cap + Len(got) = Cap
    /\ Len(got) + Len(buf) = sent
    /\ \A i \in 1 .. Len(got) : got[i] = i
    /\ \A i \in 1 .. Len(buf) : buf[i] = Len(got) + i

(* The types of everything else. *)
ControlTypes ==
    /\ {readerClosed, writerClosed, rClosed, wClosed} \subseteq BOOLEAN
    /\ rpc \in [Readers -> PCs] /\ wpc \in [Writers -> PCs]
    /\ rlen \in [Readers -> 0 .. MaxLen] /\ want \in [Writers -> 0 .. MaxLen]
    /\ rres \in [Readers -> {"none", "data", "closed", "eof", "timeout"}]
    /\ {rdl, wdl} \subseteq Deadlines
    /\ {rtimer, rnotify, wtimer, wnotify} \subseteq BOOLEAN

(* The channel of an end is closed before its flag; from then on settled   *)
(* stays as it is, so that who saw the end of the stream saw it all.       *)
CloseInv ==
    /\ settled \in 0 .. sent
    /\ writerClosed => wClosed
    /\ \A r \in Readers : rres[r] = "eof" => wClosed /\ Len(got) >= settled

(* A deadline that is still to come has its timer running. *)
WakeInv ==
    /\ NobodyForgotten
    /\ rdl = "future" => rtimer
    /\ wdl = "future" => wtimer

(* The inductive invariant. *)
IInv == DataInv /\ ControlTypes /\ CloseInv /\ WakeInv

----------------------------------------------------------------------------
(* The buffer. *)

(* A function on 1 .. n is a sequence. *)
LEMMA Listed ==
    ASSUME NEW S, NEW n \in Nat, NEW f \in [1 .. n -> S]
    PROVE  f \in Seq(S) /\ Len(f) = n
    OBVIOUS

(* The two parts of a sequence. *)
LEMMA Cut ==
    ASSUME NEW S, NEW s \in Seq(S), NEW n \in 0 .. Len(s)
    PROVE  /\ SubSeq(s, 1, n) \in Seq(S) /\ Len(SubSeq(s, 1, n)) = n
           /\ \A i \in 1 .. n : SubSeq(s, 1, n)[i] = s[i]
           /\ SubSeq(s, n + 1, Len(s)) \in Seq(S) /\ Len(SubSeq(s, n + 1, Len(s))) = Len(s) - n
           /\ \A i \in 1 .. Len(s) - n : SubSeq(s, n + 1, Len(s))[i] = s[n + i]
    OBVIOUS

(* Two sequences after one another. *)
LEMMA Joined ==
    ASSUME NEW S, NEW s \in Seq(S), NEW t \in Seq(S)
    PROVE  /\ s \o t \in Seq(S) /\ Len(s \o t) = Len(s) + Len(t)
           /\ Len(s) \in Nat /\ Len(t) \in Nat
           /\ \A i \in 1 .. Len(s) : (s \o t)[i] = s[i]
           /\ \A i \in 1 .. Len(t) : (s \o t)[Len(s) + i] = t[i]
    OBVIOUS

(* A sequence that counts on where another ends. *)
LEMMA Counting ==
    ASSUME NEW S, NEW s \in Seq(S), NEW t \in Seq(S), NEW k \in Nat, NEW m \in Nat, m = k + Len(s),
           \A i \in 1 .. Len(s) : s[i] = k + i,
           \A i \in 1 .. Len(t) : t[i] = m + i
    PROVE  \A i \in 1 .. Len(s) + Len(t) : (s \o t)[i] = k + i
<1> SUFFICES ASSUME NEW i \in 1 .. Len(s) + Len(t) PROVE (s \o t)[i] = k + i
    BY Zenon
<1>1. CASE i <= Len(s)
    BY <1>1, Joined
<1>2. CASE i > Len(s)
    <2>1. i - Len(s) \in 1 .. Len(t) /\ i = Len(s) + (i - Len(s))
        BY <1>2, Joined
    <2>2. (s \o t)[Len(s) + (i - Len(s))] = t[i - Len(s)]
        BY <2>1, Joined
    <2> QED
        BY <2>1, <2>2, Joined
<1> QED
    BY <1>1, <1>2, Joined

(* Handing out the first n bytes. *)
Takes(n) ==
    /\ got' = got \o SubSeq(buf, 1, n)
    /\ buf' = Rest(n)
    /\ cap' = cap - n
    /\ sent' = sent

(* Read takes bytes from the front of the buffer, ... *)
LEMMA Taking ==
    ASSUME Sizes, DataInv, NEW n \in 0 .. Len(buf), Takes(n)
    PROVE  DataInv' /\ Len(got') = Len(got) + n /\ Len(buf') = Len(buf) - n
<1>0. buf \in Seq(1 .. Cap) /\ got \in Seq(1 .. Cap)
    BY Zenon DEF DataInv
<1>p. /\ \A i \in 1 .. Len(got) : got[i] = i
      /\ \A i \in 1 .. Len(buf) : buf[i] = Len(got) + i
    BY Zenon DEF DataInv
<1>n. /\ cap \in Nat /\ sent \in Nat /\ Len(got) \in Nat /\ Len(buf) \in Nat /\ Len(buf) <= cap
      /\ cap + Len(got) = Cap /\ Len(got) + Len(buf) = sent
    BY DEF DataInv
<1>1. PICK head : head = SubSeq(buf, 1, n)
    BY Zenon
<1>2. head \in Seq(1 .. Cap) /\ Len(head) = n /\ \A i \in 1 .. n : head[i] = buf[i]
    BY ZenonT(30), <1>0, <1>1, Cut
<1>3. buf' \in Seq(1 .. Cap) /\ Len(buf') = Len(buf) - n /\ \A i \in 1 .. Len(buf) - n : buf'[i] = buf[n + i]
    BY <1>0, Cut, Zenon DEF Rest, Takes
<1>g. got' = got \o head
    BY <1>1, Zenon DEF Takes
<1>4. got' \in Seq(1 .. Cap)
    BY <1>0, <1>g, <1>2, Joined, Zenon
<1>l. Len(got') = Len(got) + n /\ Len(buf') = Len(buf) - n
    BY <1>0, <1>g, <1>2, <1>3, Joined, Zenon
<1>5. \A i \in 1 .. Len(got) + Len(head) : got'[i] = 0 + i
    <2>1. \A i \in 1 .. Len(got) : got[i] = 0 + i
        BY <1>p, <1>n
    <2>2. \A i \in 1 .. Len(head) : head[i] = Len(got) + i
        <3>1. \A i \in 1 .. n : i \in 1 .. Len(buf)
            BY <1>n
        <3> QED
            BY <1>2, <1>p, <3>1, Zenon
    <2>3. Len(got) = 0 + Len(got) /\ 0 \in Nat
        BY <1>n
    <2>4. \A i \in 1 .. Len(got) + Len(head) : (got \o head)[i] = 0 + i
        BY SMTT(30), <1>0, <1>2, <1>n, <2>1, <2>2, <2>3, Counting
    <2> QED
        BY <1>g, <2>4, Zenon
<1>6. \A i \in 1 .. Len(got') : got'[i] = i
    <2>1. \A i \in 1 .. Len(got') : i = 0 + i
        BY <1>n, <1>l
    <2> QED
        BY <1>2, <1>l, <1>5, <2>1, Zenon
<1>7. \A i \in 1 .. Len(buf') : buf'[i] = Len(got') + i
    <2> SUFFICES ASSUME NEW i \in 1 .. Len(buf') PROVE buf'[i] = Len(got') + i
        BY Zenon
    <2>1. i \in 1 .. Len(buf) - n /\ n + i \in 1 .. Len(buf) /\ Len(got) + (n + i) = Len(got') + i
        BY <1>l, <1>n
    <2> QED
        BY <1>3, <1>p, <2>1, Zenon
<1>8. cap' \in Nat /\ sent' \in Nat /\ Len(buf') <= cap' /\ cap' + Len(got') = Cap /\ Len(got') + Len(buf') = sent'
    <2>1. cap' = cap - n /\ sent' = sent
        BY Zenon DEF Takes
    <2> QED
        BY <1>l, <1>n, <2>1
<1> QED
    BY <1>3, <1>4, <1>l, <1>6, <1>7, <1>8, Zenon DEF DataInv

(* Taking in n bytes. *)
Puts(n) ==
    /\ buf' = buf \o [i \in 1 .. n |-> sent + i]
    /\ sent' = sent + n
    /\ cap' = cap
    /\ got' = got

(* ... and Write puts some at its end. *)
LEMMA Putting ==
    ASSUME Sizes, DataInv, NEW n \in 0 .. Room, Puts(n)
    PROVE  DataInv' /\ Len(buf') = Len(buf) + n
<1>0. /\ buf \in Seq(1 .. Cap) /\ got \in Seq(1 .. Cap) /\ n \in Nat /\ sent \in Nat
      /\ Len(buf) \in Nat /\ Len(got) \in Nat /\ sent + n <= Cap /\ Cap \in Nat
    BY DEF DataInv, Room, Sizes
<1>p. /\ \A i \in 1 .. Len(got) : got[i] = i
      /\ \A i \in 1 .. Len(buf) : buf[i] = Len(got) + i
    BY Zenon DEF DataInv
<1>n. /\ cap \in Nat /\ sent \in Nat /\ Len(got) \in Nat /\ Len(buf) \in Nat /\ Len(buf) <= cap
      /\ cap + Len(got) = Cap /\ Len(got) + Len(buf) = sent
    BY DEF DataInv
<1>1. PICK tail : tail = [i \in 1 .. n |-> sent + i]
    BY Zenon
<1>2. tail \in [1 .. n -> 1 .. Cap] /\ \A i \in 1 .. n : tail[i] = sent + i
    BY <1>0, <1>1
<1>3. tail \in Seq(1 .. Cap) /\ Len(tail) = n
    BY <1>0, <1>2, Listed, Zenon
<1>b. buf' = buf \o tail
    BY <1>1, Zenon DEF Puts
<1>l. Len(buf') = Len(buf) + n
    BY <1>0, <1>b, <1>3, Joined, Zenon
<1>4. buf' \in Seq(1 .. Cap)
    BY <1>0, <1>b, <1>3, Joined, Zenon
<1>5. \A i \in 1 .. Len(tail) : tail[i] = sent + i
    BY <1>2, <1>3, Zenon
<1>6. \A i \in 1 .. Len(buf) + Len(tail) : buf'[i] = Len(got) + i
    <2>0. sent = Len(got) + Len(buf) /\ Len(got) \in Nat /\ sent \in Nat /\ buf \in Seq(1 .. Cap)
        BY <1>0, <1>n, Zenon
    <2>1. \A i \in 1 .. Len(buf) + Len(tail) : (buf \o tail)[i] = Len(got) + i
        BY <1>3, <1>5, <1>p, <2>0, Counting
    <2> QED
        BY <1>b, <2>1, Zenon
<1>7. \A i \in 1 .. Len(buf') : buf'[i] = Len(got') + i
    BY <1>3, <1>l, <1>6, Zenon DEF Puts
<1>8. cap' \in Nat /\ sent' \in Nat /\ Len(buf') <= cap' /\ cap' + Len(got') = Cap /\ Len(got') + Len(buf') = sent'
    <2>1. cap' = cap /\ sent' = sent + n /\ got' = got
        BY Zenon DEF Puts
    <2> QED
        BY <1>l, <1>n, <2>1 DEF Room
<1> QED
    BY <1>0, <1>4, <1>l, <1>7, <1>8, <1>p, Zenon DEF DataInv, Puts

(* What the readers get and what is left is all that was sent, in order. *)
LEMMA Ordered == DataInv => InOrder
<1> SUFFICES ASSUME DataInv PROVE InOrder
    BY Zenon
<1>0. buf \in Seq(1 .. Cap) /\ got \in Seq(1 .. Cap) /\ Len(got) \in Nat
    BY DEF DataInv
<1>p. /\ \A i \in 1 .. Len(got) : got[i] = i
      /\ \A i \in 1 .. Len(buf) : buf[i] = Len(got) + i
    BY Zenon DEF DataInv
<1>1. PICK all : all = got \o buf
    BY Zenon
<1>2. all \in Seq(1 .. Cap) /\ Len(all) = sent
    BY ZenonT(30), <1>0, <1>1, Joined DEF DataInv
<1>3. \A i \in 1 .. Len(got) + Len(buf) : all[i] = 0 + i
    <2>1. \A i \in 1 .. Len(got) : got[i] = 0 + i
        BY <1>0, <1>p
    <2>2. Len(got) = 0 + Len(got) /\ 0 \in Nat
        BY <1>0
    <2>3. \A i \in 1 .. Len(got) + Len(buf) : (got \o buf)[i] = 0 + i
        BY <1>0, <1>p, <2>1, <2>2, Counting
    <2> QED
        BY <1>1, <2>3, Zenon
<1>4. \A i \in 1 .. sent : all[i] = i
    BY <1>3 DEF DataInv
<1>5. all = [i \in 1 .. sent |-> i]
    BY <1>2, <1>4
<1> QED
    BY <1>1, <1>5, Zenon DEF InOrder

(* Only a Read that gets data and a Write that takes it in touch the       *)
(* buffer.                                                                 *)
LEMMA DataMoves ==
    ASSUME [Next]_vars
    PROVE  \/ UNCHANGED bufVars
           \/ \E r \in Readers : Read(r) /\ Len(buf) > 0 /\ ReadData(r)
           \/ \E w \in Writers : Write(w) /\ WriteData(w)
<1>1. ASSUME NEW r \in Readers, Read(r) PROVE UNCHANGED bufVars \/ (Len(buf) > 0 /\ ReadData(r))
    BY Zenon, <1>1 DEF Read, ReadReturns, ReadWaits
<1>2. ASSUME NEW w \in Writers, Write(w) PROVE UNCHANGED bufVars \/ WriteData(w)
    BY Zenon, <1>2 DEF Write, WriteFails
<1>3. ASSUME NEW d, SetReadDeadline(d) \/ SetWriteDeadline(d) PROVE UNCHANGED bufVars
    BY Zenon, <1>3 DEF SetReadDeadline, SetWriteDeadline
<1>4. ASSUME NEW x, NEW n, BeginRead(x, n) \/ BeginWrite(x, n) PROVE UNCHANGED bufVars
    BY Zenon, <1>4 DEF BeginRead, BeginWrite
<1>5. CASE CloseReader \/ ClosedReader \/ CloseWriter \/ ClosedWriter
    BY Zenon, <1>5 DEF CloseReader, ClosedReader, CloseWriter, ClosedWriter
<1>6. CASE ReadTimePasses \/ FireRead \/ NotifyRead \/ WriteTimePasses \/ FireWrite \/ NotifyWrite
    BY Zenon, <1>6 DEF ReadTimePasses, FireRead, NotifyRead, WriteTimePasses, FireWrite, NotifyWrite
<1>7. CASE UNCHANGED vars
    BY Zenon, <1>7 DEF vars
<1> QED
    BY Zenon, <1>1, <1>2, <1>3, <1>4, <1>5, <1>6, <1>7 DEF Next

(* A Read that gets data takes n bytes, n at least one if len(b) is, and a *)
(* Write puts as many as it wants or as there is room for.                 *)
LEMMA ReadTakes ==
    ASSUME DataInv, ControlTypes, NEW r \in Readers, ReadData(r)
    PROVE  \E n \in 0 .. Len(buf) : Takes(n)
<1>1. PICK n : n = Smaller(rlen[r], Len(buf))
    BY Zenon
<1>2. rlen[r] \in Nat /\ Len(buf) \in Nat
    BY DEF ControlTypes, DataInv
<1>3. n \in 0 .. Len(buf)
    BY <1>1, <1>2 DEF Smaller
<1>4. Takes(n)
    BY <1>1, Zenon DEF ReadData, Takes
<1> QED
    BY Zenon, <1>3, <1>4

(* What a Write does to the data. *)
LEMMA WritePuts ==
    ASSUME DataInv, ControlTypes, NEW w \in Writers, WriteData(w)
    PROVE  \E n \in 0 .. Room :
              /\ Puts(n)
              /\ n <= want[w]
              /\ n = want[w] \/ n = Room
              /\ want' = [want EXCEPT ![w] = @ - n]
              /\ rpc' = IF n > 0 THEN Wake(rpc) ELSE rpc
              /\ \/ /\ n = want[w]
                    /\ wpc' = [wpc EXCEPT ![w] = "idle"]
                    /\ settled' = IF wClosed THEN settled ELSE sent + n
                 \/ /\ n # want[w]
                    /\ wpc' = [wpc EXCEPT ![w] = "waiting"]
                    /\ settled' = settled
<1>1. PICK n : n = Smaller(want[w], Room)
    BY Zenon
<1>2. want[w] \in Nat /\ Room \in Nat
    BY DEF ControlTypes, DataInv, Room
<1>3. n \in 0 .. Room /\ n <= want[w] /\ (n = want[w] \/ n = Room)
    BY <1>1, <1>2 DEF Smaller
<1>4. Puts(n)
    BY <1>1, Zenon DEF WriteData, Puts
<1> QED
    BY <1>1, <1>3, <1>4, Zenon DEF WriteData

(* Every step keeps the bytes in order. *)
LEMMA DataKept ==
    ASSUME Sizes, IInv, [Next]_vars
    PROVE  DataInv' /\ Len(got) \in Nat /\ Len(got') \in Nat /\ Len(got') >= Len(got)
<1>1. CASE UNCHANGED bufVars
    BY <1>1 DEF bufVars, IInv, DataInv
<1>2. ASSUME NEW r \in Readers, ReadData(r) PROVE DataInv' /\ Len(got') >= Len(got)
    <2>1. PICK n \in 0 .. Len(buf) : Takes(n)
        BY <1>2, ReadTakes, Zenon DEF IInv
    <2>2. DataInv' /\ Len(got') = Len(got) + n
        BY <2>1, Taking, Zenon DEF IInv
    <2>3. Len(got) \in Nat /\ Len(buf) \in Nat
        BY DEF IInv, DataInv
    <2> QED
        BY <2>2, <2>3
<1>3. ASSUME NEW w \in Writers, WriteData(w) PROVE DataInv' /\ got' = got
    <2>1. PICK n \in 0 .. Room : Puts(n)
        BY <1>3, WritePuts, Zenon DEF IInv
    <2> QED
        BY <2>1, Putting, Zenon DEF IInv, Puts
<1>4. Len(got) \in Nat /\ (DataInv' => Len(got') \in Nat)
    BY DEF IInv, DataInv
<1> QED
    BY <1>1, <1>2, <1>3, <1>4, DataMoves

----------------------------------------------------------------------------
(* Types. *)

(* Broadcast leaves nobody waiting and disturbs nobody else. *)
LEMMA Awake ==
    ASSUME NEW S, NEW pc \in [S -> PCs]
    PROVE  /\ Wake(pc) \in [S -> PCs]
           /\ \A x \in S : Wake(pc)[x] # "waiting"
    BY Zenon DEF Wake, PCs

(* The flags, timers and deadlines. *)
LEMMA FlagTypes ==
    ASSUME ControlTypes, [Next]_vars
    PROVE  /\ {readerClosed', writerClosed', rClosed', wClosed'} \subseteq BOOLEAN
           /\ {rdl', wdl'} \subseteq Deadlines
           /\ {rtimer', rnotify', wtimer', wnotify'} \subseteq BOOLEAN
<1> DEFINE Goal == /\ {readerClosed', writerClosed', rClosed', wClosed'} \subseteq BOOLEAN
                   /\ {rdl', wdl'} \subseteq Deadlines
                   /\ {rtimer', rnotify', wtimer', wnotify'} \subseteq BOOLEAN
<1> SUFFICES Goal
    BY Zenon
<1>0. ASSUME UNCHANGED <<readerClosed, writerClosed, rClosed, wClosed, rdlVars, wdlVars>> PROVE Goal
    BY Zenon, <1>0 DEF rdlVars, wdlVars, ControlTypes
<1>1. ASSUME NEW r, Read(r) \/ Write(r) PROVE Goal
    BY Zenon, <1>0, <1>1 DEF Read, Write, closeVars
<1>2. ASSUME NEW x, NEW n, BeginRead(x, n) \/ BeginWrite(x, n) PROVE Goal
    BY Zenon, <1>0, <1>2 DEF BeginRead, BeginWrite, closeVars
<1>3. ASSUME NEW d \in Deadlines, SetReadDeadline(d) \/ SetWriteDeadline(d) PROVE Goal
    <2>1. /\ (d = "future") \in BOOLEAN
          /\ (rnotify \/ d = "past") \in BOOLEAN
          /\ (wnotify \/ d = "past") \in BOOLEAN
        BY Zenon
    <2>2. /\ rtimer' \in {rtimer, d = "future"} /\ rnotify' \in {rnotify, rnotify \/ d = "past"}
          /\ wtimer' \in {wtimer, d = "future"} /\ wnotify' \in {wnotify, wnotify \/ d = "past"}
          /\ rdl' \in {rdl, d} /\ wdl' \in {wdl, d}
          /\ UNCHANGED closeVars
        BY Zenon, <1>3 DEF SetReadDeadline, SetWriteDeadline, rdlVars, wdlVars
    <2> QED
        BY Zenon, <2>1, <2>2 DEF closeVars, ControlTypes
<1>4. CASE CloseReader \/ ClosedReader \/ CloseWriter \/ ClosedWriter
    <2>1. /\ readerClosed' \in {readerClosed, TRUE} /\ writerClosed' \in {writerClosed, TRUE}
          /\ rClosed' \in {rClosed, TRUE} /\ wClosed' \in {wClosed, TRUE}
          /\ UNCHANGED <<rdlVars, wdlVars>>
        BY Zenon, <1>4 DEF CloseReader, ClosedReader, CloseWriter, ClosedWriter
    <2> QED
        BY Zenon, <2>1 DEF rdlVars, wdlVars, ControlTypes
<1>5. CASE ReadTimePasses \/ FireRead \/ NotifyRead
    <2>1. /\ rdl' \in {rdl, "past"} /\ rtimer' \in {rtimer, FALSE} /\ rnotify' \in {rnotify, TRUE, FALSE}
          /\ UNCHANGED <<closeVars, wdlVars>>
        BY Zenon, <1>5 DEF ReadTimePasses, FireRead, NotifyRead
    <2> QED
        BY Zenon, <2>1 DEF closeVars, wdlVars, ControlTypes, Deadlines
<1>6. CASE WriteTimePasses \/ FireWrite \/ NotifyWrite
    <2>1. /\ wdl' \in {wdl, "past"} /\ wtimer' \in {wtimer, FALSE} /\ wnotify' \in {wnotify, TRUE, FALSE}
          /\ UNCHANGED <<closeVars, rdlVars>>
        BY Zenon, <1>6 DEF WriteTimePasses, FireWrite, NotifyWrite
    <2> QED
        BY Zenon, <2>1 DEF closeVars, rdlVars, ControlTypes, Deadlines
<1>7. CASE UNCHANGED vars
    <2>1. UNCHANGED <<closeVars, rdlVars, wdlVars>>
        BY Zenon, <1>7 DEF vars
    <2> QED
        BY Zenon, <2>1, <1>0 DEF closeVars
<1> HIDE DEF Goal
<1> QED
    BY Zenon, <1>1, <1>2, <1>3, <1>4, <1>5, <1>6, <1>7 DEF Next

(* What the calls hold. *)
CallTypes ==
    /\ rpc \in [Readers -> PCs] /\ wpc \in [Writers -> PCs]
    /\ rlen \in [Readers -> 0 .. MaxLen] /\ want \in [Writers -> 0 .. MaxLen]
    /\ rres \in [Readers -> {"none", "data", "closed", "eof", "timeout"}]

(* Every step keeps the types of the calls. *)
LEMMA CallTypesKept ==
    ASSUME Sizes, DataInv, ControlTypes, [Next]_vars
    PROVE  CallTypes'
<1>0. CallTypes
    BY Zenon DEF ControlTypes, CallTypes
<1>w. Wake(rpc) \in [Readers -> PCs] /\ Wake(wpc) \in [Writers -> PCs]
    BY <1>0, Awake, Zenon DEF CallTypes
<1>u. ASSUME UNCHANGED <<readVars, writeVars>> PROVE CallTypes'
    BY Zenon, <1>u, <1>0 DEF readVars, writeVars, CallTypes
<1>1. ASSUME NEW r \in Readers, Read(r) PROVE CallTypes'
    <2>1. ASSUME NEW res \in {"none", "data", "closed", "eof", "timeout"}, ReadReturns(r, res) PROVE CallTypes'
        BY <1>0, <2>1 DEF ReadReturns, CallTypes, PCs, Sizes, writeVars
    <2>2. CASE ReadData(r)
        BY <1>0, <1>w, <2>2 DEF ReadData, CallTypes, PCs, Sizes
    <2>3. CASE ReadWaits(r)
        BY Zenon, <1>0, <2>3 DEF ReadWaits, CallTypes, PCs, writeVars
    <2> QED
        BY Zenon, <1>1, <2>1, <2>2, <2>3 DEF Read
<1>2. ASSUME NEW w \in Writers, Write(w) PROVE CallTypes'
    <2>1. CASE WriteFails(w)
        BY <1>0, <2>1 DEF WriteFails, CallTypes, PCs, Sizes, readVars
    <2>2. CASE WriteData(w)
        <3>1. PICK n \in 0 .. Room :
                  /\ n <= want[w]
                  /\ want' = [want EXCEPT ![w] = @ - n]
                  /\ rpc' = IF n > 0 THEN Wake(rpc) ELSE rpc
                  /\ \/ wpc' = [wpc EXCEPT ![w] = "idle"]
                     \/ wpc' = [wpc EXCEPT ![w] = "waiting"]
            BY <2>2, WritePuts, Zenon
        <3>2. n \in Nat
            BY <3>1 DEF DataInv, Room
        <3>3. want' \in [Writers -> 0 .. MaxLen]
            BY <1>0, <3>1, <3>2 DEF CallTypes, Sizes
        <3>4. rpc' \in [Readers -> PCs]
            BY <1>0, <1>w, <3>1, Zenon DEF CallTypes
        <3>5. wpc' \in [Writers -> PCs]
            BY Zenon, <1>0, <3>1 DEF CallTypes, PCs
        <3> QED
            BY <1>0, <2>2, <3>3, <3>4, <3>5, Zenon DEF WriteData, CallTypes
    <2> QED
        BY Zenon, <1>2, <2>1, <2>2 DEF Write
<1>3. ASSUME NEW r \in Readers, NEW n \in 1 .. MaxLen, BeginRead(r, n) PROVE CallTypes'
    BY <1>0, <1>3 DEF BeginRead, CallTypes, PCs, Sizes, writeVars
<1>4. ASSUME NEW w \in Writers, NEW n \in 1 .. MaxLen, BeginWrite(w, n) PROVE CallTypes'
    BY <1>0, <1>4 DEF BeginWrite, CallTypes, PCs, Sizes, readVars
<1>5. CASE ClosedReader \/ ClosedWriter
    BY Zenon, <1>0, <1>w, <1>5 DEF ClosedReader, ClosedWriter, CallTypes
<1>6. CASE NotifyRead \/ NotifyWrite
    BY Zenon, <1>0, <1>w, <1>6 DEF NotifyRead, NotifyWrite, CallTypes, readVars, writeVars
<1>7. CASE CloseReader \/ CloseWriter \/ ReadTimePasses \/ FireRead \/ WriteTimePasses \/ FireWrite
    BY Zenon, <1>u, <1>7 DEF CloseReader, CloseWriter, ReadTimePasses, FireRead, WriteTimePasses, FireWrite
<1>8. ASSUME NEW d, SetReadDeadline(d) \/ SetWriteDeadline(d) PROVE CallTypes'
    BY Zenon, <1>u, <1>8 DEF SetReadDeadline, SetWriteDeadline
<1>9. CASE UNCHANGED vars
    BY Zenon, <1>u, <1>9 DEF vars
<1> QED
    BY Zenon, <1>1, <1>2, <1>3, <1>4, <1>5, <1>6, <1>7, <1>8, <1>9 DEF Next

(* Every step keeps the types of all but the data. *)
LEMMA ControlTypesKept ==
    ASSUME Sizes, DataInv, ControlTypes, [Next]_vars
    PROVE  ControlTypes'
    BY Zenon, FlagTypes, CallTypesKept DEF ControlTypes, CallTypes

----------------------------------------------------------------------------
(* The end of the stream. *)

(* A step that writes, and what it does to settled. *)
LEMMA Settles ==
    ASSUME Sizes, IInv, [Next]_vars
    PROVE  /\ sent \in Nat /\ sent' \in Nat /\ sent' >= sent
           /\ settled' = settled \/ (~wClosed /\ settled' = sent')
<1>0. sent \in Nat
    BY Zenon DEF IInv, DataInv
<1>1. ASSUME NEW w \in Writers, Write(w) PROVE settled' = settled \/ (~wClosed /\ settled' = sent')
    <2>1. CASE WriteFails(w)
        BY Zenon, <2>1 DEF WriteFails
    <2>2. CASE WriteData(w)
        BY Zenon, <2>2, WritePuts DEF IInv, Puts
    <2> QED
        BY Zenon, <1>1, <2>1, <2>2 DEF Write
<1>2. settled' = settled \/ \E w \in Writers : Write(w)
    <2>1. ASSUME NEW x, NEW n, BeginRead(x, n) \/ BeginWrite(x, n) \/ Read(x) PROVE settled' = settled
        BY Zenon, <2>1 DEF BeginRead, BeginWrite, Read, closeVars
    <2>2. ASSUME NEW d, SetReadDeadline(d) \/ SetWriteDeadline(d) PROVE settled' = settled
        BY Zenon, <2>2 DEF SetReadDeadline, SetWriteDeadline, closeVars
    <2>3. CASE CloseReader \/ ClosedReader \/ CloseWriter \/ ClosedWriter
        BY Zenon, <2>3 DEF CloseReader, ClosedReader, CloseWriter, ClosedWriter
    <2>4. CASE ReadTimePasses \/ FireRead \/ NotifyRead \/ WriteTimePasses \/ FireWrite \/ NotifyWrite
        BY Zenon, <2>4 DEF ReadTimePasses, FireRead, NotifyRead, WriteTimePasses, FireWrite, NotifyWrite, closeVars
    <2>5. CASE UNCHANGED vars
        BY Zenon, <2>5 DEF vars, closeVars
    <2> QED
        BY Zenon, <2>1, <2>2, <2>3, <2>4, <2>5 DEF Next
<1>3. \/ sent' = sent
      \/ \E n \in Nat : sent' = sent + n
    <2>1. ASSUME NEW w \in Writers, WriteData(w) PROVE \E n \in Nat : sent' = sent + n
        <3>1. PICK n \in 0 .. Room : Puts(n)
            BY Zenon, <2>1, WritePuts DEF IInv
        <3>2. n \in Nat
            BY <3>1 DEF IInv, DataInv, Room
        <3> QED
            BY Zenon, <3>1, <3>2 DEF Puts
    <2>2. ASSUME NEW r \in Readers, ReadData(r) PROVE sent' = sent
        BY Zenon, <2>2 DEF ReadData
    <2> QED
        BY Zenon, <2>1, <2>2, DataMoves DEF bufVars
<1>4. sent' \in Nat /\ sent' >= sent
    BY <1>0, <1>3
<1> QED
    BY Zenon, <1>0, <1>1, <1>2, <1>4

(* A closed end stays closed, its flag follows the channel. *)
LEMMA StaysClosed ==
    ASSUME CloseInv, [Next]_vars
    PROVE  (wClosed => wClosed') /\ (writerClosed' => wClosed')
<1> DEFINE Goal == (wClosed => wClosed') /\ (writerClosed' => wClosed')
<1> SUFFICES Goal
    BY Zenon
<1>0. ASSUME UNCHANGED <<writerClosed, wClosed>> PROVE Goal
    BY Zenon, <1>0 DEF CloseInv
<1>1. ASSUME NEW x, NEW n, BeginRead(x, n) \/ BeginWrite(x, n) \/ Read(x) \/ Write(x) PROVE Goal
    BY Zenon, <1>0, <1>1 DEF BeginRead, BeginWrite, Read, Write, closeVars
<1>2. ASSUME NEW d, SetReadDeadline(d) \/ SetWriteDeadline(d) PROVE Goal
    BY Zenon, <1>0, <1>2 DEF SetReadDeadline, SetWriteDeadline, closeVars
<1>3. CASE CloseReader \/ ClosedReader \/ CloseWriter \/ ClosedWriter
    <2>1. CASE CloseReader \/ ClosedReader
        BY Zenon, <1>0, <2>1 DEF CloseReader, ClosedReader
    <2>2. CASE CloseWriter
        BY Zenon, <2>2 DEF CloseWriter
    <2>3. CASE ClosedWriter
        BY Zenon, <2>3 DEF ClosedWriter
    <2> QED
        BY Zenon, <1>3, <2>1, <2>2, <2>3
<1>4. CASE ReadTimePasses \/ FireRead \/ NotifyRead \/ WriteTimePasses \/ FireWrite \/ NotifyWrite
    BY Zenon, <1>0, <1>4 DEF ReadTimePasses, FireRead, NotifyRead, WriteTimePasses, FireWrite, NotifyWrite, closeVars
<1>5. CASE UNCHANGED vars
    BY Zenon, <1>0, <1>5 DEF vars, closeVars
<1> HIDE DEF Goal
<1> QED
    BY Zenon, <1>1, <1>2, <1>3, <1>4, <1>5 DEF Next

(* Read reports the end of the stream only when the buffer is empty. *)
LEMMA EOFReported ==
    ASSUME IInv, [Next]_vars, NEW r \in Readers, rres'[r] = "eof"
    PROVE  \/ rres[r] = "eof"
           \/ writerClosed /\ ~(Len(buf) > 0) /\ UNCHANGED <<bufVars, closeVars>>
<1>0. rres \in [Readers -> {"none", "data", "closed", "eof", "timeout"}]
    BY Zenon DEF IInv, ControlTypes
<1>1. ASSUME NEW q \in Readers, Read(q)
      PROVE  rres[r] = "eof" \/ (writerClosed /\ ~(Len(buf) > 0) /\ UNCHANGED <<bufVars, closeVars>>)
    <2>1. ASSUME NEW res, res # "eof", rres' = [rres EXCEPT ![q] = res] PROVE rres[r] = "eof"
        BY Zenon, <1>0, <2>1
    <2>2. CASE ReadWaits(q)
        BY Zenon, <2>2 DEF ReadWaits
    <2>3. CASE ReadData(q)
        BY Zenon, <2>1, <2>3 DEF ReadData
    <2>4. CASE ReadReturns(q, "closed") \/ ReadReturns(q, "timeout")
        BY Zenon, <2>1, <2>4 DEF ReadReturns
    <2>5. CASE writerClosed /\ ~(Len(buf) > 0) /\ ReadReturns(q, "eof")
        BY Zenon, <1>1, <2>5 DEF ReadReturns, Read
    <2> QED
        BY Zenon, <1>1, <2>2, <2>3, <2>4, <2>5 DEF Read
<1>2. ASSUME NEW q \in Readers, NEW n, BeginRead(q, n) PROVE rres[r] = "eof"
    BY Zenon, <1>0, <1>2 DEF BeginRead
<1>3. ASSUME NEW w, Write(w) PROVE rres[r] = "eof"
    BY Zenon, <1>3 DEF Write, WriteFails, WriteData, readVars
<1>4. ASSUME NEW w, NEW n, BeginWrite(w, n) PROVE rres[r] = "eof"
    BY Zenon, <1>4 DEF BeginWrite, readVars
<1>5. ASSUME NEW d, SetReadDeadline(d) \/ SetWriteDeadline(d) PROVE rres[r] = "eof"
    BY Zenon, <1>5 DEF SetReadDeadline, SetWriteDeadline, readVars
<1>6. CASE CloseReader \/ ClosedReader \/ CloseWriter \/ ClosedWriter
    BY Zenon, <1>6 DEF CloseReader, ClosedReader, CloseWriter, ClosedWriter, readVars
<1>7. CASE ReadTimePasses \/ FireRead \/ NotifyRead \/ WriteTimePasses \/ FireWrite \/ NotifyWrite
    BY Zenon, <1>7 DEF ReadTimePasses, FireRead, NotifyRead, WriteTimePasses, FireWrite, NotifyWrite, readVars
<1>8. CASE UNCHANGED vars
    BY Zenon, <1>8 DEF vars, readVars
<1> QED
    BY Zenon, <1>1, <1>2, <1>3, <1>4, <1>5, <1>6, <1>7, <1>8 DEF Next

(* Every step keeps the end of file after the data. *)
LEMMA CloseKept ==
    ASSUME Sizes, IInv, [Next]_vars
    PROVE  CloseInv'
<1>1. settled' \in 0 .. sent'
    BY Settles DEF IInv, CloseInv
<1>2. ASSUME NEW r \in Readers, rres'[r] = "eof" PROVE wClosed' /\ Len(got') >= settled'
    <2>1. CASE rres[r] = "eof"
        <3>1. wClosed /\ Len(got) >= settled
            BY Zenon, <2>1 DEF IInv, CloseInv
        <3>2. wClosed' /\ settled' = settled
            BY Zenon, <3>1, Settles, StaysClosed DEF IInv
        <3>3. Len(got) \in Nat /\ Len(got') \in Nat /\ Len(got') >= Len(got)
            BY Zenon, DataKept
        <3>4. settled \in Nat
            BY Settles DEF IInv, CloseInv
        <3> QED
            BY <3>1, <3>2, <3>3, <3>4
    <2>2. CASE writerClosed /\ ~(Len(buf) > 0) /\ UNCHANGED <<bufVars, closeVars>>
        <3>1. Len(got) = sent /\ settled \in 0 .. sent /\ sent \in Nat
            BY <2>2 DEF IInv, DataInv, CloseInv
        <3>2. got' = got /\ settled' = settled /\ wClosed'
            BY Zenon, <2>2 DEF bufVars, closeVars, IInv, CloseInv
        <3> QED
            BY <3>1, <3>2
    <2> QED
        BY Zenon, <1>2, <2>1, <2>2, EOFReported
<1> QED
    BY Zenon, <1>1, <1>2, StaysClosed DEF IInv, CloseInv

----------------------------------------------------------------------------
(* Wakeups. *)

(* The two halves of WakeInv. *)
ReadersAwaited ==
    /\ \A r \in Readers : rpc[r] = "waiting" =>
          /\ buf = <<>>
          /\ ~readerClosed /\ ~writerClosed
          /\ rdl = "past" => rtimer \/ rnotify
    /\ rdl = "future" => rtimer

WritersAwaited ==
    /\ \A w \in Writers : wpc[w] = "waiting" =>
          /\ Len(buf) = cap
          /\ ~readerClosed
          /\ wdl = "past" => wtimer \/ wnotify
    /\ wdl = "future" => wtimer

(* The invariant on wakeups is one on readers and one on writers. *)
LEMMA Halves == WakeInv <=> ReadersAwaited /\ WritersAwaited
    BY Zenon DEF WakeInv, NobodyForgotten, ReadersAwaited, WritersAwaited

(* A step after which no reader waits, or the readers that wait waited     *)
(* before and see what they saw.                                           *)
LEMMA ReadersQuiet ==
    ASSUME ReadersAwaited, UNCHANGED <<rdl, rtimer>>,
           \/ \A r \in Readers : rpc'[r] # "waiting"
           \/ /\ \A r \in Readers : rpc'[r] = "waiting" => rpc[r] = "waiting"
              /\ UNCHANGED <<buf, readerClosed, writerClosed, rnotify>>
    PROVE  ReadersAwaited'
<1>1. CASE \A r \in Readers : rpc'[r] # "waiting"
    BY Zenon, <1>1 DEF ReadersAwaited
<1>2. CASE /\ \A r \in Readers : rpc'[r] = "waiting" => rpc[r] = "waiting"
           /\ UNCHANGED <<buf, readerClosed, writerClosed, rnotify>>
    BY Zenon, <1>2 DEF ReadersAwaited
<1> QED
    BY Zenon, <1>1, <1>2

(* No step leaves a reader behind, ... *)
LEMMA ReadersKept ==
    ASSUME Sizes, IInv, [Next]_vars
    PROVE  ReadersAwaited'
<1>0. ReadersAwaited /\ rpc \in [Readers -> PCs] /\ wpc \in [Writers -> PCs]
    BY Zenon, Halves DEF IInv, ControlTypes
<1>w. \A r \in Readers : Wake(rpc)[r] # "waiting"
    BY Zenon, <1>0, Awake
<1>e. ~(Len(buf) > 0) <=> buf = <<>>
    BY DEF IInv, DataInv
<1>u. ASSUME UNCHANGED <<rpc, buf, readerClosed, writerClosed, rdlVars>> PROVE ReadersAwaited'
    BY Zenon, <1>0, <1>u, ReadersQuiet DEF rdlVars
<1>1. ASSUME NEW r \in Readers, Read(r) PROVE ReadersAwaited'
    <2>1. UNCHANGED <<readerClosed, writerClosed, rdl, rtimer, rnotify>>
        BY Zenon, <1>1 DEF Read, closeVars, rdlVars
    <2>2. ASSUME rpc' = [rpc EXCEPT ![r] = "idle"] PROVE \A q \in Readers : rpc'[q] = "waiting" => rpc[q] = "waiting"
        BY Zenon, <1>0, <2>2
    <2>3. ASSUME NEW res, ReadReturns(r, res) PROVE ReadersAwaited'
        BY Zenon, <1>0, <2>1, <2>2, <2>3, ReadersQuiet DEF ReadReturns, bufVars
    <2>4. CASE Len(buf) > 0 /\ ReadData(r)
        <3>1. \A q \in Readers : rpc[q] # "waiting"
            BY Zenon, <1>0, <1>e, <2>4 DEF ReadersAwaited
        <3> QED
            BY Zenon, <1>0, <2>1, <2>2, <2>4, <3>1, ReadersQuiet DEF ReadData
    <2>5. CASE ~(Len(buf) > 0) /\ ~readerClosed /\ ~writerClosed /\ rdl # "past" /\ ReadWaits(r)
        <3>1. buf' = buf /\ buf = <<>>
            BY Zenon, <1>e, <2>5 DEF ReadWaits, bufVars
        <3> QED
            BY Zenon, <1>0, <2>1, <2>5, <3>1 DEF ReadersAwaited
    <2> QED
        BY Zenon, <1>1, <2>3, <2>4, <2>5 DEF Read
<1>2. ASSUME NEW r \in Readers, NEW n, BeginRead(r, n) PROVE ReadersAwaited'
    <2>1. \A q \in Readers : rpc'[q] = "waiting" => rpc[q] = "waiting"
        BY Zenon, <1>0, <1>2 DEF BeginRead
    <2> QED
        BY Zenon, <1>0, <1>2, <2>1, ReadersQuiet DEF BeginRead, bufVars, closeVars, rdlVars
<1>3. ASSUME NEW w \in Writers, Write(w) PROVE ReadersAwaited'
    <2>1. UNCHANGED <<readerClosed, writerClosed, rdl, rtimer, rnotify>>
        BY Zenon, <1>3 DEF Write, rdlVars
    <2>2. CASE WriteFails(w)
        BY Zenon, <1>u, <1>3, <2>1, <2>2 DEF WriteFails, bufVars, readVars, rdlVars
    <2>3. CASE WriteData(w)
        <3>1. PICK n \in 0 .. Room : Puts(n) /\ rpc' = IF n > 0 THEN Wake(rpc) ELSE rpc
            BY Zenon, <2>3, WritePuts DEF IInv
        <3>2. CASE n > 0
            BY Zenon, <1>0, <1>w, <2>1, <3>1, <3>2, ReadersQuiet
        <3>3. CASE ~(n > 0)
            <4>1. DataInv' /\ Len(buf') = Len(buf) + n
                BY Zenon, <3>1, Putting DEF IInv
            <4>2. n = 0
                BY <3>1, <3>3 DEF IInv, DataInv, Room
            <4>3. buf = <<>> => buf' = <<>>
                BY <4>1, <4>2 DEF DataInv
            <4> QED
                BY Zenon, <1>0, <2>1, <3>1, <3>3, <4>3 DEF ReadersAwaited
        <3> QED
            BY Zenon, <3>2, <3>3
    <2> QED
        BY Zenon, <1>3, <2>2, <2>3 DEF Write
<1>4. ASSUME NEW w, NEW n, BeginWrite(w, n) PROVE ReadersAwaited'
    BY Zenon, <1>u, <1>4 DEF BeginWrite, bufVars, closeVars, readVars
<1>5. CASE CloseReader \/ CloseWriter
    BY Zenon, <1>u, <1>5 DEF CloseReader, CloseWriter, bufVars, readVars
<1>6. CASE ClosedReader \/ ClosedWriter
    BY Zenon, <1>0, <1>w, <1>6, ReadersQuiet DEF ClosedReader, ClosedWriter, rdlVars
<1>7. ASSUME NEW d, SetReadDeadline(d) PROVE ReadersAwaited'
    <2>1. UNCHANGED <<buf, rpc, readerClosed, writerClosed>>
        BY Zenon, <1>7 DEF SetReadDeadline, bufVars, closeVars, readVars
    <2>2. (rdl' = "past" => rnotify') /\ (rdl' = "future" => rtimer')
        BY Zenon, <1>7 DEF SetReadDeadline
    <2> QED
        BY Zenon, <1>0, <2>1, <2>2 DEF ReadersAwaited
<1>8. CASE ReadTimePasses
    <2>1. UNCHANGED <<buf, rpc, readerClosed, writerClosed, rtimer, rnotify>>
        BY Zenon, <1>8 DEF ReadTimePasses, bufVars, closeVars, readVars
    <2>2. rtimer /\ rdl' = "past"
        BY Zenon, <1>0, <1>8 DEF ReadTimePasses, ReadersAwaited
    <2> QED
        BY Zenon, <1>0, <2>1, <2>2 DEF ReadersAwaited
<1>9. CASE FireRead
    <2>1. UNCHANGED <<buf, rpc, readerClosed, writerClosed, rdl>>
        BY Zenon, <1>9 DEF FireRead, bufVars, closeVars, readVars
    <2>2. rnotify' /\ rdl = "past"
        BY Zenon, <1>9 DEF FireRead
    <2> QED
        BY Zenon, <1>0, <2>1, <2>2 DEF ReadersAwaited
<1>10. CASE NotifyRead
    BY Zenon, <1>0, <1>w, <1>10, ReadersQuiet DEF NotifyRead
<1>11. ASSUME NEW d, SetWriteDeadline(d) PROVE ReadersAwaited'
    BY Zenon, <1>u, <1>11 DEF SetWriteDeadline, bufVars, closeVars, readVars
<1>12. CASE WriteTimePasses \/ FireWrite \/ NotifyWrite
    BY Zenon, <1>u, <1>12 DEF WriteTimePasses, FireWrite, NotifyWrite, bufVars, closeVars, readVars
<1>13. CASE UNCHANGED vars
    BY Zenon, <1>u, <1>13 DEF vars, bufVars, closeVars, readVars
<1> QED
    BY Zenon, <1>1, <1>2, <1>3, <1>4, <1>5, <1>6, <1>7, <1>8, <1>9, <1>10, <1>11, <1>12, <1>13 DEF Next

(* The same for the writers, who wait for room. *)
LEMMA WritersQuiet ==
    ASSUME WritersAwaited, UNCHANGED <<wdl, wtimer>>,
           \/ \A w \in Writers : wpc'[w] # "waiting"
           \/ /\ \A w \in Writers : wpc'[w] = "waiting" => wpc[w] = "waiting"
              /\ Len(buf) = cap => Len(buf') = cap'
              /\ UNCHANGED <<readerClosed, wnotify>>
    PROVE  WritersAwaited'
<1>1. CASE \A w \in Writers : wpc'[w] # "waiting"
    BY Zenon, <1>1 DEF WritersAwaited
<1>2. CASE /\ \A w \in Writers : wpc'[w] = "waiting" => wpc[w] = "waiting"
           /\ Len(buf) = cap => Len(buf') = cap'
           /\ UNCHANGED <<readerClosed, wnotify>>
    BY Zenon, <1>2 DEF WritersAwaited
<1> QED
    BY Zenon, <1>1, <1>2

(* ... nor a writer. *)
LEMMA WritersKept ==
    ASSUME Sizes, IInv, [Next]_vars
    PROVE  WritersAwaited'
<1>0. WritersAwaited /\ wpc \in [Writers -> PCs]
    BY Zenon, Halves DEF IInv, ControlTypes
<1>w. \A w \in Writers : Wake(wpc)[w] # "waiting"
    BY Zenon, <1>0, Awake
<1>u. ASSUME UNCHANGED <<wpc, buf, cap, readerClosed, wdlVars>> PROVE WritersAwaited'
    BY Zenon, <1>0, <1>u, WritersQuiet DEF wdlVars
<1>1. ASSUME NEW r \in Readers, Read(r) PROVE WritersAwaited'
    <2>1. UNCHANGED <<readerClosed, wdlVars>>
        BY Zenon, <1>1 DEF Read, closeVars
    <2>2. CASE UNCHANGED <<bufVars, writeVars>>
        BY Zenon, <1>u, <2>1, <2>2 DEF bufVars, writeVars
    <2>3. CASE ReadData(r)
        BY Zenon, <1>0, <1>w, <2>1, <2>3, WritersQuiet DEF ReadData, wdlVars
    <2> QED
        BY Zenon, <1>1, <2>2, <2>3 DEF Read, ReadReturns, ReadWaits, writeVars
<1>2. ASSUME NEW w \in Writers, Write(w) PROVE WritersAwaited'
    <2>1. UNCHANGED <<readerClosed, wdl, wtimer, wnotify>>
        BY Zenon, <1>2 DEF Write, wdlVars
    <2>2. ASSUME wpc' = [wpc EXCEPT ![w] = "idle"] PROVE \A q \in Writers : wpc'[q] = "waiting" => wpc[q] = "waiting"
        BY Zenon, <1>0, <2>2
    <2>3. CASE WriteFails(w)
        BY Zenon, <1>0, <2>1, <2>2, <2>3, WritersQuiet DEF WriteFails, bufVars
    <2>4. CASE ~readerClosed /\ wdl # "past" /\ WriteData(w)
        <3>1. PICK n \in 0 .. Room :
                  /\ Puts(n) /\ (n = want[w] \/ n = Room)
                  /\ \/ wpc' = [wpc EXCEPT ![w] = "idle"]
                     \/ n # want[w] /\ wpc' = [wpc EXCEPT ![w] = "waiting"]
            BY Zenon, <2>4, WritePuts DEF IInv
        <3>2. DataInv' /\ Len(buf') = Len(buf) + n /\ cap' = cap
            BY Zenon, <3>1, Putting DEF IInv, Puts
        <3>3. cap \in Nat /\ Len(buf) \in Nat /\ Len(buf) <= cap
            BY DEF IInv, DataInv
        <3>4. Len(buf) = cap => Len(buf') = cap'
            BY <3>2, <3>3 DEF Room
        <3>5. CASE wpc' = [wpc EXCEPT ![w] = "idle"]
            BY Zenon, <1>0, <2>1, <2>2, <3>4, <3>5, WritersQuiet
        <3>6. CASE n # want[w]
            <4>1. Len(buf') = cap'
                BY <3>1, <3>2, <3>3, <3>6 DEF Room
            <4> QED
                BY Zenon, <1>0, <2>1, <2>4, <4>1 DEF WritersAwaited
        <3> QED
            BY Zenon, <3>1, <3>5, <3>6
    <2> QED
        BY Zenon, <1>2, <2>3, <2>4 DEF Write
<1>3. ASSUME NEW w \in Writers, NEW n, BeginWrite(w, n) PROVE WritersAwaited'
    <2>1. \A q \in Writers : wpc'[q] = "waiting" => wpc[q] = "waiting"
        BY Zenon, <1>0, <1>3 DEF BeginWrite
    <2> QED
        BY Zenon, <1>0, <1>3, <2>1, WritersQuiet DEF BeginWrite, bufVars, closeVars, wdlVars
<1>4. ASSUME NEW r, NEW n, BeginRead(r, n) PROVE WritersAwaited'
    BY Zenon, <1>u, <1>4 DEF BeginRead, bufVars, closeVars, writeVars
<1>5. CASE CloseReader \/ CloseWriter
    BY Zenon, <1>u, <1>5 DEF CloseReader, CloseWriter, bufVars, writeVars
<1>6. CASE ClosedReader \/ ClosedWriter
    BY Zenon, <1>0, <1>w, <1>6, WritersQuiet DEF ClosedReader, ClosedWriter, wdlVars
<1>7. ASSUME NEW d, SetWriteDeadline(d) PROVE WritersAwaited'
    <2>1. UNCHANGED <<buf, cap, wpc, readerClosed>>
        BY Zenon, <1>7 DEF SetWriteDeadline, bufVars, closeVars, writeVars
    <2>2. (wdl' = "past" => wnotify') /\ (wdl' = "future" => wtimer')
        BY Zenon, <1>7 DEF SetWriteDeadline
    <2> QED
        BY Zenon, <1>0, <2>1, <2>2 DEF WritersAwaited
<1>8. CASE WriteTimePasses
    <2>1. UNCHANGED <<buf, cap, wpc, readerClosed, wtimer, wnotify>>
        BY Zenon, <1>8 DEF WriteTimePasses, bufVars, closeVars, writeVars
    <2>2. wtimer /\ wdl' = "past"
        BY Zenon, <1>0, <1>8 DEF WriteTimePasses, WritersAwaited
    <2> QED
        BY Zenon, <1>0, <2>1, <2>2 DEF WritersAwaited
<1>9. CASE FireWrite
    <2>1. UNCHANGED <<buf, cap, wpc, readerClosed, wdl>>
        BY Zenon, <1>9 DEF FireWrite, bufVars, closeVars, writeVars
    <2>2. wnotify' /\ wdl = "past"
        BY Zenon, <1>9 DEF FireWrite
    <2> QED
        BY Zenon, <1>0, <2>1, <2>2 DEF WritersAwaited
<1>10. CASE NotifyWrite
    BY Zenon, <1>0, <1>w, <1>10, WritersQuiet DEF NotifyWrite
<1>11. ASSUME NEW d, SetReadDeadline(d) PROVE WritersAwaited'
    BY Zenon, <1>u, <1>11 DEF SetReadDeadline, bufVars, closeVars, writeVars
<1>12. CASE ReadTimePasses \/ FireRead \/ NotifyRead
    BY Zenon, <1>u, <1>12 DEF ReadTimePasses, FireRead, NotifyRead, bufVars, closeVars, writeVars
<1>13. CASE UNCHANGED vars
    BY Zenon, <1>u, <1>13 DEF vars, bufVars, closeVars, writeVars
<1> QED
    BY Zenon, <1>1, <1>2, <1>3, <1>4, <1>5, <1>6, <1>7, <1>8, <1>9, <1>10, <1>11, <1>12, <1>13 DEF Next

----------------------------------------------------------------------------
(* The invariant. *)

(* A new connection satisfies it, ... *)
LEMMA InitIInv == Sizes /\ Init => IInv
<1> SUFFICES ASSUME Sizes, Init PROVE IInv
    BY Zenon
<1>1. DataInv
    BY DEF Init, DataInv, Sizes
<1>2. ControlTypes
    <2>1. /\ rpc \in [Readers -> PCs] /\ wpc \in [Writers -> PCs]
          /\ rlen \in [Readers -> 0 .. MaxLen] /\ want \in [Writers -> 0 .. MaxLen]
          /\ rres \in [Readers -> {"none", "data", "closed", "eof", "timeout"}]
        BY DEF Init, PCs, Sizes
    <2> QED
        BY Zenon, <2>1 DEF Init, ControlTypes, Deadlines
<1>3. CloseInv
    BY DEF Init, CloseInv
<1>4. WakeInv
    BY Zenon DEF Init, WakeInv, NobodyForgotten
<1> QED
    BY Zenon, <1>1, <1>2, <1>3, <1>4 DEF IInv

(* ... and every step of every goroutine, timer and clock keeps it. *)
LEMMA NextIInv == Sizes /\ IInv /\ [Next]_vars => IInv'
<1> SUFFICES ASSUME Sizes, IInv, [Next]_vars PROVE IInv'
    BY Zenon
<1>1. DataInv' /\ CloseInv'
    BY Zenon, DataKept, CloseKept
<1>2. ControlTypes'
    BY Zenon, ControlTypesKept DEF IInv
<1>3. WakeInv'
    <2>1. ReadersAwaited' /\ WritersAwaited'
        BY Zenon, ReadersKept, WritersKept
    <2> QED
        BY Zenon, <2>1 DEF WakeInv, NobodyForgotten, ReadersAwaited, WritersAwaited
<1> QED
    BY Zenon, <1>1, <1>2, <1>3 DEF IInv

(* It implies the properties. *)
LEMMA Implied == Sizes /\ IInv => TypeOK /\ InOrder /\ EOFAfterData /\ NobodyForgotten
<1> SUFFICES ASSUME Sizes, IInv PROVE TypeOK /\ InOrder /\ EOFAfterData /\ NobodyForgotten
    BY Zenon
<1>1. cap \in 0 .. Cap /\ sent \in 0 .. Cap /\ settled \in 0 .. Cap
    BY DEF IInv, DataInv, CloseInv, Sizes
<1>2. TypeOK
    BY Zenon, <1>1 DEF IInv, DataInv, ControlTypes, TypeOK
<1>3. InOrder
    BY Zenon, Ordered DEF IInv
<1> QED
    BY Zenon, <1>2, <1>3 DEF IInv, CloseInv, EOFAfterData, WakeInv

(* The invariant holds in every reachable state. *)
THEOREM Invariance == ASSUME Sizes PROVE Spec => []IInv
<1>1. Init => IInv
    BY Zenon, InitIInv
<1>2. IInv /\ [Next]_vars => IInv'
    BY Zenon, NextIInv
<1> QED
    BY <1>1, <1>2, PTL DEF Spec

(* The buffer never outgrows its capacity, and in all it takes in no more  *)
(* than Cap bytes: Read gives capacity up for good.                        *)
THEOREM TypeSafety == ASSUME Sizes PROVE Spec => []TypeOK
<1>1. IInv => TypeOK
    BY Zenon, Implied
<1> QED
    BY <1>1, Invariance, PTL

(* No byte is lost, duplicated or reordered. *)
THEOREM BytesInOrder == ASSUME Sizes PROVE Spec => []InOrder
<1>1. IInv => InOrder
    BY Zenon, Implied
<1> QED
    BY <1>1, Invariance, PTL

(* Who sees the end of the stream has seen all that was written before.    *)
THEOREM EndAfterData == ASSUME Sizes PROVE Spec => []EOFAfterData
<1>1. IInv => EOFAfterData
    BY Zenon, Implied
<1> QED
    BY <1>1, Invariance, PTL

(* No wakeup is lost. *)
THEOREM WakeupsKept == ASSUME Sizes PROVE Spec => []NobodyForgotten
<1>1. IInv => NobodyForgotten
    BY Zenon, Implied
<1> QED
    BY <1>1, Invariance, PTL
=============================================================================

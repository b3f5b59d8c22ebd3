------------------------- MODULE DetachedTun_proofs -------------------------
(* That the buffers and the channels of a detached Tun are each given back *)
(* and closed once, and that the writes that Wait waits for are counted,   *)
(* for any number of packets, writes and generations: the inductive        *)
(* invariant, and that every step keeps it.                                *)
EXTENDS DetachedTun, TLAPS

(* The done channel of the current generation is open while the wrapper is *)
(* up, and one that a Down is yet to close is open too.                    *)
DoneInv ==
    /\ ~panicked
    /\ cur <= gen /\ doneClosed \subseteq 1..cur /\ ending \subseteq 1..cur
    /\ up => cur = gen /\ cur \notin doneClosed /\ cur \notin ending
    /\ ending \cap doneClosed = {}

(* A request has its buffers until somebody finishes it, and one that is   *)
(* being written was taken by that pump alone.                             *)
RequestInv ==
    /\ \A r \in Requests :
          /\ wbuf[r] # "twice"
          /\ finished[r] <=> wbuf[r] = "put"
          /\ wpc[r] = "idle" => wbuf[r] = "none" /\ ~taken[r]
          /\ wpc[r] = "enqueue" => wdst[r] \in Gens
    /\ \A g \in Gens : wpump[g] = "writing" =>
          wreq[g] \in Requests /\ taken[wreq[g]] /\ wbuf[wreq[g]] = "owned"
    /\ \A g, h \in Gens : wpump[g] = "writing" /\ wpump[h] = "writing" /\ wreq[g] = wreq[h] => g = h

InHand(g) == rpump[g] \in {"send", "forward"}

(* A packet that was read and not given back is in one place: once in one  *)
(* channel, or in the hands of one pump.                                   *)
PacketInv ==
    /\ \A p \in Packets : buf[p] # "twice"
    /\ \A g \in Gens : \A i \in 1..Len(reads[g]) : reads[g][i] # None => buf[reads[g][i]] = "owned"
    /\ \A g, h \in Gens : \A i \in 1..Len(reads[g]), j \in 1..Len(reads[h]) :
          reads[g][i] # None /\ reads[g][i] = reads[h][j] => g = h /\ i = j
    /\ \A g \in Gens : InHand(g) =>
          /\ rpkt[g] \in Packets /\ buf[rpkt[g]] = "owned"
          /\ rpump[g] = "forward" => rdst[g] \in Gens
          /\ \A h \in Gens : \A i \in 1..Len(reads[h]) : reads[h][i] # rpkt[g]
    /\ \A g, h \in Gens : InHand(g) /\ InHand(h) /\ rpkt[g] = rpkt[h] => g = h

FlagsOK == {up, closed, failed, panicked} \subseteq BOOLEAN

(* No channel holds more than its capacity. *)
Capacity == \A g \in Gens : Len(reads[g]) <= ChanCap /\ Len(writes[g]) <= ChanCap

IInv == Types /\ FlagsOK /\ Capacity /\ DoneInv /\ RequestInv /\ PacketInv

(* drainReads keeps the types. *)
LEMMA DrainReadsTypes ==
    ASSUME Types, NEW g \in Gens, DrainReads(g)
    PROVE  reads' \in [Gens -> Seq(Packets \cup {None})] /\ buf' \in [Packets -> BufStates]
<1>1. reads' \in [Gens -> Seq(Packets \cup {None})]
    BY DEF Types, DrainReads
<1>2. \A p \in Packets : Put(buf[p]) \in BufStates
    BY Zenon DEF Put, BufStates
<1>3. buf' \in [Packets -> BufStates]
    BY Zenon, <1>2 DEF Types, DrainReads
<1> QED
    BY Zenon, <1>1, <1>3

(* Releasing keeps the types. *)
LEMMA ReleaseTypes ==
    ASSUME Types, NEW F, NEW A, Release(F, A)
    PROVE  /\ wbuf' \in [Requests -> BufStates] /\ finished' \in [Requests -> BOOLEAN]
           /\ resp' \in [Requests -> BOOLEAN] /\ taken' \in [Requests -> BOOLEAN]
<1>1. \A r \in Requests : Put(wbuf[r]) \in BufStates
    BY Zenon DEF Put, BufStates
<1> QED
    BY Zenon, <1>1 DEF Types, Release

(* Every step keeps the types. *)
LEMMA TypesCorrect ==
    ASSUME Types, DoneInv, RequestInv, PacketInv, [Next]_vars
    PROVE  Types'
<1> USE BoundAssumption DEF Types, stateVars, doneVars, rpumpVars, wpumpVars, reqVars, callVars, adminVars
<1>0. gen \in Nat /\ cur \in Nat /\ (up => gen \in Gens)
    BY DEF Gens, DoneInv
<1>1. CASE Up
    <2>1. gen + 1 \in Gens
        BY <1>0, <1>1 DEF Up, Gens
    <2>2. /\ gen' \in 1 .. MaxGen + 1 /\ cur' \in Gens
          /\ rpump' = [rpump EXCEPT ![gen + 1] = "read"] /\ wpump' = [wpump EXCEPT ![gen + 1] = "select"]
        BY <1>0, <1>1, <2>1 DEF Up
    <2>3. UNCHANGED <<doneVars, reads, writes, rpkt, rdst, wreq, buf, reqVars, callVars, adminVars>>
        BY Zenon, <1>1 DEF Up
    <2> QED
        BY Zenon, <2>1, <2>2, <2>3
<1>2. CASE UpFails
    <2>1. gen + 1 \in Gens
        BY <1>0, <1>2 DEF UpFails, Gens
    <2> QED
        BY <1>0, <1>2, <2>1 DEF UpFails, CloseChan, Gens
<1>3. CASE Down
    <2>1. gen' \in 1 .. MaxGen + 1
        BY <1>0, <1>3 DEF Down
    <2> QED
        BY Zenon, <1>3, <2>1 DEF Down
<1>4. ASSUME NEW g \in Gens, DownDone(g) PROVE Types'
    BY Zenon, <1>4 DEF DownDone, CloseChan
<1>5. CASE Close
    <2>1. gen' \in 1 .. MaxGen + 1
        BY <1>0, <1>5 DEF Close, GenAfter, Gens
    <2>2. doneClosed' \subseteq Gens
        BY Zenon, <1>5 DEF Close, CloseChan
    <2> QED
        BY Zenon, <1>5, <2>1, <2>2 DEF Close
<1>6. CASE CloseDrain
    BY Zenon, <1>6, DrainReadsTypes DEF CloseDrain
<1>7. CASE WaitPumps \/ WaitWrites
    BY Zenon, <1>7 DEF WaitPumps, WaitWrites
<1>8. ASSUME NEW g \in Gens, PumpReads(g) PROVE Types'
    <2>1. UNCHANGED <<stateVars, doneVars, reads, writes, wpumpVars, reqVars, callVars, adminVars>>
        BY Zenon, <1>8 DEF PumpReads
    <2>2. PICK p \in Packets, b \in BufStates, s \in {"send", "end", "forward"}, q \in Packets \cup {None},
               d \in Gens \cup {0} : buf' = [buf EXCEPT ![p] = b] /\ PumpTo(g, s, q, d)
        BY Zenon, <1>8 DEF PumpReads, BufStates
    <2> QED
        BY Zenon, <2>1, <2>2 DEF PumpTo
<1>9. ASSUME NEW g \in Gens, PumpReadFails(g) PROVE Types'
    <2>1. UNCHANGED <<reads, writes, wpumpVars, buf, reqVars, callVars, adminVars>>
        BY Zenon, <1>9 DEF PumpReadFails
    <2>2. PICK s \in {"end", "faildrain", "senderr"} : PumpTo(g, s, None, 0)
        BY Zenon, <1>9 DEF PumpReadFails
    <2>3. CASE UNCHANGED <<stateVars, doneVars>>
        BY Zenon, <2>1, <2>2, <2>3 DEF PumpTo
    <2>4. CASE SetFailure
        <3>1. gen' \in 1 .. MaxGen + 1
            BY <1>0, <2>4 DEF SetFailure, GenAfter, Gens
        <3> QED
            BY Zenon, <2>1, <2>2, <2>4, <3>1 DEF PumpTo, SetFailure
    <2> QED
        BY Zenon, <1>9, <2>3, <2>4 DEF PumpReadFails
<1>10. ASSUME NEW g \in Gens, PumpFailDrain(g) PROVE Types'
    <2>1. PICK F, A : Release(F, A)
        BY Zenon, <1>10 DEF PumpFailDrain, DrainWrites, Cancel
    <2>2. writes' \in [Gens -> Seq(Requests)]
        BY <1>10 DEF PumpFailDrain, DrainWrites
    <2>3. PumpTo(g, "end", None, 0) /\ DrainReads(cur) /\ UNCHANGED <<stateVars, doneVars, wpumpVars, callVars, adminVars>>
        BY Zenon, <1>10 DEF PumpFailDrain
    <2>4. /\ wbuf' \in [Requests -> BufStates] /\ finished' \in [Requests -> BOOLEAN]
          /\ resp' \in [Requests -> BOOLEAN] /\ taken' \in [Requests -> BOOLEAN]
        BY Zenon, <2>1, ReleaseTypes
    <2>5. reads' \in [Gens -> Seq(Packets \cup {None})] /\ buf' \in [Packets -> BufStates]
        BY Zenon, <2>3, DrainReadsTypes
    <2> QED
        BY Zenon, <2>2, <2>3, <2>4, <2>5 DEF PumpTo
<1>11. ASSUME NEW g \in Gens, PumpSendsError(g) \/ PumpSends(g) \/ PumpSent(g) \/ PumpForwards(g) PROVE Types'
    <2>1. UNCHANGED <<stateVars, doneVars, writes, wpumpVars, reqVars, callVars, adminVars>>
        BY Zenon, <1>11 DEF PumpSendsError, PumpSends, PumpSent, PumpForwards
    <2>2. PICK s \in {"end", "read", "sent", "stopped"} : PumpTo(g, s, None, 0)
        BY Zenon, <1>11 DEF PumpSendsError, PumpSends, PumpSent, PumpForwards
    <2>3. reads' \in [Gens -> Seq(Packets \cup {None})] /\ buf' \in [Packets -> BufStates]
        <3>1. CASE DrainReads(g)
            BY Zenon, <3>1, DrainReadsTypes
        <3>2. ASSUME NEW h \in Gens, NEW p \in Packets \cup {None}, UNCHANGED buf,
                     reads' = [reads EXCEPT ![h] = Append(@, p)]
              PROVE  reads' \in [Gens -> Seq(Packets \cup {None})]
            BY <3>2
        <3>3. ASSUME NEW p \in Packets, UNCHANGED reads, buf' = [buf EXCEPT ![p] = Put(@)]
              PROVE  buf' \in [Packets -> BufStates]
            BY Zenon, <3>3 DEF Put, BufStates
        <3>4. CASE UNCHANGED <<reads, buf>>
            BY Zenon, <3>4
        <3>5. CASE PumpSendsError(g) \/ PumpSent(g)
            <4>1. \/ DrainReads(g) \/ UNCHANGED <<reads, buf>>
                  \/ UNCHANGED buf /\ reads' = [reads EXCEPT ![g] = Append(@, None)]
                BY <3>5, Zenon DEF PumpSendsError, PumpSent, DrainIfClosed
            <4> QED
                BY Zenon, <4>1, <3>1, <3>2, <3>4
        <3>6. CASE PumpSends(g)
            <4>1. rpkt[g] \in Packets
                BY Zenon, <3>6 DEF PumpSends, PacketInv, InHand
            <4> QED
                BY Zenon, <3>6, <4>1, <3>2, <3>3 DEF PumpSends
        <3>7. CASE PumpForwards(g)
            <4>1. rpkt[g] \in Packets /\ rdst[g] \in Gens
                BY Zenon, <3>7 DEF PumpForwards, PacketInv, InHand
            <4> QED
                BY Zenon, <3>7, <4>1, <3>2, <3>3 DEF PumpForwards
        <3> QED
            BY Zenon, <1>11, <3>5, <3>6, <3>7
    <2> QED
        BY Zenon, <2>1, <2>2, <2>3 DEF PumpTo
<1>12. ASSUME NEW g \in Gens, WriterTakes(g) PROVE Types'
    <2>1. Head(writes[g]) \in Requests /\ writes' \in [Gens -> Seq(Requests)]
        BY <1>12 DEF WriterTakes
    <2>2. UNCHANGED <<stateVars, doneVars, reads, rpumpVars, buf, wbuf, resp, finished, pendingWrites,
                      callVars, adminVars>>
        BY Zenon, <1>12 DEF WriterTakes
    <2>3. CASE /\ taken' = [taken EXCEPT ![Head(writes[g])] = TRUE]
               /\ WriterTo(g, "writing", Head(writes[g]))
        BY Zenon, <2>1, <2>2, <2>3 DEF WriterTo
    <2>4. CASE UNCHANGED <<taken, wpumpVars>>
        BY Zenon, <2>1, <2>2, <2>4
    <2> QED
        BY Zenon, <1>12, <2>3, <2>4 DEF WriterTakes
<1>13. ASSUME NEW g \in Gens, WriterStops(g) PROVE Types'
    <2>1. PICK F, A : Release(F, A)
        BY Zenon, <1>13 DEF WriterStops, DrainWrites, Cancel
    <2>2. writes' \in [Gens -> Seq(Requests)]
        BY <1>13 DEF WriterStops, DrainWrites
    <2>3. /\ WriterTo(g, "end", None)
          /\ UNCHANGED <<stateVars, doneVars, reads, rpumpVars, buf, callVars, adminVars>>
        BY Zenon, <1>13 DEF WriterStops
    <2> QED
        BY Zenon, <2>1, <2>2, <2>3, ReleaseTypes DEF WriterTo
<1>14. ASSUME NEW g \in Gens, WriterWritten(g) PROVE Types'
    <2>1. PICK F, A : Release(F, A)
        BY Zenon, <1>14 DEF WriterWritten
    <2>2. UNCHANGED <<reads, rpumpVars, buf, callVars, adminVars>> /\ wreq[g] \in Requests
        BY Zenon, <1>14 DEF WriterWritten, RequestInv
    <2>3. writes' \in [Gens -> Seq(Requests)]
        <3>1. writes' = [writes EXCEPT ![g] = <<>>] \/ UNCHANGED writes
            BY Zenon, <1>14 DEF WriterWritten
        <3>2. CASE UNCHANGED writes
            BY Zenon, <3>2
        <3>3. CASE writes' = [writes EXCEPT ![g] = <<>>]
            BY <3>3
        <3> QED
            BY Zenon, <3>1, <3>2, <3>3
    <2>4. PICK s \in {"end", "faildrain", "select"}, r \in Requests \cup {None} : WriterTo(g, s, r)
        BY Zenon, <1>14, <2>2 DEF WriterWritten
    <2>5. CASE UNCHANGED <<stateVars, doneVars>>
        BY Zenon, <2>1, <2>2, <2>3, <2>4, <2>5, ReleaseTypes DEF WriterTo
    <2>6. CASE SetFailure
        <3>1. gen' \in 1 .. MaxGen + 1
            BY <1>0, <2>6 DEF SetFailure, GenAfter, Gens
        <3> QED
            BY Zenon, <2>1, <2>2, <2>3, <2>4, <2>6, <3>1, ReleaseTypes DEF WriterTo, SetFailure
    <2> QED
        BY Zenon, <1>14, <2>5, <2>6 DEF WriterWritten
<1>15. ASSUME NEW g \in Gens, WriterFailDrain(g) PROVE Types'
    <2>1. PICK F, A : Release(F, A)
        BY Zenon, <1>15 DEF WriterFailDrain, DrainWrites, Cancel
    <2>2. writes' \in [Gens -> Seq(Requests)]
        BY <1>15 DEF WriterFailDrain, DrainWrites
    <2>3. /\ WriterTo(g, "end", None) /\ DrainReads(cur)
          /\ UNCHANGED <<stateVars, doneVars, rpumpVars, callVars, adminVars>>
        BY Zenon, <1>15 DEF WriterFailDrain
    <2>4. /\ wbuf' \in [Requests -> BufStates] /\ finished' \in [Requests -> BOOLEAN]
          /\ resp' \in [Requests -> BOOLEAN] /\ taken' \in [Requests -> BOOLEAN]
        BY Zenon, <2>1, ReleaseTypes
    <2>5. reads' \in [Gens -> Seq(Packets \cup {None})] /\ buf' \in [Packets -> BufStates]
        BY Zenon, <2>3, DrainReadsTypes
    <2> QED
        BY Zenon, <2>2, <2>3, <2>4, <2>5 DEF WriterTo
<1>16. ASSUME NEW g \in Gens, Read(g) PROVE Types'
    <2>1. reads' \in [Gens -> Seq(Packets \cup {None})]
        BY <1>16 DEF Read
    <2>2. buf' \in [Packets -> BufStates]
        BY Zenon, <1>16 DEF Read, Put, BufStates
    <2> QED
        BY Zenon, <1>16, <2>1, <2>2 DEF Read
<1>17. ASSUME NEW r \in Requests, WriteRequest(r) PROVE Types'
    BY Zenon, <1>17 DEF WriteRequest, BufStates
<1>18. ASSUME NEW r \in Requests, Enqueue(r) PROVE Types'
    <2>1. wdst[r] \in Gens /\ UNCHANGED <<stateVars, doneVars, reads, rpumpVars, wpumpVars, buf, adminVars>>
        BY Zenon, <1>18 DEF Enqueue, RequestInv
    <2>2. CASE Cancel({r}, {}) /\ WriterReturns(r) /\ UNCHANGED writes
        <3>1. PICK F, A : Release(F, A)
            BY Zenon, <2>2 DEF Cancel
        <3> QED
            BY Zenon, <2>1, <2>2, <3>1, ReleaseTypes DEF WriterReturns
    <2>3. CASE /\ writes' = [writes EXCEPT ![wdst[r]] = Append(@, r)]
               /\ wpc' = [wpc EXCEPT ![r] = "wait"] /\ UNCHANGED <<reqVars, wdst>>
        BY <2>1, <2>3
    <2> QED
        BY Zenon, <1>18, <2>2, <2>3 DEF Enqueue
<1>19. ASSUME NEW r \in Requests, WriteReturns(r) PROVE Types'
    <2>1. WriterReturns(r) /\ UNCHANGED <<stateVars, doneVars, reads, writes, rpumpVars, wpumpVars, buf, adminVars>>
        BY Zenon, <1>19 DEF WriteReturns
    <2>2. CASE Cancel({r}, {})
        <3>1. PICK F, A : Release(F, A)
            BY Zenon, <2>2 DEF Cancel
        <3> QED
            BY Zenon, <2>1, <3>1, ReleaseTypes DEF WriterReturns
    <2>3. CASE UNCHANGED reqVars
        BY Zenon, <2>1, <2>3 DEF WriterReturns
    <2> QED
        BY Zenon, <1>19, <2>2, <2>3 DEF WriteReturns
<1>20. CASE UNCHANGED vars
    BY Zenon, <1>20 DEF vars
<1> QED
    BY Zenon, <1>1, <1>2, <1>3, <1>4, <1>5, <1>6, <1>7, <1>8, <1>9, <1>10, <1>11, <1>12, <1>13, <1>14, <1>15,
       <1>16, <1>17, <1>18, <1>19, <1>20 DEF Next, CloseReturns, ReadPump, WritePump, Writes

(* The channels are as PacketInv says. *)
InChannels ==
    /\ \A g \in Gens : \A i \in 1..Len(reads[g]) : reads[g][i] # None => buf[reads[g][i]] = "owned"
    /\ \A g, h \in Gens : \A i \in 1..Len(reads[g]), j \in 1..Len(reads[h]) :
          reads[g][i] # None /\ reads[g][i] = reads[h][j] => g = h /\ i = j

(* Pumps that keep what they have, or give it up. *)
PumpsKeep ==
    \A g \in Gens : InHand(g)' => InHand(g) /\ UNCHANGED <<rpump[g], rpkt[g], rdst[g]>>

(* drainReads puts back each buffer that it drains, once. *)
LEMMA Draining ==
    ASSUME Types, PacketInv, NEW g \in Gens, DrainReads(g), PumpsKeep
    PROVE  PacketInv'
<1>1. /\ reads'[g] = <<>> /\ \A h \in Gens \ {g} : reads'[h] = reads[h]
      /\ Len(reads'[g]) = 0
    BY Zenon DEF DrainReads, Types
<1>2. \A p \in Packets : buf'[p] = IF p \in Held(g) THEN Put(buf[p]) ELSE buf[p]
    BY Zenon DEF DrainReads
<1>3. \A p \in Held(g) : buf[p] = "owned"
    BY NoneAssumption DEF Held, PacketInv
<1>4. \A p \in Packets : buf'[p] = IF p \in Held(g) THEN "put" ELSE buf[p]
    BY Zenon, <1>2, <1>3 DEF Put
<1>5. ASSUME NEW h \in Gens \ {g}, NEW i \in 1..Len(reads[h]), reads[h][i] # None
      PROVE  reads[h][i] \in Packets /\ reads[h][i] \notin Held(g)
    <2>1. reads[h][i] \in Packets
        BY <1>5 DEF Types
    <2>2. \A j \in 1..Len(reads[g]) : reads[g][j] # reads[h][i]
        BY Zenon, <1>5 DEF PacketInv
    <2> QED
        BY Zenon, <2>1, <2>2 DEF Held
<1>6. ASSUME NEW h \in Gens, InHand(h) PROVE rpkt[h] \in Packets /\ rpkt[h] \notin Held(g)
    BY <1>6 DEF PacketInv, Held
<1>7. InChannels'
    <2>1. ASSUME NEW h \in Gens, NEW i \in 1..Len(reads'[h])
          PROVE  h # g /\ i \in 1..Len(reads[h]) /\ reads'[h][i] = reads[h][i]
        BY <1>1, <2>1
    <2>2. ASSUME NEW h \in Gens, NEW i \in 1..Len(reads'[h]), reads'[h][i] # None
          PROVE  buf'[reads'[h][i]] = "owned"
        <3>1. h # g /\ i \in 1..Len(reads[h]) /\ reads'[h][i] = reads[h][i]
            BY Zenon, <2>1, <2>2
        <3>2. reads[h][i] \in Packets /\ reads[h][i] \notin Held(g)
            BY Zenon, <1>5, <2>2, <3>1
        <3>3. buf[reads[h][i]] = "owned"
            BY Zenon, <2>2, <3>1 DEF PacketInv
        <3> QED
            BY Zenon, <1>4, <3>1, <3>2, <3>3
    <2> QED
        BY SMTT(30), <2>1, <2>2 DEF InChannels, PacketInv
<1>8. \A p \in Packets : buf'[p] # "twice"
    BY Zenon, <1>4 DEF PacketInv
<1>9. ASSUME NEW h \in Gens, InHand(h)'
      PROVE  /\ rpkt'[h] \in Packets /\ buf'[rpkt'[h]] = "owned"
             /\ rpump'[h] = "forward" => rdst'[h] \in Gens
             /\ \A k \in Gens : \A i \in 1..Len(reads'[k]) : reads'[k][i] # rpkt'[h]
    BY <1>1, <1>4, <1>6, <1>9 DEF PacketInv, PumpsKeep
<1>10. \A h, k \in Gens : InHand(h)' /\ InHand(k)' /\ rpkt'[h] = rpkt'[k] => h = k
    BY Zenon DEF PacketInv, PumpsKeep
<1> QED
    BY <1>7, <1>8, <1>9, <1>10, Zenon DEF PacketInv, InChannels

(* A pump puts what it has into a channel, or an error. *)
LEMMA Sending ==
    ASSUME Types, PacketInv, NEW h \in Gens, NEW p \in Packets \cup {None},
           reads' = [reads EXCEPT ![h] = Append(@, p)], UNCHANGED buf, PumpsKeep,
           p # None => /\ buf[p] = "owned"
                       /\ \A k \in Gens : \A i \in 1..Len(reads[k]) : reads[k][i] # p
                       /\ \A k \in Gens : InHand(k)' => rpkt[k] # p
    PROVE  PacketInv'
<1>1. /\ Len(reads[h]) \in Nat
      /\ Len(reads'[h]) = Len(reads[h]) + 1
      /\ \A i \in 1..Len(reads[h]) : reads'[h][i] = reads[h][i]
      /\ reads'[h][Len(reads[h]) + 1] = p
      /\ \A k \in Gens \ {h} : reads'[k] = reads[k]
    BY DEF Types
<1>2. \A k \in Gens : \A i \in 1..Len(reads'[k]) :
          \/ i \in 1..Len(reads[k]) /\ reads'[k][i] = reads[k][i]
          \/ k = h /\ i = Len(reads[h]) + 1 /\ reads'[k][i] = p
    BY <1>1
<1>3. InChannels'
    <2>1. \A k \in Gens : \A i \in 1..Len(reads'[k]) : reads'[k][i] # None => buf'[reads'[k][i]] = "owned"
        BY <1>2 DEF PacketInv
    <2>2. ASSUME NEW k \in Gens, NEW l \in Gens, NEW i \in 1..Len(reads'[k]), NEW j \in 1..Len(reads'[l]),
                 reads'[k][i] # None, reads'[k][i] = reads'[l][j]
          PROVE  k = l /\ i = j
        BY <1>2, <2>2 DEF PacketInv
    <2> QED
        BY <2>1, <2>2 DEF InChannels
<1>4. ASSUME NEW k \in Gens, InHand(k)'
      PROVE  /\ rpkt'[k] \in Packets /\ buf'[rpkt'[k]] = "owned"
             /\ rpump'[k] = "forward" => rdst'[k] \in Gens
             /\ \A l \in Gens : \A i \in 1..Len(reads'[l]) : reads'[l][i] # rpkt'[k]
    <2>1. InHand(k) /\ UNCHANGED <<rpump[k], rpkt[k], rdst[k]>> /\ rpkt[k] # None
        BY <1>4, NoneAssumption DEF PumpsKeep, PacketInv
    <2> QED
        BY <1>2, <1>4, <2>1 DEF PacketInv
<1>5. \A k, l \in Gens : InHand(k)' /\ InHand(l)' /\ rpkt'[k] = rpkt'[l] => k = l
    BY Zenon DEF PacketInv, PumpsKeep
<1>6. \A q \in Packets : buf'[q] # "twice"
    BY Zenon DEF PacketInv
<1> QED
    BY Zenon, <1>3, <1>4, <1>5, <1>6 DEF PacketInv, InChannels

(* A pump gives back what it has. *)
LEMMA GivingBack ==
    ASSUME Types, PacketInv, NEW p \in Packets, buf[p] = "owned", buf' = [buf EXCEPT ![p] = Put(@)],
           UNCHANGED reads, PumpsKeep, \A k \in Gens : \A i \in 1..Len(reads[k]) : reads[k][i] # p,
           \A k \in Gens : InHand(k)' => rpkt[k] # p
    PROVE  PacketInv'
<1>1. buf'[p] = "put" /\ \A q \in Packets \ {p} : buf'[q] = buf[q]
    BY Zenon DEF Put, Types
<1>2. \A k \in Gens : \A i \in 1..Len(reads[k]) : reads[k][i] # None => reads[k][i] \in Packets \ {p}
    BY DEF Types
<1>3. InChannels'
    BY <1>1, <1>2 DEF PacketInv, InChannels
<1>4. ASSUME NEW k \in Gens, InHand(k)'
      PROVE  /\ rpkt'[k] \in Packets /\ buf'[rpkt'[k]] = "owned"
             /\ rpump'[k] = "forward" => rdst'[k] \in Gens
             /\ \A l \in Gens : \A i \in 1..Len(reads'[l]) : reads'[l][i] # rpkt'[k]
    <2>1. /\ InHand(k) /\ rpkt'[k] = rpkt[k] /\ rpkt[k] # p
          /\ rpump'[k] = rpump[k] /\ rdst'[k] = rdst[k]
        BY Zenon, <1>4 DEF PumpsKeep
    <2> QED
        BY <1>1, <2>1 DEF PacketInv
<1>5. \A k, l \in Gens : InHand(k)' /\ InHand(l)' /\ rpkt'[k] = rpkt'[l] => k = l
    BY Zenon DEF PacketInv, PumpsKeep
<1>6. \A q \in Packets : buf'[q] # "twice"
    BY Zenon, <1>1 DEF PacketInv
<1> QED
    BY Zenon, <1>3, <1>4, <1>5, <1>6 DEF PacketInv, InChannels

(* A step that leaves the read pumps alone keeps what they hold. *)
LEMMA KeepingPumps == UNCHANGED rpumpVars => PumpsKeep
    BY Zenon DEF PumpsKeep, InHand, rpumpVars

(* A pump gets a new buffer with a packet from the wrapped Tun. *)
LEMMA Receiving ==
    ASSUME Types, PacketInv, NEW g \in Gens, PumpReads(g)
    PROVE  PacketInv'
<1>1. PICK p \in Packets :
          /\ buf[p] = "none" /\ rpump[g] = "read" /\ UNCHANGED reads
          /\ \/ buf' = [buf EXCEPT ![p] = "put"] /\ PumpTo(g, "end", None, 0)
             \/ buf' = [buf EXCEPT ![p] = "owned"] /\ PumpTo(g, "send", p, 0)
             \/ buf' = [buf EXCEPT ![p] = "owned"] /\ PumpTo(g, "forward", p, cur)
    BY Zenon DEF PumpReads
<1>2. /\ \A k \in Gens : \A i \in 1..Len(reads[k]) :
            reads[k][i] # None => reads[k][i] \in Packets \ {p}
      /\ \A k \in Gens : InHand(k) => rpkt[k] # p
    BY <1>1 DEF PacketInv, Types
<1>3. \A q \in Packets \ {p} : buf'[q] = buf[q]
    BY Zenon, <1>1 DEF Types
<1>4. buf'[p] \in {"put", "owned"} /\ \A q \in Packets : buf'[q] # "twice"
    BY <1>1, <1>3 DEF PacketInv, Types
<1>5. InChannels'
    BY <1>1, <1>2, <1>3 DEF PacketInv, InChannels
<1>6. \A k \in Gens \ {g} : UNCHANGED <<rpump[k], rpkt[k], rdst[k]>>
    BY <1>1 DEF PumpTo, Types
<1>7. InHand(g)' => rpkt'[g] = p /\ buf'[p] = "owned" /\ (rpump'[g] = "forward" => rdst'[g] \in Gens)
    BY <1>1 DEF PumpTo, InHand, Types
<1>8. ASSUME NEW k \in Gens, InHand(k)'
      PROVE  /\ rpkt'[k] \in Packets /\ buf'[rpkt'[k]] = "owned"
             /\ rpump'[k] = "forward" => rdst'[k] \in Gens
             /\ \A l \in Gens : \A i \in 1..Len(reads'[l]) : reads'[l][i] # rpkt'[k]
    <2>1. CASE k = g
        BY <1>1, <1>2, <1>7, <1>8, <2>1, NoneAssumption
    <2>2. CASE k # g
        BY <1>1, <1>2, <1>3, <1>6, <1>8, <2>2 DEF PacketInv, InHand
    <2> QED
        BY Zenon, <2>1, <2>2
<1>9. ASSUME NEW k \in Gens, NEW l \in Gens, InHand(k)', InHand(l)', rpkt'[k] = rpkt'[l] PROVE k = l
    BY <1>2, <1>6, <1>7, <1>9 DEF PacketInv, InHand
<1> QED
    BY Zenon, <1>4, <1>5, <1>8, <1>9 DEF PacketInv, InChannels

(* Read takes the first of a channel. *)
LEMMA Taking ==
    ASSUME Types, PacketInv, NEW g \in Gens, Read(g)
    PROVE  PacketInv'
<1> USE DEF rpumpVars
<1> DEFINE q == Head(reads[g])
<1>1. /\ Len(reads[g]) \in Nat \ {0} /\ q = reads[g][1] /\ q \in Packets \cup {None}
      /\ Len(reads'[g]) = Len(reads[g]) - 1
      /\ \A i \in 1..Len(reads'[g]) : reads'[g][i] = reads[g][i + 1]
      /\ \A h \in Gens \ {g} : reads'[h] = reads[h]
    BY DEF Read, Types
<1>2. PumpsKeep /\ UNCHANGED rpumpVars
    BY Zenon, KeepingPumps DEF Read
<1>3. \A p \in Packets : buf'[p] = IF p = q THEN Put(buf[p]) ELSE buf[p]
    BY Zenon DEF Read
<1> HIDE DEF q
<1>4. q # None => buf[q] = "owned"
    BY <1>1 DEF PacketInv
<1>5. \A p \in Packets : buf'[p] = IF p = q THEN "put" ELSE buf[p]
    BY Zenon, <1>3, <1>4, NoneAssumption DEF Put
<1> DEFINE At(h, i) == IF h = g THEN i + 1 ELSE i
<1>6. ASSUME NEW h \in Gens, NEW i \in 1..Len(reads'[h])
      PROVE  /\ At(h, i) \in 1..Len(reads[h]) /\ reads'[h][i] = reads[h][At(h, i)]
             /\ reads'[h][i] # None => reads'[h][i] \in Packets \ {q}
    <2>1. CASE h = g
        <3>1. i + 1 \in 1..Len(reads[g]) /\ reads'[g][i] = reads[g][i + 1] /\ i + 1 # 1
            BY <1>1, <2>1
        <3>2. reads[g][i + 1] \in Packets \cup {None}
            BY <3>1 DEF Types
        <3>3. reads[g][i + 1] # None => reads[g][i + 1] # q
            BY <1>1, <3>1 DEF PacketInv
        <3> QED
            BY Zenon, <2>1, <3>1, <3>2, <3>3
    <2>2. CASE h # g
        <3>1. i \in 1..Len(reads[h]) /\ reads'[h][i] = reads[h][i]
            BY Zenon, <1>1, <2>2
        <3>2. reads[h][i] \in Packets \cup {None}
            BY <3>1 DEF Types
        <3>3. reads[h][i] # None => reads[h][i] # q
            BY <1>1, <2>2, <3>1 DEF PacketInv
        <3> QED
            BY Zenon, <2>2, <3>1, <3>2, <3>3
    <2> QED
        BY Zenon, <2>1, <2>2
<1>7. InChannels'
    <2>1. ASSUME NEW h \in Gens, NEW i \in 1..Len(reads'[h]), reads'[h][i] # None
          PROVE  buf'[reads'[h][i]] = "owned"
        <3> HIDE DEF At
        <3> QED
            BY <1>5, <1>6, <2>1 DEF PacketInv
    <2>2. ASSUME NEW h \in Gens, NEW k \in Gens, NEW i \in 1..Len(reads'[h]), NEW j \in 1..Len(reads'[k]),
                 reads'[h][i] # None, reads'[h][i] = reads'[k][j]
          PROVE  h = k /\ i = j
        <3>1. h = k /\ At(h, i) = At(k, j)
            <4> DEFINE a == At(h, i)  b == At(k, j)
            <4>1. a \in 1..Len(reads[h]) /\ reads'[h][i] = reads[h][a]
                BY Zenon, <1>6
            <4>2. b \in 1..Len(reads[k]) /\ reads'[k][j] = reads[k][b]
                BY Zenon, <1>6
            <4> HIDE DEF a, b
            <4>3. reads[h][a] # None /\ reads[h][a] = reads[k][b]
                BY <2>2, <4>1, <4>2, Zenon
            <4>4. h = k /\ a = b
                BY <4>1, <4>2, <4>3 DEF PacketInv
            <4> QED
                BY Zenon, <4>4 DEF a, b
        <3>2. i \in Nat /\ j \in Nat
            OBVIOUS
        <3> QED
            BY <3>1, <3>2
    <2> QED
        BY <2>1, <2>2 DEF InChannels
<1> HIDE DEF At
<1>8. ASSUME NEW k \in Gens, InHand(k)'
      PROVE  /\ rpkt'[k] \in Packets /\ buf'[rpkt'[k]] = "owned"
             /\ rpump'[k] = "forward" => rdst'[k] \in Gens
             /\ \A l \in Gens : \A i \in 1..Len(reads'[l]) : reads'[l][i] # rpkt'[k]
    <2>1. InHand(k) /\ rpkt[k] \in Packets /\ rpkt[k] # q
        BY <1>1, <1>2, <1>8 DEF PumpsKeep, PacketInv
    <2>2. ASSUME NEW l \in Gens, NEW i \in 1..Len(reads'[l]) PROVE reads'[l][i] # rpkt[k]
        BY <1>6, <2>1 DEF PacketInv
    <2> QED
        BY Zenon, <1>2, <1>5, <2>1, <2>2 DEF PacketInv
<1>9. \A k, l \in Gens : InHand(k)' /\ InHand(l)' /\ rpkt'[k] = rpkt'[l] => k = l
    BY Zenon, <1>2 DEF PacketInv, PumpsKeep
<1>10. \A p \in Packets : buf'[p] # "twice"
    BY Zenon, <1>5 DEF PacketInv
<1> QED
    BY Zenon, <1>7, <1>8, <1>9, <1>10 DEF PacketInv, InChannels

(* Every step keeps the invariant on packets. *)
LEMMA PacketsCorrect ==
    ASSUME Types, PacketInv, [Next]_vars
    PROVE  PacketInv'
<1> USE DEF rpumpVars
<1>0. ASSUME UNCHANGED <<reads, buf>>, PumpsKeep PROVE PacketInv'
    <2>1. ASSUME NEW k \in Gens, InHand(k)'
          PROVE  /\ rpkt'[k] \in Packets /\ buf'[rpkt'[k]] = "owned"
                 /\ rpump'[k] = "forward" => rdst'[k] \in Gens
                 /\ \A l \in Gens : \A i \in 1..Len(reads'[l]) : reads'[l][i] # rpkt'[k]
        BY <1>0, <2>1 DEF PacketInv, PumpsKeep
    <2>2. \A k, l \in Gens : InHand(k)' /\ InHand(l)' /\ rpkt'[k] = rpkt'[l] => k = l
        BY Zenon, <1>0 DEF PacketInv, PumpsKeep
    <2> QED
        BY <1>0, <2>1, <2>2 DEF PacketInv
<1>1. UNCHANGED rpumpVars => PumpsKeep
    BY Zenon, KeepingPumps
<1>2. ASSUME NEW g \in Gens, NEW s, s \notin {"send", "forward"}, PumpTo(g, s, None, 0)
      PROVE  PumpsKeep /\ ~InHand(g)' /\ \A k \in Gens \ {g} : InHand(k)' => InHand(k)
    BY Zenon, <1>2 DEF PumpsKeep, InHand, PumpTo, Types
<1>3. CASE Up \/ UpFails
    <2>1. gen + 1 \in Gens
        BY <1>3, BoundAssumption DEF Up, UpFails, Gens, Types
    <2>2. /\ UNCHANGED <<reads, buf, rpkt, rdst>>
          /\ UNCHANGED rpump \/ rpump' = [rpump EXCEPT ![gen + 1] = "read"]
        BY Zenon, <1>3 DEF Up, UpFails
    <2> QED
        BY Zenon, <1>0, <2>1, <2>2 DEF PumpsKeep, InHand, Types
<1>4. CASE Down \/ Close \/ WaitPumps \/ WaitWrites \/ UNCHANGED vars
    BY Zenon, <1>0, <1>1, <1>4 DEF Down, Close, WaitPumps, WaitWrites, vars
<1>5. CASE CloseDrain
    BY Zenon, <1>1, <1>5, Draining DEF CloseDrain, Types
<1>6. ASSUME NEW g \in Gens, DownDone(g) \/ WriterTakes(g) \/ WriterStops(g) \/ WriterWritten(g) PROVE PacketInv'
    <2>1. UNCHANGED <<reads, buf, rpumpVars>>
        BY Zenon, <1>6 DEF DownDone, WriterTakes, WriterStops, WriterWritten
    <2> QED
        BY Zenon, <1>0, <1>1, <2>1
<1>7. ASSUME NEW g \in Gens, WriterFailDrain(g) PROVE PacketInv'
    BY Zenon, <1>1, <1>7, Draining DEF WriterFailDrain, Types
<1>8. ASSUME NEW g \in Gens, PumpReads(g) PROVE PacketInv'
    BY Zenon, <1>8, Receiving
<1>9. ASSUME NEW g \in Gens, PumpReadFails(g) PROVE PacketInv'
    <2>1. UNCHANGED <<reads, buf>> /\ \E s \in {"end", "faildrain", "senderr"} : PumpTo(g, s, None, 0)
        BY Zenon, <1>9 DEF PumpReadFails
    <2> QED
        BY Zenon, <1>0, <1>2, <2>1
<1>10. ASSUME NEW g \in Gens, PumpFailDrain(g) PROVE PacketInv'
    <2>1. PumpTo(g, "end", None, 0) /\ DrainReads(cur) /\ cur \in Gens
        BY Zenon, <1>10 DEF PumpFailDrain, Types
    <2> QED
        BY Zenon, <1>2, <2>1, Draining
<1>11. ASSUME NEW g \in Gens, DrainIfClosed(g), PumpsKeep PROVE PacketInv'
    BY Zenon, <1>0, <1>11, Draining DEF DrainIfClosed
<1>12. ASSUME NEW g \in Gens, PumpSendsError(g) PROVE PacketInv'
    <2>1. PumpsKeep
        BY Zenon, <1>2, <1>12 DEF PumpSendsError
    <2>2. CASE DrainIfClosed(g)
        BY Zenon, <1>11, <2>1, <2>2
    <2>3. CASE reads' = [reads EXCEPT ![g] = Append(@, None)] /\ UNCHANGED buf
        BY Zenon, <2>1, <2>3, Sending
    <2> QED
        BY Zenon, <1>12, <2>2, <2>3 DEF PumpSendsError
<1>13. ASSUME NEW g \in Gens, NEW h \in Gens, InHand(g), PumpsKeep, ~InHand(g)',
              \/ buf' = [buf EXCEPT ![rpkt[g]] = Put(@)] /\ UNCHANGED reads
              \/ reads' = [reads EXCEPT ![h] = Append(@, rpkt[g])] /\ UNCHANGED buf
       PROVE  PacketInv'
    <2>1. /\ rpkt[g] \in Packets /\ buf[rpkt[g]] = "owned"
          /\ \A k \in Gens : \A i \in 1..Len(reads[k]) : reads[k][i] # rpkt[g]
        BY Zenon, <1>13 DEF PacketInv
    <2>2. \A k \in Gens : InHand(k)' => rpkt[k] # rpkt[g]
        BY ZenonT(30), <1>13 DEF PacketInv, PumpsKeep
    <2>3. CASE buf' = [buf EXCEPT ![rpkt[g]] = Put(@)] /\ UNCHANGED reads
        BY Zenon, <1>13, <2>1, <2>2, <2>3, GivingBack
    <2>4. CASE reads' = [reads EXCEPT ![h] = Append(@, rpkt[g])] /\ UNCHANGED buf
        BY ZenonT(30), <1>13, <2>1, <2>2, <2>4, Sending
    <2> QED
        BY Zenon, <1>13, <2>3, <2>4
<1>14. ASSUME NEW g \in Gens, PumpSends(g) PROVE PacketInv'
    <2>1. InHand(g) /\ PumpsKeep /\ ~InHand(g)'
        BY Zenon, <1>2, <1>14 DEF PumpSends, InHand
    <2> QED
        BY Zenon, <1>13, <1>14, <2>1 DEF PumpSends
<1>15. ASSUME NEW g \in Gens, PumpSent(g) PROVE PacketInv'
    <2>1. DrainIfClosed(g) /\ \E s \in {"end", "read"} : PumpTo(g, s, None, 0)
        BY Zenon, <1>15 DEF PumpSent
    <2> QED
        BY Zenon, <1>2, <1>11, <2>1
<1>16. ASSUME NEW g \in Gens, PumpForwards(g) PROVE PacketInv'
    <2>1. InHand(g) /\ PumpsKeep /\ ~InHand(g)' /\ rdst[g] \in Gens
        BY Zenon, <1>2, <1>16 DEF PumpForwards, InHand, PacketInv
    <2> QED
        BY Zenon, <1>13, <1>16, <2>1 DEF PumpForwards
<1>17. ASSUME NEW g \in Gens, Read(g) PROVE PacketInv'
    BY Zenon, <1>17, Taking
<1>18. ASSUME NEW r \in Requests, WriteRequest(r) \/ Enqueue(r) \/ WriteReturns(r) PROVE PacketInv'
    <2>1. UNCHANGED <<reads, buf, rpumpVars>>
        BY Zenon, <1>18 DEF WriteRequest, Enqueue, WriteReturns
    <2> QED
        BY Zenon, <1>0, <1>1, <2>1
<1> QED
    BY Zenon, <1>3, <1>4, <1>5, <1>6, <1>7, <1>8, <1>9, <1>10, <1>12, <1>14, <1>15, <1>16, <1>17, <1>18
       DEF Next, CloseReturns, ReadPump, WritePump, Writes

----------------------------------------------------------------------------
(* The invariant holds at the start. *)
LEMMA InitIInv == Init => IInv
<1> SUFFICES ASSUME Init PROVE IInv
    BY Zenon
<1> USE BoundAssumption DEF Gens
<1>1. Types
    BY DEF Init, Types, BufStates
<1>2. FlagsOK
    BY Zenon DEF Init, FlagsOK
<1>3. Capacity
    BY DEF Init, Capacity
<1>4. DoneInv /\ RequestInv
    BY DEF Init, DoneInv, RequestInv
<1>5. PacketInv
    BY DEF Init, PacketInv, InHand
<1> QED
    BY Zenon, <1>1, <1>2, <1>3, <1>4, <1>5 DEF IInv

(* The flags of the wrapper, which every action sets to a truth value or   *)
(* leaves alone.                                                           *)
LEMMA FlagsKept == FlagsOK /\ [Next]_vars => FlagsOK'
<1> SUFFICES ASSUME FlagsOK, [Next]_vars PROVE FlagsOK'
    BY Zenon
<1> USE DEF Next, vars, stateVars, doneVars, CloseReturns, ReadPump, WritePump, Writes,
            Up, UpFails, Down, DownDone, Close, CloseDrain, WaitPumps, WaitWrites, PumpReads,
            PumpReadFails, PumpFailDrain, PumpSendsError, PumpSends, PumpSent, PumpForwards,
            WriterTakes, WriterStops, WriterWritten, WriterFailDrain, Read, WriteRequest,
            Enqueue, WriteReturns, SetFailure
<1>1. up' = up \/ up' = TRUE \/ up' = FALSE
    BY Zenon
<1>2. closed' = closed \/ closed' = TRUE
    BY Zenon
<1>3. failed' = failed \/ failed' = TRUE
    BY ZenonT(30)
<1>4. panicked' = panicked \/ \E g : panicked' = (panicked \/ g \in doneClosed)
    <2>1. UNCHANGED panicked \/ UpFails \/ Close \/ \E g \in Gens : DownDone(g)
        BY ZenonT(30)
    <2> QED
        BY ZenonT(30), <2>1 DEF CloseChan
<1> HIDE DEF Next, vars
<1> QED
    BY <1>1, <1>2, <1>3, <1>4, Zenon DEF FlagsOK

(* Every step keeps the invariant on the done channels. *)
LEMMA DoneCorrect ==
    ASSUME Types, DoneInv, [Next]_vars
    PROVE  DoneInv'
<1> USE DEF DoneInv, stateVars, doneVars, adminVars
<1>0. gen \in Nat /\ cur \in Nat /\ cur >= 1
    BY DEF Types, Gens
<1>1. CASE UNCHANGED <<stateVars, doneVars, ending>>
    BY Zenon, <1>1
<1>2. CASE Up
    BY <1>0, <1>2 DEF Up
<1>3. CASE UpFails
    <2>1. gen + 1 \notin doneClosed /\ gen + 1 \notin ending
        BY <1>0
    <2>2. ~panicked'
        BY Zenon, <1>3, <2>1 DEF UpFails, CloseChan
    <2>3. ~up' /\ cur' = gen + 1 /\ gen' = gen + 1 /\ doneClosed' = doneClosed \cup {gen + 1} /\ UNCHANGED ending
        BY Zenon, <1>3 DEF UpFails, CloseChan
    <2> QED
        BY <1>0, <2>1, <2>2, <2>3
<1>4. CASE Down
    BY <1>0, <1>4 DEF Down
<1>5. ASSUME NEW g \in Gens, DownDone(g) PROVE DoneInv'
    BY Zenon, <1>0, <1>5 DEF DownDone, CloseChan
<1>6. CASE Close
    <2>1. ~up' /\ UNCHANGED <<cur, ending>>
        BY Zenon, <1>6 DEF Close
    <2>2. CASE up
        <3>1. doneClosed' = doneClosed \cup {cur} /\ ~panicked' /\ gen' = gen + 1
            BY ZenonT(30), <1>6, <2>2 DEF Close, CloseChan, ClosesDone, GenAfter
        <3> QED
            BY <1>0, <2>1, <2>2, <3>1
    <2>3. CASE ~up
        <3>1. UNCHANGED <<doneClosed, panicked, gen>>
            BY Zenon, <1>6, <2>3 DEF Close, ClosesDone, GenAfter
        <3> QED
            BY Zenon, <2>1, <3>1
    <2> QED
        BY Zenon, <2>2, <2>3
<1>7. ASSUME NEW g \in Gens, Generation(g), SetFailure, UNCHANGED ending PROVE DoneInv'
    BY <1>0, <1>7 DEF Generation, SetFailure, GenAfter
<1>8. ASSUME NEW g \in Gens, PumpReadFails(g) \/ WriterWritten(g) PROVE DoneInv'
    BY Zenon, <1>1, <1>7, <1>8 DEF PumpReadFails, WriterWritten
<1>9. ASSUME NEW g \in Gens,
             \/ PumpReads(g) \/ PumpFailDrain(g) \/ PumpSendsError(g) \/ PumpSends(g) \/ PumpSent(g)
             \/ PumpForwards(g) \/ WriterTakes(g) \/ WriterStops(g) \/ WriterFailDrain(g) \/ Read(g)
      PROVE  DoneInv'
    <2>1. UNCHANGED <<stateVars, doneVars, ending>>
        BY Zenon, <1>9 DEF PumpReads, PumpFailDrain, PumpSendsError, PumpSends, PumpSent, PumpForwards, WriterTakes,
                    WriterStops, WriterFailDrain, Read
    <2> QED
        BY Zenon, <1>1, <2>1
<1>10. ASSUME NEW r \in Requests, WriteRequest(r) \/ Enqueue(r) \/ WriteReturns(r) PROVE DoneInv'
    BY Zenon, <1>1, <1>10 DEF WriteRequest, Enqueue, WriteReturns
<1>11. CASE CloseReturns
    BY Zenon, <1>1, <1>11 DEF CloseReturns, CloseDrain, WaitPumps, WaitWrites
<1>12. CASE UNCHANGED vars
    BY Zenon, <1>1, <1>12 DEF vars
<1> QED
    BY Zenon, <1>2, <1>3, <1>4, <1>5, <1>6, <1>8, <1>9, <1>10, <1>11, <1>12 DEF Next, ReadPump, WritePump, Writes

(* No step fills a channel beyond its capacity. *)
LEMMA CapacityKept ==
    ASSUME Types, RequestInv, PacketInv, Capacity, [Next]_vars
    PROVE  Capacity'
<1> USE BoundAssumption DEF Types
<1> DEFINE R == \A g \in Gens : Len(reads[g]) <= ChanCap
           W == \A g \in Gens : Len(writes[g]) <= ChanCap
<1>a. R /\ W
    BY Zenon DEF Capacity
<1>1. R'
    <2>1. CASE UNCHANGED reads
        BY Zenon, <1>a, <2>1
    <2>2. ASSUME NEW g \in Gens, reads' = [reads EXCEPT ![g] = <<>>] PROVE R'
        BY <1>a, <2>2
    <2>3. ASSUME NEW g \in Gens, NEW p \in Packets \cup {None}, Len(reads[g]) < ChanCap,
                 reads' = [reads EXCEPT ![g] = Append(@, p)]
          PROVE  R'
        <3>1. Len(reads'[g]) = Len(reads[g]) + 1 /\ Len(reads[g]) \in Nat
            BY <2>3
        <3> QED
            BY <1>a, <2>3, <3>1
    <2>4. ASSUME NEW g \in Gens, Read(g) PROVE R'
        <3>1. Len(reads'[g]) = Len(reads[g]) - 1 /\ Len(reads[g]) \in Nat
            BY <2>4 DEF Read
        <3> QED
            BY <1>a, <2>4, <3>1 DEF Read
    <2>5. ASSUME NEW g \in Gens, PumpSends(g) \/ PumpForwards(g) PROVE R'
        <3>1. rpkt[g] \in Packets /\ (rpump[g] = "forward" => rdst[g] \in Gens)
            BY Zenon, <2>5 DEF PumpSends, PumpForwards, PacketInv, InHand
        <3> HIDE DEF R
        <3> QED
            BY ZenonT(30), <2>1, <2>3, <2>5, <3>1 DEF PumpSends, PumpForwards
    <2>6. ASSUME NEW g \in Gens, PumpSendsError(g) \/ PumpSent(g) PROVE R'
        <3> HIDE DEF R
        <3> QED
            BY Zenon, <2>1, <2>2, <2>3, <2>6 DEF PumpSendsError, PumpSent, DrainIfClosed, DrainReads
    <2>7. ASSUME NEW g \in Gens, PumpFailDrain(g) \/ WriterFailDrain(g) PROVE R'
        BY Zenon, <2>2, <2>7 DEF PumpFailDrain, WriterFailDrain, DrainReads
    <2>8. CASE CloseDrain
        BY Zenon, <2>2, <2>8 DEF CloseDrain, DrainReads
    <2>9. \/ UNCHANGED reads \/ CloseDrain
          \/ \E g \in Gens : \/ Read(g) \/ PumpSends(g) \/ PumpForwards(g) \/ PumpSendsError(g)
                             \/ PumpSent(g) \/ PumpFailDrain(g) \/ WriterFailDrain(g)
        BY Zenon DEF Next, vars, CloseReturns, ReadPump, WritePump, Writes, Up, UpFails, Down, DownDone, Close, WaitPumps, WaitWrites,
               PumpReads, PumpReadFails, WriterTakes, WriterStops, WriterWritten, WriteRequest, Enqueue, WriteReturns
    <2> HIDE DEF R
    <2> QED
        BY Zenon, <2>1, <2>4, <2>5, <2>6, <2>7, <2>8, <2>9
<1>2. W'
    <2>1. CASE UNCHANGED writes
        BY Zenon, <1>a, <2>1
    <2>2. ASSUME NEW g \in Gens, writes' = [writes EXCEPT ![g] = <<>>] PROVE W'
        BY <1>a, <2>2
    <2>3. ASSUME NEW r \in Requests, Enqueue(r) PROVE W'
        <3>1. wdst[r] \in Gens
            BY Zenon, <2>3 DEF Enqueue, RequestInv
        <3>2. CASE Len(writes[wdst[r]]) < ChanCap /\ writes' = [writes EXCEPT ![wdst[r]] = Append(@, r)]
            <4>1. Len(writes'[wdst[r]]) = Len(writes[wdst[r]]) + 1 /\ Len(writes[wdst[r]]) \in Nat
                BY <3>1, <3>2
            <4> QED
                BY <1>a, <3>1, <3>2, <4>1
        <3> HIDE DEF W
        <3> QED
            BY Zenon, <2>1, <2>3, <3>2 DEF Enqueue
    <2>4. ASSUME NEW g \in Gens, WriterTakes(g) PROVE W'
        <3>1. Len(writes'[g]) = Len(writes[g]) - 1 /\ Len(writes[g]) \in Nat
            BY <2>4 DEF WriterTakes
        <3> QED
            BY <1>a, <2>4, <3>1 DEF WriterTakes
    <2>5. ASSUME NEW g \in Gens, WriterStops(g) \/ WriterWritten(g) PROVE W'
        <3>1. writes' = [writes EXCEPT ![g] = <<>>] \/ UNCHANGED writes
            BY Zenon, <2>5 DEF WriterStops, WriterWritten, DrainWrites
        <3> HIDE DEF W
        <3> QED
            BY Zenon, <2>1, <2>2, <3>1
    <2>6. ASSUME NEW g \in Gens, PumpFailDrain(g) \/ WriterFailDrain(g) PROVE W'
        BY Zenon, <2>2, <2>6 DEF PumpFailDrain, WriterFailDrain, DrainWrites
    <2>7. \/ UNCHANGED writes \/ \E r \in Requests : Enqueue(r)
          \/ \E g \in Gens : \/ WriterTakes(g) \/ WriterStops(g) \/ WriterWritten(g) \/ PumpFailDrain(g)
                             \/ WriterFailDrain(g)
        BY Zenon DEF Next, vars, CloseReturns, ReadPump, WritePump, Writes, Up, UpFails, Down, DownDone, Close, CloseDrain, WaitPumps,
               WaitWrites, PumpReads, PumpReadFails, PumpSendsError, PumpSends, PumpSent, PumpForwards, Read, WriteRequest, WriteReturns
    <2> HIDE DEF W
    <2> QED
        BY Zenon, <2>1, <2>3, <2>4, <2>5, <2>6, <2>7
<1> QED
    BY Zenon, <1>1, <1>2 DEF Capacity

Owned == {r \in Requests : wbuf[r] = "owned"}

(* release and finish of requests that own their buffers and that no pump  *)
(* goes on writing.                                                        *)
LEMMA Releasing ==
    ASSUME Types, RequestInv, NEW F \in SUBSET Owned, NEW A, Release(F, A),
           \A g \in Gens : wpump'[g] = "writing" =>
               wpump[g] = "writing" /\ wreq'[g] = wreq[g] /\ wreq[g] \notin F,
           \A r \in Requests : wpc'[r] = "idle" => wpc[r] = "idle",
           \A r \in Requests : wpc'[r] = "enqueue" => wpc[r] = "enqueue" /\ wdst'[r] = wdst[r]
    PROVE  RequestInv'
<1>1. \A r \in Requests : /\ wbuf'[r] = (IF r \in F THEN "put" ELSE wbuf[r])
                          /\ (finished'[r] <=> finished[r] \/ r \in F)
                          /\ taken'[r] = taken[r]
    BY Zenon DEF Release, Put, Owned
<1> QED
    BY <1>1 DEF RequestInv, Types, Owned

(* cancel spares the requests that a pump has taken. *)
LEMMA Cancelling ==
    ASSUME Types, RequestInv, NEW R \in SUBSET Requests, NEW A, Cancel(R, A),
           \A g \in Gens : wpump'[g] = "writing" => wpump[g] = "writing" /\ wreq'[g] = wreq[g],
           \A r \in Requests : wpc'[r] = "idle" => wpc[r] = "idle",
           \A r \in Requests : wpc'[r] = "enqueue" => wpc[r] = "enqueue" /\ wdst'[r] = wdst[r]
    PROVE  RequestInv'
<1>1. Cancelled(R) \in SUBSET Owned
    BY Zenon DEF Cancelled, Owned
<1>2. \A g \in Gens : wpump[g] = "writing" => wreq[g] \notin Cancelled(R)
    BY Zenon DEF Cancelled, RequestInv
<1> QED
    BY Zenon, <1>1, <1>2, Releasing DEF Cancel

(* Every step keeps the invariant on requests. *)
LEMMA RequestsCorrect ==
    ASSUME Types, RequestInv, [Next]_vars
    PROVE  RequestInv'
<1> USE DEF reqVars, callVars, wpumpVars
<1>0. ASSUME UNCHANGED reqVars,
             \A g \in Gens : wpump'[g] = "writing" => wpump[g] = "writing" /\ wreq'[g] = wreq[g],
             \A r \in Requests : wpc'[r] = "idle" => wpc[r] = "idle",
             \A r \in Requests : wpc'[r] = "enqueue" => wpc[r] = "enqueue" /\ wdst'[r] = wdst[r]
      PROVE  RequestInv'
    BY <1>0 DEF RequestInv, Types
<1>1. CASE Up
    <2>1. gen + 1 \in Gens
        BY <1>1, BoundAssumption DEF Up, Gens, Types
    <2> QED
        BY Zenon, <1>0, <1>1, <2>1 DEF Up, Types
<1>2. CASE UpFails \/ Down \/ Close \/ CloseReturns \/ UNCHANGED vars
    BY Zenon, <1>0, <1>2 DEF UpFails, Down, Close, CloseReturns, CloseDrain, WaitPumps, WaitWrites, vars
<1>3. ASSUME NEW g \in Gens,
             \/ DownDone(g) \/ PumpReads(g) \/ PumpReadFails(g) \/ PumpSendsError(g) \/ PumpSends(g)
             \/ PumpSent(g) \/ PumpForwards(g) \/ Read(g)
      PROVE  RequestInv'
    <2>1. UNCHANGED <<reqVars, callVars, wpumpVars>>
        BY Zenon, <1>3 DEF DownDone, PumpReads, PumpReadFails, PumpSendsError, PumpSends, PumpSent, PumpForwards, Read
    <2> QED
        BY Zenon, <1>0, <2>1
<1>4. ASSUME NEW g \in Gens, PumpFailDrain(g) PROVE RequestInv'
    <2>1. Cancel(Queued(cur), {}) /\ UNCHANGED <<wpumpVars, callVars>>
        BY Zenon, <1>4 DEF PumpFailDrain, DrainWrites
    <2>2. Queued(cur) \in SUBSET Requests
        BY Zenon DEF Queued
    <2> QED
        BY Zenon, <2>1, <2>2, Cancelling
<1>5. ASSUME NEW g \in Gens, WriterTakes(g) PROVE RequestInv'
    <2> DEFINE r == Head(writes[g])
    <2>1. r \in Requests
        BY <1>5 DEF WriterTakes, Types
    <2>2. UNCHANGED <<wbuf, resp, finished, pendingWrites, callVars>>
        BY Zenon, <1>5 DEF WriterTakes
    <2>3. CASE Take(r) /\ taken' = [taken EXCEPT ![r] = TRUE] /\ WriterTo(g, "writing", r)
        <3>1. wbuf[r] = "owned" /\ ~taken[r]
            BY Zenon, <2>3 DEF Take
        <3>2. /\ wpump'[g] = "writing" /\ wreq'[g] = r
              /\ \A h \in Gens \ {g} : wpump'[h] = wpump[h] /\ wreq'[h] = wreq[h]
              /\ taken'[r] /\ \A q \in Requests \ {r} : taken'[q] = taken[q]
            BY Zenon, <2>1, <2>3 DEF WriterTo, Types
        <3>3. \A h \in Gens \ {g} : wpump[h] = "writing" => wreq[h] # r
            BY Zenon, <3>1 DEF RequestInv
        <3> HIDE DEF r
        <3>4. RequestInv'
            <4>1. ASSUME NEW q \in Requests
                  PROVE  /\ wbuf'[q] # "twice"
                         /\ finished'[q] <=> wbuf'[q] = "put"
                         /\ wpc'[q] = "idle" => wbuf'[q] = "none" /\ ~taken'[q]
                         /\ wpc'[q] = "enqueue" => wdst'[q] \in Gens
                BY Zenon, <2>2, <3>1, <3>2 DEF RequestInv
            <4>2. ASSUME NEW h \in Gens, wpump'[h] = "writing"
                  PROVE  wreq'[h] \in Requests /\ taken'[wreq'[h]] /\ wbuf'[wreq'[h]] = "owned"
                BY <2>1, <2>2, <3>1, <3>2, <4>2 DEF RequestInv
            <4>3. ASSUME NEW h \in Gens, NEW k \in Gens,
                         wpump'[h] = "writing" /\ wpump'[k] = "writing" /\ wreq'[h] = wreq'[k]
                  PROVE  h = k
                BY <3>2, <3>3, <4>3 DEF RequestInv
            <4> QED
                BY Zenon, <4>1, <4>2, <4>3 DEF RequestInv
        <3> QED
            BY Zenon, <3>4
    <2>4. CASE UNCHANGED <<taken, wpumpVars>>
        BY Zenon, <1>0, <2>2, <2>4
    <2> QED
        BY Zenon, <1>5, <2>3, <2>4 DEF WriterTakes
<1>6. ASSUME NEW g \in Gens, WriterStops(g) PROVE RequestInv'
    <2>1. /\ Cancel(Queued(g), {}) /\ UNCHANGED callVars
          /\ WriterTo(g, "end", None)
        BY Zenon, <1>6 DEF WriterStops, DrainWrites
    <2>2. Queued(g) \in SUBSET Requests
        BY Zenon DEF Queued
    <2>3. \A h \in Gens : wpump'[h] = "writing" => wpump[h] = "writing" /\ wreq'[h] = wreq[h]
        BY Zenon, <2>1 DEF WriterTo, Types
    <2> QED
        BY Zenon, <2>1, <2>2, <2>3, Cancelling
<1>7. ASSUME NEW g \in Gens, WriterWritten(g) PROVE RequestInv'
    <2>1. UNCHANGED callVars /\ wreq[g] \in Owned /\ wpump[g] = "writing"
        BY Zenon, <1>7 DEF WriterWritten, RequestInv, Owned
    <2>2. \A h \in Gens : wpump'[h] = "writing" =>
              h # g /\ wpump[h] = "writing" /\ wreq'[h] = wreq[h] /\ wreq[h] # wreq[g]
        BY <1>7, <2>1 DEF WriterWritten, WriterTo, Types, RequestInv
    <2>3. ASSUME NEW R \in SUBSET Requests, NEW A, Release(Cancelled(R) \cup {wreq[g]}, A) PROVE RequestInv'
        <3>1. Cancelled(R) \cup {wreq[g]} \in SUBSET Owned
            BY Zenon, <2>1 DEF Cancelled, Owned
        <3>2. \A h \in Gens : wpump[h] = "writing" => wreq[h] \notin Cancelled(R)
            BY ZenonT(30) DEF Cancelled, RequestInv
        <3> QED
            BY Zenon, <2>1, <2>2, <2>3, <3>1, <3>2, Releasing
    <2>4. ASSUME NEW A, Release({wreq[g]}, A) PROVE RequestInv'
        <3>1. {wreq[g]} \in SUBSET Owned
            BY Zenon, <2>1
        <3> QED
            BY ZenonT(30), <2>1, <2>2, <2>4, <3>1, Releasing
    <2>5. Queued(g) \in SUBSET Requests
        BY Zenon DEF Queued
    <2> QED
        BY ZenonT(30), <1>7, <2>3, <2>4, <2>5 DEF WriterWritten
<1>8. ASSUME NEW g \in Gens, WriterFailDrain(g) PROVE RequestInv'
    <2>1. /\ Cancel(Queued(cur), {wreq[g]}) /\ UNCHANGED callVars
          /\ WriterTo(g, "end", None)
        BY Zenon, <1>8 DEF WriterFailDrain, DrainWrites
    <2>2. Queued(cur) \in SUBSET Requests
        BY Zenon DEF Queued
    <2>3. \A h \in Gens : wpump'[h] = "writing" => wpump[h] = "writing" /\ wreq'[h] = wreq[h]
        BY Zenon, <2>1 DEF WriterTo, Types
    <2> QED
        BY Zenon, <2>1, <2>2, <2>3, Cancelling
<1>9. ASSUME NEW r \in Requests, WriteRequest(r) PROVE RequestInv'
    <2>1. /\ wbuf[r] = "none" /\ ~taken[r] /\ ~finished[r] /\ cur \in Gens
          /\ \A g \in Gens : wpump[g] = "writing" => wreq[g] # r
        BY Zenon, <1>9 DEF WriteRequest, RequestInv, Types
    <2>2. /\ wbuf' = [wbuf EXCEPT ![r] = "owned"] /\ wpc' = [wpc EXCEPT ![r] = "enqueue"]
          /\ wdst' = [wdst EXCEPT ![r] = cur] /\ pendingWrites' = pendingWrites + 1
          /\ UNCHANGED <<wpumpVars, taken, finished>>
        BY Zenon, <1>9 DEF WriteRequest
    <2> QED
        BY <2>1, <2>2 DEF RequestInv, Types
<1>10. ASSUME NEW r \in Requests, Enqueue(r) PROVE RequestInv'
    <2>1. UNCHANGED wpumpVars /\ {r} \in SUBSET Requests
        BY Zenon, <1>10 DEF Enqueue
    <2>2. CASE Cancel({r}, {}) /\ WriterReturns(r)
        <3>1. \A q \in Requests : /\ wpc'[q] = "idle" => wpc[q] = "idle"
                                  /\ wpc'[q] = "enqueue" => wpc[q] = "enqueue" /\ wdst'[q] = wdst[q]
            BY Zenon, <2>2 DEF WriterReturns, Types
        <3> QED
            BY Zenon, <2>1, <2>2, <3>1, Cancelling
    <2>3. CASE wpc' = [wpc EXCEPT ![r] = "wait"] /\ UNCHANGED <<reqVars, wdst>>
        BY <2>1, <2>3 DEF RequestInv, Types
    <2> QED
        BY Zenon, <1>10, <2>2, <2>3 DEF Enqueue
<1>11. ASSUME NEW r \in Requests, WriteReturns(r) PROVE RequestInv'
    <2>1. UNCHANGED wpumpVars /\ {r} \in SUBSET Requests /\ WriterReturns(r)
        BY Zenon, <1>11 DEF WriteReturns
    <2>2. \A q \in Requests : /\ wpc'[q] = "idle" => wpc[q] = "idle"
                              /\ wpc'[q] = "enqueue" => wpc[q] = "enqueue" /\ wdst'[q] = wdst[q]
        BY Zenon, <2>1 DEF WriterReturns, Types
    <2>3. CASE Cancel({r}, {})
        BY Zenon, <2>1, <2>2, <2>3, Cancelling
    <2>4. CASE UNCHANGED reqVars
        BY Zenon, <1>0, <2>1, <2>2, <2>4
    <2> QED
        BY Zenon, <1>11, <2>3, <2>4 DEF WriteReturns
<1> QED
    BY Zenon, <1>1, <1>2, <1>3, <1>4, <1>5, <1>6, <1>7, <1>8, <1>9, <1>10, <1>11 DEF Next, ReadPump, WritePump, Writes

(* A step releases buffers that are owned, hands out those of one request, *)
(* or leaves the buffers and their count alone.                            *)
LEMMA Counting ==
    ASSUME Types, RequestInv, [Next]_vars
    PROVE  \/ UNCHANGED <<wbuf, pendingWrites>>
           \/ \E F \in SUBSET Owned : \E A : Release(F, A)
           \/ \E r \in Requests : WriteRequest(r)
<1> DEFINE Quiet == UNCHANGED <<wbuf, pendingWrites>>
           Releases == \E F \in SUBSET Owned : \E A : Release(F, A)
<1> USE DEF reqVars
<1>1. ASSUME NEW R, NEW A, R \subseteq Requests, Cancel(R, A) PROVE Releases
    BY Zenon, <1>1 DEF Cancel, Cancelled, Owned
<1>2. \A g : Queued(g) \subseteq Requests
    BY Zenon DEF Queued
<1>3. ASSUME NEW g \in Gens, PumpFailDrain(g) \/ WriterStops(g) \/ WriterFailDrain(g) PROVE Releases
    <2>1. \E h, A : Cancel(Queued(h), A)
        BY Zenon, <1>3 DEF PumpFailDrain, WriterStops, WriterFailDrain, DrainWrites
    <2> HIDE DEF Releases
    <2> QED
        BY Zenon, <1>1, <1>2, <2>1
<1>4. ASSUME NEW g \in Gens, WriterWritten(g) PROVE Releases
    <2>1. wreq[g] \in Owned
        BY Zenon, <1>4 DEF WriterWritten, RequestInv, Owned
    <2>2. Cancelled(Queued(g)) \subseteq Owned
        BY Zenon, <1>2 DEF Cancelled, Owned
    <2>3. {wreq[g]} \in SUBSET Owned /\ Cancelled(Queued(g)) \cup {wreq[g]} \in SUBSET Owned
        BY Zenon, <2>1, <2>2
    <2>4. \E A : Release({wreq[g]}, A) \/ Release(Cancelled(Queued(g)) \cup {wreq[g]}, A)
        BY <1>4, Zenon DEF WriterWritten
    <2> QED
        BY <2>3, <2>4, Zenon
<1>5. ASSUME NEW r \in Requests, Enqueue(r) \/ WriteReturns(r) PROVE Quiet \/ Releases
    <2>1. Cancel({r}, {}) \/ Quiet
        BY Zenon, <1>5 DEF Enqueue, WriteReturns
    <2> HIDE DEF Releases
    <2> QED
        BY Zenon, <1>1, <2>1
<1>6. CASE Up \/ UpFails \/ Down \/ Close \/ CloseReturns \/ UNCHANGED vars
    BY <1>6, Zenon DEF Up, UpFails, Down, Close, CloseReturns, CloseDrain, WaitPumps, WaitWrites, vars
<1>7. ASSUME NEW g \in Gens,
             \/ PumpReads(g) \/ PumpReadFails(g) \/ PumpSendsError(g) \/ PumpSends(g) \/ PumpSent(g)
             \/ PumpForwards(g) \/ WriterTakes(g) \/ Read(g) \/ DownDone(g)
      PROVE  Quiet
    BY <1>7, Zenon DEF PumpReads, PumpReadFails, PumpSendsError, PumpSends, PumpSent, PumpForwards,
                       WriterTakes, Read, DownDone
<1> HIDE DEF Quiet, Releases
<1> QED
    BY <1>3, <1>4, <1>5, <1>6, <1>7, Zenon DEF Next, ReadPump, WritePump, Writes, Quiet, Releases

----------------------------------------------------------------------------
(* Counting the requests that own buffers.  The library's theorems are     *)
(* about its own instance of FiniteSets.                                   *)
FS == INSTANCE FiniteSetTheorems

(* The instance counts as the module does. *)
LEMMA SameCount ==
    ASSUME NEW S
    PROVE  /\ FS!Cardinality(S) = Cardinality(S)
           /\ FS!IsFiniteSet(S) <=> IsFiniteSet(S)
<1>1. FS!Cardinality(S) = Cardinality(S)
    BY Zenon DEF FS!Cardinality, Cardinality
<1>2. FS!IsFiniteSet(S) <=> IsFiniteSet(S)
    BY Zenon DEF FS!IsFiniteSet, IsFiniteSet
<1> QED
    BY <1>1, <1>2

(* What becomes of a count when a part goes, ... *)
LEMMA CountLess ==
    ASSUME NEW S, IsFiniteSet(S), NEW T \in SUBSET S
    PROVE  /\ IsFiniteSet(T)
           /\ Cardinality(S) \in Nat /\ Cardinality(T) \in Nat /\ Cardinality(T) <= Cardinality(S)
           /\ Cardinality(S \ T) = Cardinality(S) - Cardinality(T)
<1>1. FS!IsFiniteSet(S)
    BY SameCount
<1>2. FS!IsFiniteSet(T) /\ FS!Cardinality(T) <= FS!Cardinality(S)
    BY <1>1, FS!FS_Subset
<1>3. FS!Cardinality(S) \in Nat /\ FS!Cardinality(T) \in Nat
    BY <1>1, <1>2, FS!FS_CardinalityType
<1>4. FS!Cardinality(S \ T) = FS!Cardinality(S) - FS!Cardinality(S \cap T) /\ S \cap T = T
    BY <1>1, <1>2, FS!FS_Difference, Zenon
<1> QED
    BY <1>2, <1>3, <1>4, SameCount

(* ... when one comes, and of nothing at all. *)
LEMMA CountMore ==
    ASSUME NEW S, IsFiniteSet(S), NEW x, x \notin S
    PROVE  Cardinality(S \cup {x}) = Cardinality(S) + 1
<1>1. FS!Cardinality(S \cup {x}) = FS!Cardinality(S) + 1
    BY SameCount, FS!FS_AddElement
<1> QED
    BY <1>1, SameCount

(* The empty set has no member. *)
LEMMA CountNone == Cardinality({}) = 0
<1>1. FS!Cardinality({}) = 0
    BY FS!FS_EmptySet
<1> QED
    BY <1>1, SameCount

(* The count follows what a step releases or hands out. *)
LEMMA PendingCorrect ==
    ASSUME Types, RequestInv, PendingWritesExact, [Next]_vars
    PROVE  PendingWritesExact'
<1> SUFFICES pendingWrites' = Cardinality(Owned')
    BY Zenon DEF PendingWritesExact, Owned
<1>0. pendingWrites = Cardinality(Owned) /\ IsFiniteSet(Owned)
    <2>1. Owned \subseteq Requests
        BY Zenon DEF Owned
    <2> QED
        BY Zenon, <2>1, RequestAssumption, CountLess DEF PendingWritesExact, Owned
<1>1. CASE UNCHANGED <<wbuf, pendingWrites>>
    <2>1. Owned' = Owned
        BY Zenon, <1>1 DEF Owned
    <2> QED
        BY Zenon, <1>0, <1>1, <2>1
<1>2. ASSUME NEW F \in SUBSET Owned, NEW A, Release(F, A) PROVE pendingWrites' = Cardinality(Owned')
    <2>1. {r \in F : ~finished[r]} = F
        BY Zenon DEF RequestInv, Owned
    <2>2. pendingWrites' = pendingWrites - Cardinality(F)
        BY Zenon, <1>2, <2>1 DEF Release, PendingAfter
    <2>3. \A r \in Requests : wbuf'[r] = (IF r \in F THEN "put" ELSE wbuf[r])
        BY <1>2, Zenon DEF Release, Put, Owned
    <2>4. Owned' = Owned \ F
        BY Zenon, <2>3 DEF Owned
    <2>5. Cardinality(Owned \ F) = Cardinality(Owned) - Cardinality(F)
        BY Zenon, <1>0, CountLess
    <2> QED
        BY Zenon, <1>0, <2>2, <2>4, <2>5
<1>3. ASSUME NEW r \in Requests, WriteRequest(r) PROVE pendingWrites' = Cardinality(Owned')
    <2>1. wbuf[r] = "none" /\ wbuf' = [wbuf EXCEPT ![r] = "owned"] /\ pendingWrites' = pendingWrites + 1
        BY Zenon, <1>3 DEF WriteRequest, RequestInv
    <2>2. Owned' = Owned \cup {r} /\ r \notin Owned
        BY Zenon, <2>1 DEF Owned, Types
    <2>3. Cardinality(Owned \cup {r}) = Cardinality(Owned) + 1
        BY Zenon, <1>0, <2>2, CountMore
    <2> QED
        BY Zenon, <1>0, <2>1, <2>2, <2>3
<1> QED
    BY Zenon, <1>1, <1>2, <1>3, Counting

(* The counter of pending writes keeps to its range. *)
LEMMA PendingBounded == PendingWritesExact => pendingWrites \in 0 .. Cardinality(Requests)
<1>1. Owned \subseteq Requests
    BY Zenon DEF Owned
<1>2. /\ Cardinality(Owned) \in Nat /\ Cardinality(Requests) \in Nat
      /\ Cardinality(Owned) <= Cardinality(Requests)
    BY Zenon, <1>1, RequestAssumption, CountLess
<1> QED
    BY <1>2 DEF PendingWritesExact, Owned

(* Every step keeps the invariant. *)
LEMMA NextIInv == IInv /\ [Next]_vars => IInv'
<1> SUFFICES ASSUME IInv, [Next]_vars PROVE IInv'
    BY Zenon
<1>1. Types /\ FlagsOK /\ Capacity /\ DoneInv /\ RequestInv /\ PacketInv
    BY Zenon DEF IInv
<1>2. Types' /\ FlagsOK' /\ Capacity' /\ DoneInv' /\ RequestInv' /\ PacketInv'
    BY Zenon, <1>1, TypesCorrect, FlagsKept, CapacityKept, DoneCorrect, RequestsCorrect, PacketsCorrect
<1> QED
    BY Zenon, <1>2 DEF IInv

(* The inductive invariant holds in every state of a detached Tun. *)
THEOREM Invariance == Spec => []IInv
<1> QED
    BY InitIInv, NextIInv, PTL DEF Spec

(* Whatever the order of Up, Down, Close, a failure, the pumps and the     *)
(* callers, no done channel is closed twice, no buffer goes back to the    *)
(* pool twice, and none does while the wrapped Tun writes it.              *)
THEOREM BuffersOnce == Spec => []BuffersSafe
<1>1. IInv => BuffersSafe
    BY Zenon DEF IInv, DoneInv, RequestInv, PacketInv, BuffersSafe, PutOnce, NotReusedWhileWriting
<1> QED
    BY <1>1, Invariance, PTL

(* d.pendingWrites is the number of requests that own buffers, so that the *)
(* Wait that finds it zero leaves none behind.                             *)
THEOREM PendingCounted == Spec => []PendingWritesExact
<1>1. Init => PendingWritesExact
    <2> SUFFICES ASSUME Init PROVE PendingWritesExact
        BY Zenon
    <2>1. {r \in Requests : wbuf[r] = "owned"} = {}
        BY Zenon DEF Init
    <2> QED
        BY <2>1, CountNone, Zenon DEF Init, PendingWritesExact
<1>2. IInv /\ PendingWritesExact /\ [Next]_vars => PendingWritesExact'
    BY Zenon, PendingCorrect DEF IInv
<1> QED
    BY <1>1, <1>2, Invariance, PTL DEF Spec

(* Channels keep to their capacity, pumps and callers to their states, and *)
(* d.pendingWrites counts no more than the requests.                       *)
THEOREM TypeSafety == Spec => []TypeOK
<1>1. IInv /\ PendingWritesExact => TypeOK
    BY Zenon, PendingBounded DEF IInv, FlagsOK, Capacity, TypeOK
<1> QED
    BY <1>1, Invariance, PendingCounted, PTL
============================================================================

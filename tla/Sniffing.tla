------------------------------ MODULE Sniffing ------------------------------
(***************************************************************************)
(* sniffer.Sniff (sniffer/sniff.go) reads the first bytes of a connection  *)
(* in whatever pieces they arrive, feeds them to classifiers and puts them *)
(* back into the putback.Conn (putback/conn.go), from which the next       *)
(* reader takes them.                                                      *)
(***************************************************************************)
EXTENDS Classifiers, FiniteSets

CONSTANTS
    Streams,           \* what the peer may send before it ends: sequences of bytes
    Lists,             \* the lists of classifiers to sniff with
    BufferSizes, MaxSniffs

NoMatch == 0

VARIABLES
    sent, stream,      \* what the peer sent; what the connection still holds
    extra, deferred,   \* conn.extra; conn.deferredErr is set
    list, cls, size,   \* the classifiers given, and fed; the buffer's length
    buf, phase,        \* what Sniff has read; "idle", "sniff", "done"
    index, err,        \* the result of Sniff
    seen,              \* how many bytes it had when reading was cut short, else size
    sniffs, got        \* how many Sniffs; what a reader took afterwards

vars == <<sent, stream, extra, deferred, list, cls, size, buf, phase, index, err, seen, sniffs,
          got>>

----------------------------------------------------------------------------
(* Sniff over a putback.Conn. *)

Init ==
    /\ sent \in Streams /\ stream = sent
    /\ list \in Lists /\ cls = list /\ size \in BufferSizes
    /\ extra = <<>> /\ deferred = FALSE
    /\ buf = <<>> /\ phase = "idle" /\ index = NoMatch /\ err = FALSE /\ seen = size
    /\ sniffs = 0 /\ got = <<>>

States(cs, state) == {i \in DOMAIN cs : cs[i].state = state}
Lowest(S) == CHOOSE i \in S : \A j \in S : i <= j

\* PutBack, deferred by Sniff until it returns.
Return(b, i, e) ==
    /\ phase' = "done" /\ index' = i /\ err' = e
    /\ extra' = b \o extra
    /\ buf' = <<>>

\* Sniff up to the loop: Feed(nil) to the classifiers, in order.
Begin ==
    /\ phase # "sniff" /\ sniffs < MaxSniffs /\ got = <<>>
    /\ sniffs' = sniffs + 1 /\ seen' = size
    /\ cls' = [i \in DOMAIN list |-> Feed(list[i], <<>>)]
    /\ IF States(cls', "match") # {}
       THEN Return(<<>>, Lowest(States(cls', "match")), FALSE)
       ELSE IF States(cls', "more") = {} \/ size = 0
       THEN Return(<<>>, NoMatch, FALSE)
       ELSE phase' = "sniff" /\ UNCHANGED <<extra, buf, index, err>>
    /\ UNCHANGED <<sent, stream, deferred, list, size, got>>

\* Mutant: a piece is fed at once, not byte by byte.
FeedWhole(cs, p) ==
    LET fed == [i \in DOMAIN cs |-> Feed(cs[i], p)]
    IN  [cs |-> fed, over |-> States(fed, "match") # {} \/ States(fed, "more") = {}]

\* The loop over a piece: byte by byte, until one matches or none is left.
FeedBytes(cs, p) ==
    LET at[i \in 0..Len(p)] ==
            IF i = 0 THEN [cs |-> cs, over |-> FALSE]
            ELSE IF at[i - 1].over THEN at[i - 1]
            ELSE LET fed == [j \in DOMAIN cs |-> Feed(at[i - 1].cs[j], <<p[i]>>)]
                 IN  [cs |-> fed, over |-> States(fed, "match") # {} \/ States(fed, "more") = {}]
    IN  at[Len(p)]

Smaller(m, n) == IF m < n THEN m ELSE n

\* conn.Read: what was put back first, then a deferred error, then the
\* connection, which may hand out an error with any bytes. Sniff feeds it.
Read(n) ==
    LET again == extra # <<>>
        from == IF again THEN extra ELSE stream
        p == SubSeq(from, 1, n)
        rest == SubSeq(from, n + 1, Len(from))
        fed == FeedBytes(cls, p)
        matched == States(fed.cs, "match")
    IN  /\ phase = "sniff" /\ n \in 1..Smaller(Len(from), size - Len(buf))
        /\ again => n = Smaller(Len(extra), size - Len(buf))
        /\ again \/ ~deferred
        /\ stream' = IF again THEN stream ELSE rest
        /\ deferred' \in IF again THEN {deferred} ELSE BOOLEAN
        /\ cls' = fed.cs
        /\ IF fed.over \/ Len(buf) + n = size
           THEN /\ phase' = "done" /\ err' = FALSE /\ buf' = <<>>
                /\ index' = IF matched # {} THEN Lowest(matched) ELSE NoMatch
                /\ extra' = buf \o p \o (IF again THEN rest ELSE <<>>)
           ELSE /\ buf' = buf \o p
                /\ extra' = IF again THEN rest ELSE <<>>
                /\ UNCHANGED <<phase, index, err>>
        /\ UNCHANGED <<sent, list, size, seen, sniffs, got>>

\* Nothing is put back, and the deferred error is due, or the connection ends or
\* fails: a deadline that passes leaves bytes to come.
ReadFails ==
    /\ phase = "sniff" /\ extra = <<>>
    /\ deferred' = FALSE
    /\ seen' = Len(buf)
    /\ Return(buf, NoMatch, TRUE)
    /\ UNCHANGED <<sent, stream, list, cls, size, sniffs, got>>

\* The connection returns (0, nil).
ReadNothing ==
    /\ phase = "sniff" /\ extra = <<>> /\ ~deferred
    /\ seen' = Len(buf)
    /\ Return(buf, NoMatch, FALSE)
    /\ UNCHANGED <<sent, stream, deferred, list, cls, size, sniffs, got>>

\* The next reader takes everything up to the deferred error, and after that the
\* rest (conn.Read until it fails, or WriteTo).
Drain ==
    /\ phase = "done"
    /\ got' = got \o extra \o (IF deferred THEN <<>> ELSE stream)
    /\ stream' = IF deferred THEN stream ELSE <<>>
    /\ extra' = <<>> /\ deferred' = FALSE
    /\ UNCHANGED <<sent, list, cls, size, buf, phase, index, err, seen, sniffs>>

Next ==
    \/ Begin \/ ReadFails \/ ReadNothing \/ Drain
    \/ \E n \in 1..size : Read(n)

Spec == Init /\ [][Next]_vars

----------------------------------------------------------------------------
\* The lowest classifier that matches at the first of m bytes where one does.
Expected(m) ==
    LET n == Smaller(Len(sent), m)
        matches(i) == {j \in DOMAIN list : Verdict(list[j], SubSeq(sent, 1, i)) = "match"}
        first == {i \in 0..n : matches(i) # {}}
    IN  IF first = {} THEN NoMatch ELSE Lowest(matches(Lowest(first)))

(* "This makes selection independent of net.Conn Read chunking": Sniff's   *)
(* result is that of the bytes the peer sent, as many as the buffer holds, *)
(* however they were cut, and also when an earlier Sniff put them back.    *)
(* Only an error or a Read without progress takes bytes out of the         *)
(* decision, those that Sniff had not read by then.                        *)
ChunkingInvisible == phase = "done" => index = Expected(seen)

(* "Every byte read by Sniff is put back before Sniff returns, including on*)
(* no match and read-error paths": the bytes Sniff has in hand, those put  *)
(* back and those still to come are what was sent, in order, and so is what*)
(* later readers get.                                                      *)
NothingLost == got \o buf \o extra \o stream = sent

(* A buffer of MinSniffBufferSize bytes is enough for every classifier to  *)
(* decide, unless reading is cut short.                                    *)
MinSizeEnough ==
    phase = "done" /\ seen = size =>
        \A i \in DOMAIN list :
            size >= MinSniffBufferSize(list[i]) /\ index = NoMatch => cls[i].state # "more"
=============================================================================

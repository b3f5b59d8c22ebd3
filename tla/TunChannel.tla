----------------------------- MODULE TunChannel -----------------------------
(* One direction of a tun Pipe (tun/chan.go, tun/pipe.go): Write offers    *)
(* what is left of its batch on one unbuffered channel, the Read that      *)
(* takes it copies what its buffers hold, and tells how much that was on a *)
(* second unbuffered channel, until the batch is written. A packet is its  *)
(* number in the batch of its writer.                                      *)
EXTENDS Naturals, Sequences, FiniteSets, SequencesExt

CONSTANTS
    Writers, Readers,
    Batch,              \* the length of a batch
    MaxReads            \* bound on the calls of Read

VARIABLES
    closed,             \* closeCh is closed
    wpc, written,       \* writer -> its step, and what it counts as written
    rpc, room, n,       \* reader -> its step, its buffers, the n it tells
    reads, got          \* history: the calls of Read; who sent what was read

vars == <<closed, wpc, written, rpc, room, n, reads, got>>

Init ==
    /\ closed = FALSE
    /\ wpc = [w \in Writers |-> "idle"] /\ written = [w \in Writers |-> 0]
    /\ rpc = [r \in Readers |-> "idle"] /\ room = [r \in Readers |-> 0]
    /\ n = [r \in Readers |-> 0]
    /\ reads = 0 /\ got = <<>>

----------------------------------------------------------------------------
BeginWrite(w) ==
    /\ wpc[w] = "idle"
    /\ wpc' = [wpc EXCEPT ![w] = "offer"]
    /\ UNCHANGED <<closed, written, rpc, room, n, reads, got>>

BeginRead(r, k) ==
    /\ rpc[r] = "idle" /\ reads < MaxReads
    /\ reads' = reads + 1
    /\ rpc' = [rpc EXCEPT ![r] = "take"]
    /\ room' = [room EXCEPT ![r] = k]
    /\ UNCHANGED <<closed, wpc, written, n, got>>

\* What is copied of the rest of a batch: a packet that is too long for its
\* buffer ends it early.
Copied(rest, k) == 0 .. (IF rest < k THEN rest ELSE k)

\* The batch changes hands on pkgs.
Take(w, r) ==
    /\ wpc[w] = "offer" /\ rpc[r] = "take"
    /\ \E c \in Copied(Batch - written[w], room[r]) :
          /\ n' = [n EXCEPT ![r] = c]
          /\ got' = got \o [i \in 1..c |-> <<w, written[w] + i>>]
    /\ wpc' = [wpc EXCEPT ![w] = "wait"]
    /\ rpc' = [rpc EXCEPT ![r] = "tell"]
    /\ UNCHANGED <<closed, written, room, reads>>

\* Some reader tells some writer on feedback.
Feedback(w, r) ==
    /\ wpc[w] = "wait" /\ rpc[r] = "tell"
    /\ written' = [written EXCEPT ![w] = @ + n[r]]
    /\ wpc' = [wpc EXCEPT ![w] = IF written[w] + n[r] >= Batch THEN "done" ELSE "offer"]
    /\ rpc' = [rpc EXCEPT ![r] = "idle"]
    /\ n' = [n EXCEPT ![r] = 0]
    /\ UNCHANGED <<closed, room, reads, got>>

\* Close of either Tun of the pipe.
Close ==
    /\ ~closed
    /\ closed' = TRUE
    /\ UNCHANGED <<wpc, written, rpc, room, n, reads, got>>

\* The closeCh of each select; what was copied stays with the reader.
WriteClosed(w) ==
    /\ closed /\ wpc[w] \in {"offer", "wait"}
    /\ wpc' = [wpc EXCEPT ![w] = "failed"]
    /\ UNCHANGED <<closed, written, rpc, room, n, reads, got>>

ReadClosed(r) ==
    /\ closed /\ rpc[r] \in {"take", "tell"}
    /\ rpc' = [rpc EXCEPT ![r] = "failed"]
    /\ UNCHANGED <<closed, wpc, written, room, n, reads, got>>

----------------------------------------------------------------------------
Next ==
    \/ \E w \in Writers : BeginWrite(w) \/ WriteClosed(w)
    \/ \E r \in Readers : ReadClosed(r) \/ \E k \in 0..Batch : BeginRead(r, k)
    \/ \E w \in Writers, r \in Readers : Take(w, r) \/ Feedback(w, r)
    \/ Close

Spec == Init /\ [][Next]_vars

----------------------------------------------------------------------------
(* Channel.Read and Channel.Write, with one reader or one writer: what is  *)
(* read of a batch is its beginning, each packet once and in order, and it *)
(* is what its Write counted, or counts next.                              *)
Own(w) == SelectSeq(got, LAMBDA p : p[1] = w)
ReadOnce ==
    \A w \in Writers :
        LET own == Own(w)
        IN  /\ \A i \in DOMAIN own : own[i][2] = i
            /\ wpc[w] \in {"idle", "offer", "done"} => Len(own) = written[w]
            /\ Len(own) >= written[w]
=============================================================================

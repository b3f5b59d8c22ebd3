---------------------------- MODULE FirewallTun ----------------------------
(***************************************************************************)
(* The batches of tun.Firewall.  Read takes a batch from the wrapped tun   *)
(* and moves the allowed packets to the front of the caller's buffers;     *)
(* Write passes the allowed packets of a batch on and translates the       *)
(* wrapped tun's count back to a count of the caller's batch.  The caller  *)
(* writes the rest of the batch again, as every tun user does.             *)
(*                                                                         *)
(* A packet is its index in the batch; whether the policy lets it pass is  *)
(* FirewallRules and FirewallResponses, here it is a Boolean per packet.   *)
(***************************************************************************)
EXTENDS Integers, Sequences, FiniteSets, SequencesExt

CONSTANTS
    MaxBatch,          \* bound on the length of a batch
    MaxCalls           \* bound on the calls of Write

VARIABLES
    passes,            \* per packet of the batch: does the policy let it pass
    roomy,             \* per buffer: can it hold any packet, or its own only
    bufs, kept, err,   \* Read: the buffers, the count and whether it failed
    from,              \* Write: the packets the caller regards as done with
    got,               \* Write: the packets the wrapped tun took, in order
    calls

vars == <<passes, roomy, bufs, kept, err, from, got, calls>>

\* The loop of filterOutgoingRead up to packet n.  A packet that stays where it
\* is needs no copy and no room.
filterOutgoingRead(pass, room, n) ==
    LET step(st, i) ==
            IF st.err \/ ~pass[i] THEN st
            ELSE IF st.kept + 1 # i /\ ~room[st.kept + 1]
                 THEN [st EXCEPT !.err = TRUE]
                 ELSE [st EXCEPT !.bufs[st.kept + 1] = i, !.kept = @ + 1]
    IN  FoldLeft(step, [bufs |-> [i \in 1..n |-> i], kept |-> 0, err |-> FALSE],
                 [i \in 1..n |-> i])

\* The positions Write passes on, in order (allowed, indexes).
AllowedIndexes(pass) == SetToSortSeq({i \in DOMAIN pass : pass[i]}, <)

\* Mutant: the count of the wrapped tun is passed on.
WriteResultRaw(pass, written) ==
    IF written >= Len(AllowedIndexes(pass)) THEN Len(pass) ELSE written

\* What Write returns when the wrapped tun reports written packets: with no
\* denied packet the count itself; else the position of the first packet not
\* taken, so that denied packets before it count as done with.
WriteResult(pass, written) ==
    LET indexes == AllowedIndexes(pass)
    IN  IF Len(indexes) = Len(pass) THEN written
        ELSE IF written >= Len(indexes) THEN Len(pass)
             ELSE indexes[written + 1] - 1

Init ==
    /\ \E n \in 1..MaxBatch : passes \in [1..n -> BOOLEAN] /\ roomy \in [1..n -> BOOLEAN]
    /\ bufs = <<>> /\ kept = 0 /\ err = FALSE
    /\ from = 0 /\ got = <<>> /\ calls = 0

\* Read of one batch; a batch without an allowed packet is read over.
Read ==
    LET result == filterOutgoingRead(passes, roomy, Len(passes))
    IN  /\ bufs = <<>>
        /\ result.kept # 0 \/ result.err
        /\ bufs' = result.bufs /\ kept' = result.kept /\ err' = result.err
        /\ UNCHANGED <<passes, roomy, from, got, calls>>

\* Write of what is left of the batch.  The wrapped tun takes any number of
\* packets, with or without an error; it is not called if none is allowed.
Write ==
    LET rest == SubSeq(passes, from + 1, Len(passes))
        indexes == AllowedIndexes(rest)
    IN  /\ from < Len(passes) /\ calls < MaxCalls
        /\ \E written \in 0..Len(indexes) :
            /\ got' = got \o [i \in 1..written |-> from + indexes[i]]
            /\ from' = from + WriteResult(rest, written)
        /\ calls' = calls + 1
        /\ UNCHANGED <<passes, roomy, bufs, kept, err>>

Next == Read \/ Write

Spec == Init /\ [][Next]_vars

\* Read hands out exactly the allowed packets, in order and without a gap; if it
\* fails for want of room, those before the packet that did not fit
\* (filterOutgoingRead).
ReadCompacts ==
    bufs # <<>> =>
        LET allowed == AllowedIndexes(passes)
        IN  /\ SubSeq(bufs, 1, kept) = SubSeq(allowed, 1, kept)
            /\ err \/ kept = Len(allowed)

\* A caller that writes the rest of the batch again has, whatever part of each
\* call the wrapped tun takes, every allowed packet before its position written
\* once and none after it, so that none is lost and none doubled (Write).
WriteResumes ==
    got = SelectSeq(AllowedIndexes(passes), LAMBDA i : i <= from)
=============================================================================

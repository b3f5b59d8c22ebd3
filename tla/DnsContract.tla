----------------------------- MODULE DnsContract -----------------------------
(***************************************************************************)
(* What every dns.Interface promises (dns/types.go), as the provider of    *)
(* dns/middleware.go keeps it: a loop accepts requests and starts a        *)
(* handler for each; a request that is accepted gets exactly one Response; *)
(* Close ends the loop, then waits for the handlers.  A loop that is told  *)
(* to end may still accept what a caller offers it.                        *)
(***************************************************************************)
EXTENDS Integers

CONSTANT Requests

VARIABLES phase, closed, loop, returned

vars == <<phase, closed, loop, returned>>

Init ==
    /\ phase = [r \in Requests |-> "offered"]
    /\ closed = FALSE /\ loop = TRUE /\ returned = FALSE

Accept(r) ==
    /\ loop /\ phase[r] = "offered"
    /\ phase' = [phase EXCEPT ![r] = "accepted"]
    /\ UNCHANGED <<closed, loop, returned>>

Reply(r) ==
    /\ phase[r] = "accepted"
    /\ phase' = [phase EXCEPT ![r] = "answered"]
    /\ UNCHANGED <<closed, loop, returned>>

\* A handler the spawner refuses: the loop answers at once.
Refuse(r) ==
    /\ loop /\ phase[r] = "offered"
    /\ phase' = [phase EXCEPT ![r] = "answered"]
    /\ UNCHANGED <<closed, loop, returned>>

Close ==
    /\ ~closed
    /\ closed' = TRUE
    /\ UNCHANGED <<phase, loop, returned>>

LoopEnds ==
    /\ closed /\ loop
    /\ loop' = FALSE
    /\ UNCHANGED <<phase, closed, returned>>

CloseReturns ==
    /\ closed /\ ~loop /\ ~returned /\ \A r \in Requests : phase[r] # "accepted"
    /\ returned' = TRUE
    /\ UNCHANGED <<phase, closed, loop>>

Next ==
    \/ \E r \in Requests : Accept(r) \/ Reply(r) \/ Refuse(r)
    \/ Close \/ LoopEnds \/ CloseReturns

Spec == Init /\ [][Next]_vars
=============================================================================

----------------------------- MODULE DnsProvider -----------------------------
(***************************************************************************)
(* The provider every DNS component is built on (dns/middleware.go), and   *)
(* Query, which calls it (dns/types.go): a loop accepts requests and       *)
(* starts a handler for each until Close cancels the root context, ends    *)
(* the loop and waits for the handlers.  The modules that extend this one  *)
(* add the handlers' steps.                                                *)
(***************************************************************************)
EXTENDS Integers, Sequences

CONSTANT Requests

VARIABLES
    closed,            \* the root context is cancelled
    loop, returned,    \* the loop runs; provider.Close has returned
    pc,                \* request -> "offered", its handler's step, or "answered"
    cancelled,         \* the requests whose own context is cancelled
    last               \* request -> what it was answered, or its last outcome

providerVars == <<closed, loop, returned, pc, cancelled, last>>

ProviderInit ==
    /\ closed = FALSE /\ loop = TRUE /\ returned = FALSE
    /\ pc = [r \in Requests |-> "offered"]
    /\ cancelled = {}
    /\ last = [r \in Requests |-> "none"]

Working(r) == pc[r] \notin {"offered", "answered"}

\* The loop takes a request, also when it is told to end; the spawner starts
\* its handler, or refuses to and the loop answers.
Accept(r, first) ==
    /\ loop /\ pc[r] = "offered"
    /\ \/ pc' = [pc EXCEPT ![r] = first] /\ UNCHANGED last
       \/ pc' = [pc EXCEPT ![r] = "answered"] /\ last' = [last EXCEPT ![r] = "refused"]
    /\ UNCHANGED <<closed, loop, returned, cancelled>>

\* sendResponse at the end of a handler.
Answer(r, outcome) ==
    /\ pc' = [pc EXCEPT ![r] = "answered"]
    /\ last' = [last EXCEPT ![r] = outcome]

\* The caller gives up.
Cancel(r) ==
    /\ r \notin cancelled
    /\ cancelled' = cancelled \cup {r}
    /\ UNCHANGED <<closed, loop, returned, pc, last>>

CancelRoot ==
    /\ ~closed /\ closed' = TRUE
    /\ UNCHANGED <<loop, returned, pc, cancelled, last>>

LoopEnds ==
    /\ closed /\ loop /\ loop' = FALSE
    /\ UNCHANGED <<closed, returned, pc, cancelled, last>>

\* Mutant: Close does not wait for the handlers.
CloseReturnsAtOnce ==
    /\ closed /\ ~loop /\ ~returned
    /\ returned' = TRUE
    /\ UNCHANGED <<closed, loop, pc, cancelled, last>>

CloseReturns ==
    /\ closed /\ ~loop /\ ~returned /\ \A r \in Requests : ~Working(r)
    /\ returned' = TRUE
    /\ UNCHANGED <<closed, loop, pc, cancelled, last>>

\* The contexts a handler derives end with the request's and with the root.
Ended(r) == closed \/ r \in cancelled

----------------------------------------------------------------------------
(* Close cancels what is in flight and comes back.                         *)
CloseEnds == closed ~> returned
=============================================================================

------------------------------ MODULE DnsRouter ------------------------------
(***************************************************************************)
(* dns.Router (dns/router.go): a route function names the backend of each  *)
(* request.  The function is called without the lock, between two looks at *)
(* the Router; backends and the function change meanwhile, and each change *)
(* replaces the channel done.                                              *)
(***************************************************************************)
EXTENDS DnsProvider

CONSTANTS
    Backends, Names,
    Nobody,            \* no backend, no route function, no name
    MaxChanges         \* bound on the changes

VARIABLES
    backends, route,   \* name -> backend; the name route returns, or Nobody
    done, rclosed,     \* how often done was replaced; Router.closed
    seen, using,       \* request -> the route function and done it found; its backend
    config             \* history: request -> the backends when it found them

own == <<backends, route, done, rclosed>>
handlers == <<seen, using, config>>
vars == <<providerVars, own, handlers>>

NoBackends == [n \in Names |-> Nobody]

Init ==
    /\ ProviderInit
    /\ backends = NoBackends /\ route = Nobody /\ done = 0 /\ rclosed = FALSE
    /\ seen = [r \in Requests |-> [route |-> Nobody, done |-> 0]]
    /\ using = [r \in Requests |-> Nobody]
    /\ config = [r \in Requests |-> NoBackends]

\* Attach, Detach, AttachRouter, DetachRouter: cancelLocked and the change.
Change(b, n) ==
    /\ ~rclosed /\ done < MaxChanges
    /\ done' = done + 1
    /\ backends' = b /\ route' = n
    /\ UNCHANGED <<providerVars, rclosed, handlers>>

Close ==
    /\ ~rclosed /\ rclosed' = TRUE
    /\ UNCHANGED <<providerVars, backends, route, done, handlers>>

state == <<own, closed, loop, returned, cancelled>>

\* current up to its first unlock.
Look(r) ==
    /\ pc[r] = "look"
    /\ IF rclosed \/ route = Nobody
       THEN Answer(r, "no upstream") /\ UNCHANGED <<seen, config>>
       ELSE /\ seen' = [seen EXCEPT ![r] = [route |-> route, done |-> done]]
            /\ config' = [config EXCEPT ![r] = backends]
            /\ pc' = [pc EXCEPT ![r] = "route"]
            /\ UNCHANGED last
    /\ UNCHANGED <<state, using>>

\* The Router has changed since the first look.
Changed(r) == seen[r].done # done

\* The rest of current, after the route function.
Resolve(r) ==
    LET b == backends[seen[r].route]
        changed == IF Changed(r) THEN "cancelled" ELSE "no upstream"
    IN  /\ pc[r] = "route"
        /\ IF Changed(r) \/ b = Nobody
           THEN Answer(r, changed) /\ UNCHANGED using
           ELSE /\ using' = [using EXCEPT ![r] = b]
                /\ pc' = [pc EXCEPT ![r] = "query"]
                /\ UNCHANGED last
        /\ UNCHANGED <<state, seen, config>>

Answered(r) ==
    /\ pc[r] = "query"
    /\ Answer(r, "answer")
    /\ UNCHANGED <<state, handlers>>

Interrupted(r) ==
    /\ pc[r] = "query" /\ (Ended(r) \/ rclosed \/ Changed(r))
    /\ Answer(r, "cancelled")
    /\ UNCHANGED <<state, handlers>>

Handler(r) == Look(r) \/ Resolve(r) \/ Interrupted(r)

Next ==
    \/ \E n \in Names, b \in Backends \cup {Nobody} : Change([backends EXCEPT ![n] = b], route)
    \/ \E n \in Names \cup {Nobody} : Change(backends, n)
    \/ Close
    \/ (LoopEnds \/ CloseReturns \/ (rclosed /\ CancelRoot)) /\ UNCHANGED <<own, handlers>>
    \/ \E r \in Requests :
          \/ (Cancel(r) \/ Accept(r, "look")) /\ UNCHANGED <<own, handlers>>
          \/ Handler(r) \/ Answered(r)

Spec == Init /\ [][Next]_vars

(* Handlers and Close go on; backends need not answer.                     *)
Goroutines == Requests \cup {"provider"}

Goroutine(g) ==
    \/ g \in Requests /\ Handler(g)
    \/ g = "provider" /\ (LoopEnds \/ CloseReturns) /\ UNCHANGED <<own, handlers>>

Fairness == \A g \in Goroutines : WF_vars(Goroutine(g))

----------------------------------------------------------------------------
(* A request goes to the backend that the route function's name had when   *)
(* the function was chosen: never to one of a later configuration, for     *)
(* which the name may mean something else.                                 *)
RoutedConsistently ==
    \A r \in Requests : using[r] # Nobody => using[r] = config[r][seen[r].route]

(* A change of the Router cancels the requests in flight.                  *)
OutOfDate(r) == pc[r] = "query" /\ Changed(r)
ChangeCancels == \A r \in Requests : OutOfDate(r) ~> pc[r] = "answered"
=============================================================================

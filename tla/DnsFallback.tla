----------------------------- MODULE DnsFallback -----------------------------
(***************************************************************************)
(* dns.Fallback (dns/fallback.go): a request tries the upstreams attached  *)
(* to numbered slots in order, while slots change.  An attempt ends with   *)
(* an answer, or because its slot was changed, its time was up, the        *)
(* request was cancelled or the Fallback closed.                           *)
(***************************************************************************)
EXTENDS DnsProvider

CONSTANTS
    Upstreams, Slots,  \* Slots is 1..FallbackSlots
    Nobody,            \* no upstream
    MaxChanges         \* bound on Attach and Detach

VARIABLES
    slots, changed,    \* slot -> upstream, and how often its channel was replaced
    fclosed, changes,  \* Fallback.closed; the number of changes
    slot, using,       \* request -> its slot, and the channel of its attempt
    tried, stable      \* history: slots tried; slots not changed since it was accepted

own == <<slots, changed, fclosed, changes>>
handlers == <<slot, using, tried, stable>>
vars == <<providerVars, own, handlers>>

Init ==
    /\ ProviderInit
    /\ slots = [s \in Slots |-> Nobody] /\ changed = [s \in Slots |-> 0]
    /\ fclosed = FALSE /\ changes = 0
    /\ slot = [r \in Requests |-> 1] /\ using = [r \in Requests |-> 0]
    /\ tried = [r \in Requests |-> <<>>] /\ stable = [r \in Requests |-> Slots]

\* Attach, or Detach when u is Nobody.
Attach(s, u) ==
    /\ ~fclosed /\ changes < MaxChanges
    /\ changes' = changes + 1
    /\ slots' = [slots EXCEPT ![s] = u]
    /\ changed' = [changed EXCEPT ![s] = @ + 1]
    /\ stable' = [r \in Requests |-> IF pc[r] = "offered" THEN stable[r] ELSE stable[r] \ {s}]
    /\ UNCHANGED <<providerVars, fclosed, slot, using, tried>>

\* Close up to the unlock; CancelRoot follows.
Close ==
    /\ ~fclosed /\ fclosed' = TRUE
    /\ UNCHANGED <<providerVars, slots, changed, changes, handlers>>

----------------------------------------------------------------------------
(* handle. *)

state == <<own, stable, closed, loop, returned, cancelled>>

\* current; an empty slot is skipped.  After the last slot the request is answered
\* with the outcome of the last attempt, or ErrNoUpstream if there was none.
Look(r) ==
    LET s == slot[r]
    IN  /\ pc[r] = "look"
        /\ \/ s \in Slots /\ fclosed /\ Answer(r, "closed") /\ UNCHANGED <<slot, using, tried>>
           \/ /\ s \notin Slots
              /\ Answer(r, IF tried[r] = <<>> THEN "no upstream" ELSE last[r])
              /\ UNCHANGED <<slot, using, tried>>
           \/ /\ ~fclosed /\ s \in Slots /\ slots[s] = Nobody
              /\ slot' = [slot EXCEPT ![r] = @ + 1]
              /\ UNCHANGED <<pc, last, using, tried>>
           \/ /\ ~fclosed /\ s \in Slots /\ slots[s] # Nobody
              /\ using' = [using EXCEPT ![r] = changed[s]]
              /\ tried' = [tried EXCEPT ![r] = Append(@, s)]
              /\ pc' = [pc EXCEPT ![r] = "query"]
              /\ UNCHANGED <<slot, last>>
        /\ UNCHANGED state

\* Mutant: an attempt that was cut short is the last.
ThenStop(r, outcome) ==
    /\ IF outcome # "failure"
       THEN Answer(r, outcome) /\ UNCHANGED slot
       ELSE /\ pc' = [pc EXCEPT ![r] = "look"] /\ slot' = [slot EXCEPT ![r] = @ + 1]
            /\ last' = [last EXCEPT ![r] = outcome]
    /\ UNCHANGED <<state, using, tried>>

\* What follows an attempt: a success is the answer, and so is the error of a
\* context that has ended.
Then(r, outcome) ==
    /\ IF outcome = "success" \/ Ended(r)
       THEN Answer(r, IF outcome = "success" THEN outcome ELSE "interrupted") /\ UNCHANGED slot
       ELSE /\ pc' = [pc EXCEPT ![r] = "look"] /\ slot' = [slot EXCEPT ![r] = @ + 1]
            /\ last' = [last EXCEPT ![r] = outcome]
    /\ UNCHANGED <<state, using, tried>>

\* The upstream answers: NOERROR, or an error of either kind.
Answered(r, outcome) == pc[r] = "query" /\ Then(r, outcome)

\* fallbackAttemptContext ends the attempt: one of its contexts has ended, the
\* slot has changed, or its time is up.
Interrupted(r) ==
    /\ pc[r] = "query"
    /\ Ended(r) \/ fclosed \/ changed[slot[r]] # using[r]
    /\ Then(r, "interrupted")

TimedOut(r) == pc[r] = "query" /\ Then(r, "interrupted")

Handler(r) == Look(r) \/ Interrupted(r) \/ TimedOut(r)

Next ==
    \/ \E s \in Slots, u \in Upstreams \cup {Nobody} : Attach(s, u)
    \/ Close
    \/ (LoopEnds \/ CloseReturns \/ (fclosed /\ CancelRoot)) /\ UNCHANGED <<own, handlers>>
    \/ \E r \in Requests :
          \/ (Cancel(r) \/ Accept(r, "look")) /\ UNCHANGED <<own, handlers>>
          \/ Handler(r)
          \/ \E o \in {"success", "failure"} : Answered(r, o)

Spec == Init /\ [][Next]_vars

----------------------------------------------------------------------------
(* Slots are tried in order, each once, and the request is answered from   *)
(* the first that succeeds; one that fails everywhere has tried every slot *)
(* that held an upstream from start to end, unless it was cancelled or the *)
(* Fallback closed.                                                        *)
TriesInOrder ==
    \A r \in Requests :
        LET n == Len(tried[r])
            held(s) == s \in stable[r] /\ slots[s] # Nobody
            passed == {s \in Slots : last[r] # "success" \/ s < tried[r][n]}
        IN  /\ \A i \in 2..n : tried[r][i - 1] < tried[r][i]
            /\ pc[r] = "answered" /\ last[r] \notin {"closed", "refused"} /\ ~Ended(r) =>
                   \A s \in passed : held(s) => \E i \in 1..n : tried[r][i] = s
            /\ last[r] = "success" => pc[r] = "answered"
=============================================================================

----------------------------- MODULE Forwarder -----------------------------
(***************************************************************************)
(* tun.Forwarder (tun/forwarder.go): a goroutine reads one Tun, another    *)
(* writes what it read to a second; SetReadTun and SetWriteTun change the  *)
(* Tuns meanwhile.  A Tun is stored, and its predecessor closed, under the *)
(* lock; the new configuration is sent to the goroutine after it.          *)
(***************************************************************************)
EXTENDS Integers, Sequences, FiniteSets

CONSTANTS
    Tuns, Setters,     \* goroutines that call SetReadTun and SetWriteTun
    Nobody,            \* a nil Tun
    SendCap, CfgCap,   \* capacities of sendCh and of the configuration channels
    MaxSets            \* bound on the calls of SetReadTun and SetWriteTun

Sides == {"read", "write"}

VARIABLES
    current,           \* side -> tunRead, tunWrite
    chCfg, cfgClosed,  \* side -> chCfgRead, chCfgWrite; both are closed
    sending,           \* setter -> the side and Tun it is about to send, or Nobody
    tun, pc,           \* the goroutines: their Tun, whether they run
    holding,           \* the reader has packets for sendCh
    sendCh,            \* number of packages in sendCh
    closed,            \* the Tuns that are closed
    sets, stopping     \* Stop: "no", "closed" (the Tuns are), "waiting", "done"

vars == <<current, chCfg, cfgClosed, sending, tun, pc, holding, sendCh, closed, sets, stopping>>

Init ==
    /\ current = [s \in Sides |-> Nobody]
    /\ chCfg = [s \in Sides |-> <<>>] /\ cfgClosed = FALSE
    /\ sending = [x \in Setters |-> Nobody]
    /\ tun = [s \in Sides |-> Nobody] /\ pc = [s \in Sides |-> "run"]
    /\ holding = FALSE /\ sendCh = 0
    /\ closed = {} /\ sets = 0 /\ stopping = "no"

\* SetReadTun, SetWriteTun up to the unlock. Stop keeps the lock to its end.
Set(x, s, t) ==
    /\ stopping = "no" /\ sending[x] = Nobody /\ sets < MaxSets
    /\ sets' = sets + 1
    /\ closed' = closed \cup ({current[s]} \ {Nobody})
    /\ current' = [current EXCEPT ![s] = t]
    /\ sending' = [sending EXCEPT ![x] = [side |-> s, tun |-> t]]
    /\ UNCHANGED <<chCfg, cfgClosed, tun, pc, holding, sendCh, stopping>>

Send(x) ==
    /\ sending[x] # Nobody
    /\ LET s == sending[x].side
       IN  Len(chCfg[s]) < CfgCap /\ chCfg' = [chCfg EXCEPT ![s] = Append(@, sending[x].tun)]
    /\ sending' = [sending EXCEPT ![x] = Nobody]
    /\ UNCHANGED <<current, cfgClosed, tun, pc, holding, sendCh, closed, sets, stopping>>

StopBegins ==
    /\ stopping = "no"
    /\ closed' = closed \cup ({current[s] : s \in Sides} \ {Nobody})
    /\ stopping' = "closed"
    /\ UNCHANGED <<current, chCfg, cfgClosed, sending, tun, pc, holding, sendCh, sets>>

\* cfgSendWg.Wait, and the channels are closed.
StopWaits ==
    /\ stopping = "closed" /\ \A x \in Setters : sending[x] = Nobody
    /\ cfgClosed' = TRUE
    /\ stopping' = "waiting"
    /\ UNCHANGED <<current, chCfg, sending, tun, pc, holding, sendCh, closed, sets>>

\* wg.Wait, and what is left in the channels is dropped.
StopDrains ==
    /\ stopping = "waiting" /\ \A s \in Sides : pc[s] = "ended"
    /\ chCfg' = [s \in Sides |-> <<>>] /\ sendCh' = 0
    /\ stopping' = "done"
    /\ UNCHANGED <<current, cfgClosed, sending, tun, pc, holding, closed, sets>>

----------------------------------------------------------------------------
(* frwReader and frwWriter. *)

\* A configuration arrives, or its channel is closed; the Tun in use is closed,
\* unless the writer is given the same one. An active reader only looks
\* between a Read and the package's place in sendCh.
Configure(s) ==
    /\ pc[s] = "run"
    /\ tun[s] = Nobody \/ s = "write" \/ holding
    /\ holding' = IF s = "read" THEN FALSE ELSE holding
    /\ IF chCfg[s] # <<>>
       THEN /\ chCfg' = [chCfg EXCEPT ![s] = Tail(@)]
            /\ tun' = [tun EXCEPT ![s] = Head(chCfg[s])]
            /\ closed' = closed \cup (IF s = "write" /\ tun[s] = Head(chCfg[s]) THEN {}
                                      ELSE {tun[s]} \ {Nobody})
            /\ UNCHANGED pc
       ELSE /\ cfgClosed
            /\ pc' = [pc EXCEPT ![s] = "ended"]
            /\ UNCHANGED <<chCfg, tun, closed>>
    /\ UNCHANGED <<current, cfgClosed, sending, sendCh, sets, stopping>>

running == <<current, chCfg, cfgClosed, sending, pc, sets, stopping>>

Reads ==
    /\ pc["read"] = "run" /\ tun["read"] # Nobody /\ ~holding /\ tun["read"] \notin closed
    /\ holding' = TRUE
    /\ UNCHANGED <<running, tun, sendCh, closed>>

ReadFails ==
    /\ pc["read"] = "run" /\ ~holding /\ tun["read"] \in closed
    /\ tun' = [tun EXCEPT !["read"] = Nobody]
    /\ UNCHANGED <<running, holding, sendCh, closed>>

Sends ==
    /\ holding /\ sendCh < SendCap
    /\ holding' = FALSE /\ sendCh' = sendCh + 1
    /\ UNCHANGED <<running, tun, closed>>

\* A Tun that fails is closed and put aside.
Writes ==
    /\ pc["write"] = "run" /\ tun["write"] # Nobody /\ sendCh > 0
    /\ sendCh' = sendCh - 1
    /\ tun' = IF tun["write"] \in closed THEN [tun EXCEPT !["write"] = Nobody] ELSE tun
    /\ UNCHANGED <<running, holding, closed>>

\* A Tun ends by itself.
TunEnds(t) ==
    /\ t \in {tun[s] : s \in Sides} \ closed
    /\ closed' = closed \cup {t}
    /\ UNCHANGED <<running, tun, holding, sendCh>>

Reader == Configure("read") \/ ReadFails \/ Sends
Writer == Configure("write") \/ Writes
Stop == StopBegins \/ StopWaits \/ StopDrains

Next ==
    \/ \E x \in Setters : Send(x) \/ \E s \in Sides, t \in Tuns \cup {Nobody} : Set(x, s, t)
    \/ Stop
    \/ Reader \/ Reads \/ Writer
    \/ \E t \in Tuns : TunEnds(t)

Spec == Init /\ [][Next]_vars

(* Goroutines go on; packets need not come.                                *)
Goroutines == Setters \cup {"reader", "writer", "stop"}

Goroutine(g) ==
    \/ g \in Setters /\ Send(g)
    \/ g = "reader" /\ Reader
    \/ g = "writer" /\ Writer
    \/ g = "stop" /\ (StopWaits \/ StopDrains)

Fairness == \A g \in Goroutines : WF_vars(Goroutine(g))

----------------------------------------------------------------------------
(* Stop returns although it holds the lock while it waits for setters that *)
(* wait for room in a channel, and for goroutines that may be blocked on a *)
(* Tun or on each other; then every Tun it was given is closed and the     *)
(* goroutines are gone.                                                    *)
Stopped ==
    /\ stopping = "done"
    /\ \A s \in Sides : pc[s] = "ended" /\ ({current[s], tun[s]} \ {Nobody}) \subseteq closed
StopReturns == stopping # "no" ~> Stopped
=============================================================================

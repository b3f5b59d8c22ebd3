-------------------------- MODULE NetworkContract --------------------------
(***************************************************************************)
(* What a stoppable network promises about the connections and listeners   *)
(* it hands out (the UpDown and CloserSubscriber contracts of updown.go    *)
(* and close.go): an object is handed out only while the network is up,    *)
(* and a Down or a Close seals the fate of every object that is out, in    *)
(* one step, although closing them takes time.                             *)
(***************************************************************************)
CONSTANT Objects

VARIABLES state,  \* "up", "down" or "closed"
          out,    \* objects in their users' hands
          dying,  \* objects that somebody is bound to close
          dead    \* closed objects

vars == <<state, out, dying, dead>>

Init == state = "up" /\ out = {} /\ dying = {} /\ dead = {}

(* Dial, Listen or Accept returns o. *)
Return(o) ==
    /\ state = "up"
    /\ o \notin out \cup dying \cup dead
    /\ out' = out \cup {o}
    /\ UNCHANGED <<state, dying, dead>>

(* The user calls o.Close(). *)
Release(o) ==
    /\ o \in out
    /\ out' = out \ {o}
    /\ dying' = dying \cup {o}
    /\ UNCHANGED <<state, dead>>

(* A dying object is closed. *)
Die(o) ==
    /\ o \in dying
    /\ dying' = dying \ {o}
    /\ dead' = dead \cup {o}
    /\ UNCHANGED <<state, out>>

Stop(s) ==
    /\ state' = s
    /\ dying' = dying \cup out
    /\ out' = {}
    /\ UNCHANGED dead

Up == state = "down" /\ state' = "up" /\ UNCHANGED <<out, dying, dead>>

Down == state = "up" /\ Stop("down")

Close == state # "closed" /\ Stop("closed")

Next ==
    \/ \E o \in Objects : Return(o) \/ Release(o) \/ Die(o)
    \/ Up \/ Down \/ Close

Spec == Init /\ [][Next]_vars
============================================================================

--------------------------- MODULE LoopbackPorts ---------------------------
(***************************************************************************)
(* loopbackPortAllocator (loopback_helpers.go): the ports of one loopback  *)
(* registry.  The registry holds its lock during a call, so calls do not   *)
(* overlap; the search loop of alloc is modelled probe by probe because    *)
(* nothing but the count of allocated ports says that it ends.             *)
(***************************************************************************)
EXTENDS Integers, FiniteSetTheorems, TLAPS

CONSTANTS First,  \* first ephemeral port, 49152 in the code
          Last    \* last port and largest uint16, 65535 in the code

ASSUME PortAssumption == First \in Nat /\ Last \in Nat /\ 0 < First /\ First + 1 < Last

VARIABLES next,       \* pa.next
          allocated,  \* pa.allocated
          inUse,      \* pa.inUse
          probing,    \* alloc is in its search loop
          answer      \* what the last call returned: a port, 0 for an error

vars == <<next, allocated, inUse, probing, answer>>

Ports == 1 .. Last
Ephemeral == First .. Last

(* alloc refuses when this many ephemeral ports are allocated. *)
MaxAllocated == Last - First - 1

(* uint16 addition. *)
Inc(n) == (n + 1) % (Last + 1)

Init ==
    /\ next = 0
    /\ allocated = 0
    /\ inUse = {}
    /\ probing = FALSE
    /\ answer = 0

(* Mutant: an explicitly requested ephemeral port is not counted. *)
ReserveUncounted(p) ==
    /\ ~probing
    /\ IF p \in inUse
       THEN answer' = 0 /\ UNCHANGED <<inUse, allocated>>
       ELSE /\ inUse' = inUse \cup {p}
            /\ answer' = p
            /\ UNCHANGED allocated
    /\ UNCHANGED <<next, probing>>

(* alloc(&p), that is reserve(p). *)
Reserve(p) ==
    /\ ~probing
    /\ IF p \in inUse
       THEN answer' = 0 /\ UNCHANGED <<inUse, allocated>>
       ELSE /\ inUse' = inUse \cup {p}
            /\ allocated' = IF p >= First THEN allocated + 1 ELSE allocated
            /\ answer' = p
    /\ UNCHANGED <<next, probing>>

(* free(p); of a port that is not in use it does nothing. *)
Free(p) ==
    /\ ~probing
    /\ p \in inUse
    /\ allocated' = IF p >= First THEN allocated - 1 ELSE allocated
    /\ inUse' = inUse \ {p}
    /\ UNCHANGED <<next, probing, answer>>

(* alloc(nil) up to its loop. *)
Alloc ==
    /\ ~probing
    /\ IF allocated >= MaxAllocated
       THEN answer' = 0 /\ UNCHANGED <<next, probing>>
       ELSE /\ next' = IF next < First THEN First ELSE next
            /\ probing' = TRUE
            /\ UNCHANGED answer
    /\ UNCHANGED <<allocated, inUse>>

(* Mutant: the search runs past the last port into the reserved ones. *)
ProbeWraps ==
    /\ probing
    /\ IF next \notin inUse
       THEN /\ inUse' = inUse \cup {next}
            /\ allocated' = allocated + 1
            /\ answer' = next
            /\ next' = Inc(next)
            /\ probing' = FALSE
       ELSE /\ next' = Inc(next)
            /\ UNCHANGED <<allocated, inUse, probing, answer>>

(* One iteration of the loop. *)
Probe ==
    /\ probing
    /\ IF next \notin inUse
       THEN /\ inUse' = inUse \cup {next}
            /\ allocated' = allocated + 1
            /\ answer' = next
            /\ next' = Inc(next)
            /\ probing' = FALSE
       ELSE /\ next' = IF next < Last THEN next + 1 ELSE First
            /\ UNCHANGED <<allocated, inUse, probing, answer>>

Next == Alloc \/ Probe \/ \E p \in Ports : Reserve(p) \/ Free(p)

Spec == Init /\ [][Next]_vars

----------------------------------------------------------------------------
(* Type invariant; alloc's answer and its search position are ephemeral. *)
TypeOK ==
    /\ next \in 0 .. Last
    /\ allocated \in 0 .. Last - First + 1
    /\ inUse \subseteq Ports
    /\ probing \in BOOLEAN
    /\ answer \in 0 .. Last
    /\ probing => next \in Ephemeral

(* pa.allocated is the number of ephemeral ports in use, whatever mix of   *)
(* explicit reservations, allocations and releases came before, so the     *)
(* uint16 never wraps and isVoid tells the truth.                          *)
CountExact == allocated = Cardinality(inUse \cap Ephemeral)

(* alloc's loop has a port to find whenever it runs. *)
SearchSucceeds == probing => Ephemeral \ inUse # {}

(* alloc takes a port nobody holds, and from the ephemeral range only.     *)
TakesFreePort == [][probing /\ ~probing' => answer' \in Ephemeral \ inUse]_vars

----------------------------------------------------------------------------
(* The allocator is correct for every range of ephemeral ports, the one of *)
(* the code (49152 .. 65535) included.                                     *)

(* The inductive invariant: TypeOK needs the count, because only the count *)
(* bounds pa.allocated, and the search needs the limit that alloc tested.  *)
IInv == TypeOK /\ CountExact /\ (probing => allocated < MaxAllocated)

(* The ephemeral ports are finitely many. *)
LEMMA EphemeralFinite ==
    IsFiniteSet(Ephemeral) /\ Cardinality(Ephemeral) = Last - First + 1
  BY FS_Interval, PortAssumption DEF Ephemeral

(* A set of ephemeral ports is no larger than all of them. *)
LEMMA CountBound ==
    ASSUME NEW S
    PROVE  /\ IsFiniteSet(S \cap Ephemeral)
           /\ Cardinality(S \cap Ephemeral) \in 0 .. Last - First + 1
<1>1. S \cap Ephemeral \in SUBSET Ephemeral
  BY Zenon
<1> QED
  BY <1>1, EphemeralFinite, FS_Subset, FS_CardinalityType, PortAssumption

(* Taking a free port counts it if it is ephemeral. *)
LEMMA CountAdd ==
    ASSUME NEW S, NEW p \in Ports, p \notin S
    PROVE  Cardinality((S \cup {p}) \cap Ephemeral) =
             IF p >= First THEN Cardinality(S \cap Ephemeral) + 1 ELSE Cardinality(S \cap Ephemeral)
<1>1. CASE p >= First
  <2>1. (S \cup {p}) \cap Ephemeral = (S \cap Ephemeral) \cup {p} /\ p \notin S \cap Ephemeral
    BY <1>1, PortAssumption DEF Ports, Ephemeral
  <2> QED
    BY Zenon, <1>1, <2>1, CountBound, FS_AddElement
<1>2. CASE ~(p >= First)
  <2>1. (S \cup {p}) \cap Ephemeral = S \cap Ephemeral
    BY <1>2, PortAssumption DEF Ports, Ephemeral
  <2> QED
    BY Zenon, <1>2, <2>1
<1> QED
  BY Zenon, <1>1, <1>2

(* Releasing a port that is in use uncounts it. *)
LEMMA CountRemove ==
    ASSUME NEW S, NEW p \in Ports, p \in S
    PROVE  Cardinality((S \ {p}) \cap Ephemeral) =
             IF p >= First THEN Cardinality(S \cap Ephemeral) - 1 ELSE Cardinality(S \cap Ephemeral)
<1>1. CASE p >= First
  <2>1. (S \ {p}) \cap Ephemeral = (S \cap Ephemeral) \ {p} /\ p \in S \cap Ephemeral
    BY <1>1, PortAssumption DEF Ports, Ephemeral
  <2> QED
    BY Zenon, <1>1, <2>1, CountBound, FS_RemoveElement
<1>2. CASE ~(p >= First)
  <2>1. (S \ {p}) \cap Ephemeral = S \cap Ephemeral
    BY <1>2, PortAssumption DEF Ports, Ephemeral
  <2> QED
    BY Zenon, <1>2, <2>1
<1> QED
  BY Zenon, <1>1, <1>2

(* A new allocator satisfies the invariant. *)
LEMMA InitIInv == Init => IInv
<1> SUFFICES ASSUME Init PROVE IInv
  BY Zenon
<1>1. inUse \cap Ephemeral = {}
  BY Zenon DEF Init
<1>2. CountExact
  BY Zenon, <1>1, FS_EmptySet DEF Init, CountExact
<1>3. probing \in BOOLEAN /\ ~probing
  BY Zenon DEF Init
<1> QED
  BY <1>2, <1>3, PortAssumption DEF Init, IInv, TypeOK, Ports

(* Every call, and every probe of alloc's loop, keeps the invariant. *)
LEMMA NextIInv == IInv /\ [Next]_vars => IInv'
<1> SUFFICES ASSUME IInv, [Next]_vars PROVE IInv'
  BY Zenon
<1> USE PortAssumption DEF IInv, Ports, Ephemeral
<1>0. CountExact' => allocated' \in 0 .. Last - First + 1
  BY Zenon, CountBound DEF CountExact
<1>b. probing' \in BOOLEAN
  BY Zenon DEF Next, Alloc, Probe, Reserve, Free, vars, TypeOK
<1>1. ASSUME NEW p \in Ports, Reserve(p) PROVE IInv'
  <2>1. CountExact'
    BY <1>1, CountAdd DEF Reserve, CountExact
  <2>2. ~probing /\ ~probing'
    BY Zenon, <1>1 DEF Reserve
  <2>3. inUse' \subseteq Ports
    BY Zenon, <1>1 DEF Reserve, TypeOK
  <2>4. answer' \in 0 .. Last
    BY <1>1 DEF Reserve, TypeOK
  <2> QED
    BY Zenon, <1>0, <1>b, <1>1, <2>1, <2>2, <2>3, <2>4 DEF Reserve, TypeOK
<1>2. ASSUME NEW p \in Ports, Free(p) PROVE IInv'
  <2>1. CountExact'
    BY Zenon, <1>2, CountRemove DEF Free, CountExact
  <2> QED
    BY Zenon, <1>0, <1>b, <1>2, <2>1 DEF Free, TypeOK
<1>3. CASE Alloc
  BY <1>3, <1>b DEF Alloc, TypeOK, CountExact, MaxAllocated
<1>4. CASE Probe
  <2>1. CASE next \notin inUse
    <3>1. next \in Ports /\ next >= First
      BY <1>4 DEF Probe, TypeOK
    <3>2. CountExact'
      BY Zenon, <1>4, <2>1, <3>1, CountAdd DEF Probe, CountExact
    <3>3. next' \in 0 .. Last
      BY <1>4, <2>1, <3>1 DEF Probe, Inc
    <3>4. ~probing'
      BY Zenon, <1>4, <2>1 DEF Probe
    <3>5. inUse' \subseteq Ports /\ answer' \in 0 .. Last
      BY Zenon, <1>4, <2>1, <3>1 DEF Probe, TypeOK
    <3> QED
      BY Zenon, <1>0, <1>b, <3>2, <3>3, <3>4, <3>5 DEF TypeOK
  <2>2. CASE next \in inUse
    <3>1. UNCHANGED <<allocated, inUse, probing, answer>>
      BY Zenon, <1>4, <2>2 DEF Probe
    <3>2. next' \in Ephemeral
      BY <1>4, <2>2 DEF Probe, TypeOK
    <3> QED
      BY <3>1, <3>2 DEF TypeOK, CountExact
  <2> QED
    BY Zenon, <2>1, <2>2
<1>5. CASE UNCHANGED vars
  BY Zenon, <1>5 DEF vars, TypeOK, CountExact
<1> QED
  BY Zenon, <1>1, <1>2, <1>3, <1>4, <1>5 DEF Next

(* The invariant holds in every reachable state of the allocator. *)
THEOREM Invariance == Spec => []IInv
  BY InitIInv, NextIInv, PTL DEF Spec

(* Every field of the allocator keeps its type: the uint16 counter never   *)
(* wraps, and the search of alloc stays among the ephemeral ports.         *)
THEOREM TypeSafety == Spec => []TypeOK
  BY Invariance, PTL DEF IInv

(* pa.allocated is the number of ephemeral ports in use. *)
THEOREM CountCorrect == Spec => []CountExact
  BY Invariance, PTL DEF IInv

(* The search loop of alloc never runs when every ephemeral port is taken. *)
THEOREM SearchCorrect == Spec => []SearchSucceeds
<1>1. IInv => SearchSucceeds
  <2> SUFFICES ASSUME IInv, probing, Ephemeral \ inUse = {} PROVE FALSE
    BY Zenon DEF SearchSucceeds
  <2>1. inUse \cap Ephemeral = Ephemeral
    BY Zenon
  <2> QED
    BY <2>1, EphemeralFinite, PortAssumption DEF IInv, CountExact, MaxAllocated
<1> QED
  BY <1>1, Invariance, PTL

(* alloc returns an ephemeral port that was free. *)
THEOREM AllocCorrect == Spec => TakesFreePort
<1>1. IInv /\ [Next]_vars => [probing /\ ~probing' => answer' \in Ephemeral \ inUse]_vars
  BY Zenon DEF Next, Alloc, Probe, Reserve, Free, vars, IInv, TypeOK
<1> QED
  BY <1>1, Invariance, PTL DEF Spec, TakesFreePort
============================================================================

----------------------------- MODULE MCNetworks ------------------------------
(* The networks whose users share one registry of what is open, in one     *)
(* run: the parts of the loopback network, the Router with its datagram    *)
(* listener, and the detached network. Each behaviour is one of a single   *)
(* part. The detached network has its own variables; the other parts are   *)
(* instantiated with the same ones, which hold the state of the one that   *)
(* runs.                                                                   *)
EXTENDS DetachedNetwork, Sequences, TLC, TLAPS

CONSTANTS Writers, Readers, Cap, MaxLen, Listeners, Conns, TCPPorts, QueueCap, Dials, Accepts,
          UpDowns, MaxMoves, Slots, Backends, MaxSlotGen, Setup

(* What the theorems on the parts assume of their constants. Without port  *)
(* 0: UnregListener returns early for it and leaves the listener.          *)
ASSUME StreamAssumption == Cap \in Nat /\ MaxLen \in Nat
ASSUME ListenerAssumption ==
    /\ QueueCap \in Nat
    /\ None \notin Listeners /\ None \notin TCPPorts /\ 0 \notin TCPPorts
    /\ Listeners \cap Conns = {}
ASSUME MovesAssumption == MaxMoves \in Nat

VARIABLES
    part,           \* the part that runs
    s1, s2, s3, s4, s5, s6, s7, s8, s9, s10, s11, s12, s13, s14, s15, s16, s17, s18, s19, s20,
    s21, s22, s23, s24, s25, s26, s27   \* its variables, in the order of its module

all == <<s1, s2, s3, s4, s5, s6, s7, s8, s9, s10, s11, s12, s13, s14, s15, s16, s17, s18, s19,
         s20, s21, s22, s23, s24, s25, s26, s27>>

Stream == INSTANCE LoopbackTCPStream_proofs WITH
    buf <- s1, cap <- s2, readerClosed <- s3, writerClosed <- s4, rClosed <- s5, wClosed <- s6,
    rpc <- s7, rlen <- s8, rres <- s9, wpc <- s10, want <- s11, sent <- s12, got <- s13,
    settled <- s14, rdl <- s15, rtimer <- s16, rnotify <- s17, wdl <- s18, wtimer <- s19,
    wnotify <- s20

TCP == INSTANCE LoopbackTCP_proofs WITH
    Ports <- TCPPorts, Acceptors <- Calls, Closers <- Callers, listeners <- s1, inUse <- s2,
    port <- s3, isClosed <- s4, closeDone <- s5, acceptQ <- s6, dpc <- s7, target <- s8,
    client <- s9, server <- s10, accepted <- s11, apc <- s12, al <- s13, timed <- s14, kpc <- s15,
    kl <- s16, queued <- s17

Network == INSTANCE LoopbackNetwork WITH
    Calls <- Dials, up <- s1, closed <- s2, closers <- s3, pc <- s4, open <- s5, from <- s6,
    kpc <- s7, snapshot <- s8, movs <- s9, moved <- s10, drops <- s11, moves <- s12,
    updowns <- s13, isUp <- s14, upc <- s15, closeSubs <- s16, spc <- s17

Slotted == INSTANCE Router WITH
    Calls <- Dials, Admins <- Callers, MaxGen <- 4, wantUp <- s1, up <- s2, closed <- s3,
    gen <- s4, done <- s5, slots <- s6, slotUp <- s7, slotGen <- s8, slotSub <- s9,
    closers <- s10, bySlot <- s11, closedDones <- s12, panicked <- s13, backendUp <- s14,
    subs <- s15, pending <- s16, todo <- s17, target <- s18, sawUp <- s19, watchGen <- s20,
    unsubs <- s21, tDone <- s22, toClose <- s23, pc <- s24, slot <- s25, opGen <- s26, open <- s27

Datagram == INSTANCE LoopbackUDP WITH
    Sockets <- Calls, Readers <- Accepts, Ports <- TCPPorts, InCap <- 1, MaxSent <- 2,
    conns <- s1, port <- s2, peer <- s3, closed <- s4, in <- s5, limited <- s6, rpc <- s7,
    ron <- s8, wpc <- s9, won <- s10, wto <- s11, timed <- s12, sent <- s13, got <- s14

Group == INSTANCE LoopbackMulticast WITH
    Socks <- Calls, Groups <- Accepts, Ports <- {1}, InCap <- 1, MaxSent <- 1, conns <- s1,
    memberships <- s2, taken <- s3, allocated <- s4, port <- s5, closed <- s6, closing <- s7,
    mine <- s8, in <- s9, jpc <- s10, jkey <- s11, wpc <- s12, wkey <- s13, left <- s14,
    told <- s15, sent <- s16, got <- s17

Opening == INSTANCE RouterUDP WITH
    Admins <- Accepts, ReadCap <- 1, MaxSockets <- 2, MaxChanges <- 2, slots <- s1, tracked <- s2,
    changes <- s3, made <- s4, open <- s5, backends <- s6, closed <- s7, at <- s8, todo <- s9,
    drop <- s10, rpc <- s11, ron <- s12, queued <- s13, cpc <- s14, toClose <- s15

\* The variables from a number on, which a part does not have.
from21 == <<s21, s22, s23, s24, s25, s26, s27>>
from18 == <<s18, s19, s20, from21>>
from16 == <<s16, s17, from18>>
from15 == <<s15, from16>>
from1 == <<s1, s2, s3, s4, s5, s6, s7, s8, s9, s10, s11, s12, s13, s14, from15>>
Unused21 == s21 = None /\ s22 = None /\ s23 = None /\ s24 = None /\ s25 = None /\ s26 = None
    /\ s27 = None
Unused18 == s18 = None /\ s19 = None /\ s20 = None /\ Unused21
Unused16 == s16 = None /\ s17 = None /\ Unused18
Unused15 == s15 = None /\ Unused16
Unused1 == s1 = None /\ s2 = None /\ s3 = None /\ s4 = None /\ s5 = None /\ s6 = None /\ s7 = None
    /\ s8 = None /\ s9 = None /\ s10 = None /\ s11 = None /\ s12 = None /\ s13 = None
    /\ s14 = None /\ Unused15

PartsInit ==
    \/ part \in {"detached", "subscribed"} /\ Init /\ Unused1
    \/ part = "stream" /\ Stream!Init /\ Init /\ Unused21
    \/ part = "tcp" /\ TCP!Init /\ Init /\ Unused18
    \/ part = "network" /\ Network!Init /\ Init /\ Unused18
    \/ part = "router" /\ Slotted!Init /\ Init
    \/ part = "udp" /\ Datagram!Init /\ Init /\ Unused15
    \/ part = "multicast" /\ Group!Init /\ Init /\ Unused18
    \/ part = "sockets" /\ Opening!Init /\ Init /\ Unused16

(* Two calls and no subscriber, or a subscriber and one call.              *)
OneCall == Cardinality({p \in Calls : pc[p] # "idle"}) <= 1

PartsNext ==
    /\ \/ part = "detached" /\ Next /\ UNCHANGED <<upc, kpc>> /\ UNCHANGED all
       \/ part = "subscribed" /\ Next /\ OneCall' /\ UNCHANGED all
       \/ part = "stream" /\ Stream!Next /\ UNCHANGED vars /\ UNCHANGED from21
       \/ part = "tcp" /\ TCP!Next /\ UNCHANGED vars /\ UNCHANGED from18
       \/ part = "network" /\ Network!Next /\ UNCHANGED vars /\ UNCHANGED from18
       \/ part = "router" /\ Slotted!Next /\ UNCHANGED vars
       \/ part = "udp" /\ Datagram!Next /\ UNCHANGED vars /\ UNCHANGED from15
       \/ part = "multicast" /\ Group!Next /\ UNCHANGED vars /\ UNCHANGED from18
       \/ part = "sockets" /\ Opening!Next /\ UNCHANGED vars /\ UNCHANGED from16
    /\ UNCHANGED part

PartsSpec == PartsInit /\ [][PartsNext]_<<part, vars, all>>

Symmetry == Permutations(Callers) \cup Permutations(Calls)

----------------------------------------------------------------------------
(* The type invariants of the parts.                                       *)
TypesOK ==
    CASE part \in {"detached", "subscribed"} -> TypeOK
      [] part = "stream" -> Stream!TypeOK
      [] part = "tcp" -> TCP!TypeOK
      [] part = "network" -> Network!TypeOK
      [] part = "router" -> Slotted!TypeOK
      [] OTHER -> TRUE

(* LoopbackTCPStream: Read and Write neither lose, duplicate nor reorder   *)
(* bytes, the end of file comes after every byte of every Write that       *)
(* returned before Close, and who waits on a condition variable has reason *)
(* to wait, or is about to be woken.                                       *)
StreamExact == part = "stream" => Stream!InOrder /\ Stream!EOFAfterData /\ Stream!NobodyForgotten

(* LoopbackTCP: NewConn against AcceptTCP and Close leaves a connection    *)
(* with its dial, in one accept queue, or accepted, never in two places; a *)
(* Close that has returned left nothing behind, and nobody waits on        *)
(* queueChanged without reason.                                            *)
ListenerExact == part = "tcp" => TCP!OnePlace /\ TCP!CloseComplete /\ TCP!NobodyForgotten

(* LoopbackNetwork: an open object in a user's hands is tracked, or a Down *)
(* or Close has it in hand; what is tracked is open, or it is a connection *)
(* that CloseRead or CloseWrite closed.                                    *)
TrackedWhileOpen == part = "network" => Network!TrackedWhileOpen

(* Router: the Router is up exactly if it should be and a slot is; an open *)
(* object is tracked, or a transition has it in hand, and the two indexes  *)
(* agree on it; a subscription with a backend is the slot's, or is about   *)
(* to be cancelled; no done channel is closed twice.                       *)
RouterExact ==
    part = "router" =>
        /\ Slotted!EffectiveState /\ Slotted!NoObjectLost
        /\ Slotted!SlotIndexExact /\ Slotted!NoSubscriptionLeaked /\ Slotted!DoneClosedOnce

(* LoopbackUDP and LoopbackMulticast: the registry agrees with the open    *)
(* sockets, on their ports and on their groups; a datagram is read at most *)
(* once by each recipient, in the order of the calls that sent it, and a   *)
(* write to a group that succeeded has reached every member.               *)
DatagramsExact ==
    /\ part = "udp" => Datagram!Registered /\ Datagram!InOrder
    /\ part = "multicast" => Group!MembershipsExact /\ Group!DeliveredOnce

(* RouterUDP: an open socket of a backend is in its slot, or a goroutine   *)
(* is about to store or to close it; what is in a slot is read; a closed   *)
(* listener keeps nothing.                                                 *)
SocketsOwned == part = "sockets" => Opening!SocketsOwned

----------------------------------------------------------------------------
(* The theorems on three of the parts, carried to the run: whatever the    *)
(* values of the constants, not only on the instance TLC goes through.     *)
PartsInv ==
    /\ part = "stream" => Stream!IInv
    /\ part = "tcp" => TCP!IInv
    /\ part = "network" => Network!IInv

(* At the start the invariant of the part that runs holds, ... *)
LEMMA PartsInvInit == PartsInit => PartsInv
    BY StreamAssumption, ListenerAssumption, MovesAssumption, Stream!InitIInv, TCP!InitIInv, Network!InitIInv
    DEF PartsInit, PartsInv, Stream!Sizes, TCP!Distinguished

(* ... every step keeps it, ... *)
LEMMA PartsInvNext == PartsInv /\ [PartsNext]_<<part, vars, all>> => PartsInv'
<1> SUFFICES ASSUME PartsInv, [PartsNext]_<<part, vars, all>> PROVE PartsInv'
    OBVIOUS
<1>1. ASSUME part = "stream" PROVE Stream!IInv'
    BY <1>1, StreamAssumption, Stream!NextIInv
    DEF PartsInv, PartsNext, all, Stream!Sizes, Stream!vars, Stream!bufVars, Stream!closeVars, Stream!readVars,
        Stream!writeVars, Stream!rdlVars, Stream!wdlVars
<1>2. ASSUME part = "tcp" PROVE TCP!IInv'
    BY <1>2, ListenerAssumption, TCP!NextIInv
    DEF PartsInv, PartsNext, all, TCP!Distinguished, TCP!vars, TCP!regVars, TCP!listenVars, TCP!connVars,
        TCP!acceptVars, TCP!closeVars
<1>3. ASSUME part = "network" PROVE Network!IInv'
    BY <1>3, MovesAssumption, Network!NextIInv
    DEF PartsInv, PartsNext, all, Network!vars, Network!netVars, Network!callVars, Network!moveVars,
        Network!upVars, Network!subVars
<1> QED
    BY Zenon, <1>1, <1>2, <1>3 DEF PartsInv, PartsNext

(* ... and it implies what the run checks. *)
LEMMA PartsImplied == PartsInv => StreamExact /\ ListenerExact /\ TrackedWhileOpen
    BY Zenon, StreamAssumption, Stream!Implied, TCP!Implied, Network!Implied
    DEF Stream!Sizes, PartsInv, StreamExact, ListenerExact, TrackedWhileOpen

(* The parts keep their invariants. *)
THEOREM PartsInvariance == PartsSpec => []PartsInv
    BY PartsInvInit, PartsInvNext, PTL DEF PartsSpec

(* A loopback TCP stream of any capacity, under any number of Read and     *)
(* Write calls, neither loses, duplicates nor reorders bytes, ends after   *)
(* the data and wakes who can go on (loopbackTCPHalf).                     *)
THEOREM StreamsExact == PartsSpec => []StreamExact
    BY PartsInvariance, PartsImplied, PTL

(* DialTCP, AcceptTCP and Close, of any number of goroutines, neither      *)
(* strand nor share a connection, and a Close that returned left nothing.  *)
THEOREM ListenersExact == PartsSpec => []ListenerExact
    BY PartsInvariance, PartsImplied, PTL

(* No open object in a user's hands escapes the map that Down and Close    *)
(* work through, and the map keeps no closed one but the connections that  *)
(* CloseRead or CloseWrite closed, whatever Up, Down and the calls do at   *)
(* the same time.                                                          *)
THEOREM TrackedExactly == PartsSpec => []TrackedWhileOpen
    BY PartsInvariance, PartsImplied, PTL
=============================================================================

------------------------------- MODULE MCLive --------------------------------
(* What must happen in the end, for the parts that promise it, in one run. *)
(* Each behaviour is one of a single part. The detached network has its    *)
(* own variables; the other parts are instantiated with the same ones,     *)
(* which hold the state of the one that runs.                              *)
EXTENDS DetachedNetwork, FiniteSetsExt, Sequences

CONSTANTS Movers, Tuns, Dials, Listeners, Conns, Asked, Users, Setup

VARIABLES
    part,           \* the part that runs
    s1, s2, s3, s4, s5, s6, s7, s8, s9, s10, s11, s12, s13, s14, s15, s16, s17, s18, s19, s20,
    s21, s22, s23, s24   \* its variables, in the order of its module

all == <<s1, s2, s3, s4, s5, s6, s7, s8, s9, s10, s11, s12, s13, s14, s15, s16, s17, s18, s19,
         s20, s21, s22, s23, s24>>

MCServers == <<[net |-> "dot", addrs |-> 2]>>

Stream == INSTANCE LoopbackTCPStream WITH
    Writers <- Movers, Readers <- Asked, Cap <- 1, MaxLen <- 1, buf <- s1, cap <- s2,
    readerClosed <- s3, writerClosed <- s4, rClosed <- s5, wClosed <- s6, rpc <- s7, rlen <- s8,
    rres <- s9, wpc <- s10, want <- s11, sent <- s12, got <- s13, settled <- s14, rdl <- s15,
    rtimer <- s16, rnotify <- s17, wdl <- s18, wtimer <- s19, wnotify <- s20

TCP == INSTANCE LoopbackTCP WITH
    Acceptors <- Asked, Closers <- Movers, Ports <- {1, 2}, QueueCap <- 1, listeners <- s1,
    inUse <- s2, port <- s3, isClosed <- s4, closeDone <- s5, acceptQ <- s6, dpc <- s7,
    target <- s8, client <- s9, server <- s10, accepted <- s11, apc <- s12, al <- s13,
    timed <- s14, kpc <- s15, kl <- s16, queued <- s17

Network == INSTANCE LoopbackNetwork WITH
    Calls <- Dials, Accepts <- Asked, UpDowns <- {}, Subs <- {}, MaxMoves <- 2, up <- s1,
    closed <- s2, closers <- s3, pc <- s4, open <- s5, from <- s6, kpc <- s7, snapshot <- s8,
    movs <- s9, moved <- s10, drops <- s11, moves <- s12, updowns <- s13, isUp <- s14, upc <- s15,
    closeSubs <- s16, spc <- s17

Tun == INSTANCE DetachedTun WITH
    Packets <- Dials, Requests <- Asked, MaxGen <- 2, ChanCap <- 1, up <- s1, closed <- s2,
    failed <- s3, gen <- s4, cur <- s5, doneClosed <- s6, panicked <- s7, reads <- s8,
    writes <- s9, pendingWrites <- s10, rpump <- s11, rpkt <- s12, rdst <- s13, wpump <- s14,
    wreq <- s15, buf <- s16, wpc <- s17, wdst <- s18, wbuf <- s19, taken <- s20, resp <- s21,
    finished <- s22, ending <- s23, cpc <- s24

Join == INSTANCE Joiner WITH
    Tuns <- Dials, Nested <- Asked, Callers <- Movers, Nobody <- None, ReadsCap <- 1,
    EventsCap <- 1, MaxMoves <- 1, tunOf <- s1, closed <- s2, defaultTun <- s3, secondaries <- s4,
    nested <- s5, route <- s6, reads <- s7, got <- s8, pending <- s9, up <- s10, nclosed <- s11,
    rpc <- s12, wpc <- s13, tunUp <- s14, tunClosed <- s15, events <- s16, moves <- s17,
    pc <- s18, mine <- s19, toClose <- s20, targets <- s21, accepted <- s22,
    broken <- s23, pump <- s24

Frontend == INSTANCE SplitFrontend WITH
    Callers <- Movers, QueueCap <- 1, MaxUps <- 2, MaxChans <- 2, splitterDone <- s1, up <- s2,
    closed <- s3, done <- s4, doneClosed <- s5, eff <- s6, effOf <- s7, effClosed <- s8,
    closing <- s9, reading <- s10, delivering <- s11, writing <- s12, queue <- s13,
    pumping <- s14, sent <- s15

Split == INSTANCE Splitter WITH
    Backends <- Tuns, Frontends <- Users, Indexes <- {1}, Callers <- Movers, Nobody <- None,
    MaxMoves <- 0, closed <- s1, backend <- s2, table <- s3, index <- s4, open <- s5, up <- s6,
    bclosed <- s7, rpc <- s8, todo <- s9, wpc <- s10, tunUp <- s11, tunClosed <- s12,
    events <- s13, moves <- s14, writer <- s15, pc <- s16, mine <- s17, toClose <- s18

Forward == INSTANCE Forwarder WITH
    Setters <- Callers, Nobody <- None, SendCap <- 1, CfgCap <- 1, MaxSets <- 2, current <- s1,
    chCfg <- s2, cfgClosed <- s3, sending <- s4, tun <- s5, pc <- s6, holding <- s7, sendCh <- s8,
    closed <- s9, sets <- s10, stopping <- s11

Asking == INSTANCE DnsClient WITH
    Requests <- Asked, Servers <- MCServers, closed <- s1, loop <- s2, returned <- s3, pc <- s4,
    cancelled <- s5, last <- s6, server <- s7, attempt <- s8, results <- s9, taken <- s10,
    first <- s11, expired <- s12, valid <- s13

Serving == INSTANCE DnsServer WITH
    Packets <- Tuns, Upstreams <- Users, Nobody <- None, Limit <- 1, MaxAttach <- 2, tokens <- s1,
    serve <- s2, reading <- s3, upstream <- s4, gen <- s5, closed <- s6, returned <- s7, pc <- s8,
    mine <- s9, why <- s10

Routed == INSTANCE DnsRouter WITH
    Requests <- Asked, Backends <- Users, Names <- {"m"}, Nobody <- None, MaxChanges <- 2,
    closed <- s1, loop <- s2, returned <- s3, pc <- s4, cancelled <- s5, last <- s6,
    backends <- s7, route <- s8, done <- s9, rclosed <- s10, seen <- s11, using <- s12,
    config <- s13

Sniff == INSTANCE Sniffer WITH
    Calls <- Dials, Subs <- {}, up <- s1, closed <- s2, gen <- s3, doneClosed <- s4,
    closers <- s5, pc <- s6, op <- s7, mine <- s8, obj <- s9, ch <- s10, late <- s11,
    bridge <- s12, upstream <- s13, move <- s14, toClose <- s15, subs <- s16, subClosed <- s17

Datagram == INSTANCE LoopbackUDP WITH
    Sockets <- Tuns, Readers <- {}, Writers <- Movers, Ports <- {1}, InCap <- 1, MaxSent <- 2,
    conns <- s1, port <- s2, peer <- s3, closed <- s4, in <- s5, limited <- s6, rpc <- s7,
    ron <- s8, wpc <- s9, won <- s10, wto <- s11, timed <- s12, sent <- s13, got <- s14

Opening == INSTANCE RouterUDP WITH
    Slots <- {1}, Backends <- Users, Admins <- Movers, Writers <- {}, ReadCap <- 1,
    MaxSockets <- 2, MaxChanges <- 1, slots <- s1, tracked <- s2, changes <- s3, made <- s4,
    open <- s5, backends <- s6, closed <- s7, at <- s8, todo <- s9, drop <- s10, rpc <- s11,
    ron <- s12, queued <- s13, cpc <- s14, toClose <- s15

\* The variables from a number on, which a part does not have.
from23 == <<s23, s24>>
from21 == <<s21, s22, from23>>
from19 == <<s19, s20, from21>>
from18 == <<s18, from19>>
from16 == <<s16, s17, from18>>
from15 == <<s15, from16>>
from14 == <<s14, from15>>
from12 == <<s12, s13, from14>>
from11 == <<s11, from12>>
from1 == <<s1, s2, s3, s4, s5, s6, s7, s8, s9, s10, from11>>
Unused23 == s23 = None /\ s24 = None
Unused21 == s21 = None /\ s22 = None /\ Unused23
Unused19 == s19 = None /\ s20 = None /\ Unused21
Unused18 == s18 = None /\ Unused19
Unused16 == s16 = None /\ s17 = None /\ Unused18
Unused15 == s15 = None /\ Unused16
Unused14 == s14 = None /\ Unused15
Unused12 == s12 = None /\ s13 = None /\ Unused14
Unused11 == s11 = None /\ Unused12
Unused1 == s1 = None /\ s2 = None /\ s3 = None /\ s4 = None /\ s5 = None /\ s6 = None /\ s7 = None
    /\ s8 = None /\ s9 = None /\ s10 = None /\ Unused11

PartsInit ==
    \/ part = "detached" /\ Init /\ Unused1
    \/ part = "stream" /\ Stream!Init /\ Init /\ Unused21
    \/ part = "tcp" /\ TCP!Init /\ Init /\ Unused18
    \/ part = "network" /\ Network!Init /\ Init /\ Unused18
    \/ part = "tun" /\ Tun!Init /\ Init
    \/ part = "joiner" /\ Join!Init /\ Init
    \/ part = "front" /\ Frontend!Init /\ Init /\ Unused16
    \/ part = "split" /\ Split!Init /\ Init /\ Unused19
    \/ part = "forward" /\ Forward!Init /\ Init /\ Unused12
    \/ part = "client" /\ Asking!Init /\ Init /\ Unused14
    \/ part = "serve" /\ Serving!Init /\ Init /\ Unused11
    \/ part = "route" /\ Routed!Init /\ Init /\ Unused14
    \/ part = "sniffer" /\ Sniff!Init /\ Init /\ Unused18
    \/ part = "udp" /\ Datagram!Init /\ Init /\ Unused15
    \/ part = "sockets" /\ Opening!Init /\ Init /\ Unused16

PartsNext ==
    /\ \/ part = "detached" /\ Next /\ UNCHANGED all
       \/ part = "stream" /\ Stream!Next /\ UNCHANGED <<s18, s20>> /\ UNCHANGED vars /\ UNCHANGED from21
       \/ part = "tcp" /\ TCP!Next /\ UNCHANGED vars /\ UNCHANGED from18
       \/ part = "network" /\ Network!Next /\ UNCHANGED vars /\ UNCHANGED from18
       \/ part = "tun" /\ Tun!Next /\ UNCHANGED vars
       \/ part = "joiner" /\ Join!Next /\ UNCHANGED vars
       \/ part = "front" /\ Frontend!Next /\ UNCHANGED vars /\ UNCHANGED from16
       \/ part = "split" /\ Split!Next /\ UNCHANGED vars /\ UNCHANGED from19
       \/ part = "forward" /\ Forward!Next /\ UNCHANGED vars /\ UNCHANGED from12
       \/ part = "client" /\ Asking!Next /\ UNCHANGED vars /\ UNCHANGED from14
       \/ part = "serve" /\ Serving!Next /\ UNCHANGED vars /\ UNCHANGED from11
       \/ part = "route" /\ Routed!Next /\ UNCHANGED vars /\ UNCHANGED from14
       \/ part = "sniffer" /\ Sniff!Next /\ UNCHANGED vars /\ UNCHANGED from18
       \/ part = "udp" /\ Datagram!Next /\ UNCHANGED vars /\ UNCHANGED from15
       \/ part = "sockets" /\ Opening!Next /\ UNCHANGED vars /\ UNCHANGED from16
    /\ UNCHANGED part

PartsSpec == PartsInit /\ [][PartsNext]_<<part, vars, all>>

----------------------------------------------------------------------------
(* Each part names its goroutines and what each of them does by itself.    *)
(* Numbering them, the fairness of the part that runs is the fairness of   *)
(* its goroutines.                                                         *)
Order(S) == FoldSet(LAMBDA x, s : Append(s, x), <<>>, S)

Turns ==
    [detached |-> Order(Goroutines),
     stream |-> Order(Stream!Goroutines),
     tcp |-> Order(TCP!Goroutines),
     network |-> Order(Network!Goroutines),
     tun |-> Order(Tun!Goroutines),
     joiner |-> Order(Join!Goroutines),
     front |-> Order(Frontend!Goroutines),
     split |-> Order(Split!Goroutines),
     forward |-> Order(Forward!Goroutines),
     client |-> Order(Asking!Goroutines),
     serve |-> Order(Serving!Goroutines),
     route |-> Order(Routed!Goroutines),
     sniffer |-> Order(Sniff!Goroutines),
     udp |-> Order(Datagram!Goroutines),
     sockets |-> Order(Opening!Goroutines)]

Turn(i) ==
    /\ i \in DOMAIN Turns[part]
    /\ LET g == Turns[part][i]
       IN  \/ part = "detached" /\ Goroutine(g) /\ UNCHANGED all
           \/ part = "stream" /\ Stream!Goroutine(g) /\ UNCHANGED <<vars, from21>>
           \/ part = "tcp" /\ TCP!Goroutine(g) /\ UNCHANGED <<vars, from18>>
           \/ part = "network" /\ Network!Goroutine(g) /\ UNCHANGED <<vars, from18>>
           \/ part = "tun" /\ Tun!Goroutine(g) /\ UNCHANGED vars
           \/ part = "joiner" /\ Join!Goroutine(g) /\ UNCHANGED vars
           \/ part = "front" /\ Frontend!Goroutine(g) /\ UNCHANGED <<vars, from16>>
           \/ part = "split" /\ Split!Goroutine(g) /\ UNCHANGED <<vars, from19>>
           \/ part = "forward" /\ Forward!Goroutine(g) /\ UNCHANGED <<vars, from12>>
           \/ part = "client" /\ Asking!Goroutine(g) /\ UNCHANGED <<vars, from14>>
           \/ part = "serve" /\ Serving!Goroutine(g) /\ UNCHANGED <<vars, from11>>
           \/ part = "route" /\ Routed!Goroutine(g) /\ UNCHANGED <<vars, from14>>
           \/ part = "sniffer" /\ Sniff!Goroutine(g) /\ UNCHANGED <<vars, from18>>
           \/ part = "udp" /\ Datagram!Goroutine(g) /\ UNCHANGED <<vars, from15>>
           \/ part = "sockets" /\ Opening!Goroutine(g) /\ UNCHANGED <<vars, from16>>
    /\ UNCHANGED part

Widest == Max({Len(Turns[k]) : k \in DOMAIN Turns})

LiveSpec == PartsSpec /\ \A i \in 1..Widest : WF_<<part, vars, all>>(Turn(i))

----------------------------------------------------------------------------
Has(table, i) == part \in DOMAIN table /\ i \in DOMAIN table[part]

(* A call that has lost its reason to wait returns.  DetachedNetwork: it   *)
(* was overtaken by a Down or a Close; LoopbackTCPStream: an end was       *)
(* closed or the deadline has passed; LoopbackTCP: the listener was        *)
(* closed; LoopbackUDP: the socket or its destination was closed;          *)
(* SplitFrontend: the frontend is down; Splitter: the backend was          *)
(* replaced; DnsRouter: the routes have changed.  DnsServer: a packet that *)
(* was read is answered or dropped.                                        *)
Waiters ==
    [detached |-> Order(Calls), stream |-> Order(Asked), tcp |-> Order(Conns \cup Asked),
     front |-> Order({"read", "deliver", "write"}), split |-> Order(Tuns),
     route |-> Order(Asked), serve |-> Order(Tuns), udp |-> Order(Movers)]
Waits(w) ==
    CASE part = "detached" -> Overtaken(w)
      [] part = "stream" -> Stream!HasToReturn(w)
      [] part = "tcp" -> TCP!Hangs(w)
      [] part = "udp" -> Datagram!Hangs(w)
      [] part = "front" -> Frontend!Stuck(w)
      [] part = "split" -> Split!Outlived(w)
      [] part = "route" -> Routed!OutOfDate(w)
      [] part = "serve" -> s8[w] = "read"
Returns(w) ==
    CASE part = "detached" -> GaveUp(w)
      [] part = "stream" -> ~Stream!HasToReturn(w)
      [] part = "tcp" -> TCP!LetGo(w)
      [] part = "udp" -> Datagram!Free(w)
      [] part = "front" -> Frontend!Free(w)
      [] part = "split" -> s8[w] = "done"
      [] part = "route" -> s4[w] = "answered"
      [] part = "serve" -> Serving!Finished(w)

WaitersReturn ==
    \A i \in 1..3 :
        (Has(Waiters, i) /\ Waits(Waiters[part][i])) ~> (Has(Waiters, i) /\ Returns(Waiters[part][i]))

(* DetachedNetwork, LoopbackNetwork and Sniffer: what was tracked or under *)
(* way when Down or Close ran is closed in the end; RouterUDP: so are the  *)
(* sockets of a closed listener, and their readers end.                    *)
Opened ==
    [detached |-> Order(Calls), network |-> Order(Dials \cup Asked), sniffer |-> Order(Dials),
     sockets |-> <<1, 2>>]
Condemned(o) ==
    CASE part = "detached" -> closed /\ obj[o] = "open"
      [] part = "network" -> Network!Dying(o)
      [] part = "sniffer" -> Sniff!Overtaken(o)
      [] part = "sockets" -> Opening!Remains(o)
Gone(o) ==
    CASE part = "detached" -> obj[o] = "closed"
      [] part = "network" -> ~s5[o]
      [] part = "sniffer" -> Sniff!Gone(o)
      [] part = "sockets" -> Opening!Finished(o)

DownCloses ==
    \A i \in 1..2 :
        (Has(Opened, i) /\ Condemned(Opened[part][i])) ~> (Has(Opened, i) /\ Gone(Opened[part][i]))

(* DetachedTun, Joiner, Splitter, Forwarder and DnsClient: the call that   *)
(* stops a component comes back, once the goroutines it waits for end.     *)
Stopping ==
    CASE part = "tun" -> s24 = "drain"
      [] part = "joiner" -> \E c \in Movers : s18[c] = "shutting"
      [] part = "split" -> \E c \in Movers : s16[c] = "shutting"
      [] part = "forward" -> s11 # "no"
      [] part = "client" -> s1
      [] OTHER -> FALSE
Stopped ==
    CASE part = "tun" -> s24 = "waited"
      [] part = "joiner" -> \A c \in Movers : s18[c] = "closed"
      [] part = "split" -> \A c \in Movers : s16[c] = "closed"
      [] part = "forward" -> Forward!Stopped
      [] part = "client" -> s3
      [] OTHER -> FALSE

ShutdownReturns == Stopping ~> Stopped
=============================================================================

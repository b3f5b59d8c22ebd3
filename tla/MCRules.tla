------------------------------- MODULE MCRules -------------------------------
(* The algorithms in one run: the rule language, the allocators of ports,  *)
(* subnets and addresses, and the sniffing of a connection's first bytes.  *)
(* Each behaviour is one of a single part, while the others rest in an     *)
(* initial state.                                                          *)
EXTENDS LoopbackPorts, Subnets, Classifiers, TLC

CONSTANTS Targets, Addrs, Names, Rules, Numbers, Classes, Missing, MaxAttempts, MaxHeld,
          BufferSizes, MaxSniffs

VARIABLES
    part,           \* the part that runs
    \* RoutingRules
    rules_target, rules_lines, rules_tables, rules_programs,
    \* CombinedAllocator
    pools_ips, pools_subnets, pools_pools, pools_grantedIPs, pools_grantedSubnets, pools_heldIPs,
    pools_heldSubnets,
    \* SimpleAllocators
    simple_subnets, simple_ips, simple_next, simple_granted, simple_held,
    \* Sniffing
    sniff_sent, sniff_stream, sniff_extra, sniff_deferred, sniff_list, sniff_cls, sniff_size,
    sniff_buf, sniff_phase, sniff_index, sniff_err, sniff_seen, sniff_sniffs, sniff_got

rulesVars == <<rules_target, rules_lines, rules_tables, rules_programs>>
poolsVars == <<pools_ips, pools_subnets, pools_pools, pools_grantedIPs, pools_grantedSubnets,
               pools_heldIPs, pools_heldSubnets>>
simpleVars == <<simple_subnets, simple_ips, simple_next, simple_granted, simple_held>>
sniffVars == <<sniff_sent, sniff_stream, sniff_extra, sniff_deferred, sniff_list, sniff_cls,
               sniff_size, sniff_buf, sniff_phase, sniff_index, sniff_err, sniff_seen,
               sniff_sniffs, sniff_got>>

Line(op, arg) == [op |-> op, arg |-> arg]
Plain(ops) == {Line(op, 0) : op \in ops}

(* The lines that are tried: for every target its own terminals, the       *)
(* connectives, and predicates of each kind, some of which it refuses.     *)
MCLines(t) ==
    CASE t = "router" -> Plain({"NOT", "AND", "OR", "DIAL", "LOOKUP", "DROP", "FALSE", "NOSUCH"})
             \cup {Line("SLOT", 1), Line("SLOT", 17), Line("ADDR_S", {"a"}), Line("LADDR_S", {"a"})}
      [] t = "split" -> Plain({"NOT", "AND", "OR", "DROP", "FQDN", "DIAL"})
             \cup {Line("SLOT", 1), Line("ADDR_S", {"a"}), Line("RULE", "r")}
      [] t = "sniffer" -> Plain({"TRUE", "NOT", "AND", "INTERCEPT", "SNIFF_NONE", "DROP"})
             \cup {Line("SNIFF", "http"), Line("SNIFF", "tls"), Line("SLOT", 17),
                   Line("ROUTE", [slot |-> 1, mutation |-> "dst"]),
                   Line("ROUTE", [slot |-> 2, mutation |-> "none"])}
      [] t = "dns" -> Plain({"FQDN", "OR", "NOT", "DROP", "UDP"})
             \cup {Line("BACKEND", "x"), Line("BACKEND", "y"), Line("QTYPE", 28),
                   Line("ADDR_RE", {"a", "b"})}
      [] t = "remapper" -> Plain({"DIAL", "LOOKUP", "AND", "OR", "NOT", "DROP"})
             \cup {Line("REMAP", 1), Line("SNET4", {"ip"}), Line("LSNET4", {"ip"})}

MCMaxLines ==
    [t \in Targets |-> CASE t \in {"router", "sniffer"} -> 4 [] t = "split" -> 6 [] OTHER -> 5]

(* Three bits of IPv6, all of them allocated, two of IPv4, one allocated.  *)
(* Two pools of IPv6 have room, with one address in each that is accepted. *)
MCBits == (4 :> 2) @@ (6 :> 3)
MCParent == (4 :> Network(4, 2, 1)) @@ (6 :> Network(6, 0, 0))
MCPoolPrefix == (4 :> 1) @@ (6 :> 1)
MCRejected == {Network(6, 2, 2), Network(6, 4, 2), Network(6, 6, 2)}

(* Streams of up to three bits, and classifiers with every combinator.     *)
MCStreams == UNION {[1..n -> {0, 1}] : n \in 0..3}
Trees ==
    {Prefix(w) : w \in {<<>>, <<0>>, <<1>>, <<0, 1>>, <<1, 1, 0>>}}
    \cup {Limit(n, Prefix(<<0, 1>>)) : n \in 0..2}
    \cup {Not(Prefix(<<0, 1>>)), And(<<>>), Or(<<>>),
          And(<<Prefix(<<0>>), Not(Prefix(<<0, 1>>))>>), Or(<<Prefix(<<1, 1, 0>>), Prefix(<<1>>)>>),
          Or(<<Limit(1, Not(Prefix(<<0, 0>>))), Prefix(<<1, 0>>)>>)}
MCLists == {<<>>} \cup {<<a>> : a \in Trees} \cup {<<a, b>> : a, b \in Trees}

Text == INSTANCE RoutingRules WITH
    Lines <- MCLines, MaxLines <- MCMaxLines, NoMatch <- Missing, target <- rules_target,
    lines <- rules_lines, tables <- rules_tables, programs <- rules_programs

Pools == INSTANCE CombinedAllocator WITH
    Parent <- MCParent, PoolPrefix <- MCPoolPrefix, BannedIPs <- {}, BannedSubnets <- {},
    RejectedIPs <- {<<6, 1>>, <<6, 6>>}, RejectedSubnets <- MCRejected,
    ReserveIPs <- {<<6, 1>>, <<6, 4>>, <<4, 1>>},
    ReserveSubnets <- {Network(6, 0, 1), Network(6, 2, 3)}, ips <- pools_ips,
    subnets <- pools_subnets, pools <- pools_pools, grantedIPs <- pools_grantedIPs,
    grantedSubnets <- pools_grantedSubnets, heldIPs <- pools_heldIPs,
    heldSubnets <- pools_heldSubnets

Simple == INSTANCE SimpleAllocators WITH
    Owned <- Network(6, 0, 0), RejectedIPs <- {2, 3, 6}, RejectedSubnets <- MCRejected,
    ReserveIPs <- {0, 1, 4},
    ReserveSubnets <- {Network(6, 0, 1), Network(6, 4, 1), Network(4, 0, 1)},
    subnets <- simple_subnets, ips <- simple_ips, next <- simple_next, granted <- simple_granted,
    held <- simple_held

Sniff == INSTANCE Sniffing WITH
    Streams <- MCStreams, Lists <- MCLists, sent <- sniff_sent, stream <- sniff_stream,
    extra <- sniff_extra, deferred <- sniff_deferred, list <- sniff_list, cls <- sniff_cls,
    size <- sniff_size, buf <- sniff_buf, phase <- sniff_phase, index <- sniff_index,
    err <- sniff_err, seen <- sniff_seen, sniffs <- sniff_sniffs, got <- sniff_got

PartsInit ==
    /\ part \in {"ports", "rules", "pools", "simple", "sniff"}
    /\ Init
    /\ Text!Init /\ (part # "rules" => rules_target = "dns")
    /\ Pools!Init
    /\ Simple!Init
    /\ Sniff!Init /\ (part # "sniff" => sniff_sent = <<>> /\ sniff_list = <<>> /\ sniff_size = 0)

PartsNext ==
    /\ \/ part = "ports" /\ Next
       \/ part = "rules" /\ Text!Next
       \/ part = "pools" /\ Pools!Next
       \/ part = "simple" /\ Simple!Next
       \/ part = "sniff" /\ Sniff!Next
    /\ part # "ports" => UNCHANGED vars
    /\ part # "rules" => UNCHANGED rulesVars
    /\ part # "pools" => UNCHANGED poolsVars
    /\ part # "simple" => UNCHANGED simpleVars
    /\ part # "sniff" => UNCHANGED sniffVars
    /\ UNCHANGED part

partsVars == <<part, vars, rulesVars, poolsVars, simpleVars, sniffVars>>

PartsSpec == PartsInit /\ [][PartsNext]_partsVars

----------------------------------------------------------------------------
(* RoutingRules: what the validator accepts runs without running out of    *)
(* stack, of bytes or of table entries.                                    *)
ValidatedRunsSafely == part = "rules" => Text!ValidatedRunsSafely

(* RoutingRules: packet routes compiled to segments decide as the stack    *)
(* machine does.                                                           *)
CompiledAgrees == part = "rules" => Text!CompiledAgrees

(* RoutingRules: the programs derived from one text decide as the text.    *)
DerivedAgrees == part = "rules" => Text!DerivedAgrees

(* RoutingRules: phases and slots are those the text speaks of.            *)
PhasesAccepted == part = "rules" => Text!PhasesAccepted /\ Text!SlotsMentioned

(* CombinedAllocator and SimpleAllocators: the tables count what is in     *)
(* use, nothing is handed out twice, and empty pools go, all but one.      *)
AllocatorsExact ==
    /\ [](/\ part = "pools" => Pools!CountsExact /\ Pools!GrantsDisjoint
          /\ part = "simple" => Simple!HandedOutOnce)
    /\ Pools!PrunesToOne

\* Subnets: the arithmetic of networks agrees with the sets of addresses.
ArithmeticExact == \A n, m \in UNION {Networks(f) : f \in DOMAIN Bits} : Exact(n, m)


(* Sniffing: the result does not depend on how the bytes arrive, none of   *)
(* them is lost, and MinSniffBufferSize bytes are enough.                  *)
SniffExact ==
    part = "sniff" => Sniff!ChunkingInvisible /\ Sniff!NothingLost /\ Sniff!MinSizeEnough
=============================================================================

---------------------------- MODULE RoutingRules ----------------------------
(* The rule language of package routing: the parser that turns rule lines  *)
(* into stack bytecode and tables, the derivation of several programs from *)
(* one text, the validator, the stack evaluators of the five users of the  *)
(* bytecode, and the compiler of packet routes into segments.              *)
(*                                                                         *)
(* A rule line is an operation and its argument. The argument of an        *)
(* address operation stands for the set of addresses that it matches: one  *)
(* for an address or a string, several for a regexp or a subnet.           *)
EXTENDS Naturals, Sequences, FiniteSets, SequencesExt

CONSTANTS
    Targets,    \* the programs that are parsed: "router", "split", "sniffer", "dns", "remapper"
    Lines(_),   \* the rule lines that are tried for a target
    MaxLines,   \* bound: for a target, the lines of one text
    Addrs,      \* addresses of a call or a packet
    Names,      \* those that are host names
    Rules,      \* system rules that an owner of a flow may match
    Numbers,    \* ports, query types
    Classes,    \* sniff classifiers
    NoMatch     \* sniffer.NoMatch, and an address that is absent

VARIABLES
    target,     \* what the text is parsed for
    lines,      \* the text so far, blank lines and comments left out
    tables,     \* the tables of its operands
    programs    \* the bytes of every program that it becomes

vars == <<target, lines, tables, programs>>

RouterSlots == 16

----------------------------------------------------------------------------
(* Opcodes, in the order of their byte values.                             *)

OpNames == <<"DROP", "SLOT", "TRUE", "FALSE", "NOT", "AND", "OR", "NET4", "NET6", "UDP",
    "TCP", "FQDN", "LFQDN", "ADDR_S", "LADDR_S", "ADDR_RE", "LADDR_RE", "ADDR4", "LADDR4",
    "ADDR6", "LADDR6", "SNET4", "LSNET4", "SNET6", "LSNET6", "PORT", "LPORT", "RULE", "DIAL",
    "LISTEN", "LOOKUP", "INTERCEPT", "SNIFF", "SNIFF_NONE", "ROUTE", "BACKEND", "QTYPE",
    "QCLASS", "OPCODE">>

Op(byte) == OpNames[byte + 1]

RemoteOps == {"ADDR_S", "ADDR_RE", "ADDR4", "ADDR6", "SNET4", "SNET6"}
LocalOps == {"LADDR_S", "LADDR_RE", "LADDR4", "LADDR6", "LSNET4", "LSNET6"}
isLAddrOp(op) == op \in LocalOps \cup {"LFQDN", "LPORT"}
isSnifferOnlyOp(op) == op \in {"INTERCEPT", "SNIFF", "SNIFF_NONE", "ROUTE"}
isDNSOnlyOp(op) == op \in {"BACKEND", "QTYPE", "QCLASS", "OPCODE"}
isRouterMethodOp(op) == op \in {"DIAL", "LISTEN", "LOOKUP"}

(* The operations that take an index into a table, and the table. *)
TableOf(op) ==
    CASE op \in {"ADDR_S", "LADDR_S"} -> "strings"
      [] op \in {"ADDR_RE", "LADDR_RE"} -> "regexps"
      [] op \in {"ADDR4", "LADDR4"} -> "ipv4Addrs"
      [] op \in {"ADDR6", "LADDR6"} -> "ipv6Addrs"
      [] op \in {"SNET4", "LSNET4"} -> "ipv4Subnets"
      [] op \in {"SNET6", "LSNET6"} -> "ipv6Subnets"
      [] op = "RULE" -> "rules"
      [] op = "SNIFF" -> "classifiers"
      [] op = "ROUTE" -> "routeActions"
      [] op = "BACKEND" -> "backends"
      [] OTHER -> "none"

Tables == {"strings", "regexps", "ipv4Addrs", "ipv6Addrs", "ipv4Subnets", "ipv6Subnets",
           "rules", "classifiers", "routeActions", "backends"}

NumberOps == {"PORT", "LPORT", "QTYPE", "QCLASS", "OPCODE"}

(* The bytes of an operation's parameter. *)
Width(op) == IF op = "SLOT" THEN 1
             ELSE IF TableOf(op) # "none" \/ op \in NumberOps THEN 2 ELSE 0

----------------------------------------------------------------------------
(* The parser. Each argument is entered into its table once.               *)

Enter(tab, l) ==
    IF TableOf(l.op) = "none" \/ l.arg \in Range(tab[TableOf(l.op)]) THEN tab
    ELSE [tab EXCEPT ![TableOf(l.op)] = Append(@, l.arg)]

IndexOf(tab, l) == CHOOSE i \in 1..Len(tab[TableOf(l.op)]) : tab[TableOf(l.op)][i] = l.arg

(* The parameter that is written after the operation of a line. *)
ParamOf(tab, l) == IF TableOf(l.op) = "none" THEN l.arg ELSE IndexOf(tab, l) - 1

appendOp(tab, l) ==
    LET byte == (CHOOSE i \in 1..Len(OpNames) : OpNames[i] = l.op) - 1
    IN CASE Width(l.op) = 0 -> <<byte>>
         [] Width(l.op) = 1 -> <<byte, l.arg>>
         [] Width(l.op) = 2 -> <<byte, ParamOf(tab, l) % 256, ParamOf(tab, l) \div 256>>

(* The state of the parser after the lines of src: the bytes and the tables. *)
parseProgramLines(p, src) ==
    FoldLeft(LAMBDA q, l : LET tab == Enter(q.tab, l)
                           IN [code |-> q.code \o appendOp(tab, l), tab |-> tab],
             [code |-> <<>>, tab |-> p], src)

newBytecodeParser == [t \in Tables |-> <<>>]

(* A line whose operation the parser does not know. REMAP has a parser of its own. *)
Unknown(src) == \E i \in 1..Len(src) : src[i].op \notin Range(OpNames) \cup {"REMAP"}

EndsSegment(l) == l.op \in {"DROP", "SLOT", "INTERCEPT", "ROUTE", "REMAP", "BACKEND"}

(* The segments of a text: each one ends with a terminal operation, or with the text. *)
splitBytecodeRuleSegments(src) ==
    LET s == FoldLeft(LAMBDA q, l :
                 IF EndsSegment(l) THEN [done |-> Append(q.done, Append(q.open, l)), open |-> <<>>]
                 ELSE [q EXCEPT !.open = Append(@, l)],
             [done |-> <<>>, open |-> <<>>], src)
    IN IF s.open = <<>> THEN s.done ELSE Append(s.done, s.open)

----------------------------------------------------------------------------
(* Which segments of a router's text can trigger for a method: three-      *)
(* valued evaluation in which every predicate but the method is unknown.   *)

BoolNot(v) == CASE v = "F" -> "T" [] v = "T" -> "F" [] OTHER -> "U"

BoolAnd(a, b) == IF "F" \in {a, b} THEN "F" ELSE IF a = "T" /\ b = "T" THEN "T" ELSE "U"

(* Mutant: a disjunction is false as soon as one side is. *)
BoolOrEager(a, b) == IF "F" \in {a, b} THEN "F" ELSE IF a = "T" /\ b = "T" THEN "T" ELSE "U"

BoolOr(a, b) == IF "T" \in {a, b} THEN "T" ELSE IF a = "F" /\ b = "F" THEN "F" ELSE "U"

BoolOf(b) == IF b THEN "T" ELSE "F"

MethodOf(op) == CASE op = "DIAL" -> "dial" [] op = "LISTEN" -> "listen" [] op = "LOOKUP" -> "lookup"

(* One line of the evaluation: ans is the verdict once there is one. *)
TriggerStep(method, s, l) ==
    LET n == Len(s.stack)
        top == s.stack[n]
        Push(v) == [s EXCEPT !.stack = Append(@, v)]
        Two(v) == [s EXCEPT !.stack = Append(SubSeq(@, 1, n - 2), v)]
    IN CASE s.ans # "none" -> s
         [] s.ans = "none" /\ l.op \in {"DROP", "SLOT", "NOT"} /\ n < 1 -> [s EXCEPT !.ans = "yes"]
         [] s.ans = "none" /\ l.op \in {"AND", "OR"} /\ n < 2 -> [s EXCEPT !.ans = "yes"]
         [] s.ans = "none" /\ l.op \in {"DROP", "SLOT"} /\ n >= 1 ->
                [s EXCEPT !.ans = IF s.method /\ top = "F" THEN "no" ELSE "yes"]
         [] s.ans = "none" /\ l.op = "NOT" /\ n >= 1 -> [s EXCEPT !.stack[n] = BoolNot(@)]
         [] s.ans = "none" /\ l.op = "AND" /\ n >= 2 -> Two(BoolAnd(s.stack[n - 1], top))
         [] s.ans = "none" /\ l.op = "OR" /\ n >= 2 -> Two(BoolOr(s.stack[n - 1], top))
         [] s.ans = "none" /\ l.op \in {"TRUE", "FALSE"} -> Push(BoolOf(l.op = "TRUE"))
         [] s.ans = "none" /\ isRouterMethodOp(l.op) ->
                [Push(BoolOf(MethodOf(l.op) = method)) EXCEPT !.method = TRUE]
         [] OTHER -> Push("U")

bytecodeSegmentCanTrigger(seg, method) ==
    \/ Unknown(seg)
    \/ FoldLeft(LAMBDA s, l : TriggerStep(method, s, l),
                [stack |-> <<>>, method |-> FALSE, ans |-> "none"], seg).ans # "no"

(* Which phases of a sniffer a segment belongs to. *)
Has(seg, ops) == \E i \in 1..Len(seg) : seg[i].op \in ops

SniffMixed(seg) == Has(seg, {"SNIFF", "SNIFF_NONE"}) /\ Has(seg, {"INTERCEPT"})

(* Mutant: a segment that asks for interception is kept after sniffing. *)
InPhaseBoth(seg, phase) == phase = "sniff" \/ ~Has(seg, {"SNIFF", "SNIFF_NONE"})

bytecodeSnifferSegmentTargets(seg, phase) ==
    IF phase = "control" THEN ~Has(seg, {"SNIFF", "SNIFF_NONE"}) ELSE ~Has(seg, {"INTERCEPT"})

(* The programs that a text becomes, and which segments each one takes. A  *)
(* dial, a UDP dial and a routed UDP packet have the same program.         *)
Programs(t) ==
    CASE t = "router" -> {"dial", "listen", "lookup"}
      [] t = "sniffer" -> {"control", "sniff"}
      [] OTHER -> {"route"}

Takes(t, prog, seg) ==
    CASE t = "router" -> bytecodeSegmentCanTrigger(seg, prog)
      [] t = "sniffer" -> bytecodeSnifferSegmentTargets(seg, prog)
      [] OTHER -> TRUE

SegmentsOf(t, prog, src) == SelectSeq(splitBytecodeRuleSegments(src), LAMBDA seg : Takes(t, prog, seg))

(* The tables are shared: a segment is entered if some program takes it. *)
TablesOf(t, src) ==
    parseProgramLines(newBytecodeParser,
        FlattenSeq(SelectSeq(splitBytecodeRuleSegments(src),
                             LAMBDA seg : \E prog \in Programs(t) : Takes(t, prog, seg)))).tab

Derived(t, tab, prog, src) == parseProgramLines(tab, FlattenSeq(SegmentsOf(t, prog, src))).code

----------------------------------------------------------------------------
(* The validator: every opcode is known and allowed, its parameter is      *)
(* there and inside its table, and the stack never runs empty.             *)

InTable(tab, op, p) == TableOf(op) = "none" \/ p < Len(tab[TableOf(op)])

validateRouterOp(prog, op, p) ==
    /\ ~(prog = "lookup" /\ isLAddrOp(op))
    /\ op # "RULE" /\ ~isSnifferOnlyOp(op) /\ ~isDNSOnlyOp(op)
    /\ op = "SLOT" => p <= RouterSlots

validateSplitOp(op, p) ==
    /\ ~isRouterMethodOp(op) /\ ~isSnifferOnlyOp(op) /\ ~isDNSOnlyOp(op)
    /\ op = "SLOT" => p <= RouterSlots

validateSnifferOp(prog, op) ==
    /\ op # "RULE" /\ ~isDNSOnlyOp(op)
    /\ prog = "control" => op \notin {"SNIFF", "SNIFF_NONE"}
    /\ prog = "sniff" => op # "INTERCEPT"

validateDNSOp(op) ==
    /\ ~isLAddrOp(op) /\ ~isRouterMethodOp(op) /\ op # "RULE" /\ ~isSnifferOnlyOp(op)
    /\ op \notin {"UDP", "TCP", "PORT", "SLOT"}

validatePredicateOp(op) ==
    op \notin {"DROP", "SLOT", "RULE"} /\ ~isSnifferOnlyOp(op) /\ ~isDNSOnlyOp(op)

validateOp(t, prog, tab, op, p) ==
    /\ InTable(tab, op, p)
    /\ CASE t = "router" -> validateRouterOp(prog, op, p)
         [] t = "split" -> validateSplitOp(op, p)
         [] t = "sniffer" -> validateSnifferOp(prog, op)
         [] t = "dns" -> validateDNSOp(op)
         [] t = "remapper" -> validatePredicateOp(op)

Terminals == {"DROP", "SLOT", "INTERCEPT", "ROUTE", "BACKEND"}

(* Mutant: a conjunction is content with one operand. *)
NeedsOne(op) == IF op \in Terminals \cup {"NOT", "AND", "OR"} THEN 1 ELSE 0

(* The values that an operation takes from the stack. *)
Needs(op) == CASE op \in Terminals \cup {"NOT"} -> 1 [] op \in {"AND", "OR"} -> 2 [] OTHER -> 0

DepthAfter(op, depth) ==
    CASE op \in Terminals \cup {"AND", "OR"} -> depth - 1 [] op = "NOT" -> depth [] OTHER -> depth + 1

Param(code, pc, op) ==
    CASE Width(op) = 0 -> 0
      [] Width(op) = 1 -> code[pc + 1]
      [] Width(op) = 2 -> code[pc + 1] + 256 * code[pc + 2]

NoDepth == 1000     \* of a program that is rejected

(* The depth of the stack that the program leaves. *)
RECURSIVE DepthFrom(_, _, _, _, _, _)
DepthFrom(t, prog, tab, code, pc, depth) ==
    IF pc > Len(code) THEN depth
    ELSE IF code[pc] >= Len(OpNames) THEN NoDepth
    ELSE LET op == Op(code[pc])
             next == pc + 1 + Width(op)
         IN IF /\ next <= Len(code) + 1
               /\ validateOp(t, prog, tab, op, Param(code, pc, op))
               /\ depth >= Needs(op)
            THEN DepthFrom(t, prog, tab, code, next, DepthAfter(op, depth))
            ELSE NoDepth

validateBytecode(t, prog, tab, code) == DepthFrom(t, prog, tab, code, 1, 0) # NoDepth

(* A predicate of a remap rule is empty, or leaves one value. *)
validatePredicate(tab, code) == code = <<>> \/ DepthFrom("remapper", "route", tab, code, 1, 0) = 1

----------------------------------------------------------------------------
(* The evaluators. An environment is what the predicates of a call, of a   *)
(* packet or of a DNS question look at.                                    *)

Methods == {"dial", "listen", "lookup"}

Envs == [method: Methods, raddr: Addrs \cup {NoMatch}, laddr: Addrs \cup {NoMatch},
         rules: SUBSET Rules, num: Numbers, sniff: Classes \cup {NoMatch}]

(* An address has all the forms in which a predicate looks at it: host,    *)
(* IP, port, reverse names.                                                *)
Matches(addr, entry) == addr \in entry

RuleMatches(env, rule) == rule \in env.rules

(* The value that a predicate pushes. *)
Value(t, tab, env, op, p) ==
    LET entry == tab[TableOf(op)][p + 1]
    IN CASE op = "TRUE" -> TRUE
         [] op = "FALSE" -> FALSE
         [] op \in RemoteOps -> Matches(env.raddr, entry)
         [] op \in LocalOps -> Matches(env.laddr, entry)
         [] op = "FQDN" -> t # "split" /\ env.raddr \in Names
         [] op = "LFQDN" -> t # "split" /\ env.laddr \in Names
         [] isRouterMethodOp(op) -> MethodOf(op) = env.method /\ ~(t = "remapper" /\ op = "LOOKUP")
         [] op = "RULE" -> RuleMatches(env, entry)
         [] op = "SNIFF" -> entry = env.sniff
         [] op = "SNIFF_NONE" -> env.sniff = NoMatch
         [] op \in NumberOps -> p = env.num

Reject == <<"slot", 0>>

Outcome(tab, op, p) ==
    CASE op = "DROP" -> Reject
      [] op = "SLOT" -> <<"slot", p>>
      [] op = "ROUTE" -> <<"slot", tab.routeActions[p + 1].slot, tab.routeActions[p + 1].mutation>>
      [] op = "BACKEND" -> <<"backend", tab.backends[p + 1]>>
      [] op = "INTERCEPT" -> <<"intercept">>

Running(s) == s.out = <<>> /\ ~s.bad

Pops(op) == CASE op \in Terminals \cup {"NOT"} -> 1 [] op \in {"AND", "OR"} -> 2 [] OTHER -> 0

(* The instruction would index outside the stack or outside a table. *)
Outside(tab, s, i) ==
    Len(s.stack) < Pops(i.op) \/ (TableOf(i.op) # "none" /\ i.p >= Len(tab[TableOf(i.op)]))

(* One instruction. bad: the code would have indexed outside a slice;      *)
(* high: the deepest stack.                                                *)
ExecStep(t, tab, env, s, i) ==
    LET n == Len(s.stack)
        top == s.stack[n]
        rest == SubSeq(s.stack, 1, n - 1)
    IN CASE ~Running(s) -> s
         [] Running(s) /\ Outside(tab, s, i) -> [s EXCEPT !.bad = TRUE]
         [] Running(s) /\ ~Outside(tab, s, i) /\ i.op \in Terminals ->
                [s EXCEPT !.stack = rest, !.out = IF top THEN Outcome(tab, i.op, i.p) ELSE <<>>]
         [] Running(s) /\ ~Outside(tab, s, i) /\ i.op = "NOT" -> [s EXCEPT !.stack[n] = ~@]
         [] Running(s) /\ ~Outside(tab, s, i) /\ i.op \in {"AND", "OR"} ->
                [s EXCEPT !.stack = Append(SubSeq(@, 1, n - 2),
                     IF i.op = "AND" THEN s.stack[n - 1] /\ top ELSE s.stack[n - 1] \/ top)]
         [] OTHER -> [s EXCEPT !.stack = Append(@, Value(t, tab, env, i.op, i.p)),
                               !.high = IF n + 1 > @ THEN n + 1 ELSE @]

(* The instructions of a program whose parameters are read unchecked. *)
RECURSIVE DecodeFrom(_, _)
DecodeFrom(code, pc) ==
    IF pc > Len(code) THEN <<>>
    ELSE <<[op |-> Op(code[pc]), p |-> Param(code, pc, Op(code[pc]))]>>
         \o DecodeFrom(code, pc + 1 + Width(Op(code[pc])))

Exec(t, tab, env, prog) ==
    FoldLeft(LAMBDA s, i : ExecStep(t, tab, env, s, i),
             [stack |-> <<>>, out |-> <<>>, bad |-> FALSE, high |-> 0], prog)

Route(t, tab, env, prog) ==
    LET s == Exec(t, tab, env, prog) IN IF s.out = <<>> THEN Reject ELSE s.out

(* The slots that a router reports for its programs. *)
mentionedBytecodeSlots(tab, prog) ==
    {prog[i].p : i \in {j \in 1..Len(prog) : prog[j].op = "SLOT"}}
    \cup {tab.routeActions[prog[i].p + 1].slot : i \in {j \in 1..Len(prog) : prog[j].op = "ROUTE"}}

----------------------------------------------------------------------------
(* The compiler of packet routes: conditions are trees with constants      *)
(* folded and chains of one connective flattened; a segment is a condition *)
(* and what the router does when it holds.                                 *)

Const(v) == [kind |-> "const", value |-> v]
Atom(i) == [kind |-> "atom", atom |-> i]
IsConst(c, v) == c.kind = "const" /\ c.value = v

NotCond(c) ==
    CASE c.kind = "const" -> Const(~c.value)
      [] c.kind = "not" -> c.child
      [] OTHER -> [kind |-> "not", child |-> c]

Children(kind, c) == IF c.kind = kind THEN c.children ELSE <<c>>

(* Mutant: a chain is flattened whatever its connective. *)
JoinAll(kind, l, r) ==
    [kind |-> kind, children |-> (IF l.kind \in {"and", "or"} THEN l.children ELSE <<l>>) \o Children(kind, r)]

join(kind, l, r) == [kind |-> kind, children |-> Children(kind, l) \o Children(kind, r)]

AndCond(l, r) ==
    CASE IsConst(l, FALSE) -> l
      [] IsConst(l, TRUE) -> r
      [] l.kind # "const" /\ IsConst(r, TRUE) -> l
      [] OTHER -> join("and", l, r)

OrCond(l, r) ==
    CASE IsConst(l, TRUE) -> l
      [] IsConst(l, FALSE) -> r
      [] l.kind # "const" /\ IsConst(r, FALSE) -> l
      [] OTHER -> join("or", l, r)

(* A condition that a flat loop can evaluate: its predicates, each with a  *)
(* negation bit. Nested shapes have none.                                  *)
IsLeaf(c) == c.kind \in {"const", "atom"} \/ (c.kind = "not" /\ c.child.kind = "atom")

Leaf(c) ==
    CASE c.kind = "atom" -> [atom |-> c.atom, not |-> FALSE]
      [] c.kind = "not" -> [atom |-> c.child.atom, not |-> TRUE]
      [] c.kind = "const" -> [atom |-> [op |-> "TRUE", p |-> 0], not |-> ~c.value]

fastPredicates(c) ==
    CASE IsConst(c, TRUE) -> [fast |-> "all", preds |-> <<>>]
      [] c.kind # "const" /\ IsLeaf(c) -> [fast |-> "all", preds |-> <<Leaf(c)>>]
      [] c.kind \in {"and", "or"} /\ \A i \in 1..Len(c.children) : IsLeaf(c.children[i]) ->
             [fast |-> IF c.kind = "and" THEN "all" ELSE "any",
              preds |-> [i \in 1..Len(c.children) |-> Leaf(c.children[i])]]
      [] OTHER -> [fast |-> "none", preds |-> <<>>]

(* One instruction of the compiler. Constants are known for every packet;  *)
(* a segment whose condition is false is left out, and one whose condition *)
(* is true ends the program.                                               *)
CompileStep(tab, s, i) ==
    LET n == Len(s.stack)
        top == s.stack[n]
        Push(c) == [s EXCEPT !.stack = Append(@, c)]
        Two(c) == [s EXCEPT !.stack = Append(SubSeq(@, 1, n - 2), c)]
    IN CASE s.status # "on" -> s
         [] s.status = "on" /\ (n < Pops(i.op) \/ (i.op \in Terminals /\ n > 1)) -> [s EXCEPT !.status = "failed"]
         [] s.status = "on" /\ i.op \in Terminals /\ n = 1 ->
                [s EXCEPT !.stack = <<>>,
                          !.segs = IF IsConst(top, FALSE) THEN @
                                   ELSE Append(@, [cond |-> top, fast |-> fastPredicates(top),
                                                   out |-> Outcome(tab, i.op, i.p)]),
                          !.status = IF IsConst(top, TRUE) THEN "done" ELSE @]
         [] s.status = "on" /\ i.op = "NOT" /\ n >= 1 -> [s EXCEPT !.stack[n] = NotCond(@)]
         [] s.status = "on" /\ i.op = "AND" /\ n >= 2 -> Two(AndCond(s.stack[n - 1], top))
         [] s.status = "on" /\ i.op = "OR" /\ n >= 2 -> Two(OrCond(s.stack[n - 1], top))
         [] s.status = "on" /\ i.op \in {"TRUE", "FALSE", "FQDN", "LFQDN"} -> Push(Const(i.op = "TRUE"))
         [] OTHER -> Push(Atom(i))

compileSplitRoute(tab, prog) ==
    LET s == FoldLeft(LAMBDA q, i : CompileStep(tab, q, i),
                      [stack |-> <<>>, segs |-> <<>>, status |-> "on"], prog)
    IN [segs |-> s.segs, ok |-> s.status = "done" \/ (s.status = "on" /\ s.stack = <<>>)]

RECURSIVE evalCond(_, _, _)
evalCond(tab, env, c) ==
    CASE c.kind = "const" -> c.value
      [] c.kind = "atom" -> Value("split", tab, env, c.atom.op, c.atom.p)
      [] c.kind = "not" -> ~evalCond(tab, env, c.child)
      [] c.kind = "and" -> \A i \in 1..Len(c.children) : evalCond(tab, env, c.children[i])
      [] c.kind = "or" -> \E i \in 1..Len(c.children) : evalCond(tab, env, c.children[i])

predicates(tab, env, f) ==
    LET Holds(q) == Value("split", tab, env, q.atom.op, q.atom.p) # q.not
    IN IF f.fast = "all" THEN \A i \in 1..Len(f.preds) : Holds(f.preds[i])
                         ELSE \E i \in 1..Len(f.preds) : Holds(f.preds[i])

routeBySegments(tab, env, segs) ==
    LET hit == {i \in 1..Len(segs) : IF segs[i].fast.fast = "none" THEN evalCond(tab, env, segs[i].cond)
                                     ELSE predicates(tab, env, segs[i].fast)}
    IN IF hit = {} THEN Reject ELSE segs[CHOOSE i \in hit : \A j \in hit : i <= j].out

(* The stack that the fallback evaluator allocates. *)
StackDepth(prog) ==
    FoldLeft(LAMBDA s, i :
                 LET d == CASE i.op \in {"DROP", "SLOT", "AND", "OR"} -> IF s.depth > 0 THEN s.depth - 1 ELSE 0
                            [] i.op = "NOT" -> s.depth
                            [] OTHER -> s.depth + 1
                 IN [depth |-> d, max |-> IF d > s.max THEN d ELSE s.max],
             [depth |-> 0, max |-> 0], prog).max

----------------------------------------------------------------------------
(* Remap rules: every segment ends with REMAP, what precedes it is the     *)
(* predicate, and every rule whose predicate holds is applied.             *)

RemapLines(src) == SelectSeq(src, LAMBDA l : l.op # "REMAP")

RemapSegments(src) == SelectSeq(splitBytecodeRuleSegments(src), LAMBDA seg : Last(seg).op = "REMAP")

(* The programs of a text: one for every method, phase or remap rule. *)
ProgramsOf(t, src) == IF t = "remapper" THEN 1..Len(RemapSegments(src)) ELSE Programs(t)

Parse(t, src) ==
    IF t = "remapper"
    THEN LET tab == parseProgramLines(newBytecodeParser, RemapLines(src)).tab
         IN [tab |-> tab, code |-> [i \in ProgramsOf(t, src) |->
                 parseProgramLines(tab, Front(RemapSegments(src)[i])).code]]
    ELSE LET tab == TablesOf(t, src)
         IN [tab |-> tab, code |-> [prog \in ProgramsOf(t, src) |-> Derived(t, tab, prog, src)]]

----------------------------------------------------------------------------
(* The depth of the stack after the lines of a text; ok: it never ran      *)
(* empty; apart: every segment used the values it pushed and no others.    *)
Depth(src) ==
    FoldLeft(LAMBDA s, l :
                 LET d == CASE EndsSegment(l) \/ l.op \in {"AND", "OR"} -> IF s.depth > 0 THEN s.depth - 1 ELSE 0
                            [] l.op = "NOT" -> s.depth
                            [] OTHER -> s.depth + 1
                 IN [depth |-> d, ok |-> s.ok /\ (l.op = "REMAP" \/ s.depth >= Pops(l.op)),
                     apart |-> s.apart /\ (EndsSegment(l) => d = 0)],
             [depth |-> 0, ok |-> TRUE, apart |-> TRUE], src)

(* No program of the target may hold this operation. *)
Refused(l) ==
    l.op # "REMAP" /\ \A prog \in Programs(target) : ~validateOp(target, prog, tables, l.op, ParamOf(tables, l))

Init ==
    /\ target \in Targets
    /\ lines = <<>>
    /\ tables = newBytecodeParser
    /\ programs = Parse(target, <<>>).code

(* One more line. A text that is refused for good is not continued, and    *)
(* the longest texts are those that end with a terminal operation.         *)
Next ==
    /\ Len(lines) < MaxLines[target]
    /\ ~Unknown(lines) /\ Depth(lines).ok
    /\ lines # <<>> => ~Refused(Last(lines))
    /\ \E l \in Lines(target) :
           /\ Len(lines) + 1 = MaxLines[target] => EndsSegment(l)
           /\ lines' = Append(lines, l)
           /\ IF Unknown(lines') THEN UNCHANGED <<tables, programs>>
              ELSE LET p == Parse(target, lines') IN tables' = p.tab /\ programs' = p.code
    /\ UNCHANGED target

Spec == Init /\ [][Next]_vars

----------------------------------------------------------------------------
Segs == splitBytecodeRuleSegments(lines)

Mixed == target = "sniffer" /\ \E i \in 1..Len(Segs) : SniffMixed(Segs[i])

ValidFor(prog, bytes) ==
    IF target = "remapper" THEN validatePredicate(tables, bytes)
    ELSE validateBytecode(target, prog, tables, bytes)

(* The whole text was accepted: no program of it is refused. *)
Accepted ==
    /\ ~Unknown(lines) /\ ~Mixed
    /\ \A prog \in DOMAIN programs : ValidFor(prog, programs[prog])
    /\ target = "remapper" => \A i \in 1..Len(Segs) : Last(Segs[i]).op = "REMAP"

(* What the predicates of a target look at; the rest is fixed. *)
EnvsOf == [t \in Targets |-> {e \in Envs :
    /\ t \notin {"router", "remapper"} => e.method = "dial" /\ e.laddr = NoMatch
    /\ t # "split" => e.rules = {}
    /\ t # "sniffer" => e.sniff = NoMatch
    /\ t # "dns" => e.num = 0}]

RunsFor(prog) == {e \in EnvsOf[target] : target = "router" => e.method = prog}

(* Validated bytecode runs without a check: cut anywhere, a program that   *)
(* the validator accepts never pops an empty stack and never leaves a      *)
(* table. The fallback evaluator of packet routes never leaves the stack   *)
(* it allocated, and a remap predicate ends with exactly one value.        *)
ValidatedRunsSafely ==
    ~Unknown(lines) => \A prog \in DOMAIN programs, cut \in 0..2 :
        LET bytes == SubSeq(programs[prog], 1, Len(programs[prog]) - cut)
        IN ValidFor(prog, bytes) =>
               LET is == DecodeFrom(bytes, 1)
                   room == StackDepth(is)
               IN \A env \in RunsFor(prog) :
                      LET s == Exec(target, tables, env, is)
                      IN /\ ~s.bad
                         /\ target = "split" => s.high <= room
                         /\ target = "remapper" => Len(s.stack) = 1 \/ is = <<>>

(* The optimised route of a packet is the route of the bytecode: constant  *)
(* folding, flattening, the flat loops and dropping what is unreachable    *)
(* never change the slot.                                                  *)
CompiledAgrees ==
    (target = "split" /\ Accepted) =>
        LET is == DecodeFrom(programs["route"], 1)
            c == compileSplitRoute(tables, is)
        IN c.ok => \A env \in EnvsOf["split"] :
                       routeBySegments(tables, env, c.segs) = Route("split", tables, env, is)

(* A router's method programs leave out segments. When the segments of the *)
(* text are independent, each method routes as the whole text would.       *)
DerivedAgrees ==
    (target = "router" /\ Accepted /\ Depth(lines).apart) =>
        LET all == parseProgramLines(newBytecodeParser, lines)
            whole == DecodeFrom(all.code, 1)
        IN \A prog \in DOMAIN programs :
               LET is == DecodeFrom(programs[prog], 1)
               IN is # whole => \A env \in RunsFor(prog) :
                      Route("router", tables, env, is) = Route("router", all.tab, env, whole)

(* Splitting a sniffer's text by phase is enough: a text of independent    *)
(* segments, none of which mixes SNIFF and INTERCEPT, is never refused for *)
(* an operation that does not belong to a phase.                           *)
PhasesAccepted ==
    (target = "sniffer" /\ ~Mixed /\ Depth(lines).ok /\ Depth(lines).apart) =>
        \A prog \in DOMAIN programs : ValidFor(prog, programs[prog])

(* A router that reports the slots it may route to reports all of them. *)
SlotsMentioned ==
    (Accepted /\ target \in {"router", "split", "sniffer"}) =>
        \A prog \in DOMAIN programs :
            LET is == DecodeFrom(programs[prog], 1)
                slots == {0} \cup mentionedBytecodeSlots(tables, is)
            IN \A env \in RunsFor(prog) :
                   LET out == Route(target, tables, env, is) IN out[1] = "slot" => out[2] \in slots
============================================================================

---------------------------- MODULE Classifiers ----------------------------
(***************************************************************************)
(* The classifiers of package sniffer that others are built from           *)
(* (sniffer/basic.go, combinators.go, classifier.go): records with a state *)
(* that Feed takes from "more" to "match" or "mismatch".                   *)
(***************************************************************************)
EXTENDS Integers, Sequences


Prefix(want) == [kind |-> "prefix", want |-> want, offset |-> 0, state |-> "more"]
Not(c) == [kind |-> "not", children |-> <<c>>, state |-> "more"]
And(cs) == [kind |-> "and", children |-> cs, state |-> "more"]
Or(cs) == [kind |-> "or", children |-> cs, state |-> "more"]
Limit(n, c) == [kind |-> "limit", limit |-> n, seen |-> 0, children |-> <<c>>, state |-> "more"]

\* prefixClassifier.Feed.
FeedPrefix(c, p) ==
    LET at[i \in 0..Len(p)] ==
            IF i = 0 THEN [c EXCEPT !.state = IF c.want = <<>> THEN "match" ELSE "more"]
            ELSE LET b == at[i - 1]
                 IN  IF b.state # "more" THEN b
                     ELSE IF p[i] # c.want[b.offset + 1] THEN [b EXCEPT !.state = "mismatch"]
                     ELSE [b EXCEPT !.offset = @ + 1,
                                    !.state = IF b.offset + 1 = Len(c.want) THEN "match" ELSE "more"]
    IN  at[Len(p)]

RECURSIVE Feed(_, _)

\* The children in turn, up to the first that has the deciding state.
FeedChildren(cs, p, decides) ==
    LET fed[i \in 0..Len(cs)] ==
            IF i = 0 THEN [stop |-> FALSE, cs |-> cs]
            ELSE IF fed[i - 1].stop THEN fed[i - 1]
            ELSE LET c == IF cs[i].state = "more" THEN Feed(cs[i], p) ELSE cs[i]
                 IN  [stop |-> c.state = decides, cs |-> [fed[i - 1].cs EXCEPT ![i] = c]]
    IN  fed[Len(cs)]

\* andClassifier.Feed and orClassifier.Feed; decides is "mismatch" or "match".
FeedAll(c, p, decides, otherwise) ==
    LET fed == FeedChildren(c.children, p, decides)
        all == \A i \in DOMAIN fed.cs : fed.cs[i].state = otherwise
    IN  [c EXCEPT !.children = fed.cs,
                  !.state = IF fed.stop THEN decides ELSE IF all THEN otherwise ELSE "more"]

FeedNot(c, p) ==
    LET child == Feed(c.children[1], p)
    IN  [c EXCEPT !.children = <<child>>,
                  !.state = CASE child.state = "match" -> "mismatch"
                              [] child.state = "mismatch" -> "match"
                              [] OTHER -> "more"]

FeedLimit(c, p) ==
    LET room == c.limit - c.seen
        part == IF room < Len(p) THEN SubSeq(p, 1, room) ELSE p
        child == Feed(c.children[1], part)
        seen == c.seen + Len(part)
    IN  [c EXCEPT !.children = <<child>>, !.seen = seen,
                  !.state = IF child.state = "more" /\ seen = c.limit THEN "mismatch" ELSE child.state]

Feed(c, p) ==
    IF c.state # "more" THEN c
    ELSE CASE c.kind = "prefix" -> FeedPrefix(c, p)
           [] c.kind = "and"    -> FeedAll(c, p, "mismatch", "match")
           [] c.kind = "or"     -> FeedAll(c, p, "match", "mismatch")
           [] c.kind = "not"    -> FeedNot(c, p)
           [] c.kind = "limit"  -> FeedLimit(c, p)

Largest(S) == IF S = {} THEN 0 ELSE CHOOSE n \in S : \A m \in S : m <= n

RECURSIVE MinSniffBufferSize(_)
MinSniffBufferSize(c) ==
    CASE c.kind = "prefix" -> Len(c.want)
      [] c.kind = "limit"  -> LET n == MinSniffBufferSize(c.children[1])
                              IN  IF n < c.limit THEN n ELSE c.limit
      [] OTHER -> Largest({MinSniffBufferSize(c.children[i]) : i \in DOMAIN c.children})

----------------------------------------------------------------------------
(* What a classifier is to say of the bytes s, all at once. *)
RECURSIVE Verdict(_, _)
Verdict(c, s) ==
    LET verdicts == {Verdict(c.children[i], s) : i \in DOMAIN c.children}
    IN  CASE c.kind = "prefix" ->
               IF Len(c.want) <= Len(s) /\ SubSeq(s, 1, Len(c.want)) = c.want THEN "match"
               ELSE IF Len(s) < Len(c.want) /\ SubSeq(c.want, 1, Len(s)) = s THEN "more"
               ELSE "mismatch"
          [] c.kind = "and" -> IF "mismatch" \in verdicts THEN "mismatch"
                               ELSE IF "more" \in verdicts THEN "more" ELSE "match"
          [] c.kind = "or"  -> IF "match" \in verdicts THEN "match"
                               ELSE IF "more" \in verdicts THEN "more" ELSE "mismatch"
          [] c.kind = "not" -> CASE verdicts = {"match"} -> "mismatch"
                                 [] verdicts = {"mismatch"} -> "match"
                                 [] OTHER -> "more"
          [] c.kind = "limit" ->
               LET n == IF Len(s) < c.limit THEN Len(s) ELSE c.limit
                   v == Verdict(c.children[1], SubSeq(s, 1, n))
               IN  IF v = "more" /\ Len(s) >= c.limit THEN "mismatch" ELSE v
============================================================================

---------------------------- MODULE Joiner_proofs ----------------------------
(* That a Tun which leaves the Joiner is out of every table, and closed by *)
(* whoever took it out, for any number of Tuns, attachments and callers:   *)
(* the inductive invariant, and that every step keeps it.                  *)
EXTENDS Joiner, TLAPS

(* Who is attached is attached as its own Tun, and nobody is once the      *)
(* Joiner is closed.                                                       *)
AttachedInv ==
    /\ \A t \in Tuns : nested[t] # Nobody => tunOf[nested[t]] = t
    /\ closed => \A t \in Tuns : nested[t] = Nobody

(* An attachment whose goroutines are yet to start is in the hands of one  *)
(* caller, and nothing is known of one that was not made.                  *)
StartInv ==
    /\ \A c \in Callers : mine[c] # Nobody => rpc[mine[c]] = "none" /\ pc[c] = "closing"
    /\ \A c, d \in Callers : mine[c] # Nobody /\ mine[c] = mine[d] => c = d
    /\ \A n \in Nested : rpc[n] = "none" =>
          /\ wpc[n] = "none"
          /\ nclosed[n] \/ Member(n) => \E c \in Callers : mine[c] = n

(* A caller that is not in a call has closed what it took out, and so has  *)
(* a Write before it is followed by another.                               *)
LeaveInv ==
    /\ \A c \in Callers : pc[c] \in {"idle", "closed"} => toClose[c] = {}
    /\ targets # <<>> => broken = Nobody

IInv == TypeOK /\ OutOfTables /\ NoTunLeaked /\ AttachedInv /\ StartInv /\ LeaveInv

(* What detachNested does to the tables. *)
LEMMA DetachTypes ==
    ASSUME Types, NEW n \in Nested, DetachNested(n)
    PROVE  /\ defaultTun' \in Nested \cup {Nobody} /\ route' \in Nested \cup {Nobody}
           /\ secondaries' \in [Tuns -> Nested \cup {Nobody}]
           /\ nested' \in [Tuns -> Nested \cup {Nobody}]
           /\ pending' \subseteq Nested
           /\ up' \in [Nested -> BOOLEAN] /\ nclosed' \in [Nested -> BOOLEAN]
<1>1. CASE RemoveAll({n})
    BY Zenon, <1>1 DEF Types, RemoveAll, Remove, Without
<1>2. CASE UNCHANGED <<members, up, nclosed>>
    BY Zenon, <1>2 DEF Types, members
<1> QED
    BY Zenon, <1>1, <1>2 DEF DetachNested

(* Every step keeps the types. *)
LEMMA TypesCorrect == Types /\ [Next]_vars => Types'
<1> SUFFICES ASSUME Types, [Next]_vars PROVE Types'
    BY Zenon
<1> USE DEF Types, members, tuns, others, rest, sides, lower, writing
<1>1. ASSUME NEW c \in Callers, NEW n \in Nested, NEW d \in BOOLEAN, Attach(c, n, d) PROVE Types'
    BY <1>1 DEF Attach, Remove, Without
<1>2. ASSUME NEW c \in Callers, NEW n \in Nested, Detach(c, n) PROVE Types'
    BY <1>2 DEF Detach, RemoveAll, Remove, Without
<1>3. ASSUME NEW c \in Callers, Close(c) PROVE Types'
    BY <1>3 DEF Close, Empty
<1>4. ASSUME NEW c \in Callers, CloseOne(c) PROVE Types'
    BY <1>4 DEF CloseOne, CloseTun
<1>5. ASSUME NEW c \in Callers, Start(c) PROVE Types'
    <2> DEFINE n == mine[c]
    <2>1. n \in Nested /\ mine' = [mine EXCEPT ![c] = Nobody]
          /\ UNCHANGED <<tunOf, closed, reads, tuns, got, writing>>
        BY Zenon, <1>5 DEF Start
    <2>2. ASSUME NEW reader \in {"wait", "done"}, rpc' = [rpc EXCEPT ![n] = reader],
                 wpc' = [wpc EXCEPT ![n] = "done"], DetachNested(n),
                 toClose' = [toClose EXCEPT ![c] = Leaving(n)], UNCHANGED pc
          PROVE  Types'
        <3>1. Leaving(n) \subseteq Tuns
            BY <2>1 DEF Leaving
        <3> QED
            BY Zenon, <2>1, <2>2, <3>1, DetachTypes
    <2>3. CASE /\ rpc' = [rpc EXCEPT ![n] = "wait"] /\ wpc' = [wpc EXCEPT ![n] = "watch"]
               /\ pc' = [pc EXCEPT ![c] = "idle"] /\ UNCHANGED <<members, up, nclosed, toClose>>
        BY Zenon, <2>1, <2>3
    <2> QED
        BY Zenon, <1>5, <2>2, <2>3 DEF Start
<1>6. ASSUME NEW c \in Callers, Returned(c) PROVE Types'
    BY Zenon, <1>6 DEF Returned
<1>7. ASSUME NEW c \in Callers, CloseReturns(c) PROVE Types'
    BY <1>7 DEF CloseReturns
<1>8. ASSUME NEW n \in Nested, ReaderWaits(n) PROVE Types'
    BY Zenon, <1>8 DEF ReaderWaits
<1>9. ASSUME NEW n \in Nested, ReaderGets(n) PROVE Types'
    BY Zenon, <1>9 DEF ReaderGets
<1>10. ASSUME NEW n \in Nested, ReaderFails(n) \/ ReaderBreaks(n) \/ ReaderCloses(n) PROVE Types'
    <2>1. CASE ReaderFails(n)
        BY Zenon, <2>1 DEF ReaderFails
    <2>2. CASE ReaderBreaks(n)
        BY <2>2 DEF ReaderBreaks
    <2>3. CASE ReaderCloses(n)
        BY Zenon, <2>3 DEF ReaderCloses, CloseTun
    <2> QED
        BY Zenon, <1>10, <2>1, <2>2, <2>3
<1>11. ASSUME NEW n \in Nested, ReaderDown(n) PROVE Types'
    BY Zenon, <1>11 DEF ReaderDown
<1>12. ASSUME NEW n \in Nested, ReaderDetaches(n) PROVE Types'
    BY Zenon, <1>12, DetachTypes DEF ReaderDetaches
<1>13. ASSUME NEW n \in Nested, ReaderRemembers(n) PROVE Types'
    BY Zenon, <1>13 DEF ReaderRemembers
<1>14. ASSUME NEW n \in Nested, ReaderSends(n) PROVE Types'
    <2>1. UNCHANGED <<members, up, nclosed, tuns, others>>
        BY Zenon, <1>14 DEF ReaderSends
    <2>2. CASE rpc' = [rpc EXCEPT ![n] = "done"] /\ UNCHANGED reads
        BY Zenon, <2>1, <2>2
    <2>3. CASE reads' = Append(reads, n) /\ rpc' = [rpc EXCEPT ![n] = "wait"]
        BY <2>1, <2>3
    <2> QED
        BY Zenon, <1>14, <2>2, <2>3 DEF ReaderSends
<1>15. ASSUME NEW n \in Nested, WatcherSees(n) PROVE Types'
    BY <1>15 DEF WatcherSees
<1>16. ASSUME NEW n \in Nested, WatcherEnds(n) PROVE Types'
    BY <1>16, DetachTypes DEF WatcherEnds
<1>17. CASE ReadPending
    BY Zenon, <1>17 DEF ReadPending
<1>18. CASE ReadReceives
    BY <1>18 DEF ReadReceives
<1>19. CASE ReadKeeps
    BY <1>19 DEF ReadKeeps, Current
<1>20. CASE WriteRoutes
    <2>1. PICK a \in Nested \cup {Nobody}, b \in Nested \cup {Nobody} :
              targets' = <<a>> \/ targets' = <<a, b>>
        <3> DEFINE toRoute == IF route # Nobody THEN route ELSE defaultTun
        <3>1. toRoute \in Nested \cup {Nobody} /\ defaultTun \in Nested \cup {Nobody}
            BY Zenon
        <3> HIDE DEF toRoute
        <3>2. PICK batch \in {<<toRoute>>, <<defaultTun>>, <<toRoute, defaultTun>>} :
                  targets' = IF Len(batch) = 2 /\ batch[1] = batch[2] THEN <<batch[1]>> ELSE batch
            BY Zenon, <1>20 DEF WriteRoutes, toRoute
        <3>3. CASE batch = <<toRoute>>
            BY Zenon, <3>1, <3>2, <3>3
        <3>4. CASE batch = <<defaultTun>>
            BY Zenon, <3>1, <3>2, <3>4
        <3>5. CASE batch = <<toRoute, defaultTun>>
            BY Zenon, <3>1, <3>2, <3>5
        <3> QED
            BY Zenon, <3>2, <3>3, <3>4, <3>5
    <2>2. targets' \in Seq(Nested \cup {Nobody}) /\ targets' # <<>>
        <3>1. CASE targets' = <<a>>
            BY <3>1
        <3>2. CASE targets' = <<a, b>>
            BY <3>2
        <3> QED
            BY Zenon, <2>1, <3>1, <3>2
    <2>3. /\ ~accepted /\ pump' \in {"select", "write", "done"}
          /\ UNCHANGED <<members, up, nclosed, tuns, accepted, broken, lower>>
        BY Zenon, <1>20 DEF WriteRoutes
    <2> QED
        BY Zenon, <2>2, <2>3
<1>21. CASE WriteAccepts
    <2>1. UNCHANGED <<members, up, nclosed, tuns, broken, pump, lower>> /\ targets # <<>>
        BY Zenon, <1>21 DEF WriteAccepts
    <2>2. CASE Head(targets) # Nobody /\ UNCHANGED targets
        BY Zenon, <2>1, <2>2
    <2>3. CASE targets' = Tail(targets) /\ ~accepted'
        BY <2>1, <2>3
    <2> QED
        BY Zenon, <1>21, <2>2, <2>3 DEF WriteAccepts
<1>22. CASE WriteNested
    <2> DEFINE n == Head(targets)
    <2>1. /\ n \in Nested /\ targets # <<>> /\ ~accepted'
          /\ UNCHANGED <<members, nclosed, tuns, broken, pump, lower>>
        BY <1>22 DEF WriteNested
    <2>2. CASE up' = [up EXCEPT ![n] = @ /\ tunUp[tunOf[n]]] /\ targets' = Tail(targets)
        BY <2>1, <2>2
    <2>3. CASE UNCHANGED up /\ targets' = <<>>
        BY <2>1, <2>3
    <2> QED
        BY Zenon, <1>22, <2>2, <2>3 DEF WriteNested
<1>23. CASE WriteFails
    <2>1. /\ Head(targets) \in Nested /\ DetachNested(Head(targets)) /\ ~accepted' /\ targets' = <<>>
          /\ broken' \in Nested \cup {Nobody} /\ UNCHANGED <<tuns, pump, lower>>
        BY <1>23 DEF WriteFails
    <2> QED
        BY <2>1, DetachTypes
<1>24. CASE WriteCloses \/ PumpReturns
    <2>1. CASE WriteCloses
        BY <2>1 DEF WriteCloses, CloseTun
    <2>2. CASE PumpReturns
        BY <2>2 DEF PumpReturns
    <2> QED
        BY Zenon, <1>24, <2>1, <2>2
<1>25. ASSUME NEW t \in Tuns, TunMoves(t) PROVE Types'
    <2>1. UNCHANGED <<members, up, nclosed, wpc, rest>> /\ moves' = moves + 1
        BY Zenon, <1>25 DEF TunMoves
    <2>2. CASE tunUp' = [tunUp EXCEPT ![t] = ~@] /\ UNCHANGED tunClosed
        <3>1. events' \in [Tuns -> Seq({"up", "down"})]
            <4>1. CASE UNCHANGED events
                BY Zenon, <4>1
            <4>2. ASSUME NEW e \in {"up", "down"}, Announce(t, e)
                  PROVE  events' \in [Tuns -> Seq({"up", "down"})]
                BY <4>2 DEF Announce
            <4> QED
                BY Zenon, <1>25, <4>1, <4>2 DEF TunMoves
        <3>2. tunUp' \in [Tuns -> BOOLEAN]
            BY Zenon, <2>2
        <3> QED
            BY <2>1, <2>2, <3>1, <3>2
    <2>3. CASE tunClosed' = [tunClosed EXCEPT ![t] = TRUE] /\ UNCHANGED <<tunUp, events>>
        BY <2>1, <2>3
    <2> QED
        BY Zenon, <1>25, <2>2, <2>3 DEF TunMoves
<1>26. CASE UNCHANGED vars
    BY Zenon, <1>26 DEF vars
<1> HIDE DEF Types, members, tuns, others, rest, sides, lower, writing
<1> QED
    BY Zenon, <1>1, <1>2, <1>3, <1>4, <1>5, <1>6, <1>7, <1>8, <1>9, <1>10, <1>11, <1>12, <1>13, <1>14, <1>15,
       <1>16, <1>17, <1>18, <1>19, <1>20, <1>21, <1>22, <1>23, <1>24, <1>25, <1>26
       DEF Next, Caller, CallerMoves, Reader, Watcher, Writer

(* What is left when the members in gone are removed. *)
LEMMA Removal ==
    ASSUME Types, OutOfTables, AttachedInv, NEW gone \in SUBSET Nested, RemoveAll(gone),
           UNCHANGED <<tunOf, closed>>
    PROVE  /\ OutOfTables' /\ AttachedInv'
           /\ \A m \in Nested : Member(m)' <=> Member(m) /\ m \notin gone
<1>1. /\ defaultTun' = (IF defaultTun \in gone THEN Nobody ELSE defaultTun)
      /\ route' = (IF route \in gone THEN Nobody ELSE route) /\ pending' = pending \ gone
      /\ \A t \in Tuns : /\ nested'[t] = IF nested[t] \in gone THEN Nobody ELSE nested[t]
                         /\ secondaries'[t] = IF secondaries[t] \in gone THEN Nobody ELSE secondaries[t]
    BY Zenon DEF RemoveAll, Remove, Without
<1>2. \A m \in Nested : Member(m)' <=> Member(m) /\ m \notin gone
    BY <1>1, NobodyAssumption DEF Types, Member
<1>3. AttachedInv'
    BY Zenon, <1>1, NobodyAssumption DEF Types, AttachedInv
<1>4. OutOfTables'
    <2>1. \A n \in {defaultTun, route}' : n # Nobody => Member(n)'
        BY <1>1, <1>2 DEF Types, OutOfTables
    <2>2. \A n \in pending' : Member(n)'
        BY Zenon, <1>1, <1>2 DEF Types, OutOfTables
    <2>3. ASSUME NEW t \in Tuns
          PROVE  /\ secondaries'[t] # Nobody => nested'[t] = secondaries'[t] /\ tunOf'[nested'[t]] = t
                 /\ nested'[t] # Nobody => (nested'[t] = defaultTun') # (nested'[t] = secondaries'[t])
        <3>1. /\ secondaries'[t] # Nobody => secondaries'[t] = secondaries[t] /\ secondaries[t] \notin gone
              /\ nested'[t] # Nobody => nested'[t] = nested[t] /\ nested[t] \notin gone
              /\ nested[t] \notin gone => nested'[t] = nested[t]
            BY Zenon, <1>1
        <3>2. /\ secondaries[t] # Nobody => nested[t] = secondaries[t] /\ tunOf[nested[t]] = t
              /\ nested[t] # Nobody => (nested[t] = defaultTun) # (nested[t] = secondaries[t])
            BY Zenon DEF OutOfTables
        <3>3. secondaries'[t] # Nobody => nested'[t] = secondaries'[t] /\ tunOf'[nested'[t]] = t
            BY Zenon, <3>1, <3>2
        <3>4. ASSUME nested'[t] # Nobody
              PROVE  (nested'[t] = defaultTun') # (nested'[t] = secondaries'[t])
            <4>1. /\ nested'[t] = nested[t] /\ nested[t] \notin gone /\ nested[t] # Nobody
                  /\ nested[t] = defaultTun' <=> nested[t] = defaultTun
                  /\ nested[t] = secondaries'[t] <=> nested[t] = secondaries[t]
                BY Zenon, <1>1, <3>1, <3>4
            <4> QED
                BY Zenon, <3>2, <4>1
        <3> QED
            BY Zenon, <3>3, <3>4
    <2> QED
        BY Zenon, <2>1, <2>2, <2>3 DEF OutOfTables
<1> QED
    BY Zenon, <1>2, <1>3, <1>4

(* What Attach leaves: the new member, and the others but for an old default. *)
LEMMA Attaching ==
    ASSUME Types, OutOfTables, AttachedInv, NEW c \in Callers, NEW n \in Nested,
           NEW d \in BOOLEAN, Attach(c, n, d)
    PROVE  /\ OutOfTables' /\ AttachedInv'
           /\ \A m \in Nested : Member(m)' <=> m = n \/ (Member(m) /\ ~(d /\ m = defaultTun))
<1> DEFINE t == tunOf[n]
           old == IF d THEN {defaultTun} \ {Nobody} ELSE {}
<1>1. /\ t \in Tuns /\ nested[t] = Nobody /\ n # Nobody /\ ~closed /\ UNCHANGED <<tunOf, closed>>
      /\ route' = (IF route \in old THEN Nobody ELSE route) /\ pending' = pending \ old
      /\ defaultTun' = (IF d THEN n ELSE defaultTun)
      /\ nested'[t] = n
      /\ secondaries'[t] = IF d THEN secondaries[t] ELSE n
      /\ \A u \in Tuns \ {t} : /\ nested'[u] = IF nested[u] \in old THEN Nobody ELSE nested[u]
                               /\ secondaries'[u] = secondaries[u]
    BY Zenon, NobodyAssumption DEF Types, Attach, Remove, Without
<1>2. secondaries[t] = Nobody
    BY Zenon, <1>1 DEF OutOfTables
<1>3. ASSUME NEW m \in Nested PROVE Member(m)' <=> m = n \/ (Member(m) /\ m \notin old)
    <2>1. m # Nobody /\ tunOf[m] \in Tuns /\ tunOf'[m] = tunOf[m]
        BY Zenon, <1>1, NobodyAssumption DEF Types
    <2>2. CASE tunOf[m] = t
        BY Zenon, <1>1, <2>1, <2>2 DEF Member
    <2>3. CASE tunOf[m] # t
        <3>1. m # n
            BY Zenon, <2>3
        <3>2. nested'[tunOf[m]] = IF nested[tunOf[m]] \in old THEN Nobody ELSE nested[tunOf[m]]
            BY Zenon, <1>1, <2>1, <2>3
        <3> QED
            BY Zenon, <2>1, <3>1, <3>2 DEF Member
    <2> QED
        BY Zenon, <2>2, <2>3
<1>4. AttachedInv'
    BY <1>1, ZenonT(30) DEF Types, AttachedInv
<1>5. \A m \in {defaultTun, route}' : m # Nobody => Member(m)'
    <2>1. defaultTun' # Nobody => Member(defaultTun)'
        BY Zenon, <1>1, <1>3 DEF Types, OutOfTables
    <2>2. route' # Nobody => Member(route)'
        BY Zenon, <1>1, <1>3 DEF Types, OutOfTables
    <2> QED
        BY <2>1, <2>2
<1>6. \A m \in pending' : Member(m)'
    BY Zenon, <1>1, <1>3 DEF Types, OutOfTables
<1>7. ASSUME NEW u \in Tuns
      PROVE  /\ secondaries'[u] # Nobody => nested'[u] = secondaries'[u] /\ tunOf'[nested'[u]] = u
             /\ nested'[u] # Nobody => (nested'[u] = defaultTun') # (nested'[u] = secondaries'[u])
    <2>1. CASE u = t
        BY <1>1, <1>2, <2>1 DEF Types, OutOfTables, Member
    <2>2. CASE u # t /\ d
        <3>1. /\ secondaries[u] # Nobody => nested[u] = secondaries[u] /\ tunOf[nested[u]] = u
              /\ nested[u] # Nobody => (nested[u] = defaultTun) # (nested[u] = secondaries[u])
            BY Zenon DEF OutOfTables
        <3>2. nested[u] # n
            BY Zenon, <2>2, NobodyAssumption DEF AttachedInv
        <3>3. nested'[u] = (IF nested[u] \in old THEN Nobody ELSE nested[u]) /\ secondaries'[u] = secondaries[u]
            BY Zenon, <1>1, <2>2
        <3> QED
            BY Zenon, <1>1, <2>2, <3>1, <3>2, <3>3
    <2>3. CASE u # t /\ ~d
        BY <1>1, <2>3 DEF Types, OutOfTables
    <2> QED
        BY Zenon, <2>1, <2>2, <2>3
<1> QED
    BY Zenon, <1>3, <1>4, <1>5, <1>6, <1>7, NobodyAssumption DEF OutOfTables

(* detachNested takes out one member, or finds it gone. *)
LEMMA Detaching ==
    ASSUME Types, OutOfTables, AttachedInv, NEW n \in Nested, DetachNested(n),
           UNCHANGED <<tunOf, closed>>
    PROVE  /\ OutOfTables' /\ AttachedInv'
           /\ \A m \in Nested : Member(m)' <=> Member(m) /\ m # n
           /\ \A m \in Nested : nclosed'[m] <=> nclosed[m] \/ (m = n /\ Member(n))
<1>1. CASE Member(n)
    <2>1. RemoveAll({n})
        BY Zenon, <1>1 DEF DetachNested
    <2>2. \A m \in Nested : nclosed'[m] <=> nclosed[m] \/ m = n
        BY <2>1, Zenon DEF Types, RemoveAll, Remove
    <2> QED
        BY Zenon, <1>1, <2>1, <2>2, Removal
<1>2. CASE ~Member(n)
    <2>1. UNCHANGED <<members, nclosed>>
        BY Zenon, <1>2 DEF DetachNested
    <2> QED
        BY Zenon, <1>2, <2>1 DEF members, OutOfTables, AttachedInv, Member
<1> QED
    BY Zenon, <1>1, <1>2

(* Every step keeps the invariant on the tables. *)
LEMMA TablesCorrect ==
    ASSUME Types, OutOfTables, AttachedInv, [Next]_vars
    PROVE  OutOfTables' /\ AttachedInv'
<1> DEFINE Goal == OutOfTables /\ AttachedInv
<1> SUFFICES Goal'
    BY Zenon
<1>0. ASSUME UNCHANGED <<tunOf, closed, members>> PROVE Goal'
    BY Zenon, <1>0 DEF members, OutOfTables, AttachedInv, Member
<1>1. ASSUME NEW c \in Callers, NEW n \in Nested, NEW d \in BOOLEAN, Attach(c, n, d) PROVE Goal'
    BY Zenon, <1>1, Attaching
<1>2. ASSUME NEW c \in Callers, NEW n \in Nested, Detach(c, n) PROVE Goal'
    BY Zenon, <1>2, Removal DEF Detach
<1>3. ASSUME NEW c \in Callers, Close(c) PROVE Goal'
    BY Zenon, <1>3 DEF Close, Empty, OutOfTables, AttachedInv
<1>4. ASSUME NEW c \in Callers, CloseOne(c) \/ Returned(c) \/ CloseReturns(c) PROVE Goal'
    BY Zenon, <1>0, <1>4 DEF CloseOne, Returned, CloseReturns
<1>5. ASSUME NEW c \in Callers, Start(c) PROVE Goal'
    <2>1. mine[c] \in Nested /\ UNCHANGED <<tunOf, closed>>
        BY Zenon, <1>5 DEF Start, Types
    <2> QED
        BY Zenon, <1>0, <1>5, <2>1, Detaching DEF Start
<1>6. ASSUME NEW n \in Nested,
             \/ ReaderWaits(n) \/ ReaderGets(n) \/ ReaderFails(n) \/ ReaderBreaks(n)
             \/ ReaderDown(n) \/ ReaderCloses(n) \/ ReaderSends(n) \/ WatcherSees(n)
      PROVE  Goal'
    BY <1>0, <1>6, Zenon DEF ReaderWaits, ReaderGets, ReaderFails, ReaderBreaks, ReaderDown, ReaderCloses,
       ReaderSends, WatcherSees, others, rest
<1>7. ASSUME NEW n \in Nested, ReaderDetaches(n) \/ WatcherEnds(n) PROVE Goal'
    BY <1>7, Detaching, Zenon DEF ReaderDetaches, WatcherEnds, others, rest
<1>8. ASSUME NEW n \in Nested, ReaderRemembers(n) PROVE Goal'
    BY <1>8, Zenon DEF ReaderRemembers, others, OutOfTables, AttachedInv, Member
<1>9. CASE ReadPending
    BY <1>9, Zenon DEF ReadPending, sides, OutOfTables, AttachedInv, Member
<1>10. CASE ReadKeeps
    BY Zenon, <1>10 DEF ReadKeeps, Current, sides, OutOfTables, AttachedInv, Member
<1>11. CASE ReadReceives \/ WriteRoutes \/ WriteAccepts \/ WriteNested \/ WriteCloses \/ PumpReturns
    BY Zenon, <1>0, <1>11
       DEF ReadReceives, WriteRoutes, WriteAccepts, WriteNested, WriteCloses, PumpReturns, sides, lower
<1>12. CASE WriteFails
    <2>1. Head(targets) \in Nested /\ UNCHANGED <<tunOf, closed>>
        BY <1>12 DEF WriteFails, Types, lower
    <2> QED
        BY Zenon, <1>12, <2>1, Detaching DEF WriteFails
<1>13. ASSUME NEW t \in Tuns, TunMoves(t) PROVE Goal'
    BY Zenon, <1>0, <1>13 DEF TunMoves, rest
<1>14. CASE UNCHANGED vars
    BY Zenon, <1>0, <1>14 DEF vars
<1> HIDE DEF Goal
<1> QED
    BY Zenon, <1>1, <1>2, <1>3, <1>4, <1>5, <1>6, <1>7, <1>8, <1>9, <1>10, <1>11, <1>12, <1>13, <1>14
       DEF Next, Caller, CallerMoves, Reader, Watcher, Writer

----------------------------------------------------------------------------
(* The flags stay Boolean. *)
LEMMA Flags == TypeOK /\ [Next]_vars => {closed, accepted}' \subseteq BOOLEAN
<1> SUFFICES ASSUME TypeOK, [Next]_vars
             PROVE  {closed', accepted'} \subseteq BOOLEAN
    BY Zenon
<1>1. closed' = closed \/ closed' = TRUE
    BY ZenonT(30) DEF Next, vars, Caller, CallerMoves, Reader, Watcher, Writer, Attach, Detach, Close, CloseOne,
           Start, Returned, CloseReturns, others, ReaderWaits, ReaderGets, ReaderFails, ReaderBreaks,
           ReaderDown, ReaderDetaches, ReaderCloses, ReaderRemembers, ReaderSends, rest, WatcherSees,
           WatcherEnds, sides, ReadPending, ReadReceives, ReadKeeps, lower, writing, WriteRoutes,
           WriteAccepts, WriteNested, WriteFails, WriteCloses, PumpReturns, TunMoves
<1>2. accepted' = accepted \/ accepted' = TRUE \/ accepted' = FALSE
    BY ZenonT(30) DEF Next, vars, Caller, CallerMoves, Reader, Watcher, Writer, Attach, Detach, Close, CloseOne,
           Start, Returned, CloseReturns, others, ReaderWaits, ReaderGets, ReaderFails, ReaderBreaks,
           ReaderDown, ReaderDetaches, ReaderCloses, ReaderRemembers, ReaderSends, rest, WatcherSees,
           WatcherEnds, sides, ReadPending, ReadReceives, ReadKeeps, lower, writing, WriteRoutes,
           WriteAccepts, WriteNested, WriteFails, WriteCloses, PumpReturns, TunMoves
<1> QED
    BY <1>1, <1>2, Zenon DEF TypeOK

(* The invariant holds at the start. *)
LEMMA InitIInv == Init => IInv
<1> SUFFICES ASSUME Init PROVE IInv
    BY Zenon
<1>1. Types
    BY DEF Init, Types, Empty
<1>2. {closed, accepted} \subseteq BOOLEAN
    BY Zenon DEF Init
<1> QED
    BY Zenon, <1>1, <1>2, NobodyAssumption DEF Init, IInv, TypeOK, Types, OutOfTables, NoTunLeaked, AttachedInv, StartInv, LeaveInv, Empty, Member

(* Every step keeps what is known of a Tun that is being attached. *)
LEMMA StartCorrect ==
    ASSUME Types, OutOfTables, AttachedInv, StartInv, [Next]_vars
    PROVE  StartInv'
<1>0. ASSUME UNCHANGED mine, \A c \in Callers : mine[c] # Nobody => pc'[c] = pc[c],
             \A n \in Nested : rpc[n] = "none" => (wpc[n] = "none" => wpc'[n] = "none"),
             \A n \in Nested : (rpc'[n] = "none" <=> rpc[n] = "none"),
             \A n \in Nested : nclosed'[n] \/ Member(n)' => nclosed[n] \/ Member(n)
      PROVE  StartInv'
    <2>1. \A c \in Callers : mine'[c] # Nobody => rpc'[mine'[c]] = "none" /\ pc'[c] = "closing"
        BY <1>0 DEF StartInv, Types
    <2>2. \A c, d \in Callers : mine'[c] # Nobody /\ mine'[c] = mine'[d] => c = d
        BY <1>0 DEF StartInv
    <2>3. ASSUME NEW n \in Nested, rpc'[n] = "none"
          PROVE  /\ wpc'[n] = "none"
                 /\ nclosed'[n] \/ Member(n)' => \E c \in Callers : mine'[c] = n
        BY Zenon, <1>0, <2>3 DEF StartInv
    <2> QED
        BY Zenon, <2>1, <2>2, <2>3 DEF StartInv
<1>1. ASSUME NEW c \in Callers, NEW n \in Nested, NEW d \in BOOLEAN, Attach(c, n, d) PROVE StartInv'
    <2>1. /\ pc[c] = "idle" /\ rpc[n] = "none" /\ UNCHANGED <<rpc, wpc>>
          /\ pc' = [pc EXCEPT ![c] = "closing"] /\ mine' = [mine EXCEPT ![c] = n]
          /\ \A e \in Callers : mine[e] # n
        BY Zenon, <1>1 DEF Attach, Fresh
    <2>2. mine[c] = Nobody
        BY Zenon, <2>1 DEF StartInv
    <2>3. ASSUME NEW m \in Nested, nclosed'[m] PROVE nclosed[m] \/ Member(m)
        BY Zenon, <1>1, <2>3 DEF Attach, Remove, OutOfTables, Types
    <2>4. ASSUME NEW m \in Nested, Member(m)', m # n PROVE Member(m)
        BY Zenon, <1>1, <2>4, Attaching
    <2> QED
        BY <2>1, <2>2, <2>3, <2>4, NobodyAssumption DEF StartInv, Types
<1>2. ASSUME NEW c \in Callers, NEW n \in Nested, Detach(c, n) PROVE StartInv'
    <2>1. \A m \in Nested : nclosed'[m] \/ Member(m)' => nclosed[m] \/ Member(m)
        BY <1>2, Removal, Zenon DEF Detach, RemoveAll, Remove
    <2>2. /\ pc[c] = "idle" /\ UNCHANGED <<rpc, wpc, mine>>
          /\ pc' = [pc EXCEPT ![c] = "closing"]
        BY Zenon, <1>2 DEF Detach
    <2> QED
        BY <1>0, <2>1, <2>2 DEF StartInv, Types
<1>3. ASSUME NEW c \in Callers, Close(c) PROVE StartInv'
    <2>1. \A m \in Nested : nclosed'[m] \/ Member(m)' => nclosed[m] \/ Member(m)
        BY Zenon, <1>3, NobodyAssumption DEF Close, Member, Empty, Types
    <2>2. /\ pc[c] = "idle" /\ UNCHANGED <<rpc, wpc, mine>>
          /\ pc' = [pc EXCEPT ![c] = "shutting"]
        BY Zenon, <1>3 DEF Close
    <2> QED
        BY <1>0, <2>1, <2>2 DEF StartInv, Types
<1>4. ASSUME NEW c \in Callers, CloseOne(c) PROVE StartInv'
    BY Zenon, <1>0, <1>4 DEF CloseOne, members, Member
<1>5. ASSUME NEW c \in Callers, Start(c) PROVE StartInv'
    <2> DEFINE n == mine[c]
    <2>1. n \in Nested /\ pc[c] = "closing" /\ mine' = [mine EXCEPT ![c] = Nobody] /\ UNCHANGED <<tunOf, closed>>
        BY Zenon, <1>5 DEF Start, Types
    <2>2. /\ rpc'[n] # "none"
          /\ \A m \in Nested \ {n} : rpc'[m] = rpc[m] /\ wpc'[m] = wpc[m]
          /\ \A e \in Callers \ {c} : pc'[e] = pc[e]
        BY <1>5, <2>1 DEF Start, Types
    <2>3. \A m \in Nested \ {n} : nclosed'[m] \/ Member(m)' => nclosed[m] \/ Member(m)
        <3>1. CASE DetachNested(n)
            BY Zenon, <2>1, <3>1, Detaching
        <3>2. CASE UNCHANGED <<members, nclosed>>
            BY Zenon, <2>1, <3>2 DEF members, Member
        <3> QED
            BY Zenon, <1>5, <3>1, <3>2 DEF Start
    <2>4. \A e \in Callers \ {c} : mine'[e] = mine[e] /\ (mine[e] # Nobody => mine[e] # n)
        BY <2>1 DEF Types, StartInv
    <2>5. mine'[c] = Nobody
        BY Zenon, <2>1 DEF Types
    <2> QED
        <3>1. ASSUME NEW e \in Callers, mine'[e] # Nobody
              PROVE  rpc'[mine'[e]] = "none" /\ pc'[e] = "closing"
            <4>1. e # c /\ mine'[e] = mine[e] /\ mine[e] \in Nested \ {n} /\ pc'[e] = pc[e]
                BY <2>2, <2>4, <2>5, <3>1 DEF Types
            <4> QED
                BY <2>2, <3>1, <4>1 DEF StartInv
        <3>2. \A e, d \in Callers : mine'[e] # Nobody /\ mine'[e] = mine'[d] => e = d
            BY <2>4, <2>5 DEF StartInv
        <3>3. ASSUME NEW m \in Nested, rpc'[m] = "none"
              PROVE  /\ wpc'[m] = "none"
                     /\ nclosed'[m] \/ Member(m)' => \E e \in Callers : mine'[e] = m
            <4>1. m # n /\ rpc[m] = "none" /\ wpc'[m] = wpc[m]
                BY Zenon, <2>2, <3>3
            <4>2. nclosed'[m] \/ Member(m)' => \E e \in Callers : mine[e] = m
                BY Zenon, <2>3, <4>1 DEF StartInv
            <4> QED
                BY Zenon, <2>4, <4>1, <4>2 DEF StartInv
        <3> QED
            BY Zenon, <3>1, <3>2, <3>3 DEF StartInv
<1>6. ASSUME NEW c \in Callers, Returned(c) PROVE StartInv'
    BY <1>6 DEF Returned, members, Member, StartInv, Types
<1>7. ASSUME NEW c \in Callers, CloseReturns(c) PROVE StartInv'
    BY <1>7 DEF CloseReturns, members, Member, StartInv, Types
<1>8. ASSUME NEW n \in Nested, ReaderWaits(n) \/ ReaderGets(n) \/ ReaderFails(n) PROVE StartInv'
    BY <1>0, <1>8 DEF ReaderWaits, ReaderGets, ReaderFails, others, members, Member, Types
<1>9. ASSUME NEW n \in Nested, ReaderDown(n) \/ ReaderSends(n) \/ ReaderBreaks(n) \/ ReaderCloses(n)
      PROVE  StartInv'
    BY Zenon, <1>0, <1>9 DEF ReaderDown, ReaderSends, ReaderBreaks, ReaderCloses, others, members, Member, Types
<1>10. ASSUME NEW n \in Nested, ReaderRemembers(n) PROVE StartInv'
    BY Zenon, <1>0, <1>10 DEF ReaderRemembers, others, Member, Types
<1>11. ASSUME NEW n \in Nested, ReaderDetaches(n) PROVE StartInv'
    BY Zenon, <1>0, <1>11, Detaching DEF ReaderDetaches, others, Types
<1>12. ASSUME NEW n \in Nested, WatcherSees(n) PROVE StartInv'
    BY Zenon, <1>0, <1>12 DEF WatcherSees, rest, members, Member
<1>13. ASSUME NEW n \in Nested, WatcherEnds(n) PROVE StartInv'
    <2>1. \A m \in Nested : nclosed'[m] \/ Member(m)' => nclosed[m] \/ Member(m)
        BY Zenon, <1>13, Detaching DEF WatcherEnds, rest
    <2>2. /\ wpc[n] = "watch" /\ wpc' = [wpc EXCEPT ![n] = "done"] /\ UNCHANGED <<rpc, pc, mine>>
        BY Zenon, <1>13 DEF WatcherEnds, rest
    <2> QED
        BY <1>0, <2>1, <2>2 DEF StartInv, Types
<1>14. CASE ReadPending \/ ReadReceives \/ ReadKeeps
    BY Zenon, <1>0, <1>14 DEF ReadPending, ReadReceives, ReadKeeps, sides, members, Member
<1>15. CASE WriteRoutes \/ WriteAccepts \/ WriteNested \/ WriteCloses \/ PumpReturns
    BY Zenon, <1>0, <1>15
       DEF WriteRoutes, WriteAccepts, WriteNested, WriteCloses, PumpReturns, lower, members, Member
<1>16. CASE WriteFails
    <2>1. Head(targets) \in Nested /\ UNCHANGED <<tunOf, closed, rpc, wpc, pc, mine>>
        BY <1>16 DEF WriteFails, Types, lower
    <2>2. DetachNested(Head(targets))
        BY Zenon, <1>16 DEF WriteFails
    <2> QED
        BY Zenon, <1>0, <2>1, <2>2, Detaching
<1>17. ASSUME NEW t \in Tuns, TunMoves(t) PROVE StartInv'
    BY Zenon, <1>0, <1>17 DEF TunMoves, rest, members, Member
<1>18. CASE UNCHANGED vars
    BY Zenon, <1>0, <1>18 DEF vars, members, Member
<1> QED
    BY Zenon, <1>1, <1>2, <1>3, <1>4, <1>5, <1>6, <1>7, <1>8, <1>9, <1>10, <1>11, <1>12, <1>13, <1>14, <1>15,
       <1>16, <1>17, <1>18 DEF Next, Caller, CallerMoves, Reader, Watcher, Writer

(* Every step keeps the invariant on Tuns that leave. *)
LEMMA LeaveCorrect ==
    ASSUME Types, LeaveInv, [Next]_vars
    PROVE  LeaveInv'
<1> USE DEF Types, LeaveInv, writing
<1>0. ASSUME UNCHANGED <<pc, toClose, targets, broken>> PROVE LeaveInv'
    BY Zenon, <1>0
<1>1. ASSUME NEW c \in Callers, NEW n \in Nested, NEW d \in BOOLEAN, Attach(c, n, d) PROVE LeaveInv'
    BY Zenon, <1>1 DEF Attach
<1>2. ASSUME NEW c \in Callers, NEW n \in Nested, Detach(c, n) PROVE LeaveInv'
    BY Zenon, <1>2 DEF Detach
<1>3. ASSUME NEW c \in Callers, Close(c) PROVE LeaveInv'
    BY Zenon, <1>3 DEF Close
<1>4. ASSUME NEW c \in Callers, CloseOne(c) PROVE LeaveInv'
    BY <1>4 DEF CloseOne
<1>5. ASSUME NEW c \in Callers, Start(c) PROVE LeaveInv'
    <2>1. pc[c] = "closing" /\ toClose[c] = {} /\ UNCHANGED <<targets, broken>>
        BY Zenon, <1>5 DEF Start
    <2>2. ASSUME NEW e \in Callers, pc'[e] \in {"idle", "closed"} PROVE toClose'[e] = {}
        BY <1>5, <2>1, <2>2 DEF Start
    <2> QED
        BY Zenon, <2>1, <2>2
<1>6. ASSUME NEW c \in Callers, Returned(c) \/ CloseReturns(c) PROVE LeaveInv'
    <2>1. /\ toClose[c] = {} /\ UNCHANGED <<toClose, targets, broken>>
          /\ \A e \in Callers \ {c} : pc'[e] = pc[e]
        BY Zenon, <1>6 DEF Returned, CloseReturns
    <2> QED
        BY Zenon, <2>1
<1>7. ASSUME NEW n \in Nested, Reader(n) \/ ReaderGets(n) \/ ReaderBreaks(n) PROVE LeaveInv'
    BY Zenon, <1>0, <1>7 DEF Reader, ReaderWaits, ReaderGets, ReaderFails, ReaderBreaks, ReaderDown,
       ReaderDetaches, ReaderCloses, ReaderRemembers, ReaderSends, others
<1>8. ASSUME NEW n \in Nested, WatcherSees(n) \/ WatcherEnds(n) PROVE LeaveInv'
    BY Zenon, <1>0, <1>8 DEF WatcherSees, WatcherEnds, rest
<1>9. CASE ReadPending \/ ReadReceives \/ ReadKeeps
    BY Zenon, <1>0, <1>9 DEF ReadPending, ReadReceives, ReadKeeps, sides
<1>10. CASE WriteRoutes \/ WriteAccepts \/ WriteNested
    BY Zenon, <1>10 DEF WriteRoutes, WriteAccepts, WriteNested, lower
<1>11. CASE WriteFails \/ WriteCloses \/ PumpReturns
    BY Zenon, <1>11 DEF WriteFails, WriteCloses, PumpReturns, lower
<1>12. ASSUME NEW t \in Tuns, TunMoves(t) PROVE LeaveInv'
    BY Zenon, <1>0, <1>12 DEF TunMoves, rest
<1>13. CASE UNCHANGED vars
    BY Zenon, <1>0, <1>13 DEF vars
<1> HIDE DEF Types, LeaveInv
<1> QED
    BY Zenon, <1>1, <1>2, <1>3, <1>4, <1>5, <1>6, <1>7, <1>8, <1>9, <1>10, <1>11, <1>12, <1>13
       DEF Next, Caller, CallerMoves, Watcher, Writer

(* NoTunLeaked, one attachment at a time. *)
Kept(n) ==
    /\ Member(n) => (rpc[n] # "done" /\ wpc[n] # "done" /\ ~nclosed[n]) \/ tunClosed[tunOf[n]]
    /\ ~Member(n) /\ nclosed[n] => \/ tunClosed[tunOf[n]]
                                   \/ rpc[n] = "close" \/ broken = n
                                   \/ \E c \in Callers : tunOf[n] \in toClose[c]

(* No Tun is leaked if each one is kept, ... *)
LEMMA KeptEach == NoTunLeaked <=> \A n \in Nested : Kept(n)
    BY Zenon DEF NoTunLeaked, Kept

(* ... and so after a step. *)
LEMMA KeptEachNext == NoTunLeaked' <=> \A n \in Nested : Kept(n)'
    BY Zenon DEF NoTunLeaked, Kept

(* When detachNested leaves a Tun that is closed or that somebody closes.  *)
LEMMA DetachKeeps ==
    ASSUME Types, OutOfTables, AttachedInv, NEW n \in Nested, DetachNested(n), Kept(n),
           UNCHANGED <<tunOf, closed>>,
           \/ tunClosed'[tunOf[n]] \/ rpc'[n] = "close" \/ broken' = n
           \/ \E c \in Callers : tunOf[n] \in toClose'[c]
           \/ /\ ~Member(n) /\ (\A c \in Callers : toClose[c] \subseteq toClose'[c]) /\ UNCHANGED tunClosed
              /\ rpc[n] = "close" => rpc'[n] = "close"
              /\ broken = n => broken' = n
    PROVE  Kept(n)'
<1>1. ~Member(n)'
    BY Zenon, Detaching
<1>2. CASE tunClosed'[tunOf[n]] \/ rpc'[n] = "close" \/ broken' = n
    BY Zenon, <1>1, <1>2 DEF Kept
<1>3. CASE \E c \in Callers : tunOf[n] \in toClose'[c]
    BY Zenon, <1>1, <1>3 DEF Kept
<1>4. CASE /\ ~Member(n) /\ (\A c \in Callers : toClose[c] \subseteq toClose'[c]) /\ UNCHANGED tunClosed
           /\ rpc[n] = "close" => rpc'[n] = "close"
           /\ broken = n => broken' = n
    <2>1. nclosed'[n] => nclosed[n]
        BY Zenon, <1>4, Detaching
    <2> QED
        BY Zenon, <1>1, <1>4, <2>1 DEF Kept
<1> QED
    BY Zenon, <1>2, <1>3, <1>4

(* Every step leaves each nested Tun with an owner. *)
LEMMA LeakCorrect ==
    ASSUME IInv, [Next]_vars
    PROVE  NoTunLeaked'
<1> USE DEF Types, writing
<1>a. Types /\ OutOfTables /\ AttachedInv /\ StartInv /\ LeaveInv /\ \A m \in Nested : Kept(m)
    BY Zenon, KeptEach DEF IInv, TypeOK
<1> SUFFICES ASSUME NEW m \in Nested PROVE Kept(m)'
    BY Zenon, KeptEachNext
<1>b. Kept(m) /\ m # Nobody /\ tunOf[m] \in Tuns
    BY Zenon, <1>a, NobodyAssumption
<1>0. ASSUME UNCHANGED tunOf, Member(m)' <=> Member(m), nclosed'[m] <=> nclosed[m],
             rpc'[m] = "done" => rpc[m] = "done", wpc'[m] = "done" => wpc[m] = "done",
             rpc[m] = "close" => rpc'[m] = "close" \/ tunClosed'[tunOf[m]],
             broken = m => broken' = m \/ tunClosed'[tunOf[m]],
             tunClosed[tunOf[m]] => tunClosed'[tunOf[m]],
             \A c \in Callers : tunOf[m] \in toClose[c] => tunOf[m] \in toClose'[c] \/ tunClosed'[tunOf[m]]
      PROVE  Kept(m)'
    BY Zenon, <1>b, <1>0 DEF Kept
<1>1. ASSUME NEW c \in Callers, NEW n \in Nested, NEW d \in BOOLEAN, Attach(c, n, d) PROVE Kept(m)'
    <2>1. /\ pc[c] = "idle" /\ rpc[n] = "none" /\ UNCHANGED <<tunOf, closed, rpc, wpc, tunClosed, broken>>
          /\ \A e \in Callers : mine[e] # n
          /\ nested[tunOf[n]] = Nobody
        BY Zenon, <1>1 DEF Attach, Fresh, tuns
    <2>2. toClose[c] = {}
        BY Zenon, <1>a, <2>1 DEF LeaveInv
    <2>3. \A e \in Callers : toClose[e] \subseteq toClose'[e]
        BY Zenon, <1>1, <1>a, <2>2 DEF Attach
    <2>4. nclosed'[m] <=> nclosed[m] \/ (d /\ m = defaultTun)
        BY Zenon, <1>1, <1>a, <1>b DEF Attach, Remove
    <2>5. d /\ m = defaultTun => tunOf[m] \in toClose'[c]
        BY Zenon, <1>1, <1>a, <1>b DEF Attach
    <2>6. Member(m)' <=> m = n \/ (Member(m) /\ ~(d /\ m = defaultTun))
        BY Zenon, <1>1, <1>a, Attaching
    <2>7. CASE m = n
        <3>1. ~Member(n) /\ n # Nobody /\ ~(d /\ n = defaultTun)
            BY Zenon, <1>a, <1>b, <2>1, <2>7 DEF Member, OutOfTables
        <3>2. ~nclosed[n] /\ wpc[n] = "none"
            BY Zenon, <1>a, <2>1 DEF StartInv
        <3> QED
            BY Zenon, <2>1, <2>4, <2>6, <2>7, <3>1, <3>2 DEF Kept
    <2>8. CASE m # n
        BY Zenon, <1>b, <2>1, <2>3, <2>4, <2>5, <2>6, <2>8 DEF Kept
    <2> QED
        BY Zenon, <2>7, <2>8
<1>2. ASSUME NEW c \in Callers, NEW n \in Nested, Detach(c, n) PROVE Kept(m)'
    <2>1. /\ pc[c] = "idle" /\ UNCHANGED <<tunOf, closed, rpc, wpc, tunClosed, broken>> /\ RemoveAll({n})
          /\ toClose' = [toClose EXCEPT ![c] = {tunOf[n]}]
        BY Zenon, <1>2 DEF Detach, tuns
    <2>2. toClose[c] = {}
        BY Zenon, <1>a, <2>1 DEF LeaveInv
    <2>3. /\ \A e \in Callers : toClose[e] \subseteq toClose'[e]
          /\ tunOf[n] \in toClose'[c]
        BY Zenon, <1>a, <2>1, <2>2
    <2>4. Member(m)' <=> Member(m) /\ m # n
        <3>1. {n} \in SUBSET Nested
            BY Zenon
        <3>2. \A k \in Nested : Member(k)' <=> Member(k) /\ k \notin {n}
            BY Zenon, <1>a, <2>1, <3>1, Removal
        <3> QED
            BY Zenon, <3>2
    <2>5. nclosed'[m] <=> nclosed[m] \/ m = n
        BY <1>a, <2>1, Zenon DEF RemoveAll, Remove
    <2> QED
        BY Zenon, <1>b, <2>1, <2>3, <2>4, <2>5 DEF Kept
<1>3. ASSUME NEW c \in Callers, Close(c) PROVE Kept(m)'
    <2>1. pc[c] = "idle" /\ UNCHANGED <<tunOf, rpc, wpc, tunClosed, broken>>
        BY Zenon, <1>3 DEF Close, tuns
    <2>2. toClose[c] = {}
        BY Zenon, <1>a, <2>1 DEF LeaveInv
    <2>3. \A e \in Callers : toClose[e] \subseteq toClose'[e]
        BY Zenon, <1>3, <1>a, <2>2 DEF Close
    <2>4. Member(m) => tunOf[m] \in toClose'[c]
        BY Zenon, <1>3, <1>a DEF Close
    <2>5. ~Member(m)'
        BY Zenon, <1>3, <1>a, <1>b DEF Close, Member, Empty
    <2>6. nclosed'[m] => nclosed[m] \/ Member(m)
        BY Zenon, <1>3, <1>a DEF Close
    <2> QED
        BY Zenon, <1>b, <2>1, <2>3, <2>4, <2>5, <2>6 DEF Kept
<1>4. ASSUME NEW c \in Callers, CloseOne(c) PROVE Kept(m)'
    <2>1. UNCHANGED <<tunOf, members, nclosed, rpc, wpc, broken>>
        BY Zenon, <1>4 DEF CloseOne
    <2>2. PICK t \in toClose[c] : /\ tunClosed' = [tunClosed EXCEPT ![t] = TRUE]
                                  /\ toClose' = [toClose EXCEPT ![c] = @ \ {t}]
        BY <1>4, Zenon DEF CloseOne, CloseTun
    <2>3. \A e \in Callers : tunOf[m] \in toClose[e] => tunOf[m] \in toClose'[e] \/ tunClosed'[tunOf[m]]
        BY Zenon, <1>a, <1>b, <2>2
    <2>4. tunClosed[tunOf[m]] => tunClosed'[tunOf[m]]
        BY Zenon, <1>a, <1>b, <2>2
    <2> QED
        BY Zenon, <1>0, <2>1, <2>3, <2>4 DEF members, Member
<1>5. ASSUME NEW c \in Callers, Start(c) PROVE Kept(m)'
    <2> DEFINE n == mine[c]
    <2>1. /\ n \in Nested /\ rpc[n] = "none" /\ toClose[c] = {}
          /\ UNCHANGED <<tunOf, closed, tunClosed, broken>>
        <3>1. /\ n # Nobody /\ n \in Nested /\ toClose[c] = {}
              /\ UNCHANGED <<tunOf, closed, tunClosed, broken>>
            BY Zenon, <1>5, <1>a DEF Start, tuns
        <3> QED
            BY Zenon, <1>a, <3>1 DEF StartInv
    <2>2. CASE /\ rpc' = [rpc EXCEPT ![n] = "wait"] /\ wpc' = [wpc EXCEPT ![n] = "watch"]
               /\ UNCHANGED <<members, nclosed, toClose>>
        BY Zenon, <1>0, <1>a, <2>1, <2>2 DEF members, Member
    <2>3. ASSUME NEW reader \in {"wait", "done"}, rpc' = [rpc EXCEPT ![n] = reader],
                 wpc' = [wpc EXCEPT ![n] = "done"], DetachNested(n),
                 toClose' = [toClose EXCEPT ![c] = Leaving(n)]
          PROVE  Kept(m)'
        <3>1. \A e \in Callers : toClose[e] \subseteq toClose'[e]
            BY Zenon, <1>a, <2>1, <2>3
        <3>2. CASE m = n
            <4>1. Member(n) => tunOf[n] \in toClose'[c]
                BY Zenon, <1>a, <2>3 DEF Leaving
            <4> QED
                BY Zenon, <1>a, <2>1, <2>3, <3>1, <3>2, <4>1, DetachKeeps
        <3>3. CASE m # n
            <4>1. (Member(m)' <=> Member(m)) /\ (nclosed'[m] <=> nclosed[m])
                BY Zenon, <1>a, <2>1, <2>3, <3>3, Detaching
            <4> QED
                BY Zenon, <1>0, <1>a, <2>1, <2>3, <3>1, <3>3, <4>1
        <3> QED
            BY Zenon, <3>2, <3>3
    <2> QED
        BY Zenon, <1>5, <2>2, <2>3 DEF Start
<1>6. ASSUME NEW c \in Callers, Returned(c) \/ CloseReturns(c) PROVE Kept(m)'
    BY Zenon, <1>0, <1>6 DEF Returned, CloseReturns, tuns, members, Member
<1>7. ASSUME NEW n \in Nested, ReaderWaits(n) PROVE Kept(m)'
    <2>1. /\ UNCHANGED <<tunOf, members, nclosed, wpc, tunClosed, toClose, broken>>
          /\ rpc'[m] = "done" => rpc[m] = "done" \/ nclosed[m]
          /\ rpc[m] = "close" => rpc'[m] = "close"
        BY Zenon, <1>7, <1>a DEF ReaderWaits, others, tuns
    <2> QED
        BY Zenon, <1>b, <2>1 DEF Kept, members, Member
<1>8. ASSUME NEW n \in Nested, ReaderGets(n) \/ ReaderBreaks(n) \/ ReaderDown(n) PROVE Kept(m)'
    <2>1. /\ UNCHANGED <<tunOf, members, nclosed, wpc, tunClosed, toClose, broken>>
          /\ rpc'[m] = "done" => rpc[m] = "done"
          /\ rpc[m] = "close" => rpc'[m] = "close"
        BY <1>8, <1>a DEF ReaderGets, ReaderBreaks, ReaderDown, others, tuns
    <2> QED
        BY Zenon, <1>0, <2>1 DEF members, Member
<1>9. ASSUME NEW n \in Nested, ReaderFails(n) PROVE Kept(m)'
    BY Zenon, <1>0, <1>9, <1>a DEF ReaderFails, others, tuns, members, Member
<1>10. ASSUME NEW n \in Nested, ReaderRemembers(n) PROVE Kept(m)'
    BY Zenon, <1>0, <1>10, <1>a DEF ReaderRemembers, others, tuns, Member
<1>11. ASSUME NEW n \in Nested, ReaderSends(n) PROVE Kept(m)'
    <2>1. /\ UNCHANGED <<tunOf, members, nclosed, wpc, tunClosed, toClose, broken>>
          /\ rpc'[m] = "done" => rpc[m] = "done" \/ closed
          /\ rpc[m] = "close" => rpc'[m] = "close"
        BY Zenon, <1>11, <1>a DEF ReaderSends, others, tuns
    <2>2. closed => ~Member(m)
        BY Zenon, <1>a, <1>b DEF AttachedInv, Member
    <2> QED
        BY Zenon, <1>b, <2>1, <2>2 DEF Kept, members, Member
<1>12. ASSUME NEW n \in Nested, ReaderDetaches(n) \/ WatcherEnds(n) PROVE Kept(m)'
    <2>1. /\ DetachNested(n) /\ UNCHANGED <<tunOf, closed, tunClosed, toClose, broken>>
        BY Zenon, <1>12, <1>a DEF ReaderDetaches, WatcherEnds, others, rest, tuns
    <2>2. CASE m = n
        <3>1. CASE Member(n)
            <4>1. tunClosed[tunOf[n]] \/ rpc'[n] = "close"
                BY Zenon, <1>12, <1>a, <3>1 DEF ReaderDetaches, WatcherEnds
            <4> QED
                BY Zenon, <1>a, <2>1, <2>2, <4>1, DetachKeeps
        <3>2. CASE ~Member(n)
            <4>1. rpc[n] = "close" => rpc'[n] = "close"
                BY Zenon, <1>12, <1>a DEF ReaderDetaches, WatcherEnds, rest
            <4> QED
                BY Zenon, <1>a, <2>1, <2>2, <3>2, <4>1, DetachKeeps
        <3> QED
            BY Zenon, <3>1, <3>2
    <2>3. CASE m # n
        <3>1. rpc'[m] = rpc[m] /\ wpc'[m] = wpc[m]
            BY Zenon, <1>12, <1>a, <2>3 DEF ReaderDetaches, WatcherEnds, others, rest
        <3>2. (Member(m)' <=> Member(m)) /\ (nclosed'[m] <=> nclosed[m])
            BY Zenon, <1>a, <2>1, <2>3, Detaching
        <3> QED
            BY Zenon, <1>0, <2>1, <3>1, <3>2
    <2> QED
        BY Zenon, <2>2, <2>3
<1>13. ASSUME NEW n \in Nested, ReaderCloses(n) PROVE Kept(m)'
    <2>1. /\ rpc[n] = "close" /\ tunClosed' = [tunClosed EXCEPT ![tunOf[n]] = TRUE]
          /\ rpc' = [rpc EXCEPT ![n] = "done"]
          /\ UNCHANGED <<tunOf, members, nclosed, wpc, toClose, broken>>
        BY Zenon, <1>13 DEF ReaderCloses, CloseTun, others
    <2>2. /\ tunClosed[tunOf[m]] => tunClosed'[tunOf[m]]
          /\ m = n => tunClosed'[tunOf[m]]
          /\ m # n => rpc'[m] = rpc[m]
        BY Zenon, <1>a, <1>b, <2>1
    <2>3. CASE m = n
        BY Zenon, <2>1, <2>2, <2>3 DEF Kept
    <2>4. CASE m # n
        BY Zenon, <1>0, <2>1, <2>2, <2>4 DEF members, Member
    <2> QED
        BY Zenon, <2>3, <2>4
<1>14. ASSUME NEW n \in Nested, WatcherSees(n) PROVE Kept(m)'
    BY Zenon, <1>0, <1>14 DEF WatcherSees, rest, members, Member
<1>15. CASE ReadPending \/ ReadReceives \/ ReadKeeps
    BY Zenon, <1>0, <1>15 DEF ReadPending, ReadReceives, ReadKeeps, sides, tuns, members, Member
<1>16. CASE WriteRoutes \/ WriteAccepts \/ WriteNested \/ PumpReturns
    BY Zenon, <1>0, <1>16
       DEF WriteRoutes, WriteAccepts, WriteNested, PumpReturns, lower, tuns, members, Member
<1>17. CASE WriteFails
    <2> DEFINE n == Head(targets)
    <2>1. /\ n \in Nested /\ DetachNested(n) /\ broken = Nobody
          /\ UNCHANGED <<tunOf, closed, rpc, wpc, tunClosed, toClose>>
        BY <1>17, <1>a DEF WriteFails, LeaveInv, lower, tuns
    <2>2. CASE m = n
        <3>1. Member(n) => broken' = n
            BY Zenon, <1>17 DEF WriteFails
        <3> QED
            BY Zenon, <1>a, <1>b, <2>1, <2>2, <3>1, DetachKeeps
    <2>3. CASE m # n
        <3>1. (Member(m)' <=> Member(m)) /\ (nclosed'[m] <=> nclosed[m])
            BY Zenon, <1>a, <2>1, <2>3, Detaching
        <3> QED
            BY Zenon, <1>0, <1>b, <2>1, <3>1
    <2> QED
        BY Zenon, <2>2, <2>3
<1>18. CASE WriteCloses
    <2>1. /\ broken \in Nested /\ tunClosed' = [tunClosed EXCEPT ![tunOf[broken]] = TRUE]
          /\ UNCHANGED <<tunOf, members, nclosed, rpc, wpc, toClose>>
        BY Zenon, <1>18, <1>a DEF WriteCloses, CloseTun, lower
    <2>2. /\ tunClosed[tunOf[m]] => tunClosed'[tunOf[m]]
          /\ broken = m => tunClosed'[tunOf[m]]
        BY Zenon, <1>a, <1>b, <2>1
    <2> QED
        BY Zenon, <1>0, <2>1, <2>2 DEF members, Member
<1>19. ASSUME NEW t \in Tuns, TunMoves(t) PROVE Kept(m)'
    <2>1. UNCHANGED <<tunOf, members, nclosed, rpc, wpc, toClose, broken>>
        BY Zenon, <1>19 DEF TunMoves, rest
    <2>2. tunClosed[tunOf[m]] => tunClosed'[tunOf[m]]
        BY <1>19, <1>a, <1>b, Zenon DEF TunMoves
    <2> QED
        BY Zenon, <1>0, <2>1, <2>2 DEF members, Member
<1>20. CASE UNCHANGED vars
    BY Zenon, <1>0, <1>20 DEF vars, tuns, members, Member
<1> QED
    BY Zenon, <1>1, <1>2, <1>3, <1>4, <1>5, <1>6, <1>7, <1>8, <1>9, <1>10, <1>11, <1>12, <1>13, <1>14, <1>15,
       <1>16, <1>17, <1>18, <1>19, <1>20 DEF Next, Caller, CallerMoves, Reader, Watcher, Writer

(* Every step keeps the invariant. *)
LEMMA NextIInv == IInv /\ [Next]_vars => IInv'
<1> SUFFICES ASSUME IInv, [Next]_vars PROVE IInv'
    BY Zenon
<1>1. TypeOK'
    BY Zenon, TypesCorrect, Flags DEF IInv, TypeOK
<1>2. OutOfTables' /\ AttachedInv'
    BY Zenon, TablesCorrect DEF IInv, TypeOK
<1>3. StartInv' /\ LeaveInv'
    BY Zenon, StartCorrect, LeaveCorrect DEF IInv, TypeOK
<1>4. NoTunLeaked'
    BY Zenon, LeakCorrect
<1> QED
    BY Zenon, <1>1, <1>2, <1>3, <1>4 DEF IInv

(* The inductive invariant holds in every state of the Joiner. *)
THEOREM Invariance == Spec => []IInv
<1>1. Init => IInv
    BY Zenon, InitIInv
<1>2. IInv /\ [Next]_vars => IInv'
    BY Zenon, NextIInv
<1> QED
    BY <1>1, <1>2, PTL DEF Spec

(* Every table, channel and program counter keeps to its values; a packet  *)
(* that acceptsWrites let pass has a nested Tun to go to.                  *)
THEOREM TypeSafety == Spec => []TypeOK
<1>1. IInv => TypeOK
    BY Zenon DEF IInv
<1> QED
    BY <1>1, Invariance, PTL

(* Whatever the order in which Attach, Detach, Close, the readers, the     *)
(* watchers, Read and Write come, a Tun that has left the Joiner is in no  *)
(* table, and it is closed or about to be: by the caller that took it out, *)
(* or by the reader or the Write to which it has failed.                   *)
THEOREM Forgotten == Spec => []DetachedForgotten
<1>1. IInv => DetachedForgotten
    BY Zenon DEF IInv, DetachedForgotten
<1> QED
    BY <1>1, Invariance, PTL
============================================================================

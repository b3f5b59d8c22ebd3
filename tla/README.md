# A verification of gonnect

gonnect is a Go library of networks that can be wrapped, stopped, routed and
tested without sockets. Most of its types are state behind a mutex, shared by
the goroutines of their users and by goroutines of their own, and most of what
can go wrong is an order of steps: an object that is created while the network
goes down, a channel that two goroutines close, a packet handed to somebody
who has left. This directory models those types in TLA+, checks the models
with TLC on small instances and proves the most important properties for
instances of any size with TLAPS.

`PROJECT.json` is the machine-readable index: components, runs, the source
lines behind every definition, a mutated definition that each property
detects, findings, hazards and theorems. Line numbers there refer to `src/`.

## 1. The system

### Parts and how they interact

| Part | Source | State | Operations | Talks to |
|---|---|---|---|---|
| DetachedNetwork | `detachable.go` | up, closed, generation, done channel, tracked objects, subscribers | Dial, Listen, Lookup, Accept, Up, Down, Close, Subscribe | the wrapped network, callbacks |
| Router | `router.go` | slots with backends, their state and generation, tracked objects per slot | Attach, Detach, the same calls and moves | backends, which notify it |
| LoopbackNetwork | `loopback.go` | up, closed, tracked objects, two registries per family | the same calls and moves | loopback TCP and UDP |
| Loopback TCP | `loopback_tcp.go` | listeners by port, accept queues, byte streams | listen, dial, accept, read, write, deadlines, close | port allocator |
| Loopback UDP, multicast | `loopback_udp.go`, `loopback_multicast.go` | sockets by address, packet queues, groups | send, receive, join, leave, close | port allocator |
| Port allocator | `loopback_helpers.go` | ports in use, counter, cursor | alloc, free | the registries |
| Callbacks | `callbacks.go`, `close.go` | once-only callback sets | Close in two steps | every wrapper |
| Sniffer network | `sniffer/network.go` | as DetachedNetwork, with outputs | intercepted dials, routing by content | outputs, put-back connections |
| Classifiers | `sniffer/` | verdict so far | feed | Sniffer |
| Put-back connection | `putback/conn.go` | bytes put back, deferred error | Read, PutBack, two-step Close | Sniffer, TLS |
| Firewalls | `firewall.go`, `tun/firewall.go`, `firewall_config*.go` | rules, tracked responses | send, receive, replace rules | wrapped network or Tun |
| Remapper, Filter, Reject | `remapper.go`, ... | rules | rewrite or refuse | wrapped network |
| Detached Tun | `tun/detachable.go` | generation, channels, pumps, pending writes | Read, Write, Up, Down, Close, Wait | the wrapped Tun |
| Joiner and its flow table | `tun/joiner*.go` | nested Tuns, pending packets, flows in LRU order | Attach, Detach, Read, Write, Close | nested Tuns |
| Splitter | `tun/splitter.go` | frontends, backend | Get, Attach, Read, Write, Up, Down | one backend Tun |
| Forwarder, Channel, Pipe, IO | `tun/` | configurations, packets in flight | swap a Tun, stop, read, write | two Tuns |
| DNS | `dns/` | request loops, cache, slots | Query, Attach, Close | upstreams, sockets |
| Allocators | `subnet/` | reserved subnets and addresses, pools | alloc, reserve, free | their callers |
| Routing bytecode | `routing/` | programs, rule and result caches | Route | Router, Splitter, Sniffer |
| TLS | `tls/`, `tlspolicy/` | leaf certificates | dial, accept, intercept | crypto/tls |
| System networks | `sysnet/`, `sockowner/`, `sockopt/`, `native*.go` | in the operating system | | package net |

### What makes it hard

* Locks are released before anything slow or foreign is called: closing a
  done channel, closing a tracked object, telling a subscriber, asking a
  backend for its state, sending to a channel. Whatever was read under the
  lock may be old by then.
* A network that went down can come up again, so a late step may meet a
  generation that is not its own.
* A call into a wrapped network or Tun cannot be interrupted: its result comes
  after the caller has gone.
* Buffers belong to a pool and go back to it from several goroutines.
* Waiting is done on condition variables and on channels that are replaced,
  where a change between the look and the wait is lost if it is not covered.

### What correctness means here

1. Nothing is lost: an object that was made and is open is in somebody's hands,
   is tracked, or is about to be closed. (All networks.)
2. Down and Close close everything that was handed out before them.
3. No channel is closed twice, no port, buffer or reference given back twice.
4. Whoever waits is told: a call that is overtaken by Down, a reader when data
   or the end comes, a dial or accept when the listener closes, Wait when the
   last pump stops.
5. Bookkeeping is exact: counters, indexes by slot, ports in use.
6. Data arrives in order, once, and before the end of the stream.

The hazards of `PROJECT.json` list where the code could break these, and which
property would tell. These are exposed too, and are covered by no property:

* Loopback UDP: the destination of a datagram is looked up, then closed, and
  its port is taken by another socket before the datagram is queued.
* `ListenMulticastUDP` checks the network and registers the socket in two
  critical sections and does not look at `up` again in the second.
* Forwarder: a configuration is stored under the lock and sent after it, so two
  that overlap may arrive in the other order.
* Splitter: the effective channel of an earlier Up is closed late.
* SubscribeCloser that races with Close; SubscribeUpDown that races with Up.
* A callback that is added to a set which has already run.
* TLS: two handshakes that miss the certificate cache together.

## 2. What is modelled

In all modules one step is one critical section of the type's mutex, one
channel operation, or one call into something the type does not own. A method
that locks several times is several steps with a program counter. A `select`
with several ready cases is a disjunction. Objects are named by the call that
makes them, done channels by their generation. What a definition translates is
in `map`; definitions marked `Fault` or `Mutant` are wrong on purpose, are used
by nothing, and exist to show that a property notices them.

### Networks that can be stopped

`DetachedNetwork.tla` has the wrapper's fields (`up`, `closed`, `gen`, `done`,
`closers`, `updowns`, `closeSubs`), the calls (`pc`, the generation and channel
that `begin` read, the result channel of `runDetachedOp`, the object) and the
goroutines inside Up, Down and Close. A call begins, resolves a name, waits for
the wrapped network or for done or for its context, is tracked in two critical
sections, and returns; a result that nobody waits for is closed by the
goroutine left behind. Accept runs through the `OnAccept` callback of the
listener. `NetworkContract.tla` is the promise in four variables: what is out,
what is dying, what is dead, and whether the network is up. `ImplementsContract`
is the refinement, with `closers` as what is out.

`Router.tla` has the slots with their generation, subscription and state, the
effective state with its done channel, tracked objects with the index by slot,
and what Attach, Detach, Up, Down and Close still have to do after the unlock
as a list `todo`. Backends move by themselves and notify their subscribers
from their own goroutine. `RouterUDP.tla` is the one object of a Router that
follows its slots: a UDP listener keeps a socket per backend, opens and closes
them as backends are attached and detached, and has a reader for each that
feeds one bounded channel. Opening a socket happens without a lock, between two
looks at the slot.

`Sniffer.tla` is the network that chooses an output by the first bytes of a
connection. An intercepted dial returns one end of a pipe at once; a bridge
reads the other, routes, dials the output and copies. Its calls have the late
results and the two critical sections of DetachedNetwork.

### The loopback network

`LoopbackPorts.tla` is the allocator, with the search loop one probe per step
and `next` as an integer of its width. `LoopbackTCPStream.tla` is one direction
of a connection: `buf` with its Go capacity, readers and writers on the
condition variable, both closes, deadlines with their timer goroutines.
`LoopbackTCP.tla` is one registry with its listeners: `Lookup`, `RegConn` and
`NewConn` of a dial as separate steps, `AcceptTCP`, and the three steps of
Close. `LoopbackUDP.tla` is the registry of sockets with their bounded queues:
a write looks its destination up, then waits for room, a deadline or a close;
`PipeUDP` connects two sockets without a registry. `LoopbackMulticast.tla` has
the groups: a write takes a snapshot of the members and queues one copy at a
time. `LoopbackNetwork.tla` is the outer layer: check and registration in two
critical sections, accepted connections, both ways to close a connection
(Close, and CloseRead or CloseWrite, which pass the wrapper's callback by), Up,
Down, Close and subscribers.
These leave to each other what each is about: LoopbackTCP and LoopbackUDP take
any free port, which is what `TakesFreePort` of LoopbackPorts allows.

### Tuns

`DetachedTun.tla` has both pumps per generation, the channels with their
capacity, requests with the `taken` and `finished` flags of `detachedTunWrite`,
and the pool as a counter per buffer (`none`, `owned`, `put`, `twice`). The
wrapped Tun may return a packet or an error at any time. Any number of callers
of Read, Down and Close is covered without state for each: `Read(g)` is enabled
whenever somebody can read, `ending` is the set of channels that a Down has yet
to close.

`Joiner.tla` puts several Tuns behind one: a reader and a watcher of events per
nested Tun, the channel they share, the batch that did not fit a Read (as the
set of members whose packets it holds), the
choice of a Tun for a Write, the write pump that Close waits for, and Attach,
Detach and Close from any goroutine. A Read or Write of an open Tun may end with
an error that ends the use of that Tun, on which the reader or the writer takes
the member out and closes its Tun after the unlock.
`JoinerFlows.tla` is the choice itself: routes of flows, fragments and
addresses, learned from packets in one direction and used in the other, in one
list by last use, with a limit and a clock that the reader of a nested Tun reads
before it takes the lock. `Splitter.tla` has the backends with their goroutines,
the write pump, the same terminal errors, and the table of frontends, `SplitFrontend.tla` the states of one frontend with
the channel that joins its own end with the Splitter's. `Forwarder.tla` has the
two goroutines that move packets from one Tun to another while both Tuns are
replaced. `TunChannel.tla` is one direction of a Pipe: a writer hands over what is
left of its batch and waits for a reader to say how much of it was taken.

### DNS

`DnsContract.tla` is what a provider promises: what it accepts it answers, once,
and Close comes back when everything accepted is answered. `DnsProvider.tla` is
the request loop that all of them are built on, and Query. Four modules extend
it with the handlers of one provider: `DnsCache.tla` (storage with expiry, an
upstream that is replaced, reverse names for the firewall), `DnsFallback.tla`
(numbered slots tried in order), `DnsRouter.tla` (a route function that is
called without the lock) and `DnsClient.tla` (servers and addresses in turn,
TLS attempts in parallel, a truncated answer asked for again over TCP).
`DnsServer.tla` and `DnsPackets.tla` bring requests in: from a packet
connection and from IP packets, both with a limit of handlers.

### Rules, classifiers, allocators

`RoutingRules.tla` parses lines of rules into stack bytecode, validates it,
derives the programs of the five users, runs them, and compiles packet routes
into segments. `FirewallRules.tla` decides about an endpoint and has the whole
optimiser of rule lists; a name is a model value with what its glob matches, with
its escapes taken literally (`Escaped`) and with its zone cut off (`Cut`). `FirewallResponses.tla` is the table of expected
answers of both firewalls, with the order of "send" and "record" that differs
between them; `FirewallTun.tla` is the filter that compacts batches of packets
in place. `Classifiers.tla` and `Sniffing.tla` are incremental recognition of a
byte stream and the loop that reads it and puts it back; a Read may bring
nothing, fail at any point, or bring bytes together with an error. `Subnets.tla` is the
arithmetic of networks as arithmetic on numbers of a few bits,
`SimpleAllocators.tla` and `CombinedAllocator.tla` the allocators on top.

### The modules for TLC

`MCNetworks`, `MCLive`, `MCRelays`, `MCMiddleware`, `MCRules` and `MCFirewall`
each hold several components. `part` is chosen in the initial state and never
changes; a component runs as if alone, under its own properties. Most of them
share the variables `s1`, `s2`, ..., and those a component does not need keep
their initial value. `MCNetworks` and `MCLive`
extend DetachedNetwork, `MCRelays` extends Joiner, `MCMiddleware` DetachedTun
and `MCRules` LoopbackPorts, so that the properties they check are the very
definitions the proofs are about. `MCNetworks` takes the loopback parts from the
modules that hold their proofs, and has theorems of its own that carry what is
proved there to the properties of the run.

## 3. What is checked

| Run | Components | Question | Result |
|---|---|---|---|
| `networks` | loopback (stream, listener, sockets, groups, network), Router, its UDP listener, DetachedNetwork | safety of objects, bytes and datagrams; refinement of NetworkContract | holds |
| `relays` | Joiner, JoinerFlows, Sniffer | what leaves is forgotten and closed; routes exact; nothing opened is lost | holds |
| `middleware` | DetachedTun, Splitter, SplitFrontend, DNS | buffers, tokens and channels given back once; answers from the right upstream, in time; refinement of DnsContract | holds |
| `rules` | RoutingRules, LoopbackPorts, Subnets, allocators, Sniffing | results against a reference definition | holds |
| `firewall` | FirewallRules, FirewallResponses, FirewallTun, TunChannel | an optimised list decides as written; answers only to what was sent; batches exact | holds |
| `live` | fifteen of the above | what must happen in the end | holds |
| `loopback_stream_capacity` | LoopbackTCPStream | a Write to somebody who keeps reading completes | **violated** |
| `loopback_network_accepted` | LoopbackNetwork | after Down nothing that was accepted is open | **violated** |
| `router_down_backend` | Router | a Router is not up when all its backends are down | **violated** |
| `detached_tun_wait` | DetachedTun | after Wait no buffer is owned | **violated** |
| `firewall_response` | FirewallResponses | an answer to an allowed datagram passes | **violated** |
| `joiner_flow_expiry` | JoinerFlows | lazy expiry cannot be told from immediate expiry | **violated** |

### The violated runs

Each states a sentence of the repository that the code does not keep; the
finding in `PROJECT.json` quotes it.

* `loopback_stream_capacity`. `Read` reslices the buffer, which takes the bytes
  off its capacity for good. One direction of a connection carries 64 KiB in
  its life; then Write waits for ever although the other end reads.
* `loopback_network_accepted`. `ListenTCP` installs the callback for AcceptTCP
  only. A connection returned by Accept is not tracked and survives Down.
* `router_down_backend`. `watchSlot` stores an answer of IsUp that may be older
  than the notification that arrived before it.
* `detached_tun_wait`. `forwardStaleRead` sends to a channel that Close has
  drained, and packets queued at Down are orphaned by the next Up.
* `firewall_response`. A firewalled connection sends the datagram and records
  its peer afterwards; an answer that comes in between is discarded. The packet
  firewall records first, and there the same property holds.
* `joiner_flow_expiry`. A reader reads the clock, then waits for the lock, and
  appends a route that expires before the one in front of it. Expiry stops at
  the first live route, so the dead one behind it still routes packets.

### Bounds

* Generations. `MaxGen` 3: a stale step needs its own generation and a later
  one; three leave room for Down, Up and a second Down around any step (the
  Sniffer has 2, a generation and its successor; the Router begins with 1
  and has 4: it comes up, goes down with objects out, and comes up again).
  `MaxSlotGen` 2 has an attachment replaced once; `MaxMoves` bounds the moves of
  what is underneath, 1 or 2 where one change in the middle of a call is the
  case of interest and 3 in `firewall`; `MaxUps`, `MaxAttach`, `MaxChanges` and
  `MaxChans` of 2 or 3 let a frontend, an upstream or a route be replaced while
  somebody still uses it.
* Goroutines. Two of each kind that race with their own kind (lifecycle
  callers, acceptors, closers, those that attach to a Splitter); one where the
  race is with another kind. DetachedNetwork has two calls and no subscriber, or
  one call and one subscriber. The Router has one backend and one slot, as slots
  share only `r.mu`, whose holder handles one slot at a time; the effective
  state over several slots is a disjunction that one slot makes true or false. An
  earlier form of RouterUDP was explored once with two backends, two
  administrators and three sockets: `SocketsOwned` held in all of its 54.9
  million states, which is too many for a run to keep.
* Where a theorem of section 4 covers any number, the run keeps to the smallest
  instance that still fires every action: one packet and one request of
  DetachedTun, one caller of Joiner, one reader and one writer of a loopback
  stream, one listener object of `LoopbackTCP` (so that in the run the port may
  be found free or reserved by a dial, but not taken over by a second
  listener).
* Capacities (`Cap`, `QueueCap`, `ChanCap`, `ReadsCap`, `EventsCap`, `Limit`)
  are 1 or 2, so that full and empty both happen.
* Numbers. `First` 4, `Last` 8: a range of ports that wraps, with ports below
  it. Two bits of IPv4 and three of IPv6 in `rules`, two bits in `firewall`:
  networks of every length, and some that do not meet. `MaxHeld` 3: a pool can
  fill, a second be opened, and be pruned when both are empty. Buffers of 0 to 3
  bytes for two sniffs.
* Rule texts. Four lines for the Router and the Sniffer, five for DNS and the
  Remapper, six for packet routes: two conditions, an operator that joins them
  and a terminal fit in four, a further segment in the longer ones. Three
  firewall rules let two be merged across a third.
* Clocks. The clock reaches 3 in `relays` (time-out 2) and in `firewall` (TTLs of
  1 and 2), past the expiry of what is stored first. In `middleware` it reaches
  1, where a cached answer with a TTL of 1 has just expired and one of 2 has not.
* `MaxBatch` 4: a packet kept, one dropped, and two that move. In `firewall` the
  pipe has two writers and one reader (see Observations for two readers); the
  packet firewall has two Reads at once, and the connection firewall two senders.
* `live` has one of most things and two of what must race to block somebody;
  liveness is checked without symmetry.

`CHECK_DEADLOCK FALSE` is set where instances run out of calls and the system
may rightly be at rest, which is in every run that has a bound on calls; the
stream run checks for deadlock.

### Fairness

Every fairness condition is weak and says that a goroutine which is inside a
method and can take a step takes it, which the Go scheduler gives. It is stated
per goroutine; in `MCLive` goroutines are numbered, and `Turn(i)` is a step of
goroutine `i` of the component that runs. Nobody is obliged to begin a call, to
call Up, Down or Close, and a wrapped network is never obliged to answer. Some
components need to know more of what they wrap: the Tun under DetachedTun
returns from its calls, which the comment of Wait asks for; calls of a Tun that
is closed return with an error, in Joiner, Splitter and Forwarder, Reads of one
that is down in Joiner and Splitter, and Writes in Forwarder; a read from a socket that RouterUDP has
closed returns; and the Sniffer's worker goes on once its caller has left. Joiner
and Splitter ask nothing of a Tun that is up and open: its calls may take for
ever. `ReadingSpec` adds that the other end keeps reading, which is
the premise of the property it is for. Symmetry is used only in runs without
liveness.

## 4. What is proved

Each theorem holds for any sets of goroutines, connections, packets and Tuns,
and every value of the bounds, that meet the assumptions named with it. All
have the same form: an inductive invariant `IInv`, a lemma that Init
establishes it, one lemma per part with a step per action, and the properties
as consequences. TLC finds no violation of any `IInv` on a small instance
either.

**DetachedNetwork** (`DetachedNetwork_proofs.tla`), from `GenAssumption` (the
bound on generations is positive) and `NoneAssumption` (the null value is not a
call). `NothingLost`, `DownPromise`, `NoDoubleClose` and `CloserSubscriptions`
are invariants that `networks` checks, and `Refinement` says that the wrapper
implements `NetworkContract`. `TypeSafety` and `CancellationReaches` (a call that
waits holds a channel which is live, closed or about to be closed) are further
results. That a channel is closed once needs that every channel but the current
one was closed or is in the hands of exactly one goroutine that will close it;
that nothing is lost needs to know what a call holds at each place it can be.
`IInv` has `CallInv` (what a call holds), `CloserInv` (a registered object is
open and of the generation that is up), `CallerInv` (what a Down or Close
holds), `DoneInv` (who closes which channel), `WaitInv` and `SubInv`.

**DetachedTun** (`DetachedTun_proofs.tla`), from `BoundAssumption` (a positive
bound on generations, a capacity that is a number), `RequestAssumption` (finitely
many writes, so that they can be counted) and `NoneAssumption`. `BuffersOnce`:
no buffer goes to the pool twice, and none while the wrapped Tun uses it.
`PendingCounted`: the counter that Wait blocks on is the number of writes begun
and not finished. `TypeSafety` follows from both. Whether a buffer may be put
back depends on where the packet is, so `PacketInv` gives each packet one
place, `RequestInv` says which of caller and pump has a request, and `DoneInv`
which generation is live.

**Joiner** (`Joiner_proofs.tla`), from `NobodyAssumption`. `Forgotten`: no table
and no kept packet refers to a nested Tun that left, and its Tun is closed or
about to be. `DetachedForgotten` is two of the conjuncts of `IInv`,
`OutOfTables` and `NoTunLeaked`; what makes them inductive is how far an Attach
and the goroutines of a member are (`AttachedInv`, `StartInv`) and who still has
to close what it took out (`LeaveInv`): the caller of Detach or Close, or the
reader or the Write that met a terminal error.

**LoopbackTCPStream** (`LoopbackTCPStream_proofs.tla`), from `Sizes` (the capacity
and the bound on a call are numbers). `BytesInOrder`, `EndAfterData`,
`WakeupsKept` and `TypeSafety`. `DataInv` says that what was read, followed by
what is buffered, is what was written; `CloseInv` what the closes leave
possible; `WakeInv` that whoever waits has nothing to do or is about to be
woken, for which a deadline in the future must have its timer.

**LoopbackTCP** (`LoopbackTCP_proofs.tla`), from `Distinguished`: the capacity is a
number, the null value is neither a listener nor a port, a listener is not a
connection, and port 0 is not used. The last is a restriction of the code's
inputs, not only of notation: see "00" under Observations. `ExactlyOnePlace`: an
open server end is with exactly one of its dial, a queue, the caller of
AcceptTCP, and a Close that drains the queue. `CloseLeavesNothing`,
`WakeupsKept` and `TypeSafety`. `Placed` says for each connection where it may
be, `QueuesInv` that a queue has no connection twice and a closed listener an
empty one, `CloseInv` that one Close at a time drains a listener and that the
registry and the listeners agree on ports.

**LoopbackNetwork** (in `LoopbackNetwork.tla`), from `MaxMoves` being a number.
`OpenIsTracked`: an open object in a user's hands is tracked or about to be
closed by a Down or Close, and what is tracked is open or was closed with
CloseRead or CloseWrite. `Tracked` follows an object through the calls and the snapshots of Down
and Close, and `SnapshotsDone` says that a mover which is not closing holds
nothing.

**MCNetworks** carries the last three to the run. `PartsInv` is their invariants,
each for its own part; `StreamsExact`, `ListenersExact` and `TrackedExactly`
prove `StreamExact`, `ListenerExact` and `TrackedWhileOpen`, the definitions that
`networks` checks. `StreamAssumption`, `ListenerAssumption` and
`MovesAssumption` are the assumptions above for the constants of that module,
and TLC evaluates them.

**LoopbackPorts** (in `LoopbackPorts.tla`), for every range with `PortAssumption`
(at least three ports, not beginning at zero). `CountCorrect` and the action
property `AllocCorrect` are checked by `rules` too; `SearchCorrect` and
`TypeSafety` are further results. The invariant ties the counter to the
cardinality of the ephemeral ports in use; the search has a port to find because
the counter is below the limit when it begins.

### What is only model-checked

* Liveness: it needs fairness and ENABLED, which are out of the prover's reach.
* What a recursive function computes for every input, which needs induction over
  data; and everything about RoutingRules, FirewallRules, Classifiers and
  Sniffing, which declare or use RECURSIVE operators, and with which the prover
  loses its SMT backend.
* Safety that could be proved and is not: `RouterExact`, `DatagramsExact`,
  `SocketsOwned` and `TypesOK` of `networks` (the last has the types of the
  Router and the sockets among others); `RoutesExact`, `NothingForgotten` and
  `FirstOwnerKeeps` of `relays`; `ReplacedClosed`, `AnswererRight`, `CachedFresh`,
  `ExchangesEnd`, `TokensExact` and `KeepsContract` of `middleware`; `BatchesExact`,
  `ResponseEarned` and `TunResponsePasses` of `firewall`; `AllocatorsExact` of
  `rules`. For these the small instances are all there is.

## 5. Observations

Seen while modelling; no run reports them as violated.

Networks:

* SubscribeUpDown of DetachedNetwork, LoopbackNetwork and Sniffer decides under
  the lock and calls `u.Down()` after it. If Up runs in between, the subscriber
  is left down under a network that is up.
* `finishTracked` of Router compares the generation of the Router and not that
  of the slot: an object of a detached backend can be tracked under the slot's
  new backend, and is closed with it.
* `routerUDPConn.WriteTo` may open a socket of a backend that was detached after
  it looked; the socket stays until the listener is closed.
* LoopbackNetwork can register an object after Down when the check came before
  it; Close or the next Down closes it (`TrackedWhileOpen` says it is tracked).
* CloseRead and CloseWrite of a loopback TCP connection close it whole but run
  no callback of the wrapper: the network keeps the closed connection in its map
  until somebody calls Close on it too, or the network goes down.
* A multicast socket is not unregistered from the network when it is closed, and
  a join that races with Close leaves a closed socket a member of its group.
* A multicast write that waits for a full recipient is not freed by closing its
  own socket, and a stream Write that waits for room not by closing its own end.
* A deadline of a loopback UDP socket does not affect a call that waits already.
* "0" and "" ask for any free TCP port, but a port that is spelled otherwise and
  parses to 0, such as "00", is registered as port 0. UnregListener and
  UnregConn return early for port 0, so it is not given back, and its listener
  stays in the registry after Close. `TCPPorts` leaves 0 out; with 0 in it TLC
  finds `CloseComplete` violated, and `OnePlace` and `NobodyForgotten` kept.
* The port allocator refuses while two ephemeral ports are left.

Tuns:

* DetachedTun.Down and Splitter's Down send their event after the unlock, so it
  may follow the EventUp of a later Up.
* A reader of Joiner that comes late with ErrDetachedTunDown, after the EventUp
  that should wake it, is not resumed.
* When the first nested Tun that a Joiner asks for its MTU fails, the others can
  only lower the default, so MTUs that are all larger are not taken.
* A frontend of a Splitter can be told that it is down while it is up, when the
  effective channel of an earlier Up is closed late.
* Two overlapping calls of SetReadTun can close the Tun that was set last.
* Packets of a Channel and the answers to them travel on two channels. With two
  writers and two readers at once, a writer may take the answer to the other's
  packet and use its buffer again while it is read.
* `tun.Copy` waits for both directions. The one that failed closes the Tun it
  read from; the other goes on waiting in Read while the other Tun is idle.

DNS:

* Query on a closed provider waits until its context ends; the comment in
  `types.go` says that ErrClosed is returned.
* A TTL of zero also means that none was seen: in `minTTL` a later, positive TTL
  replaces it.
* Cache looks whether its upstream is the same and stores the answer in two
  steps, so an answer of the old upstream can be stored after Attach.
* Server drops a packet without SERVFAIL when the upstream answers with
  context.Canceled. Close of Server does not wait for packet handlers, and a
  callback of IPPacketAdapter may still run after its Close has returned.

Rules and allocators:

* `NewBytecodeRulesProgram` leaves out a segment with a terminal that is false,
  although the segment leaves values on the stack.
* What Optimize returns depends on the order of the rules. What it decides is
  what the rules decide as written if no name in them holds a "%" or a backslash
  (`PolicyKept`); the comment of Optimize makes no such exception. A host with a
  "%" is cut by `canonicalFirewallHosts` and not by
  `compileFirewallHostSelector`, so that "*%eth0" becomes "*" and matches more.
  A glob that looks covered is dropped by comparing patterns as they are spelled:
  "?n" drops "\\n", which matches "n" alone. TLC finds `PolicyKept` violated
  without either premise.
* `tun.Firewall` records the lease of a packet before it hands the packet out,
  and keeps it when that fails for want of room in the caller's buffer: a peer
  then has a lease for a packet that its sender's network never saw.
  `ResponseEarned` asks of the Tun only that the packet was read and allowed.
* A record that comes later replaces a longer lease of a response by a shorter
  one, if the TTL was lowered in between, or if it is of a second reader of the
  Tun that took its time earlier. `TunResponsePasses` excepts both.
* `FromRange` refuses the range of all IPv6 addresses, whose size has 129 bits,
  although it is the network ::/0.
* AllocIP of CombinedAllocator that fails leaves an extra pool subnet reserved.
* The metadata of an `Or` of classifiers depends on how the bytes arrive.

## 6. Not modelled

* Protocol classifiers, DNS messages and names, packet headers, text of rules
  and addresses: pure functions of bytes, without state between calls. The
  modules have their results as data.
* Callbacks and wrapped connections: their effect is in the networks that
  install them. Their two-step Close is left out, here and in putback.
* Remapper, Filter, Reject, protected networks, the resolver adapter: delegation
  that rewrites or refuses, without state.
* TLS and TLS policy: handshakes and certificates depend on crypto/tls.
* Native network, socket options and owners, system networks: their state is in
  the operating system.
* `failCurrentPump` of DetachedTun, called when the wrapped Tun reports an MTU
  for which no read buffer can be had: it does from the goroutine of events what
  a failing pump does.
* Copy, IO, Point2Point: loops over two Tuns. The default allocator fills in the
  configuration of CombinedAllocator.
* Derived offsets, batch sizes and MTUs of Tuns; the events that Tuns send to
  their users; wrappers of DetachedTun that borrow the channels of another; the
  two result caches of packet routes; subscribers of Router and Sniffer, which
  are those of DetachedNetwork again.
* Test helpers and examples.

`components` in `PROJECT.json` gives the reason for each.

## 7. Running it

    tlc -config Networks.cfg MCNetworks
    tlc -config Live.cfg MCLive
    tlapm DetachedNetwork_proofs.tla

and likewise for DetachedTun_proofs, Joiner_proofs, LoopbackTCPStream_proofs,
LoopbackTCP_proofs, LoopbackNetwork, LoopbackPorts and MCNetworks. Each run takes
between a few seconds and about three minutes on two cores, and so does each module of
proofs.

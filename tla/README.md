# XIA content cache: TLA+ models and proofs

This directory holds TLA+ models of the XIA prototype in `src/`, the TLC
configurations that check them on small instances, and TLAPS proofs of the
properties that matter most for all instances. `PROJECT.json` lists the
components, runs, mutants, findings, hazards and theorems, and maps each definition
to the source lines it stands for.

## 1. The system

An XIA host runs a Click router whose `XTRANSPORT` element implements the sockets.
Applications link the `Xsocket` library, which turns each call into a protobuf
message on a UDP port; the port is the name of the socket inside Click. Click runs
an element's handlers one at a time, so **a handler is atomic**. What makes the
system hard is everything between handlers: packets that are lost, repeated or
reordered, API calls of several sockets, and one timer for all of them.

Around Click run daemons, each a single-threaded loop: `xcached` keeps content for
applications, `xrouted` computes the routes between ADs, `xhcp` tells a host in
which AD it is, and the name server maps names to DAGs. They share no memory; they
meet in messages, in Click's tables, and in signals and processes that end.

| Part | State | Operations | Model |
|---|---|---|---|
| `XTRANSPORT`, stream sockets (`xtransport.cc/.hh`) | `portToDAGinfo`, `portToActive`, `XIDtoPort`, `XIDpairToPort`, `pending_connection_buf`, routes; per socket timers, counters, `sent_pkt` | `Xsocket`, `Xbind`, `Xconnect`, `Xaccept`, `Xsend`, `Xclose`, SYN/SYNACK/DATA/ACK, `run_timer` | `StreamSocket`, `XTransport`, `XStream`, `ReliableStream` |
| `XTRANSPORT`, chunk sockets | `XIDtoCIDreqPkt`, `XIDtoExpiryTime`, `XIDtoTimerOn`, `XIDtoStatus`, `XIDtoReadReq`, `XIDtoCIDresponsePkt` | `XrequestChunk`, `XreadChunk`, `XgetChunkStatus`, `ProcessCachePacket`, CID part of `run_timer` | `XChunk`, `ChunkReads` |
| `XTRANSPORT`, datagrams, XCMP, options, mobility, chunk publishing | same tables, `XIDtoPushPort`, `xcmp_listeners` | `Xsendto`, `Xsetsockopt`, `Xchangead`, `XputChunk`, `XpushChunkto`, ... | no |
| `Xsocket` library (`api/xsocket`) | socket map, UDP ports | blocking halves of the calls | inside `XTransport`, `XChunk`, `XHost` |
| `xcache` | `sliceMap`, `metaMap`, `MemHt`, connections | STORE, NEWSLICE, GETCHUNK, STATUS, select loop, API | `XCache` |
| `xrouted` | neighbour, network and route tables, sequence numbers | hello, LSA, shortest paths, SIGALRM, restart | `XRouted`, `ShortestPath` |
| `xhcp`, name server, host routes of `xrouted` | AD, beacon count, Click's tables, name table, time stamps | beacon, register, migrate, expire, purge, restart | `XHost` |
| forwarding elements | XID tables, fast-path lines, ARP table | lookup, update | HID table in `XHost` |
| `dagaddr`, `xwrap`, `xssl`, applications, tools, vendored code | | | no |

## 2. Modules

* **`StreamSocket`**: a `DAGinfo` and what each handler makes of it, as operators
  from a `DAGinfo` to the next. The two state machines below share them, so a
  handler is written down once. A path is its destination XID; a stored packet its
  number and payload; a `Timestamp` the question whether it has passed.
* **`ReliableStream`**: the abstract service. Each side sends, and is given the
  peer's payloads one by one, in order.
* **`XStream`**: one established connection between the socket that called
  `Xconnect` and the one `Xaccept` returned. `dag[s]` is the `DAGinfo` of side `s`;
  `data` and `acks` are the packets in flight; `sent` and `rcvd` are histories of
  the applications. `RecvDATA`, `RecvACK`, `RecvSYNACK` are the branches of
  `ProcessNetworkPacket`; `TimerData` and `TimerTeardown` those of `run_timer`. A
  packet stays in the network once it is sent, so it may be received late, many
  times, out of order or never; `LoseDATA` and `LoseACK` remove it for good.
* **`XTransport`**: the element with its tables, several client, listening and
  accepted sockets, SYN retransmission, and the library's side of `Xconnect` and
  `Xaccept`. `inbox[p]` is everything pushed to UDP port `p`, `taken[p]` how much of
  it the library has read.
* **`XChunk`**: one chunk socket with several CIDs, its timers, answers that may be
  corrupt, and an `XreadChunk` that blocks.
* **`ChunkReads`**: the abstract service of a chunk socket. A read of a chunk that was
  asked for gets one reply, about that chunk, and returns it. In the mapping a CID is
  asked for when `XIDtoStatus` knows it, and the reply is the first datagram on the port.
* **`XCache`**: `xcached` and several applications. `fds` are the connections of
  this pass of the loop still to be looked at and `partial` a long command whose do
  loop reads on, so a step of the model is one `read` with what follows from it. A
  command is reduced to what decides its fate: longer than one read of 512 bytes or
  not, a zero byte in it or not. A long command and the messages read after it are parsed
  as one, where later fields override earlier ones: `Merged` is everything that may come
  of it, with any command and any context id. `xcached` becomes `"dead"` where the code
  dereferences NULL or writes to a closed connection, and `"searching"` when `search`
  never comes back. `XcacheMeta::len` is never set, so a new
  meta has any length of `Lengths`; `allfds` is never cleared, so `stray` is any
  Boolean.
* **`ShortestPath`**: `calcShortestPath` as a function of the link-state table, step
  by step as the loop does it, beside a definition of shortest paths by distance.
* **`XRouted`**: one `xrouted` per AD. `lsas` holds who broadcast which LSA, so a copy
  may arrive from any neighbour, late and repeated. `processHello` is split where
  the signal handler can see the tables half changed (`counting`). The filter loop
  of `calcShortestPath` erases the entry it stands on, which leaves open what
  it meets next: any subset of the abnormal entries may survive. `age` numbers the
  LSAs of a router and is history.
* **`XHost`**: one mobile host, the gateways of the ADs, the name server. An AD stands
  for its gateway's HID and 4ID. `beacon_reception_count` is kept exact up to the
  wait and from then on modulo the response frequency, which is all the code looks
  at. `waiting` is `xhcp_client` inside `_xregister`; a request carries the run of the
  client that waits for it, so an answer to a dead client is nobody's. An application may
  register any name, the hostname included, for any DAG (`XregisterName`, then `claimed`),
  and each gateway's `xrouted` may be started again (`XroutedRestart`, then `rebooted`).
* **`MCXStream`, `MCXTransport`, `MCXCache`, `MCXRouted`**: values for the constants; `MCXRouted`
  also evaluates `CalculationIsRight`, the comparison of the two halves of
  `ShortestPath`.
* **`XStreamProofs`, `XTransportSteps`, `XTransportProofs`, `XChunkProofs`,
  `XCacheProofs`, `ShortestPathProofs`, `XRoutedProofs`, `XHostProofs`**: the proofs.

Definitions such as `InSequenceAnyLater` or `QueuedOnce` that stand before the
definition they resemble are plausible faults. Substituting one of them must make
TLC report a violation; `PROJECT.json` pairs each property with the fault it catches.

## 3. Runs

| Run | Checks | Shows |
|---|---|---|
| `stream_safety` | types, in-order delivery, sound ACKs, buffering, timer, refinement of `ReliableStream` | Go-Back-N is safe with both directions active, window overrun, give-up and teardown |
| `stream_liveness` | `EventuallyDelivered`, `ReceiverIsTornDown` | delivery within a window and teardown of a receiver, except for a client disarmed by a duplicate SYNACK |
| `stream_window` (violated) | `Reliable` | one packet over the window shares a slot; the ACK of the older packet clears it, and the newer one is never resent |
| `stream_teardown` (violated) | `ClosedIsTornDown` | an ACK after `Xclose` cancels the teardown |
| `transport_connect` | one grant, no dangling SYNACK, no aborted accept, open sockets reachable | the tables are consistent across every order of open, accept, close, teardown |
| `transport_data` | types, in-order data on accepted sockets | also when a repeated SYN creates a second accepted socket |
| `transport_accept` (violated) | `AcceptsOwnRequest` | two listeners get each other's connections |
| `transport_early_data` (violated) | `ConnectConsumesGrant` | data before the SYNACK is swallowed by `Xconnect` |
| `chunk` | types, timers, own chunk, blocked reader noted, `ReadReturns`, refinement of `ChunkReads` | reads and answers interleave safely, a read gets one reply, and reads return |
| `xcache` | types, reference counts, stored content, slices not shared, `SliceIsGranted`, `StoredByOwner` | slices, metas and store agree across interleaved commands, exits, merged commands and the daemon's death; a command that came whole changes only its sender's slice; a proper NEWSLICE comes back |
| `xrouted` | types, true link state, faithful flooding, routes to neighbours, `RoutesAreShortest`, `RecordsOnlyGetNewer` | link-state routing is sound over reordering, restart, the end of the sequence numbers and the timer signal; an old LSA never replaces a newer one in sequence |
| `xhost` | types, Click follows beacons, settled means registered, hostnames keep their HID, three liveness properties | a host that moves and stays becomes reachable again; one that left is purged; only `XregisterName` takes a hostname from its host |

**Findings.** The four violated runs state what the repository's documentation
says; `PROJECT.json` quotes the lines. In short: `Xsend` has no window check;
`timer_on` serves both retransmission and teardown; the pending queue is shared
by all listeners; and `Xconnect` takes any datagram for its answer.

Met while modelling, and visible as conditions of properties that pass: every
SYNACK clears `timer_on`, also when DATA is waiting for its ACK, which is then neither
resent nor given up (`SynackDisarmed`); the cache
daemon waits in `read` for whoever sent a long command (`Blocked`), and what it then
parses may store into the slice of another application (`StoredByOwner` is said of
commands that came whole); the teardown of a listener takes the route of the accepted
sockets that are still open (`Serves`); a plain registration overwrites a hostname with no
check, and the host does not register again until it moves (`claimed`); an `xrouted` that
was started again never purges a host that left before (`Forgotten`); a command
with a zero byte is dropped unanswered (`ProperlyAsked`); an LSA sent before a
wrap of the sequence number replaces one sent after it, so `RecordsOnlyGetNewer` is
said of routers whose numbers have not wrapped or begun again (`InSequence`); a registration whose answer is lost is waited for without
end (`Hung`); `migrate` leaves service names in the old AD although `ns.cc:105` says
it updates them; a chunk's status stays `READY_TO_READ` after it was read.

**Bounds.** A window of 2 with 3 sends on one side wraps `sent_pkt`; two payload
values tell a repeated from a skipped delivery; one retry makes both the
retransmission and the give-up happen. In `stream_safety` nothing is destroyed
(`MaxLosses = 0`): not receiving a packet already covers loss for safety. The
liveness run destroys one packet and has one duplicate SYNACK. `transport_connect` has two clients, two
listeners, two accepted sockets and three SYNs, so requests for different listeners
and repeated requests meet in the queue; `transport_data` has one client, one
listener and two accepts, and the client sends two packets (`ClientSends`), which may
arrive in either order and repeatedly; the accepted sockets send (`AcceptedSends`) only in
`transport_early_data`. Ports of a kind are interchangeable (symmetry), and no
liveness is checked under symmetry. `chunk` has two CIDs and two losses.

`xcache` has two applications with three commands and two, which is enough for one to
send a long command and what is taken for its end while the other has a slice, for one
to block the daemon and the other to wait, for two slices to share a meta (the library
names every chunk `CID:TODO`, so there is one CID), and for a length that fits a slice
and one that does not. `xrouted` is a line of three routers. Router 1 only listens,
hears router 3 through router 2 alone, and may restart; router 2 sends one LSA and
router 3 two, with the last two sequence numbers, after which its counter wraps to 0;
`RecordsOnlyGetNewer` needs two LSAs in sequence that overtake each other, and an LSA with
number 0 after the wrap is left to the proofs, which hold for every first number.
`MAX_SEQNUM` and the window have the code's values; one hello precedes each LSA, and a calculation is
due after two LSAs instead of four. `CalculationIsRight` adds every table of three
routers and every undirected network of five. `xhost` has two ADs and two moves, so
the host may come back to an AD that still holds its old state, and one restart of
a client, name server or `xrouted`, failure or registration of another; the frequency 3 does not divide the wait 5, so
registering with the gateway and with the name server happen at different beacons.

**Deadlock** is checked in `chunk` only. A connection that is closed and torn down
stops, applications of the cache may all exit, routers run out of ticks, and in
`xhost` a queue of beacons is full while the client hangs.

**Fairness.** `run_timer` always reschedules itself for the earliest pending expiry,
so an armed timer fires (`TimerData`, `TimerCID`). It prefers an expired
retransmission to an expired teardown, so a teardown is owed only while no data ACK
is awaited. A packet that stays in the network arrives; in `XChunk` a publisher that
gets a request answers it. The loop of `xcached` runs while it has anything to do. In
`XHost` `xhcp_server` sends a beacon every interval, each daemon's loop goes on, time
passes (`Expire`), and a request or answer on a link the host has not left is
delivered. Applications owe nothing, except that one blocked in a call to the cache
takes the answer that has come.

## 4. Proofs

All of section 4 holds for every window size, retry limit, set of ports, clients,
CIDs or ADs, and every bound, with one exception: that routes are shortest is proved
for networks of at most `MAX_HOP_COUNT` ADs (see `ShortestPathProofs`).

Assumptions: `MAX_WIN_SIZE > 0`, retry limits are natural numbers, `NULL` is neither an
XID nor a packet (`StreamSocket`); the bounds are natural numbers (`XStream`); clients,
listeners and accepted sockets have different ports and `NULL` is neither a port nor a
`DAGinfo` (`XTransport`); `NULL` is distinct from CIDs, contents, statuses and
chunks (`XChunk`); sizes and lengths are natural numbers and `NULL` is none of them, no CID and
no meta (`XCache`); ADs are a finite set of numbers, `NULL` is no number and
`MAX_HOP_COUNT` is positive (`ShortestPath`); a topology is a set of links between ADs
and sequence numbers start below `MAX_SEQNUM` (`XRouted`); the host's names and HIDs
differ, the beacon frequency is positive and `NULL` is no AD, DAG or answer (`XHost`).

* `XStreamProofs`: it starts with what each handler does to a `DAGinfo` (`XsendFacts`,
  `DataFacts`, `AckFacts`, `DataTimeoutFacts`, ...); `XTransportSteps` has the part of
  these it needs. `TypeCorrect`, `DeliveryInOrder`, `AcksSound` and `Refinement`
  follow from `IndInv`. In-order delivery is not inductive: `IndInv` adds that
  counters count the histories, that every DATA packet in flight and every packet
  in a slot carries the payload its number stands for, and that every ACK in flight
  is covered by what was delivered. `BufferingSound` and `TimerSound` follow from
  `Recoverable`, which adds buffering and the timer to `IndInv`: an ACK clears only
  slots below what is undelivered, so `run_timer` always finds something to resend.
* `XChunkProofs`: `TimersSound`, `RepliesSound`, `BlockedSound`. The strengthening is
  `NoteIsReader`: a note in `XIDtoReadReq` is there only while its reader is blocked
  and unserved, so an answer never goes up for anyone else. `TypeCorrect` is the
  type invariant. `ReadsImplemented` is the refinement of `ChunkReads`: handler by handler
  (`RequestRead`, `CallRead`, `ReturnRead`, `AnswerRead`) a step is one of the abstract
  steps or changes nothing an application sees. It needs besides `AnswersWereAsked`: an
  answer in flight, however old, is about a CID the status table knows.
* `XTransportSteps` and `XTransportProofs`: `TypeCorrect`, `GrantOnce`, `SynackSafe`,
  `AcceptSafe`, `Reachable` and `AcceptedInOrder` from one `IndInv`. The first module has
  the invariant and the steps that leave the pending queue alone, the second the steps
  that change it or its notices (`RecvSYN`, `XacceptNotified`, `Xaccept`), the initial
  state and the theorems. The parts of `IndInv`: `Kinds` and `Sockets` (what a socket
  of each kind may look like in each state of its application), `Routing` (a SID leads
  to its own port; a client's route exists only with its socket), `Pairs` and
  `Connected` (whom `XIDpairToPort` may name), `Messages` (a SYN or SYNACK under way
  has its client's entry in `XIDpairToPort`; a DATA packet carries its sender's payload of that
  number), `Streams` (`expected_seqnum` counts what went up), `Grants`, and `Claimed`.
  The last is the reason no accept aborts: the notices not consumed and the accepts
  under way are a finite set no larger than the pending queue, whatever listener
  they belong to. `Reachable` needs one more invariant, `Serving`: whatever names a
  listener's SID, an accepted socket or a request in the queue, names one that is routed
  or whose listener has been closed and torn down; only the teardown of a socket that
  was not accepted takes a route away. `AckInfo` can raise `dataack_waiting`, so `Pairs` also has to
  say that no pair leads to an unconnected socket.
* `XCacheProofs`: `TypeCorrect`, `RefCountsMatch`, `SlicedStored`, `SlicesNotShared`.
  `IndInv` is the last three
  together with `Shape`, the part of the types the handlers rely on. Counting
  the holders of a meta uses the cardinality theorems: a slice that did not hold the
  meta joins the holders exactly when `ref()` is called. `TypeCorrect` needs besides
  that `Among`, the connections the loop goes through in order, is a sequence of
  connections, which is an induction over its length. `SlicesStoredByOwner` is the action
  property; its invariant is `CommandsAreOwn`: a STORE on a connection names a slice that
  exists and that no other application holds. It stays true because ids are never granted
  again (`OldIdsStay`), whatever merged commands do to the slices.
* `ShortestPathProofs`: `RoutesCorrect`, that `calcShortestPath` gives what
  `ShortestRoutes` demands, for every link-state table. Induction over the rounds of the
  loop is stated with sets: a set that has 0 and, with each number below n, the next,
  has n (`BoundedInduction`, from the pigeonhole theorem for finite sets). `Searched` is
  the loop invariant: no node checked costs more than one that is left, a node reached
  has a path of its cost whose last link comes from its `prevNode`, and no link of a node
  checked leads to a node more than one hop dearer. From it follow that the loop gives
  up exactly when some node cannot be reached (`SearchIsExact`) and that
  the walk back along `prevNode` stays on a shortest path and ends at a neighbour
  (`BackStaysOnPath`, `FirstHopIsNeighbour`). The walk takes less than `MAX_HOP_COUNT`
  steps and the code's infinity is 10000000, hence the hypothesis `FewADs`: the code
  gives no route over more hops than that, and nothing is claimed there.
* `XRoutedProofs`: `LinkStateTrue` and `RecordsFlooded`. `IndInv` adds that neighbour
  tables list linked routers, that every LSA under way was broadcast by the router it
  is about and lists links that exist, and that every table entry is blank and lists
  nobody, the router's own, or such an LSA. `TypeCorrect` and `RoutesToNeighboursOnly` are
  proved together; they need of the calculation only that a first hop is a neighbour in
  the router's own entry, which the invariant says is linked. `RoutesShortest` is the
  action property: only a step that calculates resets `calc_dijstra_ticks`; a blank
  entry of another AD that the filter loop spares leaves no route at all; and the
  router's own entry, when blank, lists nobody and changes no distance
  (`ShortestWithoutBlank`). `RecordsNewer` rests on `Numbered`: until a router restarts or
  its counter wraps, its n-th LSA carries the n-th number from its first one on. So two of
  them that are a window or less apart are ordered by their numbers as by their age, and
  the test in `processLSA` refuses the older.
* `XHostProofs`: `TypeCorrect`, `ClickFollows`, `Settled`, `HostNameSafe`. `Settled` needs
  `OneRegistration`: while the client waits, the request or the answer under way is of
  the AD Click is configured for, and an answer means that the name server's
  record is already that DAG or another host's, as long as no application has registered
  the hostname. `HostNameSafe` is the action property: a step that changes the HID of the
  record handles a request without the migrate flag.

Only model-checked, because out of the prover's reach, is liveness under fairness:
`EventuallyDelivered`, `ReceiverIsTornDown`, `ReadReturns`, `SliceIsGranted`,
`RegistrationFollowsHost`, `HostRouteReturns` and `DepartedIsPurged`. Every invariant and
every action property of the passing runs is a theorem.

## 5. What is abstracted or left out

* Sequence numbers are natural numbers: the wrap of `uint32_t` and the `int` loop
  index in the ACK branch are not modelled.
* SIDs are unique per socket: binding a SID again within the 240 s before teardown
  is not modelled, nor is reuse of a UDP port.
* `XTransport` puts clients and servers into one element; two hosts split the same
  tables along keys that never meet.
* UDP between library and Click neither loses nor reorders (it is the loopback
  interface).
* A chunk is read only after it was requested, as the documentation of `XreadChunk`
  demands, and once per request. The second is an assumption of the model: nothing
  in the code enforces it, and another read would dereference the end of
  `XIDtoCIDresponsePkt`.
* A duplicate SYNACK disarms the client's timer. `UndeliveredIsTimed` is
  said of a client that got none; `EventuallyDelivered` and `ReceiverIsTornDown` except a
  client that stays disarmed (`SynackDisarmed`).
* `TimerTeardown`: after erasing the socket's entries `run_timer` frees `sent_pkt` through
  its pointer to the erased entry. As long as that does not end Click it changes nothing
  that is modelled; the model stops at the erasure.
* `XCache`: the bytes of a chunk; a slice is used by the application it was granted to.
  `XcachePutFile` is a sequence of `XcachePutChunk`. A GETCHUNK is longer than one
  read and its sender waits, so the daemon waits in the next read until the sender
  ends; `search` is reached only by what a long STORE and the next message are parsed
  as. It passes a string object to `Xconnect` as an address, which is undefined: the model
  lets it fail, crash or never return. A merged parse may fail or give any command, on
  any slice or none; a size of 0 stands for one below every length, an id of 0 for one no
  slice has.
* `XRouted`: the link costs are all 1, as in the code; links do not change during a
  run, since the code never removes a neighbour. A crash in the filter loop is a restart.
* `XHost`: AD, gateway HID and gateway 4ID change together; errors of calls to the
  local Click are left out; the name server's queries change nothing. The purge of
  `xrouted` uses an iterator it has erased; that this ends the process is a restart.

## 6. Not modelled

* Rebinding a SID within the 240 s before teardown: `run_timer` then removes the
  route of the new socket. `XTransport` would need SIDs apart from ports.
* The server-to-client stream of a doubly accepted connection: two senders share
  one sequence, and no order can be claimed.
* Mobility of open connections (`Xchangead`, new source paths in `copy_common`),
  datagram options, XCMP, `XpushChunkto`, `XputChunk`.
* Stream sequence numbers of finite width: the wrap takes 2^31 packets on one
  connection.
* DAG fallback in the route table, the fast path's cache lines, XARP: each looks
  up or caches per packet, and none interacts with the state modelled here except
  through a table that `XRouted` and `XHost` already have.
* `Xconnect` after the last retry: Click reports the failure only in a DEBUG build,
  so the client stays `connecting`. The give-up is modelled, no return is claimed.
* An application that dies without `Xclose` is one that never closes.
* The library's socket map, and name queries.
* `dagaddr` (conversions of strings), wrappers, applications, tools, vendored Click.

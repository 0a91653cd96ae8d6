# Verification of singlink

TLA+ models of the parts of singlink whose correctness depends on the order in
which goroutines, the panel, the network and the operator act. Each module is
translated from the Go source; `PROJECT.json` gives the lines of every
definition. TLC checks the models on small instances, TLAPS proves the safety properties for
every value of the constants.

## 1. The system and its parts

singlink is a proxy platform: inbounds accept connections, the router matches
them against rules and hands them to outbounds, DNS is resolved by transports of
its own. Managers start and stop all of these in stages. What distinguishes
singlink from its upstream is the v2board service: a panel decides which inbound
a node runs and for which users, and is told who used how much.

```
   panel <--HTTP--> client <-- controller --> inbound manager --> inbound
                                  |                                  |
                                  | updateNode, Snapshot, Restore    | connection
                                  v                                  v
                               tracker  <----- RoutedConnection --- router --> outbounds
                                                                     |
                                   DNS client --> transports --> connection pool
```

| Part | State | Operations | What makes it hard | Model |
| --- | --- | --- | --- | --- |
| v2board tracker (`service/v2board/tracker.go`) | users, counters, counters of removed users, addresses online | match, count, close; updateNode, snapshot, restore, DeleteNode | connections count while the controller swaps counters and changes users; reports whose answer is lost | V2BoardTracker |
| v2board controller (`controller.go`, parts of `client.go`, `service.go`) | configuration, users, hashes, ETags, what is installed, status | sync, rebuild, restore, clear, status loop, Close | steps of which any may fail; two goroutines and Close; a wake-up channel of capacity one | V2BoardController |
| inbound manager (`adapter/inbound/manager.go`) | inbounds by tag, stage | Create, Remove, Start, Close | Create starts the new inbound before it closes the old; Close concurrent to Start | Create and Remove in V2BoardController, Start and Close in Daemon |
| DNS connection pool (`dns/transport/conn_pool.go`) | a state per generation: connections, idle list, shared connection, dial under way | Acquire, AcquireShared, Release, Invalidate, Reset, Close | dials outlive the state they were started for and the client that started them | ConnPool, OrderedConnPool, SharedConnPool |
| DNS transports (`dns/transport/udp.go`, `tls.go`, `quic/quic.go`) | callbacks by query ID | exchange, receive loop | many clients on one connection | their use of the pool |
| DNS client (`dns/client.go`) | cache, queries under way, refreshes under way | Exchange, background refresh, ClearCache | single flight without a result, late stores | planned |
| FakeIP (`dns/transport/fakeip`, `experimental/cachefile/fakeip.go`) | two maps, position of the allocator, a pending save | Create, Lookup, delayed save, reset, close, start | wrap-around, a late flush against Close, a crash between two saves | FakeIP |
| groups (`protocol/group`, `common/interrupt`) | selection, ticker, test results, connections | select, Touch, test, interrupt | a dial that straddles a selection; start and stop of the ticker | planned |
| daemon (`daemon/started_service.go`, `daemon/instance.go`) | status, the instance, its context | StartOrReloadService, CloseService, SetError, Start and Close of an instance | a start is under way while another caller reloads, closes or reports an error | Daemon |
| box and managers (`box.go`, `adapter/*/manager.go`) | stage, items by tag, dependencies | Start, Close, Create, Remove | Close while Start is between two stages; a start that fails and closes the box itself | the inbound and the service manager in Daemon, the others planned |
| mieru sessions (`third_party/mieru/pkg/protocol`) | two send trees, two receive trees, windows, sequence numbers | Write, Read, Close, the input and the output loop | packets lost, duplicated and reordered; a window that is stale; a close in the middle of it all | MieruStream, MieruChannel |
| connection manager (`route/conn.go`) | connections, two copy loops each | copy, close | which loop closes, and when | planned |
| cache file (`experimental/cachefile`) | database, entries waiting to be written, write tokens | asynchronous saves, clearing, clean-up, Close | saves against saves of the same key, ClearDNSCache, Close and a reset of the database | DNSCacheFile, its FakeIP part in FakeIP |
| SSM API, OOM killer (`service/ssmapi`, `service/oomkiller`) | counters; pressure state | read and reset; poll | counters read while counting; hysteresis | planned |
| rules, protocols, stream transports, TLS, option parsing, commands | | | pure functions, codecs or glue around libraries | not modelled |

`PROJECT.json` lists all components with the reason for each one left out, and
the hazards of the code with the line at which each bites.

## 2. The modules

### V2BoardTracker

The accounting of one node. `users`, `counters`, `pending`, `online`, `previous`
and `alive` are the fields of `nodeTraffic`; a `userCounter` is an element of
`Counters` with its `bytes` and `active`. Each connection runs Match, Blocked,
MarkOnline, TrackConn, then ConnMove and ConnCount, then ConnClose. ConnMove and
ConnCount are two steps since a unit is on the wire before it is in the counter.
The controller goroutine runs updateNode (UpdateNode, UpdateAliveList), the push
cycle and DeleteNode. It pushes, and hands on a new alive list, only while
`inboundReady`; LoseInbound is an applyInbound that can neither replace nor restore
the inbound, and the next UpdateNode ends that state. The device limits are part of
the user list, so UpdateNode replaces `limits` with it.

The node's mutex makes each of its sections one step, with two exceptions.
`snapshot` and `restoreTraffic` hold it over many atomic operations on counters
that connections use without it. They are one step per counter, and `locked`
keeps the others out. A report may fail before or after the panel has credited
it.

Abstractions: upload and download are one number, as they are always handled
together. An address is a model value, and an entry of the alive report is the
address paired with the node's ID, as the code formats it and takes it apart.
The slice `pending[uid]` is a set, so the counter a restore picks from it is any
of them. History variables (`sent`, `billed`, `dropped`, `requeued`) exist only
to state the properties. Speed limits and block rules do not touch accounting;
Blocked is the rules' verdict.

### V2BoardController

One controller: the Run goroutine step by step through `sync` and
`rebuildInbound`, the status goroutine, and Close. Every locked section is a
step and so is every request. `installed` is what the inbound manager has under
the node's tag, and whether it still listens. `CreateResults` and `RemoveResults`
give every outcome that Create and Remove of `adapter/inbound/manager.go` can
have: the new inbound cannot listen on the old one's port, it fails to start, the
old one's Close fails and leaves it registered. `applyInbound` with its two
levels of recovery is the composition of these under one lock.

A configuration is named by its revision, and hashes and ETags by what they were
computed from. `CloseWaits` says whether Close waits for Run, as
`Service.Close` does; the run `controller_close` drops it, because the tests of
`c.closed` after every lock exist for a Close that does not. The panel changes at
most `MaxChanges` times.

A report that fails, because its time is up or the context is cancelled, may have
left all the same: it is then in `late`, of which the panel handles an element at any
time (LateReport). Equal reports are one, and at most `MaxLate` are on their way.
`First` are the panel's configurations to begin with. The locals of `sync` are
forgotten when it returns.

### ConnPool, OrderedConnPool, SharedConnPool

`ConnPool` holds what both modes share. Reset and Close swap the state under the
lock and run `closeState` after it, which is two more steps (CancelState,
DrainState) that interleave with everything. A state is a generation number. A
connection's `life` goes from `free` through `open` and perhaps `dead` to
`closed`. `SeesDeath` distinguishes the transports whose `IsAlive` notices a
broken connection from those that only test for nil.

`OrderedConnPool` is the mode of the TLS transport: an idle list and a semaphore
for dials. `SharedConnPool` is the mode of the UDP transport: one connection for
all, dialled by the goroutine `connectSingle`, whose context is that of the client
that started it. Waiting clients are in `wait`, and once the dial is over in
`collect` or `failed`; a select with several ready cases takes any of them. The
section of `connectSingle` under the lock and the `close(state.done)` after it are
one step. A waiter may stay in `collect` or `failed` as long as it likes while
others start new dials, so no behaviour is lost.

### FakeIP

The store of the fakeip DNS server with the cache file as its storage. `current`
is the allocator's position, `query` the calls of Create that are under way: the
unlocked look-up (Ask), the second look-up and the allocation under
`addressAccess` (AlreadyCreated, Allocate), the transaction (StoreAddress) and the
request to save the position (SaveMetadataAsync). `flusher` are runs of the
timer's function, with the steps between its locks. `phase` follows Store.Close,
then CacheFile.Close, and Store.Start. `address`, `domain`, `bucket` and `meta` are
the database; a transaction is one step. A crash at any point keeps the database
and nothing else.

An address is a number in its family, a range a record of its first address, its
last, and the address written in the prefix. The look-up that finds its domain
changes nothing and is no action. The write tokens other users of the cache file
may hold are the free choice between FlushRead and FlushRefused. `recent` and
`oldest` are history variables.

### MieruChannel, MieruStream

`MieruStream` is one direction of a session over UDP: the sending half of one
Session, the receiving half of its peer, and the packets between them.
WriteChunk puts a segment into `sendQueue`. Transmit moves the first one to
`sendBuf` and sends it, Retransmit sends it again, InputAck removes what is
acknowledged; together with OwnAck and GiveUp they are the passes of
`runOutputOncePacket`, cut at every segment. InputData puts a segment into
`recvBuf` and moves what is in order to `recvQueue`, from which Read takes it.
Close, InputCloses, CloseSent, CloseTimeout and GiveUp are `closeWithError` with
its wait for the request to be sent. An output that fails ends the session as GiveUp
does (OutputFails); the answer to a close request that fails ends the input loop
(AnswerFails); that the session's own close request fails is only logged (Shut).

The peer closes in two steps. While it is `closing` of itself it goes on receiving
and acknowledging; while it is `asked`, by the session's request, its input loop waits
and it only acknowledges. PeerClosed ends both, and its request leaves with that step.
What the peer still takes in between the sending of its request and its noticing,
a millisecond at most, is left out.

The payload of a segment is a number, that of a close request is `Empty`. Of a
window the model keeps whether it is zero. The congestion window is any of
`Windows` at any moment, and a timer may fire at any moment, except that a
heartbeat needs silence (SendAck). Of the other direction there remain the
acknowledgements (SendAck), its data, which acknowledge too but carry the window
of the time they were written (SendData), and the sequence numbers of the
sender's own ACKs (OwnAck). Packets to a session that is closed are dropped,
since it takes nothing any more. Left out are the opening of a session (and with it
ErrNotReady, which a server's output returns until it knows its cipher), chunks of
several fragments, the stream underlay, quotas, and the wrap-around of the 32-bit
sequence numbers.

`MieruChannel` is what a program sees: a stream of which the reader has got a
prefix. `MieruStream!Channel` is its instance, with `written` and `read` for the
stream and a session that is closed for a stream that takes no more.

### Daemon

The StartedService with its callers, the Instances it makes one after the other,
and the Box in each. `serviceAccess` is the caller that holds the lock across a
call of Instance.Close; every other locked section is one step. `at[i]` says where
Start and Close of instance `i` are, which run on different goroutines. `pos` is
the call of a manager's Start that is due, out of `Script`: the inbound and the
service manager, stage by stage. The inbound manager holds `lifecycle` while it
starts its items, so Close waits for it (LifecycleFree); the service manager
starts its items outside its lock. StartItem may wait for as long as the context is
not cancelled, and may fail, upon which Box.Start closes the Box itself. The test
of `done` and its close are two steps (CheckDone, MarkDone), and closing it twice
panics.

Each manager has one item. The stages post-start and finish-start are one, since
they do the same to these managers. Who calls the daemon is outside `src/`: any
caller may call anything at any time. Left out are the attached mode, the handlers,
the subscriptions, and an Instance.Close that waits for another Close of the same
instance, since the service closes each instance once.

### DNSCacheFile

The DNS part of the cache file. `saveDNSCache` and `saveRDRC` are the maps of
answers and rejections that wait to be written, `writer` the goroutines that write
them, one per token. A caller in `queueDNSCacheSave` or `SaveRDRCAsync` holds the
lock of its map while it waits for `asyncAccess` in `beginAsyncWrite`; that is the
caller's label `dns` or `rdrc`. Everywhere else a lock is held for one step.
FlushRead, FlushSave and FlushCheck are one round of `flushPendingDNSCacheWith`.
`clearing` says where startCacheCleanup and ClearDNSCache are, which empty a map
first and delete its bucket in a later transaction. `closing` follows Close, and at
`wait` it holds `asyncAccess`.

An answer is its number in the order of arrival. A transaction is one step and may
fail. What expires is any set of keys at any time. A token may be refused at any
time, since FakeIP's saves take tokens as well. `newest`, `answers` and `unsure` are
history variables; `unsure` holds the keys whose write failed or was overtaken by
ClearDNSCache. Close saving the position of FakeIP is in FakeIP.

Outside `src/` are the network (a connection dies, a packet is lost), the panel
and the callers of the daemon. They are actions of the environment.

## 3. What the runs check

| Run | Instance | Result |
| --- | --- | --- |
| tracker_traffic | 2 connections, 3 counters, one key that passes between 2 users, one lost answer | TypeOK, TrafficConserved, CountersInOnePlace, BilledToOwner and ActiveIsOpenConns hold |
| tracker_devices | 2 connections, 2 addresses, device limits 1 and 2, remote count 0 or 1 | DeviceLimitRespected holds |
| tracker_live | 1 connection, 3 counters, 2 users | PendingReleased and TrafficDelivered hold, if the inbound stays in the end |
| tracker_stranded | as tracker_traffic | OpenConnIsReported fails |
| controller | 2 revisions, both of which report their status, 1 user, 2 changes, requests other than the user list may fail, and so may Create; one report given up is on its way | CurrentIsInstalled, StatusTruthful, NoLostWake, NoReadyAfterClose, ConfigServed and StatusConverges hold |
| controller_close | Close at any moment, failing inbound Close, legacy API | CloseReleases holds |
| pool_ordered | 2 clients, 3 connections, 1 slot, one Reset and a Close | TypeOK, ExclusiveHold, NoLeak, SlotsMatchDials, HandsOutCurrent and AcquireReturns hold |
| pool_shared | 2 clients, 1 connection that is dialled once, one Reset and a Close | CreatedOnce, NoDialBeside, NoLeak, ClosedIsSignalled and CancelledReturns hold |
| fakeip | 2 queries, 2 domains, ranges with 2 and 1 addresses, 3 allocations, 2 starts, one reset | Inverse, InRange, Rotates and SavedOnClose hold |
| mieru_stream | trees of 3 slots, 3 chunks, 2 packets each way, one fault, 2 transmissions, congestion windows 1 and 3 | TypeOK, NeverStuck, ChannelSpec and Delivered hold |
| daemon | 2 callers, 2 instances, any item may fail or hang | RunningHasInstance, StartedIsRunning, NoOrphan, InboundsReleased and CloseEnds hold |
| cachefile_close | 2 keys, 1 caller, 1 token, 2 answers | CloseReturns fails |

The failing runs are disagreements between the code and its tests; `findings` in
`PROJECT.json` quotes both sides.

*tracker_stranded.* A connection is matched to its
counter, the user is removed, a snapshot prunes the counter because nobody is
active on it yet, and the connection becomes active. Its traffic is never
reported.

*cachefile_close.* A goroutine is about to write an answer. A second answer, for
another key, is being queued: its caller holds `saveDNSCacheAccess` and is about to
take `asyncAccess`. Close takes `asyncAccess` first and waits for the goroutine, which
waits for `saveDNSCacheAccess`, whose holder waits for Close. Nobody goes on. When the
model lets callers take `asyncAccess` during the wait (AsyncAccessFree as TRUE),
CloseReturns holds on the same instance.

The models show more when an instance is changed as follows. These have no
configuration of their own.

- *Stale configuration.* controller with `UserFetchMayFail = TRUE` refutes
  ConfigServed. `sync` remembers the new configuration's hash, fails to fetch the
  users, and sees nothing new the next time (`controller.go:234`).

- *Minimum traffic.* tracker_traffic with two keys and `TrafficMin = 2` refutes
  MinTrafficIsPerNode: the documented minimum is per node
  (`docs/configuration/service/v2board.md`), the code applies it per user and
  discards what is below it.
- *Legacy API.* controller with `Legacy = TRUE` and no revision that reports its
  status refutes ConfigServed. After an empty list the users' ETag survives the users. The same list coming back is
  "not modified", and the node stays down.
- *Failed Close.* controller with `CloseMayFail = TRUE` refutes
  StatusTruthful. Create fails after closing the old inbound; the controller takes
  it to be serving and keeps reporting ready.
- *Window.* controller refutes ServedIsTracked: the new inbound accepts
  connections before the tracker knows its users, and what they move is not
  counted.
- *Reset that resets nothing.* fakeip with two configurations that have different
  IPv4 ranges and no IPv6 range refutes InRange. FakeIPReset deletes three buckets
  in one transaction, the IPv6 one was never created, and everything is rolled
  back. Store.Start ignores the error, so known domains keep being answered with
  addresses outside the new range.

What some properties leave out is what the code does not keep:

- *SetError while stopping* (NoOrphan). The status becomes fatal although a caller
  is still closing the old instance, so a second caller may start one. When the
  first goes on it replaces or forgets that instance, and nobody closes it.
- *Close before the first Start* (InboundsReleased). Manager.Close does nothing
  when the manager is not started. If Instance.Close comes between Instance.Start's
  look at `closed` and the first stage, Box.Start goes on and opens everything for
  an instance that is closed.
- *Close does not wait for a failing Start* (InboundsReleased). Box.Close answers
  that the box is closed already while the goroutine of Start is still closing it;
  a reload then starts the next instance while the old one's ports are taken.
- *Double close.* Start that fails and Instance.Close may both find `done` open, and
  the second to close it panics. Box.Start recovers and then returns nil for a box
  that has failed; elsewhere the panic ends the process (`crashed`).
- *Close and unsent data* (ChannelSpec, which gives a prefix). A session's own ACKs
  carry the number given out last. While a graceful close waits, that is the number
  of its request, so the next ACK makes it believe that the request is sent, and it
  drops the queue with the request in it.
- *Lowered limit* (DeviceLimitRespected, which is about additions). A limit that the
  panel lowers does not evict the addresses that were admitted before.
- *Late ready* (NoReadyAfterClose, which is about what is sent). A ready report that
  the client gave up before Close may be handled by the panel after the final one, and
  the panel then takes the node to be ready. The controller sends the final one after
  the status goroutine has ended (`controller_test.go:1115`), and can do no more.
- *Clear during a write* (NewestIsLoaded). ClearDNSCache empties the map under a
  goroutine that holds an entry. The goroutine still writes the cleared answer. The
  next entry of the key has sequence 1 again, which may be the goroutine's own
  number; it then deletes the new entry, and the database keeps the old answer.
- *Full recvQueue* (NeverStuck). When the reader is slow, segments that are in order
  and old duplicates stay in `recvBuf`. If it fills, inputData waits for room that
  only inputData makes. mieru_stream with `QueueCap = 2` refutes NeverStuck this way.

### Bounds

Two connections or clients are needed for one to act between two steps of the
other, and a third where a limited resource is contended (slots, addresses). Two
users suffice for a key to change its owner and back. Three counters are one more
than two users need at a time, so a new one can be created while the old is
pending. Two generations give a Reset followed by a Close. Each connection object
is dialled once; three of them let a client of the ordered pool meet a broken, a
closed and a new one. `pool_shared` has one, which keeps its liveness within
reach; its safety properties are proved for any number. OneConnection could not fail
there, so it is only proved; the run checks NoDialBeside, from which it follows that
no connection is replaced by another. A restore needs a free
counter besides those of connections that have ended, so more connections in
`tracker_live` need more counters; with 2 connections, 1 user and 3 counters
TrafficDelivered holds as well. `MaxBytes`, `MaxRequeued`, `MaxChanges`, `MaxLate`, `MaxGen`,
`MaxCreates`, `MaxResets` and `MaxBoots` cap what the code leaves unbounded and
appear only in guards. In `fakeip` three allocations let a range of two addresses
wrap around, and two starts let the second meet what the first left. One flusher
suffices for a flush to straddle the close; with two, which also hold (5.5 million
states), a flush straddles another.

In `mieru_stream` two packets under way are reordered, the one fault is a loss, a
duplicate, a stale window or an output that fails, and two transmissions reach the limit. Trees of three
slots fill up with three chunks, and the largest window is that of the tree;
`recvQueue` never fills. In `daemon` two instances give a reload, and two callers a close or a
reload against a start. In `cachefile_close` the one goroutine, the one caller and
Close are the three that wait for each other. The safety properties of DNSCacheFile
are proved for any instance and have no run of their own; they hold in TLC with 2
keys, 2 callers, 2 tokens and 3 answers (13.8 million states).

Where type correctness is proved and the run is large the run does not repeat it
(controller, pool_shared, fakeip, daemon).

Runs that check only invariants and action properties use symmetry over clients, connections, counters,
users or addresses. No definition chooses among them. Liveness runs use no
symmetry.

`CHECK_DEADLOCK FALSE` is set for the tracker and the controller: both stop for
good after DeleteNode or Close, when every connection has ended and the panel's
changes are used up. It is set for fakeip, which stops when its starts are used up, for the
mieru run, where both ends may be closed, for the daemon, whose process may
end, and for the cache file, which is closed in the end. The pools are checked for deadlock.

### Fairness

- Tracker: Run re-arms the push timer after each push, so weak fairness for the
  push cycle. The panel accepts a report if it is sent again and again (strong
  fairness of ReportTrafficOK). push returns at once while there is no inbound, so both
  properties suppose `<>[]inboundReady`; that the inbound comes back is ConfigServed.
- Controller: both goroutines loop (weak fairness). Requests and rebuilds that
  are repeated for ever succeed in the end (strong fairness). Without the last
  assumption a panel that is down refutes every promise. A late report need not
  arrive.
- Ordered pool: goroutines run and dials return. The semaphore serves its waiters
  in order (strong fairness of AcquireSlot); that is the promise of
  `golang.org/x/sync/semaphore`.
- Shared pool: goroutines run and dials return. A select that is reached again
  and again with `ctx.Done()` ready takes that case in the end, since Go picks
  among ready cases at random (strong fairness of WaitCancelled).
- Mieru: the output loops run at their tick, also with the smallest congestion
  window; packets that are not lost arrive, and losses are bounded; the peer's
  program reads. All of it is weak fairness, and only while nobody closes: Delivered
  promises nothing beyond that.
- Cache file: goroutines run, and a Go mutex starves nobody that waits for it (strong
  fairness of the callers, the goroutines and Close).
- Daemon: goroutines run, and the start of an item ends once its context is
  cancelled, which is what `daemon/instance_test.go` demands of it.

## 4. What is proved

Every safety property of a passing run is proved: the invariants as `Spec => []P`, the
action properties as `Spec => [][A]_vars`, the refinement as `Spec => ChannelSpec`.
Each rests on an inductive invariant: the initial states satisfy it, each action
keeps it, and it implies the property. Where a property needs more than the
module's first invariant, a second one is proved on top of it. The proofs have one
lemma per action or group of actions. They assume nothing but the named assumptions
on the constants, which say that sets are disjoint, markers are not values, bounds
are natural numbers, and that the clients of the ordered pool and the connections
and counters of the tracker are finite in number. Five theorems have a premise of
their own, which is named with them below.

**V2BoardTracker_proofs.** `IndInv` is TypeOK, CountersInOnePlace, BilledToOwner
and ActiveIsOpenConns together; none is inductive alone. That `updateUsers` moves
a counter to the right user needs to know that the counter was in one place. That
closing a connection leaves a natural number in `active` needs to know that the
connection was counted. Theorems: TypeCorrect, OwnerIsBilled, OnePlacePerCounter,
ActiveCountsConns.

The device limit (NewDevicesWithinLimit) is an action property: a step that adds to a
user's new addresses leaves them, with the remote count, within the limit of that
moment. An invariant could not say so, since the panel may lower the limit. The proof
has the invariant `DeviceInv` and one lemma per action (`DeviceStep`). The addresses
in a report were online when the snapshot took them and are the previous ones when it
has ended, so a failed report puts back nothing that counts as new
(`ReportedWasOnline`). `updateUsers` carries the addresses of a key only with its
user.

Conservation of traffic (NoTrafficLost) has the invariant `TrafficInv`. The sums run
over the counters a user holds, and these change as well as what is in them. A counter
that comes into use is empty (`FreeEmpty`). The one that a snapshot prunes was swapped
to zero and is empty, or a connection of the same user still holds it (`Visits`,
`ConnsAgree`). A connection moves nothing before it has a counter (`Tracked`). A sum
is the number of elements of a set of units, one per unit of traffic, because a fold
could be reasoned about only by induction over data. What happens to a sum when one
summand changes or a set grows then follows from the library's facts about
cardinality (`SumChange`, `SumSplit`, `SumSupport`).

**V2BoardController_proofs.** `Serving` ties `current`, `installed`,
`inboundReady` and the status together, with what is pending at the step
`commit`, where the inbound is installed and the status still the old one.
Theorems: TypeCorrect, ControllerKnowsInbound, CloseIsFinal (for every
`CloseWaits`), ReadyIsTrue (if no inbound's Close fails; section 3 shows that it
must not), WakeIsNotLost (if all revisions report their status; it
uses a second invariant, `WakeInv`), and CloseSendsNotReadyOnly (if `CloseWaits`). The last
rests on the order of the ends: the status goroutine stops before Run does and Run
before Controller.Close begins (`EndsInOrder`), so no regular report is being sent; what
the panel hears then is not-ready or a report given up before.

**OrderedConnPool_proofs.** ExclusiveHold and NoLeak hold because a connection has one
owner at a time: the dial that returned it, the client that holds it or the idle list
(`OneOwner`, `IdleFree`). A dial's connection is in no state until it is installed
(`DialOwns`), and then in one (`InstalledOnce`). closeState runs for retired states
only (`States`), so that while the pool is open what the current state tracks is live
(`TrackedLive`). Theorems: Inductive, TypeCorrect, Exclusive, NothingLeaks,
SlotsReturned, and OnlyCurrentHandedOut, an action property.

**SharedConnPool_proofs.** `IndInv` adds to the checked properties why they hold.
A dial owns the connection it returned and nobody has seen it (`DialOwns`). An
installed connection belongs to one state and to no dial (`InstalledOnce`). While
a dial of the current state is under way there is no shared connection, so the
one it installs is the only one (`SharedState`). Whoever holds a connection that
the pool no longer tracks has been told, or its state is retired (`HoldersKnow`).
Theorems: TypeCorrect, OneReader, DialsAlone, OneConnectionPerState, NothingLeaks,
HoldersAreTold. They cover both values of `SeesDeath`, of which the run
`pool_shared` checks one.

**FakeIP_proofs.** Inverse is kept by FakeIPStore only if the domain it stores has
no address yet (`StoresFresh`). That holds because the second look-up and the store
are under one mutex (`OneAllocates`), and because the database never opens under a
running call (`StartsAlone`). Theorems: TypeCorrect, LookupInvertsCreate for every
set of configurations, and AnswersAreRecognised for a single configuration whose
ranges have at least one address to give out.

CloseSavesPosition needs what holds while a close is under way and nothing is
allocated: no call holds the position, nothing waits to be written but what the close
holds, and a flush that still runs is out of date and will not write (`Quiet`). For
NoAddressTwiceInATurn the addresses remembered are a stretch of the rotation: two of
them are as far apart as their places in it, or one turn less (`Stretch`). The stretch
ends at the allocator's position. It is carried across a close and a start because what
is remembered survives a close only if the database has that position (`RecentInv`).

**MieruStream_proofs.** `IndInv` says that a segment keeps the payload its number
was given out with, wherever it is: in `sendQueue`, in `sendBuf`, under way or in
`recvBuf`, `written` has it at that number (`Good`). Numbers are never given out
twice (`nextSend` is the length of `written`). So whatever arrives as number
`nextRecv`, late or twice, is the payload that comes next, and `read` with
`recvQueue` behind it is what `written` has below `nextRecv`. Theorems: TypeCorrect, with the capacities of the trees, and
SessionIsAStream, the refinement `Spec => ChannelSpec`: Read is a read of the
channel, WriteChunk and the steps that take a number are writes, Shut closes it,
and the rest stutters. They hold for every capacity, window and bound, and include
a `recvQueue` that is full.

BufferNeverFills is `Spec /\ []Room => []NeverStuck`. `Room` says that `recvQueue`
has room for what arrives, which is the condition NeverStuck was written for; section 3
shows that it cannot be dropped. The two send trees hold one run of sequence
numbers that begins at or before `nextRecv` (`SentInOrder`), no acknowledgement is
ahead of the receiver (`UnderWay`), and `recvBuf` has only numbers between `nextRecv`
and the next one to transmit (`Ahead`). So `recvBuf` and the missing segment together
fit into `sendBuf`, which is never full.

**Daemon_proofs.** None of the properties is inductive. `IndInv` adds who may touch
a Box. Until somebody begins to close an instance only its Start has (`Untouched`):
its items are listed, those Start has passed are open, and `done` is not set, so
"ok" means that all is up. Whoever has set `done` has closed the inbounds or is
about to (`Released`), and an inbound that left the list is closed while nobody
holds `lifecycle`, so a Start still under way cannot open it again. No caller closes
the service's own instance, and each starts one that no other caller starts
(`CallerInv`). Until SetError interferes a single caller at a time closes an
instance, and the status STOPPING keeps the others out (`OrphanInv`). Theorems, for
any number of callers and instances: TypeCorrect, HandlersFindInstance,
StartedIsTrue, NothingIsOrphaned, CloseReleasesInbounds.

**DNSCacheFile_proofs.** That the entry FlushCheck deletes is the one that was
written rests on three facts. A key has one goroutine and only while it has an entry
(`OneWriter`), because the caller that starts one holds the lock and has seen no
entry (`CallerInv`). What the goroutine read has at most the entry's sequence number,
and with an equal number it is the newest answer (`WriterOK`). Without an entry the
database has the newest answer or none (`EntryOK`). These hold for the keys outside
`unsure`; that an entry has a goroutine holds for all (`DNSHasWriter`,
`RDRCHasWriter`). Theorems: EntriesAreWritten, NoOlderAnswer, CloseIsQuiet. They
assume nothing about the constants.

Only model-checked: all liveness (TrafficDelivered, PendingReleased, ConfigServed,
StatusConverges, AcquireReturns, CancelledReturns, Delivered and
CloseEnds), because fairness and ENABLED are out of the prover's reach.

## 5. Limits and plan

Not modelled: time other than as "may happen now", so intervals, backoff, jitter
and TTL arithmetic are absent; memory effects below the level of atomic
operations and locks; the content of messages, options and packets.

Planned, in this order:

1. DNS client: single flight, optimistic cache, background refresh against
   ClearCache (`dns/client.go:182`, `:490`); an abstract cache that it implements.
2. URLTest, Selector and the interrupt group: one ticker at a time, what an
   interrupt reaches, the saved selection, uint16 delays
   (`protocol/group/urltest.go:263`, `:310`, `selector.go:136`, `:154`).
3. The remaining managers: start order by dependencies; an inbound the controller
   creates during the start (`adapter/inbound/manager.go:145`), as a composition of
   Daemon with V2BoardController.
4. Daemon: `waitForStarted` and the handlers behind it.
5. Connection manager: the two copy loops, and that each connection is closed
   exactly once and leaves the list.
6. Cache file: that the position FakeIP waits to save is saved in the end.
7. UDP exchange: query IDs, callbacks and late answers over SharedConnPool
   (`dns/transport/udp.go:110`); the QUIC transport's retry with Reset
   (`quic/quic.go:134`).
8. Mieru: the opening of a session and the other direction as a second instance.
9. SSM API counters, OOM killer states, the parallel dialer.
10. An abstract pool (a set of connections handed out and taken back) that both
   modes implement, with a proof of it.

--------------------------- MODULE V2BoardTracker ---------------------------
(***************************************************************************)
(* The traffic tracker of one v2board node: the nodeTraffic object of      *)
(* service/v2board/tracker.go, the connections that RoutedConnection and   *)
(* RoutedPacketConnection wrap, and the controller goroutine that drives   *)
(* it (updateNode, the push cycle, DeleteNode).                            *)
(*                                                                         *)
(* Connections run concurrently with the controller.  nodeTraffic.access   *)
(* is held over several atomic operations only by snapshot, so it is the   *)
(* Boolean "locked"; every other locked section is one step.  A counter's  *)
(* upload and download fields are always handled together and are one      *)
(* number.  The per-user speed limiter does not influence accounting and   *)
(* is not part of the state.                                               *)
(***************************************************************************)
EXTENDS Integers, FiniteSets, FiniteSetsExt

CONSTANTS
    Keys,          \* user tracker keys (UUID, username or label)
    Uids,          \* panel user IDs
    Conns,         \* connections
    Counters,      \* pool of userCounter objects; NoCounter is Go's nil
    NoCounter,
    IPs,           \* source addresses; InvalidIP is a source without address
    InvalidIP,
    NodeID,        \* panel ID of the node, the suffix of an alive entry
    UserLists,     \* user lists the panel may hand out, [Keys -> Uids \cup {0}]
    AliveCounts,   \* alive counts per user the panel may hand out
    DeviceLimits,  \* device_limit of every user, as the panel may hand it out with
                   \* a list; 0 is unlimited
    TrafficMin,    \* node_report_min_traffic
    OnlineMin,     \* device_online_min_traffic
    MaxOnline,     \* maxRestoredAliveIPsPerUser
    MaxBytes,      \* bound: units of traffic per connection
    MaxRequeued    \* bound: units put back after a lost answer, per user

NoUid == 0

ASSUME UidsAssumption == Uids \subseteq Nat \ {NoUid}

\* A panel never lists one user ID under two keys: the ID is its primary key.
ASSUME UserListsAssumption ==
    \A list \in UserLists :
        /\ list \in [Keys -> Uids \cup {NoUid}]
        /\ \A k, l \in Keys : list[k] = list[l] /\ list[k] # NoUid => k = l

ASSUME CounterAssumption == NoCounter \notin Counters /\ InvalidIP \notin IPs

ASSUME FiniteAssumption == IsFiniteSet(Conns) /\ IsFiniteSet(Counters)

ASSUME LimitAssumption ==
    /\ DeviceLimits \subseteq [Uids -> Nat]
    /\ AliveCounts \subseteq [Uids -> Nat]
    /\ {TrafficMin, OnlineMin, MaxBytes, MaxRequeued} \subseteq Nat
    /\ MaxOnline \in Nat \ {0}

VARIABLES
    registered,    \* TrafficTracker.nodes has an entry for the node
    inboundReady,  \* Controller.inboundReady: push does nothing without it
    users,         \* nodeTraffic.users; NoUid is a missing entry
    limits,        \* the device field of nodeTraffic.limits; 0 is a missing entry
    counters,      \* nodeTraffic.counters
    pending,       \* nodeTraffic.pending, one set of counters per user ID
    online,        \* nodeTraffic.online
    previous,      \* nodeTraffic.previous
    alive,         \* nodeTraffic.alive
    aliveFresh,    \* aliveListFresh: the alive list has not outlived its TTL
    locked,        \* nodeTraffic.access is held by a running snapshot
    bytes,         \* userCounter.upload + userCounter.download
    active,        \* userCounter.active
    conn,          \* what each connection's goroutines hold
    step,          \* where the controller goroutine is in push
    todoPending,   \* pending counters the running snapshot has yet to visit
    visiting,      \* the pending counter it has swapped but not yet kept or pruned
    todoUsers,     \* users whose counter it has yet to visit
    totals,        \* snapshot's totals
    traffic,       \* the []UserTraffic being reported; 0 is no entry
    aliveOut,      \* the alive map being reported
    sent,          \* history: units moved by connections of a user
    billed,        \* history: units the panel has credited to a user
    dropped,       \* history: units snapshot filtered out by TrafficMin
    requeued       \* history: units restored although the panel credited them

userVars == <<registered, inboundReady, users, limits>>
nodeVars == <<userVars, counters, pending, online, previous, alive, aliveFresh>>
objVars  == <<bytes, active>>
snapVars == <<todoPending, visiting, todoUsers, locked>>
pushVars == <<step, snapVars, totals, traffic, aliveOut>>
history  == <<sent, billed, dropped, requeued>>
vars     == <<nodeVars, objVars, pushVars, history, conn>>

Phases == {"new", "matched", "permitted", "admitted", "open", "closed", "refused", "untracked"}

Steps == {"idle", "pending", "active", "report", "restoreTraffic",
          "restoreAlive", "reportAlive", "deleted"}

ConnState == [phase : Phases, key : Keys, ip : IPs \cup {InvalidIP},
              ctr : Counters \cup {NoCounter}, uid : Uids \cup {NoUid},
              moved : Nat, uncounted : Nat]

AliveEntry(ip) == <<ip, NodeID>>

NodeTypeOK ==
    /\ registered \in BOOLEAN
    /\ inboundReady \in BOOLEAN
    /\ users \in [Keys -> Uids \cup {NoUid}]
    /\ limits \in [Keys -> Nat]
    /\ counters \in [Keys -> Counters \cup {NoCounter}]
    /\ pending \in [Uids -> SUBSET Counters]
    /\ online \in [Keys -> SUBSET IPs]
    /\ previous \in [Keys -> SUBSET IPs]
    /\ alive \in [Uids -> Nat]
    /\ aliveFresh \in BOOLEAN

ObjTypeOK ==
    /\ bytes \in [Counters -> Nat]
    /\ active \in [Counters -> Nat]

ConnTypeOK == conn \in [Conns -> ConnState]

PushTypeOK ==
    /\ step \in Steps
    /\ locked \in BOOLEAN
    /\ todoPending \subseteq Uids \X Counters
    /\ visiting \subseteq Uids \X Counters
    /\ todoUsers \subseteq Keys
    /\ totals \in [Uids -> Nat]
    /\ traffic \in [Uids -> Nat]
    /\ aliveOut \in [Uids -> SUBSET (IPs \X {NodeID})]

HistoryTypeOK ==
    /\ sent \in [Uids -> Nat]
    /\ billed \in [Uids -> Nat]
    /\ dropped \in [Uids -> Nat]
    /\ requeued \in [Uids -> Nat]

\* Every variable has the type of the field or local it stands for; no counter
\* ever holds a negative amount or a negative number of connections.
TypeOK == NodeTypeOK /\ ObjTypeOK /\ ConnTypeOK /\ PushTypeOK /\ HistoryTypeOK

Zero == [u \in Uids |-> 0]
Plus(f, g) == [u \in Uids |-> f[u] + g[u]]

\* No node object exists before the first updateNode.
Init ==
    /\ registered = FALSE
    /\ inboundReady = FALSE
    /\ users = [k \in Keys |-> NoUid]
    /\ limits = [k \in Keys |-> 0]
    /\ counters = [k \in Keys |-> NoCounter]
    /\ pending = [u \in Uids |-> {}]
    /\ online = [k \in Keys |-> {}]
    /\ previous = [k \in Keys |-> {}]
    /\ alive = Zero
    /\ aliveFresh = FALSE
    /\ locked = FALSE
    /\ bytes = [c \in Counters |-> 0]
    /\ active = [c \in Counters |-> 0]
    /\ conn \in [Conns -> {[phase |-> "new", key |-> k, ip |-> a, ctr |-> NoCounter,
                            uid |-> NoUid, moved |-> 0, uncounted |-> 0] :
                           k \in Keys, a \in IPs \cup {InvalidIP}}]
    /\ step = "idle"
    /\ todoPending = {} /\ visiting = {} /\ todoUsers = {}
    /\ totals = Zero
    /\ traffic = Zero
    /\ aliveOut = [u \in Uids |-> {}]
    /\ sent = Zero /\ billed = Zero /\ dropped = Zero /\ requeued = Zero

-----------------------------------------------------------------------------
(* Connections: RoutedConnection / RoutedPacketConnection, then the copy     *)
(* loop that uses the wrapped connection.                                    *)

\* match finds the node and the user's counter; without one the connection is
\* passed on unwrapped.
Match(c) ==
    LET k == conn[c].key IN
    /\ conn[c].phase = "new"
    /\ ~locked
    /\ IF registered /\ users[k] # NoUid
       THEN conn' = [conn EXCEPT ![c].phase = "matched", ![c].ctr = counters[k],
                                 ![c].uid = users[k]]
       ELSE conn' = [conn EXCEPT ![c].phase = "untracked"]
    /\ UNCHANGED <<nodeVars, objVars, pushVars, history>>

\* The node's block rules give either verdict: the rules are not modelled here.
Blocked(c) ==
    /\ conn[c].phase = "matched"
    /\ ~locked
    /\ \E verdict \in {"permitted", "refused"} :
           conn' = [conn EXCEPT ![c].phase = verdict]
    /\ UNCHANGED <<nodeVars, objVars, pushVars, history>>

\* addOnlineIPWithLimit for every address of new: at the limit an arbitrary
\* entry makes room, and the address added last stays.
OnlineAfterAdd(old, new) ==
    {res \in SUBSET (old \cup new) :
        /\ Cardinality(res) = Min({Cardinality(old \cup new), MaxOnline})
        /\ new = {} \/ res \cap new # {}
        /\ new \subseteq old => res = old}

LocalNew(k) == Cardinality(online[k] \ previous[k])

RemoteAlive(u) == IF aliveFresh THEN alive[u] ELSE 0

\* Mutant: one address too many.
ExceedsDeviceLimitStrict(k, ip) ==
    /\ limits[k] > 0
    /\ ip \notin online[k]
    /\ ip \notin previous[k]
    /\ RemoteAlive(users[k]) + LocalNew(k) > limits[k]

ExceedsDeviceLimit(k, ip) ==
    /\ limits[k] > 0
    /\ ip \notin online[k]
    /\ ip \notin previous[k]
    /\ RemoteAlive(users[k]) + LocalNew(k) >= limits[k]

Admits(k, ip) == users[k] # NoUid /\ ~ExceedsDeviceLimit(k, ip)

\* markOnline checks the device limit and records the address in one section.
MarkOnline(c) ==
    LET k  == conn[c].key
        ip == conn[c].ip
    IN
    /\ conn[c].phase = "permitted"
    /\ \/ /\ ip = InvalidIP
          /\ conn' = [conn EXCEPT ![c].phase = "admitted"]
          /\ UNCHANGED online
       \/ /\ ip # InvalidIP /\ ~locked
          /\ ~Admits(k, ip)
          /\ conn' = [conn EXCEPT ![c].phase = "refused"]
          /\ UNCHANGED online
       \/ /\ ip # InvalidIP /\ ~locked
          /\ Admits(k, ip)
          /\ \E res \in OnlineAfterAdd(online[k], {ip}) : online' = [online EXCEPT ![k] = res]
          /\ conn' = [conn EXCEPT ![c].phase = "admitted"]
    /\ UNCHANGED <<userVars, counters, pending, previous, alive, aliveFresh>>
    /\ UNCHANGED <<objVars, pushVars, history>>

\* trackConn / trackPacketConn: only here does the counter become active.
TrackConn(c) ==
    /\ conn[c].phase = "admitted"
    /\ active' = [active EXCEPT ![conn[c].ctr] = @ + 1]
    /\ conn' = [conn EXCEPT ![c].phase = "open"]
    /\ UNCHANGED <<nodeVars, bytes, pushVars, history>>

\* A read or write of the counting wrapper returns; its goroutine adds the
\* amount to the counter afterwards, possibly after the other direction's
\* goroutine has closed the connection.
ConnMove(c) ==
    /\ conn[c].phase = "open"
    /\ conn[c].moved < MaxBytes
    /\ conn' = [conn EXCEPT ![c].moved = @ + 1, ![c].uncounted = @ + 1]
    /\ sent' = [sent EXCEPT ![conn[c].uid] = @ + 1]
    /\ UNCHANGED <<nodeVars, objVars, pushVars, billed, dropped, requeued>>

ConnCount(c) ==
    /\ conn[c].uncounted > 0
    /\ bytes' = [bytes EXCEPT ![conn[c].ctr] = @ + conn[c].uncounted]
    /\ conn' = [conn EXCEPT ![c].uncounted = 0]
    /\ UNCHANGED <<nodeVars, active, pushVars, history>>

\* Mutant: Close without the sync.Once.
ConnCloseTwice(c) ==
    /\ conn[c].phase \in {"open", "closed"}
    /\ active' = [active EXCEPT ![conn[c].ctr] = @ - 1]
    /\ conn' = [conn EXCEPT ![c].phase = "closed"]
    /\ UNCHANGED <<nodeVars, bytes, pushVars, history>>

\* Mutant: Close closes the inner connection only.
ConnCloseInner(c) ==
    /\ conn[c].phase = "open"
    /\ conn' = [conn EXCEPT ![c].phase = "closed"]
    /\ UNCHANGED <<nodeVars, objVars, pushVars, history>>

\* trackedConn.Close: once, the counter is released.
ConnClose(c) ==
    /\ conn[c].phase = "open"
    /\ active' = [active EXCEPT ![conn[c].ctr] = @ - 1]
    /\ conn' = [conn EXCEPT ![c].phase = "closed"]
    /\ UNCHANGED <<nodeVars, bytes, pushVars, history>>

-----------------------------------------------------------------------------
(* The controller goroutine: sync calls updateNode or updateAliveList, push   *)
(* runs snapshot and its report, Close calls DeleteNode.                      *)

\* Mutant: the counter stays with the key although the user ID changed.
CarriedByKey(list) == {k \in Keys : list[k] # NoUid /\ users[k] # NoUid}

Carried(list) == {k \in Keys : list[k] # NoUid /\ users[k] = list[k]}

Listed(list) == {k \in Keys : list[k] # NoUid}

\* Mutant: carried counters are retired as well.
RetiredAll(list, u) == {counters[k] : k \in {l \in Keys : users[l] = u}}

\* appendPendingCounter for the counter of every key that is not carried over.
Retired(list, u) ==
    {counters[k] : k \in {l \in Keys : users[l] = u /\ l \notin Carried(list)}}

Held == {conn[c].ctr : c \in Conns}

\* new(userCounter): a counter nothing refers to.
FreeCounters ==
    Counters \ (Held \cup {counters[k] : k \in Keys} \cup UNION {pending[u] : u \in Uids})

FreshCounters(S) ==
    {f \in [S -> FreeCounters] : \A k, l \in S : f[k] = f[l] => k = l}

\* Ends rebuildInbound (the inbound serves the users of the list) or clearInbound
\* (no user is left, and removing the inbound may have failed half-way).  The
\* limits are those of the new list; what is online is carried over as it is.
UpdateNode(list, limit, counts, isFresh) ==
    /\ step = "idle"
    /\ registered' = TRUE
    /\ inboundReady' \in IF Listed(list) = {} THEN BOOLEAN ELSE {TRUE}
    /\ users' = list
    /\ limits' = [k \in Keys |-> IF list[k] = NoUid THEN 0 ELSE limit[list[k]]]
    /\ \E new \in FreshCounters(Listed(list) \ Carried(list)) :
           counters' = [k \in Keys |-> IF list[k] = NoUid THEN NoCounter
                                       ELSE IF k \in Carried(list) THEN counters[k]
                                       ELSE new[k]]
    /\ pending' = [u \in Uids |-> pending[u] \cup Retired(list, u)]
    /\ online' = [k \in Keys |-> IF k \in Carried(list) THEN online[k] ELSE {}]
    /\ previous' = [k \in Keys |-> IF k \in Carried(list) THEN previous[k] ELSE {}]
    /\ alive' = counts
    /\ aliveFresh' = isFresh
    /\ UNCHANGED <<bytes, active, pushVars, history, conn>>

\* applyInbound could neither replace the inbound nor restore the old one, or
\* the panel failed while no inbound was left.
LoseInbound ==
    /\ step = "idle" /\ inboundReady
    /\ inboundReady' = FALSE
    /\ UNCHANGED <<registered, users, limits, counters, pending, online, previous>>
    /\ UNCHANGED <<alive, aliveFresh, objVars, pushVars, history, conn>>

UpdateAliveList(counts) ==
    /\ step = "idle" /\ inboundReady /\ registered
    /\ alive' = counts
    /\ aliveFresh' = TRUE
    /\ UNCHANGED <<userVars, counters, pending, online, previous>>
    /\ UNCHANGED <<objVars, pushVars, history, conn>>

\* The alive list outlives its TTL.
AliveExpire ==
    /\ aliveFresh
    /\ aliveFresh' = FALSE
    /\ UNCHANGED <<userVars, counters, pending, online, previous, alive>>
    /\ UNCHANGED <<objVars, pushVars, history, conn>>

DeleteNode ==
    /\ step = "idle"
    /\ registered' = FALSE
    /\ step' = "deleted"
    /\ UNCHANGED <<inboundReady, users, limits, counters, pending, online, previous>>
    /\ UNCHANGED <<alive, aliveFresh>>
    /\ UNCHANGED <<objVars, snapVars, totals, traffic, aliveOut, history, conn>>

-----------------------------------------------------------------------------
(* push: nodeTraffic.snapshot under the lock, the two reports to the panel,   *)
(* and the restores after a failed report.                                    *)

\* Mutant: only the counters of listed users are visited.
SnapshotBeginListed ==
    /\ step = "idle" /\ inboundReady /\ registered
    /\ step' = "pending"
    /\ locked' = TRUE
    /\ todoPending' = {}
    /\ todoUsers' = {k \in Keys : counters[k] # NoCounter}
    /\ UNCHANGED <<nodeVars, objVars, visiting, totals, traffic, aliveOut, history, conn>>

SnapshotBegin ==
    /\ step = "idle" /\ inboundReady /\ registered
    /\ step' = "pending"
    /\ locked' = TRUE
    /\ todoPending' = {p \in Uids \X Counters : p[2] \in pending[p[1]]}
    /\ todoUsers' = {k \in Keys : counters[k] # NoCounter}
    /\ UNCHANGED <<nodeVars, objVars, visiting, totals, traffic, aliveOut, history, conn>>

\* Mutant: Load instead of Swap(0).
LoadInto(u, c) ==
    /\ totals' = [totals EXCEPT ![u] = @ + bytes[c]]
    /\ UNCHANGED bytes

\* addCounterSnapshot: Swap(0) and add to the user's total.
SwapInto(u, c) ==
    /\ totals' = [totals EXCEPT ![u] = @ + bytes[c]]
    /\ bytes' = [bytes EXCEPT ![c] = 0]

SnapshotPending ==
    /\ step = "pending"
    /\ \E p \in todoPending :
           /\ SwapInto(p[1], p[2])
           /\ visiting' = {p}
           /\ todoPending' = todoPending \ {p}
    /\ step' = "active"
    /\ UNCHANGED <<nodeVars, active, todoUsers, locked, traffic, aliveOut, history, conn>>

\* Mutant: an idle counter is kept as well.
KeepsPendingIdle(c) == active[c] >= 0

KeepsPending(c) == active[c] > 0

\* A pending counter is kept only while active.Load() > 0, read after the swap.
SnapshotPrune ==
    /\ step = "active"
    /\ \E p \in visiting :
           pending' = IF KeepsPending(p[2]) THEN pending
                      ELSE [pending EXCEPT ![p[1]] = @ \ {p[2]}]
    /\ visiting' = {}
    /\ step' = "pending"
    /\ UNCHANGED <<userVars, counters, online, previous, alive, aliveFresh>>
    /\ UNCHANGED <<objVars, todoPending, todoUsers, locked, totals, traffic, aliveOut>>
    /\ UNCHANGED <<history, conn>>

SnapshotCounter ==
    /\ step = "pending" /\ todoPending = {}
    /\ \E k \in todoUsers :
           /\ SwapInto(users[k], counters[k])
           /\ aliveOut' = IF bytes[counters[k]] >= OnlineMin
                          THEN [aliveOut EXCEPT ![users[k]] = {AliveEntry(ip) : ip \in online[k]}]
                          ELSE aliveOut
           /\ todoUsers' = todoUsers \ {k}
    /\ UNCHANGED <<nodeVars, active, step, todoPending, visiting, locked, traffic, history, conn>>

\* The online sets become the previous ones; totals below the minimum are
\* neither reported nor put back.
SnapshotEnd ==
    /\ step = "pending" /\ todoPending = {} /\ todoUsers = {}
    /\ traffic' = [u \in Uids |-> IF totals[u] >= TrafficMin THEN totals[u] ELSE 0]
    /\ dropped' = [u \in Uids |-> IF totals[u] >= TrafficMin THEN dropped[u]
                                  ELSE dropped[u] + totals[u]]
    /\ totals' = Zero
    /\ previous' = online
    /\ online' = [k \in Keys |-> {}]
    /\ locked' = FALSE
    /\ step' = "report"
    /\ UNCHANGED <<userVars, counters, pending, alive, aliveFresh>>
    /\ UNCHANGED <<objVars, todoPending, visiting, todoUsers, aliveOut>>
    /\ UNCHANGED <<sent, billed, requeued, conn>>

ReportTrafficOK ==
    /\ step = "report"
    /\ billed' = Plus(billed, traffic)
    /\ traffic' = Zero
    /\ step' = "reportAlive"
    /\ UNCHANGED <<nodeVars, objVars, snapVars, totals, aliveOut, sent, dropped, requeued, conn>>

\* The request fails.  The panel may have credited it before the answer was
\* lost; RestoreTraffic takes the lock for all its entries.
ReportTrafficFail ==
    /\ step = "report"
    /\ \/ UNCHANGED <<billed, requeued>>
       \/ /\ billed' = Plus(billed, traffic)
          /\ requeued' = Plus(requeued, traffic)
          /\ \A u \in Uids : requeued'[u] <= MaxRequeued
    /\ step' = "restoreTraffic"
    /\ locked' = TRUE
    /\ UNCHANGED <<nodeVars, objVars, todoPending, visiting, todoUsers>>
    /\ UNCHANGED <<totals, traffic, aliveOut, sent, dropped, conn>>

\* counterForUIDLocked, with the counter it returns and pending as it leaves it.
\* The slice pending[uid] is a set here, so any member may be its first entry.
CounterForUID(u, c, pend) ==
    IF \E k \in Keys : users[k] = u
    THEN /\ \E k \in Keys : users[k] = u /\ c = counters[k]
         /\ pend = pending
    ELSE IF pending[u] # {}
    THEN c \in pending[u] /\ pend = pending
    ELSE c \in FreeCounters /\ pend = [pending EXCEPT ![u] = {c}]

RestoreTraffic ==
    /\ step = "restoreTraffic"
    /\ \E u \in Uids, c \in Counters :
           /\ traffic[u] > 0
           /\ CounterForUID(u, c, pending')
           /\ bytes' = [bytes EXCEPT ![c] = @ + traffic[u]]
           /\ traffic' = [traffic EXCEPT ![u] = 0]
    /\ UNCHANGED <<userVars, counters, online, previous, alive, aliveFresh>>
    /\ UNCHANGED <<active, step, snapVars, totals, aliveOut, history, conn>>

RestoreTrafficEnd ==
    /\ step = "restoreTraffic" /\ traffic = Zero
    /\ locked' = FALSE
    /\ step' = "restoreAlive"
    /\ UNCHANGED <<nodeVars, objVars, todoPending, visiting, todoUsers>>
    /\ UNCHANGED <<totals, traffic, aliveOut, history, conn>>

\* The address part of an alive entry, everything before its last "_".
AddressOf(entry) == entry[1]

ReportedAddresses(k) ==
    IF users[k] = NoUid THEN {} ELSE {AddressOf(e) : e \in aliveOut[users[k]]}

RestoreAlive ==
    /\ step = "restoreAlive"
    /\ \E res \in [Keys -> SUBSET IPs] :
           /\ \A k \in Keys : res[k] \in OnlineAfterAdd(online[k], ReportedAddresses(k))
           /\ online' = res
    /\ aliveOut' = [u \in Uids |-> {}]
    /\ step' = "idle"
    /\ UNCHANGED <<userVars, counters, pending, previous, alive, aliveFresh>>
    /\ UNCHANGED <<objVars, snapVars, totals, traffic, history, conn>>

ReportAlive ==
    /\ step = "reportAlive"
    /\ \/ step' = "idle" /\ aliveOut' = [u \in Uids |-> {}]
       \/ step' = "restoreAlive" /\ UNCHANGED aliveOut
    /\ UNCHANGED <<nodeVars, objVars, snapVars, totals, traffic, history, conn>>

-----------------------------------------------------------------------------
ConnStep == \E c \in Conns :
    \/ Match(c) \/ Blocked(c) \/ MarkOnline(c) \/ TrackConn(c)
    \/ ConnMove(c) \/ ConnCount(c) \/ ConnClose(c)

SyncStep == \E counts \in AliveCounts :
    \/ \E list \in UserLists, limit \in DeviceLimits, isFresh \in BOOLEAN :
           UpdateNode(list, limit, counts, isFresh)
    \/ UpdateAliveList(counts)

PushStep ==
    \/ SnapshotBegin \/ SnapshotPending \/ SnapshotPrune \/ SnapshotCounter \/ SnapshotEnd
    \/ ReportTrafficOK \/ ReportTrafficFail \/ RestoreTraffic \/ RestoreTrafficEnd
    \/ ReportAlive \/ RestoreAlive

Next == ConnStep \/ SyncStep \/ LoseInbound \/ PushStep \/ AliveExpire \/ DeleteNode

Spec == Init /\ [][Next]_vars

-----------------------------------------------------------------------------
(* Safety                                                                     *)

\* The units that f has in S, and their number.
Units(f, S) == UNION {{x} \X (1 .. f[x]) : x \in S}
Sum(f, S) == Cardinality(Units(f, S))

ConnsOf(u) == {c \in Conns : conn[c].uid = u}

\* Every counter that holds traffic of a user: the ones the node refers to and
\* the ones only a connection still refers to.
CountersOf(u) ==
    {counters[k] : k \in {l \in Keys : users[l] = u}}
        \cup pending[u]
        \cup {conn[c].ctr : c \in ConnsOf(u)}

\* No unit of traffic is created or destroyed by the concurrent additions,
\* swaps, user-list changes, reports and restores: what the connections of a
\* user moved (plus what was put back although the panel had credited it) is
\* what the panel credited, what the minimum filtered out, what is in a counter
\* and what a goroutine of the tracker is carrying.
TrafficConserved ==
    \A u \in Uids :
        sent[u] + requeued[u] =
            billed[u] + dropped[u] + totals[u] + traffic[u]
            + Sum(bytes, CountersOf(u))
            + Sum([c \in Conns |-> conn[c].uncounted], ConnsOf(u))

Reachable(c) == c \in {counters[k] : k \in Keys} \cup UNION {pending[u] : u \in Uids}

\* Every listed user has a counter, and a counter is in one place only: the
\* current counter of one key or a pending counter of one user.  snapshot would
\* otherwise visit it twice, or restoreTraffic credit the wrong user.  What a
\* running snapshot has yet to visit is among them: the lists cannot change
\* under it.
CountersInOnePlace ==
    /\ \A k \in Keys : users[k] # NoUid <=> counters[k] # NoCounter
    /\ \A k, l \in Keys : counters[k] = counters[l] /\ counters[k] # NoCounter => k = l
    /\ \A k \in Keys, u \in Uids : counters[k] \notin pending[u]
    /\ \A u, v \in Uids : pending[u] \cap pending[v] # {} => u = v
    /\ \A k \in todoUsers : counters[k] # NoCounter
    /\ todoUsers # {} => step \in {"pending", "active"}

\* A counter belongs to one user: the traffic of a connection is never billed
\* to a user other than the one it authenticated as, also when the panel gives
\* its key to another user while the connection is open.
BilledToOwner ==
    \A c \in Conns : conn[c].ctr # NoCounter =>
        /\ \A k \in Keys : counters[k] = conn[c].ctr => users[k] = conn[c].uid
        /\ \A u \in Uids : conn[c].ctr \in pending[u] => u = conn[c].uid

\* A counter's active count is the number of open connections that use it, so
\* snapshot keeps a removed user's counter exactly while it is in use.
ActiveIsOpenConns ==
    \A c \in Counters :
        active[c] = Cardinality({x \in Conns : conn[x].ctr = c /\ conn[x].phase = "open"})

AddsWithinLimit(k) ==
    LocalNew(k)' > LocalNew(k) =>
        limits[k] = 0 \/ RemoteAlive(users[k]) + LocalNew(k)' <= limits[k]

\* The number of addresses a user has added since the last snapshot grows only
\* within the limit in force, the devices the panel counts elsewhere included.
\* A list with a lower limit, what updateUsers carries over, a snapshot and what
\* a failed report puts back never make it grow.
DeviceLimitRespected == [][\A k \in Keys : AddsWithinLimit(k)]_vars

\* Traffic on a counter the node no longer refers to is never reported: while
\* the node exists, an open connection's counter is one snapshot visits.
OpenConnIsReported ==
    \A c \in Conns : registered /\ conn[c].phase = "open" => Reachable(conn[c].ctr)

\* node_report_min_traffic as documented: once the node's traffic delta reaches
\* the minimum, a snapshot drops nothing.
MinTrafficIsPerNode ==
    [][SnapshotEnd /\ Sum(totals, Uids) >= TrafficMin => dropped' = dropped]_vars

-----------------------------------------------------------------------------
(* Liveness.  Run re-arms the push timer after every push, so push keeps       *)
(* running and finishes; the panel accepts a report again and again.  push      *)
(* returns at once while the inbound is lost, so both properties are about a    *)
(* node whose inbound is there to stay.                                         *)

Fairness == WF_vars(PushStep) /\ SF_vars(ReportTrafficOK)

FairSpec == Spec /\ Fairness

InUse(c) == \E x \in Conns :
    conn[x].ctr = c /\ conn[x].phase \in {"matched", "permitted", "admitted", "open"}

\* The counter of a removed user leaves nodeTraffic.pending once no connection
\* uses it, also when reports keep failing: pending does not grow for ever.
PendingReleased == <>[]inboundReady =>
    \A u \in Uids, c \in Counters :
        (c \in pending[u] /\ ~InUse(c)) ~> (c \notin pending[u] \/ step = "deleted")

Outstanding(u) ==
    totals[u] + traffic[u]
    + Sum(bytes, {counters[k] : k \in {l \in Keys : users[l] = u}} \cup pending[u])

\* While the node exists, everything counted for a user is eventually reported,
\* removed users included.
TrafficDelivered == <>[]inboundReady =>
    \A u \in Uids : []<>(Outstanding(u) = 0 \/ step = "deleted")

=============================================================================

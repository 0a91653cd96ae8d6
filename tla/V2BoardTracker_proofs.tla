----------------------- MODULE V2BoardTracker_proofs ------------------------
(***************************************************************************)
(* Proofs about V2BoardTracker for any number of users, keys, connections  *)
(* and counters.  The inductive invariant joins the typing, the place of   *)
(* each counter, the owner of each connection's counter, and the active    *)
(* count; none of the last three is inductive without the first two.       *)
(***************************************************************************)
EXTENDS V2BoardTracker, FiniteSetTheorems, TLAPS

\* First-order leaves go to Zenon; a leaf that needs arithmetic or records says SMT.
USE Zenon

IndInv == TypeOK /\ CountersInOnePlace /\ BilledToOwner /\ ActiveIsOpenConns

-----------------------------------------------------------------------------
\* Every variable starts within its type.
LEMMA InitTypeOK == Init => TypeOK
<1> SUFFICES ASSUME Init PROVE TypeOK
  OBVIOUS
<1> USE DEF Init, Zero, NoUid
<1>1. NodeTypeOK BY UidsAssumption DEF NodeTypeOK
<1>2. ObjTypeOK BY DEF ObjTypeOK
<1>3. ConnTypeOK BY SMT DEF ConnTypeOK, ConnState, Phases
<1>4. PushTypeOK BY DEF PushTypeOK, Steps
<1>5. HistoryTypeOK BY DEF HistoryTypeOK
<1> QED BY <1>1, <1>2, <1>3, <1>4, <1>5 DEF TypeOK

\* Adding a natural number at one point keeps a function into Nat one, also when
\* the point is outside its domain (the nil counter).
LEMMA AddAt ==
  ASSUME NEW S, NEW f \in [S -> Nat], NEW x, NEW n \in Nat
  PROVE  [f EXCEPT ![x] = @ + n] \in [S -> Nat]
<1>1. [f EXCEPT ![x] = @ + n] = [y \in S |-> IF y = x THEN f[x] + n ELSE f[y]]
  OBVIOUS
<1>2. \A y \in S : (IF y = x THEN f[x] + n ELSE f[y]) \in Nat
  BY SMT
<1> QED BY <1>1, <1>2

\* Taking one away does too where the value is positive.
LEMMA TakeAt ==
  ASSUME NEW S, NEW f \in [S -> Nat], NEW x, x \in S => f[x] >= 1
  PROVE  [f EXCEPT ![x] = @ - 1] \in [S -> Nat]
<1>1. [f EXCEPT ![x] = @ - 1] = [y \in S |-> IF y = x THEN f[x] - 1 ELSE f[y]]
  OBVIOUS
<1>2. \A y \in S : (IF y = x THEN f[x] - 1 ELSE f[y]) \in Nat
  BY SMT
<1> QED BY <1>1, <1>2

\* The steps of a connection stay within the types; ConnClose does because the
\* counter it releases has at least one open connection.
LEMMA ConnStepTypeOK ==
  ASSUME TypeOK, ActiveIsOpenConns, NEW c \in Conns,
         \/ Match(c) \/ Blocked(c) \/ MarkOnline(c) \/ TrackConn(c)
         \/ ConnMove(c) \/ ConnCount(c) \/ ConnClose(c)
  PROVE  TypeOK'
<1> USE DEF TypeOK, ConnTypeOK, ConnState, Phases, nodeVars, userVars, objVars, snapVars, pushVars, history
<1>0. conn[c] \in ConnState
  OBVIOUS
<1>1. CASE Match(c)
  <2>1. ConnTypeOK' BY <1>0, <1>1, SMT DEF Match, NodeTypeOK
  <2> QED BY <2>1, <1>1 DEF Match, NodeTypeOK, ObjTypeOK, PushTypeOK, HistoryTypeOK
<1>2. CASE Blocked(c)
  <2>1. ConnTypeOK' BY <1>0, <1>2, SMT DEF Blocked
  <2> QED BY <2>1, <1>2 DEF Blocked, NodeTypeOK, ObjTypeOK, PushTypeOK, HistoryTypeOK
<1>3. CASE MarkOnline(c)
  <2>1. ConnTypeOK' BY <1>0, <1>3, SMT DEF MarkOnline
  <2>2. online' \in [Keys -> SUBSET IPs]
    BY <1>0, <1>3, SMT DEF MarkOnline, NodeTypeOK, OnlineAfterAdd
  <2> QED BY <2>1, <2>2, <1>3 DEF MarkOnline, NodeTypeOK, ObjTypeOK, PushTypeOK, HistoryTypeOK
<1>4. CASE TrackConn(c)
  <2>1. ConnTypeOK' BY <1>0, <1>4 DEF TrackConn
  <2>2. ObjTypeOK' BY <1>4, AddAt DEF TrackConn, ObjTypeOK
  <2> QED BY <2>1, <2>2, <1>4 DEF TrackConn, NodeTypeOK, PushTypeOK, HistoryTypeOK
<1>5. CASE ConnMove(c)
  <2>1. ConnTypeOK' BY <1>0, <1>5, SMT DEF ConnMove
  <2>2. HistoryTypeOK' BY <1>5, SMT DEF ConnMove, HistoryTypeOK
  <2> QED BY <2>1, <2>2, <1>5 DEF ConnMove, NodeTypeOK, ObjTypeOK, PushTypeOK
<1>6. CASE ConnCount(c)
  <2>1. ConnTypeOK' BY <1>0, <1>6 DEF ConnCount
  <2>2. conn[c].uncounted \in Nat BY <1>0
  <2>3. ObjTypeOK' BY <2>2, <1>6, AddAt DEF ConnCount, ObjTypeOK
  <2> QED BY <2>1, <2>3, <1>6 DEF ConnCount, NodeTypeOK, PushTypeOK, HistoryTypeOK
<1>7. CASE ConnClose(c)
  <2>1. ConnTypeOK' BY <1>0, <1>7 DEF ConnClose
  <2>2. ASSUME conn[c].ctr \in Counters PROVE active[conn[c].ctr] >= 1
    <3> DEFINE Open == {x \in Conns : conn[x].ctr = conn[c].ctr /\ conn[x].phase = "open"}
    <3>1. c \in Open BY <1>7 DEF ConnClose
    <3>2. IsFiniteSet(Open) BY FiniteAssumption, FS_Subset
    <3>3. Cardinality(Open) \in Nat /\ Cardinality(Open) # 0
      BY <3>1, <3>2, FS_CardinalityType, FS_EmptySet
    <3>4. active[conn[c].ctr] = Cardinality(Open) BY <2>2 DEF ActiveIsOpenConns
    <3> QED BY <3>3, <3>4, SMT
  <2>3. ObjTypeOK' BY <2>2, <1>7, TakeAt DEF ConnClose, ObjTypeOK
  <2> QED BY <2>1, <2>3, <1>7 DEF ConnClose, NodeTypeOK, PushTypeOK, HistoryTypeOK
<1> QED BY <1>1, <1>2, <1>3, <1>4, <1>5, <1>6, <1>7

\* The steps of sync and Close, and the passing of time, stay within the types.
LEMMA SyncStepTypeOK ==
  ASSUME TypeOK, CountersInOnePlace, SyncStep \/ LoseInbound \/ AliveExpire \/ DeleteNode
  PROVE  TypeOK'
<1> USE DEF TypeOK, nodeVars, userVars, objVars, snapVars, pushVars, history
<1>1. ASSUME NEW list \in UserLists, NEW limit \in DeviceLimits,
             NEW counts \in AliveCounts, NEW isFresh \in BOOLEAN, UpdateNode(list, limit, counts, isFresh)
      PROVE  TypeOK'
  <2>1. users' \in [Keys -> Uids \cup {NoUid}]
    BY <1>1, UserListsAssumption DEF UpdateNode
  <2>2. counters' \in [Keys -> Counters \cup {NoCounter}]
    <3>1. PICK new \in FreshCounters(Listed(list) \ Carried(list)) :
            counters' = [k \in Keys |-> IF list[k] = NoUid THEN NoCounter
                                        ELSE IF k \in Carried(list) THEN counters[k]
                                        ELSE new[k]]
      BY <1>1 DEF UpdateNode
    <3>2. \A k \in Listed(list) \ Carried(list) : new[k] \in Counters
      BY DEF FreshCounters, FreeCounters
    <3> QED BY <3>1, <3>2 DEF NodeTypeOK, Listed
  <2>3. pending' \in [Uids -> SUBSET Counters]
    <3>1. \A u \in Uids : Retired(list, u) \subseteq Counters
      BY UidsAssumption DEF Retired, NodeTypeOK, CountersInOnePlace, NoUid
    <3> QED BY <3>1, <1>1 DEF UpdateNode, NodeTypeOK
  <2>4. NodeTypeOK'
    <3>1. limits' \in [Keys -> Nat] /\ inboundReady' \in BOOLEAN
      <4>1. \A k \in Keys : list[k] # NoUid => list[k] \in Uids BY UserListsAssumption
      <4>2. limit \in [Uids -> Nat] BY LimitAssumption
      <4>3. \A k \in Keys : (IF list[k] = NoUid THEN 0 ELSE limit[list[k]]) \in Nat
        BY <4>1, <4>2
      <4> QED BY <1>1, <4>3 DEF UpdateNode
    <3> QED BY <2>1, <2>2, <2>3, <3>1, <1>1, LimitAssumption DEF UpdateNode, NodeTypeOK
  <2> QED BY <2>4, <1>1 DEF UpdateNode, ObjTypeOK, ConnTypeOK, PushTypeOK, HistoryTypeOK
<1>2. ASSUME NEW counts \in AliveCounts, UpdateAliveList(counts) PROVE TypeOK'
  BY <1>2, LimitAssumption
  DEF UpdateAliveList, NodeTypeOK, ObjTypeOK, ConnTypeOK, PushTypeOK, HistoryTypeOK
<1>3. CASE AliveExpire
  BY <1>3 DEF AliveExpire, NodeTypeOK, ObjTypeOK, ConnTypeOK, PushTypeOK, HistoryTypeOK
<1>4. CASE DeleteNode
  BY <1>4 DEF DeleteNode, NodeTypeOK, ObjTypeOK, ConnTypeOK, PushTypeOK, HistoryTypeOK, Steps
<1>5. CASE LoseInbound
  BY <1>5 DEF LoseInbound, NodeTypeOK, ObjTypeOK, ConnTypeOK, PushTypeOK, HistoryTypeOK
<1> QED BY <1>1, <1>2, <1>3, <1>4, <1>5 DEF SyncStep

\* The steps of push stay within the types.
LEMMA PushStepTypeOK ==
  ASSUME TypeOK, CountersInOnePlace, PushStep
  PROVE  TypeOK'
<1> USE DEF TypeOK, nodeVars, userVars, objVars, snapVars, pushVars, history
<1>1. CASE SnapshotBegin
  <2>1. PushTypeOK' BY <1>1 DEF SnapshotBegin, PushTypeOK, NodeTypeOK, Steps
  <2> QED BY <2>1, <1>1 DEF SnapshotBegin, NodeTypeOK, ObjTypeOK, ConnTypeOK, HistoryTypeOK
<1>2. ASSUME NEW u, NEW c, SwapInto(u, c)
      PROVE  /\ bytes' \in [Counters -> Nat]
             /\ (c \in Counters) => totals' \in [Uids -> Nat]
  BY <1>2, AddAt DEF SwapInto, ObjTypeOK, PushTypeOK
<1>3. CASE SnapshotPending
  <2>1. PICK p \in todoPending : SwapInto(p[1], p[2]) /\ visiting' = {p}
    BY <1>3 DEF SnapshotPending
  <2>2. p[2] \in Counters BY DEF PushTypeOK
  <2>3. ObjTypeOK' BY <1>2, <1>3, <2>1 DEF SnapshotPending, ObjTypeOK
  <2>4. PushTypeOK' BY <1>2, <1>3, <2>1, <2>2 DEF SnapshotPending, PushTypeOK, Steps
  <2> QED BY <2>3, <2>4, <1>3 DEF SnapshotPending, NodeTypeOK, ConnTypeOK, HistoryTypeOK
<1>4. CASE SnapshotPrune
  <2>1. pending' \in [Uids -> SUBSET Counters]
    BY <1>4, ZenonT(60) DEF SnapshotPrune, NodeTypeOK
  <2>2. NodeTypeOK' BY <2>1, <1>4 DEF SnapshotPrune, NodeTypeOK
  <2> QED BY <2>2, <1>4 DEF SnapshotPrune, ObjTypeOK, ConnTypeOK, PushTypeOK, HistoryTypeOK, Steps
<1>5. CASE SnapshotCounter
  <2>1. PICK k \in todoUsers :
          /\ SwapInto(users[k], counters[k])
          /\ aliveOut' = IF bytes[counters[k]] >= OnlineMin
                         THEN [aliveOut EXCEPT ![users[k]] = {AliveEntry(ip) : ip \in online[k]}]
                         ELSE aliveOut
          /\ todoUsers' = todoUsers \ {k}
    BY <1>5 DEF SnapshotCounter
  <2>2. ObjTypeOK' BY <1>2, <1>5, <2>1 DEF SnapshotCounter, ObjTypeOK
  <2>3. aliveOut' \in [Uids -> SUBSET (IPs \X {NodeID})]
    <3>1. {AliveEntry(ip) : ip \in online[k]} \subseteq IPs \X {NodeID}
      BY SMT DEF AliveEntry, PushTypeOK, NodeTypeOK
    <3> QED BY <3>1, <2>1 DEF PushTypeOK
  <2>4. totals' \in [Uids -> Nat]
    <3>1. counters[k] \in Counters BY DEF CountersInOnePlace, NodeTypeOK, PushTypeOK
    <3> QED BY <3>1, <2>1, <1>2
  <2>5. PushTypeOK' BY <2>1, <2>3, <2>4, <1>5 DEF SnapshotCounter, PushTypeOK
  <2> QED BY <2>2, <2>5, <1>5 DEF SnapshotCounter, NodeTypeOK, ConnTypeOK, HistoryTypeOK
<1>6. CASE SnapshotEnd
  <2>1. NodeTypeOK' BY <1>6 DEF SnapshotEnd, NodeTypeOK
  <2>2. PushTypeOK' BY <1>6 DEF SnapshotEnd, PushTypeOK, Steps, Zero
  <2>3. HistoryTypeOK' BY <1>6, SMT DEF SnapshotEnd, HistoryTypeOK, PushTypeOK
  <2> QED BY <2>1, <2>2, <2>3, <1>6 DEF SnapshotEnd, ObjTypeOK, ConnTypeOK
<1>7. CASE ReportTrafficOK
  <2>1. PushTypeOK' BY <1>7 DEF ReportTrafficOK, PushTypeOK, Steps, Zero
  <2>2. HistoryTypeOK' BY <1>7, SMT
                          DEF ReportTrafficOK, HistoryTypeOK, PushTypeOK, Plus
  <2> QED BY <2>1, <2>2, <1>7 DEF ReportTrafficOK, NodeTypeOK, ObjTypeOK, ConnTypeOK
<1>8. CASE ReportTrafficFail
  <2>1. PushTypeOK' BY <1>8 DEF ReportTrafficFail, PushTypeOK, Steps
  <2>2. HistoryTypeOK' BY <1>8, SMT
                          DEF ReportTrafficFail, HistoryTypeOK, PushTypeOK, Plus
  <2> QED BY <2>1, <2>2, <1>8 DEF ReportTrafficFail, NodeTypeOK, ObjTypeOK, ConnTypeOK
<1>9. CASE RestoreTraffic
  <2>1. PICK u \in Uids, c \in Counters :
          /\ CounterForUID(u, c, pending')
          /\ bytes' = [bytes EXCEPT ![c] = @ + traffic[u]]
          /\ traffic' = [traffic EXCEPT ![u] = 0]
    BY <1>9 DEF RestoreTraffic
  <2>2. NodeTypeOK' BY <2>1, <1>9, SMT DEF RestoreTraffic, CounterForUID, NodeTypeOK
  <2>3. ObjTypeOK' BY <2>1, <1>9, AddAt DEF RestoreTraffic, ObjTypeOK, PushTypeOK
  <2>4. PushTypeOK' BY <2>1, <1>9 DEF RestoreTraffic, PushTypeOK
  <2> QED BY <2>2, <2>3, <2>4, <1>9 DEF RestoreTraffic, ConnTypeOK, HistoryTypeOK
<1>10. CASE RestoreTrafficEnd
  BY <1>10
  DEF RestoreTrafficEnd, NodeTypeOK, ObjTypeOK, ConnTypeOK, PushTypeOK, HistoryTypeOK, Steps
<1>11. CASE RestoreAlive
  <2>1. NodeTypeOK' BY <1>11 DEF RestoreAlive, NodeTypeOK
  <2>2. PushTypeOK' BY <1>11 DEF RestoreAlive, PushTypeOK, Steps
  <2> QED BY <2>1, <2>2, <1>11 DEF RestoreAlive, ObjTypeOK, ConnTypeOK, HistoryTypeOK
<1>12. CASE ReportAlive
  <2>1. PushTypeOK' BY <1>12 DEF ReportAlive, PushTypeOK, Steps
  <2> QED BY <2>1, <1>12 DEF ReportAlive, NodeTypeOK, ObjTypeOK, ConnTypeOK, HistoryTypeOK
<1> QED
  BY <1>1, <1>3, <1>4, <1>5, <1>6, <1>7, <1>8, <1>9, <1>10, <1>11, <1>12 DEF PushStep

-----------------------------------------------------------------------------
\* Init has no counters, so each is in at most one place.
LEMMA InitOwnership == Init => CountersInOnePlace /\ BilledToOwner
  BY CounterAssumption, SMTT(60) DEF Init, CountersInOnePlace, BilledToOwner

\* Steps that change neither the users, the counters nor pending, and give no
\* connection another counter, keep both ownership invariants.
LEMMA OwnershipFrame ==
  ASSUME CountersInOnePlace, BilledToOwner,
         UNCHANGED <<users, counters, pending>>,
         todoUsers' \subseteq todoUsers,
         todoUsers' # {} => step' \in {"pending", "active"},
         \A c \in Conns : conn'[c].ctr = conn[c].ctr /\ conn'[c].uid = conn[c].uid
  PROVE  CountersInOnePlace' /\ BilledToOwner'
  BY DEF CountersInOnePlace, BilledToOwner

\* updateUsers keeps both: a carried counter keeps its key and user, a retired
\* one moves to its user's pending counters, and a new one is nobody's.
LEMMA UpdateNodeOwnership ==
  ASSUME TypeOK, CountersInOnePlace, BilledToOwner,
         NEW list \in UserLists, NEW limit \in DeviceLimits,
         NEW counts \in AliveCounts, NEW isFresh \in BOOLEAN, UpdateNode(list, limit, counts, isFresh)
  PROVE  CountersInOnePlace' /\ BilledToOwner'
<1> DEFINE Added == Listed(list) \ Carried(list)
<1>1. PICK new \in FreshCounters(Added) :
        counters' = [k \in Keys |-> IF list[k] = NoUid THEN NoCounter
                                    ELSE IF k \in Carried(list) THEN counters[k]
                                    ELSE new[k]]
  BY DEF UpdateNode
<1>2. /\ users' = list /\ conn' = conn /\ todoUsers' = todoUsers /\ step' = step
      /\ pending' = [u \in Uids |-> pending[u] \cup Retired(list, u)]
      /\ list \in [Keys -> Uids \cup {NoUid}]
      /\ todoUsers = {}
  BY UserListsAssumption DEF UpdateNode, CountersInOnePlace, pushVars, snapVars
<1>3. /\ \A k \in Added : new[k] \in Counters /\ new[k] # NoCounter
      /\ \A k \in Added, l \in Keys : new[k] # counters[l]
      /\ \A k \in Added, u \in Uids : new[k] \notin pending[u]
      /\ \A k \in Added, c \in Conns : new[k] # conn[c].ctr
      /\ \A k, l \in Added : new[k] = new[l] => k = l
  BY CounterAssumption, SMTT(60) DEF FreshCounters, FreeCounters, Held
<1>4. \A k \in Carried(list) : k \in Keys /\ list[k] # NoUid /\ users[k] = list[k]
  BY DEF Carried
<1>5. \A k \in Keys : \/ list[k] = NoUid /\ counters'[k] = NoCounter
                      \/ k \in Carried(list) /\ counters'[k] = counters[k]
                      \/ k \in Added /\ counters'[k] = new[k]
  BY <1>1, <1>4 DEF Listed
<1>6. \A u \in Uids : \A c \in Retired(list, u) :
        \E k \in Keys : users[k] = u /\ k \notin Carried(list) /\ c = counters[k] /\ c # NoCounter
  BY UidsAssumption DEF Retired, CountersInOnePlace, NoUid
<1> HIDE DEF Added
<1>7. \A k \in Keys : users'[k] # NoUid <=> counters'[k] # NoCounter
  BY <1>2, <1>3, <1>4, <1>5 DEF CountersInOnePlace, Listed, Added
<1>8. \A k, l \in Keys : counters'[k] = counters'[l] /\ counters'[k] # NoCounter => k = l
  BY <1>3, <1>5, <1>4, SMTT(60) DEF CountersInOnePlace
<1>9. \A k \in Keys, u \in Uids : counters'[k] \notin pending'[u]
  <2> SUFFICES ASSUME NEW k \in Keys, NEW u \in Uids, counters'[k] \in pending'[u] PROVE FALSE
    OBVIOUS
  <2>1. counters'[k] \in pending[u] \/ counters'[k] \in Retired(list, u)
    BY <1>2
  <2>2. NoCounter \notin pending[u]
    BY CounterAssumption DEF TypeOK, NodeTypeOK
  <2>3. CASE counters'[k] \in pending[u]
    BY <2>2, <2>3, <1>3, <1>5 DEF CountersInOnePlace
  <2>4. CASE counters'[k] \in Retired(list, u)
    BY <2>4, <1>3, <1>4, <1>5, <1>6, SMTT(60) DEF CountersInOnePlace
  <2> QED BY <2>1, <2>3, <2>4
<1>10. \A u, v \in Uids : pending'[u] \cap pending'[v] # {} => u = v
  <2> SUFFICES ASSUME NEW u \in Uids, NEW v \in Uids,
                      NEW c \in pending'[u], c \in pending'[v]
               PROVE  u = v
    OBVIOUS
  <2>1. /\ c \in pending[u] \/ c \in Retired(list, u)
        /\ c \in pending[v] \/ c \in Retired(list, v)
    BY <1>2
  <2> QED BY <2>1, <1>6, SMTT(60) DEF CountersInOnePlace
<1>11. BilledToOwner'
  <2> SUFFICES ASSUME NEW c \in Conns, conn[c].ctr # NoCounter
               PROVE  /\ \A k \in Keys : counters'[k] = conn[c].ctr => users'[k] = conn[c].uid
                      /\ \A u \in Uids : conn[c].ctr \in pending'[u] => u = conn[c].uid
    BY <1>2 DEF BilledToOwner
  <2>1. ASSUME NEW k \in Keys, counters'[k] = conn[c].ctr PROVE users'[k] = conn[c].uid
    BY <2>1, <1>2, <1>3, <1>4, <1>5, SMTT(60) DEF BilledToOwner
  <2>2. ASSUME NEW u \in Uids, conn[c].ctr \in pending'[u] PROVE u = conn[c].uid
    <3>1. conn[c].ctr \in pending[u] \/ conn[c].ctr \in Retired(list, u)
      BY <2>2, <1>2
    <3> QED BY <3>1, <1>6, SMTT(60) DEF BilledToOwner
  <2> QED BY <2>1, <2>2
<1> QED BY <1>2, <1>7, <1>8, <1>9, <1>10, <1>11 DEF CountersInOnePlace

\* Every step keeps both ownership invariants.
LEMMA StepOwnership ==
  ASSUME TypeOK, CountersInOnePlace, BilledToOwner, [Next]_vars
  PROVE  CountersInOnePlace' /\ BilledToOwner'
<1> USE DEF nodeVars, userVars, objVars, snapVars, pushVars, history
<1>1. ASSUME NEW c \in Conns, Match(c) PROVE CountersInOnePlace' /\ BilledToOwner'
  <2>1. CountersInOnePlace' BY <1>1 DEF Match, CountersInOnePlace
  <2>2. BilledToOwner'
    BY <1>1, SMTT(60)
       DEF Match, BilledToOwner, CountersInOnePlace, TypeOK, ConnTypeOK, ConnState, NodeTypeOK
  <2> QED BY <2>1, <2>2
<1>2. ASSUME NEW c \in Conns,
             Blocked(c) \/ MarkOnline(c) \/ TrackConn(c) \/ ConnMove(c) \/ ConnCount(c) \/ ConnClose(c)
      PROVE  CountersInOnePlace' /\ BilledToOwner'
  <2>1. UNCHANGED <<users, counters, pending, todoUsers, step>>
    BY <1>2 DEF Blocked, MarkOnline, TrackConn, ConnMove, ConnCount, ConnClose
  <2>2. \A x \in Conns : conn'[x].ctr = conn[x].ctr /\ conn'[x].uid = conn[x].uid
    <3> USE DEF TypeOK, ConnTypeOK, ConnState
    <3>1. CASE Blocked(c) BY <3>1, SMTT(30) DEF Blocked
    <3>2. CASE MarkOnline(c)
      <4>1. \/ conn' = [conn EXCEPT ![c].phase = "admitted"]
            \/ conn' = [conn EXCEPT ![c].phase = "refused"]
        BY <3>2 DEF MarkOnline
      <4> QED BY <4>1, SMTT(30)
    <3>3. CASE TrackConn(c) BY <3>3, SMTT(30) DEF TrackConn
    <3>4. CASE ConnMove(c) BY <3>4, SMTT(30) DEF ConnMove
    <3>5. CASE ConnCount(c) BY <3>5, SMTT(30) DEF ConnCount
    <3>6. CASE ConnClose(c) BY <3>6, SMTT(30) DEF ConnClose
    <3> QED BY <1>2, <3>1, <3>2, <3>3, <3>4, <3>5, <3>6
  <2>3. todoUsers # {} => step \in {"pending", "active"} BY DEF CountersInOnePlace
  <2> QED BY <2>1, <2>2, <2>3, OwnershipFrame
<1>3. ASSUME NEW list \in UserLists, NEW limit \in DeviceLimits,
             NEW counts \in AliveCounts, NEW isFresh \in BOOLEAN, UpdateNode(list, limit, counts, isFresh)
      PROVE  CountersInOnePlace' /\ BilledToOwner'
  BY <1>3, UpdateNodeOwnership
<1>4. CASE SnapshotPrune
  <2>1. /\ UNCHANGED <<users, counters, todoUsers, conn>>
        /\ step' = "pending"
        /\ \A u \in Uids : pending'[u] \subseteq pending[u]
    BY <1>4 DEF SnapshotPrune, TypeOK, NodeTypeOK
  <2> QED BY <2>1 DEF CountersInOnePlace, BilledToOwner
<1>5. CASE RestoreTraffic
  <2>1. PICK u \in Uids, c \in Counters : CounterForUID(u, c, pending')
    BY <1>5 DEF RestoreTraffic
  <2>2. UNCHANGED <<users, counters, conn, todoUsers, step>>
    BY <1>5 DEF RestoreTraffic
  <2>3. CASE pending' = pending
    BY <2>2, <2>3 DEF CountersInOnePlace, BilledToOwner
  <2>4. CASE pending[u] = {} /\ c \in FreeCounters /\ pending' = [pending EXCEPT ![u] = {c}]
    <3>1. /\ \A k \in Keys : c # counters[k]
          /\ \A v \in Uids : c \notin pending[v]
          /\ \A x \in Conns : c # conn[x].ctr
      BY <2>4 DEF FreeCounters, Held
    <3>2. \A v \in Uids : pending'[v] = IF v = u THEN {c} ELSE pending[v]
      BY <2>4 DEF TypeOK, NodeTypeOK
    <3> QED BY <2>2, <3>1, <3>2, SMTT(60) DEF CountersInOnePlace, BilledToOwner
  <2> QED BY <2>1, <2>3, <2>4 DEF CounterForUID
<1>6. CASE SnapshotBegin
  BY <1>6 DEF SnapshotBegin, CountersInOnePlace, BilledToOwner
<1>7. ASSUME \/ SnapshotPending \/ SnapshotCounter \/ SnapshotEnd
             \/ ReportTrafficOK \/ ReportTrafficFail \/ RestoreTrafficEnd
             \/ ReportAlive \/ RestoreAlive \/ AliveExpire \/ DeleteNode \/ LoseInbound
             \/ \E counts \in AliveCounts : UpdateAliveList(counts)
      PROVE  CountersInOnePlace' /\ BilledToOwner'
  <2>1. /\ UNCHANGED <<users, counters, pending, conn>>
        /\ todoUsers' \subseteq todoUsers
        /\ todoUsers' # {} => step' \in {"pending", "active"}
    BY <1>7 DEF SnapshotPending, SnapshotCounter, SnapshotEnd, ReportTrafficOK,
                ReportTrafficFail, RestoreTrafficEnd, ReportAlive, RestoreAlive,
                AliveExpire, DeleteNode, LoseInbound, UpdateAliveList, CountersInOnePlace
  <2> QED BY <2>1, OwnershipFrame
<1>8. CASE UNCHANGED vars
  BY <1>8 DEF vars, CountersInOnePlace, BilledToOwner
<1> QED
  BY <1>1, <1>2, <1>3, <1>4, <1>5, <1>6, <1>7, <1>8
  DEF Next, ConnStep, SyncStep, PushStep

-----------------------------------------------------------------------------
\* No connection is open initially.
LEMMA InitActive == Init => ActiveIsOpenConns
<1> SUFFICES ASSUME Init, NEW c \in Counters
             PROVE  active[c] = Cardinality({x \in Conns : conn[x].ctr = c /\ conn[x].phase = "open"})
  BY DEF ActiveIsOpenConns
<1>1. {x \in Conns : conn[x].ctr = c /\ conn[x].phase = "open"} = {}
  BY SMTT(60) DEF Init
<1> QED BY <1>1, FS_EmptySet DEF Init

\* Every step keeps active equal to the number of open connections.
LEMMA StepActive ==
  ASSUME TypeOK, ActiveIsOpenConns, [Next]_vars
  PROVE  ActiveIsOpenConns'
<1> DEFINE Open(y) == {x \in Conns : conn[x].ctr = y /\ conn[x].phase = "open"}
<1> USE DEF nodeVars, userVars, objVars, snapVars, pushVars, history
<1>0. \A y : IsFiniteSet(Open(y)) BY FiniteAssumption, FS_Subset
<1>1. ASSUME active' = active,
             \A x \in Conns : \/ conn'[x].ctr = conn[x].ctr /\ conn'[x].phase = conn[x].phase
                              \/ conn'[x].phase # "open" /\ conn[x].phase # "open"
      PROVE  ActiveIsOpenConns'
  <2>1. \A y : Open(y)' = Open(y) BY <1>1
  <2> QED BY <1>1, <2>1 DEF ActiveIsOpenConns
<1>2. ASSUME NEW c \in Conns, TrackConn(c) PROVE ActiveIsOpenConns'
  <2> DEFINE t == conn[c].ctr
  <2>0. \A x \in Conns : /\ conn'[x].ctr = conn[x].ctr
                         /\ conn'[x].phase = IF x = c THEN "open" ELSE conn[x].phase
    BY <1>2 DEF TrackConn, TypeOK, ConnTypeOK, ConnState
  <2>1. \A y : Open(y)' = IF y = t THEN Open(y) \cup {c} ELSE Open(y)
    <3> TAKE y
    <3>1. CASE y = t BY <2>0, <3>1
    <3>2. CASE y # t BY <2>0, <3>2
    <3> QED BY <3>1, <3>2
  <2>2. c \notin Open(t) BY <1>2 DEF TrackConn
  <2>3. Cardinality(Open(t) \cup {c}) = Cardinality(Open(t)) + 1
    <3> DEFINE S == Open(t)
    <3>1. IsFiniteSet(S) BY <1>0
    <3>2. c \notin S BY <2>2
    <3> HIDE DEF S
    <3>3. Cardinality(S \cup {c}) = Cardinality(S) + 1 BY <3>1, <3>2, FS_AddElement
    <3> QED BY <3>3 DEF S
  <2>4. \A y \in Counters : active'[y] = IF y = t THEN active[y] + 1 ELSE active[y]
    BY <1>2 DEF TrackConn, TypeOK, ObjTypeOK
  <2> HIDE DEF t
  <2> QED BY <2>1, <2>3, <2>4 DEF ActiveIsOpenConns
<1>3. ASSUME NEW c \in Conns, ConnClose(c) PROVE ActiveIsOpenConns'
  <2> DEFINE t == conn[c].ctr
  <2>0. \A x \in Conns : /\ conn'[x].ctr = conn[x].ctr
                         /\ conn'[x].phase = IF x = c THEN "closed" ELSE conn[x].phase
    BY <1>3 DEF ConnClose, TypeOK, ConnTypeOK, ConnState
  <2>1. \A y : Open(y)' = IF y = t THEN Open(y) \ {c} ELSE Open(y)
    <3> TAKE y
    <3>1. CASE y = t BY <2>0, <3>1
    <3>2. CASE y # t BY <2>0, <3>2
    <3> QED BY <3>1, <3>2
  <2>2. c \in Open(t) BY <1>3 DEF ConnClose
  <2>3. Cardinality(Open(t) \ {c}) = Cardinality(Open(t)) - 1
    <3> DEFINE S == Open(t)
    <3>1. IsFiniteSet(S) BY <1>0
    <3>2. c \in S BY <2>2
    <3> HIDE DEF S
    <3>3. Cardinality(S \ {c}) = Cardinality(S) - 1 BY <3>1, <3>2, FS_RemoveElement
    <3> QED BY <3>3 DEF S
  <2>4. \A y \in Counters : active'[y] = IF y = t THEN active[y] - 1 ELSE active[y]
    BY <1>3 DEF ConnClose, TypeOK, ObjTypeOK
  <2> HIDE DEF t
  <2> QED BY <2>1, <2>3, <2>4 DEF ActiveIsOpenConns
<1>4. ASSUME NEW c \in Conns,
             Match(c) \/ Blocked(c) \/ MarkOnline(c) \/ ConnMove(c) \/ ConnCount(c)
      PROVE  ActiveIsOpenConns'
  <2>1. active' = active
    BY <1>4 DEF Match, Blocked, MarkOnline, ConnMove, ConnCount
  <2>2. \A x \in Conns : \/ conn'[x].ctr = conn[x].ctr /\ conn'[x].phase = conn[x].phase
                         \/ conn'[x].phase # "open" /\ conn[x].phase # "open"
    <3> USE DEF TypeOK, ConnTypeOK, ConnState
    <3>1. CASE Match(c) BY <3>1, SMTT(30) DEF Match
    <3>2. CASE Blocked(c) BY <3>2, SMTT(30) DEF Blocked
    <3>3. CASE MarkOnline(c)
      <4>1. /\ conn[c].phase = "permitted"
            /\ \/ conn' = [conn EXCEPT ![c].phase = "admitted"]
               \/ conn' = [conn EXCEPT ![c].phase = "refused"]
        BY <3>3 DEF MarkOnline
      <4> QED BY <4>1, SMTT(30)
    <3>4. CASE ConnMove(c) BY <3>4, SMTT(30) DEF ConnMove
    <3>5. CASE ConnCount(c) BY <3>5, SMTT(30) DEF ConnCount
    <3> QED BY <1>4, <3>1, <3>2, <3>3, <3>4, <3>5
  <2> QED BY <2>1, <2>2, <1>1
<1>5. ASSUME SyncStep \/ LoseInbound \/ PushStep \/ AliveExpire \/ DeleteNode \/ UNCHANGED vars
      PROVE  ActiveIsOpenConns'
  <2>1. UNCHANGED <<active, conn>>
    BY <1>5 DEF SyncStep, UpdateNode, UpdateAliveList, LoseInbound, AliveExpire, DeleteNode,
                PushStep, vars,
                SnapshotBegin, SnapshotPending, SnapshotPrune, SnapshotCounter, SnapshotEnd,
                ReportTrafficOK, ReportTrafficFail, RestoreTraffic, RestoreTrafficEnd,
                ReportAlive, RestoreAlive
  <2> QED BY <2>1, <1>1
<1> QED BY <1>2, <1>3, <1>4, <1>5 DEF Next, ConnStep

-----------------------------------------------------------------------------
\* The inductive invariant holds in every reachable state.
THEOREM IndInvHolds == Spec => []IndInv
<1>1. Init => IndInv
  BY InitTypeOK, InitOwnership, InitActive DEF IndInv
<1>2. IndInv /\ [Next]_vars => IndInv'
  <2> SUFFICES ASSUME IndInv, [Next]_vars PROVE IndInv'
    OBVIOUS
  <2>1. TypeOK'
    <3>1. CASE UNCHANGED vars
      BY <3>1 DEF IndInv, vars, nodeVars, userVars, objVars, snapVars, pushVars, history, TypeOK,
                  NodeTypeOK, ObjTypeOK, ConnTypeOK, PushTypeOK, HistoryTypeOK
    <3> QED BY <3>1, ConnStepTypeOK, SyncStepTypeOK, PushStepTypeOK DEF IndInv, Next, ConnStep
  <2> QED BY <2>1, StepOwnership, StepActive DEF IndInv
<1> QED BY <1>1, <1>2, PTL DEF Spec

\* Traffic of a connection is only ever billed to the user it authenticated as.
THEOREM OwnerIsBilled == Spec => []BilledToOwner
<1>1. IndInv => BilledToOwner BY DEF IndInv
<1> QED BY <1>1, IndInvHolds, PTL

\* A counter is in one place only, and snapshot visits what the node holds.
THEOREM OnePlacePerCounter == Spec => []CountersInOnePlace
<1>1. IndInv => CountersInOnePlace BY DEF IndInv
<1> QED BY <1>1, IndInvHolds, PTL

\* A counter's active field is the number of open connections that use it.
THEOREM ActiveCountsConns == Spec => []ActiveIsOpenConns
<1>1. IndInv => ActiveIsOpenConns BY DEF IndInv
<1> QED BY <1>1, IndInvHolds, PTL

\* Every variable keeps its type; in particular active never turns negative.
THEOREM TypeCorrect == Spec => []TypeOK
<1>1. IndInv => TypeOK BY DEF IndInv
<1> QED BY <1>1, IndInvHolds, PTL
-----------------------------------------------------------------------------
(* The device limit.                                                         *)

\* No user is listed under two keys.
UsersOnce == \A k, l \in Keys : users[k] = users[l] /\ users[k] # NoUid => k = l

\* What is reported as alive was online when the snapshot was taken: it is in
\* the online sets until the snapshot ends, and in the previous ones after it.
\* So what a failed report puts back is never new.
ReportedWasOnline ==
    /\ step \in {"idle", "deleted"} => \A u \in Uids : aliveOut[u] = {}
    /\ \A k \in Keys :
          /\ step \in {"pending", "active"} => ReportedAddresses(k) \subseteq online[k]
          /\ step \in {"report", "restoreTraffic", "restoreAlive", "reportAlive"} =>
                 ReportedAddresses(k) \subseteq previous[k]

DeviceInv ==
    /\ \A k \in Keys : IsFiniteSet(online[k]) /\ IsFiniteSet(previous[k])
    /\ UsersOnce
    /\ step \in {"pending", "active"} => locked
    /\ ReportedWasOnline

LEMMA InitDevice == Init => DeviceInv
<1> SUFFICES ASSUME Init PROVE DeviceInv
  OBVIOUS
<1>1. \A k \in Keys : online[k] = {} /\ previous[k] = {} /\ users[k] = NoUid BY DEF Init
<1>2. step = "idle" /\ \A u \in Uids : aliveOut[u] = {} BY DEF Init
<1>3. \A k \in Keys : ReportedAddresses(k) = {} BY <1>1 DEF ReportedAddresses
<1>4. ReportedWasOnline BY <1>2, <1>3 DEF ReportedWasOnline
<1>5. UsersOnce BY <1>1 DEF UsersOnce
<1> QED BY <1>1, <1>2, <1>4, <1>5, FS_EmptySet DEF DeviceInv

\* What a step has to show: the invariant after it, and new addresses only
\* within the limit.
DeviceStep == DeviceInv' /\ \A k \in Keys : AddsWithinLimit(k)

\* A step after which a key has no address new that was not new before it.
LEMMA NoneAdded ==
  ASSUME DeviceInv, NEW k \in Keys,
         online'[k] \ previous'[k] \subseteq online[k] \ previous[k]
  PROVE  AddsWithinLimit(k)
<1>1. IsFiniteSet(online[k] \ previous[k]) BY FS_Difference DEF DeviceInv
<1>2. /\ Cardinality(online'[k] \ previous'[k]) <= Cardinality(online[k] \ previous[k])
      /\ Cardinality(online'[k] \ previous'[k]) \in Nat
      /\ Cardinality(online[k] \ previous[k]) \in Nat
  BY <1>1, FS_Subset, FS_CardinalityType
<1>3. ~(Cardinality(online'[k] \ previous'[k]) > Cardinality(online[k] \ previous[k]))
  BY <1>2, SMT
<1> QED BY <1>3 DEF AddsWithinLimit, LocalNew

\* Adding one address makes at most one new.
LEMMA AddedAddress ==
  ASSUME NEW old, IsFiniteSet(old), NEW prev, NEW ip, NEW res \in OnlineAfterAdd(old, {ip})
  PROVE  /\ IsFiniteSet(res)
         /\ Cardinality(old \ prev) \in Nat /\ Cardinality(res \ prev) \in Nat
         /\ Cardinality(res \ prev) <= Cardinality(old \ prev) + 1
<1>1. res \subseteq old \cup {ip} BY DEF OnlineAfterAdd
<1>2. IsFiniteSet(old \cup {ip}) BY FS_Singleton, FS_Union
<1>3. IsFiniteSet(res) BY <1>1, <1>2, FS_Subset
<1>4. IsFiniteSet(old \ prev) /\ IsFiniteSet(res \ prev) BY <1>3, FS_Difference
<1>5. Cardinality(old \ prev) \in Nat /\ Cardinality(res \ prev) \in Nat
  BY <1>4, FS_CardinalityType
<1>6. Cardinality(res \ prev) <= Cardinality(old \ prev) + 1
  <2> DEFINE more == (old \ prev) \cup {ip}
  <2>1. res \ prev \subseteq more BY <1>1
  <2>2. IsFiniteSet(more) /\ (Cardinality(more) = Cardinality(old \ prev)
                              \/ Cardinality(more) = Cardinality(old \ prev) + 1)
    BY <1>4, FS_AddElement
  <2>3. Cardinality(res \ prev) <= Cardinality(more) BY <2>1, <2>2, FS_Subset
  <2> HIDE DEF more
  <2> QED BY <1>5, <2>2, <2>3, SMT
<1> QED BY <1>3, <1>5, <1>6

\* What a step that leaves the online and previous sets and the users alone
\* has to keep.
LEMMA DeviceFrame ==
  ASSUME DeviceInv, UNCHANGED <<users, online, previous>>,
         step' \in {"pending", "active"} => locked', ReportedWasOnline'
  PROVE  DeviceStep
<1>1. \A k \in Keys : online'[k] \ previous'[k] \subseteq online[k] \ previous[k] OBVIOUS
<1>2. \A k \in Keys : AddsWithinLimit(k) BY <1>1, NoneAdded
<1>3. DeviceInv' BY DEF DeviceInv, UsersOnce
<1> QED BY <1>2, <1>3 DEF DeviceStep

\* markOnline lets in one new address only below the limit.
LEMMA MarkOnlineDevice ==
  ASSUME TypeOK, DeviceInv, NEW c \in Conns, MarkOnline(c)
  PROVE  DeviceStep
<1> DEFINE k == conn[c].key
           ip == conn[c].ip
<1>1. UNCHANGED <<users, previous, step, locked, aliveOut>>
  BY DEF MarkOnline, pushVars, snapVars, userVars
<1>2. k \in Keys BY DEF TypeOK, ConnTypeOK, ConnState
<1>3. CASE UNCHANGED online
  <2>1. ReportedWasOnline' BY <1>1, <1>3 DEF DeviceInv, ReportedWasOnline, ReportedAddresses
  <2> QED BY <1>1, <1>3, <2>1, DeviceFrame DEF DeviceInv
<1>4. CASE /\ ~locked /\ Admits(k, ip)
           /\ \E res \in OnlineAfterAdd(online[k], {ip}) : online' = [online EXCEPT ![k] = res]
  <2>1. PICK res \in OnlineAfterAdd(online[k], {ip}) : online' = [online EXCEPT ![k] = res]
    BY <1>4
  <2> HIDE DEF k, ip
  <2>2. \A l \in Keys : online'[l] = IF l = k THEN res ELSE online[l]
    BY <1>2, <2>1 DEF TypeOK, NodeTypeOK
  <2>3. /\ IsFiniteSet(res)
        /\ Cardinality(online[k] \ previous[k]) \in Nat
        /\ Cardinality(res \ previous[k]) \in Nat
        /\ Cardinality(res \ previous[k]) <= Cardinality(online[k] \ previous[k]) + 1
    BY <1>2, AddedAddress DEF DeviceInv
  <2>4. ASSUME ~(res \ previous[k] \subseteq online[k] \ previous[k])
        PROVE  limits[k] = 0 \/ RemoteAlive(users[k]) + Cardinality(res \ previous[k]) <= limits[k]
    <3>1. ip \notin online[k] /\ ip \notin previous[k]
      BY <2>4 DEF OnlineAfterAdd
    <3>2. /\ limits[k] \in Nat /\ RemoteAlive(users[k]) \in Nat
      BY <1>2, <1>4 DEF Admits, RemoteAlive, TypeOK, NodeTypeOK
    <3>3. \/ ~(limits[k] > 0)
          \/ ~(RemoteAlive(users[k]) + Cardinality(online[k] \ previous[k]) >= limits[k])
      BY <1>4, <3>1 DEF Admits, ExceedsDeviceLimit, LocalNew
    <3> QED BY <2>3, <3>2, <3>3, SMT
  <2>5. ASSUME NEW l \in Keys PROVE AddsWithinLimit(l)
    <3>1. CASE l = k
      <4>1. CASE res \ previous[k] \subseteq online[k] \ previous[k]
        BY <1>1, <1>2, <2>2, <3>1, <4>1, NoneAdded
      <4>2. CASE ~(res \ previous[k] \subseteq online[k] \ previous[k])
        <5>1. online'[l] \ previous'[l] = res \ previous[k] BY <1>1, <2>2, <3>1
        <5> QED BY <2>4, <3>1, <4>2, <5>1 DEF AddsWithinLimit, LocalNew
      <4> QED BY <4>1, <4>2
    <3>2. CASE l # k BY <1>1, <2>2, <3>2, NoneAdded
    <3> QED BY <3>1, <3>2
  <2>6. ReportedWasOnline'
    BY <1>1, <1>4 DEF DeviceInv, ReportedWasOnline, ReportedAddresses
  <2> QED BY <1>1, <2>2, <2>3, <2>5, <2>6 DEF DeviceInv, UsersOnce, DeviceStep
<1> QED BY <1>3, <1>4 DEF MarkOnline

\* updateUsers carries the sets of a key only with its user; any other key
\* starts with none.
LEMMA UpdateNodeDevice ==
  ASSUME DeviceInv, NEW list \in UserLists, NEW limit, NEW counts, NEW isFresh,
         UpdateNode(list, limit, counts, isFresh)
  PROVE  DeviceStep
<1>1. /\ step = "idle" /\ users' = list /\ UNCHANGED <<step, locked, aliveOut>>
      /\ \A k \in Keys : /\ online'[k] = IF k \in Carried(list) THEN online[k] ELSE {}
                         /\ previous'[k] = IF k \in Carried(list) THEN previous[k] ELSE {}
  BY DEF UpdateNode, pushVars, snapVars
<1>2. \A k \in Keys : IsFiniteSet(online'[k]) /\ IsFiniteSet(previous'[k])
  BY <1>1, FS_EmptySet DEF DeviceInv
<1>3. UsersOnce' BY <1>1, UserListsAssumption DEF UsersOnce
<1>4. ReportedWasOnline' BY <1>1 DEF DeviceInv, ReportedWasOnline
<1>5. ASSUME NEW k \in Keys PROVE AddsWithinLimit(k)
  <2>1. online'[k] \ previous'[k] \subseteq online[k] \ previous[k] BY <1>1
  <2> QED BY <2>1, NoneAdded
<1> QED BY <1>1, <1>2, <1>3, <1>4, <1>5 DEF DeviceInv, DeviceStep

\* The snapshot reports the addresses of each user it visits and, when it ends,
\* makes all that were online the previous ones.
LEMMA SnapshotDevice ==
  ASSUME TypeOK, CountersInOnePlace, DeviceInv,
         \/ SnapshotBegin \/ SnapshotPending \/ SnapshotPrune \/ SnapshotCounter \/ SnapshotEnd
  PROVE  DeviceStep
<1>0. /\ step \in {"idle", "deleted"} => \A u \in Uids : aliveOut[u] = {}
      /\ \A k \in Keys : step \in {"pending", "active"} => ReportedAddresses(k) \subseteq online[k]
      /\ step \in {"pending", "active"} => locked
  BY DEF DeviceInv, ReportedWasOnline
<1>1. CASE SnapshotBegin
  <2>1. /\ step = "idle" /\ step' = "pending" /\ locked' = TRUE
        /\ UNCHANGED <<users, online, previous, aliveOut>>
    BY <1>1 DEF SnapshotBegin, nodeVars, userVars
  <2>2. \A k \in Keys : ReportedAddresses(k)' = {}
    BY <1>0, <2>1 DEF ReportedAddresses, TypeOK, NodeTypeOK
  <2>3. ReportedWasOnline' BY <2>1, <2>2 DEF ReportedWasOnline
  <2> QED BY <2>1, <2>3, DeviceFrame
<1>2. CASE SnapshotPending \/ SnapshotPrune
  <2>1. /\ step \in {"pending", "active"} /\ step' \in {"pending", "active"}
        /\ UNCHANGED <<users, online, previous, aliveOut, locked>>
    BY <1>2 DEF SnapshotPending, SnapshotPrune, nodeVars, userVars
  <2>2. ReportedWasOnline' BY <1>0, <2>1 DEF ReportedWasOnline, ReportedAddresses
  <2> QED BY <1>0, <2>1, <2>2, DeviceFrame
<1>3. CASE SnapshotCounter
  <2>1. PICK k \in todoUsers :
            aliveOut' = IF bytes[counters[k]] >= OnlineMin
                        THEN [aliveOut EXCEPT ![users[k]] = {AliveEntry(ip) : ip \in online[k]}]
                        ELSE aliveOut
    BY <1>3 DEF SnapshotCounter
  <2>2. step = "pending" /\ UNCHANGED <<users, online, previous, locked, step>>
    BY <1>3 DEF SnapshotCounter, nodeVars, userVars
  <2>3. k \in Keys /\ users[k] \in Uids
    BY DEF CountersInOnePlace, TypeOK, NodeTypeOK, PushTypeOK
  <2>4. ASSUME NEW l \in Keys PROVE ReportedAddresses(l)' \subseteq online[l]
    <3>1. CASE aliveOut'[users[l]] = aliveOut[users[l]]
      BY <1>0, <2>2, <3>1 DEF ReportedAddresses
    <3>2. CASE users[l] = users[k] /\ aliveOut'[users[l]] = {AliveEntry(ip) : ip \in online[k]}
      <4>1. l = k BY <2>3, <3>2, UidsAssumption DEF DeviceInv, UsersOnce
      <4>2. \A ip \in online[k] : AddressOf(AliveEntry(ip)) = ip
        BY DEF AddressOf, AliveEntry
      <4>3. ReportedAddresses(l)' \subseteq
                {AddressOf(e) : e \in {AliveEntry(ip) : ip \in online[k]}}
        BY <2>2, <3>2 DEF ReportedAddresses
      <4>4. {AddressOf(e) : e \in {AliveEntry(ip) : ip \in online[k]}} \subseteq online[k]
        BY <4>2
      <4> QED BY <4>1, <4>3, <4>4
    <3>3. CASE users[l] = NoUid
      BY <2>2, <3>3 DEF ReportedAddresses
    <3>4. users[l] # NoUid => users[l] \in Uids BY DEF TypeOK, NodeTypeOK
    <3> QED BY <2>1, <2>3, <3>1, <3>2, <3>3, <3>4 DEF TypeOK, PushTypeOK
  <2>5. ReportedWasOnline' BY <2>2, <2>4 DEF ReportedWasOnline
  <2> QED BY <1>0, <2>2, <2>5, DeviceFrame
<1>4. CASE SnapshotEnd
  <2>1. /\ step = "pending" /\ step' = "report" /\ previous' = online
        /\ UNCHANGED <<users, aliveOut>>
        /\ \A k \in Keys : online'[k] = {}
    BY <1>4 DEF SnapshotEnd, userVars
  <2>2. ReportedWasOnline' BY <1>0, <2>1 DEF ReportedWasOnline, ReportedAddresses
  <2>3. ASSUME NEW k \in Keys PROVE AddsWithinLimit(k)
    <3>1. online'[k] \ previous'[k] \subseteq online[k] \ previous[k] BY <2>1
    <3> QED BY <3>1, NoneAdded
  <2> QED BY <2>1, <2>2, <2>3, FS_EmptySet DEF DeviceInv, UsersOnce, DeviceStep
<1> QED BY <1>1, <1>2, <1>3, <1>4

\* The reports leave the sets alone; a failed one puts back only addresses
\* that are among the previous ones.
LEMMA ReportDevice ==
  ASSUME TypeOK, DeviceInv,
         \/ ReportTrafficOK \/ ReportTrafficFail \/ RestoreTraffic \/ RestoreTrafficEnd
         \/ ReportAlive \/ RestoreAlive
  PROVE  DeviceStep
<1> DEFINE Reporting == {"report", "restoreTraffic", "restoreAlive", "reportAlive"}
<1>0. \A k \in Keys : step \in Reporting => ReportedAddresses(k) \subseteq previous[k]
  BY DEF DeviceInv, ReportedWasOnline
<1>1. CASE \/ ReportTrafficOK \/ ReportTrafficFail \/ RestoreTraffic \/ RestoreTrafficEnd
           \/ (ReportAlive /\ step' = "restoreAlive")
  <2>1. /\ step \in Reporting /\ step' \in Reporting
        /\ UNCHANGED <<users, online, previous, aliveOut>>
    BY <1>1 DEF ReportTrafficOK, ReportTrafficFail, RestoreTraffic, RestoreTrafficEnd,
                ReportAlive, nodeVars, userVars
  <2>2. ReportedWasOnline' BY <1>0, <2>1 DEF ReportedWasOnline, ReportedAddresses
  <2> QED BY <2>1, <2>2, DeviceFrame
<1>2. CASE ReportAlive /\ step' = "idle"
  <2>1. UNCHANGED <<users, online, previous>> /\ \A u \in Uids : aliveOut'[u] = {}
    BY <1>2 DEF ReportAlive, nodeVars, userVars
  <2>2. ReportedWasOnline' BY <1>2, <2>1 DEF ReportedWasOnline
  <2> QED BY <1>2, <2>1, <2>2, DeviceFrame
<1>3. CASE RestoreAlive
  <2>1. /\ step = "restoreAlive" /\ step' = "idle" /\ UNCHANGED <<users, previous>>
        /\ \A u \in Uids : aliveOut'[u] = {}
        /\ \A k \in Keys : online'[k] \in OnlineAfterAdd(online[k], ReportedAddresses(k))
    BY <1>3 DEF RestoreAlive, userVars
  <2>2. ReportedWasOnline' BY <2>1 DEF ReportedWasOnline
  <2>3. ASSUME NEW k \in Keys
        PROVE  /\ IsFiniteSet(online'[k])
               /\ online'[k] \ previous'[k] \subseteq online[k] \ previous[k]
    <3>1. ReportedAddresses(k) \subseteq previous[k] BY <1>0, <2>1
    <3>2. IsFiniteSet(online[k] \cup previous[k]) BY FS_Union DEF DeviceInv
    <3>3. online'[k] \subseteq online[k] \cup previous[k] BY <2>1, <3>1 DEF OnlineAfterAdd
    <3> QED BY <2>1, <3>2, <3>3, FS_Subset
  <2>4. \A k \in Keys : AddsWithinLimit(k) BY <2>3, NoneAdded
  <2> QED BY <2>1, <2>2, <2>3, <2>4 DEF DeviceInv, UsersOnce, DeviceStep
<1>4. ReportAlive => step' \in {"idle", "restoreAlive"} BY DEF ReportAlive
<1> QED BY <1>1, <1>2, <1>3, <1>4

LEMMA StepDevice ==
  ASSUME TypeOK, CountersInOnePlace, DeviceInv, [Next]_vars
  PROVE  DeviceStep
<1>1. CASE UNCHANGED <<users, online, previous, step, locked, aliveOut>>
  <2>1. ReportedWasOnline' BY <1>1 DEF DeviceInv, ReportedWasOnline, ReportedAddresses
  <2> QED BY <1>1, <2>1, DeviceFrame DEF DeviceInv
<1>2. ASSUME NEW c \in Conns,
             Match(c) \/ Blocked(c) \/ TrackConn(c) \/ ConnMove(c) \/ ConnCount(c) \/ ConnClose(c)
      PROVE  DeviceStep
  BY <1>1, <1>2 DEF Match, Blocked, TrackConn, ConnMove, ConnCount, ConnClose,
                    nodeVars, userVars, pushVars, snapVars
<1>3. ASSUME NEW counts \in AliveCounts, UpdateAliveList(counts) PROVE DeviceStep
  BY <1>1, <1>3 DEF UpdateAliveList, userVars, pushVars, snapVars
<1>4. CASE AliveExpire
  BY <1>1, <1>4 DEF AliveExpire, userVars, pushVars, snapVars
<1>5. CASE DeleteNode
  <2>1. /\ step = "idle" /\ step' = "deleted"
        /\ UNCHANGED <<users, online, previous, locked, aliveOut>>
    BY <1>5 DEF DeleteNode, snapVars
  <2>2. ReportedWasOnline' BY <2>1 DEF DeviceInv, ReportedWasOnline
  <2> QED BY <2>1, <2>2, DeviceFrame
<1>6. CASE LoseInbound
  BY <1>1, <1>6 DEF LoseInbound, pushVars, snapVars
<1>7. CASE UNCHANGED vars
  BY <1>1, <1>7 DEF vars, nodeVars, userVars, pushVars, snapVars
<1> QED
  BY <1>2, <1>3, <1>4, <1>5, <1>6, <1>7, MarkOnlineDevice, UpdateNodeDevice, SnapshotDevice, ReportDevice
  DEF Next, ConnStep, SyncStep, PushStep

\* For any number of users, addresses and connections and whatever limits the
\* panel hands out, new addresses are admitted only within the limit in force,
\* devices elsewhere included.
THEOREM NewDevicesWithinLimit == Spec => DeviceLimitRespected
<1>1. IndInv /\ DeviceInv /\ [Next]_vars => DeviceInv' BY StepDevice DEF IndInv, DeviceStep
<1>2. IndInv /\ DeviceInv /\ [Next]_vars => [\A k \in Keys : AddsWithinLimit(k)]_vars
  BY StepDevice DEF IndInv, DeviceStep
<1> QED BY <1>1, <1>2, InitDevice, IndInvHolds, PTL DEF Spec, DeviceLimitRespected
-----------------------------------------------------------------------------
(* Conservation of traffic.                                                  *)

\* A connection has a user and a counter from its match on, and moves nothing before.
Tracked ==
    \A x \in Conns :
        IF conn[x].phase \in {"new", "untracked"}
        THEN conn[x].uid = NoUid /\ conn[x].ctr = NoCounter /\ conn[x].uncounted = 0
        ELSE conn[x].uid # NoUid /\ conn[x].ctr # NoCounter

\* Connections that share a counter are of one user.
ConnsAgree ==
    \A x, y \in Conns :
        conn[x].ctr = conn[y].ctr /\ conn[x].ctr # NoCounter => conn[x].uid = conn[y].uid

\* A counter nothing refers to is empty.
FreeEmpty == \A c \in FreeCounters : bytes[c] = 0

\* The running snapshot has only pending counters to visit.  The one it has
\* swapped is empty unless a connection still adds to it.
Visits ==
    /\ step \notin {"pending", "active"} => todoPending = {}
    /\ step # "active" => visiting = {}
    /\ visiting \cap todoPending = {}
    /\ \A p \in todoPending \cup visiting : p[2] \in pending[p[1]]
    /\ \A p \in visiting : bytes[p[2]] = 0 \/ p[2] \in Held

TrafficInv == Tracked /\ ConnsAgree /\ FreeEmpty /\ Visits /\ TrafficConserved

\* What the goroutines of a user's connections have moved but not yet counted.
Uncounted(u) == Sum([c \in Conns |-> conn[c].uncounted], ConnsOf(u))

\* The balance of one user.
Balanced(u) ==
    sent[u] + requeued[u] = billed[u] + dropped[u] + totals[u] + traffic[u]
        + Sum(bytes, CountersOf(u)) + Uncounted(u)

\* Amounts are on the way to the panel only during a report and its restore.
ReportOnly == step \notin {"report", "restoreTraffic"} => \A u \in Uids : traffic[u] = 0

\* A finite sum of naturals is a natural.
LEMMA SumType ==
  ASSUME NEW S, IsFiniteSet(S), NEW f, \A x \in S : f[x] \in Nat
  PROVE  IsFiniteSet(Units(f, S)) /\ Sum(f, S) \in Nat
<1> DEFINE G == [x \in S |-> {x} \X (1 .. f[x])]
           R == {{x} \X (1 .. f[x]) : x \in S}
<1>1. IsFiniteSet(R)
  <2>1. G \in Surjection(S, R)
    BY DEF Surjection
  <2> QED BY <2>1, FS_Surjection
<1>2. \A r \in R : IsFiniteSet(r)
  <2> SUFFICES ASSUME NEW x \in S PROVE IsFiniteSet({x} \X (1 .. f[x]))
    OBVIOUS
  <2>1. IsFiniteSet({x}) BY FS_Singleton
  <2>2. f[x] \in Nat OBVIOUS
  <2>3. 1 \in Int /\ f[x] \in Int BY <2>2, SMT
  <2>4. IsFiniteSet(1 .. f[x]) BY <2>3, FS_Interval
  <2> QED BY <2>1, <2>4, FS_Product
<1>3. IsFiniteSet(Units(f, S)) BY <1>1, <1>2, FS_UNION DEF Units
<1> QED BY <1>3, FS_CardinalityType DEF Sum

\* Functions that agree on a set have the same sum over it.
LEMMA SumSame ==
  ASSUME NEW S, NEW f, NEW g, \A x \in S : f[x] = g[x]
  PROVE  Sum(f, S) = Sum(g, S)
<1>1. \A x \in S : {x} \X (1 .. f[x]) = {x} \X (1 .. g[x]) OBVIOUS
<1>2. Units(f, S) = Units(g, S) BY <1>1 DEF Units
<1> QED BY <1>2 DEF Sum

\* Points with value 0 add nothing.
LEMMA SumSupport ==
  ASSUME NEW S, NEW T, S \subseteq T, NEW f, \A x \in T \ S : f[x] = 0
  PROVE  Sum(f, S) = Sum(f, T)
<1>1. \A x \in T \ S : {x} \X (1 .. f[x]) = {}
  <2>1. 1 .. 0 = {} BY SMT
  <2> QED BY <2>1
<1>2. Units(f, S) = Units(f, T) BY <1>1 DEF Units
<1> QED BY <1>2 DEF Sum

\* One point can be split off.
LEMMA SumSplit ==
  ASSUME NEW S, IsFiniteSet(S), NEW f, \A x \in S : f[x] \in Nat, NEW a \in S
  PROVE  Sum(f, S) = Sum(f, S \ {a}) + f[a] /\ Sum(f, S \ {a}) \in Nat
<1> DEFINE A == {a} \X (1 .. f[a])
<1>0. IsFiniteSet(S \ {a}) BY FS_Subset
<1>1. IsFiniteSet(Units(f, S \ {a})) /\ Sum(f, S \ {a}) \in Nat BY <1>0, SumType
<1>2. Units(f, S) = Units(f, S \ {a}) \cup A BY DEF Units
<1>3. Units(f, S \ {a}) \cap A = {}
  <2> SUFFICES ASSUME NEW p \in Units(f, S \ {a}), p \in A PROVE FALSE OBVIOUS
  <2>1. PICK x \in S \ {a} : p \in {x} \X (1 .. f[x]) BY DEF Units
  <2>2. p[1] = x /\ p[1] = a BY <2>1, SMT
  <2> QED BY <2>2
<1>4. f[a] \in Nat /\ 1 \in Int /\ f[a] \in Int BY SMT
<1>5. IsFiniteSet(1 .. f[a]) /\ Cardinality(1 .. f[a]) = f[a]
  <2>1. IsFiniteSet(1 .. f[a]) /\ Cardinality(1 .. f[a]) = IF 1 > f[a] THEN 0 ELSE f[a] - 1 + 1
    BY <1>4, FS_Interval
  <2> QED BY <2>1, <1>4, SMT
<1>6. IsFiniteSet({a}) /\ Cardinality({a}) = 1 BY FS_Singleton
<1>7. IsFiniteSet(A) /\ Cardinality(A) = Cardinality({a}) * Cardinality(1 .. f[a])
  BY <1>5, <1>6, FS_Product
<1>8. Cardinality(A) = f[a] BY <1>4, <1>5, <1>6, <1>7, SMT
<1>9. Cardinality(Units(f, S \ {a}) \cup A) =
        Cardinality(Units(f, S \ {a})) + Cardinality(A) - Cardinality(Units(f, S \ {a}) \cap A)
  BY <1>1, <1>7, FS_Union
<1>10. Cardinality(Units(f, S \ {a}) \cap A) = 0 BY <1>3, FS_EmptySet
<1> HIDE DEF A
<1>11. Sum(f, S) = Sum(f, S \ {a}) + f[a]
  <2>1. Sum(f, S) = Cardinality(Units(f, S \ {a}) \cup A) BY <1>2 DEF Sum
  <2>2. Sum(f, S \ {a}) = Cardinality(Units(f, S \ {a})) BY DEF Sum
  <2> QED BY <2>1, <2>2, <1>1, <1>4, <1>8, <1>9, <1>10, SMT
<1> QED BY <1>1, <1>11

\* From f to g the sum over S changes by as much as the value at a.
SumFollows(f, g, S, a) == Sum(g, S) + f[a] = Sum(f, S) + g[a]

\* A function that changes at one point changes the sum by as much.
LEMMA SumChange ==
  ASSUME NEW S, IsFiniteSet(S), NEW f, NEW g, NEW a \in S,
         \A x \in S : f[x] \in Nat, \A x \in S : g[x] \in Nat,
         \A x \in S \ {a} : f[x] = g[x]
  PROVE  SumFollows(f, g, S, a)
<1>1. Sum(f, S) = Sum(f, S \ {a}) + f[a] /\ Sum(f, S \ {a}) \in Nat BY SumSplit
<1>2. Sum(g, S) = Sum(g, S \ {a}) + g[a] BY SumSplit
<1>3. Sum(f, S \ {a}) = Sum(g, S \ {a}) BY SumSame
<1>4. f[a] \in Nat /\ g[a] \in Nat OBVIOUS
<1>5. Sum(g, S) \in Nat /\ Sum(f, S) \in Nat BY SumType
<1> QED BY <1>1, <1>2, <1>3, <1>4, <1>5, SMT DEF SumFollows

-----------------------------------------------------------------------------
\* Nothing has moved in the initial state.
LEMMA InitTraffic == Init => TrafficInv
<1> SUFFICES ASSUME Init PROVE TrafficInv
  OBVIOUS
<1>0. TypeOK BY InitTypeOK
<1>1. Tracked /\ ConnsAgree
  <2>1. \A x \in Conns : conn[x].phase = "new" /\ conn[x].uid = NoUid
                         /\ conn[x].ctr = NoCounter /\ conn[x].uncounted = 0
    BY SMT DEF Init
  <2> QED BY <2>1 DEF Tracked, ConnsAgree
<1>2. FreeEmpty BY DEF Init, FreeEmpty, FreeCounters
<1>3. Visits BY DEF Init, Visits
<1>4. ASSUME NEW u \in Uids
      PROVE  sent[u] + requeued[u] = billed[u] + dropped[u] + totals[u] + traffic[u]
               + Sum(bytes, CountersOf(u))
               + Sum([c \in Conns |-> conn[c].uncounted], ConnsOf(u))
  <2>1. u # NoUid BY UidsAssumption
  <2>2. CountersOf(u) = {} /\ ConnsOf(u) = {}
    BY <2>1, <1>1, SMT DEF Init, CountersOf, ConnsOf
  <2>3. ASSUME NEW f PROVE Sum(f, {}) = 0
    <3>1. Units(f, {}) = {} BY DEF Units
    <3> QED BY <3>1, FS_EmptySet DEF Sum
  <2>4. sent[u] = 0 /\ requeued[u] = 0 /\ billed[u] = 0 /\ dropped[u] = 0 /\ totals[u] = 0
        /\ traffic[u] = 0
    BY DEF Init, Zero
  <2>5. Sum(bytes, CountersOf(u)) = 0
        /\ Sum([c \in Conns |-> conn[c].uncounted], ConnsOf(u)) = 0
    BY <2>2, <2>3
  <2> QED BY <2>4, <2>5, SMT
<1> QED BY <1>1, <1>2, <1>3, <1>4 DEF TrafficInv, TrafficConserved

\* A user's counters are counters, and they hold naturals.
LEMMA OwnCounters ==
  ASSUME TypeOK, CountersInOnePlace, Tracked, NEW u \in Uids
  PROVE  /\ CountersOf(u) \subseteq Counters
         /\ IsFiniteSet(CountersOf(u))
         /\ \A c \in CountersOf(u) : bytes[c] \in Nat
         /\ Sum(bytes, CountersOf(u)) \in Nat
<1>1. u # NoUid BY UidsAssumption
<1>2. \A k \in Keys : users[k] = u => counters[k] \in Counters
  BY <1>1 DEF CountersInOnePlace, TypeOK, NodeTypeOK
<1>3. \A x \in ConnsOf(u) : conn[x].ctr \in Counters
  <2> SUFFICES ASSUME NEW x \in Conns, conn[x].uid = u PROVE conn[x].ctr \in Counters
    BY DEF ConnsOf
  <2>1. conn[x] \in ConnState BY DEF TypeOK, ConnTypeOK
  <2>2. conn[x].ctr \in Counters \cup {NoCounter} BY <2>1 DEF ConnState
  <2> QED BY <1>1, <2>2 DEF Tracked
<1>4. pending[u] \subseteq Counters BY DEF TypeOK, NodeTypeOK
<1>5. CountersOf(u) \subseteq Counters BY <1>2, <1>3, <1>4 DEF CountersOf
<1>6. IsFiniteSet(CountersOf(u)) BY <1>5, FiniteAssumption, FS_Subset
<1>7. \A c \in CountersOf(u) : bytes[c] \in Nat BY <1>5 DEF TypeOK, ObjTypeOK
<1>8. Sum(bytes, CountersOf(u)) \in Nat BY <1>6, <1>7, SumType
<1> QED BY <1>5, <1>6, <1>7, <1>8

\* A counter belongs to one user only, and a free one to none.
LEMMA OneOwner ==
  ASSUME TypeOK, CountersInOnePlace, BilledToOwner, Tracked, ConnsAgree,
         NEW u \in Uids, NEW c \in CountersOf(u)
  PROVE  /\ \A v \in Uids : c \in CountersOf(v) => v = u
         /\ c \notin FreeCounters
<1>0. c \in Counters /\ c # NoCounter BY OwnCounters, CounterAssumption
<1>1. c \notin FreeCounters BY DEF FreeCounters, CountersOf, Held, ConnsOf
<1>2. ASSUME NEW v \in Uids, c \in CountersOf(v) PROVE v = u
  <2> DEFINE At(w) == \E k \in Keys : users[k] = w /\ c = counters[k]
             By(w) == \E x \in Conns : conn[x].uid = w /\ c = conn[x].ctr
  <2>1. \A w \in Uids : c \in CountersOf(w) <=> At(w) \/ c \in pending[w] \/ By(w)
    BY DEF CountersOf, ConnsOf
  <2>2. At(u) /\ At(v) => v = u BY <1>0 DEF CountersInOnePlace
  <2>3. ASSUME NEW w \in Uids, NEW z \in Uids PROVE ~(At(w) /\ c \in pending[z])
    <3>1. \A k \in Keys : counters[k] \notin pending[z] BY DEF CountersInOnePlace
    <3> QED BY <3>1
  <2>4. c \in pending[u] /\ c \in pending[v] => v = u BY DEF CountersInOnePlace
  <2>5. ASSUME NEW w \in Uids, NEW z \in Uids, By(w), At(z) \/ c \in pending[z] PROVE w = z
    BY <2>5, <1>0 DEF BilledToOwner
  <2>6. By(u) /\ By(v) => v = u BY <1>0 DEF ConnsAgree
  <2> QED BY <1>2, <2>1, <2>2, <2>3, <2>4, <2>5, <2>6
<1> QED BY <1>1, <1>2

\* What the connections of a user have moved but not yet counted is a natural.
LEMMA OwnConns ==
  ASSUME TypeOK, NEW u \in Uids
  PROVE  /\ IsFiniteSet(ConnsOf(u)) /\ ConnsOf(u) \subseteq Conns
         /\ \A x \in Conns : conn[x].uncounted \in Nat
         /\ Sum([c \in Conns |-> conn[c].uncounted], ConnsOf(u)) \in Nat
<1> DEFINE F == [c \in Conns |-> conn[c].uncounted]
<1>1. ConnsOf(u) \subseteq Conns /\ IsFiniteSet(ConnsOf(u))
  BY FiniteAssumption, FS_Subset DEF ConnsOf
<1>2. \A x \in Conns : conn[x].uncounted \in Nat
  BY SMT DEF TypeOK, ConnTypeOK, ConnState
<1>3. \A x \in ConnsOf(u) : F[x] \in Nat BY <1>1, <1>2
<1> HIDE DEF F
<1>4. Sum(F, ConnsOf(u)) \in Nat BY <1>1, <1>3, SumType
<1> QED BY <1>1, <1>2, <1>4 DEF F

\* The accounts of a user balance.
LEMMA Balance ==
  ASSUME TrafficInv, NEW u \in Uids
  PROVE  Balanced(u)
BY DEF TrafficInv, TrafficConserved, Balanced, Uncounted

\* The accounts are naturals.
LEMMA AccountTypes ==
  ASSUME IndInv, TrafficInv, NEW u \in Uids
  PROVE  /\ sent[u] \in Nat /\ requeued[u] \in Nat /\ billed[u] \in Nat
         /\ dropped[u] \in Nat /\ totals[u] \in Nat /\ traffic[u] \in Nat
         /\ Sum(bytes, CountersOf(u)) \in Nat /\ Uncounted(u) \in Nat
<1>1. /\ sent[u] \in Nat /\ requeued[u] \in Nat /\ billed[u] \in Nat
      /\ dropped[u] \in Nat /\ totals[u] \in Nat /\ traffic[u] \in Nat
  BY DEF IndInv, TypeOK, HistoryTypeOK, PushTypeOK
<1>2. Sum(bytes, CountersOf(u)) \in Nat BY OwnCounters DEF IndInv, TrafficInv
<1>3. Uncounted(u) \in Nat BY OwnConns DEF IndInv, Uncounted
<1> QED BY <1>1, <1>2, <1>3

\* Changing one counter of a user changes only that user's sum, by as much.
LEMMA CounterChange ==
  ASSUME TypeOK, CountersInOnePlace, BilledToOwner, Tracked, ConnsAgree,
         NEW u \in Uids, NEW c \in CountersOf(u), NEW g, g[c] \in Nat,
         \A d \in Counters \ {c} : g[d] = bytes[d]
  PROVE  /\ SumFollows(bytes, g, CountersOf(u), c)
         /\ Sum(g, CountersOf(u)) \in Nat
         /\ \A v \in Uids \ {u} : Sum(g, CountersOf(v)) = Sum(bytes, CountersOf(v))
         /\ \A d \in FreeCounters : g[d] = bytes[d]
<1>0. bytes \in [Counters -> Nat] BY DEF TypeOK, ObjTypeOK
<1>1. c \in Counters BY OwnCounters
<1>2. g[c] \in Nat /\ \A d \in Counters \ {c} : g[d] = bytes[d] OBVIOUS
<1>3. ASSUME NEW v \in Uids \ {u} PROVE Sum(g, CountersOf(v)) = Sum(bytes, CountersOf(v))
  <2>1. \A d \in CountersOf(v) : d \in Counters /\ d # c BY OneOwner, OwnCounters
  <2>2. \A d \in CountersOf(v) : g[d] = bytes[d] BY <2>1, <1>2
  <2> QED BY <2>2, SumSame
<1>4. IsFiniteSet(CountersOf(u)) /\ CountersOf(u) \subseteq Counters BY OwnCounters
<1>5. \A d \in CountersOf(u) : bytes[d] \in Nat /\ g[d] \in Nat
  BY <1>0, <1>2, <1>4
<1>6. \A d \in CountersOf(u) \ {c} : bytes[d] = g[d] BY <1>2, <1>4
<1>7. SumFollows(bytes, g, CountersOf(u), c) /\ Sum(g, CountersOf(u)) \in Nat
  <2> DEFINE S == CountersOf(u)
  <2>1. IsFiniteSet(S) /\ c \in S BY <1>4
  <2>2. (\A d \in S : bytes[d] \in Nat) /\ (\A d \in S : g[d] \in Nat) BY <1>5
  <2>3. \A d \in S \ {c} : bytes[d] = g[d] BY <1>6
  <2> HIDE DEF S
  <2>4. SumFollows(bytes, g, S, c)
    BY <2>1, <2>2, <2>3, SumChange
  <2>5. Sum(g, S) \in Nat BY <2>1, <2>2, SumType
  <2> QED BY <2>4, <2>5 DEF S
<1>8. \A d \in FreeCounters : g[d] = bytes[d]
  <2>1. c \notin FreeCounters BY OneOwner
  <2>2. FreeCounters \subseteq Counters BY DEF FreeCounters
  <2> QED BY <1>2, <2>1, <2>2
<1> QED BY <1>3, <1>7, <1>8

\* The step keeps what each connection holds.
HoldsSame ==
    \A x \in Conns : conn'[x].ctr = conn[x].ctr /\ conn'[x].uid = conn[x].uid

\* Then every user keeps their connections and their counters.
LEMMA HoldsFrame ==
  ASSUME HoldsSame, TrafficInv, UNCHANGED <<users, counters, pending>>
  PROVE  /\ Held' = Held
         /\ ConnsAgree'
         /\ \A u : ConnsOf(u)' = ConnsOf(u)
         /\ \A u : CountersOf(u)' = CountersOf(u)
         /\ FreeCounters' = FreeCounters
<1> USE DEF HoldsSame
<1>1. Held' = Held BY DEF Held
<1>2. ConnsAgree' BY DEF ConnsAgree, TrafficInv
<1>3. \A u : ConnsOf(u)' = ConnsOf(u) BY DEF ConnsOf
<1>4. \A u : {conn'[x].ctr : x \in ConnsOf(u)} = {conn[x].ctr : x \in ConnsOf(u)}
  BY DEF ConnsOf
<1>5. \A u : CountersOf(u)' = CountersOf(u) BY <1>3, <1>4 DEF CountersOf
<1>6. FreeCounters' = FreeCounters BY <1>1 DEF FreeCounters
<1> QED BY <1>1, <1>2, <1>3, <1>5, <1>6

\* The step also keeps what each connection has yet to count.
ConnsSame == HoldsSame /\ \A x \in Conns : conn'[x].uncounted = conn[x].uncounted

\* Then what is uncounted for each user stays the same.
LEMMA UncountedFrame ==
  ASSUME ConnsSame
  PROVE  \A u : Uncounted(u)' = Uncounted(u)
<1>1. [c \in Conns |-> conn'[c].uncounted] = [c \in Conns |-> conn[c].uncounted]
  BY DEF ConnsSame
<1>2. \A u : ConnsOf(u)' = ConnsOf(u) BY DEF ConnsOf, ConnsSame, HoldsSame
<1> QED BY <1>1, <1>2 DEF Uncounted

\* A step that moves nothing between the accounts keeps the balance.
LEMMA AccountsFrame ==
  ASSUME TrafficInv, ConnsSame, UNCHANGED <<users, counters, pending, bytes>>,
         UNCHANGED <<history, totals, traffic>>
  PROVE  ConnsAgree' /\ FreeEmpty' /\ TrafficConserved'
<1>1. ConnsAgree' /\ FreeCounters' = FreeCounters /\ \A u : CountersOf(u)' = CountersOf(u)
  BY HoldsFrame DEF ConnsSame
<1>2. FreeEmpty' BY <1>1 DEF TrafficInv, FreeEmpty
<1>3. TrafficConserved'
  <2> SUFFICES ASSUME NEW u \in Uids PROVE Balanced(u)'
    BY DEF TrafficConserved, Balanced, Uncounted
  <2>1. Balanced(u) BY Balance
  <2>2. CountersOf(u)' = CountersOf(u) /\ Uncounted(u)' = Uncounted(u)
    BY <1>1, UncountedFrame
  <2> QED BY <2>1, <2>2 DEF history, Balanced
<1> QED BY <1>1, <1>2, <1>3

\* The checks, the wrapping and the close of a connection move nothing.
LEMMA QuietConnTraffic ==
  ASSUME IndInv, TrafficInv, NEW c \in Conns,
         Blocked(c) \/ MarkOnline(c) \/ TrackConn(c) \/ ConnClose(c)
  PROVE  TrafficInv'
<1> USE DEF TypeOK, ConnTypeOK, ConnState
<1>0. conn \in [Conns -> ConnState] BY DEF IndInv
<1>1. ConnsSame /\ \A x \in Conns : conn'[x].phase \in {"new", "untracked"} <=>
                                      conn[x].phase \in {"new", "untracked"}
  <2>1. CASE Blocked(c) BY <2>1, <1>0, SMT DEF Blocked, ConnsSame, HoldsSame
  <2>2. CASE MarkOnline(c) BY <2>2, <1>0, SMT DEF MarkOnline, ConnsSame, HoldsSame
  <2>3. CASE TrackConn(c) BY <2>3, <1>0, SMT DEF TrackConn, ConnsSame, HoldsSame
  <2>4. CASE ConnClose(c) BY <2>4, <1>0, SMT DEF ConnClose, ConnsSame, HoldsSame
  <2> QED BY <2>1, <2>2, <2>3, <2>4
<1>2. /\ UNCHANGED <<users, counters, pending, bytes, step, todoPending, visiting>>
      /\ UNCHANGED <<history, totals, traffic>>
  BY DEF Blocked, MarkOnline, TrackConn, ConnClose, nodeVars, userVars, objVars, pushVars, snapVars
<1>3. ConnsAgree' /\ FreeEmpty' /\ TrafficConserved' BY <1>1, <1>2, AccountsFrame
<1>4. Tracked' BY <1>1 DEF Tracked, TrafficInv, ConnsSame, HoldsSame
<1>5. Visits' BY <1>1, <1>2, HoldsFrame DEF Visits, TrafficInv, ConnsSame
<1> QED BY <1>3, <1>4, <1>5 DEF TrafficInv

\* A match gives the connection a counter its user already has.
LEMMA MatchTraffic ==
  ASSUME IndInv, TrafficInv, NEW c \in Conns, Match(c)
  PROVE  TrafficInv'
<1> DEFINE k == conn[c].key
<1>0. conn \in [Conns -> ConnState] /\ conn[c] \in ConnState /\ k \in Keys
  BY DEF IndInv, TypeOK, ConnTypeOK, ConnState
<1>1. /\ UNCHANGED <<users, counters, pending, bytes, step, todoPending, visiting>>
      /\ UNCHANGED <<history, totals, traffic>>
  BY DEF Match, nodeVars, userVars, objVars, pushVars, snapVars
<1>2. conn[c].uid = NoUid /\ conn[c].ctr = NoCounter /\ conn[c].uncounted = 0
  BY DEF Match, TrafficInv, Tracked
<1>3. CASE ~(registered /\ users[k] # NoUid)
  <2>0. conn' = [conn EXCEPT ![c].phase = "untracked"] BY <1>3 DEF Match
  <2>1. ConnsSame /\ conn'[c].phase = "untracked"
        /\ \A x \in Conns \ {c} : conn'[x].phase = conn[x].phase
    BY <1>0, <2>0, SMT DEF ConnsSame, HoldsSame, ConnState
  <2>3. ConnsAgree' /\ FreeEmpty' /\ TrafficConserved' BY <2>1, <1>1, AccountsFrame
  <2>4. Tracked' BY <2>1, <1>2 DEF Tracked, TrafficInv, ConnsSame, HoldsSame
  <2>5. Visits' BY <2>1, <1>1, HoldsFrame DEF Visits, TrafficInv, ConnsSame
  <2> QED BY <2>3, <2>4, <2>5 DEF TrafficInv
<1>4. CASE registered /\ users[k] # NoUid
  <2> DEFINE w == users[k]
  <2>1. w \in Uids /\ counters[k] \in Counters /\ counters[k] # NoCounter
    BY <1>0, <1>4, CounterAssumption DEF IndInv, TypeOK, NodeTypeOK, CountersInOnePlace
  <2>0. conn' = [conn EXCEPT ![c].phase = "matched", ![c].ctr = counters[k], ![c].uid = users[k]]
    BY <1>4 DEF Match
  <2>2. /\ conn'[c].phase = "matched" /\ conn'[c].ctr = counters[k] /\ conn'[c].uid = w
        /\ conn'[c].uncounted = 0
        /\ \A x \in Conns \ {c} : conn'[x] = conn[x]
    BY <1>0, <1>2, <2>0, SMT DEF ConnState
  <2> HIDE DEF k, w
  <2>3. Tracked' BY <2>1, <2>2, UidsAssumption DEF Tracked, TrafficInv
  <2>4. ConnsAgree'
    <3>1. \A x \in Conns \ {c} : conn[x].ctr = counters[k] => conn[x].uid = w
      BY <1>0, <2>1 DEF IndInv, BilledToOwner, w
    <3> SUFFICES ASSUME NEW x \in Conns, NEW y \in Conns,
                        conn'[x].ctr = conn'[y].ctr, conn'[x].ctr # NoCounter
                 PROVE  conn'[x].uid = conn'[y].uid
      BY DEF ConnsAgree
    <3>2. CASE x = c /\ y # c BY <3>1, <3>2, <2>2
    <3>3. CASE x # c /\ y = c BY <3>1, <3>3, <2>2
    <3>4. CASE x # c /\ y # c BY <3>4, <2>2 DEF ConnsAgree, TrafficInv
    <3> QED BY <3>2, <3>3, <3>4
  <2>7. Held \subseteq Held' \cup {NoCounter} BY <1>2, <2>2 DEF Held
  <2>5. FreeCounters' \subseteq FreeCounters
    BY <1>1, <2>7, CounterAssumption DEF FreeCounters
  <2>6. FreeEmpty' BY <2>5, <1>1 DEF FreeEmpty, TrafficInv
  <2>8. Visits'
    <3>1. \A p \in visiting : bytes[p[2]] = 0 \/ p[2] \in Held BY DEF TrafficInv, Visits
    <3>2. \A p \in visiting : p[2] # NoCounter
      BY CounterAssumption DEF IndInv, TypeOK, PushTypeOK
    <3>3. \A p \in visiting : bytes[p[2]] = 0 \/ p[2] \in Held' BY <3>1, <3>2, <2>7
    <3> QED BY <3>3, <1>1 DEF Visits, TrafficInv
  <2>9. ASSUME NEW u \in Uids
        PROVE  CountersOf(u)' = CountersOf(u) /\ Uncounted(u)' = Uncounted(u)
    <3>0. u # NoUid BY UidsAssumption
    <3>1. ConnsOf(u)' = IF u = w THEN ConnsOf(u) \cup {c} ELSE ConnsOf(u)
      BY <1>2, <2>2, <3>0 DEF ConnsOf
    <3>2. c \notin ConnsOf(u) BY <1>2, <3>0 DEF ConnsOf
    <3>3. {conn'[x].ctr : x \in ConnsOf(u)'} =
            {conn[x].ctr : x \in ConnsOf(u)} \cup (IF u = w THEN {counters[k]} ELSE {})
      <4>1. \A x \in ConnsOf(u) : conn'[x].ctr = conn[x].ctr BY <2>2, <3>2 DEF ConnsOf
      <4>2. CASE u = w
        <5>1. ConnsOf(u)' = ConnsOf(u) \cup {c} BY <4>2, <3>1
        <5>2. conn'[c].ctr = counters[k] BY <2>2
        <5>3. {conn'[x].ctr : x \in ConnsOf(u) \cup {c}} =
                {conn[x].ctr : x \in ConnsOf(u)} \cup {counters[k]}
          BY <4>1, <5>2
        <5> QED BY <5>1, <5>3, <4>2
      <4>3. CASE u # w BY <4>1, <4>3, <3>1
      <4> QED BY <4>2, <4>3
    <3>4. u = w => counters[k] \in {counters[l] : l \in {m \in Keys : users[m] = u}}
      BY <1>0 DEF w
    <3>5. CountersOf(u)' = CountersOf(u)
      BY <1>1, <3>3, <3>4 DEF CountersOf
    <3> DEFINE F == [x \in Conns |-> conn[x].uncounted]
               G == [x \in Conns |-> conn'[x].uncounted]
    <3>6. \A x \in Conns : F[x] = G[x] BY <1>2, <2>2
    <3>7. F[c] = 0 BY <1>2
    <3>8. ConnsOf(u) \subseteq Conns /\ ConnsOf(u)' \subseteq Conns BY DEF ConnsOf
    <3> HIDE DEF F, G
    <3>9. Sum(F, ConnsOf(u)) = Sum(F, ConnsOf(u)')
      <4>1. ConnsOf(u) \subseteq ConnsOf(u)' /\ \A x \in ConnsOf(u)' \ ConnsOf(u) : F[x] = 0
        BY <3>1, <3>7
      <4> QED BY <4>1, SumSupport
    <3>10. Sum(F, ConnsOf(u)') = Sum(G, ConnsOf(u)')
      <4>1. \A x \in ConnsOf(u)' : F[x] = G[x] BY <3>6, <3>8
      <4> QED BY <4>1, SumSame
    <3>11. Uncounted(u)' = Uncounted(u) BY <3>9, <3>10 DEF Uncounted, F, G
    <3> QED BY <3>5, <3>11
  <2>10. TrafficConserved'
    <3> SUFFICES ASSUME NEW u \in Uids PROVE Balanced(u)'
      BY DEF TrafficConserved, Balanced, Uncounted
    <3>1. Balanced(u) BY Balance
    <3> QED BY <3>1, <2>9, <1>1 DEF history, Balanced
  <2> QED BY <2>3, <2>4, <2>6, <2>8, <2>10 DEF TrafficInv
<1> QED BY <1>3, <1>4

\* A unit that moves is sent and is not counted yet.
LEMMA MoveTraffic ==
  ASSUME IndInv, TrafficInv, NEW c \in Conns, ConnMove(c)
  PROVE  TrafficInv'
<1> DEFINE w == conn[c].uid
           F == [x \in Conns |-> conn[x].uncounted]
           G == [x \in Conns |-> conn'[x].uncounted]
<1>0. conn \in [Conns -> ConnState] /\ conn[c] \in ConnState /\ TypeOK
  BY DEF IndInv, TypeOK, ConnTypeOK
<1>1. /\ UNCHANGED <<users, counters, pending, bytes, step, todoPending, visiting>>
      /\ UNCHANGED <<billed, dropped, requeued, totals, traffic>>
  BY DEF ConnMove, nodeVars, userVars, objVars, pushVars, snapVars
<1>2. conn' = [conn EXCEPT ![c].moved = @ + 1, ![c].uncounted = @ + 1]
      /\ sent' = [sent EXCEPT ![conn[c].uid] = @ + 1]
  BY DEF ConnMove
<1>3. /\ \A x \in Conns : conn'[x].ctr = conn[x].ctr /\ conn'[x].uid = conn[x].uid
                          /\ conn'[x].phase = conn[x].phase
      /\ \A x \in Conns \ {c} : conn'[x].uncounted = conn[x].uncounted
      /\ conn'[c].uncounted = conn[c].uncounted + 1
  BY <1>0, <1>2, SMT DEF ConnState
<1>4. w \in Uids
  <2>1. w \in Uids \cup {NoUid} BY <1>0 DEF ConnState
  <2>2. w # NoUid BY DEF ConnMove, TrafficInv, Tracked
  <2> QED BY <2>1, <2>2
<1>5. /\ (\A u : ConnsOf(u)' = ConnsOf(u)) /\ (\A u : CountersOf(u)' = CountersOf(u))
      /\ Held' = Held /\ FreeCounters' = FreeCounters /\ ConnsAgree'
  <2>1. HoldsSame BY <1>3 DEF HoldsSame
  <2> QED BY <2>1, <1>1, HoldsFrame
<1>6. Tracked'
  BY <1>3 DEF Tracked, TrafficInv, ConnMove
<1>8. FreeEmpty' BY <1>1, <1>5 DEF FreeEmpty, TrafficInv
<1>9. Visits' BY <1>1, <1>5 DEF Visits, TrafficInv
<1>11. \A x \in Conns : F[x] \in Nat /\ G[x] \in Nat
  <2>1. \A x \in Conns : conn[x].uncounted \in Nat BY <1>0, <1>4, OwnConns
  <2>2. conn[c].uncounted + 1 \in Nat BY <2>1, SMT
  <2> QED BY <2>1, <2>2, <1>3
<1>12. /\ \A x \in Conns \ {c} : F[x] = G[x]
       /\ F[c] = conn[c].uncounted /\ G[c] = conn[c].uncounted + 1
  BY <1>3
<1>13. c \in ConnsOf(w) BY DEF ConnsOf
<1>14. \A u : Uncounted(u) = Sum(F, ConnsOf(u)) /\ Uncounted(u)' = Sum(G, ConnsOf(u))
  BY <1>5 DEF Uncounted
<1>15. \A u \in Uids : IsFiniteSet(ConnsOf(u)) /\ ConnsOf(u) \subseteq Conns
  BY <1>0, OwnConns
<1> HIDE DEF F, G
<1>16. SumFollows(F, G, ConnsOf(w), c)
  <2>1. (\A x \in ConnsOf(w) : F[x] \in Nat) /\ (\A x \in ConnsOf(w) : G[x] \in Nat)
    BY <1>4, <1>11, <1>15
  <2>2. \A x \in ConnsOf(w) \ {c} : F[x] = G[x] BY <1>4, <1>12, <1>15
  <2> QED BY <1>4, <1>13, <1>15, <2>1, <2>2, SumChange
<1>17. ASSUME NEW u \in Uids PROVE Balanced(u)'
  <2>1. Balanced(u) BY Balance
  <2>2. sent[u] \in Nat /\ requeued[u] \in Nat /\ billed[u] \in Nat
        /\ dropped[u] \in Nat /\ totals[u] \in Nat /\ traffic[u] \in Nat
        /\ Sum(bytes, CountersOf(u)) \in Nat /\ Uncounted(u) \in Nat
    BY AccountTypes
  <2>3. Sum(bytes, CountersOf(u))' = Sum(bytes, CountersOf(u)) BY <1>1, <1>5
  <2>4. CASE u = w
    <3>1. sent'[u] = sent[u] + 1
      BY <1>2, <2>4 DEF w, IndInv, TypeOK, HistoryTypeOK
    <3>2. Uncounted(u)' + conn[c].uncounted = Uncounted(u) + (conn[c].uncounted + 1)
      BY <1>12, <1>14, <1>16, <2>4 DEF SumFollows
    <3>3. conn[c].uncounted \in Nat BY <1>11, <1>12
    <3>4. Uncounted(u)' \in Nat
      <4>1. \A x \in ConnsOf(u) : G[x] \in Nat BY <1>11, <1>15
      <4>2. Sum(G, ConnsOf(u)) \in Nat BY <4>1, <1>15, SumType
      <4> QED BY <4>2, <1>14
    <3>5. Uncounted(u)' = Uncounted(u) + 1 BY <2>2, <3>2, <3>3, <3>4, SMT
    <3>6. (sent[u] + 1) + requeued[u] = billed[u] + dropped[u] + totals[u] + traffic[u]
            + Sum(bytes, CountersOf(u)) + (Uncounted(u) + 1)
      <4>1. sent[u] + requeued[u] = billed[u] + dropped[u] + totals[u] + traffic[u]
              + Sum(bytes, CountersOf(u)) + Uncounted(u)
        BY <2>1 DEF Balanced
      <4> QED BY <2>2, <4>1, SMT
    <3> QED BY <2>3, <3>1, <3>5, <3>6, <1>1 DEF Balanced
  <2>5. CASE u # w
    <3>1. sent'[u] = sent[u] BY <1>2, <2>5 DEF w, IndInv, TypeOK, HistoryTypeOK
    <3>2. c \notin ConnsOf(u) BY <2>5 DEF ConnsOf
    <3>3. \A x \in ConnsOf(u) : F[x] = G[x] BY <3>2, <1>12, <1>15
    <3>4. Uncounted(u)' = Uncounted(u) BY <3>3, <1>14, SumSame
    <3> QED BY <2>1, <2>3, <3>1, <3>4, <1>1 DEF Balanced
  <2> QED BY <2>4, <2>5
<1>18. TrafficConserved' BY <1>17 DEF TrafficConserved, Balanced, Uncounted
<1> QED BY <1>5, <1>6, <1>8, <1>9, <1>18 DEF TrafficInv

\* A goroutine adds what it moved to the counter of its connection, which is one
\* of its user's counters whatever has become of the key.
LEMMA CountTraffic ==
  ASSUME IndInv, TrafficInv, NEW c \in Conns, ConnCount(c)
  PROVE  TrafficInv'
<1> DEFINE w == conn[c].uid
           d == conn[c].ctr
           n == conn[c].uncounted
           F == [x \in Conns |-> conn[x].uncounted]
           G == [x \in Conns |-> conn'[x].uncounted]
<1>0. conn \in [Conns -> ConnState] /\ conn[c] \in ConnState /\ TypeOK
  BY DEF IndInv, TypeOK, ConnTypeOK
<1>1. /\ UNCHANGED <<users, counters, pending, step, todoPending, visiting>>
      /\ UNCHANGED <<history, totals, traffic>>
  BY DEF ConnCount, nodeVars, userVars, pushVars, snapVars
<1>2. conn' = [conn EXCEPT ![c].uncounted = 0]
      /\ bytes' = [bytes EXCEPT ![d] = @ + n]
  BY DEF ConnCount
<1>3. /\ \A x \in Conns : conn'[x].ctr = conn[x].ctr /\ conn'[x].uid = conn[x].uid
                          /\ conn'[x].phase = conn[x].phase
      /\ \A x \in Conns \ {c} : conn'[x].uncounted = conn[x].uncounted
      /\ conn'[c].uncounted = 0
  BY <1>0, <1>2, SMT DEF ConnState
<1>n. n \in Nat /\ n # 0 BY <1>0, SMT DEF ConnState, ConnCount
<1>4. w \in Uids /\ d \in Counters
  <2>1. w \in Uids \cup {NoUid} /\ d \in Counters \cup {NoCounter} BY <1>0 DEF ConnState
  <2>2. w # NoUid /\ d # NoCounter BY <1>n DEF TrafficInv, Tracked
  <2> QED BY <2>1, <2>2
<1>5. /\ (\A u : ConnsOf(u)' = ConnsOf(u)) /\ (\A u : CountersOf(u)' = CountersOf(u))
      /\ Held' = Held /\ FreeCounters' = FreeCounters /\ ConnsAgree'
  <2>1. HoldsSame BY <1>3 DEF HoldsSame
  <2> QED BY <2>1, <1>1, HoldsFrame
<1>6. Tracked' BY <1>3 DEF Tracked, TrafficInv
<1>b. bytes[d] \in Nat /\ bytes[d] + n \in Nat
  <2>1. bytes[d] \in Nat BY <1>0, <1>4 DEF TypeOK, ObjTypeOK
  <2> QED BY <2>1, <1>n, SMT
<1>13. c \in ConnsOf(w) /\ d \in CountersOf(w) BY DEF ConnsOf, CountersOf
<1>c. /\ Sum(bytes', CountersOf(w)) + bytes[d] = Sum(bytes, CountersOf(w)) + (bytes[d] + n)
      /\ Sum(bytes', CountersOf(w)) \in Nat
      /\ \A v \in Uids \ {w} : Sum(bytes', CountersOf(v)) = Sum(bytes, CountersOf(v))
      /\ \A e \in FreeCounters : bytes'[e] = bytes[e]
  <2> DEFINE g == bytes'
  <2>1. g[d] = bytes[d] + n /\ \A e \in Counters \ {d} : g[e] = bytes[e]
    BY <1>0, <1>2, <1>4 DEF TypeOK, ObjTypeOK
  <2>2. TypeOK /\ CountersInOnePlace /\ BilledToOwner /\ Tracked /\ ConnsAgree
    BY DEF IndInv, TrafficInv
  <2> HIDE DEF g, w, d, n
  <2>3. /\ SumFollows(bytes, g, CountersOf(w), d)
        /\ Sum(g, CountersOf(w)) \in Nat
        /\ \A v \in Uids \ {w} : Sum(g, CountersOf(v)) = Sum(bytes, CountersOf(v))
        /\ \A e \in FreeCounters : g[e] = bytes[e]
    BY <1>4, <1>13, <1>b, <2>1, <2>2, CounterChange
  <2> QED BY <2>1, <2>3 DEF g, SumFollows
<1>8. FreeEmpty' BY <1>c, <1>5 DEF FreeEmpty, TrafficInv
<1>9. Visits'
  <2>1. d \in Held BY DEF Held
  <2>2. \A p \in visiting : p[2] \in Counters BY DEF IndInv, TypeOK, PushTypeOK
  <2>3. \A e \in Counters : e = d \/ bytes'[e] = bytes[e]
    BY <1>0, <1>2 DEF TypeOK, ObjTypeOK
  <2>4. \A p \in visiting : bytes'[p[2]] = 0 \/ p[2] \in Held'
    BY <2>1, <2>2, <2>3, <1>5 DEF TrafficInv, Visits
  <2> QED BY <2>4, <1>1 DEF Visits, TrafficInv
<1>11. \A x \in Conns : F[x] \in Nat /\ G[x] \in Nat
  <2>1. \A x \in Conns : conn[x].uncounted \in Nat BY <1>0, <1>4, OwnConns
  <2>2. 0 \in Nat BY SMT
  <2> QED BY <2>1, <2>2, <1>3
<1>12. (\A x \in Conns \ {c} : F[x] = G[x]) /\ F[c] = n /\ G[c] = 0
  BY <1>3
<1>14. \A u : Uncounted(u) = Sum(F, ConnsOf(u)) /\ Uncounted(u)' = Sum(G, ConnsOf(u))
  BY <1>5 DEF Uncounted
<1>15. \A u \in Uids : IsFiniteSet(ConnsOf(u)) /\ ConnsOf(u) \subseteq Conns
  BY <1>0, OwnConns
<1> HIDE DEF F, G
<1>16. SumFollows(F, G, ConnsOf(w), c)
  <2>1. (\A x \in ConnsOf(w) : F[x] \in Nat) /\ (\A x \in ConnsOf(w) : G[x] \in Nat)
    BY <1>4, <1>11, <1>15
  <2>2. \A x \in ConnsOf(w) \ {c} : F[x] = G[x] BY <1>4, <1>12, <1>15
  <2> QED BY <1>4, <1>13, <1>15, <2>1, <2>2, SumChange
<1>17. ASSUME NEW u \in Uids PROVE Balanced(u)'
  <2>1. Balanced(u) BY Balance
  <2>2. sent[u] \in Nat /\ requeued[u] \in Nat /\ billed[u] \in Nat
        /\ dropped[u] \in Nat /\ totals[u] \in Nat /\ traffic[u] \in Nat
        /\ Sum(bytes, CountersOf(u)) \in Nat /\ Uncounted(u) \in Nat
    BY AccountTypes
  <2>3. Sum(bytes, CountersOf(u))' = Sum(bytes', CountersOf(u)) BY <1>5
  <2>4. CASE u = w
    <3>2. Uncounted(u)' + n = Uncounted(u) + 0
      BY <1>12, <1>14, <1>16, <2>4 DEF SumFollows
    <3>4. Uncounted(u)' \in Nat
      <4>1. \A x \in ConnsOf(u) : G[x] \in Nat BY <1>11, <1>15
      <4>2. Sum(G, ConnsOf(u)) \in Nat BY <4>1, <1>15, SumType
      <4> QED BY <4>2, <1>14
    <3>5. Uncounted(u)' + n = Uncounted(u) BY <2>2, <3>2, <3>4, <1>n, SMT
    <3>6. /\ Sum(bytes, CountersOf(u))' + bytes[d] = Sum(bytes, CountersOf(u)) + (bytes[d] + n)
          /\ Sum(bytes, CountersOf(u))' \in Nat
      BY <2>3, <2>4, <1>c
    <3>7. Sum(bytes, CountersOf(u))' = Sum(bytes, CountersOf(u)) + n
      BY <3>6, <1>b, <1>n, <2>2, SMT
    <3> QED BY <2>1, <2>2, <3>4, <3>5, <3>7, <1>1, <1>n, SMT DEF Balanced, history
  <2>5. CASE u # w
    <3>2. c \notin ConnsOf(u) BY <2>5 DEF ConnsOf
    <3>3. \A x \in ConnsOf(u) : F[x] = G[x] BY <3>2, <1>12, <1>15
    <3>4. Uncounted(u)' = Uncounted(u) BY <3>3, <1>14, SumSame
    <3>5. Sum(bytes, CountersOf(u))' = Sum(bytes, CountersOf(u)) BY <2>3, <2>5, <1>c
    <3> QED BY <2>1, <3>5, <3>4, <1>1 DEF Balanced, history
  <2> QED BY <2>4, <2>5
<1>18. TrafficConserved' BY <1>17 DEF TrafficConserved, Balanced, Uncounted
<1> QED BY <1>5, <1>6, <1>8, <1>9, <1>18 DEF TrafficInv

\* The user list changes: a counter that leaves its key becomes pending, and a new
\* one is empty.
LEMMA UpdateNodeTraffic ==
  ASSUME IndInv, TrafficInv, NEW list \in UserLists, NEW limit, NEW counts, NEW isFresh,
         UpdateNode(list, limit, counts, isFresh)
  PROVE  TrafficInv'
<1>0. list \in [Keys -> Uids \cup {NoUid}] BY UserListsAssumption
<1>1. /\ step = "idle"
      /\ UNCHANGED <<bytes, conn, step, todoPending, visiting, history, totals, traffic>>
      /\ users' = list
      /\ pending' = [u \in Uids |-> pending[u] \cup Retired(list, u)]
  BY DEF UpdateNode, pushVars, snapVars
<1>2. PICK new \in FreshCounters(Listed(list) \ Carried(list)) :
        counters' = [k \in Keys |-> IF list[k] = NoUid THEN NoCounter
                                    ELSE IF k \in Carried(list) THEN counters[k]
                                    ELSE new[k]]
  BY DEF UpdateNode
<1>3. \A k \in Keys : list[k] # NoUid =>
        IF users[k] = list[k] THEN counters'[k] = counters[k]
        ELSE counters'[k] \in FreeCounters
  BY <1>2 DEF FreshCounters, Listed, Carried
<1>4. Held' = Held /\ Tracked' /\ ConnsAgree' /\ \A u : ConnsOf(u)' = ConnsOf(u)
  BY <1>1 DEF Held, Tracked, ConnsAgree, ConnsOf, TrafficInv
<1>5. Visits' BY <1>1 DEF Visits, TrafficInv
<1>6. ASSUME NEW k \in Keys, users[k] # NoUid
      PROVE  \/ counters[k] = counters'[k] /\ list[k] = users[k]
             \/ counters[k] \in pending'[users[k]]
  <2>1. users[k] \in Uids BY <1>6 DEF IndInv, TypeOK, NodeTypeOK
  <2>2. CASE users[k] = list[k] BY <2>2, <1>3, <1>6
  <2>3. CASE users[k] # list[k]
    <3>1. k \notin Carried(list) BY <2>3 DEF Carried
    <3>2. counters[k] \in Retired(list, users[k]) BY <3>1 DEF Retired
    <3> QED BY <3>2, <2>1, <1>1
  <2> QED BY <2>2, <2>3
<1>7. FreeEmpty'
  <2> SUFFICES ASSUME NEW d \in FreeCounters' PROVE d \in FreeCounters
    BY <1>1 DEF FreeEmpty, TrafficInv
  <2>1. d \in Counters /\ d \notin Held /\ d # NoCounter
    BY <1>4, CounterAssumption DEF FreeCounters
  <2>2. \A k \in Keys : d # counters'[k] BY DEF FreeCounters
  <2>3. \A u \in Uids : d \notin pending'[u] BY DEF FreeCounters
  <2>4. \A u \in Uids : d \notin pending[u] BY <2>3, <1>1
  <2>5. ASSUME NEW k \in Keys PROVE d # counters[k]
    <3>1. CASE users[k] = NoUid BY <3>1, <2>1 DEF IndInv, CountersInOnePlace
    <3>2. CASE users[k] # NoUid
      <4>1. users[k] \in Uids BY <3>2 DEF IndInv, TypeOK, NodeTypeOK
      <4> QED BY <3>2, <4>1, <1>6, <2>2, <2>3
    <3> QED BY <3>1, <3>2
  <2> QED BY <2>1, <2>4, <2>5 DEF FreeCounters
<1>8. ASSUME NEW u \in Uids PROVE Sum(bytes, CountersOf(u)) = Sum(bytes, CountersOf(u)')
  <2>0. u # NoUid BY UidsAssumption
  <2>1. CountersOf(u) \subseteq CountersOf(u)'
    <3>1. \A k \in Keys : users[k] = u => counters[k] \in CountersOf(u)'
      BY <1>1, <1>6, <2>0 DEF CountersOf
    <3>2. pending[u] \subseteq pending'[u] BY <1>1
    <3>3. \A x \in ConnsOf(u) : conn[x].ctr \in CountersOf(u)'
      BY <1>1, <1>4 DEF CountersOf
    <3> QED BY <3>1, <3>2, <3>3 DEF CountersOf
  <2>2. ASSUME NEW d \in CountersOf(u)', d \notin CountersOf(u) PROVE bytes[d] = 0
    <3>1. d \notin pending'[u]
      <4>1. d \notin pending[u] BY <2>2 DEF CountersOf
      <4>2. d \notin Retired(list, u) BY <2>2 DEF CountersOf, Retired
      <4> QED BY <4>1, <4>2, <1>1
    <3>2. d \notin {conn'[x].ctr : x \in ConnsOf(u)'} BY <2>2, <1>1, <1>4 DEF CountersOf
    <3>3. PICK k \in Keys : list[k] = u /\ d = counters'[k]
      BY <3>1, <3>2, <1>1 DEF CountersOf
    <3>4. users[k] # list[k] BY <2>2, <3>3, <1>3, <2>0 DEF CountersOf
    <3> QED BY <3>3, <3>4, <1>3, <2>0 DEF FreeEmpty, TrafficInv
  <2> QED BY <2>1, <2>2, SumSupport
<1>9. ASSUME NEW u \in Uids PROVE Balanced(u)'
  <2>1. Balanced(u) BY Balance
  <2>2. Uncounted(u)' = Uncounted(u) BY <1>1, <1>4 DEF Uncounted
  <2>3. Sum(bytes, CountersOf(u))' = Sum(bytes, CountersOf(u)) BY <1>1, <1>8
  <2> QED BY <2>1, <2>2, <2>3, <1>1 DEF Balanced, history
<1>10. TrafficConserved' BY <1>9 DEF TrafficConserved, Balanced, Uncounted
<1> QED BY <1>4, <1>5, <1>7, <1>10 DEF TrafficInv

\* A swap moves what a counter of the user holds to the user's total.
LEMMA SwapTraffic ==
  ASSUME IndInv, TrafficInv, NEW u \in Uids, NEW c \in CountersOf(u), SwapInto(u, c),
         UNCHANGED <<users, counters, pending, conn, history, traffic>>
  PROVE  /\ Tracked' /\ ConnsAgree' /\ FreeEmpty' /\ TrafficConserved'
         /\ bytes'[c] = 0
         /\ Held' = Held
<1>0. TypeOK /\ CountersInOnePlace /\ BilledToOwner /\ Tracked /\ ConnsAgree
  BY DEF IndInv, TrafficInv
<1>1. c \in Counters /\ bytes \in [Counters -> Nat] /\ totals \in [Uids -> Nat]
  BY <1>0, OwnCounters DEF TypeOK, ObjTypeOK, PushTypeOK
<1>2. bytes' = [bytes EXCEPT ![c] = 0] /\ totals' = [totals EXCEPT ![u] = @ + bytes[c]]
  BY DEF SwapInto
<1> DEFINE g == bytes'
<1>3. g[c] = 0 /\ \A e \in Counters \ {c} : g[e] = bytes[e] BY <1>1, <1>2
<1>4. /\ Held' = Held /\ FreeCounters' = FreeCounters /\ Tracked' /\ ConnsAgree'
      /\ \A v : CountersOf(v)' = CountersOf(v) /\ Uncounted(v)' = Uncounted(v)
  <2>1. ConnsSame BY DEF ConnsSame, HoldsSame
  <2>2. Tracked' BY <1>0 DEF Tracked
  <2> QED BY <2>1, <2>2, HoldsFrame, UncountedFrame DEF ConnsSame
<1>5. 0 \in Nat BY SMT
<1> HIDE DEF g
<1>6. /\ SumFollows(bytes, g, CountersOf(u), c)
      /\ Sum(g, CountersOf(u)) \in Nat
      /\ \A v \in Uids \ {u} : Sum(g, CountersOf(v)) = Sum(bytes, CountersOf(v))
      /\ \A e \in FreeCounters : g[e] = bytes[e]
  BY <1>0, <1>3, <1>5, CounterChange
<1>7. FreeEmpty' BY <1>4, <1>6 DEF FreeEmpty, TrafficInv, g
<1>8. ASSUME NEW v \in Uids PROVE Balanced(v)'
  <2>1. Balanced(v) BY Balance
  <2>2. sent[v] \in Nat /\ requeued[v] \in Nat /\ billed[v] \in Nat
        /\ dropped[v] \in Nat /\ totals[v] \in Nat /\ traffic[v] \in Nat
        /\ Sum(bytes, CountersOf(v)) \in Nat /\ Uncounted(v) \in Nat
    BY AccountTypes
  <2>3. Sum(bytes, CountersOf(v))' = Sum(g, CountersOf(v)) BY <1>4 DEF g
  <2>4. CASE v # u
    <3>1. totals'[v] = totals[v] BY <1>1, <1>2, <2>4
    <3>2. Sum(bytes, CountersOf(v))' = Sum(bytes, CountersOf(v)) BY <2>3, <2>4, <1>6
    <3> QED BY <2>1, <3>1, <3>2, <1>4 DEF Balanced, history
  <2>5. CASE v = u
    <3>1. totals'[v] = totals[v] + bytes[c] BY <1>1, <1>2, <2>5
    <3>2. bytes[c] \in Nat BY <1>1
    <3>3. Sum(bytes, CountersOf(v))' + bytes[c] = Sum(bytes, CountersOf(v)) + 0
          /\ Sum(bytes, CountersOf(v))' \in Nat
      BY <2>3, <2>5, <1>3, <1>6 DEF SumFollows
    <3>4. Sum(bytes, CountersOf(v)) = Sum(bytes, CountersOf(v))' + bytes[c]
      BY <2>2, <3>2, <3>3, SMT
    <3>5. sent[v] + requeued[v] = billed[v] + dropped[v] + (totals[v] + bytes[c]) + traffic[v]
            + Sum(bytes, CountersOf(v))' + Uncounted(v)
      <4>1. sent[v] + requeued[v] = billed[v] + dropped[v] + totals[v] + traffic[v]
              + Sum(bytes, CountersOf(v)) + Uncounted(v)
        BY <2>1 DEF Balanced
      <4> QED BY <2>2, <3>2, <3>3, <3>4, <4>1, SMT
    <3> QED BY <3>1, <3>5, <1>4 DEF Balanced, history
  <2> QED BY <2>4, <2>5
<1>9. TrafficConserved' BY <1>8 DEF TrafficConserved, Balanced, Uncounted
<1> QED BY <1>3, <1>4, <1>7, <1>9 DEF g

\* snapshot visits the pending counters, then the current ones; one it prunes is
\* empty or still held by a connection of the same user.
LEMMA SnapshotTraffic ==
  ASSUME IndInv, TrafficInv,
         SnapshotBegin \/ SnapshotPending \/ SnapshotPrune \/ SnapshotCounter
  PROVE  TrafficInv'
<1> USE DEF nodeVars, userVars, objVars
<1>0. TypeOK /\ CountersInOnePlace /\ BilledToOwner /\ Tracked /\ ConnsAgree
  BY DEF IndInv, TrafficInv
<1>1. CASE SnapshotBegin
  <2>1. ConnsSame /\ UNCHANGED <<users, counters, pending, bytes, history, totals, traffic, conn>>
    BY <1>1 DEF SnapshotBegin, ConnsSame, HoldsSame
  <2>2. ConnsAgree' /\ FreeEmpty' /\ TrafficConserved' BY <2>1, AccountsFrame
  <2>3. Tracked' BY <1>0, <2>1 DEF Tracked
  <2>4. Visits' BY <1>1 DEF SnapshotBegin, Visits, TrafficInv
  <2> QED BY <2>2, <2>3, <2>4 DEF TrafficInv
<1>2. CASE SnapshotPending
  <2>1. PICK p \in todoPending :
          SwapInto(p[1], p[2]) /\ visiting' = {p} /\ todoPending' = todoPending \ {p}
    BY <1>2 DEF SnapshotPending
  <2>2. p \in Uids \X Counters /\ p[2] \in pending[p[1]]
    BY <1>0 DEF TypeOK, PushTypeOK, TrafficInv, Visits
  <2>3. p[1] \in Uids /\ p[2] \in CountersOf(p[1]) BY <2>2 DEF CountersOf
  <2>4. UNCHANGED <<users, counters, pending, conn, history, traffic>> /\ step' = "active"
    BY <1>2 DEF SnapshotPending
  <2>5. Tracked' /\ ConnsAgree' /\ FreeEmpty' /\ TrafficConserved' /\ bytes'[p[2]] = 0
    BY <2>1, <2>3, <2>4, SwapTraffic
  <2>6. Visits' BY <2>1, <2>4, <2>5 DEF Visits, TrafficInv
  <2> QED BY <2>5, <2>6 DEF TrafficInv
<1>3. CASE SnapshotCounter
  <2>1. PICK k \in todoUsers : SwapInto(users[k], counters[k])
    BY <1>3 DEF SnapshotCounter
  <2>2. k \in Keys /\ users[k] \in Uids
    BY <1>0 DEF TypeOK, PushTypeOK, NodeTypeOK, CountersInOnePlace
  <2>3. counters[k] \in CountersOf(users[k]) BY <2>2 DEF CountersOf
  <2>4. UNCHANGED <<users, counters, pending, conn, history, traffic>>
        /\ UNCHANGED <<step, todoPending, visiting>> /\ step = "pending" /\ todoPending = {}
    BY <1>3 DEF SnapshotCounter
  <2>5. Tracked' /\ ConnsAgree' /\ FreeEmpty' /\ TrafficConserved'
    BY <2>1, <2>2, <2>3, <2>4, SwapTraffic
  <2>6. Visits' BY <2>4 DEF Visits, TrafficInv
  <2> QED BY <2>5, <2>6 DEF TrafficInv
<1>4. CASE SnapshotPrune
  <2>1. PICK p \in visiting :
          pending' = IF KeepsPending(p[2]) THEN pending
                     ELSE [pending EXCEPT ![p[1]] = @ \ {p[2]}]
    BY <1>4 DEF SnapshotPrune
  <2> DEFINE w == p[1]
             c == p[2]
  <2>2. p = <<w, c>> /\ w \in Uids /\ c \in Counters /\ c \in pending[w]
        /\ (bytes[c] = 0 \/ c \in Held) /\ p \notin todoPending
    <3>1. p \in Uids \X Counters BY <1>0 DEF TypeOK, PushTypeOK
    <3>2. p = <<w, c>> /\ w \in Uids /\ c \in Counters BY <3>1, SMT
    <3>3. c \in pending[w] /\ (bytes[c] = 0 \/ c \in Held) /\ p \notin todoPending
      BY DEF TrafficInv, Visits
    <3> QED BY <3>2, <3>3
  <2>3. /\ UNCHANGED <<users, counters, bytes, todoPending, history, totals, traffic, conn>>
        /\ visiting' = {} /\ step' = "pending"
    BY <1>4 DEF SnapshotPrune
  <2>4. pending \in [Uids -> SUBSET Counters] /\ todoPending \subseteq Uids \X Counters
    BY <1>0 DEF TypeOK, NodeTypeOK, PushTypeOK
  <2>5. /\ \A v \in Uids : pending'[v] \subseteq pending[v]
        /\ \A v \in Uids : \A d \in pending[v] : d \in pending'[v] \/ (v = w /\ d = c)
    BY <2>1, <2>2, <2>4
  <2> HIDE DEF w, c
  <2>6. Held' = Held /\ Tracked' /\ ConnsAgree' /\ \A u : ConnsOf(u)' = ConnsOf(u)
    BY <1>0, <2>3 DEF Held, Tracked, ConnsAgree, ConnsOf
  <2>7. c \in Held => c \in {conn[x].ctr : x \in ConnsOf(w)}
    <3> SUFFICES ASSUME NEW x \in Conns, c = conn[x].ctr PROVE conn[x].uid = w
      BY DEF Held, ConnsOf
    <3> QED BY <1>0, <2>2, CounterAssumption DEF BilledToOwner
  <2>8. FreeEmpty'
    <3> SUFFICES ASSUME NEW d \in FreeCounters' PROVE bytes[d] = 0
      BY <2>3 DEF FreeEmpty
    <3>1. d \in Counters /\ d \notin Held /\ (\A k \in Keys : d # counters[k])
          /\ \A v \in Uids : d \notin pending'[v]
      BY <2>3, <2>6 DEF FreeCounters
    <3>2. CASE d = c BY <3>1, <3>2, <2>2
    <3>3. CASE d # c
      <4>1. d \in FreeCounters BY <3>1, <3>3, <2>5 DEF FreeCounters
      <4> QED BY <4>1 DEF FreeEmpty, TrafficInv
    <3> QED BY <3>2, <3>3
  <2>9. Visits'
    <3>1. ASSUME NEW q \in todoPending PROVE q[2] \in pending'[q[1]]
      <4>1. q = <<q[1], q[2]>> /\ q[1] \in Uids /\ q[2] \in pending[q[1]]
        <5>1. q \in Uids \X Counters BY <2>4
        <5>2. q = <<q[1], q[2]>> /\ q[1] \in Uids BY <5>1, SMT
        <5> QED BY <5>2 DEF TrafficInv, Visits
      <4>2. ~(q[1] = w /\ q[2] = c) BY <4>1, <2>2
      <4> QED BY <4>1, <4>2, <2>5
    <3>2. todoPending' \cup visiting' = todoPending BY <2>3
    <3> QED BY <3>1, <3>2, <2>3 DEF Visits
  <2>10. ASSUME NEW v \in Uids PROVE Sum(bytes, CountersOf(v)') = Sum(bytes, CountersOf(v))
    <3>1. CountersOf(v)' \subseteq CountersOf(v) BY <2>3, <2>5, <2>6 DEF CountersOf
    <3>2. ASSUME NEW d \in CountersOf(v), d \notin CountersOf(v)' PROVE bytes[d] = 0
      <4>1. d \in pending[v] /\ d \notin pending'[v] BY <3>2, <2>3, <2>6 DEF CountersOf
      <4>2. v = w /\ d = c BY <4>1, <2>5
      <4>3. d \notin {conn[x].ctr : x \in ConnsOf(v)} BY <3>2, <2>3, <2>6 DEF CountersOf
      <4> QED BY <4>2, <4>3, <2>2, <2>7
    <3> QED BY <3>1, <3>2, SumSupport
  <2>11. ASSUME NEW v \in Uids PROVE Balanced(v)'
    <3>1. Balanced(v) BY Balance
    <3>2. Uncounted(v)' = Uncounted(v) BY <2>3, <2>6 DEF Uncounted
    <3>3. Sum(bytes, CountersOf(v))' = Sum(bytes, CountersOf(v)) BY <2>3, <2>10
    <3> QED BY <3>1, <3>2, <3>3, <2>3 DEF Balanced, history
  <2>12. TrafficConserved' BY <2>11 DEF TrafficConserved, Balanced, Uncounted
  <2> QED BY <2>6, <2>8, <2>9, <2>12 DEF TrafficInv
<1> QED BY <1>1, <1>2, <1>3, <1>4

\* The end of a snapshot and the panel's answers move amounts between the totals,
\* the report, what was credited and what was dropped.
LEMMA ReportTraffic ==
  ASSUME IndInv, TrafficInv, ReportOnly,
         SnapshotEnd \/ ReportTrafficOK \/ ReportTrafficFail
  PROVE  TrafficInv'
<1> USE DEF nodeVars, userVars, objVars, snapVars
<1>0. TypeOK /\ Tracked BY DEF IndInv, TrafficInv
<1>1. UNCHANGED <<users, counters, pending, bytes, conn, todoPending, visiting, sent>>
      /\ todoPending = {} /\ visiting = {} /\ step' \notin {"pending", "active"}
  BY DEF SnapshotEnd, ReportTrafficOK, ReportTrafficFail, TrafficInv, Visits
<1>2. ConnsSame BY <1>1 DEF ConnsSame, HoldsSame
<1>3. /\ ConnsAgree' /\ FreeCounters' = FreeCounters
      /\ \A u : CountersOf(u)' = CountersOf(u) /\ Uncounted(u)' = Uncounted(u)
  BY <1>1, <1>2, HoldsFrame, UncountedFrame DEF ConnsSame
<1>4. Tracked' /\ FreeEmpty' BY <1>0, <1>1, <1>3 DEF Tracked, FreeEmpty, TrafficInv
<1>5. Visits' BY <1>1 DEF Visits
<1>6. ASSUME NEW u \in Uids PROVE Balanced(u)'
  <2>1. Balanced(u) BY Balance
  <2>2. sent[u] \in Nat /\ requeued[u] \in Nat /\ billed[u] \in Nat
        /\ dropped[u] \in Nat /\ totals[u] \in Nat /\ traffic[u] \in Nat
        /\ Sum(bytes, CountersOf(u)) \in Nat /\ Uncounted(u) \in Nat
    BY AccountTypes
  <2>3. /\ Sum(bytes, CountersOf(u))' = Sum(bytes, CountersOf(u))
        /\ Uncounted(u)' = Uncounted(u) /\ sent'[u] = sent[u]
    BY <1>1, <1>3
  <2>4. CASE SnapshotEnd
    <3>1. traffic[u] = 0 BY <2>4 DEF SnapshotEnd, ReportOnly
    <3>2. /\ traffic'[u] = (IF totals[u] >= TrafficMin THEN totals[u] ELSE 0)
          /\ dropped'[u] = (IF totals[u] >= TrafficMin THEN dropped[u] ELSE dropped[u] + totals[u])
          /\ totals'[u] = 0 /\ billed'[u] = billed[u] /\ requeued'[u] = requeued[u]
      BY <2>4 DEF SnapshotEnd, Zero
    <3>3. traffic'[u] + dropped'[u] = dropped[u] + totals[u]
          /\ traffic'[u] \in Nat /\ dropped'[u] \in Nat
      BY <2>2, <3>2, SMT
    <3> QED BY <2>1, <2>2, <2>3, <3>1, <3>2, <3>3, SMT DEF Balanced
  <2>5. CASE ReportTrafficOK
    <3>1. /\ billed'[u] = billed[u] + traffic[u] /\ traffic'[u] = 0
          /\ totals'[u] = totals[u] /\ dropped'[u] = dropped[u] /\ requeued'[u] = requeued[u]
      BY <2>5 DEF ReportTrafficOK, Zero, Plus
    <3> QED BY <2>1, <2>2, <2>3, <3>1, SMT DEF Balanced
  <2>6. CASE ReportTrafficFail
    <3>1. /\ \/ billed'[u] = billed[u] /\ requeued'[u] = requeued[u]
             \/ /\ billed'[u] = billed[u] + traffic[u]
                /\ requeued'[u] = requeued[u] + traffic[u]
          /\ totals'[u] = totals[u] /\ dropped'[u] = dropped[u] /\ traffic'[u] = traffic[u]
      BY <2>6 DEF ReportTrafficFail, Plus
    <3> QED BY <2>1, <2>2, <2>3, <3>1, SMT DEF Balanced
  <2> QED BY <2>4, <2>5, <2>6
<1>7. TrafficConserved' BY <1>6 DEF TrafficConserved, Balanced, Uncounted
<1> QED BY <1>3, <1>4, <1>5, <1>7 DEF TrafficInv

\* A restored amount goes to a counter of its user, or to a new one that becomes
\* pending for the user.
LEMMA RestoreTrafficKeeps ==
  ASSUME IndInv, TrafficInv, RestoreTraffic
  PROVE  TrafficInv'
<1>0. TypeOK /\ CountersInOnePlace /\ BilledToOwner /\ Tracked /\ ConnsAgree
  BY DEF IndInv, TrafficInv
<1>1. PICK u \in Uids, c \in Counters :
        /\ CounterForUID(u, c, pending')
        /\ bytes' = [bytes EXCEPT ![c] = @ + traffic[u]]
        /\ traffic' = [traffic EXCEPT ![u] = 0]
  BY DEF RestoreTraffic
<1>2. /\ UNCHANGED <<users, counters, conn, step, todoPending, visiting, totals, history>>
      /\ step = "restoreTraffic"
  BY DEF RestoreTraffic, snapVars, userVars
<1> DEFINE g == bytes'
<1>3. /\ bytes \in [Counters -> Nat] /\ traffic \in [Uids -> Nat]
      /\ pending \in [Uids -> SUBSET Counters]
  BY <1>0 DEF TypeOK, ObjTypeOK, PushTypeOK, NodeTypeOK
<1>4. /\ g[c] = bytes[c] + traffic[u] /\ \A e \in Counters \ {c} : g[e] = bytes[e]
      /\ traffic'[u] = 0 /\ \A v \in Uids \ {u} : traffic'[v] = traffic[v]
  BY <1>1, <1>3
<1>5. bytes[c] \in Nat /\ traffic[u] \in Nat /\ bytes[c] + traffic[u] \in Nat
  BY <1>3, SMT
<1>6. Tracked' /\ ConnsAgree' /\ Held' = Held
      /\ \A v : ConnsOf(v)' = ConnsOf(v) /\ Uncounted(v)' = Uncounted(v)
  BY <1>0, <1>2 DEF Tracked, ConnsAgree, Held, ConnsOf, Uncounted
<1>7. Visits' BY <1>2 DEF Visits, TrafficInv
<1>8. \/ c \in CountersOf(u) /\ pending' = pending
      \/ c \in FreeCounters /\ pending[u] = {} /\ pending' = [pending EXCEPT ![u] = {c}]
  BY <1>1 DEF CounterForUID, CountersOf
<1> HIDE DEF g
<1>9. /\ FreeEmpty'
      /\ \A v \in Uids \ {u} : Sum(bytes, CountersOf(v))' = Sum(bytes, CountersOf(v))
      /\ Sum(bytes, CountersOf(u))' = Sum(bytes, CountersOf(u)) + traffic[u]
  <2>0. Sum(bytes, CountersOf(u)) \in Nat BY <1>0, OwnCounters
  <2>1. CASE c \in CountersOf(u) /\ pending' = pending
    <3>1. /\ SumFollows(bytes, g, CountersOf(u), c)
          /\ Sum(g, CountersOf(u)) \in Nat
          /\ \A v \in Uids \ {u} : Sum(g, CountersOf(v)) = Sum(bytes, CountersOf(v))
          /\ \A e \in FreeCounters : g[e] = bytes[e]
      BY <1>0, <1>4, <1>5, <2>1, CounterChange
    <3>2. (\A v : CountersOf(v)' = CountersOf(v)) /\ FreeCounters' = FreeCounters
      BY <1>2, <1>6, <2>1 DEF CountersOf, FreeCounters
    <3>3. FreeEmpty' BY <3>1, <3>2 DEF FreeEmpty, TrafficInv, g
    <3>4. \A v : Sum(bytes, CountersOf(v))' = Sum(g, CountersOf(v)) BY <3>2 DEF g
    <3>5. Sum(g, CountersOf(u)) + bytes[c] = Sum(bytes, CountersOf(u)) + (bytes[c] + traffic[u])
      BY <3>1, <1>4 DEF SumFollows
    <3>6. Sum(g, CountersOf(u)) = Sum(bytes, CountersOf(u)) + traffic[u]
      BY <2>0, <3>1, <3>5, <1>5, SMT
    <3> QED BY <3>1, <3>3, <3>4, <3>6
  <2>2. CASE c \in FreeCounters /\ pending[u] = {} /\ pending' = [pending EXCEPT ![u] = {c}]
    <3>0. pending'[u] = {c} /\ \A v \in Uids \ {u} : pending'[v] = pending[v]
      BY <2>2, <1>3
    <3>1. \A v \in Uids : c \notin CountersOf(v) BY <1>0, <2>2, OneOwner
    <3>2. CountersOf(u)' = CountersOf(u) \cup {c}
          /\ \A v \in Uids \ {u} : CountersOf(v)' = CountersOf(v)
      BY <1>2, <1>6, <3>0, <2>2 DEF CountersOf
    <3>3. \A v \in Uids : \A e \in CountersOf(v) : g[e] = bytes[e]
      BY <1>0, <1>4, <3>1, OwnCounters
    <3>4. \A v \in Uids : Sum(g, CountersOf(v)) = Sum(bytes, CountersOf(v))
      BY <3>3, SumSame
    <3>5. FreeEmpty'
      <4>1. FreeCounters' \subseteq FreeCounters \ {c}
        <5> SUFFICES ASSUME NEW e \in FreeCounters' PROVE e \in FreeCounters /\ e # c
          OBVIOUS
        <5>1. e \in Counters /\ e \notin Held /\ (\A k \in Keys : e # counters[k])
              /\ \A v \in Uids : e \notin pending'[v]
          BY <1>2, <1>6 DEF FreeCounters
        <5>2. e # c BY <5>1, <3>0
        <5>3. \A v \in Uids : e \notin pending[v] BY <5>1, <3>0, <2>2
        <5> QED BY <5>1, <5>2, <5>3 DEF FreeCounters
      <4>2. FreeCounters \subseteq Counters BY DEF FreeCounters
      <4> QED BY <4>1, <4>2, <1>4 DEF FreeEmpty, TrafficInv, g
    <3>6. \A v \in Uids \ {u} : Sum(bytes, CountersOf(v))' = Sum(bytes, CountersOf(v))
      BY <3>2, <3>4 DEF g
    <3>7. Sum(g, CountersOf(u) \cup {c}) = Sum(g, CountersOf(u)) + g[c]
      <4> DEFINE T == CountersOf(u) \cup {c}
      <4>1. IsFiniteSet(T) /\ T \subseteq Counters /\ c \in T
        <5>1. T \subseteq Counters BY <1>0, OwnCounters
        <5> QED BY <5>1, FiniteAssumption, FS_Subset
      <4>2. T \ {c} = CountersOf(u) BY <3>1
      <4>3. \A e \in T : g[e] \in Nat BY <4>1, <1>3, <1>4, <1>5
      <4> HIDE DEF T
      <4>4. Sum(g, T) = Sum(g, T \ {c}) + g[c] BY <4>1, <4>3, SumSplit
      <4> QED BY <4>2, <4>4 DEF T
    <3>8. g[c] = traffic[u]
      <4>1. bytes[c] = 0 BY <2>2 DEF FreeEmpty, TrafficInv
      <4> QED BY <4>1, <1>4, <1>5, SMT
    <3>9. Sum(bytes, CountersOf(u))' = Sum(g, CountersOf(u) \cup {c}) BY <3>2 DEF g
    <3> QED BY <3>4, <3>5, <3>6, <3>7, <3>8, <3>9
  <2> QED BY <1>8, <2>1, <2>2
<1>10. ASSUME NEW v \in Uids PROVE Balanced(v)'
  <2>1. Balanced(v) BY Balance
  <2>2. sent[v] \in Nat /\ requeued[v] \in Nat /\ billed[v] \in Nat
        /\ dropped[v] \in Nat /\ totals[v] \in Nat /\ traffic[v] \in Nat
        /\ Sum(bytes, CountersOf(v)) \in Nat /\ Uncounted(v) \in Nat
    BY AccountTypes
  <2>3. CASE v # u BY <2>1, <2>3, <1>2, <1>4, <1>6, <1>9 DEF Balanced, history
  <2>4. CASE v = u
    <3>1. traffic'[v] = 0 /\ Sum(bytes, CountersOf(v))' = Sum(bytes, CountersOf(v)) + traffic[v]
          /\ Uncounted(v)' = Uncounted(v)
      BY <2>4, <1>4, <1>6, <1>9
    <3> QED BY <2>1, <2>2, <3>1, <1>2, SMT DEF Balanced, history
  <2> QED BY <2>3, <2>4
<1>11. TrafficConserved' BY <1>10 DEF TrafficConserved, Balanced, Uncounted
<1> QED BY <1>6, <1>7, <1>9, <1>11 DEF TrafficInv

\* The other steps of the controller move nothing.
LEMMA QuietTraffic ==
  ASSUME IndInv, TrafficInv,
         \/ RestoreTrafficEnd \/ ReportAlive \/ RestoreAlive \/ AliveExpire \/ DeleteNode \/ LoseInbound
         \/ (\E counts \in AliveCounts : UpdateAliveList(counts)) \/ UNCHANGED vars
  PROVE  TrafficInv'
<1> USE DEF nodeVars, userVars, objVars, snapVars, pushVars
<1>1. /\ UNCHANGED <<users, counters, pending, bytes, conn, todoPending, visiting>>
      /\ UNCHANGED <<history, totals, traffic>>
      /\ step' = step \/ ({step, step'} \cap {"pending", "active"} = {})
  BY DEF RestoreTrafficEnd, ReportAlive, RestoreAlive, AliveExpire, DeleteNode,
         LoseInbound, UpdateAliveList, vars
<1>2. ConnsSame BY <1>1 DEF ConnsSame, HoldsSame
<1>3. ConnsAgree' /\ FreeEmpty' /\ TrafficConserved' BY <1>1, <1>2, AccountsFrame
<1>4. Tracked' BY <1>1 DEF Tracked, TrafficInv
<1>5. Held' = Held BY <1>1 DEF Held
<1>6. Visits' BY <1>1, <1>5 DEF Visits, TrafficInv
<1> QED BY <1>3, <1>4, <1>6 DEF TrafficInv

\* Every step keeps the balance.
LEMMA StepTraffic ==
  ASSUME IndInv, ReportOnly, TrafficInv, [Next]_vars
  PROVE  TrafficInv'
<1>1. CASE ConnStep
  BY <1>1, QuietConnTraffic, MatchTraffic, MoveTraffic, CountTraffic DEF ConnStep
<1>2. CASE SyncStep BY <1>2, UpdateNodeTraffic, QuietTraffic DEF SyncStep
<1>3. CASE PushStep
  BY <1>3, SnapshotTraffic, ReportTraffic, RestoreTrafficKeeps, QuietTraffic DEF PushStep
<1>4. CASE LoseInbound \/ AliveExpire \/ DeleteNode \/ UNCHANGED vars BY <1>4, QuietTraffic
<1> QED BY <1>1, <1>2, <1>3, <1>4 DEF Next

\* A report holds amounts only until it is answered or restored.
LEMMA StepReportOnly ==
  ASSUME TypeOK, ReportOnly, [Next]_vars
  PROVE  ReportOnly'
<1> USE DEF nodeVars, userVars, objVars, snapVars, pushVars
<1>1. CASE UNCHANGED <<step, traffic>> BY <1>1 DEF ReportOnly
<1>2. CASE step' \in {"report", "restoreTraffic"} BY <1>2 DEF ReportOnly
<1>3. CASE step \notin {"report", "restoreTraffic"} /\ traffic' = traffic
  BY <1>3 DEF ReportOnly
<1>4. CASE traffic' = Zero BY <1>4 DEF ReportOnly, Zero
<1>5. CASE ConnStep
  BY <1>1, <1>5 DEF ConnStep, Match, Blocked, MarkOnline, TrackConn, ConnMove, ConnCount,
     ConnClose
<1>6. CASE SyncStep \/ LoseInbound
  BY <1>1, <1>6 DEF SyncStep, UpdateNode, UpdateAliveList, LoseInbound
<1>7. CASE SnapshotBegin \/ SnapshotPending \/ SnapshotPrune \/ SnapshotCounter
  BY <1>3, <1>7 DEF SnapshotBegin, SnapshotPending, SnapshotPrune, SnapshotCounter
<1>8. CASE SnapshotEnd \/ ReportTrafficOK \/ ReportTrafficFail
  BY <1>2, <1>4, <1>8 DEF SnapshotEnd, ReportTrafficOK, ReportTrafficFail
<1>9. CASE RestoreTraffic \/ RestoreTrafficEnd
  BY <1>2, <1>4, <1>9 DEF RestoreTraffic, RestoreTrafficEnd
<1>10. CASE ReportAlive \/ RestoreAlive \/ DeleteNode
  BY <1>3, <1>10 DEF ReportAlive, RestoreAlive, DeleteNode
<1>11. CASE AliveExpire \/ UNCHANGED vars BY <1>1, <1>11 DEF AliveExpire, vars
<1> QED BY <1>5, <1>6, <1>7, <1>8, <1>9, <1>10, <1>11 DEF Next, PushStep

\* For any number of users, keys, connections and counters, no unit of traffic is
\* created or destroyed: the counting goroutines, the swaps of snapshot, the
\* pruning, updateUsers, a failed report and restoreTraffic only move it.
THEOREM NoTrafficLost == Spec => []TrafficConserved
<1>1. Init => ReportOnly
  <2> SUFFICES ASSUME Init, NEW u \in Uids PROVE traffic[u] = 0 BY DEF ReportOnly
  <2> QED BY DEF Init, Zero
<1>2. IndInv /\ ReportOnly /\ [Next]_vars => ReportOnly' BY StepReportOnly DEF IndInv
<1>3. IndInv /\ ReportOnly /\ TrafficInv /\ [Next]_vars => TrafficInv' BY StepTraffic
<1>4. TrafficInv => TrafficConserved BY DEF TrafficInv
<1> QED BY <1>1, <1>2, <1>3, <1>4, InitTraffic, IndInvHolds, PTL DEF Spec

=============================================================================

--------------------------- MODULE FakeIP_proofs ----------------------------
(***************************************************************************)
(* Inverse, Rotates and SavedOnClose for every number of queries, domains, *)
(* flushes, starts and crashes and every set of configurations, and        *)
(* InRange when the configuration does not change.                         *)
(***************************************************************************)
EXTENDS FakeIP, TLAPS

\* First-order leaves go to Zenon; a leaf that needs arithmetic or records says SMT.
USE Zenon

\* At most one call of Create is past the mutex.
OneAllocates ==
    \A p, q \in Queries : query[p].pc \in {"store", "save"}
                             /\ query[q].pc \in {"store", "save"} => p = q

\* The domain a call is about to store has no address yet.
StoresFresh ==
    Open => \A q \in Queries :
        query[q].pc = "store" => domain[query[q].f][query[q].d] = NoAddr

\* No call of Create runs before the store has started.
StartsAlone ==
    phase \in {"down", "reset"} => \A q \in Queries : query[q] = Idle

IInv == TypeOK /\ OneAllocates /\ StoresFresh /\ StartsAlone /\ Inverse

LEMMA RangeFacts ==
    ASSUME NEW c \in Configs, NEW f \in Families, c[f] # NoRange
    PROVE  /\ c[f].lo \in Int /\ c[f].hi \in Int
           /\ c[f].addr \in c[f].lo .. c[f].hi
           /\ c[f].lo .. c[f].hi \subseteq Space
           /\ c[f].addr + 1 \in Space
           /\ c[f].addr + 2 \in Space
  BY FakeIPAssumption

\* Where the rotation goes next is an address.
LEMMA NextAddressType ==
    ASSUME NEW c \in Configs, NEW f \in Families, c[f] # NoRange,
           NEW n \in Space
    PROVE  NextAddress(c[f], n) \in Space
  BY RangeFacts, FakeIPAssumption DEF NextAddress

\* ... and one of the range, if the range has an address to give out.
LEMMA NextAddressInRange ==
    ASSUME NEW r, r.lo \in Int, r.hi \in Int, r.addr \in r.lo .. r.hi,
           r.addr + 2 <= r.hi, NEW n \in Int
    PROVE  NextAddress(r, n) \in r.lo .. r.hi
  BY SMT DEF NextAddress

LEMMA FirstType ==
    ASSUME NEW c \in Configs
    PROVE  First(c) \in Currents(c)
  BY RangeFacts DEF First, Currents

LEMMA InitIInv == Init => IInv
  <1>1. SUFFICES ASSUME Init PROVE IInv
    OBVIOUS
  <1>2. TypeOK
    BY <1>1, FirstType DEF Init, TypeOK, Calls, Flushes, Idle, EmptyAddress, EmptyDomain
  <1>3. OneAllocates /\ StoresFresh /\ StartsAlone
    BY <1>1 DEF Init, OneAllocates, StoresFresh, StartsAlone, Idle
  <1>4. Inverse
    BY <1>1, FakeIPAssumption DEF Init, Inverse, EmptyAddress, EmptyDomain
  <1> QED
    BY <1>2, <1>3, <1>4 DEF IInv

\* The position in memory is one that may be saved.
LEMMA PositionType == TypeOK => Position \in Positions
  BY DEF TypeOK, Position, Positions, Currents

\* What ends a process leaves its variables well typed.
LEMMA ExitType ==
    ASSUME TypeOK, Exit
    PROVE  /\ phase' = "down"
           /\ query' \in [Queries -> [pc : {"idle"}]]
           /\ saveMetadata' = NoMeta /\ saveMetadataSeq' \in Nat /\ timer' \in BOOLEAN
           /\ flusher' \in [Flushers -> [pc : {"idle", "fired"}]]
           /\ closing' = NoMeta
  BY DEF TypeOK, Exit, Idle

LEMMA ResetType ==
    ASSUME TypeOK, FakeIPReset \/ Wipe
    PROVE  /\ address' \in [Families -> [Space -> Domains \cup {NoDomain}]]
           /\ domain' \in [Families -> [Domains -> Space \cup {NoAddr}]]
           /\ bucket' \subseteq Buckets
           /\ meta' \in Positions \cup {NoMeta}
  <1>1. CASE Wipe
    BY <1>1 DEF Wipe, EmptyAddress, EmptyDomain
  <1>2. CASE UNCHANGED <<table, meta, recent>>
    BY <1>2 DEF TypeOK, table
  <1> QED
    BY <1>1, <1>2 DEF FakeIPReset

LEMMA CreateType == ASSUME TypeOK, NEW q \in Queries, Create(q) PROVE TypeOK'
  <1>1. ASSUME NEW f \in Families, NEW d \in Domains, Ask(q, f, d) PROVE TypeOK'
    BY <1>1 DEF TypeOK, Ask, Calls, pending, table
  <1>2. CASE AlreadyCreated(q)
    BY <1>2 DEF TypeOK, AlreadyCreated, Calls, Idle, pending, table
  <1>3. CASE Allocate(q)
    <2> DEFINE f == query[q].f
               d == query[q].d
               n == NextAddress(range[f], current[f])
    <2>1. f \in Families /\ d \in Domains /\ range[f] # NoRange
      BY <1>3 DEF TypeOK, Allocate, Calls
    <2>2. current[f] \in Space
      BY <2>1 DEF TypeOK, Currents
    <2>3. n \in Space
      BY <2>1, <2>2, NextAddressType DEF TypeOK
    <2>4. /\ current' = [current EXCEPT ![f] = n]
          /\ query' = [query EXCEPT ![q] = [pc |-> "store", f |-> f, d |-> d, n |-> n]]
          /\ UNCHANGED <<phase, range, pending, flusher, closing, table, meta>>
      BY <1>3 DEF Allocate
    <2> HIDE DEF f, d, n
    <2>5. current' \in Currents(range)
      BY <2>1, <2>3, <2>4 DEF TypeOK, Currents
    <2>6. query' \in [Queries -> Calls]
      BY <2>1, <2>3, <2>4 DEF TypeOK, Calls
    <2> QED
      BY <2>4, <2>5, <2>6 DEF TypeOK, Calls, pending, table
  <1>4. CASE StoreAddress(q)
    <2> DEFINE f == query[q].f
               d == query[q].d
               n == query[q].n
    <2>1. f \in Families /\ d \in Domains /\ n \in Space
      BY <1>4 DEF TypeOK, StoreAddress, Calls
    <2>2. Store(f, n, d) \/ UNCHANGED table
      BY <1>4 DEF StoreAddress
    <2> HIDE DEF f, d, n
    <2>3. /\ address' \in [Families -> [Space -> Domains \cup {NoDomain}]]
          /\ domain' \in [Families -> [Domains -> Space \cup {NoAddr}]]
          /\ bucket' \subseteq Buckets
      <3>1. CASE UNCHANGED table
        BY <3>1 DEF TypeOK, table
      <3>2. CASE Store(f, n, d)
        <4>1. address' \in [Families -> [Space -> Domains \cup {NoDomain}]]
          BY <2>1, <3>2 DEF TypeOK, Store
        <4>2. \A e \in Domains : domain'[f][e] \in Space \cup {NoAddr}
          BY <2>1, <3>2, SMT DEF TypeOK, Store
        <4>3. domain' \in [Families -> [Domains -> Space \cup {NoAddr}]]
          BY <2>1, <3>2 DEF TypeOK, Store
        <4>4. bucket' \subseteq Buckets
          BY <2>1, <3>2 DEF TypeOK, Store, Buckets
        <4> QED
          BY <4>1, <4>3, <4>4
      <3> QED
        BY <2>2, <3>1, <3>2
    <2>4. query' \in [Queries -> Calls]
      BY <1>4 DEF TypeOK, StoreAddress, Calls
    <2> QED
      BY <1>4, <2>3, <2>4 DEF TypeOK, StoreAddress, Calls, pending
  <1>5. CASE SaveMetadataAsync(q)
    <2>1. query' \in [Queries -> Calls]
      BY <1>5 DEF TypeOK, SaveMetadataAsync, Calls, Idle
    <2>2. /\ saveMetadata' \in Positions \cup {NoMeta}
          /\ saveMetadataSeq' \in Nat /\ timer' \in BOOLEAN
      <3>1. CASE Open
        BY <1>5, <3>1, PositionType, SMT DEF TypeOK, SaveMetadataAsync
      <3>2. CASE ~Open
        BY <1>5, <3>2 DEF TypeOK, SaveMetadataAsync, pending
      <3> QED
        BY <3>1, <3>2
    <2> QED
      BY <1>5, <2>1, <2>2 DEF TypeOK, SaveMetadataAsync, Calls, table
  <1> QED
    BY <1>1, <1>2, <1>3, <1>4, <1>5 DEF Create

LEMMA CallsSame == ASSUME UNCHANGED range PROVE Calls' = Calls
  BY DEF Calls

LEMMA FlushType == ASSUME TypeOK, NEW w \in Flushers, FlushMetadata(w) PROVE TypeOK'
  <1> DEFINE Running == [pc : {"check", "commit", "clear"}, meta : Positions, seq : Nat]
  <1>1. CASE Fire(w)
    <2>1. flusher' \in [Flushers -> Flushes]
      BY <1>1 DEF Fire, TypeOK, Flushes
    <2> QED
      BY <1>1, <2>1, CallsSame DEF Fire, TypeOK, store, table
  <1>2. CASE FlushRefused(w)
    <2>1. flusher' \in [Flushers -> Flushes]
      BY <1>2 DEF FlushRefused, TypeOK, Flushes, Idle
    <2> QED
      BY <1>2, <2>1, CallsSame DEF FlushRefused, TypeOK, store, table
  <1>3. CASE FlushRead(w)
    <2>1. flusher' \in [Flushers -> Flushes]
      BY <1>3 DEF FlushRead, TypeOK, Flushes, Idle
    <2> QED
      BY <1>3, <2>1, CallsSame DEF FlushRead, TypeOK, store, pending, table
  <1>4. CASE FlushCheck(w)
    <2>1. flusher[w] \in Running
      BY <1>4 DEF FlushCheck, TypeOK, Flushes
    <2>2. [flusher[w] EXCEPT !.pc = "commit"] \in Running
      BY <2>1
    <2>3. flusher' \in [Flushers -> Flushes]
      BY <1>4, <2>2 DEF FlushCheck, TypeOK, Flushes, Idle
    <2> QED
      BY <1>4, <2>3, CallsSame DEF FlushCheck, TypeOK, store, pending, table
  <1>5. CASE FlushCommit(w)
    <2>1. flusher[w] \in Running
      BY <1>5 DEF FlushCommit, TypeOK, Flushes
    <2>2. [flusher[w] EXCEPT !.pc = "clear"] \in Running
      BY <2>1
    <2>3. flusher' \in [Flushers -> Flushes]
      BY <1>5, <2>2 DEF FlushCommit, TypeOK, Flushes
    <2>4. meta' \in Positions \cup {NoMeta} /\ bucket' \subseteq Buckets
      BY <1>5, <2>1 DEF FlushCommit, WriteMeta, TypeOK, Buckets
    <2> QED
      BY <1>5, <2>3, <2>4, CallsSame DEF FlushCommit, TypeOK, store, pending
  <1>6. CASE FlushClear(w)
    <2>1. flusher' \in [Flushers -> Flushes]
      BY <1>6 DEF FlushClear, TypeOK, Flushes, Idle
    <2> QED
      BY <1>6, <2>1, CallsSame DEF FlushClear, TypeOK, store, table
  <1> QED
    BY <1>1, <1>2, <1>3, <1>4, <1>5, <1>6 DEF FlushMetadata

LEMMA CloseType == ASSUME TypeOK, Close PROVE TypeOK'
  <1> USE DEF TypeOK, Calls, store, pending, table
  <1>1. CASE CloseStore
    BY <1>1, PositionType DEF CloseStore
  <1>2. CASE SaveMetadata
    <2>1. saveMetadata' = NoMeta /\ saveMetadataSeq' \in Nat
      BY <1>2, SMTT(60) DEF SaveMetadata
    <2>2. timer' \in BOOLEAN
      BY <1>2 DEF SaveMetadata
    <2> QED
      BY <1>2, <2>1, <2>2 DEF SaveMetadata
  <1>3. CASE SaveMetadataWrite
    BY <1>3 DEF SaveMetadataWrite, WriteMeta, Buckets
  <1>4. CASE CloseCache
    BY <1>4 DEF CloseCache
  <1>5. CASE StopTimer
    <2>1. saveMetadata' = NoMeta /\ saveMetadataSeq' \in Nat
      BY <1>5, SMT DEF StopTimer
    <2>2. timer' \in BOOLEAN
      BY <1>5 DEF StopTimer
    <2> QED
      BY <1>5, <2>1, <2>2 DEF StopTimer
  <1>6. CASE FinishClose
    <2>1. /\ meta' \in {meta, closing}
          /\ bucket' \in {bucket, bucket \cup {"address"}}
      BY <1>6 DEF FinishClose, WriteMeta
    <2>3. meta' \in Positions \cup {NoMeta} /\ bucket' \subseteq Buckets
      BY <2>1 DEF Buckets
    <2>2. query' \in [Queries -> Calls'] /\ flusher' \in [Flushers -> Flushes]
      BY <1>6, ExitType, SMT DEF FinishClose, Flushes
    <2> QED
      BY <1>6, <2>2, <2>3, ExitType DEF FinishClose
  <1> QED
    BY <1>1, <1>2, <1>3, <1>4, <1>5, <1>6 DEF Close

LEMMA TypeStep == TypeOK /\ StartsAlone /\ [Next]_vars => TypeOK'
  <1> SUFFICES ASSUME TypeOK, StartsAlone, [Next]_vars PROVE TypeOK'
    OBVIOUS
  <1>1. CASE Flush \/ ResetDB
    BY <1>1, ResetType DEF Flush, ResetDB, TypeOK, Calls, store, pending
  <1>2. CASE Crash
    BY <1>2, ExitType, SMT DEF Crash, TypeOK, Calls, Flushes, table
  <1>3. ASSUME NEW c \in Configs, Start(c) PROVE TypeOK'
    <2>1. current' \in Currents(c)
      <3>1. CASE Continues(c)
        <4>1. meta \in Positions /\ meta.range = c /\ current' = meta.current
          BY <1>3, <3>1 DEF Start, Continues, TypeOK
        <4> QED
          BY <4>1 DEF Positions
      <3>2. CASE ~Continues(c)
        BY <1>3, <3>2, FirstType DEF Start
      <3> QED
        BY <3>1, <3>2
    <2>2. query' \in [Queries -> [pc : {"idle"}]]
      BY <1>3, SMT DEF Start, StartsAlone, TypeOK, Idle
    <2> QED
      BY <1>3, <2>1, <2>2 DEF Start, TypeOK, Calls, pending, table
  <1>4. CASE StartReset
    BY <1>4, ResetType DEF StartReset, TypeOK, Calls, store, pending
  <1>5. CASE UNCHANGED vars
    BY <1>5 DEF vars, TypeOK, Calls, store, pending, table
  <1> QED
    BY <1>1, <1>2, <1>3, <1>4, <1>5, CreateType, FlushType, CloseType DEF Next

\* What the steps other than those of Create do to the calls, the phase and the
\* mappings.
Elsewhere ==
    /\ query' = query
    /\ \/ UNCHANGED <<address, domain>>
       \/ address' = EmptyAddress /\ domain' = EmptyDomain
    /\ phase' \in {"down", "reset"} => phase \in {"down", "reset"}
    /\ phase # "down" => Open \/ ~Open'

LEMMA FlushElsewhere == ASSUME NEW w \in Flushers, FlushMetadata(w) PROVE Elsewhere
  <1> SUFFICES UNCHANGED <<query, phase, address, domain>>
    BY DEF Elsewhere, Open
  <1>1. CASE Fire(w)
    BY <1>1 DEF Fire, store, table
  <1>2. CASE FlushRefused(w)
    BY <1>2 DEF FlushRefused, store, table
  <1>3. CASE FlushRead(w)
    BY <1>3 DEF FlushRead, store, table
  <1>4. CASE FlushCheck(w)
    BY <1>4 DEF FlushCheck, store, table
  <1>5. CASE FlushCommit(w)
    BY <1>5 DEF FlushCommit, store
  <1>6. CASE FlushClear(w)
    BY <1>6 DEF FlushClear, store, table
  <1> QED
    BY <1>1, <1>2, <1>3, <1>4, <1>5, <1>6 DEF FlushMetadata

LEMMA CloseElsewhere ==
    ASSUME Close
    PROVE  Elsewhere \/ (Exit /\ UNCHANGED <<address, domain>>)
  <1>1. CASE CloseStore
    BY <1>1 DEF CloseStore, Elsewhere, Open, store, table
  <1>2. CASE SaveMetadata
    BY <1>2 DEF SaveMetadata, Elsewhere, Open, store, table
  <1>3. CASE SaveMetadataWrite
    BY <1>3 DEF SaveMetadataWrite, Elsewhere, Open, store
  <1>4. CASE CloseCache
    BY <1>4 DEF CloseCache, Elsewhere, Open, store, table
  <1>5. CASE StopTimer
    BY <1>5 DEF StopTimer, Elsewhere, Open, store, table
  <1>6. CASE FinishClose
    BY <1>6 DEF FinishClose
  <1> QED
    BY <1>1, <1>2, <1>3, <1>4, <1>5, <1>6 DEF Close

LEMMA StepKinds ==
    ASSUME [Next]_vars
    PROVE  \/ \E q \in Queries : Create(q)
           \/ Exit /\ UNCHANGED <<address, domain>>
           \/ Elsewhere
  <1>1. CASE Flush
    BY <1>1 DEF Flush, FakeIPReset, Wipe, Elsewhere, Open, store, table
  <1>2. CASE ResetDB
    BY <1>2 DEF ResetDB, Wipe, Elsewhere, Open, store
  <1>3. CASE Crash
    BY <1>3 DEF Crash, table
  <1>4. ASSUME NEW c \in Configs, Start(c) PROVE Elsewhere
    BY <1>4 DEF Start, Elsewhere, table
  <1>5. CASE StartReset
    BY <1>5 DEF StartReset, FakeIPReset, Wipe, Elsewhere, Open, store, table
  <1>6. CASE UNCHANGED vars
    BY <1>6 DEF vars, Elsewhere, Open, store, table
  <1> QED
    BY <1>1, <1>2, <1>3, <1>4, <1>5, <1>6, FlushElsewhere, CloseElsewhere DEF Next

\* What a step of Create does: it changes one call, comes to store a mapping by
\* allocating under the mutex, and changes the mappings by storing it.
LEMMA CreateKinds ==
    ASSUME TypeOK, StartsAlone, NEW q \in Queries, Create(q)
    PROVE  /\ phase' = phase /\ phase \notin {"down", "reset"}
           /\ \A p \in Queries \ {q} : query'[p] = query[p]
           /\ \/ query'[q].pc \in {"idle", "lock"}
              \/ Allocate(q)
              \/ query[q].pc = "store" /\ query'[q].pc = "save"
           /\ UNCHANGED <<address, domain>> \/ (StoreAddress(q) /\ Open)
  <1>1. ASSUME NEW f \in Families, NEW d \in Domains, Ask(q, f, d)
        PROVE  /\ phase' = phase /\ phase \notin {"down", "reset"}
               /\ \A p \in Queries \ {q} : query'[p] = query[p]
               /\ query'[q].pc = "lock"
               /\ UNCHANGED <<address, domain>>
    BY <1>1 DEF Ask, Serving, TypeOK, table
  <1>2. query[q].pc # "idle" => phase \notin {"down", "reset"}
    BY SMT DEF StartsAlone, Idle
  <1>3. CASE AlreadyCreated(q)
    BY <1>2, <1>3 DEF AlreadyCreated, TypeOK, table, Idle
  <1>4. CASE Allocate(q)
    BY <1>2, <1>4 DEF Allocate, TypeOK, table
  <1>5. CASE StoreAddress(q)
    BY <1>2, <1>5 DEF StoreAddress, TypeOK, table
  <1>6. CASE SaveMetadataAsync(q)
    BY <1>2, <1>6 DEF SaveMetadataAsync, TypeOK, table, Idle
  <1> QED
    BY <1>1, <1>3, <1>4, <1>5, <1>6 DEF Create

LEMMA OneAllocatesStep ==
    ASSUME TypeOK, OneAllocates, StartsAlone, [Next]_vars
    PROVE  OneAllocates' /\ StartsAlone'
  <1>1. CASE Elsewhere
    BY <1>1 DEF Elsewhere, OneAllocates, StartsAlone
  <1>2. CASE Exit
    BY <1>2 DEF Exit, OneAllocates, StartsAlone, Idle
  <1>3. ASSUME NEW q \in Queries, Create(q) PROVE OneAllocates' /\ StartsAlone'
    <2>1. Allocate(q) => AddressAccessFree
      BY DEF Allocate
    <2> QED
      BY <1>3, <2>1, CreateKinds, SMT
         DEF OneAllocates, StartsAlone, AddressAccessFree
  <1> QED
    BY <1>1, <1>2, <1>3, StepKinds

\* Every step but StoreAddress leaves the mappings alone or wipes them all.
LEMMA TableChanges ==
    ASSUME TypeOK, StartsAlone, [Next]_vars
    PROVE  \/ UNCHANGED <<address, domain>>
           \/ address' = EmptyAddress /\ domain' = EmptyDomain
           \/ \E q \in Queries : StoreAddress(q) /\ Open
  BY StepKinds, CreateKinds DEF Elsewhere

\* A call comes to store by allocating.
LEMMA QueryChanges ==
    ASSUME TypeOK, StartsAlone, [Next]_vars, NEW q \in Queries,
           query'[q].pc = "store"
    PROVE  query'[q] = query[q] \/ Allocate(q)
  <1>1. CASE Elsewhere
    BY <1>1 DEF Elsewhere
  <1>2. CASE Exit
    BY <1>2 DEF Exit, Idle
  <1>3. ASSUME NEW p \in Queries, Create(p) PROVE query'[q] = query[q] \/ Allocate(q)
    BY <1>3, CreateKinds
  <1> QED
    BY <1>1, <1>2, <1>3, StepKinds

\* The database opens only in Start, when no call of Create runs.
LEMMA OpenChanges ==
    ASSUME TypeOK, StartsAlone, [Next]_vars, Open', ~Open
    PROVE  phase = "down" /\ query' = query
  <1>1. CASE Exit
    BY <1>1 DEF Exit, Open
  <1>2. ASSUME NEW q \in Queries, Create(q) PROVE FALSE
    <2>1. phase' = phase
      BY <1>2, CreateKinds
    <2> QED
      BY <2>1 DEF Open
  <1> QED
    BY <1>1, <1>2, StepKinds DEF Elsewhere

LEMMA StoresFreshStep ==
    ASSUME TypeOK, OneAllocates, StoresFresh, StartsAlone, [Next]_vars
    PROVE  StoresFresh'
  <1> SUFFICES ASSUME Open', NEW q \in Queries, query'[q].pc = "store"
               PROVE  domain'[query'[q].f][query'[q].d] = NoAddr
    BY DEF StoresFresh
  <1>1. Open
    BY OpenChanges, SMT DEF StartsAlone, Idle
  <1>2. CASE Allocate(q)
    <2>1. /\ query[q].f \in Families /\ query[q].d \in Domains
          /\ query'[q].f = query[q].f /\ query'[q].d = query[q].d
          /\ domain[query[q].f][query[q].d] = NoAddr
          /\ domain' = domain
      BY <1>1, <1>2 DEF Allocate, TypeOK, Calls, Loaded, table
    <2> QED
      BY <2>1
  <1>3. CASE query'[q] = query[q]
    <2>1. /\ domain[query[q].f][query[q].d] = NoAddr
          /\ query[q].f \in Families /\ query[q].d \in Domains
      BY <1>1, <1>3 DEF StoresFresh, TypeOK, Calls
    <2>2. CASE domain' = EmptyDomain
      BY <1>3, <2>1, <2>2 DEF EmptyDomain
    <2>3. ASSUME NEW p \in Queries, StoreAddress(p) PROVE FALSE
      <3>1. p = q
        BY <1>3, <2>3 DEF StoreAddress, OneAllocates
      <3> QED
        BY <1>3, <2>3, <3>1 DEF StoreAddress, TypeOK
    <2> QED
      BY <1>3, <2>1, <2>2, <2>3, TableChanges
  <1> QED
    BY <1>2, <1>3, QueryChanges

LEMMA InverseStep ==
    ASSUME TypeOK, StartsAlone, StoresFresh, Inverse, [Next]_vars
    PROVE  Inverse'
  <1>1. CASE UNCHANGED <<address, domain>>
    <2>1. address' = address /\ domain' = domain
      BY <1>1
    <2> SUFFICES ASSUME NEW f \in Families, NEW d \in Domains, NEW n \in Space
                 PROVE  domain'[f][d] = n <=> address'[f][n] = d
      BY DEF Inverse
    <2>2. domain[f][d] = n <=> address[f][n] = d
      BY DEF Inverse
    <2> QED
      BY <2>1, <2>2
  <1>2. CASE address' = EmptyAddress /\ domain' = EmptyDomain
    BY <1>2, FakeIPAssumption DEF Inverse, EmptyAddress, EmptyDomain
  <1>3. ASSUME NEW q \in Queries, StoreAddress(q), Open PROVE Inverse'
    <2> DEFINE f == query[q].f
               d == query[q].d
               n == query[q].n
    <2>1. f \in Families /\ d \in Domains /\ n \in Space
      BY <1>3 DEF TypeOK, StoreAddress, Calls
    <2>2. Store(f, n, d)
      BY <1>3 DEF StoreAddress
    <2>3. domain[f][d] = NoAddr
      BY <1>3 DEF StoresFresh, StoreAddress
    <2> HIDE DEF f, d, n
    <2>4. SUFFICES ASSUME NEW g \in Families, NEW e \in Domains, NEW m \in Space
                   PROVE  domain'[g][e] = m <=> address'[g][m] = e
      BY DEF Inverse
    <2>5. domain[g][e] = m <=> address[g][m] = e
      BY DEF Inverse
    <2>6. CASE g # f
      BY <2>1, <2>2, <2>5, <2>6 DEF Store, TypeOK
    <2>7. CASE g = f
      <3>1. domain'[f][e] = IF e = d THEN n
                            ELSE IF e = address[f][n] THEN NoAddr ELSE domain[f][e]
        BY <2>1, <2>2 DEF Store, TypeOK
      <3>2. address'[f][m] = IF m = n THEN d ELSE address[f][m]
        BY <2>1, <2>2 DEF Store, TypeOK
      <3>3. domain[f][e] = n <=> address[f][n] = e
        BY <2>1, SMT DEF Inverse
      <3> QED
        BY <2>1, <2>3, <2>5, <2>7, <3>1, <3>2, <3>3, FakeIPAssumption
    <2> QED
      BY <2>6, <2>7
  <1> QED
    BY <1>1, <1>2, <1>3, TableChanges

\* With one configuration, what is allocated is in its range.
LEMMA InRangeStep ==
    ASSUME NEW c, Configs = {c},
           \A f \in Families : c[f] # NoRange => c[f].addr + 2 <= c[f].hi,
           TypeOK, TypeOK', StartsAlone, InRange, [Next]_vars
    PROVE  InRange'
  <1> DEFINE In(g, m) == c[g] # NoRange /\ m \in c[g].lo .. c[g].hi
  <1>1. range = c /\ range' = c /\ c \in Configs
    BY DEF TypeOK
  <1>2. /\ query \in [Queries -> Calls]
        /\ current \in Currents(c)
        /\ domain \in [Families -> [Domains -> Space \cup {NoAddr}]]
    BY <1>1 DEF TypeOK
  <1>3. ASSUME NEW q \in Queries, query'[q].pc = "store"
        PROVE  In(query'[q].f, query'[q].n)
    <2>1. CASE query'[q] = query[q]
      BY <1>1, <1>3, <2>1 DEF InRange, Answers
    <2>2. CASE Allocate(q)
      <3> DEFINE f == query[q].f
      <3>1. f \in Families /\ c[f] # NoRange
        BY <1>1, <1>2, <2>2 DEF Allocate, Calls
      <3>2. /\ query'[q].f = f
            /\ query'[q].n = NextAddress(c[f], current[f])
        BY <1>1, <1>2, <2>2 DEF Allocate
      <3> HIDE DEF f
      <3>3. current[f] \in Space
        BY <1>2, <3>1 DEF Currents
      <3>4. current[f] \in Int
        BY <3>3, FakeIPAssumption
      <3>5. /\ c[f].lo \in Int /\ c[f].hi \in Int
            /\ c[f].addr \in c[f].lo .. c[f].hi
            /\ c[f].addr + 2 <= c[f].hi
        BY <1>1, <3>1, RangeFacts
      <3>6. NextAddress(c[f], current[f]) \in c[f].lo .. c[f].hi
        BY <3>4, <3>5, NextAddressInRange
      <3> QED
        BY <3>1, <3>2, <3>6
    <2> QED
      BY <1>3, <2>1, <2>2, QueryChanges
  <1>4. ASSUME NEW f \in Families, NEW d \in Domains, domain'[f][d] # NoAddr
        PROVE  In(f, domain'[f][d])
    <2>1. CASE domain' = domain
      BY <1>1, <1>4, <2>1 DEF InRange, Answers
    <2>2. CASE domain' = EmptyDomain
      BY <1>4, <2>2 DEF EmptyDomain
    <2>3. ASSUME NEW q \in Queries, StoreAddress(q), Open
          PROVE  In(f, domain'[f][d])
      <3>1. /\ query[q].f \in Families
            /\ In(query[q].f, query[q].n)
            /\ Store(query[q].f, query[q].n, query[q].d)
        BY <1>1, <1>2, <2>3 DEF StoreAddress, InRange, Answers, Calls
      <3>2. \/ f = query[q].f /\ domain'[f][d] = query[q].n
            \/ domain'[f][d] = domain[f][d]
        BY <1>4, <1>2, <3>1 DEF Store
      <3> QED
        BY <1>1, <1>4, <3>1, <3>2 DEF InRange, Answers
    <2> QED
      BY <2>1, <2>2, <2>3, TableChanges
  <1> QED
    BY <1>1, <1>3, <1>4 DEF InRange, Answers

LEMMA IInvInvariant == Spec => []IInv
  <1>1. IInv /\ [Next]_vars => IInv'
    BY TypeStep, OneAllocatesStep, StoresFreshStep, InverseStep DEF IInv
  <1> QED
    BY <1>1, InitIInv, PTL DEF Spec

\* Every variable of the store and of the cache file keeps its type, for any
\* ranges, queries and starts.
THEOREM TypeCorrect == Spec => []TypeOK
  BY IInvInvariant, PTL DEF IInv

\* Create and Lookup agree for every number of queries, domains, addresses,
\* ranges, resets, closes and crashes.
THEOREM LookupInvertsCreate == Spec => []Inverse
  BY IInvInvariant, PTL DEF IInv

\* With one configuration whose ranges have an address to give out, every
\* address Create answers with is in its range.
THEOREM AnswersAreRecognised ==
    ASSUME NEW c, Configs = {c},
           \A f \in Families : c[f] # NoRange => c[f].addr + 2 <= c[f].hi
    PROVE  Spec => []InRange
  <1>1. Init => InRange
    <2> SUFFICES ASSUME Init PROVE InRange
      OBVIOUS
    <2>1. \A f \in Families, d \in Domains : domain[f][d] = NoAddr
      BY DEF Init, EmptyDomain
    <2>2. \A q \in Queries : query[q].pc = "idle"
      BY DEF Init, Idle
    <2> QED
      BY <2>1, <2>2 DEF InRange
  <1>2. IInv /\ IInv' /\ InRange /\ [Next]_vars => InRange'
    <2> SUFFICES ASSUME IInv, IInv', InRange, [Next]_vars PROVE InRange'
      OBVIOUS
    <2>1. TypeOK /\ TypeOK' /\ StartsAlone
      BY DEF IInv
    <2> QED
      BY <2>1, InRangeStep
  <1> QED
    BY <1>1, <1>2, IInvInvariant, PTL DEF Spec
-----------------------------------------------------------------------------
(***************************************************************************)
(* The position across a close: SavedOnClose and Rotates.                  *)
(***************************************************************************)

\* The close of the store has begun; its position has been written.
CloseBegun == phase \in {"copied", "saving", "stored", "closing", "draining"}
Saved == phase \in {"stored", "closing", "draining"}

\* A flush holds a number no later than the last one given out.
FlushesInOrder ==
    \A w \in Flushers :
        flusher[w].pc \in {"check", "commit", "clear"} => flusher[w].seq <= saveMetadataSeq

\* Nothing was allocated since the close began.
Undisturbed == CloseBegun /\ creates = oldest

\* ... no call holds the position, nothing waits to be written but what the
\* close holds, and a flush that still runs is out of date.
Quiet ==
    /\ AddressAccessFree
    /\ phase \in {"copied", "saving"} => closing = Position
    /\ phase # "copied" =>
          /\ saveMetadata = NoMeta
          /\ \A w \in Flushers :
                flusher[w].pc = "check" => flusher[w].seq # saveMetadataSeq
    /\ Saved => /\ closing = NoMeta
                /\ WriteFree
                /\ meta = Position \/ bucket = {}

Counted == creates \in Nat /\ oldest \in Nat /\ oldest <= creates
CloseInv == Counted /\ FlushesInOrder /\ (Undisturbed => Quiet)

\* What is remembered survives a close only with the position it ends at.
RecentInv ==
    /\ CloseBegun /\ recent # NothingRecent => creates = oldest
    /\ phase = "reset" => recent = NothingRecent
    /\ Saved \/ phase = "down" => recent = NothingRecent \/ meta = Position

\* The positions k that the rotation of the ranges c goes through.
PlacedAt(c, k) ==
    \A f \in Families :
        c[f] # NoRange /\ Usable(c[f]) > 0 => k[f] \in c[f].addr + 1 .. c[f].hi - 1
PlacedMeta(m) == m # NoMeta => PlacedAt(m.range, m.current)
Placed ==
    /\ PlacedAt(range, current)
    /\ PlacedMeta(saveMetadata) /\ PlacedMeta(closing) /\ PlacedMeta(meta)
    /\ \A w \in Flushers :
          flusher[w].pc \in {"check", "commit", "clear"} => PlacedMeta(flusher[w].meta)

\* s is a stretch of the rotation of the range r that ends at k: two addresses
\* of it are as far apart as their places, or one turn less.
Stretch(r, s, k) ==
    /\ Len(s) <= Usable(r)
    /\ s[Len(s)] = k
    /\ \A i \in 1 .. Len(s) : s[i] \in r.addr + 2 .. r.hi - 1
    /\ \A i, j \in 1 .. Len(s) :
          i <= j => s[j] - s[i] = j - i \/ s[j] - s[i] = j - i - Usable(r)
RotInv ==
    /\ recent \in [Families -> Seq(Int)]
    /\ \A f \in Families :
          recent[f] # <<>> =>
              range[f] # NoRange /\ Stretch(range[f], recent[f], current[f])
Running == {"check", "commit", "clear"}

\* What a step of Create does to the position and to what is to be written.
LEMMA CallKinds ==
    ASSUME TypeOK, NEW q \in Queries, Create(q)
    PROVE  /\ UNCHANGED <<phase, range, flusher, closing, meta, oldest>>
           /\ \A p \in Queries \ {q} : query'[p] = query[p]
           /\ \/ /\ query[q].pc \in {"idle", "lock"} /\ query'[q].pc \in {"idle", "lock"}
                 /\ UNCHANGED <<current, pending, bucket, recent, creates>>
              \/ Allocate(q)
              \/ /\ query[q].pc = "store"
                 /\ UNCHANGED <<current, pending, recent, creates>>
              \/ /\ query[q].pc = "save"
                 /\ UNCHANGED <<current, bucket, recent, creates>>
                 /\ \/ UNCHANGED pending
                    \/ saveMetadata' = Position /\ saveMetadataSeq' = saveMetadataSeq + 1
  <1>1. ASSUME NEW f \in Families, NEW d \in Domains, Ask(q, f, d)
        PROVE  /\ UNCHANGED <<phase, range, flusher, closing, meta, oldest>>
               /\ \A p \in Queries \ {q} : query'[p] = query[p]
               /\ query[q].pc = "idle" /\ query'[q].pc = "lock"
               /\ UNCHANGED <<current, pending, bucket, recent, creates>>
    BY <1>1 DEF Ask, IdleQuery, TypeOK, table, history, bound
  <1>2. CASE AlreadyCreated(q)
    BY <1>2 DEF AlreadyCreated, TypeOK, Idle, table, history, bound
  <1>3. CASE Allocate(q)
    BY <1>3 DEF Allocate, TypeOK
  <1>4. CASE StoreAddress(q)
    BY <1>4 DEF StoreAddress, TypeOK, history, bound
  <1>5. CASE SaveMetadataAsync(q)
    BY <1>5 DEF SaveMetadataAsync, TypeOK, table, history, bound
  <1> QED
    BY <1>1, <1>2, <1>3, <1>4, <1>5 DEF Create

\* What a step of the timer's function does: it gives up or ends, reads what
\* waits, finds it up to date, or writes it.
LEMMA FlushKinds ==
    ASSUME TypeOK, NEW w \in Flushers, FlushMetadata(w)
    PROVE  /\ UNCHANGED <<phase, store, saveMetadataSeq, closing, history, creates>>
           /\ \A v \in Flushers \ {w} : flusher'[v] = flusher[v]
           /\ \/ /\ flusher'[w].pc \notin Running
                 /\ saveMetadata' \in {saveMetadata, NoMeta}
                 /\ UNCHANGED <<meta, bucket>>
              \/ /\ saveMetadata # NoMeta
                 /\ flusher'[w] = [pc |-> "check", meta |-> saveMetadata,
                                   seq |-> saveMetadataSeq]
                 /\ UNCHANGED <<saveMetadata, meta, bucket>>
              \/ /\ flusher[w].pc = "check" /\ flusher'[w].pc = "commit"
                 /\ flusher[w].seq = saveMetadataSeq
                 /\ flusher'[w].meta = flusher[w].meta
                 /\ flusher'[w].seq = flusher[w].seq
                 /\ UNCHANGED <<saveMetadata, meta, bucket>>
              \/ /\ flusher[w].pc = "commit" /\ flusher'[w].pc = "clear"
                 /\ flusher'[w].meta = flusher[w].meta
                 /\ flusher'[w].seq = flusher[w].seq
                 /\ meta' = meta \/ (Open /\ meta' = flusher[w].meta)
                 /\ UNCHANGED saveMetadata
  <1>0. flusher[w].pc \in Running =>
            flusher[w] \in [pc : {"check", "commit", "clear"}, meta : Positions, seq : Nat]
    BY DEF TypeOK, Flushes, Running
  <1>1. CASE Fire(w)
    BY <1>1 DEF Fire, TypeOK, Running, table, history, bound
  <1>2. CASE FlushRefused(w)
    BY <1>2 DEF FlushRefused, TypeOK, Running, Idle, table, history, bound
  <1>3. CASE FlushRead(w)
    BY <1>3 DEF FlushRead, TypeOK, Running, Idle, pending, table, history, bound
  <1>4. CASE FlushCheck(w)
    <2>1. /\ UNCHANGED <<phase, store, saveMetadata, saveMetadataSeq, closing,
                         meta, bucket, history, creates>>
          /\ \A v \in Flushers \ {w} : flusher'[v] = flusher[v]
          /\ flusher[w].pc = "check"
          /\ flusher'[w] = IF Superseded(w) THEN Idle
                                            ELSE [flusher[w] EXCEPT !.pc = "commit"]
      BY <1>4 DEF FlushCheck, TypeOK, pending, table, bound
    <2>2. CASE Superseded(w)
      <3>1. flusher'[w].pc = "idle"
        BY <2>1, <2>2, SMT DEF Idle
      <3> QED
        BY <2>1, <3>1 DEF Running
    <2>3. CASE ~Superseded(w)
      <3>1. /\ flusher'[w].pc = "commit"
            /\ flusher'[w].meta = flusher[w].meta
            /\ flusher'[w].seq = flusher[w].seq
        BY <1>0, <2>1, <2>3, SMT DEF Running
      <3> QED
        BY <2>1, <2>3, <3>1 DEF Superseded
    <2> QED
      BY <2>2, <2>3
  <1>5. CASE FlushCommit(w)
    <2>1. /\ UNCHANGED <<phase, store, saveMetadata, saveMetadataSeq, closing,
                         history, creates>>
          /\ \A v \in Flushers \ {w} : flusher'[v] = flusher[v]
          /\ flusher[w].pc = "commit"
          /\ flusher'[w] = [flusher[w] EXCEPT !.pc = "clear"]
          /\ meta' = meta \/ (Open /\ meta' = flusher[w].meta)
      BY <1>5 DEF FlushCommit, TypeOK, WriteMeta, pending, bound
    <2>2. /\ flusher'[w].pc = "clear"
          /\ flusher'[w].meta = flusher[w].meta
          /\ flusher'[w].seq = flusher[w].seq
      BY <1>0, <2>1, SMT DEF Running
    <2> QED
      BY <2>1, <2>2
  <1>6. CASE FlushClear(w)
    BY <1>6 DEF FlushClear, TypeOK, Running, Idle, table, history, bound
  <1> QED
    BY <1>1, <1>2, <1>3, <1>4, <1>5, <1>6 DEF FlushMetadata

\* What a reset does to the buckets, the saved position and what is remembered.
LEMMA ResetKinds ==
    ASSUME FakeIPReset \/ Wipe
    PROVE  \/ UNCHANGED <<bucket, meta, recent>>
           \/ bucket' = {} /\ meta' = NoMeta /\ recent' = NothingRecent
  BY DEF FakeIPReset, Wipe, table

LEMMA CountedStep ==
    ASSUME TypeOK, Counted, [Next]_vars
    PROVE  Counted'
  <1>1. \/ UNCHANGED <<creates, oldest>>
        \/ creates' = creates + 1 /\ oldest' = oldest
        \/ creates' = creates /\ oldest' = creates
    <2>1. ASSUME NEW q \in Queries, Create(q)
          PROVE  UNCHANGED <<creates, oldest>> \/ (creates' = creates + 1 /\ oldest' = oldest)
      BY <2>1, CallKinds DEF Allocate
    <2>2. ASSUME NEW w \in Flushers, FlushMetadata(w) PROVE UNCHANGED <<creates, oldest>>
      BY <2>2, FlushKinds DEF history
    <2>3. CASE Flush \/ ResetDB \/ Crash \/ StartReset \/ UNCHANGED vars
      BY <2>3 DEF Flush, ResetDB, Crash, StartReset, vars, history, bound
    <2>4. ASSUME NEW c \in Configs, Start(c) PROVE UNCHANGED <<creates, oldest>>
      BY <2>4 DEF Start
    <2>5. CASE CloseStore
      BY <2>5 DEF CloseStore, bound
    <2>6. CASE SaveMetadata \/ SaveMetadataWrite \/ CloseCache \/ StopTimer \/ FinishClose
      BY <2>6 DEF SaveMetadata, SaveMetadataWrite, CloseCache, StopTimer, FinishClose,
                  history, bound
    <2> QED
      BY <2>1, <2>2, <2>3, <2>4, <2>5, <2>6 DEF Next, Close
  <1> QED
    BY <1>1, SMT DEF Counted

LEMMA FlushesInOrderStep ==
    ASSUME TypeOK, FlushesInOrder, [Next]_vars
    PROVE  FlushesInOrder'
  <1> SUFFICES ASSUME NEW v \in Flushers, flusher'[v].pc \in Running
               PROVE  flusher'[v].seq <= saveMetadataSeq'
    BY DEF FlushesInOrder, Running
  <1>1. flusher[v].pc \in Running => flusher[v].seq \in Nat
    BY DEF TypeOK, Flushes, Running
  <1>2. flusher[v].pc \in Running => flusher[v].seq <= saveMetadataSeq
    BY DEF FlushesInOrder, Running
  <1>3. saveMetadataSeq \in Nat
    BY DEF TypeOK
  <1>4. CASE flusher' = flusher /\ saveMetadataSeq' \in {saveMetadataSeq, saveMetadataSeq + 1}
    BY <1>1, <1>2, <1>3, <1>4, SMT
  <1>5. ASSUME NEW q \in Queries, Create(q) PROVE flusher'[v].seq <= saveMetadataSeq'
    <2>1. flusher' = flusher /\ saveMetadataSeq' \in {saveMetadataSeq, saveMetadataSeq + 1}
      BY <1>5, CallKinds DEF Allocate, pending
    <2> QED
      BY <1>4, <2>1
  <1>6. ASSUME NEW w \in Flushers, FlushMetadata(w)
        PROVE  flusher'[v].seq <= saveMetadataSeq'
    <2>1. saveMetadataSeq' = saveMetadataSeq
      BY <1>6, FlushKinds
    <2>2. CASE v # w
      <3>1. flusher'[v] = flusher[v]
        BY <1>6, <2>2, FlushKinds
      <3> QED
        BY <1>2, <2>1, <3>1
    <2>3. CASE v = w
      <3>1. \/ flusher'[w].seq = saveMetadataSeq
            \/ flusher'[w].seq = flusher[w].seq /\ flusher[w].pc \in Running
        BY <1>6, <2>3, FlushKinds, SMT DEF Running
      <3> QED
        BY <1>2, <1>3, <2>1, <2>3, <3>1, SMT
    <2> QED
      BY <2>2, <2>3
  <1>7. CASE Exit
    BY <1>7 DEF Exit, Idle, Running
  <1>8. CASE Flush \/ ResetDB \/ StartReset \/ UNCHANGED vars
    BY <1>4, <1>8 DEF Flush, ResetDB, StartReset, vars, pending
  <1>9. ASSUME NEW c \in Configs, Start(c) PROVE flusher'[v].seq <= saveMetadataSeq'
    BY <1>4, <1>9 DEF Start, pending
  <1>10. CASE Close
    BY <1>4, <1>7, <1>10 DEF Close, CloseStore, SaveMetadata, SaveMetadataWrite,
                             CloseCache, StopTimer, FinishClose, pending
  <1> QED
    BY <1>5, <1>6, <1>7, <1>8, <1>9, <1>10 DEF Next, Crash

LEMMA PositionSame == ASSUME UNCHANGED <<range, current>> PROVE Position' = Position
  BY DEF Position

\* While nothing is allocated, a call of Create that runs waits for the mutex.
LEMMA QuietCreate ==
    ASSUME TypeOK, Counted, Undisturbed => Quiet, NEW q \in Queries, Create(q), Undisturbed'
    PROVE  Quiet'
  <1>1. ~Allocate(q)
    BY CallKinds, SMT DEF Allocate, Undisturbed, Counted
  <1>2. Undisturbed
    BY <1>1, CallKinds DEF Undisturbed, CloseBegun
  <1>3. Quiet
    BY <1>2
  <1>4. /\ query'[q].pc \in {"idle", "lock"}
        /\ UNCHANGED <<current, pending, bucket, phase, range, flusher, closing, meta>>
    BY <1>1, <1>3, CallKinds DEF Quiet, AddressAccessFree
  <1>5. AddressAccessFree'
    BY <1>3, <1>4, CallKinds DEF Quiet, AddressAccessFree
  <1>6. Position' = Position
    BY <1>4, PositionSame
  <1> QED
    BY <1>3, <1>4, <1>5, <1>6 DEF Quiet, Saved, WriteFree, pending

\* ... and a flush that still runs is dropped, or is waited for by the close.
LEMMA QuietFlush ==
    ASSUME TypeOK, Undisturbed => Quiet, NEW w \in Flushers, FlushMetadata(w), Undisturbed'
    PROVE  Quiet'
  <1>1. /\ UNCHANGED <<phase, query, range, current, saveMetadataSeq, closing, oldest,
                       creates>>
        /\ \A v \in Flushers \ {w} : flusher'[v] = flusher[v]
    BY FlushKinds DEF store, history
  <1>2. Quiet /\ Position' = Position
    BY <1>1, PositionSame DEF Undisturbed, CloseBegun
  <1>3. AddressAccessFree'
    BY <1>1, <1>2 DEF Quiet, AddressAccessFree
  <1>4. ASSUME phase # "copied"
        PROVE  /\ saveMetadata' = NoMeta
               /\ \A v \in Flushers :
                     flusher'[v].pc = "check" => flusher'[v].seq # saveMetadataSeq'
    <2>1. saveMetadata = NoMeta /\ saveMetadata' = NoMeta
      BY <1>2, <1>4, FlushKinds DEF Quiet
    <2>2. flusher'[w].pc # "check"
      BY <2>1, FlushKinds DEF Running
    <2> QED
      BY <1>1, <1>2, <1>4, <2>1, <2>2 DEF Quiet
  <1>5. ASSUME Saved
        PROVE  /\ closing' = NoMeta
               /\ WriteFree'
               /\ UNCHANGED <<meta, bucket>>
    <2>1. phase # "copied"
      BY <1>5 DEF Saved
    <2>2. /\ closing = NoMeta /\ WriteFree /\ saveMetadata = NoMeta
          /\ flusher[w].pc = "check" => flusher[w].seq # saveMetadataSeq
      BY <1>2, <1>5, <2>1 DEF Quiet
    <2>3. flusher[w].pc # "commit"
      BY <2>2 DEF WriteFree
    <2>4. flusher'[w].pc \notin Running /\ UNCHANGED <<meta, bucket>>
      BY <2>2, <2>3, FlushKinds
    <2>5. WriteFree'
      BY <1>1, <2>2, <2>4 DEF WriteFree, Running
    <2> QED
      BY <1>1, <2>2, <2>4, <2>5
  <1> QED
    BY <1>1, <1>2, <1>3, <1>4, <1>5 DEF Quiet, Saved

\* ... and each step of the close finds the position as it copied it.
LEMMA QuietClose ==
    ASSUME TypeOK, FlushesInOrder, Undisturbed => Quiet, Close, Undisturbed'
    PROVE  Quiet'
  <1>1. CASE CloseStore
    <2>1. /\ AddressAccessFree /\ query' = query
          /\ phase' = "copied" /\ closing' = Position
          /\ UNCHANGED <<range, current>>
      BY <1>1 DEF CloseStore, store
    <2> QED
      BY <2>1, PositionSame DEF Quiet, Saved, AddressAccessFree
  <1>2. CASE SaveMetadata
    <2>1. /\ phase = "copied" /\ phase' = "saving" /\ saveMetadata' = NoMeta
          /\ saveMetadataSeq' = saveMetadataSeq + 1
          /\ UNCHANGED <<query, range, current, flusher, closing, creates, oldest>>
      BY <1>2 DEF SaveMetadata, store, history, bound
    <2>2. Quiet /\ Position' = Position
      BY <2>1, PositionSame DEF Undisturbed, CloseBegun
    <2>3. \A w \in Flushers : flusher'[w].pc = "check" => flusher'[w].seq # saveMetadataSeq'
      BY <2>1, SMT DEF FlushesInOrder, TypeOK, Flushes
    <2> QED
      BY <2>1, <2>2, <2>3 DEF Quiet, Saved, AddressAccessFree
  <1>3. CASE SaveMetadataWrite
    <2>1. /\ phase = "saving" /\ phase' = "stored" /\ WriteFree
          /\ meta' = closing /\ closing' = NoMeta
          /\ UNCHANGED <<query, range, current, saveMetadata, saveMetadataSeq, flusher,
                         creates, oldest>>
      BY <1>3 DEF SaveMetadataWrite, WriteMeta, store, pending, history, bound
    <2>2. Quiet /\ Position' = Position
      BY <2>1, PositionSame DEF Undisturbed, CloseBegun
    <2> QED
      BY <2>1, <2>2 DEF Quiet, Saved, AddressAccessFree, WriteFree
  <1>4. CASE CloseCache
    <2>1. /\ phase = "stored" /\ phase' = "closing"
          /\ UNCHANGED <<query, range, current, saveMetadata, saveMetadataSeq, flusher,
                         closing, meta, bucket, creates, oldest>>
      BY <1>4 DEF CloseCache, store, pending, table, history, bound
    <2>2. Quiet /\ Position' = Position
      BY <2>1, PositionSame DEF Undisturbed, CloseBegun
    <2> QED
      BY <2>1, <2>2 DEF Quiet, Saved, AddressAccessFree, WriteFree
  <1>5. CASE StopTimer
    <2>1. /\ phase = "closing" /\ phase' = "draining" /\ saveMetadata' = NoMeta
          /\ closing' = saveMetadata
          /\ saveMetadataSeq' = saveMetadataSeq + 1
          /\ UNCHANGED <<query, range, current, flusher, meta, bucket, creates, oldest>>
      BY <1>5 DEF StopTimer, store, table, history, bound
    <2>2. Quiet /\ Position' = Position
      BY <2>1, PositionSame DEF Undisturbed, CloseBegun
    <2>3. \A w \in Flushers : flusher'[w].pc = "check" => flusher'[w].seq # saveMetadataSeq'
      BY <2>1, SMT DEF FlushesInOrder, TypeOK, Flushes
    <2> QED
      BY <2>1, <2>2, <2>3 DEF Quiet, Saved, AddressAccessFree, WriteFree
  <1>6. CASE FinishClose
    BY <1>6 DEF FinishClose, Exit, Undisturbed, CloseBegun
  <1> QED
    BY <1>1, <1>2, <1>3, <1>4, <1>5, <1>6 DEF Close

LEMMA QuietStep ==
    ASSUME TypeOK, CloseInv, [Next]_vars, Undisturbed'
    PROVE  Quiet'
  <1>1. Counted /\ FlushesInOrder /\ (Undisturbed => Quiet)
    BY DEF CloseInv
  <1>2. CASE Flush \/ ResetDB
    <2>1. /\ UNCHANGED <<phase, query, range, current, saveMetadata, saveMetadataSeq,
                         flusher, closing, oldest, creates>>
          /\ UNCHANGED <<meta, bucket>> \/ bucket' = {}
      BY <1>2, ResetKinds DEF Flush, ResetDB, store, pending
    <2>2. Quiet /\ Position' = Position
      BY <1>1, <2>1, PositionSame DEF Undisturbed, CloseBegun
    <2> QED
      BY <2>1, <2>2 DEF Quiet, Saved, AddressAccessFree, WriteFree
  <1>3. CASE Crash
    BY <1>3 DEF Crash, Exit, Undisturbed, CloseBegun
  <1>4. ASSUME NEW c \in Configs, Start(c) PROVE FALSE
    <2>1. phase' \in {"up", "reset"}
      BY <1>4 DEF Start
    <2> QED
      BY <2>1 DEF Undisturbed, CloseBegun
  <1>5. CASE StartReset
    BY <1>5 DEF StartReset, Undisturbed, CloseBegun
  <1>6. CASE UNCHANGED vars
    <2>1. UNCHANGED <<phase, query, range, current, saveMetadata, saveMetadataSeq,
                      flusher, closing, meta, bucket, oldest, creates>>
      BY <1>6 DEF vars, store, pending, table, history, bound
    <2>2. Quiet /\ Position' = Position
      BY <1>1, <2>1, PositionSame DEF Undisturbed, CloseBegun
    <2> QED
      BY <2>1, <2>2 DEF Quiet, Saved, AddressAccessFree, WriteFree
  <1> QED
    BY <1>1, <1>2, <1>3, <1>4, <1>5, <1>6, QuietCreate, QuietFlush, QuietClose DEF Next

LEMMA CloseInvInvariant == Spec => []CloseInv
  <1>1. Init => CloseInv
    <2> SUFFICES ASSUME Init PROVE CloseInv
      OBVIOUS
    <2>1. Counted
      BY SMT DEF Init, Counted
    <2>2. FlushesInOrder
      BY DEF Init, FlushesInOrder, Idle
    <2>3. ~Undisturbed
      BY DEF Init, Undisturbed, CloseBegun
    <2> QED
      BY <2>1, <2>2, <2>3 DEF CloseInv
  <1>2. IInv /\ CloseInv /\ [Next]_vars => CloseInv'
    BY CountedStep, FlushesInOrderStep, QuietStep DEF IInv, CloseInv
  <1> QED
    BY <1>1, <1>2, IInvInvariant, PTL DEF Spec

\* An orderly close during which nothing is allocated leaves the position in the
\* database, for every number of queries and of runs of the timer's function.
THEOREM CloseSavesPosition == Spec => SavedOnClose
  <1>1. CloseInv /\ [Next]_vars =>
            [FinishClose /\ creates = oldest => meta' = Position \/ bucket' = {}]_vars
    <2> SUFFICES ASSUME CloseInv, FinishClose, creates = oldest
                 PROVE  meta' = Position \/ bucket' = {}
      OBVIOUS
    <2>1. phase = "draining"
      BY DEF FinishClose
    <2>2. Undisturbed /\ Saved
      BY <2>1 DEF Undisturbed, CloseBegun, Saved
    <2>3. closing = NoMeta /\ (meta = Position \/ bucket = {})
      BY <2>2 DEF CloseInv, Quiet
    <2> QED
      BY <2>3 DEF FinishClose
  <1> QED
    BY <1>1, CloseInvInvariant, PTL DEF Spec, SavedOnClose

\* What is remembered changes by an allocation while the store runs, or it is
\* forgotten; a start keeps it only if it goes on from the same position.
LEMMA RecentStep ==
    ASSUME TypeOK, CloseInv, RecentInv, [Next]_vars
    PROVE  RecentInv'
  <1>0. /\ Undisturbed => Quiet
        /\ CloseBegun /\ recent # NothingRecent => creates = oldest
        /\ phase = "reset" => recent = NothingRecent
        /\ Saved \/ phase = "down" => recent = NothingRecent \/ meta = Position
    BY DEF CloseInv, RecentInv
  <1>1. CASE recent' = NothingRecent
    BY <1>1 DEF RecentInv
  <1>2. CASE /\ UNCHANGED <<phase, recent, creates, oldest, range, current>>
             /\ Saved \/ phase = "down" => recent = NothingRecent \/ meta' = meta
    <2>1. Position' = Position
      BY <1>2, PositionSame
    <2> QED
      BY <1>0, <1>2, <2>1 DEF RecentInv, CloseBegun, Saved
  <1>3. CASE phase' = "up"
    BY <1>3 DEF RecentInv, CloseBegun, Saved
  <1>4. ASSUME NEW q \in Queries, Create(q) PROVE RecentInv'
    <2>1. CASE Allocate(q)
      BY <1>1, <1>3, <2>1 DEF Allocate
    <2>2. CASE ~Allocate(q)
      BY <1>2, <1>4, <2>2, CallKinds
    <2> QED
      BY <2>1, <2>2
  <1>5. ASSUME NEW w \in Flushers, FlushMetadata(w) PROVE RecentInv'
    <2>1. UNCHANGED <<phase, recent, creates, oldest, range, current>>
      BY <1>5, FlushKinds DEF store, history
    <2>2. ASSUME phase = "down" PROVE meta' = meta
      BY <1>5, <2>2, FlushKinds DEF Open
    <2>3. ASSUME Saved, recent # NothingRecent PROVE meta' = meta
      <3>1. Undisturbed
        BY <1>0, <2>3 DEF Undisturbed, CloseBegun, Saved
      <3>2. flusher[w].pc # "commit"
        BY <1>0, <2>3, <3>1 DEF Quiet, WriteFree
      <3> QED
        BY <1>5, <3>2, FlushKinds
    <2> QED
      BY <1>2, <2>1, <2>2, <2>3
  <1>6. CASE Flush \/ ResetDB
    BY <1>1, <1>2, <1>6, ResetKinds DEF Flush, ResetDB, store
  <1>7. CASE StartReset
    BY <1>3, <1>7 DEF StartReset
  <1>8. CASE Crash
    BY <1>1, <1>8 DEF Crash
  <1>9. ASSUME NEW c \in Configs, Start(c) PROVE RecentInv'
    <2>1. CASE Continues(c)
      BY <1>3, <1>9, <2>1 DEF Start
    <2>2. CASE ~Continues(c)
      <3>1. meta = NoMeta \/ meta.range # c
        BY <2>2 DEF Continues
      <3>2. Position # NoMeta /\ Position.range = range
        BY PositionType, FakeIPAssumption DEF Position, Positions
      <3> QED
        BY <1>0, <1>1, <1>9, <3>1, <3>2 DEF Start
    <2> QED
      BY <2>1, <2>2
  <1>10. CASE CloseStore
    BY <1>10 DEF CloseStore, RecentInv, CloseBegun, Saved, bound
  <1>11. CASE SaveMetadata
    BY <1>0, <1>11 DEF SaveMetadata, RecentInv, CloseBegun, Saved, history, bound
  <1>12. CASE SaveMetadataWrite
    <2>1. /\ phase = "saving" /\ phase' = "stored" /\ meta' = closing
          /\ UNCHANGED <<range, current, recent, creates, oldest>>
      BY <1>12 DEF SaveMetadataWrite, WriteMeta, store, history, bound
    <2>2. recent # NothingRecent => closing = Position
      BY <1>0, <2>1 DEF Undisturbed, CloseBegun, Quiet
    <2> QED
      BY <1>0, <2>1, <2>2, PositionSame DEF RecentInv, CloseBegun, Saved
  <1>13. CASE CloseCache \/ StopTimer
    <2>1. /\ Saved /\ phase' \in {"closing", "draining"}
          /\ UNCHANGED <<range, current, recent, creates, oldest, meta>>
      BY <1>13 DEF CloseCache, StopTimer, Saved, store, history, bound
    <2>2. CloseBegun
      BY <2>1 DEF CloseBegun, Saved
    <2> QED
      BY <1>0, <2>1, <2>2, PositionSame DEF RecentInv
  <1>14. CASE FinishClose
    <2>1. /\ phase = "draining" /\ phase' = "down"
          /\ UNCHANGED <<range, current, recent>>
          /\ closing = NoMeta => meta' = meta
      BY <1>14 DEF FinishClose, Exit, history
    <2>2. recent # NothingRecent => closing = NoMeta
      BY <1>0, <2>1 DEF Undisturbed, CloseBegun, Saved, Quiet
    <2> QED
      BY <1>0, <2>1, <2>2, PositionSame DEF RecentInv, CloseBegun, Saved
  <1>15. CASE UNCHANGED vars
    BY <1>2, <1>15 DEF vars, store, history, bound
  <1> QED
    BY <1>4, <1>5, <1>6, <1>7, <1>8, <1>9, <1>10, <1>11, <1>12, <1>13, <1>14, <1>15
       DEF Next, Close

\* The rotation of a range with an address to give out goes through the
\* addresses from two after that of the prefix to the one before the last.
LEMMA NextAddressPlaced ==
    ASSUME NEW r, r.lo \in Int, r.hi \in Int, r.addr \in r.lo .. r.hi, Usable(r) > 0,
           NEW k \in r.addr + 1 .. r.hi - 1
    PROVE  /\ NextAddress(r, k) \in r.addr + 2 .. r.hi - 1
           /\ \/ NextAddress(r, k) = k + 1
              \/ k = r.hi - 1 /\ NextAddress(r, k) = k + 1 - Usable(r)
  BY SMT DEF NextAddress, Usable

LEMMA FirstPlaced == ASSUME NEW c \in Configs PROVE PlacedAt(c, First(c))
  <1> SUFFICES ASSUME NEW f \in Families, c[f] # NoRange, Usable(c[f]) > 0
               PROVE  First(c)[f] \in c[f].addr + 1 .. c[f].hi - 1
    BY DEF PlacedAt
  <1>1. First(c)[f] = c[f].addr + 1
    BY DEF First
  <1>2. c[f].lo \in Int /\ c[f].hi \in Int /\ c[f].addr \in c[f].lo .. c[f].hi
    BY RangeFacts
  <1> QED
    BY <1>1, <1>2, SMT DEF Usable

LEMMA PlacedStep ==
    ASSUME TypeOK, Placed, [Next]_vars
    PROVE  Placed'
  <1>0. /\ PlacedAt(range, current)
        /\ PlacedMeta(saveMetadata) /\ PlacedMeta(closing) /\ PlacedMeta(meta)
        /\ PlacedMeta(NoMeta) /\ PlacedMeta(Position)
        /\ \A w \in Flushers : flusher[w].pc \in Running => PlacedMeta(flusher[w].meta)
    BY DEF Placed, Running, PlacedMeta, Position
  <1> DEFINE Known == {saveMetadata, closing, meta, NoMeta, Position}
  <1>1. ASSUME saveMetadata' \in Known, closing' \in Known, meta' \in Known,
               PlacedAt(range', current'),
               \A w \in Flushers : flusher'[w].pc \in Running => flusher'[w] = flusher[w]
        PROVE  Placed'
    <2>1. PlacedMeta(saveMetadata') /\ PlacedMeta(closing') /\ PlacedMeta(meta')
      BY <1>0, <1>1
    <2>2. \A w \in Flushers : flusher'[w].pc \in Running => PlacedMeta(flusher'[w].meta)
      BY <1>0, <1>1
    <2> QED
      BY <1>1, <2>1, <2>2 DEF Placed, Running, PlacedMeta, PlacedAt
  <1>2. ASSUME UNCHANGED <<range, current, flusher>>,
               saveMetadata' \in Known, closing' \in Known, meta' \in Known
        PROVE  Placed'
    BY <1>0, <1>1, <1>2
  <1> HIDE DEF Known
  <1>3. saveMetadata \in Known /\ closing \in Known /\ meta \in Known /\ NoMeta \in Known
        /\ Position \in Known
    BY DEF Known
  <1>4. ASSUME NEW q \in Queries, Create(q) PROVE Placed'
    <2>1. CASE Allocate(q)
      <3> DEFINE f == query[q].f
                 n == NextAddress(range[f], current[f])
      <3>1. f \in Families /\ range[f] # NoRange
        BY <2>1 DEF TypeOK, Allocate, Calls
      <3>2. current' = [current EXCEPT ![f] = n] /\ current \in [Families -> Space \cup {NoAddr}]
        BY <2>1 DEF Allocate, TypeOK, Currents
      <3>3. UNCHANGED <<range, saveMetadata, flusher, closing, meta>>
        BY <2>1 DEF Allocate, pending
      <3> HIDE DEF f, n
      <3>4. ASSUME NEW g \in Families, range[g] # NoRange, Usable(range[g]) > 0
            PROVE  current'[g] \in range[g].addr + 1 .. range[g].hi - 1
        <4>1. current[g] \in range[g].addr + 1 .. range[g].hi - 1
          BY <1>0, <3>4 DEF PlacedAt
        <4>2. CASE g # f
          BY <3>1, <3>2, <4>1, <4>2
        <4>3. CASE g = f
          <5>1. /\ range[f].lo \in Int /\ range[f].hi \in Int
                /\ range[f].addr \in range[f].lo .. range[f].hi
            BY <3>1, RangeFacts DEF TypeOK
          <5>2. n \in range[f].addr + 2 .. range[f].hi - 1
            BY <3>4, <4>1, <4>3, <5>1, NextAddressPlaced DEF n
          <5>3. n \in range[f].addr + 1 .. range[f].hi - 1
            BY <5>1, <5>2, SMT
          <5> QED
            BY <3>1, <3>2, <4>3, <5>3
        <4> QED
          BY <4>2, <4>3
      <3>5. PlacedAt(range', current')
        BY <3>3, <3>4 DEF PlacedAt
      <3> QED
        BY <1>1, <1>3, <3>3, <3>5
    <2>2. CASE ~Allocate(q)
      <3>1. /\ UNCHANGED <<range, current, flusher, closing, meta>>
            /\ saveMetadata' = saveMetadata \/ saveMetadata' = Position
        BY <1>4, <2>2, CallKinds DEF pending
      <3> QED
        BY <1>2, <1>3, <3>1
    <2> QED
      BY <2>1, <2>2
  <1>5. ASSUME NEW w \in Flushers, FlushMetadata(w) PROVE Placed'
    <2>1. /\ UNCHANGED <<range, current, closing>>
          /\ \A v \in Flushers \ {w} : flusher'[v] = flusher[v]
          /\ saveMetadata' = saveMetadata \/ saveMetadata' = NoMeta
      BY <1>5, FlushKinds DEF store
    <2>2. flusher'[w].pc \in Running =>
              flusher'[w].meta = saveMetadata
              \/ (flusher[w].pc \in Running /\ flusher'[w].meta = flusher[w].meta)
      BY <1>5, FlushKinds, SMT DEF Running
    <2>3. meta' = meta \/ (flusher[w].pc \in Running /\ meta' = flusher[w].meta)
      BY <1>5, FlushKinds, SMT DEF Running
    <2>4. \A v \in Flushers : flusher'[v].pc \in Running => PlacedMeta(flusher'[v].meta)
      BY <1>0, <2>1, <2>2
    <2>5. PlacedMeta(saveMetadata') /\ PlacedMeta(closing') /\ PlacedMeta(meta')
      BY <1>0, <2>1, <2>3
    <2>6. PlacedAt(range', current')
      BY <1>0, <2>1
    <2> QED
      BY <2>4, <2>5, <2>6 DEF Placed, Running, PlacedMeta, PlacedAt
  <1>6. CASE Flush \/ ResetDB \/ StartReset
    BY <1>2, <1>3, <1>6, ResetKinds DEF Flush, ResetDB, StartReset, store, pending
  <1>7. ASSUME Exit, UNCHANGED <<range, current>>, meta' \in {meta, closing}
        PROVE  Placed'
    <2>1. \A w \in Flushers : flusher'[w].pc \notin Running
      BY <1>7 DEF Exit, Idle, Running
    <2>2. saveMetadata' = NoMeta /\ closing' = NoMeta
      BY <1>7 DEF Exit
    <2> QED
      BY <1>0, <1>1, <1>3, <1>7, <2>1, <2>2
  <1>8. CASE Crash
    BY <1>7, <1>8 DEF Crash
  <1>9. ASSUME NEW c \in Configs, Start(c) PROVE Placed'
    <2>1. /\ range' = c /\ UNCHANGED <<saveMetadata, closing, flusher>> /\ meta' = NoMeta
          /\ current' = IF Continues(c) THEN meta.current ELSE First(c)
      BY <1>9 DEF Start, pending
    <2>2. Continues(c) => PlacedAt(c, meta.current)
      BY <1>0 DEF Continues, PlacedMeta
    <2>3. PlacedAt(range', current')
      BY <2>1, <2>2, FirstPlaced
    <2> QED
      BY <1>1, <1>3, <2>1, <2>3
  <1>10. CASE CloseStore \/ SaveMetadata \/ SaveMetadataWrite \/ CloseCache \/ StopTimer
    BY <1>2, <1>3, <1>10 DEF CloseStore, SaveMetadata, SaveMetadataWrite, CloseCache,
                             StopTimer, WriteMeta, store, pending
  <1>11. CASE FinishClose
    BY <1>7, <1>11 DEF FinishClose, WriteMeta
  <1>12. CASE UNCHANGED vars
    BY <1>2, <1>3, <1>12 DEF vars, store, pending
  <1> QED
    BY <1>4, <1>5, <1>6, <1>8, <1>9, <1>10, <1>11, <1>12 DEF Next, Close

\* One more address of the rotation, the oldest one dropped after a full turn.
Longer(r, s, n) ==
    IF Len(Append(s, n)) > Usable(r) THEN Tail(Append(s, n)) ELSE Append(s, n)

LEMMA EmptySequence == ASSUME NEW s \in Seq(Int), Len(s) = 0 PROVE s = <<>>
  BY SMT

\* A stretch of the rotation stays one when the next address is added.
LEMMA StretchGrows ==
    ASSUME NEW r, r.lo \in Int, r.hi \in Int, r.addr \in r.lo .. r.hi,
           NEW k \in Int, Usable(r) > 0 => k \in r.addr + 1 .. r.hi - 1,
           NEW s \in Seq(Int), s # <<>> => Stretch(r, s, k),
           NEW n \in Int, n = NextAddress(r, k)
    PROVE  /\ Longer(r, s, n) \in Seq(Int)
           /\ Longer(r, s, n) # <<>> => Stretch(r, Longer(r, s, n), n)
  <1> DEFINE u == Usable(r)
             l == Append(s, n)
             m == Len(s)
  <1>1. /\ u \in Int /\ u = r.hi - r.addr - 2 /\ r.addr \in Int
        /\ m \in Nat
    BY SMT DEF Usable
  <1>2. /\ l \in Seq(Int) /\ Len(l) = m + 1
        /\ l[m + 1] = n
        /\ \A i \in 1 .. m : l[i] = s[i]
    BY SMT
  <1>3. /\ Tail(l) \in Seq(Int) /\ Len(Tail(l)) = m
        /\ \A i \in 1 .. m : Tail(l)[i] = l[i + 1]
    BY <1>2, SMT
  <1>4. s = <<>> <=> m = 0
    BY SMT
  <1>5. m = 0 => Tail(l) = <<>>
    BY <1>3, EmptySequence
  <1>6. /\ Longer(r, s, n) = IF m + 1 > u THEN Tail(l) ELSE l
        /\ Longer(r, s, n) \in Seq(Int)
    BY <1>2, <1>3 DEF Longer
  <1>7. m > 0 => /\ m <= u /\ s[m] = k
                 /\ \A i \in 1 .. m : s[i] \in r.addr + 2 .. r.hi - 1
                 /\ \A i, j \in 1 .. m :
                       i <= j => s[j] - s[i] = j - i \/ s[j] - s[i] = j - i - u
    <2>1. m > 0 => Stretch(r, s, k)
      BY <1>1, <1>4, SMT
    <2> QED
      BY <2>1 DEF Stretch
  <1> HIDE DEF u, l, m
  <1>8. CASE u <= 0
    <2>1. m = 0
      BY <1>1, <1>7, <1>8, SMT
    <2>2. Longer(r, s, n) = <<>>
      <3>1. m + 1 > u
        BY <1>1, <1>8, <2>1, SMT
      <3> QED
        BY <1>5, <1>6, <2>1, <3>1
    <2> QED
      BY <1>6, <2>2
  <1>9. CASE u > 0
    <2>1. /\ k \in r.addr + 1 .. r.hi - 1
          /\ n \in r.addr + 2 .. r.hi - 1
          /\ n = k + 1 \/ (k = r.hi - 1 /\ n = k + 1 - u)
      BY <1>9, NextAddressPlaced DEF u
    <2>2. \A i \in 1 .. m + 1 : l[i] \in r.addr + 2 .. r.hi - 1
      <3>1. ASSUME NEW i \in 1 .. m + 1, i \in 1 .. m PROVE l[i] \in r.addr + 2 .. r.hi - 1
        <4>1. m > 0
          BY <1>1, <3>1, SMT
        <4> QED
          BY <1>2, <1>7, <3>1, <4>1
      <3>2. \A i \in 1 .. m + 1 : i \in 1 .. m \/ i = m + 1
        BY <1>1, SMT
      <3> QED
        BY <1>2, <2>1, <3>1, <3>2
    <2>3. ASSUME NEW i \in 1 .. m
          PROVE  n - s[i] = m + 1 - i \/ n - s[i] = m + 1 - i - u
      <3>1. i \in Int /\ m > 0 /\ m \in 1 .. m /\ i <= m
        BY <1>1, <2>3, SMT
      <3>2. /\ m <= u /\ s[i] \in r.addr + 2 .. r.hi - 1
            /\ k - s[i] = m - i \/ k - s[i] = m - i - u
        BY <1>7, <2>3, <3>1
      <3>3. /\ r.addr + 2 \in Int /\ u = r.hi - (r.addr + 2) /\ k \in Int /\ k < r.hi
            /\ m - i \in Int /\ m - i < u /\ n \in Int
        <4>1. r.addr + 2 \in Int /\ u = r.hi - (r.addr + 2)
          BY <1>1, SMT
        <4>2. k \in Int /\ k < r.hi /\ n \in Int
          BY <1>1, <2>1, SMT
        <4>3. m - i \in Int /\ m - i < u
          BY <1>1, <2>3, <3>1, <3>2, SMT
        <4> QED
          BY <4>1, <4>2, <4>3
      <3>4. n - s[i] = (m - i) + 1 \/ n - s[i] = (m - i) + 1 - u
        <4> DEFINE lo == r.addr + 2
                   hi == r.hi
                   d == m - i
                   x == s[i]
        <4>1. /\ lo \in Int /\ hi \in Int /\ u \in Int /\ u = hi - lo
              /\ x \in lo .. hi - 1 /\ d \in Int /\ d < u /\ k < hi
              /\ k - x = d \/ k - x = d - u
              /\ n = k + 1 \/ (k = hi - 1 /\ n = k + 1 - u)
          BY <1>1, <2>1, <3>2, <3>3
        <4> HIDE DEF lo, hi, d, x
        <4>2. n - x = d + 1 \/ n - x = d + 1 - u
          <5>1. x \in Int /\ d \in Int /\ u \in Int /\ k \in Int /\ n \in Int
            BY <4>1, SMT
          <5>2. CASE n = k + 1
            BY <4>1, <5>1, <5>2, SMT
          <5>3. CASE k = hi - 1 /\ n = k + 1 - u
            <6>1. k - x >= 0 /\ d - u < 0
              BY <4>1, <5>1, <5>3, SMT
            <6>2. k - x = d
              BY <4>1, <5>1, <6>1, SMT
            <6>3. n = k + 1 - u
              BY <5>3
            <6> QED
              BY <5>1, <6>2, <6>3, SMT
          <5> QED
            BY <4>1, <5>2, <5>3
        <4> QED
          BY <4>2 DEF d, x
      <3>5. (m - i) + 1 = m + 1 - i /\ (m - i) + 1 - u = m + 1 - i - u
        BY <1>1, <3>1, SMT
      <3> QED
        BY <3>4, <3>5
    <2>4. ASSUME NEW i \in 1 .. m + 1, NEW j \in 1 .. m + 1, i <= j
          PROVE  l[j] - l[i] = j - i \/ l[j] - l[i] = j - i - u
      <3>1. CASE j <= m
        <4>1. i \in 1 .. m /\ j \in 1 .. m
          BY <1>1, <2>4, <3>1, SMT
        <4>2. l[i] = s[i] /\ l[j] = s[j]
          BY <1>2, <4>1
        <4>3. m > 0
          BY <1>1, <4>1, SMT
        <4> QED
          BY <1>7, <2>4, <4>1, <4>2, <4>3
      <3>2. CASE j = m + 1 /\ i <= m
        <4>1. i \in 1 .. m
          BY <1>1, <2>4, <3>2, SMT
        <4> QED
          <5>1. l[j] = n /\ l[i] = s[i] /\ j = m + 1
            BY <1>2, <3>2, <4>1
          <5>2. n - s[i] = m + 1 - i \/ n - s[i] = m + 1 - i - u
            BY <2>3, <4>1
          <5>3. s[i] \in Int /\ m \in Nat /\ u \in Int
            BY <1>1, <4>1, SMT DEF m
          <5> QED
            BY <5>1, <5>2, <5>3, SMT
      <3>3. CASE i = m + 1 /\ j = m + 1
        BY <1>1, <1>2, <3>3, SMT
      <3> QED
        BY <1>1, <2>4, <3>1, <3>2, <3>3, SMT
    <2>5. CASE m + 1 <= u
      <3>1. Longer(r, s, n) = l
        BY <1>1, <1>6, <2>5, SMT
      <3>2. Stretch(r, l, n)
        BY <1>2, <2>2, <2>4, <2>5 DEF Stretch, u
      <3> QED
        BY <1>6, <3>1, <3>2
    <2>6. CASE m + 1 > u
      <3> DEFINE t == Tail(l)
      <3>1. Longer(r, s, n) = t
        BY <1>6, <2>6
      <3>2. m = u
        BY <1>1, <1>7, <1>9, <2>6, SMT
      <3>3. Len(t) = m /\ \A i \in 1 .. m : t[i] = l[i + 1]
        BY <1>3
      <3> HIDE DEF t
      <3>4. t[m] = n
        <4>1. m \in 1 .. m
          BY <1>1, <1>9, <3>2, SMT
        <4> QED
          BY <1>2, <3>3, <4>1
      <3>5. ASSUME NEW i \in 1 .. m PROVE t[i] \in r.addr + 2 .. r.hi - 1
        <4>1. i + 1 \in 1 .. m + 1
          BY <1>1, <3>5, SMT
        <4> QED
          BY <2>2, <3>3, <4>1
      <3>6. ASSUME NEW i \in 1 .. m, NEW j \in 1 .. m, i <= j
            PROVE  t[j] - t[i] = j - i \/ t[j] - t[i] = j - i - u
        <4>1. /\ i + 1 \in 1 .. m + 1 /\ j + 1 \in 1 .. m + 1 /\ i + 1 <= j + 1
              /\ (j + 1) - (i + 1) = j - i
          BY <1>1, <3>6, SMT
        <4>2. \/ l[j + 1] - l[i + 1] = (j + 1) - (i + 1)
              \/ l[j + 1] - l[i + 1] = (j + 1) - (i + 1) - u
          BY <2>4, <4>1
        <4> QED
          BY <3>3, <4>1, <4>2
      <3>7. Len(t) <= u
        BY <1>1, <3>2, <3>3, SMT
      <3>8. Stretch(r, t, n)
        BY <3>3, <3>4, <3>5, <3>6, <3>7 DEF Stretch, u
      <3> QED
        BY <1>6, <3>1, <3>8
    <2> QED
      BY <1>1, <2>5, <2>6, SMT
  <1> QED
    BY <1>1, <1>8, <1>9, SMT

\* Two addresses of a stretch are never the same: it is at most one turn long.
LEMMA StretchInjective ==
    ASSUME NEW r, Usable(r) \in Int, NEW s \in Seq(Int), NEW k, Stretch(r, s, k),
           NEW i \in 1 .. Len(s), NEW j \in 1 .. Len(s), s[i] = s[j]
    PROVE  i = j
  <1>1. Len(s) \in Nat /\ s[i] \in Int /\ s[j] \in Int
    BY SMT
  <1>2. i <= j => s[j] - s[i] = j - i \/ s[j] - s[i] = j - i - Usable(r)
    BY DEF Stretch
  <1>3. j <= i => s[i] - s[j] = i - j \/ s[i] - s[j] = i - j - Usable(r)
    BY DEF Stretch
  <1>4. Len(s) <= Usable(r)
    BY DEF Stretch
  <1> QED
    BY <1>1, <1>2, <1>3, <1>4, SMT

LEMMA RotStep ==
    ASSUME TypeOK, RecentInv, Placed, RotInv, [Next]_vars
    PROVE  RotInv'
  <1>0. /\ recent \in [Families -> Seq(Int)]
        /\ \A f \in Families :
              recent[f] # <<>> =>
                  range[f] # NoRange /\ Stretch(range[f], recent[f], current[f])
    BY DEF RotInv
  <1>1. CASE recent' = NothingRecent
    <2>1. \A f \in Families : NothingRecent[f] = <<>>
      BY DEF NothingRecent
    <2>2. <<>> \in Seq(Int)
      BY SMT
    <2>3. NothingRecent \in [Families -> Seq(Int)]
      BY <2>2 DEF NothingRecent
    <2> QED
      BY <1>1, <2>1, <2>3 DEF RotInv
  <1>2. CASE UNCHANGED <<recent, range, current>>
    BY <1>0, <1>2 DEF RotInv, Stretch
  <1>3. ASSUME NEW q \in Queries, Allocate(q), phase = "up" PROVE RotInv'
    <2> DEFINE f == query[q].f
               n == NextAddress(range[f], current[f])
    <2>1. f \in Families /\ range[f] # NoRange
      BY <1>3 DEF TypeOK, Allocate, Calls
    <2>2. current' = [current EXCEPT ![f] = n] /\ current \in [Families -> Space \cup {NoAddr}]
      BY <1>3 DEF Allocate, TypeOK, Currents
    <2>3. range' = range /\ recent' = [recent EXCEPT ![f] = Longer(range[f], recent[f], n)]
      BY <1>3 DEF Allocate, Remember, Longer
    <2>4. current[f] \in Int
      BY <2>1, FakeIPAssumption DEF TypeOK, Currents
    <2>5. /\ range[f].lo \in Int /\ range[f].hi \in Int
          /\ range[f].addr \in range[f].lo .. range[f].hi
      BY <2>1, RangeFacts DEF TypeOK
    <2>6. n \in Int
      BY <2>4, <2>5, SMT DEF NextAddress
    <2>7. Usable(range[f]) > 0 => current[f] \in range[f].addr + 1 .. range[f].hi - 1
      BY <2>1 DEF Placed, PlacedAt
    <2>8. /\ recent[f] \in Seq(Int)
          /\ recent[f] # <<>> => Stretch(range[f], recent[f], current[f])
      BY <1>0, <2>1
    <2> HIDE DEF f
    <2>9. n = NextAddress(range[f], current[f])
      OBVIOUS
    <2> HIDE DEF n
    <2>10. /\ Longer(range[f], recent[f], n) \in Seq(Int)
           /\ Longer(range[f], recent[f], n) # <<>> =>
                  Stretch(range[f], Longer(range[f], recent[f], n), n)
      BY <2>4, <2>5, <2>6, <2>7, <2>8, <2>9, StretchGrows
    <2>11. recent' \in [Families -> Seq(Int)]
      BY <1>0, <2>1, <2>3, <2>10
    <2>12. ASSUME NEW g \in Families, recent'[g] # <<>>
           PROVE  range'[g] # NoRange /\ Stretch(range'[g], recent'[g], current'[g])
      <3>1. CASE g # f
        <4>1. recent'[g] = recent[g] /\ current'[g] = current[g] /\ range'[g] = range[g]
          BY <1>0, <2>1, <2>2, <2>3, <3>1
        <4> QED
          BY <1>0, <2>12, <4>1
      <3>2. CASE g = f
        <4>1. /\ recent'[f] = Longer(range[f], recent[f], n)
              /\ current'[f] = n /\ range'[f] = range[f]
          BY <1>0, <2>1, <2>2, <2>3
        <4> QED
          BY <2>1, <2>10, <2>12, <3>2, <4>1
      <3> QED
        BY <3>1, <3>2
    <2> QED
      BY <2>11, <2>12 DEF RotInv, Stretch
  <1>4. ASSUME NEW q \in Queries, Create(q) PROVE RotInv'
    <2>1. Allocate(q) => phase = "up" \/ recent' = NothingRecent
      BY DEF Allocate
    <2> QED
      BY <1>1, <1>2, <1>3, <1>4, <2>1, CallKinds
  <1>5. ASSUME NEW w \in Flushers, FlushMetadata(w) PROVE RotInv'
    BY <1>2, <1>5, FlushKinds DEF store, history
  <1>6. CASE Flush \/ ResetDB \/ StartReset
    BY <1>1, <1>2, <1>6, ResetKinds DEF Flush, ResetDB, StartReset, store
  <1>7. ASSUME NEW c \in Configs, Start(c) PROVE RotInv'
    <2>1. CASE recent # NothingRecent /\ range = c
      <3>1. meta = Position
        BY <1>7, <2>1 DEF RecentInv, Start
      <3>2. Position # NoMeta /\ Position.range = range /\ Position.current = current
        BY PositionType, FakeIPAssumption DEF Position, Positions
      <3>3. Continues(c)
        BY <2>1, <3>1, <3>2 DEF Continues
      <3>4. UNCHANGED <<recent, range, current>>
        BY <1>7, <2>1, <3>1, <3>2, <3>3 DEF Start
      <3> QED
        BY <1>2, <3>4
    <2> QED
      BY <1>1, <1>7, <2>1 DEF Start
  <1>8. CASE Crash
    BY <1>1, <1>8 DEF Crash
  <1>9. CASE Close
    BY <1>2, <1>9 DEF Close, CloseStore, SaveMetadata, SaveMetadataWrite, CloseCache,
                      StopTimer, FinishClose, store, history
  <1>10. CASE UNCHANGED vars
    BY <1>2, <1>10 DEF vars, store, history
  <1> QED
    BY <1>4, <1>5, <1>6, <1>7, <1>8, <1>9, <1>10 DEF Next

\* No address comes round again before all the others of its range, for every
\* set of configurations, and across any number of orderly closes and starts.
THEOREM NoAddressTwiceInATurn == Spec => []Rotates
  <1>1. Init => RecentInv /\ Placed /\ RotInv
    <2> SUFFICES ASSUME Init PROVE RecentInv /\ Placed /\ RotInv
      OBVIOUS
    <2>1. recent = NothingRecent
      BY DEF Init
    <2>2. RecentInv
      BY <2>1 DEF RecentInv
    <2>3. Placed
      <3>1. /\ range \in Configs /\ current = First(range)
            /\ saveMetadata = NoMeta /\ closing = NoMeta /\ meta = NoMeta
            /\ \A w \in Flushers : flusher[w].pc \notin Running
        BY DEF Init, Idle, Running
      <3> QED
        BY <3>1, FirstPlaced DEF Placed, PlacedMeta, Running
    <2>4. RotInv
      <3>1. <<>> \in Seq(Int)
        BY SMT
      <3>2. /\ NothingRecent \in [Families -> Seq(Int)]
            /\ \A f \in Families : NothingRecent[f] = <<>>
        BY <3>1 DEF NothingRecent
      <3> QED
        BY <2>1, <3>2 DEF RotInv
    <2> QED
      BY <2>2, <2>3, <2>4
  <1>2. /\ IInv /\ CloseInv /\ RecentInv /\ Placed /\ RotInv /\ [Next]_vars
        => (RecentInv /\ Placed /\ RotInv)'
    BY RecentStep, PlacedStep, RotStep DEF IInv
  <1>3. IInv /\ RotInv => Rotates
    <2> SUFFICES ASSUME IInv, RotInv, NEW f \in Families,
                        NEW i \in 1 .. Len(recent[f]), NEW j \in 1 .. Len(recent[f]),
                        recent[f][i] = recent[f][j]
                 PROVE  i = j
      BY DEF Rotates
    <2>1. recent[f] \in Seq(Int)
      BY DEF RotInv
    <2>2. recent[f] # <<>>
      BY <2>1, SMT
    <2>3. range[f] # NoRange /\ Stretch(range[f], recent[f], current[f])
      BY <2>2 DEF RotInv
    <2>4. Usable(range[f]) \in Int
      <3>1. /\ range[f].lo \in Int /\ range[f].hi \in Int
            /\ range[f].addr \in range[f].lo .. range[f].hi
        BY <2>3, RangeFacts DEF IInv, TypeOK
      <3> QED
        BY <3>1, SMT DEF Usable
    <2> QED
      BY <2>1, <2>3, <2>4, StretchInjective
  <1> QED
    BY <1>1, <1>2, <1>3, IInvInvariant, CloseInvInvariant, PTL DEF Spec
=============================================================================

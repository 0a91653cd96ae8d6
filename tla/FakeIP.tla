------------------------------- MODULE FakeIP -------------------------------
(***************************************************************************)
(* The fake-address allocator of the fakeip DNS server                     *)
(* (dns/transport/fakeip) and the part of the cache file that makes it     *)
(* durable (experimental/cachefile).                                       *)
(*                                                                         *)
(* A DNS query for a domain is answered with an address of a configured    *)
(* range; a connection to that address is later mapped back to the domain. *)
(* Queries run concurrently and share the allocator's position under one   *)
(* mutex; every mapping is committed to the cache file at once, whereas    *)
(* the position is written by a debounced timer, by the orderly close of   *)
(* the store and by the close of the cache file.  The process may stop,    *)
(* in order or by a crash, and start again with the same or other ranges.  *)
(*                                                                         *)
(* One transaction of the database (bbolt, external) is one atomic step.   *)
(***************************************************************************)
EXTENDS Integers, Sequences, FiniteSets

CONSTANTS
    Families,    \* the address families, IPv4 and IPv6
    Domains,     \* the domain names asked for
    Space,       \* the numbers of the addresses of a family
    Configs,     \* the configurations: a range, or NoRange, per family
    Queries,     \* the DNS queries that may run at the same time
    Flushers,    \* the runs of the metadata timer's function
    NoDomain, NoAddr, NoRange, NoMeta,
    MaxCreates,  \* bound: allocations in a behaviour
    MaxResets,   \* bound: flushes by the Clash API and database resets
    MaxBoots     \* bound: starts of the process

ASSUME FakeIPAssumption ==
    /\ Space \subseteq Int
    /\ NoDomain \notin Domains
    /\ NoAddr \notin Space
    /\ NoMeta \notin [range : Configs, current : [Families -> Space \cup {NoAddr}]]
    /\ \A c \in Configs, f \in Families :
          c[f] # NoRange => /\ c[f].lo \in Int /\ c[f].hi \in Int
                            /\ c[f].addr \in c[f].lo .. c[f].hi
                            /\ c[f].lo .. c[f].hi \subseteq Space
                            /\ c[f].addr + 1 \in Space
                            /\ c[f].addr + 2 \in Space

VARIABLES
    phase,            \* how far the process has started or closed
    range,            \* inet4Range, inet6Range of the running store
    current,          \* inet4Current, inet6Current
    query,            \* the running calls of Store.Create
    saveMetadata,     \* CacheFile.saveMetadata: the position to be written
    saveMetadataSeq,  \* CacheFile.saveMetadataSeq
    timer,            \* whether saveMetadataTimer will fire
    flusher,          \* the running calls of flushFakeIPMetadata
    closing,          \* the position held by Store.Close or CacheFile.Close
    address,          \* database: bucketFakeIP, the domain of an address
    domain,           \* database: bucketFakeIPDomain4/6, the address of a domain
    bucket,           \* database: the buckets that exist
    meta,             \* database: keyMetadata of bucketFakeIP
    recent,           \* history: the latest addresses allocated since the last
                      \* crash, and not while the store was being closed
    oldest,           \* history: the allocations made when the close began
    creates, resets, boots

history == <<recent, oldest>>
store == <<range, current, query>>
pending == <<saveMetadata, saveMetadataSeq, timer>>
table == <<address, domain, bucket>>
bound == <<creates, resets, boots>>
vars == <<phase, store, pending, flusher, closing, table, meta, history, bound>>

Buckets == {"address"} \cup Families
EmptyAddress == [f \in Families |-> [n \in Space |-> NoDomain]]
EmptyDomain == [f \in Families |-> [d \in Domains |-> NoAddr]]
NothingRecent == [f \in Families |-> <<>>]

\* The phases in which CacheFile.closed is unset and the database is open.
Open == phase \in {"reset", "up", "copied", "saving", "stored"}
Serving == phase \in {"up", "copied", "saving", "stored", "closing", "draining"}

Position == [range |-> range, current |-> current]

IdleQuery(q) == query[q].pc = "idle"
Idle == [pc |-> "idle"]
-----------------------------------------------------------------------------
(***************************************************************************)
(* Allocating an address.                                                  *)
(***************************************************************************)

\* Mutant of NextAddress: the rotation does not start again.
NextAddressUnbounded(r, n) == n + 1

\* Mutant of NextAddress: the rotation ends one address early.
NextAddressEarly(r, n) ==
    IF n + 2 = r.hi \/ n + 1 \notin r.lo .. r.hi THEN r.addr + 2 ELSE n + 1

\* The address after n in the range r: the last address and everything
\* outside the range is skipped, and the rotation starts again two after the
\* address of the prefix.
NextAddress(r, n) ==
    IF n + 1 = r.hi \/ n + 1 \notin r.lo .. r.hi THEN r.addr + 2 ELSE n + 1

\* How many addresses the rotation of a range goes through.
Usable(r) == r.hi - r.addr - 2

\* FakeIPLoadDomain: a closed database loads nothing.
Loaded(f, d) == Open /\ domain[f][d] # NoAddr

\* The mutex addressAccess is held from the allocation to the return.
AddressAccessFree == \A q \in Queries : query[q].pc \in {"idle", "lock"}

Remember(f, n) ==
    LET longer == Append(recent[f], n)
    IN  IF Len(longer) > Usable(range[f]) THEN Tail(longer) ELSE longer

\* A query arrives for a family that is configured, and the unlocked look-up
\* finds nothing.  (One that finds the domain changes nothing.)
Ask(q, f, d) ==
    /\ Serving
    /\ IdleQuery(q)
    /\ range[f] # NoRange
    /\ ~Loaded(f, d)
    /\ query' = [query EXCEPT ![q] = [pc |-> "lock", f |-> f, d |-> d]]
    /\ UNCHANGED <<phase, range, current, pending, flusher, closing, table,
                   meta, history, bound>>

\* The double check under the mutex finds the domain: another query stored it.
AlreadyCreated(q) ==
    /\ query[q].pc = "lock"
    /\ AddressAccessFree
    /\ Loaded(query[q].f, query[q].d)
    /\ query' = [query EXCEPT ![q] = Idle]
    /\ UNCHANGED <<phase, range, current, pending, flusher, closing, table,
                   meta, history, bound>>

\* The position moves on; the mapping is not stored yet.
Allocate(q) ==
    LET f == query[q].f
        d == query[q].d
        n == NextAddress(range[f], current[f])
    IN  /\ query[q].pc = "lock"
        /\ AddressAccessFree
        /\ ~Loaded(f, d)
        /\ creates < MaxCreates
        /\ creates' = creates + 1
        /\ current' = [current EXCEPT ![f] = n]
        /\ query' = [query EXCEPT ![q] =
                        [pc |-> "store", f |-> f, d |-> d, n |-> n]]
        /\ recent' = IF phase = "up" THEN [recent EXCEPT ![f] = Remember(f, n)]
                                     ELSE NothingRecent
        /\ UNCHANGED <<phase, range, pending, flusher, closing, table, meta,
                       oldest, resets, boots>>

\* Mutant of Store: the domain that had the address keeps it.
StoreKeepsOld(f, n, d) ==
    /\ address' = [address EXCEPT ![f][n] = d]
    /\ domain' = [domain EXCEPT ![f][d] = n]
    /\ bucket' = bucket \cup {"address", f}

\* FakeIPStore, in one transaction: the address gets its domain, the domain
\* that had the address before loses it, the domain gets its address.
Store(f, n, d) ==
    /\ address' = [address EXCEPT ![f][n] = d]
    /\ domain' = [domain EXCEPT ![f] =
                     [e \in Domains |-> IF e = d THEN n
                                        ELSE IF e = address[f][n] THEN NoAddr
                                        ELSE @[e]]]
    /\ bucket' = bucket \cup {"address", f}

\* A closed database refuses the transaction; Create logs it and goes on.
StoreAddress(q) ==
    /\ query[q].pc = "store"
    /\ IF Open THEN Store(query[q].f, query[q].n, query[q].d)
               ELSE UNCHANGED table
    /\ query' = [query EXCEPT ![q] = [pc |-> "save"]]
    /\ UNCHANGED <<phase, range, current, pending, flusher, closing, meta,
                   history, bound>>

\* FakeIPSaveMetadataAsync, and the return of Create.
SaveMetadataAsync(q) ==
    /\ query[q].pc = "save"
    /\ IF Open
       THEN /\ saveMetadata' = Position
            /\ saveMetadataSeq' = saveMetadataSeq + 1
            /\ timer' = TRUE
       ELSE UNCHANGED pending
    /\ query' = [query EXCEPT ![q] = Idle]
    /\ UNCHANGED <<phase, range, current, flusher, closing, table, meta,
                   history, bound>>
-----------------------------------------------------------------------------
(***************************************************************************)
(* The timer's function, flushFakeIPMetadata.                              *)
(***************************************************************************)

Fire(w) ==
    /\ timer
    /\ flusher[w].pc = "idle"
    /\ timer' = FALSE
    /\ flusher' = [flusher EXCEPT ![w] = [pc |-> "fired"]]
    /\ UNCHANGED <<phase, store, saveMetadata, saveMetadataSeq, closing, table,
                   meta, history, bound>>

\* beginAsyncWrite fails: the cache file is closed, or the other writers hold
\* every token.  In the second case the timer is set again.
FlushRefused(w) ==
    /\ flusher[w].pc = "fired"
    /\ timer' = (timer \/ (Open /\ saveMetadata # NoMeta))
    /\ flusher' = [flusher EXCEPT ![w] = Idle]
    /\ UNCHANGED <<phase, store, saveMetadata, saveMetadataSeq, closing, table,
                   meta, history, bound>>

FlushRead(w) ==
    /\ flusher[w].pc = "fired"
    /\ Open
    /\ flusher' = [flusher EXCEPT ![w] =
           IF saveMetadata = NoMeta THEN Idle
           ELSE [pc |-> "check", meta |-> saveMetadata, seq |-> saveMetadataSeq]]
    /\ UNCHANGED <<phase, store, pending, closing, table, meta, history, bound>>

\* The mutex saveMetadataWrite, as far as the flushes hold it.
WriteFree == \A w \in Flushers : flusher[w].pc \notin {"commit", "clear"}

\* Mutant of Superseded: the sequence number is not compared.
SupersededByClose(w) == ~Open

Superseded(w) == ~Open \/ flusher[w].seq # saveMetadataSeq

\* Under saveMetadataWrite: what was read is dropped if it is out of date.
FlushCheck(w) ==
    /\ flusher[w].pc = "check"
    /\ WriteFree
    /\ flusher' = [flusher EXCEPT ![w] =
           IF Superseded(w) THEN Idle ELSE [@ EXCEPT !.pc = "commit"]]
    /\ UNCHANGED <<phase, store, pending, closing, table, meta, history, bound>>

\* saveFakeIPMetadataInTx
WriteMeta(m) ==
    /\ meta' = m
    /\ bucket' = bucket \cup {"address"}

FlushCommit(w) ==
    /\ flusher[w].pc = "commit"
    /\ IF Open THEN WriteMeta(flusher[w].meta) ELSE UNCHANGED <<meta, bucket>>
    /\ flusher' = [flusher EXCEPT ![w].pc = "clear"]
    /\ UNCHANGED <<phase, store, pending, closing, address, domain, history,
                   bound>>

FlushClear(w) ==
    /\ flusher[w].pc = "clear"
    /\ saveMetadata' = IF flusher[w].seq = saveMetadataSeq THEN NoMeta
                                                           ELSE saveMetadata
    /\ flusher' = [flusher EXCEPT ![w] = Idle]
    /\ UNCHANGED <<phase, store, saveMetadataSeq, timer, closing, table, meta,
                   history, bound>>
-----------------------------------------------------------------------------
(***************************************************************************)
(* Reset, close, crash and start.                                          *)
(***************************************************************************)

Wipe ==
    /\ address' = EmptyAddress
    /\ domain' = EmptyDomain
    /\ bucket' = {}
    /\ meta' = NoMeta
    /\ recent' = NothingRecent

\* FakeIPReset deletes the three buckets in one transaction.  Deleting a
\* bucket that does not exist is an error, which rolls all of it back.
FakeIPReset ==
    IF bucket = Buckets THEN Wipe ELSE UNCHANGED <<table, meta, recent>>

\* POST /cache/fakeip/flush of the Clash API.
Flush ==
    /\ Open /\ phase # "reset"
    /\ resets < MaxResets
    /\ resets' = resets + 1
    /\ FakeIPReset
    /\ UNCHANGED <<phase, store, pending, flusher, closing, oldest, creates, boots>>

\* resetDB: a corrupted database is replaced by an empty one.
ResetDB ==
    /\ Open
    /\ resets < MaxResets
    /\ resets' = resets + 1
    /\ Wipe
    /\ UNCHANGED <<phase, store, pending, flusher, closing, oldest, creates, boots>>

\* Store.Close reads the position under addressAccess ...
CloseStore ==
    /\ phase = "up"
    /\ AddressAccessFree
    /\ phase' = "copied"
    /\ closing' = Position
    /\ oldest' = creates
    /\ UNCHANGED <<store, pending, flusher, table, meta, recent, bound>>

\* ... FakeIPSaveMetadata drops what was waiting to be written ...
SaveMetadata ==
    /\ phase = "copied"
    /\ phase' = "saving"
    /\ saveMetadata' = NoMeta
    /\ saveMetadataSeq' = saveMetadataSeq + 1
    /\ timer' = FALSE
    /\ UNCHANGED <<store, flusher, closing, table, meta, history, bound>>

\* ... and writes the position under saveMetadataWrite.
SaveMetadataWrite ==
    /\ phase = "saving"
    /\ WriteFree
    /\ phase' = "stored"
    /\ WriteMeta(closing)
    /\ closing' = NoMeta
    /\ UNCHANGED <<store, pending, flusher, address, domain, history, bound>>

\* CacheFile.Close sets closed ...
CloseCache ==
    /\ phase = "stored"
    /\ phase' = "closing"
    /\ UNCHANGED <<store, pending, flusher, closing, table, meta, history, bound>>

\* ... stopFakeIPMetadataTimer takes what is still waiting ...
StopTimer ==
    /\ phase = "closing"
    /\ phase' = "draining"
    /\ closing' = saveMetadata
    /\ saveMetadata' = NoMeta
    /\ saveMetadataSeq' = saveMetadataSeq + 1
    /\ timer' = FALSE
    /\ UNCHANGED <<store, flusher, table, meta, history, bound>>

\* What a process that ends takes with it.
Exit ==
    /\ phase' = "down"
    /\ query' = [q \in Queries |-> Idle]
    /\ saveMetadata' = NoMeta
    /\ saveMetadataSeq' = 0
    /\ timer' = FALSE
    /\ flusher' = [w \in Flushers |-> Idle]
    /\ closing' = NoMeta

\* ... and once the flushes that began have ended (asyncWG) that is written,
\* the database is closed and the process ends.
FinishClose ==
    /\ phase = "draining"
    /\ \A w \in Flushers : flusher[w].pc \in {"idle", "fired"}
    /\ IF closing # NoMeta THEN WriteMeta(closing) ELSE UNCHANGED <<meta, bucket>>
    /\ Exit
    /\ UNCHANGED <<range, current, address, domain, history, bound>>

Crash ==
    /\ phase # "down"
    /\ Exit
    /\ recent' = NothingRecent
    /\ UNCHANGED <<range, current, table, meta, oldest, bound>>

First(c) == [f \in Families |-> IF c[f] = NoRange THEN NoAddr ELSE c[f].addr + 1]

\* The saved position is of these very ranges.
Continues(c) == meta # NoMeta /\ meta.range = c

\* Store.Start up to the reset.  FakeIPMetadata removes what it reads.
Start(c) ==
    /\ phase = "down"
    /\ boots < MaxBoots
    /\ boots' = boots + 1
    /\ range' = c
    /\ current' = IF Continues(c) THEN meta.current ELSE First(c)
    /\ phase' = IF Continues(c) THEN "up" ELSE "reset"
    /\ meta' = NoMeta
    /\ recent' = IF range = c THEN recent ELSE NothingRecent
    /\ UNCHANGED <<query, pending, flusher, closing, table, oldest, creates,
                   resets>>

\* The rest of Store.Start, whose error is ignored.
StartReset ==
    /\ phase = "reset"
    /\ phase' = "up"
    /\ FakeIPReset
    /\ UNCHANGED <<store, pending, flusher, closing, oldest, bound>>
-----------------------------------------------------------------------------
Init ==
    /\ phase = "down"
    /\ range \in Configs
    /\ current = First(range)
    /\ query = [q \in Queries |-> Idle]
    /\ saveMetadata = NoMeta
    /\ saveMetadataSeq = 0
    /\ timer = FALSE
    /\ flusher = [w \in Flushers |-> Idle]
    /\ closing = NoMeta
    /\ address = EmptyAddress
    /\ domain = EmptyDomain
    /\ bucket = {}
    /\ meta = NoMeta
    /\ recent = NothingRecent
    /\ oldest = 0
    /\ creates = 0
    /\ resets = 0
    /\ boots = 0

Create(q) ==
    \/ \E f \in Families, d \in Domains : Ask(q, f, d)
    \/ AlreadyCreated(q)
    \/ Allocate(q)
    \/ StoreAddress(q)
    \/ SaveMetadataAsync(q)

FlushMetadata(w) ==
    \/ Fire(w)
    \/ FlushRefused(w)
    \/ FlushRead(w)
    \/ FlushCheck(w)
    \/ FlushCommit(w)
    \/ FlushClear(w)

Close ==
    \/ CloseStore
    \/ SaveMetadata
    \/ SaveMetadataWrite
    \/ CloseCache
    \/ StopTimer
    \/ FinishClose

Next ==
    \/ \E q \in Queries : Create(q)
    \/ \E w \in Flushers : FlushMetadata(w)
    \/ Flush
    \/ ResetDB
    \/ Close
    \/ Crash
    \/ \E c \in Configs : Start(c)
    \/ StartReset

Spec == Init /\ [][Next]_vars
-----------------------------------------------------------------------------
\* The positions a store with these ranges may have.
Currents(c) ==
    {k \in [Families -> Space \cup {NoAddr}] :
        \A f \in Families : c[f] # NoRange => k[f] \in Space}
Positions ==
    {p \in [range : Configs, current : [Families -> Space \cup {NoAddr}]] :
        p.current \in Currents(p.range)}

\* The calls of Create that may run with the present ranges.
Calls ==
    [pc : {"idle", "save"}]
        \cup [pc : {"lock"}, f : {f \in Families : range[f] # NoRange}, d : Domains]
        \cup [pc : {"store"}, f : {f \in Families : range[f] # NoRange},
              d : Domains, n : Space]
Flushes ==
    [pc : {"idle", "fired"}]
        \cup [pc : {"check", "commit", "clear"}, meta : Positions, seq : Nat]

TypeOK ==
    /\ phase \in {"down", "reset", "up", "copied", "saving", "stored",
                  "closing", "draining"}
    /\ range \in Configs
    /\ current \in Currents(range)
    /\ query \in [Queries -> Calls]
    /\ saveMetadata \in Positions \cup {NoMeta}
    /\ saveMetadataSeq \in Nat
    /\ timer \in BOOLEAN
    /\ flusher \in [Flushers -> Flushes]
    /\ closing \in Positions \cup {NoMeta}
    /\ address \in [Families -> [Space -> Domains \cup {NoDomain}]]
    /\ domain \in [Families -> [Domains -> Space \cup {NoAddr}]]
    /\ bucket \subseteq Buckets
    /\ meta \in Positions \cup {NoMeta}

\* What Create answers and what Lookup finds agree: a domain is stored with an
\* address exactly if the address is stored with the domain, through
\* concurrent queries, rotation, resets, closes and crashes.
Inverse ==
    \A f \in Families, d \in Domains, n \in Space :
        domain[f][d] = n <=> address[f][n] = d

\* With ranges that do not change, every address the store may answer with,
\* stored or just allocated, is one that Contains recognises.
Answers(f, n) == range[f] # NoRange /\ n \in range[f].lo .. range[f].hi
InRange ==
    /\ \A f \in Families, d \in Domains :
          domain[f][d] # NoAddr => Answers(f, domain[f][d])
    /\ \A q \in Queries : query[q].pc = "store" => Answers(query[q].f, query[q].n)

\* An address is given to another domain only after all the other addresses of
\* the rotation, also across an orderly close and a start.
Rotates ==
    \A f \in Families : \A i, j \in 1 .. Len(recent[f]) :
        recent[f][i] = recent[f][j] => i = j

\* When an orderly close ends and no query allocated an address while it
\* went on, the database holds the allocator's position, whatever the timer's
\* function was doing; or it was reset and holds nothing at all.
SavedOnClose ==
    [][FinishClose /\ creates = oldest => meta' = Position \/ bucket' = {}]_vars
=============================================================================

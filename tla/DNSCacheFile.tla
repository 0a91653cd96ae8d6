---------------------------- MODULE DNSCacheFile ----------------------------
(***************************************************************************)
(* The DNS part of the cache file (experimental/cachefile): answers and    *)
(* rejections are put into maps in memory, goroutines write them to the    *)
(* database, and Close waits for the goroutines.                           *)
(*                                                                         *)
(* saveDNSCacheAccess and saveRDRCAccess are held for one step, except by  *)
(* a caller that waits for asyncAccess meanwhile.  A transaction of the    *)
(* database (bbolt, external) is one step and may fail.  Nobody can read   *)
(* the database once closed is set, so a transaction that was under way    *)
(* then is one that came before.                                           *)
(***************************************************************************)
EXTENDS Naturals

CONSTANTS
    Keys,        \* saveCacheKey: transport, name and type of a question
    Callers,     \* goroutines that save: queries and background refreshes
    Writers,     \* tokens of asyncWriteTokens (cacheFileMaxAsyncWrites)
    Stores,      \* "dns" and "rdrc" where the options StoreDNS and StoreRDRC are set
    MaxAnswers   \* bound: answers that are put into the map

VARIABLES
    saveDNSCache,  \* the entries by key; every entry in the map is "saving"
    saveRDRC,      \* the keys whose rejection is in the map
    caller,        \* what a caller waits for in beginAsyncWrite, with the lock of its map held
    writer,        \* the goroutines that write, by their token
    clearing,      \* "start" before startCacheCleanup, "dns" and "rdrc" where a map is
                   \* cleared and the bucket is not yet
    closing,       \* how far Close is; asyncAccess is held at "wait"
    db,            \* database: the answers, 0 for none
    dbRDRC,        \* database: the rejections
    newest,        \* history: the last answer that was put into the map
    answers,       \* history: how many there were
    unsure         \* history: keys with a failed write, or cleared during one

mapVars == <<saveDNSCache, newest, answers>>
dbVars == <<db, dbRDRC, unsure>>
vars == <<mapVars, dbVars, saveRDRC, caller, writer, clearing, closing>>

\* The zero value of saveDNSCacheEntry, which an absent key yields.
NoEntry == [answer |-> 0, sequence |-> 0]
Pending(k) == saveDNSCache[k].sequence # 0

Labels == {"idle", "read", "save", "check", "reject", "forget", "end"}

Init ==
    /\ saveDNSCache = [k \in Keys |-> NoEntry] /\ saveRDRC = {}
    /\ caller \in [Callers -> {[at |-> "idle", key |-> k] : k \in Keys}]
    /\ writer \in [Writers -> {[at |-> "idle", key |-> k, entry |-> NoEntry] : k \in Keys}]
    /\ clearing = {"start"} /\ closing = "open"
    /\ db = [k \in Keys |-> 0] /\ dbRDRC = {}
    /\ newest = [k \in Keys |-> 0] /\ answers = 0 /\ unsure = {}

closed == closing # "open"
SaveDNSCacheAccessFree == \A p \in Callers : caller[p].at # "dns"
SaveRDRCAccessFree == \A p \in Callers : caller[p].at # "rdrc"

-----------------------------------------------------------------------------
(* Saving.                                                                    *)

\* The entry of a key is replaced by one with a new answer.
Enter(k) ==
    /\ answers < MaxAnswers
    /\ answers' = answers + 1
    /\ newest' = [newest EXCEPT ![k] = answers']
    /\ saveDNSCache' = [saveDNSCache EXCEPT ![k] = [answer |-> answers', sequence |-> @.sequence + 1]]

\* queueDNSCacheSave: a goroutine that writes the key takes the new answer too,
\* otherwise beginAsyncWrite is called with the lock held.
QueueDNSCacheSave(p, k) ==
    /\ "dns" \in Stores
    /\ caller[p].at = "idle" /\ SaveDNSCacheAccessFree /\ ~closed
    /\ \/ Pending(k) /\ Enter(k) /\ UNCHANGED caller
       \/ /\ ~Pending(k) /\ answers < MaxAnswers
          /\ caller' = [caller EXCEPT ![p] = [at |-> "dns", key |-> k]]
          /\ UNCHANGED mapVars
    /\ UNCHANGED <<dbVars, saveRDRC, writer, clearing, closing>>

\* SaveRDRCAsync, which does not look at closed before it calls beginAsyncWrite.
SaveRDRCAsync(p, k) ==
    /\ "rdrc" \in Stores
    /\ caller[p].at = "idle" /\ SaveRDRCAccessFree /\ k \notin saveRDRC
    /\ caller' = [caller EXCEPT ![p] = [at |-> "rdrc", key |-> k]]
    /\ UNCHANGED <<mapVars, dbVars, saveRDRC, writer, clearing, closing>>

AsyncAccessFree == closing # "wait"

\* beginAsyncWrite refuses: the file is closed, or there is no token, be it that the saves
\* of FakeIP have them, which may be so at any time (module FakeIP).
Refused(p) ==
    /\ caller[p].at # "idle" /\ AsyncAccessFree
    /\ caller' = [caller EXCEPT ![p].at = "idle"]
    /\ UNCHANGED <<mapVars, dbVars, saveRDRC, writer, clearing, closing>>

\* beginAsyncWrite gives a token, and the caller starts a goroutine.
BeginAsyncWrite(p, w) ==
    /\ caller[p].at # "idle" /\ AsyncAccessFree
    /\ ~closed /\ writer[w].at = "idle"
    /\ caller' = [caller EXCEPT ![p].at = "idle"]
    /\ LET k == caller[p].key
           Go(label) == writer' = [writer EXCEPT ![w] = [at |-> label, key |-> k, entry |-> NoEntry]]
       IN \/ caller[p].at = "dns" /\ Enter(k) /\ Go("read") /\ UNCHANGED saveRDRC
          \/ caller[p].at = "rdrc" /\ saveRDRC' = saveRDRC \cup {k} /\ Go("reject") /\ UNCHANGED mapVars
    /\ UNCHANGED <<dbVars, clearing, closing>>

-----------------------------------------------------------------------------
(* The goroutines that write.                                                 *)

GoTo(w, label) == writer' = [writer EXCEPT ![w].at = label]

\* flushPendingDNSCacheWith: the entry is read,
FlushRead(w) ==
    /\ writer[w].at = "read" /\ SaveDNSCacheAccessFree
    /\ LET k == writer[w].key IN
       \/ ~Pending(k) /\ GoTo(w, "end")
       \/ Pending(k) /\ writer' = [writer EXCEPT ![w] = [at |-> "save", key |-> k, entry |-> saveDNSCache[k]]]
    /\ UNCHANGED <<mapVars, dbVars, saveRDRC, caller, clearing, closing>>

\* written by SaveDNSCache, which fails once the file is closed,
FlushSave(w) ==
    /\ writer[w].at = "save"
    /\ GoTo(w, "check")
    /\ LET k == writer[w].key IN
       \/ ~closed /\ db' = [db EXCEPT ![k] = writer[w].entry.answer] /\ UNCHANGED unsure
       \/ unsure' = unsure \cup {k} /\ UNCHANGED db
    /\ UNCHANGED <<mapVars, dbRDRC, saveRDRC, caller, clearing, closing>>

Replaced(w) == saveDNSCache[writer[w].key].sequence # writer[w].entry.sequence

\* and deleted from the map, unless it was replaced meanwhile.
FlushCheck(w) ==
    /\ writer[w].at = "check" /\ SaveDNSCacheAccessFree
    /\ LET k == writer[w].key IN
       \/ ~Pending(k) /\ GoTo(w, "end") /\ UNCHANGED saveDNSCache
       \/ Pending(k) /\ Replaced(w) /\ GoTo(w, "read") /\ UNCHANGED saveDNSCache
       \/ /\ Pending(k) /\ ~Replaced(w) /\ GoTo(w, "end")
          /\ saveDNSCache' = [saveDNSCache EXCEPT ![k] = NoEntry]
    /\ UNCHANGED <<newest, answers, dbVars, saveRDRC, caller, clearing, closing>>

\* The goroutine of SaveRDRCAsync: SaveRDRC,
SaveRDRC(w) ==
    /\ writer[w].at = "reject"
    /\ GoTo(w, "forget")
    /\ \/ ~closed /\ dbRDRC' = dbRDRC \cup {writer[w].key}
       \/ UNCHANGED dbRDRC
    /\ UNCHANGED <<mapVars, db, unsure, saveRDRC, caller, clearing, closing>>

\* then the entry is deleted.
ForgetRDRC(w) ==
    /\ writer[w].at = "forget" /\ SaveRDRCAccessFree
    /\ saveRDRC' = saveRDRC \ {writer[w].key}
    /\ GoTo(w, "end")
    /\ UNCHANGED <<mapVars, dbVars, caller, clearing, closing>>

EndAsyncWrite(w) ==
    /\ writer[w].at = "end"
    /\ GoTo(w, "idle")
    /\ UNCHANGED <<mapVars, dbVars, saveRDRC, caller, clearing, closing>>

-----------------------------------------------------------------------------
(* Clearing and cleaning up.                                                  *)

Flushing(w, k) == writer[w].key = k /\ writer[w].at \in {"read", "save", "check"}

\* ClearDNSCache empties the map; a goroutine that holds an entry goes on with it.
ClearDNSCache ==
    /\ "dns" \in Stores \ clearing /\ SaveDNSCacheAccessFree
    /\ clearing' = clearing \cup {"dns"}
    /\ saveDNSCache' = [k \in Keys |-> NoEntry]
    /\ unsure' = unsure \cup {k \in Keys : \E w \in Writers : Flushing(w, k)}
    /\ UNCHANGED <<newest, answers, db, dbRDRC, saveRDRC, caller, writer, closing>>

\* Then it deletes the bucket.
ClearBucket ==
    /\ "dns" \in clearing
    /\ clearing' = clearing \ {"dns"}
    /\ \/ ~closed /\ db' = [k \in Keys |-> 0]
       \/ UNCHANGED db
    /\ UNCHANGED <<mapVars, dbRDRC, unsure, saveRDRC, caller, writer, closing>>

\* startCacheCleanup: where answers are stored, clearRDRC empties the map of rejections
StartCacheCleanup ==
    /\ "start" \in clearing
    /\ \/ /\ "dns" \in Stores /\ SaveRDRCAccessFree
          /\ clearing' = (clearing \ {"start"}) \cup {"rdrc"} /\ saveRDRC' = {}
       \/ "dns" \notin Stores /\ clearing' = clearing \ {"start"} /\ UNCHANGED saveRDRC
    /\ UNCHANGED <<mapVars, dbVars, caller, writer, closing>>

\* and deletes their bucket.
ClearRDRC ==
    /\ "rdrc" \in clearing
    /\ clearing' = clearing \ {"rdrc"}
    /\ \/ ~closed /\ dbRDRC' = {}
       \/ UNCHANGED dbRDRC
    /\ UNCHANGED <<mapVars, db, unsure, saveRDRC, caller, writer, closing>>

cleaning == ~closed /\ clearing \cap {"start", "rdrc"} = {}

\* The loop of startCacheCleanup deletes what has expired: answers,
CleanupDNSCache ==
    /\ "dns" \in Stores /\ cleaning
    /\ \E K \in SUBSET Keys : db' = [k \in Keys |-> IF k \in K THEN 0 ELSE db[k]]
    /\ UNCHANGED <<mapVars, dbRDRC, unsure, saveRDRC, caller, writer, clearing, closing>>

\* or rejections.
CleanupRDRC ==
    /\ Stores = {"rdrc"} /\ cleaning
    /\ \E K \in SUBSET Keys : dbRDRC' = dbRDRC \ K
    /\ UNCHANGED <<mapVars, db, unsure, saveRDRC, caller, writer, clearing, closing>>

\* LoadRDRC deletes a rejection that it found expired in an earlier transaction.
LoadRDRC(k) ==
    /\ "rdrc" \in Stores /\ ~closed
    /\ dbRDRC' = dbRDRC \ {k}
    /\ UNCHANGED <<mapVars, db, unsure, saveRDRC, caller, writer, clearing, closing>>

\* A transaction panics on a corrupt file, and resetDB replaces the file by an empty one.
ResetDB ==
    /\ ~closed
    /\ db' = [k \in Keys |-> 0] /\ dbRDRC' = {}
    /\ UNCHANGED <<mapVars, unsure, saveRDRC, caller, writer, clearing, closing>>

-----------------------------------------------------------------------------
(* Closing.                                                                   *)

CloseTo(from, to) ==
    /\ closing = from /\ closing' = to
    /\ UNCHANGED <<dbVars, newest, answers, caller, writer, clearing>>

\* Close sets closed,
CloseBegins == CloseTo("open", "stop") /\ UNCHANGED <<saveDNSCache, saveRDRC>>

\* takes asyncAccess,
CloseLocks == CloseTo("stop", "wait") /\ UNCHANGED <<saveDNSCache, saveRDRC>>

\* waits with it for the goroutines, and unlocks it,
CloseWaits ==
    /\ \A w \in Writers : writer[w].at = "idle"
    /\ CloseTo("wait", "rdrc") /\ UNCHANGED <<saveDNSCache, saveRDRC>>

\* empties the maps (clearPendingAsyncState) and closes the database.
CloseClearsRDRC ==
    /\ SaveRDRCAccessFree
    /\ CloseTo("rdrc", "dns") /\ saveRDRC' = {} /\ UNCHANGED saveDNSCache

CloseClearsDNS ==
    /\ SaveDNSCacheAccessFree
    /\ CloseTo("dns", "done") /\ saveDNSCache' = [k \in Keys |-> NoEntry] /\ UNCHANGED saveRDRC

-----------------------------------------------------------------------------
Call(p) == \E k \in Keys : QueueDNSCacheSave(p, k) \/ SaveRDRCAsync(p, k)

Return(p) == Refused(p) \/ \E w \in Writers : BeginAsyncWrite(p, w)

Write(w) ==
    \/ FlushRead(w) \/ FlushSave(w) \/ FlushCheck(w)
    \/ SaveRDRC(w) \/ ForgetRDRC(w) \/ EndAsyncWrite(w)

Clear == ClearDNSCache \/ ClearBucket \/ StartCacheCleanup \/ ClearRDRC

Expire == CleanupDNSCache \/ CleanupRDRC \/ ResetDB \/ \E k \in Keys : LoadRDRC(k)

CloseStep == CloseLocks \/ CloseWaits \/ CloseClearsRDRC \/ CloseClearsDNS

Next ==
    \/ \E p \in Callers : Call(p) \/ Return(p)
    \/ \E w \in Writers : Write(w)
    \/ Clear \/ Expire \/ CloseBegins \/ CloseStep

Spec == Init /\ [][Next]_vars

\* Goroutines go on whenever they can, and a mutex starves nobody.
FairSpec ==
    /\ Spec
    /\ \A p \in Callers : SF_vars(Return(p))
    /\ \A w \in Writers : SF_vars(Write(w))
    /\ SF_vars(CloseStep)

-----------------------------------------------------------------------------
TypeOK ==
    /\ saveDNSCache \in [Keys -> [answer : Nat, sequence : Nat]] /\ saveRDRC \subseteq Keys
    /\ caller \in [Callers -> [at : {"idle", "dns", "rdrc"}, key : Keys]]
    /\ writer \in [Writers -> [at : Labels, key : Keys, entry : [answer : Nat, sequence : Nat]]]
    /\ clearing \subseteq {"start", "dns", "rdrc"} /\ closing \in {"open", "stop", "wait", "rdrc", "dns", "done"}
    /\ db \in [Keys -> Nat] /\ dbRDRC \subseteq Keys
    /\ newest \in [Keys -> Nat] /\ answers \in Nat /\ unsure \subseteq Keys

\* Close returns, as TestCacheFileCloseRejectsLaterWritesAndAsyncSaves expects.  It does
\* not when a caller of beginAsyncWrite waits for the asyncAccess that Close holds, and
\* a goroutine that Close waits for needs the lock which that caller holds.
CloseReturns == closing = "stop" ~> closing = "done"

\* An entry of either map has a goroutine that will delete it: an entry without one would
\* keep its "saving" for ever, and its key would never be written again.
EntryHasWriter ==
    /\ \A k \in Keys : Pending(k) => \E w \in Writers : Flushing(w, k)
    /\ \A k \in saveRDRC : \E w \in Writers : writer[w].key = k /\ writer[w].at \in {"reject", "forget"}

\* What LoadDNSCache returns, from the map or else from the database.
LoadDNSCache(k) == IF Pending(k) THEN saveDNSCache[k].answer ELSE db[k]

\* An answer is never replaced by an older one, whatever is saved while it is written: a
\* load returns the newest or nothing, unless a write of the key failed or the cache was
\* cleared during one.
NewestIsLoaded == \A k \in Keys \ unsure : LoadDNSCache(k) \in {0, newest[k]}

\* When Close empties the maps nothing is left in them and nobody writes any more.
NothingAfterClose ==
    closing \in {"rdrc", "dns", "done"} =>
        /\ \A w \in Writers : writer[w].at = "idle"
        /\ saveRDRC = {} /\ \A k \in Keys : ~Pending(k)
=============================================================================

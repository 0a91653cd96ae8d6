------------------------ MODULE DNSCacheFile_proofs -------------------------
(***************************************************************************)
(* Proofs about DNSCacheFile, for any keys, callers and tokens.            *)
(***************************************************************************)
EXTENDS DNSCacheFile, TLAPS

Entries == [answer : Nat, sequence : Nat]

\* saveDNSCacheAccess is a lock, and the caller that holds it has seen no entry.
CallerInv ==
    /\ \A p, q \in Callers : caller[p].at = "dns" /\ caller[q].at = "dns" => p = q
    /\ \A p \in Callers : caller[p].at = "dns" => ~Pending(caller[p].key)

DNSHasWriter == \A k \in Keys : Pending(k) => \E w \in Writers : Flushing(w, k)

Rejecting(w, k) == writer[w].key = k /\ writer[w].at \in {"reject", "forget"}

RDRCHasWriter == \A k \in saveRDRC : \E w \in Writers : Rejecting(w, k)

CloseInv ==
    closing \in {"rdrc", "dns", "done"} => \A w \in Writers : writer[w].at = "idle"

\* The goroutine that writes the key is the only one and has read this entry or an
\* earlier one.  Where it is about to delete the entry the database has its answer.
OneWriter(k) ==
    /\ \A w \in Writers : Flushing(w, k) => Pending(k)
    /\ \A v, w \in Writers : Flushing(v, k) /\ Flushing(w, k) => v = w

WriterOK(w, k) ==
    Flushing(w, k) /\ writer[w].at # "read" =>
        /\ writer[w].entry.sequence <= saveDNSCache[k].sequence
        /\ writer[w].entry.sequence = saveDNSCache[k].sequence =>
               /\ writer[w].entry.answer = newest[k]
               /\ writer[w].at = "check" => db[k] \in {0, newest[k]}

EntryOK(k) ==
    /\ Pending(k) => saveDNSCache[k].answer = newest[k]
    /\ ~Pending(k) => db[k] \in {0, newest[k]}

KeyOK(k) == OneWriter(k) /\ EntryOK(k) /\ \A w \in Writers : WriterOK(w, k)

KeyInv == \A k \in Keys : k \notin unsure => KeyOK(k)

IndInv == TypeOK /\ CallerInv /\ CloseInv /\ DNSHasWriter /\ RDRCHasWriter /\ KeyInv

-----------------------------------------------------------------------------
LEMMA InitIndInv == Init => IndInv
<1> SUFFICES ASSUME Init PROVE IndInv
    OBVIOUS
<1> USE DEF Init, NoEntry
<1>1. TypeOK
  <2>1. \A p \in Callers : caller[p] \in [at : {"idle", "dns", "rdrc"}, key : Keys] OBVIOUS
  <2>2. \A w \in Writers : writer[w] \in [at : Labels, key : Keys, entry : Entries]
      BY DEF Labels, Entries
  <2>3. caller \in [Callers -> [at : {"idle", "dns", "rdrc"}, key : Keys]] BY <2>1
  <2>4. writer \in [Writers -> [at : Labels, key : Keys, entry : Entries]] BY <2>2
  <2> QED BY <2>3, <2>4 DEF TypeOK, Entries
<1>2. \A w \in Writers : writer[w].at = "idle" OBVIOUS
<1>3. CallerInv BY DEF CallerInv
<1>4. CloseInv BY DEF CloseInv
<1>5. \A k \in Keys : ~Pending(k) BY DEF Pending
<1>6. DNSHasWriter /\ RDRCHasWriter BY <1>5 DEF DNSHasWriter, RDRCHasWriter
<1>7. KeyInv BY <1>2, <1>5 DEF KeyInv, KeyOK, OneWriter, EntryOK, WriterOK, Flushing
<1> QED BY <1>1, <1>3, <1>4, <1>6, <1>7 DEF IndInv

LEMMA LabelsAre ==
    /\ "idle" \in Labels /\ "read" \in Labels /\ "save" \in Labels /\ "check" \in Labels
    /\ "reject" \in Labels /\ "forget" \in Labels /\ "end" \in Labels
BY DEF Labels

\* A goroutine that goes to another label keeps its key and its entry.
LEMMA GoToStep ==
    ASSUME TypeOK, NEW w \in Writers, NEW label \in Labels, GoTo(w, label)
    PROVE  /\ writer' \in [Writers -> [at : Labels, key : Keys, entry : Entries]]
           /\ writer'[w].at = label /\ writer'[w].key = writer[w].key
           /\ writer'[w].entry = writer[w].entry
           /\ \A v \in Writers : v # w => writer'[v] = writer[v]
<1>1. writer[w] \in [at : Labels, key : Keys, entry : Entries] BY DEF TypeOK, Entries
<1>2. writer' = [writer EXCEPT ![w] = [at |-> label, key |-> writer[w].key, entry |-> writer[w].entry]]
  <2>1. [writer[w] EXCEPT !.at = label] = [at |-> label, key |-> writer[w].key, entry |-> writer[w].entry]
      BY <1>1
  <2> QED BY <2>1 DEF GoTo
<1>3. writer'[w] = [at |-> label, key |-> writer[w].key, entry |-> writer[w].entry]
    BY <1>2 DEF TypeOK
<1>4. writer' \in [Writers -> [at : Labels, key : Keys, entry : Entries]]
    BY <1>1, <1>2 DEF TypeOK, Entries
<1>5. \A v \in Writers : v # w => writer'[v] = writer[v] BY <1>2 DEF TypeOK
<1> QED BY <1>3, <1>4, <1>5

\* Enter replaces the entry of its key and leaves the others.
LEMMA EnterStep ==
    ASSUME TypeOK, NEW j \in Keys, Enter(j)
    PROVE  /\ answers' \in Nat /\ saveDNSCache' \in [Keys -> Entries] /\ newest' \in [Keys -> Nat]
           /\ saveDNSCache[j].sequence \in Nat
           /\ saveDNSCache'[j].sequence = saveDNSCache[j].sequence + 1
           /\ saveDNSCache'[j].answer = newest'[j]
           /\ Pending(j)'
           /\ \A k \in Keys : k # j => saveDNSCache'[k] = saveDNSCache[k] /\ newest'[k] = newest[k]
<1> DEFINE entry == [answer |-> answers', sequence |-> saveDNSCache[j].sequence + 1]
<1>1. answers' \in Nat /\ saveDNSCache[j].sequence \in Nat BY DEF Enter, TypeOK
<1>2. entry \in Entries BY <1>1 DEF Entries
<1>3. saveDNSCache' = [saveDNSCache EXCEPT ![j] = entry] /\ newest' = [newest EXCEPT ![j] = answers']
    BY DEF Enter
<1>4. saveDNSCache' \in [Keys -> Entries] BY <1>2, <1>3 DEF TypeOK, Entries
<1>5. newest' \in [Keys -> Nat] BY <1>1, <1>3 DEF TypeOK
<1>6. saveDNSCache'[j] = entry /\ newest'[j] = answers' BY <1>3 DEF TypeOK
<1>7. /\ saveDNSCache'[j].sequence = saveDNSCache[j].sequence + 1
      /\ saveDNSCache'[j].answer = newest'[j]
    BY <1>6
<1>8. Pending(j)' BY <1>1, <1>7 DEF Pending
<1>9. \A k \in Keys : k # j => saveDNSCache'[k] = saveDNSCache[k] /\ newest'[k] = newest[k]
    BY <1>3 DEF TypeOK
<1> QED BY <1>1, <1>4, <1>5, <1>7, <1>8, <1>9

\* Deleting what has expired, or the whole file, only removes from the database.
LEMMA ExpireStep ==
    ASSUME TypeOK, Expire
    PROVE  /\ saveDNSCache' = saveDNSCache /\ newest' = newest /\ answers' = answers
           /\ saveRDRC' = saveRDRC /\ caller' = caller /\ writer' = writer /\ unsure' = unsure
           /\ clearing' = clearing /\ closing' = closing
           /\ db' \in [Keys -> Nat] /\ dbRDRC' \subseteq Keys
           /\ \A k \in Keys : db'[k] \in {0, db[k]}
<1> USE DEF TypeOK, mapVars
<1>1. CASE CleanupDNSCache BY <1>1 DEF CleanupDNSCache
<1>2. CASE CleanupRDRC BY <1>2 DEF CleanupRDRC
<1>3. CASE ResetDB BY <1>3 DEF ResetDB
<1>4. ASSUME NEW k \in Keys, LoadRDRC(k)
      PROVE  /\ saveDNSCache' = saveDNSCache /\ newest' = newest /\ answers' = answers
             /\ saveRDRC' = saveRDRC /\ caller' = caller /\ writer' = writer /\ unsure' = unsure
             /\ clearing' = clearing /\ closing' = closing
             /\ db' = db /\ dbRDRC' \subseteq Keys
    BY <1>4 DEF LoadRDRC
<1> QED BY <1>1, <1>2, <1>3, <1>4 DEF Expire

\* A caller that returns keeps its key.
LEMMA IdleStep ==
    ASSUME TypeOK, NEW p \in Callers, caller' = [caller EXCEPT ![p].at = "idle"]
    PROVE  caller' \in [Callers -> [at : {"idle", "dns", "rdrc"}, key : Keys]]
<1>1. caller[p] \in [at : {"idle", "dns", "rdrc"}, key : Keys] BY DEF TypeOK
<1>2. [caller[p] EXCEPT !.at = "idle"] = [at |-> "idle", key |-> caller[p].key] BY <1>1
<1>3. caller' = [caller EXCEPT ![p] = [at |-> "idle", key |-> caller[p].key]] BY <1>2
<1>4. [at |-> "idle", key |-> caller[p].key] \in [at : {"idle", "dns", "rdrc"}, key : Keys] BY <1>1
<1>5. caller \in [Callers -> [at : {"idle", "dns", "rdrc"}, key : Keys]] BY DEF TypeOK
<1> QED BY <1>3, <1>4, <1>5

LEMMA TypeStep == TypeOK /\ [Next]_vars => TypeOK'
<1> SUFFICES ASSUME TypeOK, [Next]_vars PROVE TypeOK'
    OBVIOUS
<1> USE DEF TypeOK, Labels, mapVars, dbVars
<1>1. ASSUME NEW p \in Callers, NEW k \in Keys, QueueDNSCacheSave(p, k) PROVE TypeOK'
  <2>1. CASE Pending(k) /\ Enter(k) /\ UNCHANGED caller BY <1>1, <2>1, EnterStep DEF QueueDNSCacheSave, Entries
  <2>2. CASE caller' = [caller EXCEPT ![p] = [at |-> "dns", key |-> k]] /\ UNCHANGED mapVars
    <3>1. caller' \in [Callers -> [at : {"idle", "dns", "rdrc"}, key : Keys]] BY <2>2
    <3> QED BY <1>1, <2>2, <3>1 DEF QueueDNSCacheSave
  <2> QED BY <1>1, <2>1, <2>2 DEF QueueDNSCacheSave
<1>2. ASSUME NEW p \in Callers, NEW k \in Keys, SaveRDRCAsync(p, k) PROVE TypeOK'
    BY <1>2 DEF SaveRDRCAsync
<1>3. ASSUME NEW p \in Callers, Refused(p) PROVE TypeOK'
  <2>1. caller' \in [Callers -> [at : {"idle", "dns", "rdrc"}, key : Keys]]
      BY <1>3, IdleStep DEF Refused
  <2> QED BY <1>3, <2>1 DEF Refused
<1>4. ASSUME NEW p \in Callers, NEW w \in Writers, BeginAsyncWrite(p, w) PROVE TypeOK'
  <2> DEFINE k == caller[p].key
  <2>1. k \in Keys OBVIOUS
  <2>2. caller' \in [Callers -> [at : {"idle", "dns", "rdrc"}, key : Keys]]
      BY <1>4, IdleStep DEF BeginAsyncWrite
  <2>3. ASSUME NEW label \in Labels,
               writer' = [writer EXCEPT ![w] = [at |-> label, key |-> k, entry |-> NoEntry]]
        PROVE  writer' \in [Writers -> [at : Labels, key : Keys, entry : Entries]]
      BY <2>1, <2>3 DEF NoEntry, Entries
  <2>4. writer' \in [Writers -> [at : Labels, key : Keys, entry : Entries]]
      BY <1>4, <2>3 DEF BeginAsyncWrite
  <2>5. CASE caller[p].at = "dns" /\ Enter(k) /\ UNCHANGED saveRDRC
      BY <1>4, <2>1, <2>2, <2>4, <2>5, EnterStep DEF BeginAsyncWrite, Entries
  <2>6. CASE saveRDRC' = saveRDRC \cup {k} /\ UNCHANGED mapVars
      BY <1>4, <2>1, <2>2, <2>4, <2>6 DEF BeginAsyncWrite, Entries
  <2> QED BY <1>4, <2>5, <2>6 DEF BeginAsyncWrite
<1>5. ASSUME NEW w \in Writers, FlushRead(w) PROVE TypeOK'
  <2>1. CASE GoTo(w, "end") BY <1>5, <2>1, GoToStep DEF FlushRead, Entries
  <2>2. CASE writer' = [writer EXCEPT ![w] = [at |-> "save", key |-> writer[w].key,
                                              entry |-> saveDNSCache[writer[w].key]]]
      BY <1>5, <2>2 DEF FlushRead
  <2> QED BY <1>5, <2>1, <2>2 DEF FlushRead
<1>6. ASSUME NEW w \in Writers, FlushSave(w) PROVE TypeOK'
  <2>1. writer' \in [Writers -> [at : Labels, key : Keys, entry : Entries]]
      BY <1>6, GoToStep DEF FlushSave
  <2> QED BY <1>6, <2>1 DEF FlushSave, Entries
<1>7. ASSUME NEW w \in Writers, FlushCheck(w) PROVE TypeOK'
  <2>1. writer' \in [Writers -> [at : Labels, key : Keys, entry : Entries]]
    <3>1. GoTo(w, "end") \/ GoTo(w, "read") BY <1>7 DEF FlushCheck
    <3> QED BY <3>1, GoToStep
  <2>2. saveDNSCache' \in [Keys -> Entries] BY <1>7 DEF FlushCheck, NoEntry, Entries
  <2> QED BY <1>7, <2>1, <2>2 DEF FlushCheck, Entries
<1>8. ASSUME NEW w \in Writers, SaveRDRC(w) PROVE TypeOK'
    BY <1>8 DEF SaveRDRC, GoTo
<1>9. ASSUME NEW w \in Writers, ForgetRDRC(w) PROVE TypeOK'
    BY <1>9 DEF ForgetRDRC, GoTo
<1>10. ASSUME NEW w \in Writers, EndAsyncWrite(w) PROVE TypeOK'
    BY <1>10 DEF EndAsyncWrite, GoTo
<1>11. CASE ClearDNSCache BY <1>11 DEF ClearDNSCache, NoEntry
<1>12. CASE ClearBucket BY <1>12 DEF ClearBucket
<1>13. CASE ClearRDRC BY <1>13 DEF ClearRDRC
<1>14. CASE StartCacheCleanup BY <1>14 DEF StartCacheCleanup
<1>15. CASE CloseBegins \/ CloseLocks \/ CloseWaits
    BY <1>15 DEF CloseBegins, CloseLocks, CloseWaits, CloseTo
<1>16. CASE CloseClearsRDRC BY <1>16 DEF CloseClearsRDRC, CloseTo
<1>17. CASE CloseClearsDNS BY <1>17 DEF CloseClearsDNS, CloseTo, NoEntry
<1>18. CASE Expire BY <1>18, ExpireStep DEF Entries, TypeOK
<1>19. CASE UNCHANGED vars BY <1>19 DEF vars
<1> QED
    BY <1>1, <1>2, <1>3, <1>4, <1>5, <1>6, <1>7, <1>8, <1>9, <1>10, <1>11, <1>12, <1>13,
       <1>14, <1>15, <1>16, <1>17, <1>18, <1>19
    DEF Next, Call, Return, Write, Clear, CloseStep

-----------------------------------------------------------------------------
(* Steps that leave the maps, the database's answers and the goroutines of    *)
(* flushPendingDNSCache alone.                                                *)

LEMMA QuietStep ==
    ASSUME TypeOK, KeyInv, unsure' = unsure, saveDNSCache' = saveDNSCache, newest' = newest,
           \A k \in Keys : db'[k] \in {0, db[k]},
           \A w \in Writers : \/ writer'[w] = writer[w]
                              \/ writer[w].at \notin {"read", "save", "check"}
                                 /\ writer'[w].at \notin {"read", "save", "check"}
    PROVE  KeyInv'
<1> SUFFICES ASSUME NEW k \in Keys, k \notin unsure PROVE KeyOK(k)'
    BY DEF KeyInv
<1>1. KeyOK(k) BY DEF KeyInv
<1>2. Pending(k)' = Pending(k) BY DEF Pending
<1>3. \A w \in Writers : Flushing(w, k)' => Flushing(w, k) /\ writer'[w] = writer[w]
    BY DEF Flushing
<1>4. OneWriter(k)' BY <1>1, <1>2, <1>3 DEF KeyOK, OneWriter
<1>5. EntryOK(k)' BY <1>1, <1>2 DEF KeyOK, EntryOK
<1>6. \A w \in Writers : WriterOK(w, k)' BY <1>1, <1>3 DEF KeyOK, WriterOK
<1> QED BY <1>4, <1>5, <1>6 DEF KeyOK

-----------------------------------------------------------------------------
(* The parts of the invariant that are about callers and about Close.         *)

LEMMA CallerStep == TypeOK /\ CallerInv /\ [Next]_vars => CallerInv'
<1> SUFFICES ASSUME TypeOK, CallerInv, [Next]_vars PROVE CallerInv'
    OBVIOUS
<1> USE DEF mapVars
<1>1. ASSUME caller' = caller, \A k \in Keys : Pending(k)' => Pending(k) PROVE CallerInv'
    BY <1>1 DEF CallerInv, TypeOK
<1>2. ASSUME NEW p \in Callers, NEW k \in Keys, QueueDNSCacheSave(p, k) PROVE CallerInv'
  <2>1. \A q \in Callers : caller[q].at # "dns"
      BY <1>2 DEF QueueDNSCacheSave, SaveDNSCacheAccessFree
  <2>2. CASE caller' = caller BY <2>1, <2>2 DEF CallerInv
  <2>3. CASE /\ ~Pending(k) /\ UNCHANGED mapVars
             /\ caller' = [caller EXCEPT ![p] = [at |-> "dns", key |-> k]]
      BY <2>1, <2>3 DEF CallerInv, TypeOK, Pending
  <2> QED BY <1>2, <2>2, <2>3 DEF QueueDNSCacheSave
<1>3. ASSUME NEW p \in Callers, NEW k \in Keys, SaveRDRCAsync(p, k) PROVE CallerInv'
    BY <1>3 DEF SaveRDRCAsync, CallerInv, TypeOK, Pending
<1>4. ASSUME NEW p \in Callers, Refused(p) PROVE CallerInv'
    BY <1>4 DEF Refused, CallerInv, TypeOK, Pending
<1>5. ASSUME NEW p \in Callers, NEW w \in Writers, BeginAsyncWrite(p, w) PROVE CallerInv'
  <2>1. \A q \in Callers : caller'[q].at = "dns" => q # p /\ caller'[q] = caller[q]
      BY <1>5 DEF BeginAsyncWrite, TypeOK
  <2>2. CASE caller[p].at = "dns" BY <2>1, <2>2 DEF CallerInv
  <2>3. CASE UNCHANGED mapVars BY <2>1, <2>3 DEF CallerInv, Pending
  <2> QED BY <1>5, <2>2, <2>3 DEF BeginAsyncWrite
<1>6. ASSUME NEW w \in Writers, Write(w) PROVE CallerInv'
  <2>1. caller' = caller
      BY <1>6 DEF Write, FlushRead, FlushSave, FlushCheck, SaveRDRC, ForgetRDRC, EndAsyncWrite
  <2>2. CASE saveDNSCache' = saveDNSCache BY <1>1, <2>1, <2>2 DEF Pending
  <2>3. CASE saveDNSCache' = [saveDNSCache EXCEPT ![writer[w].key] = NoEntry]
      BY <1>1, <2>1, <2>3 DEF Pending, NoEntry, TypeOK
  <2> QED
      BY <1>6, <2>2, <2>3
      DEF Write, FlushRead, FlushSave, FlushCheck, SaveRDRC, ForgetRDRC, EndAsyncWrite
<1>7. CASE Clear \/ CloseBegins \/ CloseStep
  <2>1. caller' = caller
      BY <1>7 DEF Clear, ClearDNSCache, ClearBucket, ClearRDRC, StartCacheCleanup, CloseBegins,
                  CloseStep, CloseLocks, CloseWaits, CloseClearsRDRC, CloseClearsDNS, CloseTo
  <2>2. saveDNSCache' = saveDNSCache \/ saveDNSCache' = [k \in Keys |-> NoEntry]
      BY <1>7 DEF Clear, ClearDNSCache, ClearBucket, ClearRDRC, StartCacheCleanup, CloseBegins,
                  CloseStep, CloseLocks, CloseWaits, CloseClearsRDRC, CloseClearsDNS, CloseTo
  <2> QED BY <1>1, <2>1, <2>2 DEF Pending, NoEntry
<1>8. CASE Expire BY <1>1, <1>8, ExpireStep DEF Pending
<1>9. CASE UNCHANGED vars BY <1>1, <1>9 DEF vars, Pending
<1> QED BY <1>2, <1>3, <1>4, <1>5, <1>6, <1>7, <1>8, <1>9 DEF Next, Call, Return

LEMMA CloseStepInv == TypeOK /\ CloseInv /\ [Next]_vars => CloseInv'
<1> SUFFICES ASSUME TypeOK, CloseInv, [Next]_vars PROVE CloseInv'
    OBVIOUS
<1>1. ASSUME closing' = closing, writer' = writer PROVE CloseInv'
    BY <1>1 DEF CloseInv
<1>2. ASSUME NEW p \in Callers, NEW k \in Keys, QueueDNSCacheSave(p, k) \/ SaveRDRCAsync(p, k)
      PROVE CloseInv'
    BY <1>1, <1>2 DEF QueueDNSCacheSave, SaveRDRCAsync
<1>3. ASSUME NEW p \in Callers, Refused(p) PROVE CloseInv'
    BY <1>1, <1>3 DEF Refused
<1>4. ASSUME NEW p \in Callers, NEW w \in Writers, BeginAsyncWrite(p, w) PROVE CloseInv'
    BY <1>4 DEF BeginAsyncWrite, CloseInv, closed
<1>5. ASSUME NEW w \in Writers, Write(w) PROVE CloseInv'
  <2>1. writer[w].at # "idle" /\ closing' = closing
      BY <1>5 DEF Write, FlushRead, FlushSave, FlushCheck, SaveRDRC, ForgetRDRC, EndAsyncWrite
  <2> QED BY <2>1 DEF CloseInv
<1>6. CASE Clear \/ Expire
    BY <1>1, <1>6, ExpireStep DEF Clear, ClearDNSCache, ClearBucket, ClearRDRC, StartCacheCleanup
<1>7. CASE CloseBegins \/ CloseStep
    BY <1>7 DEF CloseInv, CloseBegins, CloseStep, CloseLocks, CloseWaits, CloseClearsRDRC,
                CloseClearsDNS, CloseTo
<1>8. CASE UNCHANGED vars BY <1>1, <1>8 DEF vars
<1> QED BY <1>2, <1>3, <1>4, <1>5, <1>6, <1>7, <1>8 DEF Next, Call, Return

-----------------------------------------------------------------------------
(* An entry has a goroutine that will delete it.                              *)

\* What a step of one goroutine may do.
LEMMA WriterStep ==
    ASSUME TypeOK, NEW w \in Writers, Write(w)
    PROVE  /\ \A v \in Writers : v # w => writer'[v] = writer[v]
           /\ writer'[w].key = writer[w].key
<1>1. ASSUME NEW label \in Labels, GoTo(w, label)
      PROVE  /\ \A v \in Writers : v # w => writer'[v] = writer[v]
             /\ writer'[w].key = writer[w].key
    BY <1>1, GoToStep
<1>2. CASE \E label \in Labels : GoTo(w, label) BY <1>1, <1>2
<1>3. CASE writer' = [writer EXCEPT ![w] = [at |-> "save", key |-> writer[w].key,
                                            entry |-> saveDNSCache[writer[w].key]]]
    BY <1>3 DEF TypeOK
<1> QED
    BY <1>2, <1>3, LabelsAre
    DEF Write, FlushRead, FlushSave, FlushCheck, SaveRDRC, ForgetRDRC, EndAsyncWrite

\* A goroutine stops flushing a key only where the key has no entry afterwards.
LEMMA FlushStep ==
    ASSUME TypeOK, NEW w \in Writers, Write(w), NEW k \in Keys, Flushing(w, k), Pending(k)'
    PROVE  Pending(k) /\ Flushing(w, k)'
<1>1. writer'[w].key = k BY WriterStep DEF Flushing
<1>2. CASE FlushRead(w)
  <2>1. Pending(k) BY <1>2 DEF FlushRead, mapVars, Pending
  <2>2. writer' = [writer EXCEPT ![w] = [at |-> "save", key |-> k, entry |-> saveDNSCache[k]]]
      BY <1>2, <2>1 DEF FlushRead, Flushing
  <2> QED BY <1>1, <2>1, <2>2 DEF Flushing, TypeOK
<1>3. CASE FlushSave(w)
  <2>1. Pending(k) BY <1>3 DEF FlushSave, mapVars, Pending
  <2>2. writer'[w].at = "check" BY <1>3, LabelsAre, GoToStep DEF FlushSave
  <2> QED BY <1>1, <2>1, <2>2 DEF Flushing
<1>4. CASE FlushCheck(w)
  <2>1. CASE saveDNSCache' = [saveDNSCache EXCEPT ![k] = NoEntry]
      BY <2>1 DEF Pending, NoEntry, TypeOK
  <2>2. CASE saveDNSCache' = saveDNSCache /\ GoTo(w, "read")
    <3>1. writer'[w].at = "read" BY <2>2, LabelsAre, GoToStep
    <3> QED BY <1>1, <2>2, <3>1 DEF Flushing, Pending
  <2>3. CASE saveDNSCache' = saveDNSCache /\ ~Pending(k)
      BY <2>3 DEF Pending
  <2> QED BY <1>4, <2>1, <2>2, <2>3 DEF FlushCheck, Flushing
<1>5. ASSUME SaveRDRC(w) \/ ForgetRDRC(w) \/ EndAsyncWrite(w) PROVE FALSE
    BY <1>5 DEF SaveRDRC, ForgetRDRC, EndAsyncWrite, Flushing
<1> QED BY <1>2, <1>3, <1>4, <1>5 DEF Write

LEMMA PendingStep ==
    ASSUME TypeOK, NEW w \in Writers, Write(w), NEW k \in Keys, Pending(k)'
    PROVE  Pending(k)
<1>1. CASE saveDNSCache' = saveDNSCache BY <1>1 DEF Pending
<1>2. CASE saveDNSCache' = [saveDNSCache EXCEPT ![writer[w].key] = NoEntry]
    BY <1>2 DEF Pending, NoEntry, TypeOK
<1> QED
    BY <1>1, <1>2
    DEF Write, FlushRead, FlushSave, FlushCheck, SaveRDRC, ForgetRDRC, EndAsyncWrite, mapVars

LEMMA DNSWriterStep == TypeOK /\ DNSHasWriter /\ [Next]_vars => DNSHasWriter'
<1> SUFFICES ASSUME TypeOK, DNSHasWriter, [Next]_vars, NEW k \in Keys, Pending(k)'
             PROVE  \E w \in Writers : Flushing(w, k)'
    BY DEF DNSHasWriter
<1> USE DEF mapVars
<1>1. ASSUME writer' = writer, Pending(k) PROVE \E w \in Writers : Flushing(w, k)'
    BY <1>1 DEF DNSHasWriter, Flushing
<1>2. ASSUME NEW p \in Callers, NEW j \in Keys, QueueDNSCacheSave(p, j)
      PROVE  \E w \in Writers : Flushing(w, k)'
  <2>1. CASE UNCHANGED mapVars BY <1>1, <1>2, <2>1 DEF QueueDNSCacheSave, Pending
  <2>2. CASE Pending(j) /\ Enter(j)
    <3>1. Pending(k) BY <2>2 DEF Enter, Pending, TypeOK
    <3> QED BY <1>1, <1>2, <3>1 DEF QueueDNSCacheSave
  <2> QED BY <1>2, <2>1, <2>2 DEF QueueDNSCacheSave
<1>3. ASSUME NEW p \in Callers, NEW j \in Keys, SaveRDRCAsync(p, j)
      PROVE  \E w \in Writers : Flushing(w, k)'
    BY <1>1, <1>3 DEF SaveRDRCAsync, Pending
<1>4. ASSUME NEW p \in Callers, Refused(p) PROVE \E w \in Writers : Flushing(w, k)'
    BY <1>1, <1>4 DEF Refused, Pending
<1>5. ASSUME NEW p \in Callers, NEW w \in Writers, BeginAsyncWrite(p, w)
      PROVE  \E v \in Writers : Flushing(v, k)'
  <2> DEFINE j == caller[p].key
  <2>1. writer[w].at = "idle" BY <1>5 DEF BeginAsyncWrite
  <2>2. \A v \in Writers : v # w => writer'[v] = writer[v] BY <1>5 DEF BeginAsyncWrite, TypeOK
  <2>3. CASE Pending(k)
    <3>1. PICK v \in Writers : Flushing(v, k) BY <2>3 DEF DNSHasWriter
    <3>2. v # w BY <2>1, <3>1 DEF Flushing
    <3> QED BY <2>2, <3>1, <3>2 DEF Flushing
  <2>4. CASE ~Pending(k)
    <3>1. Enter(j) /\ writer' = [writer EXCEPT ![w] = [at |-> "read", key |-> j, entry |-> NoEntry]]
        BY <1>5, <2>4 DEF BeginAsyncWrite, Pending
    <3>2. k = j BY <2>4, <3>1 DEF Enter, Pending, TypeOK
    <3>3. writer'[w] = [at |-> "read", key |-> k, entry |-> NoEntry] BY <3>1, <3>2 DEF TypeOK
    <3> QED BY <3>3 DEF Flushing
  <2> QED BY <2>3, <2>4
<1>6. ASSUME NEW w \in Writers, Write(w) PROVE \E v \in Writers : Flushing(v, k)'
  <2>1. PICK v \in Writers : Flushing(v, k) BY <1>6, PendingStep DEF DNSHasWriter
  <2>2. CASE v = w BY <1>6, <2>1, <2>2, FlushStep
  <2>3. CASE v # w
    <3>1. writer'[v] = writer[v] BY <1>6, <2>3, WriterStep
    <3> QED BY <2>1, <3>1 DEF Flushing
  <2> QED BY <2>2, <2>3
<1>7. CASE Clear \/ CloseBegins \/ CloseStep
  <2>1. writer' = writer
      BY <1>7 DEF Clear, ClearDNSCache, ClearBucket, ClearRDRC, StartCacheCleanup, CloseBegins,
                  CloseStep, CloseLocks, CloseWaits, CloseClearsRDRC, CloseClearsDNS, CloseTo
  <2>2. saveDNSCache' = saveDNSCache \/ saveDNSCache' = [j \in Keys |-> NoEntry]
      BY <1>7 DEF Clear, ClearDNSCache, ClearBucket, ClearRDRC, StartCacheCleanup, CloseBegins,
                  CloseStep, CloseLocks, CloseWaits, CloseClearsRDRC, CloseClearsDNS, CloseTo
  <2> QED BY <1>1, <2>1, <2>2 DEF Pending, NoEntry
<1>8. CASE Expire BY <1>1, <1>8, ExpireStep DEF Pending
<1>9. CASE UNCHANGED vars BY <1>1, <1>9 DEF vars, Pending
<1> QED BY <1>2, <1>3, <1>4, <1>5, <1>6, <1>7, <1>8, <1>9 DEF Next, Call, Return

LEMMA RDRCWriterStep == TypeOK /\ RDRCHasWriter /\ [Next]_vars => RDRCHasWriter'
<1> SUFFICES ASSUME TypeOK, RDRCHasWriter, [Next]_vars, NEW k \in saveRDRC'
             PROVE  \E w \in Writers : Rejecting(w, k)'
    BY DEF RDRCHasWriter
<1>1. ASSUME writer' = writer, k \in saveRDRC PROVE \E w \in Writers : Rejecting(w, k)'
    BY <1>1 DEF RDRCHasWriter, Rejecting
<1>2. ASSUME NEW p \in Callers, NEW j \in Keys, QueueDNSCacheSave(p, j) \/ SaveRDRCAsync(p, j)
      PROVE  \E w \in Writers : Rejecting(w, k)'
    BY <1>1, <1>2 DEF QueueDNSCacheSave, SaveRDRCAsync
<1>3. ASSUME NEW p \in Callers, Refused(p) PROVE \E w \in Writers : Rejecting(w, k)'
    BY <1>1, <1>3 DEF Refused
<1>4. ASSUME NEW p \in Callers, NEW w \in Writers, BeginAsyncWrite(p, w)
      PROVE  \E v \in Writers : Rejecting(v, k)'
  <2> DEFINE j == caller[p].key
  <2>1. writer[w].at = "idle" BY <1>4 DEF BeginAsyncWrite
  <2>2. \A v \in Writers : v # w => writer'[v] = writer[v] BY <1>4 DEF BeginAsyncWrite, TypeOK
  <2>3. CASE k \in saveRDRC
    <3>1. PICK v \in Writers : Rejecting(v, k) BY <2>3 DEF RDRCHasWriter
    <3>2. v # w BY <2>1, <3>1 DEF Rejecting
    <3> QED BY <2>2, <3>1, <3>2 DEF Rejecting
  <2>4. CASE k \notin saveRDRC
    <3>1. k = j /\ writer' = [writer EXCEPT ![w] = [at |-> "reject", key |-> j, entry |-> NoEntry]]
        BY <1>4, <2>4 DEF BeginAsyncWrite
    <3>2. writer'[w] = [at |-> "reject", key |-> k, entry |-> NoEntry] BY <3>1 DEF TypeOK
    <3> QED BY <3>2 DEF Rejecting
  <2> QED BY <2>3, <2>4
<1>5. ASSUME NEW w \in Writers, Write(w) PROVE \E v \in Writers : Rejecting(v, k)'
  <2>1. k \in saveRDRC
      BY <1>5 DEF Write, FlushRead, FlushSave, FlushCheck, SaveRDRC, ForgetRDRC, EndAsyncWrite
  <2>2. PICK v \in Writers : Rejecting(v, k) BY <2>1 DEF RDRCHasWriter
  <2>3. CASE v = w
    <3>1. SaveRDRC(w) \/ ForgetRDRC(w)
        BY <1>5, <2>2, <2>3 DEF Write, FlushRead, FlushSave, FlushCheck, EndAsyncWrite, Rejecting
    <3>2. ~ForgetRDRC(w) BY <2>2, <2>3 DEF ForgetRDRC, Rejecting
    <3>3. writer'[w].at = "forget" BY <3>1, <3>2, LabelsAre, GoToStep DEF SaveRDRC
    <3>4. writer'[w].key = k BY <1>5, <2>2, <2>3, WriterStep DEF Rejecting
    <3> QED BY <3>3, <3>4 DEF Rejecting
  <2>4. CASE v # w
    <3>1. writer'[v] = writer[v] BY <1>5, <2>4, WriterStep
    <3> QED BY <2>2, <3>1 DEF Rejecting
  <2> QED BY <2>3, <2>4
<1>6. CASE Clear \/ CloseBegins \/ CloseStep
  <2>1. writer' = writer /\ k \in saveRDRC
      BY <1>6 DEF Clear, ClearDNSCache, ClearBucket, ClearRDRC, StartCacheCleanup, CloseBegins,
                  CloseStep, CloseLocks, CloseWaits, CloseClearsRDRC, CloseClearsDNS, CloseTo
  <2> QED BY <1>1, <2>1
<1>7. CASE Expire BY <1>1, <1>7, ExpireStep
<1>8. CASE UNCHANGED vars BY <1>1, <1>8 DEF vars
<1> QED BY <1>2, <1>3, <1>4, <1>5, <1>6, <1>7, <1>8 DEF Next, Call, Return

-----------------------------------------------------------------------------
(* The newest answer is the one that is loaded.                               *)

\* A step for one key leaves what holds of the others.
LEMMA OtherKey ==
    ASSUME NEW k \in Keys, KeyOK(k), saveDNSCache'[k] = saveDNSCache[k], newest'[k] = newest[k],
           db'[k] = db[k],
           \A v \in Writers : Flushing(v, k)' => Flushing(v, k) /\ writer'[v] = writer[v]
    PROVE  KeyOK(k)'
<1>1. Pending(k)' = Pending(k) BY DEF Pending
<1>2. OneWriter(k)' BY <1>1 DEF KeyOK, OneWriter
<1>3. EntryOK(k)' BY <1>1 DEF KeyOK, EntryOK
<1>4. \A v \in Writers : WriterOK(v, k)' BY DEF KeyOK, WriterOK
<1> QED BY <1>2, <1>3, <1>4 DEF KeyOK

\* A key without a goroutine and without an entry.
LEMMA IdleKey ==
    ASSUME NEW k \in Keys, KeyOK(k), ~Pending(k), ~Pending(k)', newest'[k] = newest[k],
           db'[k] = db[k], \A v \in Writers : ~Flushing(v, k)'
    PROVE  KeyOK(k)'
BY DEF KeyOK, OneWriter, EntryOK, WriterOK

LEMMA QueueKey ==
    ASSUME TypeOK, KeyInv, NEW p \in Callers, NEW j \in Keys, QueueDNSCacheSave(p, j)
    PROVE  KeyInv'
<1> USE DEF mapVars, dbVars
<1>1. CASE UNCHANGED mapVars BY <1>1, QuietStep DEF QueueDNSCacheSave
<1>2. CASE Pending(j) /\ Enter(j)
  <2> SUFFICES ASSUME NEW k \in Keys, k \notin unsure' PROVE KeyOK(k)'
      BY DEF KeyInv
  <2>1. writer' = writer /\ db' = db /\ unsure' = unsure BY DEF QueueDNSCacheSave
  <2>2. KeyOK(k) BY <2>1 DEF KeyInv
  <2>3. \A v \in Writers : Flushing(v, k)' = Flushing(v, k) BY <2>1 DEF Flushing
  <2>4. CASE k # j
    <3>1. saveDNSCache'[k] = saveDNSCache[k] /\ newest'[k] = newest[k]
        BY <1>2, <2>4, EnterStep
    <3> QED BY <2>1, <2>2, <2>3, <3>1, OtherKey
  <2>5. CASE k = j
    <3>1. /\ saveDNSCache'[k].sequence = saveDNSCache[k].sequence + 1
          /\ saveDNSCache'[k].answer = newest'[k]
        BY <1>2, <2>5, EnterStep
    <3>2. saveDNSCache[k].sequence \in Nat BY <1>2, <2>5, EnterStep
    <3>3. Pending(k) /\ Pending(k)' BY <1>2, <2>5, EnterStep
    <3>4. OneWriter(k)' BY <2>2, <2>3, <3>3 DEF KeyOK, OneWriter
    <3>5. EntryOK(k)' BY <3>1, <3>3 DEF EntryOK
    <3>6. ASSUME NEW v \in Writers PROVE WriterOK(v, k)'
      <4>1. writer[v].entry.sequence \in Nat BY DEF TypeOK
      <4>2. Flushing(v, k) /\ writer[v].at # "read" =>
                writer[v].entry.sequence <= saveDNSCache[k].sequence
          BY <2>2 DEF KeyOK, WriterOK
      <4>3. Flushing(v, k) /\ writer[v].at # "read" =>
                /\ writer[v].entry.sequence <= saveDNSCache'[k].sequence
                /\ writer[v].entry.sequence # saveDNSCache'[k].sequence
          BY <3>1, <3>2, <4>1, <4>2
      <4> QED BY <2>1, <2>3, <4>3 DEF WriterOK
    <3> QED BY <3>4, <3>5, <3>6 DEF KeyOK
  <2> QED BY <2>4, <2>5
<1> QED BY <1>1, <1>2 DEF QueueDNSCacheSave

LEMMA BeginKey ==
    ASSUME TypeOK, CallerInv, KeyInv, NEW p \in Callers, NEW w \in Writers, BeginAsyncWrite(p, w)
    PROVE  KeyInv'
<1> DEFINE j == caller[p].key
<1> USE DEF mapVars, dbVars
<1>1. /\ writer[w].at = "idle" /\ db' = db /\ unsure' = unsure
      /\ \A v \in Writers : v # w => writer'[v] = writer[v]
    BY DEF BeginAsyncWrite, TypeOK
<1>2. CASE /\ UNCHANGED mapVars
           /\ writer' = [writer EXCEPT ![w] = [at |-> "reject", key |-> j, entry |-> NoEntry]]
  <2>1. writer'[w].at = "reject" BY <1>2 DEF TypeOK
  <2> QED BY <1>1, <1>2, <2>1, QuietStep
<1>3. CASE /\ caller[p].at = "dns" /\ Enter(j)
           /\ writer' = [writer EXCEPT ![w] = [at |-> "read", key |-> j, entry |-> NoEntry]]
  <2> SUFFICES ASSUME NEW k \in Keys, k \notin unsure' PROVE KeyOK(k)'
      BY DEF KeyInv
  <2>1. KeyOK(k) BY <1>1 DEF KeyInv
  <2>2. writer'[w].at = "read" /\ writer'[w].key = j
    <3> DEFINE new == [at |-> "read", key |-> j, entry |-> NoEntry]
    <3>1. writer'[w] = new BY <1>3 DEF TypeOK
    <3>2. new.at = "read" /\ new.key = j OBVIOUS
    <3> HIDE DEF new
    <3> QED BY <3>1, <3>2
  <2>3. j \in Keys /\ ~Pending(j) BY <1>3 DEF CallerInv, TypeOK
  <2>4. CASE k # j
    <3>1. saveDNSCache'[k] = saveDNSCache[k] /\ newest'[k] = newest[k]
        BY <1>3, <2>3, <2>4, EnterStep
    <3>2. \A v \in Writers : Flushing(v, k)' => Flushing(v, k) /\ writer'[v] = writer[v]
        BY <1>1, <2>2, <2>4 DEF Flushing
    <3> QED BY <1>1, <2>1, <3>1, <3>2, OtherKey
  <2>5. CASE k = j
    <3>1. saveDNSCache'[k].answer = newest'[k] BY <1>3, <2>3, <2>5, EnterStep
    <3>2. Pending(k)' BY <1>3, <2>3, <2>5, EnterStep
    <3>4. \A v \in Writers : ~Flushing(v, k) BY <2>1, <2>3, <2>5 DEF KeyOK, OneWriter
    <3>5. \A v \in Writers : Flushing(v, k)' => v = w BY <1>1, <3>4 DEF Flushing
    <3>6. OneWriter(k)' BY <3>2, <3>5 DEF OneWriter
    <3>7. EntryOK(k)' BY <3>1, <3>2 DEF EntryOK
    <3>8. \A v \in Writers : WriterOK(v, k)' BY <2>2, <3>5 DEF WriterOK
    <3> QED BY <3>6, <3>7, <3>8 DEF KeyOK
  <2> QED BY <2>4, <2>5
<1> QED BY <1>2, <1>3 DEF BeginAsyncWrite

\* What a goroutine that flushes key j leaves of the other keys.
LEMMA FlushOther ==
    ASSUME TypeOK, KeyInv, NEW w \in Writers, Write(w), NEW k \in Keys, k \notin unsure,
           k # writer[w].key, saveDNSCache'[k] = saveDNSCache[k], newest' = newest, db'[k] = db[k]
    PROVE  KeyOK(k)'
<1>1. KeyOK(k) BY DEF KeyInv
<1>2. \A v \in Writers : Flushing(v, k)' => Flushing(v, k) /\ writer'[v] = writer[v]
    BY WriterStep DEF Flushing
<1> QED BY <1>1, <1>2, OtherKey

LEMMA FlushReadKey ==
    ASSUME TypeOK, KeyInv, NEW w \in Writers, FlushRead(w) PROVE KeyInv'
<1> DEFINE j == writer[w].key
<1> USE DEF mapVars, dbVars
<1>1. /\ saveDNSCache' = saveDNSCache /\ newest' = newest /\ db' = db /\ unsure' = unsure
      /\ writer[w].at = "read" /\ Write(w) /\ j \in Keys
    BY DEF FlushRead, Write, TypeOK
<1> SUFFICES ASSUME NEW k \in Keys, k \notin unsure PROVE KeyOK(k)'
    BY <1>1 DEF KeyInv
<1>2. CASE k # j BY <1>1, <1>2, FlushOther
<1>3. CASE k = j
  <2>1. KeyOK(k) BY DEF KeyInv
  <2>2. Flushing(w, k) BY <1>1, <1>3 DEF Flushing
  <2>3. Pending(k) BY <2>1, <2>2 DEF KeyOK, OneWriter
  <2>4. writer' = [writer EXCEPT ![w] = [at |-> "save", key |-> k, entry |-> saveDNSCache[k]]]
      BY <1>3, <2>3 DEF FlushRead
  <2>5. writer'[w] = [at |-> "save", key |-> k, entry |-> saveDNSCache[k]] BY <2>4 DEF TypeOK
  <2>6. \A v \in Writers : Flushing(v, k)' => v = w
      BY <1>1, <2>1, <2>2, WriterStep DEF KeyOK, OneWriter, Flushing
  <2>7. Pending(k)' BY <1>1, <2>3 DEF Pending
  <2>8. OneWriter(k)' BY <2>6, <2>7 DEF OneWriter
  <2>9. EntryOK(k)' BY <1>1, <2>1, <2>3, <2>7 DEF KeyOK, EntryOK
  <2>10. WriterOK(w, k)'
    <3>1. saveDNSCache[k].sequence \in Nat BY DEF TypeOK
    <3>2. saveDNSCache[k].answer = newest[k] BY <2>1, <2>3 DEF KeyOK, EntryOK
    <3> QED BY <1>1, <2>5, <3>1, <3>2 DEF WriterOK
  <2>11. \A v \in Writers : WriterOK(v, k)' BY <2>6, <2>10 DEF WriterOK
  <2> QED BY <2>8, <2>9, <2>11 DEF KeyOK
<1> QED BY <1>2, <1>3

LEMMA FlushSaveKey ==
    ASSUME TypeOK, KeyInv, NEW w \in Writers, FlushSave(w) PROVE KeyInv'
<1> DEFINE j == writer[w].key
<1> USE DEF mapVars, dbVars
<1>1. /\ saveDNSCache' = saveDNSCache /\ newest' = newest
      /\ writer[w].at = "save" /\ Write(w) /\ j \in Keys
    BY DEF FlushSave, Write, TypeOK
<1> SUFFICES ASSUME NEW k \in Keys, k \notin unsure' PROVE KeyOK(k)'
    BY DEF KeyInv
<1>2. k \notin unsure BY DEF FlushSave
<1>3. CASE k # j
  <2>1. db'[k] = db[k] BY <1>1, <1>3 DEF FlushSave, TypeOK
  <2> QED BY <1>1, <1>2, <1>3, <2>1, FlushOther
<1>4. CASE k = j
  <2>1. KeyOK(k) BY <1>2 DEF KeyInv
  <2>2. Flushing(w, k) BY <1>1, <1>4 DEF Flushing
  <2>3. Pending(k) /\ Pending(k)' BY <1>1, <2>1, <2>2 DEF KeyOK, OneWriter, Pending
  <2>4. db'[k] = writer[w].entry.answer BY <1>1, <1>4 DEF FlushSave, TypeOK
  <2>5. \A v \in Writers : Flushing(v, k)' => v = w
      BY <1>1, <2>1, <2>2, WriterStep DEF KeyOK, OneWriter, Flushing
  <2>6. OneWriter(k)' BY <2>3, <2>5 DEF OneWriter
  <2>7. EntryOK(k)' BY <1>1, <2>1, <2>3 DEF KeyOK, EntryOK
  <2>8. WriterOK(w, k)'
    <3>1. writer'[w].entry = writer[w].entry BY LabelsAre, GoToStep DEF FlushSave
    <3>2. /\ writer[w].entry.sequence <= saveDNSCache[k].sequence
          /\ writer[w].entry.sequence = saveDNSCache[k].sequence => writer[w].entry.answer = newest[k]
        BY <1>1, <2>1, <2>2 DEF KeyOK, WriterOK
    <3> QED BY <1>1, <2>4, <3>1, <3>2 DEF WriterOK
  <2>9. \A v \in Writers : WriterOK(v, k)' BY <2>5, <2>8 DEF WriterOK
  <2> QED BY <2>6, <2>7, <2>9 DEF KeyOK
<1> QED BY <1>3, <1>4

LEMMA FlushCheckKey ==
    ASSUME TypeOK, KeyInv, NEW w \in Writers, FlushCheck(w) PROVE KeyInv'
<1> DEFINE j == writer[w].key
<1> USE DEF mapVars, dbVars
<1>1. /\ newest' = newest /\ db' = db /\ unsure' = unsure
      /\ writer[w].at = "check" /\ Write(w) /\ j \in Keys
    BY DEF FlushCheck, Write, TypeOK
<1> SUFFICES ASSUME NEW k \in Keys, k \notin unsure PROVE KeyOK(k)'
    BY <1>1 DEF KeyInv
<1>2. CASE k # j
  <2>1. saveDNSCache'[k] = saveDNSCache[k] BY <1>2 DEF FlushCheck, TypeOK
  <2> QED BY <1>1, <1>2, <2>1, FlushOther
<1>3. CASE k = j
  <2>1. KeyOK(k) BY DEF KeyInv
  <2>2. Flushing(w, k) BY <1>1, <1>3 DEF Flushing
  <2>3. Pending(k) BY <2>1, <2>2 DEF KeyOK, OneWriter
  <2>4. \A v \in Writers : Flushing(v, k)' => v = w
      BY <1>1, <2>1, <2>2, WriterStep DEF KeyOK, OneWriter, Flushing
  <2>5. CASE saveDNSCache' = saveDNSCache /\ GoTo(w, "read")
    <3>1. writer'[w].at = "read" BY <2>5, LabelsAre, GoToStep
    <3>2. Pending(k)' BY <2>3, <2>5 DEF Pending
    <3>3. OneWriter(k)' BY <2>4, <3>2 DEF OneWriter
    <3>4. EntryOK(k)' BY <1>1, <2>1, <2>3, <2>5, <3>2 DEF KeyOK, EntryOK
    <3>5. \A v \in Writers : WriterOK(v, k)' BY <2>4, <3>1 DEF WriterOK
    <3> QED BY <3>3, <3>4, <3>5 DEF KeyOK
  <2>6. CASE ~Replaced(w) /\ GoTo(w, "end") /\ saveDNSCache' = [saveDNSCache EXCEPT ![k] = NoEntry]
    <3>1. writer'[w].at = "end" BY <2>6, LabelsAre, GoToStep
    <3>2. \A v \in Writers : ~Flushing(v, k)' BY <2>4, <3>1 DEF Flushing
    <3>3. ~Pending(k)' BY <2>6 DEF Pending, NoEntry, TypeOK
    <3>4. db[k] \in {0, newest[k]}
        BY <1>1, <1>3, <2>1, <2>2, <2>6 DEF KeyOK, WriterOK, Replaced
    <3> QED BY <1>1, <3>2, <3>3, <3>4 DEF KeyOK, OneWriter, EntryOK, WriterOK
  <2> QED BY <1>3, <2>3, <2>5, <2>6 DEF FlushCheck
<1> QED BY <1>2, <1>3

LEMMA KeyStep == IndInv /\ [Next]_vars => KeyInv'
<1> SUFFICES ASSUME IndInv, [Next]_vars PROVE KeyInv'
    OBVIOUS
<1> TypeOK /\ CallerInv /\ CloseInv /\ DNSHasWriter /\ KeyInv BY DEF IndInv
<1> USE DEF mapVars, dbVars
<1>1. ASSUME NEW p \in Callers, NEW k \in Keys, QueueDNSCacheSave(p, k) PROVE KeyInv'
    BY <1>1, QueueKey
<1>2. ASSUME NEW p \in Callers, NEW k \in Keys, SaveRDRCAsync(p, k) PROVE KeyInv'
    BY <1>2, QuietStep DEF SaveRDRCAsync
<1>3. ASSUME NEW p \in Callers, Refused(p) PROVE KeyInv'
    BY <1>3, QuietStep DEF Refused
<1>4. ASSUME NEW p \in Callers, NEW w \in Writers, BeginAsyncWrite(p, w) PROVE KeyInv'
    BY <1>4, BeginKey
<1>5. ASSUME NEW w \in Writers, FlushRead(w) \/ FlushSave(w) \/ FlushCheck(w) PROVE KeyInv'
    BY <1>5, FlushReadKey, FlushSaveKey, FlushCheckKey
<1>6. ASSUME NEW w \in Writers, SaveRDRC(w) \/ ForgetRDRC(w) \/ EndAsyncWrite(w) PROVE KeyInv'
  <2>1. /\ writer[w].at \notin {"read", "save", "check"}
        /\ GoTo(w, "forget") \/ GoTo(w, "end") \/ GoTo(w, "idle")
        /\ saveDNSCache' = saveDNSCache /\ newest' = newest /\ db' = db /\ unsure' = unsure
      BY <1>6 DEF SaveRDRC, ForgetRDRC, EndAsyncWrite
  <2>2. writer'[w].at \in {"forget", "end", "idle"} BY <2>1, LabelsAre, GoToStep
  <2>3. Write(w) BY <1>6 DEF Write
  <2>4. \A v \in Writers : v # w => writer'[v] = writer[v] BY <2>3, WriterStep
  <2> QED BY <2>1, <2>2, <2>4, QuietStep
<1>7. CASE ClearDNSCache
  <2> SUFFICES ASSUME NEW k \in Keys, k \notin unsure' PROVE KeyOK(k)'
      BY DEF KeyInv
  <2>1. k \notin unsure /\ \A w \in Writers : ~Flushing(w, k) BY <1>7 DEF ClearDNSCache
  <2>2. \A w \in Writers : ~Flushing(w, k)' BY <1>7, <2>1 DEF ClearDNSCache, Flushing
  <2>3. ~Pending(k) BY <2>1 DEF DNSHasWriter
  <2>4. ~Pending(k)' BY <1>7 DEF ClearDNSCache, Pending, NoEntry
  <2>5. KeyOK(k) BY <2>1 DEF KeyInv
  <2> QED BY <1>7, <2>2, <2>3, <2>4, <2>5, IdleKey DEF ClearDNSCache
<1>8. CASE ClearBucket \/ ClearRDRC \/ StartCacheCleanup
  <2>1. \A k \in Keys : db'[k] \in {0, db[k]} BY <1>8 DEF ClearBucket, ClearRDRC, StartCacheCleanup
  <2>2. /\ writer' = writer /\ saveDNSCache' = saveDNSCache /\ newest' = newest
        /\ unsure' = unsure
      BY <1>8 DEF ClearBucket, ClearRDRC, StartCacheCleanup
  <2> QED BY <2>1, <2>2, QuietStep
<1>9. CASE CloseBegins \/ CloseLocks \/ CloseWaits \/ CloseClearsRDRC
  <2>1. /\ writer' = writer /\ saveDNSCache' = saveDNSCache /\ newest' = newest
        /\ unsure' = unsure /\ db' = db
      BY <1>9 DEF CloseBegins, CloseLocks, CloseWaits, CloseClearsRDRC, CloseTo
  <2> QED BY <2>1, QuietStep
<1>10. CASE CloseClearsDNS
  <2> SUFFICES ASSUME NEW k \in Keys, k \notin unsure' PROVE KeyOK(k)'
      BY DEF KeyInv
  <2>1. /\ closing = "dns" /\ writer' = writer /\ newest' = newest /\ unsure' = unsure
        /\ db' = db /\ saveDNSCache' = [l \in Keys |-> NoEntry]
      BY <1>10 DEF CloseClearsDNS, CloseTo
  <2>2. \A w \in Writers : ~Flushing(w, k) BY <2>1 DEF CloseInv, Flushing
  <2>3. \A w \in Writers : ~Flushing(w, k)' BY <2>1, <2>2 DEF Flushing
  <2>4. ~Pending(k) BY <2>2 DEF DNSHasWriter
  <2>5. ~Pending(k)' BY <2>1 DEF Pending, NoEntry
  <2>6. KeyOK(k) BY <2>1 DEF KeyInv
  <2> QED BY <2>1, <2>3, <2>4, <2>5, <2>6, IdleKey
<1>11. CASE UNCHANGED vars
  <2>1. /\ writer' = writer /\ saveDNSCache' = saveDNSCache /\ newest' = newest
        /\ unsure' = unsure /\ db' = db
      BY <1>11 DEF vars
  <2> QED BY <2>1, QuietStep
<1>12. CASE Expire BY <1>12, ExpireStep, QuietStep
<1> QED
    BY <1>1, <1>2, <1>3, <1>4, <1>5, <1>6, <1>7, <1>8, <1>9, <1>10, <1>11, <1>12
    DEF Next, Call, Return, Write, Clear, CloseStep

-----------------------------------------------------------------------------
\* IndInv is an invariant of the DNS part of the cache file.
THEOREM Invariance == Spec => []IndInv
<1>1. IndInv /\ [Next]_vars => IndInv'
    BY TypeStep, CallerStep, CloseStepInv, DNSWriterStep, RDRCWriterStep, KeyStep DEF IndInv
<1> QED BY <1>1, InitIndInv, PTL DEF Spec

\* queueDNSCacheSave and SaveRDRCAsync leave no entry behind without the goroutine that
\* flushPendingDNSCache or SaveRDRCAsync runs for it, also when ClearDNSCache and clearRDRC
\* come between, for any number of keys, callers and tokens.
THEOREM EntriesAreWritten == Spec => []EntryHasWriter
<1>1. IndInv => EntryHasWriter
    BY DEF IndInv, DNSHasWriter, RDRCHasWriter, Rejecting, EntryHasWriter
<1> QED BY <1>1, Invariance, PTL

\* flushPendingDNSCacheWith and its sequence numbers: LoadDNSCache returns the newest
\* answer or none, for every key with no failed write and no ClearDNSCache during one.
THEOREM NoOlderAnswer == Spec => []NewestIsLoaded
<1>1. IndInv => NewestIsLoaded
  <2> SUFFICES ASSUME IndInv, NEW k \in Keys \ unsure PROVE LoadDNSCache(k) \in {0, newest[k]}
      BY DEF NewestIsLoaded
  <2>1. EntryOK(k) BY DEF IndInv, KeyInv, KeyOK
  <2> QED BY <2>1 DEF EntryOK, LoadDNSCache
<1> QED BY <1>1, Invariance, PTL

\* When Close is past asyncWG.Wait no goroutine writes, and clearPendingAsyncState has
\* nothing left to clear.
THEOREM CloseIsQuiet == Spec => []NothingAfterClose
<1>1. IndInv => NothingAfterClose
    BY DEF IndInv, CloseInv, DNSHasWriter, RDRCHasWriter, Flushing, Rejecting, NothingAfterClose
<1> QED BY <1>1, Invariance, PTL
=============================================================================

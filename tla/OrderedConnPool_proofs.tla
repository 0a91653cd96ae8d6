----------------------- MODULE OrderedConnPool_proofs -----------------------
(***************************************************************************)
(* Proofs that the ordered pool keeps its invariants for every set of      *)
(* connections, every finite set of clients, and every number of states    *)
(* and slots.                                                              *)
(***************************************************************************)
EXTENDS OrderedConnPool, FiniteSetTheorems, TLAPS

\* Clients that have a connection: a dial returned it, or Acquire did.
Owner(c) == pc[c] \in {"install", "hold"}

\* closeState runs for retired states only; a state that is not there yet is empty.
States ==
    /\ drained \subseteq cancelled
    /\ \A g \in cancelled : Retired(g)
    /\ \A g \in Gens : g > gen => all[g] = {}

\* A connection that was not dialled is nobody's.
Undialled ==
    \A k \in Conns : life[k] = "free" =>
        /\ \A g \in Gens : k \notin all[g]
        /\ \A c \in Clients : Owner(c) => held[c] # k

\* A connection is installed in one state.
InstalledOnce ==
    \A k \in Conns : \A g, h \in Gens : k \in all[g] /\ k \in all[h] => g = h

\* A connection that is not installed yet is in no state, and nobody has closed it.
DialOwns ==
    \A c \in Clients : pc[c] = "install" =>
        Live(held[c]) /\ \A g \in Gens : held[c] \notin all[g]

\* A connection has one owner.
OneOwner ==
    /\ \A c \in Clients : Owner(c) => held[c] \in Conns
    /\ \A c, d \in Clients : Owner(c) /\ Owner(d) /\ held[c] = held[d] => c = d

\* The idle list has connections of the current state that nobody owns, each once.
IdleFree ==
    /\ \A k \in Range(idle) : k \in all[gen] /\ \A c \in Clients : Owner(c) => held[c] # k
    /\ IsInjective(idle)

\* While the pool is open it has closed none of the connections it tracks.
TrackedLive == ~closed => \A k \in all[gen] : Live(k)

Inv ==
    /\ States /\ Undialled /\ InstalledOnce /\ DialOwns /\ OneOwner
    /\ IdleFree /\ TrackedLive /\ NoLeak

IndInv == TypeOK /\ SlotsMatchDials /\ Inv

-----------------------------------------------------------------------------
(* What the steps are made of.                                                *)

\* What a client is about to do does not matter to the others.
LEMMA GoToStep ==
    ASSUME TypeOK, NEW c \in Clients, NEW l, GoTo(c, l)
    PROVE  pc'[c] = l /\ \A d \in Clients : d # c => pc'[d] = pc[d]
BY DEF GoTo, TypeOK

LEMMA ReturnStep ==
    ASSUME TypeOK, NEW c \in Clients, Return(c)
    PROVE  /\ pc'[c] = "idle"
           /\ \A d \in Clients : d # c => pc'[d] = pc[d] /\ held'[d] = held[d]
           /\ ctxDone' \subseteq Clients /\ cgen' \in [Clients -> Gens]
           /\ held' \in [Clients -> Conns \cup {None}]
<1>1. pc'[c] = "idle" /\ \A d \in Clients : d # c => pc'[d] = pc[d]
    BY GoToStep DEF Return
<1>2. 1 \in Gens BY GenAssumption DEF Gens
<1> QED BY <1>1, <1>2 DEF Return, TypeOK, PoolTypeOK

LEMMA ClosingStep ==
    ASSUME TypeOK, NEW ks \in SUBSET Conns, life' = Closing(ks)
    PROVE  /\ life' \in [Conns -> Lives]
           /\ \A k \in ks : life'[k] = "closed"
           /\ \A k \in Conns : k \notin ks => life'[k] = life[k]
BY DEF Closing, TypeOK, PoolTypeOK, Lives

LEMMA DropConnStep ==
    ASSUME TypeOK, NEW k \in Conns, DropConn(k)
    PROVE  /\ life' \in [Conns -> Lives] /\ all' \in [Gens -> SUBSET Conns]
           /\ life'[k] = "closed" /\ \A j \in Conns : j # k => life'[j] = life[j]
           /\ all'[gen] = all[gen] \ {k} /\ \A g \in Gens : g # gen => all'[g] = all[g]
<1>1. life' = Closing({k}) /\ {k} \in SUBSET Conns BY DEF DropConn
<1>2. /\ life' \in [Conns -> Lives]
      /\ life'[k] = "closed" /\ \A j \in Conns : j # k => life'[j] = life[j]
    BY <1>1, ClosingStep
<1>3. /\ all' \in [Gens -> SUBSET Conns]
      /\ all'[gen] = all[gen] \ {k} /\ \A g \in Gens : g # gen => all'[g] = all[g]
    BY DEF DropConn, TypeOK, PoolTypeOK
<1> QED BY <1>2, <1>3

-----------------------------------------------------------------------------
(* The slots.                                                                 *)

LEMMA DiallingFinite == IsFiniteSet(Dialling)
BY ClientsAssumption, FS_Subset DEF Dialling

LEMMA SlotTaken ==
    ASSUME TypeOK, SlotsMatchDials, NEW c \in Clients, c \notin Dialling,
           Dialling' = Dialling \cup {c}, inflight < MaxInflight, inflight' = inflight + 1
    PROVE  SlotsMatchDials' /\ inflight' \in 0..MaxInflight
<1>1. Cardinality(Dialling') = Cardinality(Dialling) + 1 BY DiallingFinite, FS_AddElement
<1>2. inflight' \in 0..MaxInflight BY InflightAssumption DEF TypeOK
<1> QED BY <1>1, <1>2 DEF SlotsMatchDials

LEMMA SlotGivenBack ==
    ASSUME TypeOK, SlotsMatchDials, NEW c \in Clients, c \in Dialling,
           Dialling' = Dialling \ {c}, inflight' = inflight - 1
    PROVE  SlotsMatchDials' /\ inflight' \in 0..MaxInflight
<1>1. Cardinality(Dialling') = Cardinality(Dialling) - 1 BY DiallingFinite, FS_RemoveElement
<1>2. Cardinality(Dialling) \in Nat /\ Cardinality(Dialling) # 0
    BY DiallingFinite, FS_CardinalityType, FS_EmptySet
<1>3. inflight' \in 0..MaxInflight BY <1>2, InflightAssumption DEF TypeOK, SlotsMatchDials
<1> QED BY <1>1, <1>3 DEF SlotsMatchDials

LEMMA SlotsKept ==
    ASSUME TypeOK, SlotsMatchDials, inflight' = inflight,
           \A c \in Clients : pc'[c] \in {"dial", "install"} <=> pc[c] \in {"dial", "install"}
    PROVE  SlotsMatchDials' /\ inflight' \in 0..MaxInflight
<1>1. Dialling' = Dialling BY DEF Dialling
<1> QED BY <1>1 DEF SlotsMatchDials, TypeOK

LEMMA SlotsStep ==
    ASSUME TypeOK, SlotsMatchDials, OneOwner, IdleFree, [Next]_vars
    PROVE  SlotsMatchDials' /\ inflight' \in 0..MaxInflight
<1>1. ASSUME NEW c \in Clients, Acquire(c) /\ UNCHANGED inflight
      PROVE  SlotsMatchDials' /\ inflight' \in 0..MaxInflight
    BY <1>1, GoToStep, SlotsKept DEF Acquire
<1>2. ASSUME NEW c \in Clients, CtxCancel(c) /\ UNCHANGED inflight
      PROVE  SlotsMatchDials' /\ inflight' \in 0..MaxInflight
    BY <1>2, SlotsKept DEF CtxCancel
<1>3. ASSUME NEW c \in Clients, AcquireClosed(c) \/ SlotFails(c)
      PROVE  SlotsMatchDials' /\ inflight' \in 0..MaxInflight
    BY <1>3, ReturnStep, SlotsKept DEF AcquireClosed, SlotFails
<1>4. ASSUME NEW c \in Clients, TakeIdle(c)
      PROVE  SlotsMatchDials' /\ inflight' \in 0..MaxInflight
  <2>1. /\ pc[c] = "acquire" /\ inflight' = inflight
        /\ GoTo(c, "hold") \/ pc' = pc
      BY <1>4 DEF TakeIdle
  <2> QED BY <2>1, GoToStep, SlotsKept
<1>5. ASSUME NEW c \in Clients, StartDial(c)
      PROVE  SlotsMatchDials' /\ inflight' \in 0..MaxInflight
    BY <1>5, GoToStep, SlotsKept DEF StartDial
<1>6. ASSUME NEW c \in Clients, AcquireSlot(c)
      PROVE  SlotsMatchDials' /\ inflight' \in 0..MaxInflight
  <2>1. pc[c] = "slot" /\ pc'[c] = "dial" /\ \A d \in Clients : d # c => pc'[d] = pc[d]
      BY <1>6, GoToStep DEF AcquireSlot
  <2>2. c \notin Dialling /\ Dialling' = Dialling \cup {c} BY <2>1 DEF Dialling
  <2> QED BY <1>6, <2>2, SlotTaken DEF AcquireSlot
<1>7. ASSUME NEW c \in Clients, pc[c] \in {"dial", "install"}, pc'[c] \in {"idle", "hold"},
             \A d \in Clients : d # c => pc'[d] = pc[d], inflight' = inflight - 1
      PROVE  SlotsMatchDials' /\ inflight' \in 0..MaxInflight
  <2>1. c \in Dialling /\ Dialling' = Dialling \ {c} BY <1>7 DEF Dialling
  <2> QED BY <1>7, <2>1, SlotGivenBack
<1>8. ASSUME NEW c \in Clients, DialFails(c)
      PROVE  SlotsMatchDials' /\ inflight' \in 0..MaxInflight
    BY <1>7, <1>8, ReturnStep DEF DialFails
<1>9. ASSUME NEW c \in Clients, DialOK(c)
      PROVE  SlotsMatchDials' /\ inflight' \in 0..MaxInflight
  <2>1. CASE Return(c) /\ inflight' = inflight - 1
      BY <1>7, <1>9, <2>1, ReturnStep DEF DialOK
  <2>2. CASE GoTo(c, "install") /\ inflight' = inflight
      BY <1>9, <2>2, GoToStep, SlotsKept DEF DialOK
  <2> QED BY <1>9, <2>1, <2>2 DEF DialOK
<1>10. ASSUME NEW c \in Clients, Install(c)
       PROVE  SlotsMatchDials' /\ inflight' \in 0..MaxInflight
  <2>1. pc[c] = "install" /\ inflight' = inflight - 1 /\ (Return(c) \/ GoTo(c, "hold"))
      BY <1>10 DEF Install
  <2> QED BY <1>7, <2>1, ReturnStep, GoToStep
<1>11. ASSUME NEW c \in Clients, NEW reuse \in BOOLEAN, Release(c, reuse)
       PROVE  SlotsMatchDials' /\ inflight' \in 0..MaxInflight
    BY <1>11, ReturnStep, SlotsKept DEF Release
<1>12. ASSUME UNCHANGED <<pc, inflight>>
       PROVE  SlotsMatchDials' /\ inflight' \in 0..MaxInflight
    BY <1>12, SlotsKept
<1>13. CASE \E k \in Conns : Die(k) /\ UNCHANGED <<idle, inflight>>
    BY <1>12, <1>13 DEF Die, clientVars
<1>14. CASE Reset /\ idle' = <<>> /\ UNCHANGED inflight BY <1>12, <1>14 DEF Reset, clientVars
<1>15. CASE Close /\ UNCHANGED <<idle, inflight>> BY <1>12, <1>15 DEF Close, clientVars
<1>16. CASE \E g \in Gens : PoolStep(g)
    BY <1>12, <1>16 DEF PoolStep, CancelState, DrainState, clientVars
<1>17. CASE UNCHANGED vars BY <1>12, <1>17 DEF vars, clientVars
<1> QED
    BY <1>1, <1>2, <1>3, <1>4, <1>5, <1>6, <1>8, <1>9, <1>10, <1>11, <1>13, <1>14, <1>15,
       <1>16, <1>17
    DEF Next, ClientStep

-----------------------------------------------------------------------------
(* Type correctness.                                                          *)

Labels == {"idle", "acquire", "slot", "dial", "install", "hold"}

LEMMA GoToType ==
    ASSUME TypeOK, NEW c \in Clients, NEW l \in Labels, GoTo(c, l)
    PROVE  pc' \in [Clients -> Labels]
BY DEF GoTo, TypeOK, Labels

LEMMA LabelsAre ==
    /\ "idle" \in Labels /\ "acquire" \in Labels /\ "slot" \in Labels
    /\ "dial" \in Labels /\ "install" \in Labels /\ "hold" \in Labels
BY DEF Labels

LEMMA ReturnType ==
    ASSUME TypeOK, NEW c \in Clients, Return(c)
    PROVE  /\ pc' \in [Clients -> Labels] /\ ctxDone' \subseteq Clients
           /\ cgen' \in [Clients -> Gens] /\ held' \in [Clients -> Conns \cup {None}]
<1>1. pc' \in [Clients -> Labels] BY LabelsAre, GoToType, Zenon DEF Return
<1> QED BY <1>1, ReturnStep, Zenon

\* What release leaves of the idle list.
LEMMA ReleasedIdle ==
    ASSUME TypeOK, OneOwner, IdleFree, NEW c \in Clients, pc[c] = "hold"
    PROVE  held[c] \in Conns /\ held[c] \notin Range(idle) /\ IdleWithout(held[c]) = idle
<1>1. held[c] \in Conns /\ held[c] \notin Range(idle) BY DEF OneOwner, IdleFree, Owner
<1> QED BY <1>1, Zenon DEF IdleWithout

\* The types of everything but the slots.
Typed ==
    /\ PoolTypeOK /\ pc \in [Clients -> Labels] /\ idle \in Seq(Conns)

LEMMA TypeStep ==
    ASSUME TypeOK, OneOwner, IdleFree, [Next]_vars
    PROVE  Typed'
<1> USE DEF Typed, PoolTypeOK, stateVars, clientVars
<1>0. Typed BY DEF TypeOK, Labels
<1>1. ASSUME NEW c \in Clients, Acquire(c) /\ UNCHANGED idle PROVE Typed'
  <2>1. pc' \in [Clients -> Labels] BY <1>1, GoToType, LabelsAre DEF Acquire
  <2> QED BY <1>0, <1>1, <2>1 DEF Acquire
<1>2. ASSUME NEW c \in Clients, CtxCancel(c) /\ UNCHANGED idle PROVE Typed'
    BY <1>0, <1>2 DEF CtxCancel
<1>3. ASSUME NEW c \in Clients, AcquireClosed(c) \/ SlotFails(c) PROVE Typed'
    BY <1>0, <1>3, ReturnType DEF AcquireClosed, SlotFails
<1>4. ASSUME NEW c \in Clients, TakeIdle(c) PROVE Typed'
  <2>1. Head(idle) \in Conns /\ idle' \in Seq(Conns) BY <1>0, <1>4 DEF TakeIdle
  <2>2. CASE /\ GoTo(c, "hold") /\ held' = [held EXCEPT ![c] = Head(idle)]
             /\ UNCHANGED <<all, life>>
    <3>1. pc' \in [Clients -> Labels] BY <2>2, GoToType, LabelsAre
    <3> QED BY <1>0, <1>4, <2>1, <2>2, <3>1, Zenon DEF TakeIdle
  <2>3. CASE DropConn(Head(idle)) /\ UNCHANGED <<pc, held>>
      BY <1>0, <1>4, <2>1, <2>3, DropConnStep DEF TakeIdle
  <2> QED BY <1>4, <2>2, <2>3 DEF TakeIdle
<1>5. ASSUME NEW c \in Clients, StartDial(c) PROVE Typed'
  <2>1. pc' \in [Clients -> Labels] BY <1>5, GoToType, LabelsAre DEF StartDial
  <2> QED BY <1>0, <1>5, <2>1, Zenon DEF StartDial
<1>6. ASSUME NEW c \in Clients, AcquireSlot(c) PROVE Typed'
  <2>1. pc' \in [Clients -> Labels] BY <1>6, GoToType, LabelsAre DEF AcquireSlot
  <2> QED BY <1>0, <1>6, <2>1 DEF AcquireSlot
<1>7. ASSUME NEW c \in Clients, DialFails(c) PROVE Typed'
    BY <1>0, <1>7, ReturnType DEF DialFails
<1>8. ASSUME NEW c \in Clients, DialOK(c) PROVE Typed'
  <2>1. PICK k \in Conns :
            \/ life' = Closing({k}) /\ Return(c)
            \/ /\ life' = [life EXCEPT ![k] = "open"] /\ GoTo(c, "install")
               /\ held' = [held EXCEPT ![c] = k] /\ UNCHANGED <<ctxDone, cgen>>
      BY <1>8, Zenon DEF DialOK
  <2>2. CASE life' = Closing({k}) /\ Return(c)
    <3>1. {k} \in SUBSET Conns OBVIOUS
    <3>2. life' \in [Conns -> Lives] BY <2>2, <3>1, ClosingStep
    <3> QED BY <1>0, <1>8, <2>2, <3>2, ReturnType, Zenon DEF DialOK
  <2>3. CASE /\ life' = [life EXCEPT ![k] = "open"] /\ GoTo(c, "install")
             /\ held' = [held EXCEPT ![c] = k] /\ UNCHANGED <<ctxDone, cgen>>
    <3>1. pc' \in [Clients -> Labels] BY <2>3, GoToType, LabelsAre
    <3>2. life' \in [Conns -> Lives] BY <1>0, <2>3 DEF Lives
    <3> QED BY <1>0, <1>8, <2>3, <3>1, <3>2, Zenon DEF DialOK
  <2> QED BY <2>1, <2>2, <2>3
<1>9. ASSUME NEW c \in Clients, Install(c) PROVE Typed'
  <2>1. held[c] \in Conns BY <1>9 DEF Install, OneOwner, Owner
  <2>2. CASE life' = Closing({held[c]}) /\ Return(c) /\ UNCHANGED all
    <3>1. {held[c]} \in SUBSET Conns BY <2>1
    <3>2. life' \in [Conns -> Lives] BY <2>2, <3>1, ClosingStep
    <3> QED BY <1>0, <1>9, <2>2, <3>2, ReturnType, Zenon DEF Install
  <2>3. CASE /\ all' = [all EXCEPT ![gen] = @ \cup {held[c]}] /\ GoTo(c, "hold")
             /\ UNCHANGED <<life, ctxDone, cgen, held>>
    <3>1. pc' \in [Clients -> Labels] BY <2>3, GoToType, LabelsAre
    <3> QED BY <1>0, <1>9, <2>1, <2>3, <3>1 DEF Install
  <2> QED BY <1>9, <2>2, <2>3 DEF Install
<1>10. ASSUME NEW c \in Clients, NEW reuse \in BOOLEAN, Release(c, reuse) PROVE Typed'
  <2>1. held[c] \in Conns /\ {held[c]} \in SUBSET Conns /\ IdleWithout(held[c]) = idle
      BY <1>10, ReleasedIdle DEF Release
  <2>2. /\ pc' \in [Clients -> Labels] /\ ctxDone' \subseteq Clients
        /\ cgen' \in [Clients -> Gens] /\ held' \in [Clients -> Conns \cup {None}]
      BY <1>10, ReturnType DEF Release
  <2>3. CASE life' = Closing({held[c]}) /\ UNCHANGED <<all, idle>>
      BY <1>0, <1>10, <2>1, <2>2, <2>3, ClosingStep, Zenon DEF Release
  <2>4. CASE DropConn(held[c]) /\ idle' = IdleWithout(held[c])
      BY <1>0, <1>10, <2>1, <2>2, <2>4, DropConnStep DEF Release
  <2>5. CASE /\ idle' = IF held[c] \in Range(idle) THEN idle ELSE Append(idle, held[c])
             /\ UNCHANGED <<all, life>>
      BY <1>0, <1>10, <2>1, <2>2, <2>5 DEF Release
  <2> QED BY <1>10, <2>3, <2>4, <2>5 DEF Release
<1>11. ASSUME NEW k \in Conns, Die(k) /\ UNCHANGED idle PROVE Typed'
  <2>1. life' \in [Conns -> Lives] BY <1>0, <1>11 DEF Die, Lives
  <2> QED BY <1>0, <1>11, <2>1 DEF Die
<1>12. CASE Reset /\ idle' = <<>>
  <2>1. gen' \in Gens BY <1>0, <1>12, GenAssumption DEF Reset, Gens
  <2> QED BY <1>0, <1>12, <2>1 DEF Reset
<1>13. CASE Close /\ UNCHANGED idle BY <1>0, <1>13 DEF Close
<1>14. ASSUME NEW g \in Gens, CancelState(g) /\ UNCHANGED idle PROVE Typed'
    BY <1>0, <1>14 DEF CancelState
<1>15. ASSUME NEW g \in Gens, DrainState(g) /\ UNCHANGED idle PROVE Typed'
  <2>1. all[g] \in SUBSET Conns /\ life' = Closing(all[g]) BY <1>0, <1>15 DEF DrainState
  <2>2. life' \in [Conns -> Lives] BY <2>1, ClosingStep
  <2> QED BY <1>0, <1>15, <2>2 DEF DrainState
<1>16. CASE UNCHANGED vars BY <1>0, <1>16 DEF vars
<1> QED
    BY <1>1, <1>2, <1>3, <1>4, <1>5, <1>6, <1>7, <1>8, <1>9, <1>10, <1>11, <1>12, <1>13,
       <1>14, <1>15, <1>16
    DEF Next, ClientStep, PoolStep

-----------------------------------------------------------------------------
(* The idle list.                                                             *)

LEMMA TailOfIdle ==
    ASSUME NEW s \in Seq(Conns), s # <<>>, IsInjective(s)
    PROVE  /\ Head(s) \in Range(s) /\ Head(s) \in Conns
           /\ Range(Tail(s)) = Range(s) \ {Head(s)} /\ IsInjective(Tail(s))
<1>1. Head(s) = s[1] /\ Len(s) \in Nat /\ Len(s) >= 1 /\ DOMAIN s = 1..Len(s) OBVIOUS
<1>2. /\ DOMAIN Tail(s) = 1..(Len(s) - 1) /\ Len(Tail(s)) = Len(s) - 1
      /\ \A i \in 1..(Len(s) - 1) : Tail(s)[i] = s[i + 1]
    BY <1>1
<1>3. \A i, j \in 1..Len(s) : s[i] = s[j] => i = j BY <1>1 DEF IsInjective
<1>4. IsInjective(Tail(s)) BY <1>1, <1>2, <1>3 DEF IsInjective
<1>5. \A k \in Range(Tail(s)) : k \in Range(s) /\ k # Head(s) BY <1>1, <1>2, <1>3 DEF Range
<1>6. ASSUME NEW k \in Range(s), k # Head(s) PROVE k \in Range(Tail(s))
  <2>1. PICK i \in 1..Len(s) : s[i] = k BY <1>1 DEF Range
  <2>2. i - 1 \in 1..(Len(s) - 1) /\ (i - 1) + 1 = i BY <1>1, <1>6, <2>1
  <2>3. Tail(s)[i - 1] = k BY <1>2, <2>1, <2>2
  <2>4. i - 1 \in DOMAIN Tail(s) BY <1>2, <2>2
  <2> QED BY <2>3, <2>4, Zenon DEF Range
<1>7. Head(s) \in Range(s) /\ Head(s) \in Conns BY <1>1 DEF Range
<1> QED BY <1>4, <1>5, <1>6, <1>7

LEMMA AppendToIdle ==
    ASSUME NEW s \in Seq(Conns), NEW k \in Conns, k \notin Range(s), IsInjective(s)
    PROVE  Range(Append(s, k)) = Range(s) \cup {k} /\ IsInjective(Append(s, k))
<1>1. Len(s) \in Nat /\ DOMAIN s = 1..Len(s) OBVIOUS
<1>2. /\ DOMAIN Append(s, k) = 1..(Len(s) + 1) /\ Append(s, k)[Len(s) + 1] = k
      /\ \A i \in 1..Len(s) : Append(s, k)[i] = s[i]
      /\ Len(Append(s, k)) = Len(s) + 1
    BY <1>1
<1>3. \A i \in 1..Len(s) : s[i] # k BY <1>1 DEF Range
<1>4. \A i, j \in 1..Len(s) : s[i] = s[j] => i = j BY <1>1 DEF IsInjective
<1>5. \A i \in 1..(Len(s) + 1) : i \in 1..Len(s) \/ i = Len(s) + 1 BY <1>1
<1>6. IsInjective(Append(s, k)) BY <1>2, <1>3, <1>4, <1>5 DEF IsInjective
<1>7. Range(Append(s, k)) = Range(s) \cup {k} BY <1>1, <1>2, <1>5 DEF Range
<1> QED BY <1>6, <1>7

LEMMA EmptyIdle == Range(<<>>) = {} /\ IsInjective(<<>>)
BY DEF Range, IsInjective

-----------------------------------------------------------------------------
(* Nothing leaks, one connection at a time.                                   *)

\* Somebody has yet to close k.
Kept(k) ==
    \/ Tracked(k)
    \/ \E g \in Gens : Retired(g) /\ g \notin drained /\ k \in all[g]
    \/ \E c \in Clients : pc[c] = "install" /\ held[c] = k

LEMMA NoLeakKept ==
    ASSUME Inv
    PROVE  \A k \in Conns : Live(k) => Kept(k)
BY DEF Inv, NoLeak, Accounted, Kept

LEMMA KeptNoLeak ==
    ASSUME \A k \in Conns : Live(k)' => Kept(k)'
    PROVE  NoLeak'
BY DEF NoLeak, Accounted, Kept

-----------------------------------------------------------------------------
(* How the actions change who owns what.                                      *)


\* Nothing changes but clients that own no connection.
LEMMA QuietStep ==
    ASSUME TypeOK, Inv, UNCHANGED <<stateVars, life, idle>>,
           \A c \in Clients : Owner(c) \/ Owner(c)' => pc'[c] = pc[c] /\ held'[c] = held[c]
    PROVE  Inv'
<1>1. UNCHANGED <<gen, closed, all, cancelled, drained, life, idle>> BY DEF stateVars
<1>2. \A c \in Clients : (pc[c] \in {"install", "hold"} \/ pc'[c] \in {"install", "hold"})
          => pc'[c] = pc[c] /\ held'[c] = held[c]
    BY DEF Owner
<1> USE DEF Inv
<1>3. States' BY <1>1, <1>2 DEF States, Retired
<1>4. Undialled' BY <1>1, <1>2 DEF Undialled, Owner
<1>5. InstalledOnce' BY <1>1, <1>2 DEF InstalledOnce
<1>6. DialOwns' BY <1>1, <1>2 DEF DialOwns, Live, Owner
<1>7. OneOwner' BY <1>1, <1>2 DEF OneOwner, Owner
<1>8. IdleFree' BY <1>1, <1>2 DEF IdleFree, Owner
<1>9. TrackedLive' BY <1>1, <1>2 DEF TrackedLive, Live
<1>10. NoLeak'
  <2>1. ASSUME NEW j \in Conns, Live(j)'
        PROVE  Kept(j)'
    <3>1. Kept(j) BY <1>1, <1>2, <2>1, NoLeakKept DEF Live
    <3> QED BY <1>1, <1>2, <2>1, <3>1 DEF Kept, Tracked, Retired, Live
  <2> QED BY <2>1, KeptNoLeak
<1> QED BY <1>3, <1>4, <1>5, <1>6, <1>7, <1>8, <1>9, <1>10 DEF Inv

\* A client of which all that matters is that it keeps what it owns.
Keeps(c) == pc'[c] = pc[c] /\ held'[c] = held[c]

\* A connection that the pool does not track, or no longer, is closed.
LEMMA CloseStep ==
    ASSUME TypeOK, Inv, UNCHANGED <<stateVars, idle>>, NEW k \in Conns, life' = Closing({k}),
           closed \/ k \notin all[gen],
           \A c \in Clients : Owner(c)' => Keeps(c) /\ held[c] # k,
           \A c \in Clients : pc[c] = "install" => Keeps(c) \/ held[c] = k
    PROVE  Inv'
<1>1. UNCHANGED <<gen, closed, all, cancelled, drained, idle>> BY DEF stateVars
<1>2. /\ life'[k] = "closed" /\ \A j \in Conns : j # k => life'[j] = life[j]
  <2>1. {k} \in SUBSET Conns OBVIOUS
  <2> QED BY <2>1, ClosingStep
<1>3. /\ \A c \in Clients : pc'[c] \in {"install", "hold"} =>
             pc'[c] = pc[c] /\ held'[c] = held[c] /\ held[c] # k
      /\ \A c \in Clients : pc[c] = "install" =>
             (pc'[c] = pc[c] /\ held'[c] = held[c]) \/ held[c] = k
    BY DEF Owner, Keeps
<1>4. gen \in Gens /\ all \in [Gens -> SUBSET Conns] BY DEF TypeOK, PoolTypeOK
<1> USE DEF Inv
<1>5. States' BY <1>1 DEF States, Retired
<1>6. Undialled'
  <2>1. ASSUME NEW j \in Conns, life'[j] = "free"
        PROVE  /\ \A g \in Gens : j \notin all'[g]
               /\ \A c \in Clients : Owner(c)' => held'[c] # j
    <3>1. life[j] = "free" BY <1>2, <2>1
    <3>2. /\ \A g \in Gens : j \notin all[g]
          /\ \A c \in Clients : Owner(c) => held[c] # j
      BY <3>1 DEF Undialled
    <3> QED BY <1>1, <1>3, <3>2 DEF Owner
  <2> QED BY <2>1 DEF Undialled
<1>7. InstalledOnce' BY <1>1 DEF InstalledOnce
<1>8. DialOwns' BY <1>1, <1>2, <1>3 DEF DialOwns, Live, Owner, OneOwner
<1>9. OneOwner' BY <1>3 DEF OneOwner, Owner
<1>10. IdleFree' BY <1>1, <1>3 DEF IdleFree, Owner
<1>11. TrackedLive' BY <1>1, <1>2, <1>4 DEF TrackedLive, Live
<1>12. NoLeak'
  <2>1. ASSUME NEW j \in Conns, Live(j)'
        PROVE  Kept(j)'
    <3>1. Kept(j) BY <1>1, <1>2, <1>3, <2>1, NoLeakKept DEF Live
    <3> QED BY <1>1, <1>2, <1>3, <2>1, <3>1 DEF Kept, Tracked, Retired, Live
  <2> QED BY <2>1, KeptNoLeak
<1> QED BY <1>5, <1>6, <1>7, <1>8, <1>9, <1>10, <1>11, <1>12 DEF Inv

\* A connection of the current state is dropped from it and closed.
LEMMA DropStep ==
    ASSUME TypeOK, Inv, UNCHANGED <<gen, closed, cancelled, drained>>, ~closed,
           NEW k \in Conns, k \in all[gen], DropConn(k),
           Range(idle') \subseteq Range(idle) \ {k}, IsInjective(idle'),
           \A c \in Clients : Owner(c)' => Keeps(c) /\ held[c] # k,
           \A c \in Clients : pc[c] = "install" => Keeps(c)
    PROVE  Inv'
<1>1. /\ life'[k] = "closed" /\ \A j \in Conns : j # k => life'[j] = life[j]
      /\ all'[gen] = all[gen] \ {k} /\ \A g \in Gens : g # gen => all'[g] = all[g]
    BY DropConnStep
<1>2. /\ \A c \in Clients : pc'[c] \in {"install", "hold"} =>
             pc'[c] = pc[c] /\ held'[c] = held[c] /\ held[c] # k
      /\ \A c \in Clients : pc[c] = "install" => pc'[c] = pc[c] /\ held'[c] = held[c]
    BY DEF Owner, Keeps
<1>3. gen \in Gens /\ all \in [Gens -> SUBSET Conns] /\ gen \in Nat /\ drained \subseteq Gens
    BY GenAssumption DEF TypeOK, PoolTypeOK, Gens
<1>4. \A g \in Gens : all'[g] \subseteq all[g] BY <1>1
<1> USE DEF Inv
<1>5. States' BY <1>3, <1>4 DEF States, Retired
<1>6. Undialled' BY <1>1, <1>2, <1>4 DEF Undialled, Owner
<1>7. InstalledOnce' BY <1>4 DEF InstalledOnce
<1>8. DialOwns' BY <1>1, <1>2, <1>4 DEF DialOwns, Live, Owner, OneOwner
<1>9. OneOwner' BY <1>2 DEF OneOwner, Owner
<1>10. IdleFree'
  <2>1. \A j \in Range(idle') : j \in Range(idle) /\ j # k OBVIOUS
  <2>2. \A j \in Range(idle') : j \in all'[gen'] BY <1>1, <2>1 DEF IdleFree
  <2>3. \A j \in Range(idle'), c \in Clients : pc'[c] \in {"install", "hold"} => held'[c] # j
      BY <1>2, <2>1 DEF IdleFree, Owner
  <2> QED BY <2>2, <2>3 DEF IdleFree, Owner
<1>11. TrackedLive' BY <1>1, <1>3 DEF TrackedLive, Live
<1>12. NoLeak'
  <2>1. ASSUME NEW j \in Conns, Live(j)'
        PROVE  Kept(j)'
    <3>1. Kept(j) BY <1>1, <1>2, <1>3, <2>1, NoLeakKept DEF Live
    <3> QED BY <1>1, <1>2, <1>3, <2>1, <3>1 DEF Kept, Tracked, Retired, Live
  <2> QED BY <2>1, KeptNoLeak
<1> QED BY <1>5, <1>6, <1>7, <1>8, <1>9, <1>10, <1>11, <1>12 DEF Inv

-----------------------------------------------------------------------------
(* Each action keeps the invariant.                                           *)

LEMMA QuietActions ==
    ASSUME TypeOK, Inv, NEW c \in Clients,
           \/ (Acquire(c) \/ CtxCancel(c)) /\ UNCHANGED idle
           \/ AcquireClosed(c) \/ StartDial(c) \/ AcquireSlot(c) \/ SlotFails(c) \/ DialFails(c)
    PROVE  Inv'
<1>1. ASSUME NEW l, GoTo(c, l), l \notin {"install", "hold"},
             pc[c] \notin {"install", "hold"}, held' = held
      PROVE  \A d \in Clients : Owner(d) \/ Owner(d)' => pc'[d] = pc[d] /\ held'[d] = held[d]
    BY <1>1, GoToStep DEF Owner
<1>2. ASSUME Return(c), pc[c] \notin {"install", "hold"}
      PROVE  \A d \in Clients : Owner(d) \/ Owner(d)' => pc'[d] = pc[d] /\ held'[d] = held[d]
    BY <1>2, ReturnStep DEF Owner
<1>3. CASE Acquire(c) /\ UNCHANGED idle BY <1>1, <1>3, QuietStep DEF Acquire
<1>4. CASE CtxCancel(c) /\ UNCHANGED idle BY <1>4, QuietStep DEF CtxCancel
<1>5. CASE AcquireClosed(c) BY <1>2, <1>5, QuietStep DEF AcquireClosed
<1>6. CASE StartDial(c) BY <1>1, <1>6, QuietStep DEF StartDial
<1>7. CASE AcquireSlot(c) BY <1>1, <1>7, QuietStep DEF AcquireSlot
<1>8. CASE SlotFails(c) BY <1>2, <1>8, QuietStep DEF SlotFails
<1>9. CASE DialFails(c) BY <1>2, <1>9, QuietStep DEF DialFails
<1> QED BY <1>3, <1>4, <1>5, <1>6, <1>7, <1>8, <1>9

LEMMA TakeIdleInv ==
    ASSUME TypeOK, Inv, NEW c \in Clients, TakeIdle(c)
    PROVE  Inv'
<1> DEFINE k == Head(idle)
<1>1. /\ pc[c] = "acquire" /\ ~closed /\ idle # <<>> /\ idle' = Tail(idle)
      /\ UNCHANGED <<gen, closed, cancelled, drained>>
    BY DEF TakeIdle
<1>2. /\ k \in Range(idle) /\ k \in Conns
      /\ Range(idle') = Range(idle) \ {k} /\ IsInjective(idle')
    BY <1>1, TailOfIdle DEF TypeOK, Inv, IdleFree
<1>3. k \in all[gen] /\ \A d \in Clients : Owner(d) => held[d] # k
    BY <1>2 DEF Inv, IdleFree
<1>4. CASE /\ GoTo(c, "hold") /\ held' = [held EXCEPT ![c] = k] /\ UNCHANGED <<all, life>>
  <2>1. /\ pc'[c] = "hold" /\ held'[c] = k
        /\ \A d \in Clients : d # c => pc'[d] = pc[d] /\ held'[d] = held[d]
    <3>1. held'[c] = k /\ \A d \in Clients : d # c => held'[d] = held[d]
        BY <1>4 DEF TypeOK, PoolTypeOK
    <3> QED BY <1>4, <3>1, GoToStep
  <2>2. /\ UNCHANGED <<gen, closed, all, life, cancelled, drained>>
        /\ \A d \in Clients : pc[d] \in {"install", "hold"} => held[d] # k
      BY <1>1, <1>3, <1>4 DEF Owner
  <2>3. /\ gen \in Gens /\ all \in [Gens -> SUBSET Conns] /\ life[k] # "free"
      BY <1>2, <1>3 DEF TypeOK, PoolTypeOK, Inv, Undialled
  <2> HIDE DEF k
  <2> USE DEF Inv
  <2>4. States' BY <2>2 DEF States, Retired
  <2>5. Undialled' BY <2>1, <2>2, <2>3 DEF Undialled, Owner
  <2>6. InstalledOnce' BY <2>2 DEF InstalledOnce
  <2>7. DialOwns' BY <2>1, <2>2 DEF DialOwns, Live, Owner
  <2>8. OneOwner' BY <1>2, <2>1, <2>2 DEF OneOwner, Owner
  <2>9. IdleFree' BY <1>2, <2>1, <2>2 DEF IdleFree, Owner
  <2>10. TrackedLive' BY <2>2 DEF TrackedLive, Live
  <2>11. NoLeak'
    <3>1. ASSUME NEW j \in Conns, Live(j)'
          PROVE  Kept(j)'
      <4>1. Kept(j) BY <1>1, <2>1, <2>2, <3>1, NoLeakKept DEF Live
      <4> QED BY <1>1, <2>1, <2>2, <3>1, <4>1 DEF Kept, Tracked, Retired, Live
    <3> QED BY <3>1, KeptNoLeak
  <2> QED BY <2>4, <2>5, <2>6, <2>7, <2>8, <2>9, <2>10, <2>11 DEF Inv
<1>5. CASE DropConn(k) /\ UNCHANGED <<pc, held>>
  <2>1. \A d \in Clients : Keeps(d) BY <1>5 DEF Keeps
  <2>2. \A d \in Clients : Owner(d)' => held[d] # k BY <1>3, <1>5 DEF Owner
  <2> HIDE DEF k
  <2> QED BY <1>1, <1>2, <1>3, <1>5, <2>1, <2>2, DropStep
<1> QED BY <1>4, <1>5 DEF TakeIdle

LEMMA DialOKInv ==
    ASSUME TypeOK, Inv, NEW c \in Clients, DialOK(c)
    PROVE  Inv'
<1>1. PICK k \in Conns :
        /\ life[k] = "free"
        /\ \/ life' = Closing({k}) /\ Return(c)
           \/ /\ life' = [life EXCEPT ![k] = "open"] /\ GoTo(c, "install")
              /\ held' = [held EXCEPT ![c] = k]
    BY Zenon DEF DialOK
<1>2. pc[c] = "dial" /\ UNCHANGED <<stateVars, idle>> BY DEF DialOK
<1>3. /\ \A g \in Gens : k \notin all[g]
      /\ \A d \in Clients : Owner(d) => held[d] # k
    BY <1>1 DEF Inv, Undialled
<1>4. gen \in Gens /\ all \in [Gens -> SUBSET Conns] BY DEF TypeOK, PoolTypeOK
<1>5. CASE life' = Closing({k}) /\ Return(c)
  <2>1. \A d \in Clients : Owner(d)' => Keeps(d) /\ Owner(d)
      BY <1>5, ReturnStep DEF Owner, Keeps
  <2>2. \A d \in Clients : pc[d] = "install" => Keeps(d)
      BY <1>2, <1>5, ReturnStep DEF Keeps
  <2> QED BY <1>2, <1>3, <1>4, <1>5, <2>1, <2>2, CloseStep
<1>6. CASE /\ life' = [life EXCEPT ![k] = "open"] /\ GoTo(c, "install")
           /\ held' = [held EXCEPT ![c] = k]
  <2>1. /\ pc'[c] = "install" /\ held'[c] = k
        /\ \A d \in Clients : d # c => pc'[d] = pc[d] /\ held'[d] = held[d]
    <3>1. held'[c] = k /\ \A d \in Clients : d # c => held'[d] = held[d]
        BY <1>6 DEF TypeOK, PoolTypeOK
    <3> QED BY <1>6, <3>1, GoToStep
  <2>2. life'[k] = "open" /\ \A j \in Conns : j # k => life'[j] = life[j]
      BY <1>6 DEF TypeOK, PoolTypeOK
  <2>3. UNCHANGED <<gen, closed, all, cancelled, drained, idle>> BY <1>2 DEF stateVars
  <2>4. \A d \in Clients : pc[d] \in {"install", "hold"} => held[d] # k BY <1>3 DEF Owner
  <2> USE DEF Inv
  <2>5. States' BY <2>3 DEF States, Retired
  <2>6. Undialled' BY <2>1, <2>2, <2>3 DEF Undialled, Owner
  <2>7. InstalledOnce' BY <2>3 DEF InstalledOnce
  <2>8. DialOwns' BY <1>3, <2>1, <2>2, <2>3, <2>4 DEF DialOwns, Live, Owner, OneOwner
  <2>9. OneOwner' BY <2>1, <2>4 DEF OneOwner, Owner
  <2>10. IdleFree' BY <1>3, <1>4, <2>1, <2>3 DEF IdleFree, Owner
  <2>11. TrackedLive' BY <1>3, <1>4, <2>2, <2>3 DEF TrackedLive, Live
  <2>12. NoLeak'
    <3>1. ASSUME NEW j \in Conns, Live(j)'
          PROVE  Kept(j)'
      <4>1. CASE j = k BY <2>1, <4>1 DEF Kept, Tracked
      <4>2. CASE j # k
        <5>1. Kept(j) BY <1>2, <2>1, <2>2, <2>3, <3>1, <4>2, NoLeakKept DEF Live
        <5> QED BY <1>2, <2>1, <2>2, <2>3, <4>2, <5>1 DEF Kept, Tracked, Retired
      <4> QED BY <4>1, <4>2
    <3> QED BY <3>1, KeptNoLeak
  <2> QED BY <2>5, <2>6, <2>7, <2>8, <2>9, <2>10, <2>11, <2>12 DEF Inv
<1> QED BY <1>1, <1>5, <1>6

LEMMA InstallInv ==
    ASSUME TypeOK, Inv, NEW c \in Clients, Install(c)
    PROVE  Inv'
<1> DEFINE k == held[c]
<1>1. pc[c] = "install" /\ UNCHANGED <<gen, closed, cancelled, drained, idle>> BY DEF Install
<1>2. /\ k \in Conns /\ Live(k) /\ \A g \in Gens : k \notin all[g]
      /\ \A d \in Clients : Owner(d) /\ d # c => held[d] # k
    BY <1>1 DEF Inv, DialOwns, OneOwner, Owner
<1>3. gen \in Gens /\ all \in [Gens -> SUBSET Conns] BY DEF TypeOK, PoolTypeOK
<1>4. CASE life' = Closing({k}) /\ Return(c) /\ UNCHANGED all
  <2>1. \A d \in Clients : Owner(d)' => Keeps(d) /\ Owner(d) /\ d # c
      BY <1>4, ReturnStep DEF Owner, Keeps
  <2>2. \A d \in Clients : pc[d] = "install" => Keeps(d) \/ held[d] = k
      BY <1>4, ReturnStep DEF Keeps
  <2>3. UNCHANGED <<stateVars, idle>> BY <1>1, <1>4 DEF stateVars
  <2> HIDE DEF k
  <2> QED BY <1>2, <1>3, <1>4, <2>1, <2>2, <2>3, CloseStep
<1>5. CASE /\ ~closed /\ all' = [all EXCEPT ![gen] = @ \cup {k}] /\ GoTo(c, "hold")
           /\ UNCHANGED <<life, held>>
  <2>1. pc'[c] = "hold" /\ \A d \in Clients : d # c => pc'[d] = pc[d] BY <1>5, GoToStep
  <2>2. all'[gen] = all[gen] \cup {k} /\ \A g \in Gens : g # gen => all'[g] = all[g]
      BY <1>3, <1>5
  <2>3. UNCHANGED <<gen, closed, cancelled, drained, life, held, idle>> BY <1>1, <1>5
  <2>4. \A d \in Clients : pc[d] \in {"install", "hold"} /\ d # c => held[d] # k
      BY <1>2 DEF Owner
  <2>5. life[k] \in {"open", "dead"} /\ held[c] = k /\ gen \in Nat
      BY <1>2, <1>3, GenAssumption DEF Live, Gens
  <2> HIDE DEF k
  <2> USE DEF Inv
  <2>6. States' BY <1>3, <2>2, <2>3, <2>5 DEF States, Retired
  <2>7. Undialled' BY <1>1, <2>1, <2>2, <2>3, <2>5 DEF Undialled, Owner
  <2>8. InstalledOnce' BY <1>2, <1>3, <2>2 DEF InstalledOnce
  <2>9. DialOwns' BY <2>1, <2>2, <2>3, <2>4 DEF DialOwns, Live, Owner, OneOwner
  <2>10. OneOwner' BY <1>1, <2>1, <2>3 DEF OneOwner, Owner
  <2>11. IdleFree' BY <1>1, <2>1, <2>2, <2>3 DEF IdleFree, Owner
  <2>12. TrackedLive' BY <1>3, <2>2, <2>3, <2>5 DEF TrackedLive, Live
  <2>13. NoLeak'
    <3>1. ASSUME NEW j \in Conns, Live(j)'
          PROVE  Kept(j)'
      <4>1. CASE j = k BY <1>3, <1>5, <2>2, <2>3, <4>1 DEF Kept, Tracked
      <4>2. CASE j # k
        <5>1. Kept(j) BY <1>3, <2>1, <2>2, <2>3, <2>5, <3>1, <4>2, NoLeakKept DEF Live
        <5> QED BY <1>3, <2>1, <2>2, <2>3, <2>5, <4>2, <5>1 DEF Kept, Tracked, Retired
      <4> QED BY <4>1, <4>2
    <3> QED BY <3>1, KeptNoLeak
  <2> QED BY <2>6, <2>7, <2>8, <2>9, <2>10, <2>11, <2>12, <2>13 DEF Inv
<1> QED BY <1>4, <1>5 DEF Install

LEMMA ReleaseInv ==
    ASSUME TypeOK, Inv, NEW c \in Clients, NEW reuse \in BOOLEAN, Release(c, reuse)
    PROVE  Inv'
<1> DEFINE k == held[c]
<1>1. pc[c] = "hold" /\ UNCHANGED <<gen, closed, cancelled, drained>> /\ Return(c)
    BY DEF Release
<1>2. k \in Conns /\ k \notin Range(idle) /\ IdleWithout(k) = idle
    BY <1>1, ReleasedIdle DEF Inv
<1>3. \A d \in Clients : Owner(d)' => Keeps(d) /\ held[d] # k
  <2>1. \A d \in Clients : Owner(d)' => Keeps(d) /\ Owner(d) /\ d # c
      BY <1>1, ReturnStep DEF Owner, Keeps
  <2> QED BY <1>1, <2>1 DEF Inv, OneOwner, Owner
<1>4. \A d \in Clients : pc[d] = "install" => Keeps(d) BY <1>1, ReturnStep DEF Keeps
<1>5. IsInjective(idle) /\ idle \in Seq(Conns) BY DEF Inv, IdleFree, TypeOK
<1>6. CASE ~Tracked(k) /\ life' = Closing({k}) /\ UNCHANGED <<all, idle>>
  <2>1. UNCHANGED <<stateVars, idle>> /\ (closed \/ k \notin all[gen])
      BY <1>1, <1>6 DEF stateVars, Tracked
  <2> HIDE DEF k
  <2> QED BY <1>2, <1>3, <1>4, <1>6, <2>1, CloseStep
<1>7. CASE Tracked(k) /\ DropConn(k) /\ idle' = IdleWithout(k)
  <2>1. ~closed /\ k \in all[gen] /\ Range(idle') \subseteq Range(idle) \ {k}
        /\ IsInjective(idle')
      BY <1>2, <1>5, <1>7 DEF Tracked
  <2> HIDE DEF k
  <2> QED BY <1>1, <1>2, <1>3, <1>4, <1>7, <2>1, DropStep
<1>8. CASE Tracked(k) /\ idle' = Append(idle, k) /\ UNCHANGED <<all, life>>
  <2>1. /\ \A d \in Clients : pc'[d] \in {"install", "hold"} =>
               pc'[d] = pc[d] /\ held'[d] = held[d] /\ held[d] # k
        /\ \A d \in Clients : pc[d] = "install" => pc'[d] = pc[d] /\ held'[d] = held[d]
      BY <1>3, <1>4 DEF Owner, Keeps
  <2>2. Range(idle') = Range(idle) \cup {k} /\ IsInjective(idle')
      BY <1>2, <1>5, <1>8, AppendToIdle
  <2>3. UNCHANGED <<gen, closed, all, cancelled, drained, life>> /\ k \in all[gen]
      BY <1>1, <1>8 DEF Tracked
  <2> HIDE DEF k
  <2> USE DEF Inv
  <2>4. States' BY <2>3 DEF States, Retired
  <2>5. Undialled' BY <2>1, <2>3 DEF Undialled, Owner
  <2>6. InstalledOnce' BY <2>3 DEF InstalledOnce
  <2>7. DialOwns' BY <2>1, <2>3 DEF DialOwns, Live, Owner
  <2>8. OneOwner' BY <2>1 DEF OneOwner, Owner
  <2>9. IdleFree' BY <2>1, <2>2, <2>3 DEF IdleFree, Owner
  <2>10. TrackedLive' BY <2>3 DEF TrackedLive, Live
  <2>11. NoLeak'
    <3>1. ASSUME NEW j \in Conns, Live(j)'
          PROVE  Kept(j)'
      <4>1. Kept(j) BY <2>1, <2>3, <3>1, NoLeakKept DEF Live
      <4> QED BY <2>1, <2>3, <3>1, <4>1 DEF Kept, Tracked, Retired, Live
    <3> QED BY <3>1, KeptNoLeak
  <2> QED BY <2>4, <2>5, <2>6, <2>7, <2>8, <2>9, <2>10, <2>11 DEF Inv
<1> QED BY <1>2, <1>6, <1>7, <1>8 DEF Release

LEMMA DieInv ==
    ASSUME TypeOK, Inv, NEW k \in Conns, Die(k), UNCHANGED idle
    PROVE  Inv'
<1>1. /\ life[k] = "open" /\ life'[k] = "dead" /\ \A j \in Conns : j # k => life'[j] = life[j]
      /\ UNCHANGED <<gen, closed, all, cancelled, drained, pc, held>>
    BY DEF Die, TypeOK, PoolTypeOK, stateVars, clientVars
<1>2. gen \in Gens /\ all \in [Gens -> SUBSET Conns] BY DEF TypeOK, PoolTypeOK
<1> USE DEF Inv
<1>3. States' BY <1>1 DEF States, Retired
<1>4. Undialled' BY <1>1 DEF Undialled, Owner
<1>5. InstalledOnce' BY <1>1 DEF InstalledOnce
<1>6. DialOwns' BY <1>1 DEF DialOwns, Live, Owner, OneOwner
<1>7. OneOwner' BY <1>1 DEF OneOwner, Owner
<1>8. IdleFree' BY <1>1 DEF IdleFree, Owner
<1>9. TrackedLive' BY <1>1, <1>2 DEF TrackedLive, Live
<1>10. NoLeak'
  <2>1. ASSUME NEW j \in Conns, Live(j)'
        PROVE  Kept(j)'
    <3>1. Kept(j) BY <1>1, <2>1, NoLeakKept DEF Live
    <3> QED BY <1>1, <2>1, <3>1 DEF Kept, Tracked, Retired, Live
  <2> QED BY <2>1, KeptNoLeak
<1> QED BY <1>3, <1>4, <1>5, <1>6, <1>7, <1>8, <1>9, <1>10 DEF Inv

\* The state that is retired was not cancelled, so its connections are still to be closed.
LEMMA ResetInv ==
    ASSUME TypeOK, Inv, Reset, idle' = <<>>
    PROVE  Inv'
<1>1. /\ ~closed /\ gen' = gen + 1
      /\ UNCHANGED <<closed, all, cancelled, drained, life, pc, held>>
    BY DEF Reset, clientVars
<1>2. /\ gen \in Gens /\ gen' \in Gens /\ Gens \subseteq Nat /\ all \in [Gens -> SUBSET Conns]
      /\ cancelled \subseteq Gens
    BY GenAssumption DEF TypeOK, PoolTypeOK, Reset, Gens
<1>3. gen \notin drained BY <1>1, <1>2 DEF Inv, States, Retired
<1>4. all'[gen'] = {} BY <1>1, <1>2 DEF Inv, States
<1>5. Range(idle') = {} /\ IsInjective(idle') BY EmptyIdle
<1> USE DEF Inv
<1>6. States' BY <1>1, <1>2 DEF States, Retired
<1>7. Undialled' BY <1>1 DEF Undialled, Owner
<1>8. InstalledOnce' BY <1>1 DEF InstalledOnce
<1>9. DialOwns' BY <1>1 DEF DialOwns, Live, Owner
<1>10. OneOwner' BY <1>1 DEF OneOwner, Owner
<1>11. IdleFree' BY <1>1, <1>5 DEF IdleFree, Owner
<1>12. TrackedLive' BY <1>1, <1>4 DEF TrackedLive, Live
<1>13. NoLeak'
  <2>1. ASSUME NEW j \in Conns, Live(j)'
        PROVE  Kept(j)'
    <3>1. Kept(j) BY <1>1, <1>2, <1>3, <2>1, NoLeakKept DEF Live
    <3> QED BY <1>1, <1>2, <1>3, <2>1, <3>1 DEF Kept, Tracked, Retired, Live
  <2> QED BY <2>1, KeptNoLeak
<1> QED BY <1>6, <1>7, <1>8, <1>9, <1>10, <1>11, <1>12, <1>13 DEF Inv

LEMMA CloseInv ==
    ASSUME TypeOK, Inv, Close, UNCHANGED idle
    PROVE  Inv'
<1>1. /\ ~closed /\ closed'
      /\ UNCHANGED <<gen, all, cancelled, drained, life, pc, held>>
    BY DEF Close, clientVars
<1>2. /\ gen \in Gens /\ Gens \subseteq Nat /\ all \in [Gens -> SUBSET Conns]
      /\ cancelled \subseteq Gens
    BY GenAssumption DEF TypeOK, PoolTypeOK, Gens
<1>3. gen \notin drained BY <1>1, <1>2 DEF Inv, States, Retired
<1> USE DEF Inv
<1>4. States' BY <1>1 DEF States, Retired
<1>5. Undialled' BY <1>1 DEF Undialled, Owner
<1>6. InstalledOnce' BY <1>1 DEF InstalledOnce
<1>7. DialOwns' BY <1>1 DEF DialOwns, Live, Owner
<1>8. OneOwner' BY <1>1 DEF OneOwner, Owner
<1>9. IdleFree' BY <1>1 DEF IdleFree, Owner
<1>10. TrackedLive' BY <1>1 DEF TrackedLive, Live
<1>11. NoLeak'
  <2>1. ASSUME NEW j \in Conns, Live(j)'
        PROVE  Kept(j)'
    <3>1. Kept(j) BY <1>1, <1>2, <1>3, <2>1, NoLeakKept DEF Live
    <3> QED BY <1>1, <1>2, <1>3, <2>1, <3>1 DEF Kept, Tracked, Retired, Live
  <2> QED BY <2>1, KeptNoLeak
<1> QED BY <1>4, <1>5, <1>6, <1>7, <1>8, <1>9, <1>10, <1>11 DEF Inv

LEMMA CancelStateInv ==
    ASSUME TypeOK, Inv, NEW g \in Gens, CancelState(g), UNCHANGED idle
    PROVE  Inv'
<1>1. /\ Retired(g) /\ cancelled' = cancelled \cup {g}
      /\ UNCHANGED <<gen, closed, all, drained, life, pc, held>>
    BY DEF CancelState, clientVars
<1> USE DEF Inv
<1>2. States' BY <1>1 DEF States, Retired
<1>3. Undialled' BY <1>1 DEF Undialled, Owner
<1>4. InstalledOnce' BY <1>1 DEF InstalledOnce
<1>5. DialOwns' BY <1>1 DEF DialOwns, Live, Owner
<1>6. OneOwner' BY <1>1 DEF OneOwner, Owner
<1>7. IdleFree' BY <1>1 DEF IdleFree, Owner
<1>8. TrackedLive' BY <1>1 DEF TrackedLive, Live
<1>9. NoLeak'
  <2>1. ASSUME NEW j \in Conns, Live(j)'
        PROVE  Kept(j)'
    <3>1. Kept(j) BY <1>1, <2>1, NoLeakKept DEF Live
    <3> QED BY <1>1, <2>1, <3>1 DEF Kept, Tracked, Retired, Live
  <2> QED BY <2>1, KeptNoLeak
<1> QED BY <1>2, <1>3, <1>4, <1>5, <1>6, <1>7, <1>8, <1>9 DEF Inv

\* The drained state shares no connection with another, nor with a dial that has yet to
\* install the connection it made.
LEMMA DrainStateInv ==
    ASSUME TypeOK, Inv, NEW g \in Gens, DrainState(g), UNCHANGED idle
    PROVE  Inv'
<1>1. /\ g \in cancelled /\ drained' = drained \cup {g}
      /\ UNCHANGED <<gen, closed, all, cancelled, pc, held>> /\ life' = Closing(all[g])
    BY DEF DrainState, clientVars
<1>2. /\ gen \in Gens /\ Gens \subseteq Nat /\ all \in [Gens -> SUBSET Conns]
    BY GenAssumption DEF TypeOK, PoolTypeOK, Gens
<1>3. /\ \A k \in all[g] : life'[k] = "closed"
      /\ \A k \in Conns : k \notin all[g] => life'[k] = life[k]
  <2>1. all[g] \in SUBSET Conns BY <1>2
  <2> QED BY <1>1, <2>1, ClosingStep
<1>4. ~closed => g # gen BY <1>1, <1>2 DEF Inv, States, Retired
<1> USE DEF Inv
<1>5. States' BY <1>1 DEF States, Retired
<1>6. Undialled' BY <1>1, <1>3 DEF Undialled, Owner
<1>7. InstalledOnce' BY <1>1 DEF InstalledOnce
<1>8. DialOwns' BY <1>1, <1>3 DEF DialOwns, Live, Owner, OneOwner
<1>9. OneOwner' BY <1>1 DEF OneOwner, Owner
<1>10. IdleFree' BY <1>1 DEF IdleFree, Owner
<1>11. TrackedLive' BY <1>1, <1>2, <1>3, <1>4 DEF TrackedLive, Live, InstalledOnce
<1>12. NoLeak'
  <2>1. ASSUME NEW j \in Conns, Live(j)'
        PROVE  Kept(j)'
    <3>1. Kept(j) BY <1>1, <1>3, <2>1, NoLeakKept DEF Live
    <3> QED BY <1>1, <1>3, <2>1, <3>1 DEF Kept, Tracked, Retired, Live
  <2> QED BY <2>1, KeptNoLeak
<1> QED BY <1>5, <1>6, <1>7, <1>8, <1>9, <1>10, <1>11, <1>12 DEF Inv

-----------------------------------------------------------------------------
(* The invariant is inductive.                                                *)

LEMMA InvStep ==
    ASSUME TypeOK, Inv, [Next]_vars
    PROVE  Inv'
<1>1. ASSUME NEW c \in Clients, (Acquire(c) \/ CtxCancel(c)) /\ UNCHANGED <<idle, inflight>>
      PROVE  Inv'
    BY <1>1, QuietActions
<1>2. ASSUME NEW c \in Clients, ClientStep(c) PROVE Inv'
    BY <1>2, QuietActions, TakeIdleInv, DialOKInv, InstallInv, Zenon DEF ClientStep
<1>3. ASSUME NEW c \in Clients, NEW reuse \in BOOLEAN, Release(c, reuse) PROVE Inv'
    BY <1>3, ReleaseInv
<1>4. ASSUME NEW k \in Conns, Die(k) /\ UNCHANGED <<idle, inflight>> PROVE Inv'
    BY <1>4, DieInv
<1>5. CASE Reset /\ idle' = <<>> /\ UNCHANGED inflight BY <1>5, ResetInv
<1>6. CASE Close /\ UNCHANGED <<idle, inflight>> BY <1>6, CloseInv
<1>7. ASSUME NEW g \in Gens, PoolStep(g) PROVE Inv'
    BY <1>7, CancelStateInv, DrainStateInv DEF PoolStep
<1>8. CASE UNCHANGED vars
  <2>1. UNCHANGED <<stateVars, life, idle>> /\ UNCHANGED <<pc, held>>
      BY <1>8 DEF vars, clientVars
  <2> QED BY <2>1, QuietStep
<1> QED BY <1>1, <1>2, <1>3, <1>4, <1>5, <1>6, <1>7, <1>8 DEF Next

LEMMA IndInvInit ==
    ASSUME Init
    PROVE  IndInv
<1> USE DEF Init, PoolInit
<1>1. 1 \in Gens /\ Gens \subseteq Nat BY GenAssumption DEF Gens
<1>2. TypeOK
  <2>1. PoolTypeOK BY <1>1, Zenon DEF PoolTypeOK, Lives
  <2>2. inflight \in 0..MaxInflight BY InflightAssumption
  <2> QED BY <2>1, <2>2 DEF TypeOK
<1>3. SlotsMatchDials
  <2>1. Dialling = {} BY DEF Dialling
  <2> QED BY <2>1, FS_EmptySet DEF SlotsMatchDials
<1>4. \A c \in Clients : ~Owner(c) /\ pc[c] # "install" BY DEF Owner
<1>5. Range(idle) = {} /\ IsInjective(idle) BY EmptyIdle
<1>6. \A k \in Conns : ~Live(k) BY DEF Live
<1>7. States /\ Undialled /\ InstalledOnce BY <1>1, <1>4 DEF States, Undialled, InstalledOnce
<1>8. DialOwns /\ OneOwner BY <1>4 DEF DialOwns, OneOwner
<1>9. IdleFree BY <1>5 DEF IdleFree
<1>10. TrackedLive BY <1>1 DEF TrackedLive
<1>11. NoLeak BY <1>6 DEF NoLeak, Accounted
<1> QED BY <1>2, <1>3, <1>7, <1>8, <1>9, <1>10, <1>11 DEF IndInv, Inv

LEMMA IndInvStep ==
    ASSUME IndInv, [Next]_vars
    PROVE  IndInv'
<1>1. TypeOK /\ SlotsMatchDials /\ Inv /\ OneOwner /\ IdleFree BY DEF IndInv, Inv
<1>2. SlotsMatchDials' /\ inflight' \in 0..MaxInflight BY <1>1, SlotsStep
<1>3. Typed' BY <1>1, TypeStep
<1>4. TypeOK' BY <1>2, <1>3 DEF Typed, TypeOK, Labels
<1>5. Inv' BY <1>1, InvStep
<1> QED BY <1>2, <1>4, <1>5 DEF IndInv

\* The inductive invariant holds in every reachable state.
THEOREM Inductive == Spec => []IndInv
BY IndInvInit, IndInvStep, PTL DEF Spec

-----------------------------------------------------------------------------
(* What follows from it.                                                      *)

\* Every variable keeps its type; in particular there are never more dials than slots.
THEOREM TypeCorrect == Spec => []TypeOK
<1>1. IndInv => TypeOK BY DEF IndInv
<1> QED BY <1>1, Inductive, PTL

\* A connection serves one exchange at a time: acquireOrdered takes it off the idle list
\* and Release puts it back, with Reset, Close and other clients at any point between.
THEOREM Exclusive == Spec => []ExclusiveHold
<1>1. ASSUME IndInv PROVE ExclusiveHold
  <2>1. \A c \in Holders : c \in Clients /\ Owner(c) BY DEF Holders, Owner
  <2>2. OneOwner /\ IdleFree BY <1>1 DEF IndInv, Inv
  <2>3. \A c, d \in Holders : held[c] = held[d] => c = d BY <2>1, <2>2 DEF OneOwner
  <2>4. \A c \in Holders : held[c] \notin Range(idle) BY <2>1, <2>2 DEF IdleFree
  <2> QED BY <2>2, <2>3, <2>4 DEF ExclusiveHold, IdleFree
<1> QED BY <1>1, Inductive, PTL

\* No connection is forgotten by a Reset or Close that races a dial or a Release.
THEOREM NothingLeaks == Spec => []NoLeak
<1>1. IndInv => NoLeak BY DEF IndInv, Inv
<1> QED BY <1>1, Inductive, PTL

\* Every path out of dialAndInstall gives its slot back, once.
THEOREM SlotsReturned == Spec => []SlotsMatchDials
<1>1. IndInv => SlotsMatchDials BY DEF IndInv
<1> QED BY <1>1, Inductive, PTL

\* A client gets to hold a connection in two ways.
LEMMA HandOut ==
    ASSUME TypeOK, [Next]_vars, NEW c \in Clients, pc[c] # "hold", pc'[c] = "hold"
    PROVE  TakeIdle(c) \/ Install(c)
<1>1. ASSUME NEW d \in Clients, NEW l, GoTo(d, l), l # "hold" PROVE FALSE
    BY <1>1, GoToStep
<1>2. ASSUME NEW d \in Clients, Return(d) PROVE FALSE BY <1>2, ReturnStep
<1>3. ASSUME NEW d \in Clients, GoTo(d, "hold") PROVE c = d BY <1>3, GoToStep
<1>4. ASSUME UNCHANGED pc PROVE FALSE BY <1>4
<1>5. ASSUME NEW d \in Clients, Acquire(d) \/ StartDial(d) \/ AcquireSlot(d) PROVE FALSE
    BY <1>1, <1>5 DEF Acquire, StartDial, AcquireSlot
<1>6. ASSUME NEW d \in Clients, NEW reuse \in BOOLEAN,
             \/ AcquireClosed(d) \/ SlotFails(d) \/ DialFails(d) \/ Release(d, reuse)
      PROVE  FALSE
    BY <1>2, <1>6 DEF AcquireClosed, SlotFails, DialFails, Release
<1>7. ASSUME NEW d \in Clients, DialOK(d) PROVE FALSE
  <2>1. Return(d) \/ GoTo(d, "install") BY <1>7 DEF DialOK
  <2> QED BY <1>1, <1>2, <2>1
<1>8. ASSUME NEW d \in Clients, TakeIdle(d) PROVE c = d
  <2>1. GoTo(d, "hold") \/ UNCHANGED pc BY <1>8 DEF TakeIdle
  <2> QED BY <1>3, <1>4, <2>1
<1>9. ASSUME NEW d \in Clients, Install(d) PROVE c = d
  <2>1. GoTo(d, "hold") \/ Return(d) BY <1>9 DEF Install
  <2> QED BY <1>2, <1>3, <2>1
<1>10. ASSUME NEW d \in Clients, CtxCancel(d) PROVE FALSE BY <1>4, <1>10 DEF CtxCancel
<1>11. ASSUME NEW k \in Conns, Die(k) PROVE FALSE BY <1>4, <1>11 DEF Die, clientVars
<1>12. ~Reset /\ ~Close BY <1>4 DEF Reset, Close, clientVars
<1>13. ASSUME NEW g \in Gens, PoolStep(g) PROVE FALSE
    BY <1>4, <1>13 DEF PoolStep, CancelState, DrainState, clientVars
<1>14. ~UNCHANGED vars BY <1>4 DEF vars, clientVars
<1> QED
    BY <1>5, <1>6, <1>7, <1>8, <1>9, <1>10, <1>11, <1>12, <1>13, <1>14, Zenon
    DEF Next, ClientStep

LEMMA HandsOutStep ==
    ASSUME IndInv, [Next]_vars, NEW c \in Clients, pc[c] # "hold", pc'[c] = "hold"
    PROVE  held'[c] \in all'[gen] /\ life'[held'[c]] # "closed"
<1>1. TypeOK /\ Inv BY DEF IndInv
<1>2. gen \in Gens /\ all \in [Gens -> SUBSET Conns] BY <1>1 DEF TypeOK, PoolTypeOK
<1>3. CASE TakeIdle(c)
  <2>1. /\ ~closed /\ idle # <<>>
        /\ GoTo(c, "hold") /\ held' = [held EXCEPT ![c] = Head(idle)] /\ UNCHANGED <<all, life>>
      BY <1>3, Zenon DEF TakeIdle
  <2>2. Head(idle) \in all[gen] BY <1>1, <2>1, TailOfIdle DEF Inv, IdleFree, TypeOK
  <2>3. life[Head(idle)] # "closed" BY <1>1, <2>1, <2>2 DEF Inv, TrackedLive, Live
  <2>4. held'[c] = Head(idle) BY <1>1, <2>1 DEF TypeOK, PoolTypeOK
  <2> QED BY <2>1, <2>2, <2>3, <2>4
<1>4. CASE Install(c)
  <2>1. ~Return(c) BY <1>1, ReturnStep
  <2>2. /\ pc[c] = "install" /\ all' = [all EXCEPT ![gen] = @ \cup {held[c]}]
        /\ UNCHANGED <<life, held>>
      BY <1>4, <2>1 DEF Install
  <2>3. Live(held[c]) BY <1>1, <2>2 DEF Inv, DialOwns
  <2> QED BY <1>2, <2>2, <2>3 DEF Live
<1> QED BY <1>1, <1>3, <1>4, HandOut

\* Acquire hands out connections of the current state only, and none the pool has closed:
\* what Reset retired does not come back.
THEOREM OnlyCurrentHandedOut == Spec => HandsOutCurrent
<1> DEFINE A == \A c \in Clients : pc[c] # "hold" /\ pc'[c] = "hold" =>
                    held'[c] \in all'[gen] /\ life'[held'[c]] # "closed"
<1>1. IndInv /\ [Next]_vars => [A]_vars BY HandsOutStep
<1>2. HandsOutCurrent <=> [][A]_vars BY DEF HandsOutCurrent
<1> HIDE DEF A
<1> QED BY <1>1, <1>2, Inductive, PTL DEF Spec
=============================================================================

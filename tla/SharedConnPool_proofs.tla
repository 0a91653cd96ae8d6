------------------------ MODULE SharedConnPool_proofs -----------------------
(***************************************************************************)
(* Proofs that the shared pool keeps its invariants for every set of        *)
(* clients and connections and every number of states.                      *)
(***************************************************************************)
EXTENDS SharedConnPool, TLAPS

\* First-order leaves go to Zenon; a leaf that needs arithmetic or records says SMT.
USE Zenon

\* closeState runs for retired states only; a state that is not there yet is empty.
States ==
    /\ drained \subseteq cancelled
    /\ \A g \in cancelled : Retired(g)
    /\ \A g \in Gens : g > gen => all[g] = {} /\ connecting[g] = "none"

\* A dial owns the connection it returned, which nobody has seen.
DialOwns ==
    \A g \in Gens :
      /\ connecting[g] # "install" => dialled[g] = None
      /\ dialled[g] # None =>
           /\ readers[dialled[g]] = 0
           /\ Live(dialled[g])
           /\ \A h \in Gens : dialled[h] = dialled[g] => h = g

\* An installed connection is its state's, and no dial's.
InstalledOnce ==
    \A g \in Gens : \A k \in all[g] :
      /\ origin[k] = g /\ life[k] # "free"
      /\ \A h \in Gens : dialled[h] # k

Unseen == \A k \in Conns : life[k] = "free" => readers[k] = 0

\* Who dials has found no connection, so the one it installs is the only one.
SharedState ==
    /\ shared # None => readers[shared] = IF claimed THEN 1 ELSE 0
    /\ shared = None => ~claimed
    /\ ~closed /\ connecting[gen] # "none" => shared = None
    /\ ~closed /\ shared # None => life[shared] # "closed"

\* Why a holder's connection may be closed.
HoldersKnow ==
    \A c \in Holders :
      /\ held[c] \in Conns
      /\ Tracked(held[c]) \/ held[c] \in signalled \/ Retired(origin[held[c]])

Inv ==
    /\ States /\ DialOwns /\ InstalledOnce /\ Unseen /\ SharedState
    /\ OneConnection /\ NoLeak /\ CreatedOnce /\ HoldersKnow

IndInv == TypeOK /\ Inv

\* The variables the invariant is about, but for the holders; a step may let clients
\* go without disturbing it.
stateOnly == <<gen, closed, all, cancelled, drained, life, shared, claimed, signalled,
               connecting, dialled, origin, readers>>
NoNewHolder ==
    \A c \in Clients : pc'[c] = "hold" => pc[c] = "hold" /\ held'[c] = held[c]

-----------------------------------------------------------------------------
\* Only clients move, and none acquires a connection.
LEMMA LetGo ==
    ASSUME IndInv,
           UNCHANGED stateOnly,
           NoNewHolder
    PROVE  Inv'
<1>1. States'
  BY NoConnAssumption, GenAssumption
     DEF IndInv, Inv, stateOnly, NoNewHolder, States, Retired, TypeOK, PoolTypeOK,
         Gens
<1>2. DialOwns'
  BY NoConnAssumption, GenAssumption
     DEF IndInv, Inv, stateOnly, NoNewHolder, DialOwns, Live, TypeOK, PoolTypeOK,
         Gens
<1>3. InstalledOnce'
  BY NoConnAssumption, GenAssumption
     DEF IndInv, Inv, stateOnly, NoNewHolder, InstalledOnce, TypeOK, PoolTypeOK, Gens
<1>4. Unseen'
  BY NoConnAssumption, GenAssumption
     DEF IndInv, Inv, stateOnly, NoNewHolder, Unseen, TypeOK, PoolTypeOK, Gens
<1>5. SharedState'
  BY NoConnAssumption, GenAssumption
     DEF IndInv, Inv, stateOnly, NoNewHolder, SharedState, TypeOK, PoolTypeOK, Gens
<1>6. OneConnection'
  BY NoConnAssumption, GenAssumption
     DEF IndInv, Inv, stateOnly, NoNewHolder, OneConnection, TypeOK, PoolTypeOK, Gens
<1>7. NoLeak'
  BY NoConnAssumption, GenAssumption, SMT
     DEF IndInv, Inv, stateOnly, NoNewHolder, NoLeak, Accounted, Tracked, Retired,
         Live, TypeOK, PoolTypeOK, Gens
<1>8. CreatedOnce'
  BY NoConnAssumption, GenAssumption
     DEF IndInv, Inv, stateOnly, NoNewHolder, CreatedOnce, Holders, TypeOK,
         PoolTypeOK, Gens
<1>9. HoldersKnow'
  BY NoConnAssumption, GenAssumption
     DEF IndInv, Inv, stateOnly, NoNewHolder, HoldersKnow, Holders, Tracked, Retired,
         TypeOK, PoolTypeOK, Gens
<1>q. QED BY <1>1, <1>2, <1>3, <1>4, <1>5, <1>6, <1>7, <1>8, <1>9 DEF Inv

\* The shared connection is removed and closed.
LEMMA Removal ==
    ASSUME IndInv,
           NEW k \in Conns, Tracked(k), RemoveShared(k),
           UNCHANGED <<gen, closed, cancelled, drained, connecting, dialled, origin, readers>>,
           NoNewHolder
    PROVE  Inv'
<1>1. States'
  BY NoConnAssumption, GenAssumption
     DEF IndInv, Inv, NoNewHolder, RemoveShared, DropConn, Closing, Tracked,
         OneConnection, States, Retired, TypeOK, PoolTypeOK, Gens
<1>2. DialOwns'
  BY NoConnAssumption, GenAssumption, SMT
     DEF IndInv, Inv, NoNewHolder, RemoveShared, DropConn, Closing, Tracked,
         OneConnection, States, DialOwns, Live, InstalledOnce, TypeOK, PoolTypeOK,
         Gens
<1>3. InstalledOnce'
  BY NoConnAssumption, GenAssumption, SMT
     DEF IndInv, Inv, NoNewHolder, RemoveShared, DropConn, Closing, Tracked,
         OneConnection, States, InstalledOnce, TypeOK, PoolTypeOK, Gens
<1>4. Unseen'
  BY NoConnAssumption, GenAssumption
     DEF IndInv, Inv, NoNewHolder, RemoveShared, DropConn, Closing, Tracked,
         OneConnection, States, Unseen, TypeOK, PoolTypeOK, Gens
<1>5. SharedState'
  BY NoConnAssumption, GenAssumption
     DEF IndInv, Inv, NoNewHolder, RemoveShared, DropConn, Closing, Tracked,
         OneConnection, States, SharedState, TypeOK, PoolTypeOK, Gens
<1>6. OneConnection'
  BY NoConnAssumption, GenAssumption
     DEF IndInv, Inv, NoNewHolder, RemoveShared, DropConn, Closing, Tracked,
         OneConnection, States, TypeOK, PoolTypeOK, Gens
<1>7. NoLeak'
  <2> SUFFICES ASSUME NEW j \in Conns, Live(j)'
               PROVE  \/ Tracked(j)'
                      \/ \E h \in Gens : Retired(h)' /\ h \notin drained' /\ j \in all'[h]
                      \/ \E h \in Gens : j = dialled'[h]
    BY DEF NoLeak, Accounted
  <2>1. j # k /\ Live(j)
    BY DEF IndInv, Live, RemoveShared, DropConn, Closing, TypeOK, PoolTypeOK, Gens
  <2>2. \/ Tracked(j)
        \/ \E h \in Gens : Retired(h) /\ h \notin drained /\ j \in all[h]
        \/ \E h \in Gens : j = dialled[h]
    BY <2>1 DEF IndInv, Inv, NoLeak, Accounted
  <2>q. QED
    BY <2>1, <2>2 DEF IndInv, Tracked, Retired, RemoveShared, DropConn, Closing, TypeOK,
         PoolTypeOK, Gens
<1>8. CreatedOnce'
  BY NoConnAssumption, GenAssumption
     DEF IndInv, Inv, NoNewHolder, RemoveShared, DropConn, Closing, Tracked,
         OneConnection, States, CreatedOnce, Holders, TypeOK, PoolTypeOK, Gens
<1>9. HoldersKnow'
  BY NoConnAssumption, GenAssumption, SMT
     DEF IndInv, Inv, NoNewHolder, RemoveShared, DropConn, Closing, Tracked,
         OneConnection, States, HoldersKnow, Holders, Retired, TypeOK, PoolTypeOK,
         Gens
<1>q. QED BY <1>1, <1>2, <1>3, <1>4, <1>5, <1>6, <1>7, <1>8, <1>9 DEF Inv

\* The shared connection is handed to a client.
LEMMA HandingOut ==
    ASSUME IndInv,
           NEW c \in Clients, ~closed, shared # None, HandOut(c),
           UNCHANGED <<gen, closed, all, cancelled, drained, life, shared, signalled,
                       connecting, dialled, origin>>
    PROVE  Inv'
<1>1. States'
  BY NoConnAssumption, GenAssumption
     DEF IndInv, Inv, HandOut, GoTo, OneConnection, SharedState, CreatedOnce,
         InstalledOnce, States, Retired, TypeOK, PoolTypeOK, Gens
<1>2. DialOwns'
  BY NoConnAssumption, GenAssumption, SMT
     DEF IndInv, Inv, HandOut, GoTo, OneConnection, SharedState, CreatedOnce,
         InstalledOnce, DialOwns, Live, TypeOK, PoolTypeOK, Gens
<1>3. InstalledOnce'
  BY NoConnAssumption, GenAssumption
     DEF IndInv, Inv, HandOut, GoTo, OneConnection, SharedState, CreatedOnce,
         InstalledOnce, TypeOK, PoolTypeOK, Gens
<1>4. Unseen'
  BY NoConnAssumption, GenAssumption, SMT
     DEF IndInv, Inv, HandOut, GoTo, OneConnection, SharedState, CreatedOnce,
         InstalledOnce, Unseen, TypeOK, PoolTypeOK, Gens
<1>5. SharedState'
  BY NoConnAssumption, GenAssumption, SMT
     DEF IndInv, Inv, HandOut, GoTo, OneConnection, SharedState, CreatedOnce,
         InstalledOnce, TypeOK, PoolTypeOK, Gens
<1>6. OneConnection'
  BY NoConnAssumption, GenAssumption
     DEF IndInv, Inv, HandOut, GoTo, OneConnection, SharedState, CreatedOnce,
         InstalledOnce, TypeOK, PoolTypeOK, Gens
<1>7. NoLeak'
  <2> SUFFICES ASSUME NEW j \in Conns, Live(j)'
               PROVE  \/ Tracked(j)'
                      \/ \E h \in Gens : Retired(h)' /\ h \notin drained' /\ j \in all'[h]
                      \/ \E h \in Gens : j = dialled'[h]
    BY DEF NoLeak, Accounted
  <2>1. Live(j)
    BY DEF IndInv, Live, HandOut, TypeOK, PoolTypeOK, Gens
  <2>2. \/ Tracked(j)
        \/ \E h \in Gens : Retired(h) /\ h \notin drained /\ j \in all[h]
        \/ \E h \in Gens : j = dialled[h]
    BY <2>1 DEF IndInv, Inv, NoLeak, Accounted
  <2>q. QED
    BY NoConnAssumption, <2>1, <2>2 DEF IndInv, Tracked, Retired, HandOut, TypeOK, PoolTypeOK, Gens
<1>8. CreatedOnce'
  BY NoConnAssumption, GenAssumption, SMT
     DEF IndInv, Inv, HandOut, GoTo, OneConnection, SharedState, CreatedOnce,
         InstalledOnce, Holders, TypeOK, PoolTypeOK, Gens
<1>9. HoldersKnow'
  BY NoConnAssumption, GenAssumption, SMT
     DEF IndInv, Inv, HandOut, GoTo, OneConnection, SharedState, CreatedOnce,
         InstalledOnce, HoldersKnow, Holders, Tracked, Retired, TypeOK, PoolTypeOK,
         Gens
<1>q. QED BY <1>1, <1>2, <1>3, <1>4, <1>5, <1>6, <1>7, <1>8, <1>9 DEF Inv

\* A connection the pool no longer has is closed by a client or its receive loop.
LEMMA LateClose ==
    ASSUME IndInv,
           NEW k \in Conns, ~Tracked(k), readers[k] = 1, life' = Closing({k}),
           UNCHANGED <<gen, closed, all, cancelled, drained, shared, claimed, signalled,
                       connecting, dialled, origin, readers>>,
           NoNewHolder
    PROVE  Inv'
<1>1. States'
  BY NoConnAssumption, GenAssumption
     DEF IndInv, Inv, NoNewHolder, Closing, Tracked, OneConnection, Unseen, States,
         Retired, TypeOK, PoolTypeOK, Gens
<1>2. DialOwns'
  <2>1. \A j \in Conns \ {k} : life'[j] = life[j]
    BY DEF IndInv, Closing, TypeOK, PoolTypeOK
  <2>2. \A g \in Gens : dialled[g] # None => dialled[g] \in Conns \ {k}
    BY SMT DEF IndInv, Inv, DialOwns, TypeOK, PoolTypeOK
  <2> QED
    BY <2>1, <2>2 DEF IndInv, Inv, DialOwns, Live
<1>3. InstalledOnce'
  <2>1. \A j \in Conns : life[j] # "free" => life'[j] # "free"
    BY DEF IndInv, Closing, TypeOK, PoolTypeOK
  <2>2. \A g \in Gens : all[g] \subseteq Conns
    BY DEF IndInv, TypeOK, PoolTypeOK
  <2> QED
    BY <2>1, <2>2 DEF IndInv, Inv, InstalledOnce
<1>4. Unseen'
  BY NoConnAssumption, GenAssumption
     DEF IndInv, Inv, NoNewHolder, Closing, Tracked, OneConnection, Unseen, TypeOK,
         PoolTypeOK, Gens
<1>5. SharedState'
  BY NoConnAssumption, GenAssumption
     DEF IndInv, Inv, NoNewHolder, Closing, Tracked, OneConnection, Unseen,
         SharedState, TypeOK, PoolTypeOK, Gens
<1>6. OneConnection'
  BY NoConnAssumption, GenAssumption
     DEF IndInv, Inv, NoNewHolder, Closing, Tracked, OneConnection, Unseen, TypeOK,
         PoolTypeOK, Gens
<1>7. NoLeak'
  <2> SUFFICES ASSUME NEW j \in Conns, Live(j)'
               PROVE  \/ Tracked(j)'
                      \/ \E h \in Gens : Retired(h)' /\ h \notin drained' /\ j \in all'[h]
                      \/ \E h \in Gens : j = dialled'[h]
    BY DEF NoLeak, Accounted
  <2>1. j # k /\ Live(j)
    BY DEF IndInv, Live, Closing, TypeOK, PoolTypeOK, Gens
  <2>2. \/ Tracked(j)
        \/ \E h \in Gens : Retired(h) /\ h \notin drained /\ j \in all[h]
        \/ \E h \in Gens : j = dialled[h]
    BY <2>1 DEF IndInv, Inv, NoLeak, Accounted
  <2>q. QED
    BY <2>1, <2>2 DEF IndInv, Tracked, Retired, Closing, TypeOK, PoolTypeOK, Gens
<1>8. CreatedOnce'
  BY NoConnAssumption, GenAssumption
     DEF IndInv, Inv, NoNewHolder, Closing, Tracked, OneConnection, Unseen,
         CreatedOnce, Holders, TypeOK, PoolTypeOK, Gens
<1>9. HoldersKnow'
  BY NoConnAssumption, GenAssumption
     DEF IndInv, Inv, NoNewHolder, Closing, Tracked, OneConnection, Unseen,
         HoldersKnow, Holders, Retired, TypeOK, PoolTypeOK, Gens
<1>q. QED BY <1>1, <1>2, <1>3, <1>4, <1>5, <1>6, <1>7, <1>8, <1>9 DEF Inv

\* A dial starts when there is neither a connection nor a dial.
LEMMA StartDialInv ==
    ASSUME IndInv,
           NEW c \in Clients, StartDial(c)
    PROVE  Inv'
<1>1. States'
  BY NoConnAssumption, GenAssumption, SMT
     DEF IndInv, Inv, StartDial, GoTo, stateVars, DialOwns, States, Retired, TypeOK,
         PoolTypeOK, Gens
<1>2. DialOwns'
  BY NoConnAssumption, GenAssumption
     DEF IndInv, Inv, StartDial, GoTo, stateVars, DialOwns, Live, TypeOK, PoolTypeOK,
         Gens
<1>3. InstalledOnce'
  BY NoConnAssumption, GenAssumption
     DEF IndInv, Inv, StartDial, GoTo, stateVars, DialOwns, InstalledOnce, TypeOK,
         PoolTypeOK, Gens
<1>4. Unseen'
  BY NoConnAssumption, GenAssumption
     DEF IndInv, Inv, StartDial, GoTo, stateVars, DialOwns, Unseen, TypeOK,
         PoolTypeOK, Gens
<1>5. SharedState'
  BY NoConnAssumption, GenAssumption
     DEF IndInv, Inv, StartDial, GoTo, stateVars, DialOwns, SharedState, TypeOK,
         PoolTypeOK, Gens
<1>6. OneConnection'
  BY NoConnAssumption, GenAssumption
     DEF IndInv, Inv, StartDial, GoTo, stateVars, DialOwns, OneConnection, TypeOK,
         PoolTypeOK, Gens
<1>7. NoLeak'
  <2> SUFFICES ASSUME NEW j \in Conns, Live(j)'
               PROVE  \/ Tracked(j)'
                      \/ \E h \in Gens : Retired(h)' /\ h \notin drained' /\ j \in all'[h]
                      \/ \E h \in Gens : j = dialled'[h]
    BY DEF NoLeak, Accounted
  <2>1. Live(j)
    BY DEF IndInv, Live, StartDial, stateVars, TypeOK, PoolTypeOK, Gens
  <2>2. \/ Tracked(j)
        \/ \E h \in Gens : Retired(h) /\ h \notin drained /\ j \in all[h]
        \/ \E h \in Gens : j = dialled[h]
    BY <2>1 DEF IndInv, Inv, NoLeak, Accounted
  <2>q. QED
    BY NoConnAssumption, <2>1, <2>2 DEF IndInv, Tracked, Retired, StartDial, stateVars, TypeOK, PoolTypeOK, Gens
<1>8. CreatedOnce'
  BY NoConnAssumption, GenAssumption
     DEF IndInv, Inv, StartDial, GoTo, stateVars, DialOwns, CreatedOnce, Holders,
         TypeOK, PoolTypeOK, Gens
<1>9. HoldersKnow'
  BY NoConnAssumption, GenAssumption, SMT
     DEF IndInv, Inv, StartDial, GoTo, stateVars, DialOwns, HoldersKnow, Holders,
         Tracked, Retired, TypeOK, PoolTypeOK, Gens
<1>q. QED BY <1>1, <1>2, <1>3, <1>4, <1>5, <1>6, <1>7, <1>8, <1>9 DEF Inv

\* A dial is cancelled with its starter.
LEMMA CtxCancelledInv ==
    ASSUME IndInv,
           NEW c \in Clients, CtxCancelled(c)
    PROVE  Inv'
<1>1. States'
  BY NoConnAssumption, GenAssumption, SMT
     DEF IndInv, Inv, CtxCancelled, CtxCancel, stateVars, DialOwns, States, Retired,
         TypeOK, PoolTypeOK, Gens
<1>2. DialOwns'
  BY NoConnAssumption, GenAssumption, SMT
     DEF IndInv, Inv, CtxCancelled, CtxCancel, stateVars, DialOwns, Live, TypeOK,
         PoolTypeOK, Gens
<1>3. InstalledOnce'
  BY NoConnAssumption, GenAssumption
     DEF IndInv, Inv, CtxCancelled, CtxCancel, stateVars, DialOwns, InstalledOnce,
         TypeOK, PoolTypeOK, Gens
<1>4. Unseen'
  BY NoConnAssumption, GenAssumption
     DEF IndInv, Inv, CtxCancelled, CtxCancel, stateVars, DialOwns, Unseen, TypeOK,
         PoolTypeOK, Gens
<1>5. SharedState'
  BY NoConnAssumption, GenAssumption, SMT
     DEF IndInv, Inv, CtxCancelled, CtxCancel, stateVars, DialOwns, SharedState,
         TypeOK, PoolTypeOK, Gens
<1>6. OneConnection'
  BY NoConnAssumption, GenAssumption
     DEF IndInv, Inv, CtxCancelled, CtxCancel, stateVars, DialOwns, OneConnection,
         TypeOK, PoolTypeOK, Gens
<1>7. NoLeak'
  BY NoConnAssumption, GenAssumption, SMTT(60)
     DEF IndInv, Inv, CtxCancelled, CtxCancel, stateVars, DialOwns, NoLeak, Accounted,
         Tracked, Retired, Live, TypeOK, PoolTypeOK, Gens
<1>8. CreatedOnce'
  BY NoConnAssumption, GenAssumption
     DEF IndInv, Inv, CtxCancelled, CtxCancel, stateVars, DialOwns, CreatedOnce,
         Holders, TypeOK, PoolTypeOK, Gens
<1>9. HoldersKnow'
  BY NoConnAssumption, GenAssumption
     DEF IndInv, Inv, CtxCancelled, CtxCancel, stateVars, DialOwns, HoldersKnow,
         Holders, Tracked, Retired, TypeOK, PoolTypeOK, Gens
<1>q. QED BY <1>1, <1>2, <1>3, <1>4, <1>5, <1>6, <1>7, <1>8, <1>9 DEF Inv

\* A dial fails.
LEMMA DialFailsInv ==
    ASSUME IndInv,
           NEW g \in Gens, DialFails(g)
    PROVE  Inv'
<1>1. States'
  BY NoConnAssumption, GenAssumption, SMT
     DEF IndInv, Inv, DialFails, DialReturns, stateVars, clientVars, DialOwns, States,
         Retired, TypeOK, PoolTypeOK, Gens
<1>2. DialOwns'
  BY NoConnAssumption, GenAssumption
     DEF IndInv, Inv, DialFails, DialReturns, stateVars, clientVars, DialOwns, Live,
         TypeOK, PoolTypeOK, Gens
<1>3. InstalledOnce'
  BY NoConnAssumption, GenAssumption, SMT
     DEF IndInv, Inv, DialFails, DialReturns, stateVars, clientVars, DialOwns,
         InstalledOnce, TypeOK, PoolTypeOK, Gens
<1>4. Unseen'
  BY NoConnAssumption, GenAssumption
     DEF IndInv, Inv, DialFails, DialReturns, stateVars, clientVars, DialOwns, Unseen,
         TypeOK, PoolTypeOK, Gens
<1>5. SharedState'
  BY NoConnAssumption, GenAssumption, SMT
     DEF IndInv, Inv, DialFails, DialReturns, stateVars, clientVars, DialOwns,
         SharedState, TypeOK, PoolTypeOK, Gens
<1>6. OneConnection'
  BY NoConnAssumption, GenAssumption
     DEF IndInv, Inv, DialFails, DialReturns, stateVars, clientVars, DialOwns,
         OneConnection, TypeOK, PoolTypeOK, Gens
<1>7. NoLeak'
  <2> SUFFICES ASSUME NEW j \in Conns, Live(j)'
               PROVE  \/ Tracked(j)'
                      \/ \E h \in Gens : Retired(h)' /\ h \notin drained' /\ j \in all'[h]
                      \/ \E h \in Gens : j = dialled'[h]
    BY DEF NoLeak, Accounted
  <2>1. Live(j)
    BY DEF IndInv, Live, DialFails, DialReturns, stateVars, TypeOK, PoolTypeOK, Gens
  <2>2. \/ Tracked(j)
        \/ \E h \in Gens : Retired(h) /\ h \notin drained /\ j \in all[h]
        \/ \E h \in Gens : j = dialled[h]
    BY <2>1 DEF IndInv, Inv, NoLeak, Accounted
  <2>q. QED
    BY NoConnAssumption, <2>1, <2>2 DEF IndInv, Inv, DialOwns, Tracked, Retired, DialFails, DialReturns, stateVars, TypeOK,
         PoolTypeOK, Gens
<1>8. CreatedOnce'
  BY NoConnAssumption, GenAssumption
     DEF IndInv, Inv, DialFails, DialReturns, stateVars, clientVars, DialOwns,
         CreatedOnce, Holders, TypeOK, PoolTypeOK, Gens
<1>9. HoldersKnow'
  BY NoConnAssumption, GenAssumption
     DEF IndInv, Inv, DialFails, DialReturns, stateVars, clientVars, DialOwns,
         HoldersKnow, Holders, Tracked, Retired, TypeOK, PoolTypeOK, Gens
<1>q. QED BY <1>1, <1>2, <1>3, <1>4, <1>5, <1>6, <1>7, <1>8, <1>9 DEF Inv

\* A dial returns a connection that is wanted.
LEMMA DialInTime ==
    ASSUME IndInv,
           NEW g \in Gens, NEW k \in Conns, life[k] = "free", DialReturns(g, k),
           life' = [life EXCEPT ![k] = "open"]
    PROVE  Inv'
<1>1. States'
  BY NoConnAssumption, GenAssumption, SMT
     DEF IndInv, Inv, DialReturns, stateVars, clientVars, DialOwns, InstalledOnce,
         Unseen, States, Retired, TypeOK, PoolTypeOK, Gens
<1>2. DialOwns'
  <2>1. /\ \A h \in Gens \ {g} : connecting'[h] = connecting[h] /\ dialled'[h] = dialled[h]
        /\ connecting'[g] = "install" /\ dialled'[g] = k
        /\ readers' = readers
    BY DEF IndInv, DialReturns, TypeOK
  <2>2. life'[k] = "open" /\ \A j \in Conns \ {k} : life'[j] = life[j]
    BY DEF IndInv, TypeOK, PoolTypeOK
  <2>3. readers[k] = 0
    BY DEF IndInv, Inv, Unseen
  <2>4. \A h \in Gens : dialled[h] # None => dialled[h] \in Conns \ {k}
    BY SMT DEF IndInv, Inv, DialOwns, Live, TypeOK
  <2>5. ASSUME NEW h \in Gens
        PROVE  /\ connecting'[h] # "install" => dialled'[h] = None
               /\ dialled'[h] # None =>
                    readers'[dialled'[h]] = 0 /\ life'[dialled'[h]] \in {"open", "dead"}
    <3>1. CASE h = g
      BY <2>1, <2>2, <2>3, <3>1
    <3>2. CASE h # g
      <4>1. connecting'[h] = connecting[h] /\ dialled'[h] = dialled[h]
        BY <2>1, <3>2
      <4>2. connecting[h] # "install" => dialled[h] = None
        BY DEF IndInv, Inv, DialOwns
      <4>3. ASSUME dialled[h] # None
            PROVE  readers[dialled[h]] = 0 /\ life'[dialled[h]] \in {"open", "dead"}
        <5>1. readers[dialled[h]] = 0 /\ life[dialled[h]] \in {"open", "dead"}
          BY <4>3 DEF IndInv, Inv, DialOwns, Live
        <5> QED
          BY <2>2, <2>4, <4>3, <5>1
      <4> QED
        BY <2>1, <4>1, <4>2, <4>3
    <3> QED
      BY <3>1, <3>2
  <2>6. ASSUME NEW h \in Gens, NEW i \in Gens, dialled'[h] # None, dialled'[i] = dialled'[h]
        PROVE  i = h
    <3>1. CASE h = g \/ i = g
      BY <2>1, <2>4, <2>6, <3>1, NoConnAssumption
    <3>2. CASE h # g /\ i # g
      <4>1. dialled[h] # None /\ dialled[i] = dialled[h]
        BY <2>1, <2>6, <3>2
      <4> QED
        BY <4>1 DEF IndInv, Inv, DialOwns
    <3> QED
      BY <3>1, <3>2
  <2> QED
    BY <2>5, <2>6 DEF DialOwns, Live
<1>3. InstalledOnce'
  BY NoConnAssumption, GenAssumption, SMT
     DEF IndInv, Inv, DialReturns, stateVars, clientVars, DialOwns, InstalledOnce,
         Unseen, TypeOK, PoolTypeOK, Gens
<1>4. Unseen'
  BY NoConnAssumption, GenAssumption, SMT
     DEF IndInv, Inv, DialReturns, stateVars, clientVars, DialOwns, InstalledOnce,
         Unseen, TypeOK, PoolTypeOK, Gens
<1>5. SharedState'
  BY NoConnAssumption, GenAssumption, SMT
     DEF IndInv, Inv, DialReturns, stateVars, clientVars, DialOwns, InstalledOnce,
         Unseen, SharedState, TypeOK, PoolTypeOK, Gens
<1>6. OneConnection'
  BY NoConnAssumption, GenAssumption
     DEF IndInv, Inv, DialReturns, stateVars, clientVars, DialOwns, InstalledOnce,
         Unseen, OneConnection, TypeOK, PoolTypeOK, Gens
<1>7. NoLeak'
  <2> SUFFICES ASSUME NEW j \in Conns, Live(j)'
               PROVE  \/ Tracked(j)'
                      \/ \E h \in Gens : Retired(h)' /\ h \notin drained' /\ j \in all'[h]
                      \/ \E h \in Gens : j = dialled'[h]
    BY DEF NoLeak, Accounted
  <2>1. j = k \/ Live(j)
    BY DEF IndInv, Live, DialReturns, stateVars, TypeOK, PoolTypeOK, Gens
  <2>2. \/ j = k
        \/ Tracked(j)
        \/ \E h \in Gens : Retired(h) /\ h \notin drained /\ j \in all[h]
        \/ \E h \in Gens : j = dialled[h]
    BY <2>1 DEF IndInv, Inv, NoLeak, Accounted
  <2>q. QED
    BY NoConnAssumption, <2>1, <2>2 DEF IndInv, Inv, DialOwns, Tracked, Retired, DialReturns, stateVars, TypeOK, PoolTypeOK, Gens
<1>8. CreatedOnce'
  BY NoConnAssumption, GenAssumption
     DEF IndInv, Inv, DialReturns, stateVars, clientVars, DialOwns, InstalledOnce,
         Unseen, CreatedOnce, Holders, TypeOK, PoolTypeOK, Gens
<1>9. HoldersKnow'
  BY NoConnAssumption, GenAssumption
     DEF IndInv, Inv, DialReturns, stateVars, clientVars, DialOwns, InstalledOnce,
         Unseen, HoldersKnow, Holders, Tracked, Retired, TypeOK, PoolTypeOK, Gens
<1>q. QED BY <1>1, <1>2, <1>3, <1>4, <1>5, <1>6, <1>7, <1>8, <1>9 DEF Inv

\* A dial returns a connection too late.
LEMMA DialTooLate ==
    ASSUME IndInv,
           NEW g \in Gens, NEW k \in Conns, life[k] = "free", DialReturns(g, None),
           life' = Closing({k})
    PROVE  Inv'
<1>1. States'
  BY NoConnAssumption, GenAssumption, SMT
     DEF IndInv, Inv, DialReturns, Closing, stateVars, clientVars, DialOwns,
         InstalledOnce, SharedState, OneConnection, States, Retired, TypeOK,
         PoolTypeOK, Gens
<1>2. DialOwns'
  BY NoConnAssumption, GenAssumption, SMT
     DEF IndInv, Inv, DialReturns, Closing, stateVars, clientVars, DialOwns,
         InstalledOnce, SharedState, OneConnection, Live, TypeOK, PoolTypeOK, Gens
<1>3. InstalledOnce'
  BY NoConnAssumption, GenAssumption, SMT
     DEF IndInv, Inv, DialReturns, Closing, stateVars, clientVars, DialOwns,
         InstalledOnce, SharedState, OneConnection, TypeOK, PoolTypeOK, Gens
<1>4. Unseen'
  BY NoConnAssumption, GenAssumption
     DEF IndInv, Inv, DialReturns, Closing, stateVars, clientVars, DialOwns,
         InstalledOnce, SharedState, OneConnection, Unseen, TypeOK, PoolTypeOK, Gens
<1>5. SharedState'
  BY NoConnAssumption, GenAssumption, SMT
     DEF IndInv, Inv, DialReturns, Closing, stateVars, clientVars, DialOwns,
         InstalledOnce, SharedState, OneConnection, TypeOK, PoolTypeOK, Gens
<1>6. OneConnection'
  BY NoConnAssumption, GenAssumption
     DEF IndInv, Inv, DialReturns, Closing, stateVars, clientVars, DialOwns,
         InstalledOnce, SharedState, OneConnection, TypeOK, PoolTypeOK, Gens
<1>7. NoLeak'
  <2> SUFFICES ASSUME NEW j \in Conns, Live(j)'
               PROVE  \/ Tracked(j)'
                      \/ \E h \in Gens : Retired(h)' /\ h \notin drained' /\ j \in all'[h]
                      \/ \E h \in Gens : j = dialled'[h]
    BY DEF NoLeak, Accounted
  <2>1. j # k /\ Live(j)
    BY DEF IndInv, Live, DialReturns, Closing, stateVars, TypeOK, PoolTypeOK, Gens
  <2>2. \/ Tracked(j)
        \/ \E h \in Gens : Retired(h) /\ h \notin drained /\ j \in all[h]
        \/ \E h \in Gens : j = dialled[h]
    BY <2>1 DEF IndInv, Inv, NoLeak, Accounted
  <2>q. QED
    BY NoConnAssumption, <2>1, <2>2 DEF IndInv, Inv, DialOwns, Tracked, Retired, DialReturns, Closing, stateVars, TypeOK,
         PoolTypeOK, Gens
<1>8. CreatedOnce'
  BY NoConnAssumption, GenAssumption
     DEF IndInv, Inv, DialReturns, Closing, stateVars, clientVars, DialOwns,
         InstalledOnce, SharedState, OneConnection, CreatedOnce, Holders, TypeOK,
         PoolTypeOK, Gens
<1>9. HoldersKnow'
  BY NoConnAssumption, GenAssumption
     DEF IndInv, Inv, DialReturns, Closing, stateVars, clientVars, DialOwns,
         InstalledOnce, SharedState, OneConnection, HoldersKnow, Holders, Tracked,
         Retired, TypeOK, PoolTypeOK, Gens
<1>q. QED BY <1>1, <1>2, <1>3, <1>4, <1>5, <1>6, <1>7, <1>8, <1>9 DEF Inv

\* The connection a dial returned becomes the state's only one.
LEMMA Installed ==
    ASSUME IndInv,
           NEW g \in Gens, Connect(g), dialled[g] # None, ~Stale(g)
    PROVE  Inv'
<1>a. /\ g = gen /\ ~closed
      /\ dialled[g] \in Conns /\ Live(dialled[g]) /\ readers[dialled[g]] = 0
      /\ shared = None /\ ~claimed /\ all[g] = {}
  BY SMT
     DEF IndInv, Inv, Connect, Stale, DialOwns, SharedState, OneConnection, TypeOK, PoolTypeOK
<1>b. /\ connecting' = [connecting EXCEPT ![g] = "none"]
      /\ dialled' = [dialled EXCEPT ![g] = None]
      /\ shared' = dialled[g]
      /\ origin' = [origin EXCEPT ![dialled[g]] = g]
      /\ all' = [all EXCEPT ![g] = @ \cup {dialled[g]}]
      /\ UNCHANGED <<gen, closed, cancelled, drained, life, claimed, signalled, readers, held>>
  BY DEF Connect
<1>c. NoNewHolder
  BY DEF IndInv, Connect, Wake, Stale, NoNewHolder, TypeOK
<1>1. States'
  BY NoConnAssumption, <1>a, <1>b, <1>c, SMT
     DEF IndInv, Inv, DialOwns, InstalledOnce, SharedState, OneConnection, States,
         Live, Retired, TypeOK, PoolTypeOK, Gens
<1>2. DialOwns'
  BY NoConnAssumption, <1>a, <1>b, <1>c, SMT
     DEF IndInv, Inv, DialOwns, InstalledOnce, SharedState, OneConnection, States,
         Live, TypeOK, PoolTypeOK, Gens
<1>3. InstalledOnce'
  <2> SUFFICES ASSUME NEW h \in Gens, NEW k \in all'[h]
               PROVE  origin'[k] = h /\ life'[k] # "free" /\ \A i \in Gens : dialled'[i] # k
    BY DEF InstalledOnce
  <2>1. CASE k = dialled[g]
    <3>1. h = g
      BY <1>a, <1>b, <2>1, SMT DEF IndInv, Inv, InstalledOnce, TypeOK, PoolTypeOK
    <3>q. QED
      BY NoConnAssumption, <1>a, <1>b, <2>1, <3>1
      DEF IndInv, Inv, DialOwns, Live, TypeOK, PoolTypeOK
  <2>2. CASE k # dialled[g]
    <3>1. k \in Conns /\ k \in all[h]
      BY <1>b, <2>2 DEF IndInv, TypeOK, PoolTypeOK
    <3>q. QED
      BY NoConnAssumption, <1>b, <2>2, <3>1, SMT
         DEF IndInv, Inv, InstalledOnce, TypeOK, PoolTypeOK
  <2>q. QED BY <2>1, <2>2
<1>4. Unseen'
  BY NoConnAssumption, <1>a, <1>b, <1>c
     DEF IndInv, Inv, DialOwns, InstalledOnce, SharedState, OneConnection, States,
         Live, Unseen, TypeOK, PoolTypeOK, Gens
<1>5. SharedState'
  BY NoConnAssumption, <1>a, <1>b, <1>c, SMT
     DEF IndInv, Inv, DialOwns, InstalledOnce, SharedState, OneConnection, States,
         Live, TypeOK, PoolTypeOK, Gens
<1>6. OneConnection'
  BY NoConnAssumption, <1>a, <1>b, <1>c, SMT
     DEF IndInv, Inv, DialOwns, InstalledOnce, SharedState, OneConnection, States,
         Live, TypeOK, PoolTypeOK, Gens
<1>7. NoLeak'
  <2> SUFFICES ASSUME NEW j \in Conns, Live(j)'
               PROVE  \/ Tracked(j)'
                      \/ \E h \in Gens : Retired(h)' /\ h \notin drained' /\ j \in all'[h]
                      \/ \E h \in Gens : j = dialled'[h]
    BY DEF NoLeak, Accounted
  <2>1. Live(j)
    BY <1>b DEF IndInv, Live, TypeOK, PoolTypeOK, Gens
  <2>2. \/ Tracked(j)
        \/ \E h \in Gens : Retired(h) /\ h \notin drained /\ j \in all[h]
        \/ \E h \in Gens : j = dialled[h]
    BY <2>1 DEF IndInv, Inv, NoLeak, Accounted
  <2>q. QED
    BY <1>a, <1>b, <2>1, <2>2 DEF IndInv, Tracked, Retired, TypeOK, PoolTypeOK, Gens
<1>8. CreatedOnce'
  BY NoConnAssumption, <1>a, <1>b, <1>c
     DEF IndInv, Inv, DialOwns, InstalledOnce, SharedState, OneConnection, States,
         Live, CreatedOnce, Holders, NoNewHolder, TypeOK, PoolTypeOK, Gens
<1>9. HoldersKnow'
  BY NoConnAssumption, <1>a, <1>b, <1>c, SMT
     DEF IndInv, Inv, DialOwns, InstalledOnce, SharedState, OneConnection, States,
         Live, HoldersKnow, Holders, Tracked, Retired, NoNewHolder, TypeOK,
         PoolTypeOK, Gens
<1>q. QED BY <1>1, <1>2, <1>3, <1>4, <1>5, <1>6, <1>7, <1>8, <1>9 DEF Inv

\* The connection a dial returned, if any, is closed.
LEMMA NotInstalled ==
    ASSUME IndInv,
           NEW g \in Gens, Connect(g), dialled[g] = None \/ Stale(g)
    PROVE  Inv'
<1>a. /\ connecting' = [connecting EXCEPT ![g] = "none"]
      /\ dialled' = [dialled EXCEPT ![g] = None]
      /\ life' = Closing({dialled[g]})
      /\ UNCHANGED <<gen, closed, all, cancelled, drained, shared, claimed, signalled, origin,
                     readers, held>>
  BY DEF Connect
<1>b. NoNewHolder
  BY DEF IndInv, Connect, Wake, NoNewHolder, TypeOK
<1>1. States'
  BY NoConnAssumption, <1>a, <1>b, SMT
     DEF IndInv, Inv, Closing, DialOwns, InstalledOnce, SharedState, OneConnection,
         States, Retired, TypeOK, PoolTypeOK, Gens
<1>2. DialOwns'
  BY NoConnAssumption, <1>a, <1>b, SMT
     DEF IndInv, Inv, Closing, DialOwns, InstalledOnce, SharedState, OneConnection,
         States, Live, TypeOK, PoolTypeOK, Gens
<1>3. InstalledOnce'
  <2> SUFFICES ASSUME NEW h \in Gens, NEW k \in all'[h]
               PROVE  origin'[k] = h /\ life'[k] # "free" /\ \A i \in Gens : dialled'[i] # k
    BY DEF InstalledOnce
  <2>1. k \in Conns /\ k \in all[h]
    BY <1>a DEF IndInv, TypeOK, PoolTypeOK
  <2>q. QED
    BY NoConnAssumption, <1>a, <2>1, SMT
       DEF IndInv, Inv, InstalledOnce, Closing, TypeOK, PoolTypeOK
<1>4. Unseen'
  BY NoConnAssumption, <1>a, <1>b
     DEF IndInv, Inv, Closing, DialOwns, InstalledOnce, SharedState, OneConnection,
         States, Unseen, TypeOK, PoolTypeOK, Gens
<1>5. SharedState'
  <2>1. ~closed /\ shared # None => shared # dialled[g]
    BY SMT DEF IndInv, Inv, InstalledOnce, OneConnection, TypeOK, PoolTypeOK
  <2>2. ~closed /\ connecting'[gen] # "none" => connecting[gen] # "none"
    BY <1>a DEF IndInv, TypeOK, PoolTypeOK
  <2>q. QED
    BY NoConnAssumption, <1>a, <2>1, <2>2 DEF IndInv, Inv, SharedState, Closing, TypeOK, PoolTypeOK
<1>6. OneConnection'
  BY NoConnAssumption, <1>a, <1>b
     DEF IndInv, Inv, Closing, DialOwns, InstalledOnce, SharedState, OneConnection,
         States, TypeOK, PoolTypeOK, Gens
<1>7. NoLeak'
  <2> SUFFICES ASSUME NEW j \in Conns, Live(j)'
               PROVE  \/ Tracked(j)'
                      \/ \E h \in Gens : Retired(h)' /\ h \notin drained' /\ j \in all'[h]
                      \/ \E h \in Gens : j = dialled'[h]
    BY DEF NoLeak, Accounted
  <2>1. j # dialled[g] /\ Live(j)
    BY SMT DEF IndInv, Live, Connect, Closing, TypeOK, PoolTypeOK, Gens
  <2>2. \/ Tracked(j)
        \/ \E h \in Gens : Retired(h) /\ h \notin drained /\ j \in all[h]
        \/ \E h \in Gens : j = dialled[h]
    BY <2>1 DEF IndInv, Inv, NoLeak, Accounted
  <2>q. QED
    BY NoConnAssumption, <2>1, <2>2 DEF IndInv, Tracked, Retired, Connect, Closing, TypeOK, PoolTypeOK, Gens
<1>8. CreatedOnce'
  BY NoConnAssumption, <1>a, <1>b
     DEF IndInv, Inv, Closing, DialOwns, InstalledOnce, SharedState, OneConnection,
         States, CreatedOnce, Holders, NoNewHolder, TypeOK, PoolTypeOK, Gens
<1>9. HoldersKnow'
  BY NoConnAssumption, <1>a, <1>b
     DEF IndInv, Inv, Closing, DialOwns, InstalledOnce, SharedState, OneConnection,
         States, HoldersKnow, Holders, Tracked, Retired, NoNewHolder, TypeOK,
         PoolTypeOK, Gens
<1>q. QED BY <1>1, <1>2, <1>3, <1>4, <1>5, <1>6, <1>7, <1>8, <1>9 DEF Inv

\* A connection breaks.
LEMMA DieInv ==
    ASSUME IndInv,
           NEW k \in Conns, Die(k), UNCHANGED sharedVars
    PROVE  Inv'
<1>1. States'
  BY NoConnAssumption, GenAssumption
     DEF IndInv, Inv, Die, stateVars, clientVars, sharedVars, States, Retired, TypeOK,
         PoolTypeOK, Gens
<1>2. DialOwns'
  BY NoConnAssumption, GenAssumption
     DEF IndInv, Inv, Die, stateVars, clientVars, sharedVars, DialOwns, Live, TypeOK,
         PoolTypeOK, Gens
<1>3. InstalledOnce'
  BY NoConnAssumption, GenAssumption, SMT
     DEF IndInv, Inv, Die, stateVars, clientVars, sharedVars, InstalledOnce, TypeOK,
         PoolTypeOK, Gens
<1>4. Unseen'
  BY NoConnAssumption, GenAssumption
     DEF IndInv, Inv, Die, stateVars, clientVars, sharedVars, Unseen, TypeOK,
         PoolTypeOK, Gens
<1>5. SharedState'
  BY NoConnAssumption, GenAssumption
     DEF IndInv, Inv, Die, stateVars, clientVars, sharedVars, SharedState, TypeOK,
         PoolTypeOK, Gens
<1>6. OneConnection'
  BY NoConnAssumption, GenAssumption
     DEF IndInv, Inv, Die, stateVars, clientVars, sharedVars, OneConnection, TypeOK,
         PoolTypeOK, Gens
<1>7. NoLeak'
  BY NoConnAssumption, GenAssumption, SMTT(60)
     DEF IndInv, Inv, Die, stateVars, clientVars, sharedVars, NoLeak, Accounted,
         Tracked, Retired, Live, TypeOK, PoolTypeOK, Gens
<1>8. CreatedOnce'
  BY NoConnAssumption, GenAssumption
     DEF IndInv, Inv, Die, stateVars, clientVars, sharedVars, CreatedOnce, Holders,
         TypeOK, PoolTypeOK, Gens
<1>9. HoldersKnow'
  BY NoConnAssumption, GenAssumption
     DEF IndInv, Inv, Die, stateVars, clientVars, sharedVars, HoldersKnow, Holders,
         Tracked, Retired, TypeOK, PoolTypeOK, Gens
<1>q. QED BY <1>1, <1>2, <1>3, <1>4, <1>5, <1>6, <1>7, <1>8, <1>9 DEF Inv

\* Reset retires a state and begins an empty one.
LEMMA ResetInv ==
    ASSUME IndInv,
           ResetShared
    PROVE  Inv'
<1>1. States'
  BY NoConnAssumption, GenAssumption, SMT
     DEF IndInv, Inv, ResetShared, Reset, clientVars, States, Retired, TypeOK,
         PoolTypeOK, Gens
<1>2. DialOwns'
  BY NoConnAssumption, GenAssumption
     DEF IndInv, Inv, ResetShared, Reset, clientVars, States, DialOwns, Live, TypeOK,
         PoolTypeOK, Gens
<1>3. InstalledOnce'
  BY NoConnAssumption, GenAssumption
     DEF IndInv, Inv, ResetShared, Reset, clientVars, States, InstalledOnce, TypeOK,
         PoolTypeOK, Gens
<1>4. Unseen'
  BY NoConnAssumption, GenAssumption
     DEF IndInv, Inv, ResetShared, Reset, clientVars, States, Unseen, TypeOK,
         PoolTypeOK, Gens
<1>5. SharedState'
  BY NoConnAssumption, GenAssumption
     DEF IndInv, Inv, ResetShared, Reset, clientVars, States, SharedState, TypeOK,
         PoolTypeOK, Gens
<1>6. OneConnection'
  BY NoConnAssumption, GenAssumption, SMT
     DEF IndInv, Inv, ResetShared, Reset, clientVars, States, OneConnection, TypeOK,
         PoolTypeOK, Gens
<1>7. NoLeak'
  <2> SUFFICES ASSUME NEW j \in Conns, Live(j)'
               PROVE  \/ Tracked(j)'
                      \/ \E h \in Gens : Retired(h)' /\ h \notin drained' /\ j \in all'[h]
                      \/ \E h \in Gens : j = dialled'[h]
    BY DEF NoLeak, Accounted
  <2>1. Live(j)
    BY DEF IndInv, Live, ResetShared, Reset, TypeOK, PoolTypeOK, Gens
  <2>2. \/ Tracked(j)
        \/ \E h \in Gens : Retired(h) /\ h \notin drained /\ j \in all[h]
        \/ \E h \in Gens : j = dialled[h]
    BY <2>1 DEF IndInv, Inv, NoLeak, Accounted
  <2>q. QED
    BY NoConnAssumption, <2>1, <2>2, SMT
       DEF IndInv, Inv, States, Tracked, Retired, ResetShared, Reset, TypeOK, PoolTypeOK, Gens
<1>8. CreatedOnce'
  BY NoConnAssumption, GenAssumption
     DEF IndInv, Inv, ResetShared, Reset, clientVars, States, CreatedOnce, Holders,
         TypeOK, PoolTypeOK, Gens
<1>9. HoldersKnow'
  <2> SUFFICES ASSUME NEW c \in Holders
               PROVE  held[c] \in Conns /\ (held[c] \in signalled \/ origin[held[c]] < gen + 1)
    BY DEF HoldersKnow, Holders, Retired, ResetShared, Reset, clientVars
  <2>1. held[c] \in Conns /\ gen \in Nat /\ origin[held[c]] \in Nat
    BY GenAssumption, SMT DEF IndInv, Inv, HoldersKnow, TypeOK, PoolTypeOK, Gens
  <2>2. Tracked(held[c]) => origin[held[c]] = gen
    BY DEF IndInv, Inv, InstalledOnce, Tracked, TypeOK, PoolTypeOK
  <2>q. QED
    BY <2>1, <2>2, SMT DEF IndInv, Inv, HoldersKnow, Retired
<1>q. QED BY <1>1, <1>2, <1>3, <1>4, <1>5, <1>6, <1>7, <1>8, <1>9 DEF Inv

\* Close retires the last state.
LEMMA CloseInv ==
    ASSUME IndInv,
           Close, UNCHANGED sharedVars
    PROVE  Inv'
<1>1. States'
  BY NoConnAssumption, GenAssumption
     DEF IndInv, Inv, Close, clientVars, sharedVars, States, Retired, TypeOK,
         PoolTypeOK, Gens
<1>2. DialOwns'
  BY NoConnAssumption, GenAssumption
     DEF IndInv, Inv, Close, clientVars, sharedVars, States, DialOwns, Live, TypeOK,
         PoolTypeOK, Gens
<1>3. InstalledOnce'
  BY NoConnAssumption, GenAssumption
     DEF IndInv, Inv, Close, clientVars, sharedVars, States, InstalledOnce, TypeOK,
         PoolTypeOK, Gens
<1>4. Unseen'
  BY NoConnAssumption, GenAssumption
     DEF IndInv, Inv, Close, clientVars, sharedVars, States, Unseen, TypeOK,
         PoolTypeOK, Gens
<1>5. SharedState'
  BY NoConnAssumption, GenAssumption
     DEF IndInv, Inv, Close, clientVars, sharedVars, States, SharedState, TypeOK,
         PoolTypeOK, Gens
<1>6. OneConnection'
  BY NoConnAssumption, GenAssumption
     DEF IndInv, Inv, Close, clientVars, sharedVars, States, OneConnection, TypeOK,
         PoolTypeOK, Gens
<1>7. NoLeak'
  <2> SUFFICES ASSUME NEW j \in Conns, Live(j)'
               PROVE  \/ Tracked(j)'
                      \/ \E h \in Gens : Retired(h)' /\ h \notin drained' /\ j \in all'[h]
                      \/ \E h \in Gens : j = dialled'[h]
    BY DEF NoLeak, Accounted
  <2>1. Live(j)
    BY DEF IndInv, Live, Close, sharedVars, TypeOK, PoolTypeOK, Gens
  <2>2. \/ Tracked(j)
        \/ \E h \in Gens : Retired(h) /\ h \notin drained /\ j \in all[h]
        \/ \E h \in Gens : j = dialled[h]
    BY <2>1 DEF IndInv, Inv, NoLeak, Accounted
  <2>q. QED
    BY NoConnAssumption, <2>1, <2>2 DEF IndInv, Inv, States, Tracked, Retired, Close, sharedVars, TypeOK, PoolTypeOK, Gens
<1>8. CreatedOnce'
  BY NoConnAssumption, GenAssumption
     DEF IndInv, Inv, Close, clientVars, sharedVars, States, CreatedOnce, Holders,
         TypeOK, PoolTypeOK, Gens
<1>9. HoldersKnow'
  BY NoConnAssumption, GenAssumption
     DEF IndInv, Inv, Close, clientVars, sharedVars, States, HoldersKnow, Holders,
         Tracked, Retired, InstalledOnce, TypeOK, PoolTypeOK, Gens
<1>q. QED BY <1>1, <1>2, <1>3, <1>4, <1>5, <1>6, <1>7, <1>8, <1>9 DEF Inv

\* closeState cancels the context of a retired state.
LEMMA CancelInv ==
    ASSUME IndInv,
           NEW g \in Gens, CancelState(g), UNCHANGED sharedVars
    PROVE  Inv'
<1>1. States'
  BY NoConnAssumption, GenAssumption
     DEF IndInv, Inv, CancelState, clientVars, sharedVars, States, Retired, TypeOK,
         PoolTypeOK, Gens
<1>2. DialOwns'
  BY NoConnAssumption, GenAssumption
     DEF IndInv, Inv, CancelState, clientVars, sharedVars, DialOwns, Live, TypeOK,
         PoolTypeOK, Gens
<1>3. InstalledOnce'
  BY NoConnAssumption, GenAssumption
     DEF IndInv, Inv, CancelState, clientVars, sharedVars, InstalledOnce, TypeOK,
         PoolTypeOK, Gens
<1>4. Unseen'
  BY NoConnAssumption, GenAssumption
     DEF IndInv, Inv, CancelState, clientVars, sharedVars, Unseen, TypeOK, PoolTypeOK,
         Gens
<1>5. SharedState'
  BY NoConnAssumption, GenAssumption
     DEF IndInv, Inv, CancelState, clientVars, sharedVars, SharedState, TypeOK,
         PoolTypeOK, Gens
<1>6. OneConnection'
  BY NoConnAssumption, GenAssumption
     DEF IndInv, Inv, CancelState, clientVars, sharedVars, OneConnection, TypeOK,
         PoolTypeOK, Gens
<1>7. NoLeak'
  BY NoConnAssumption, GenAssumption, SMT
     DEF IndInv, Inv, CancelState, clientVars, sharedVars, NoLeak, Accounted, Tracked,
         Retired, Live, TypeOK, PoolTypeOK, Gens
<1>8. CreatedOnce'
  BY NoConnAssumption, GenAssumption
     DEF IndInv, Inv, CancelState, clientVars, sharedVars, CreatedOnce, Holders,
         TypeOK, PoolTypeOK, Gens
<1>9. HoldersKnow'
  BY NoConnAssumption, GenAssumption
     DEF IndInv, Inv, CancelState, clientVars, sharedVars, HoldersKnow, Holders,
         Tracked, Retired, TypeOK, PoolTypeOK, Gens
<1>q. QED BY <1>1, <1>2, <1>3, <1>4, <1>5, <1>6, <1>7, <1>8, <1>9 DEF Inv

\* closeState closes the connections of a retired state, which the current one does not share.
LEMMA DrainInv ==
    ASSUME IndInv,
           NEW g \in Gens, DrainState(g), UNCHANGED sharedVars
    PROVE  Inv'
<1>1. States'
  BY NoConnAssumption, GenAssumption, SMT
     DEF IndInv, Inv, DrainState, Closing, clientVars, sharedVars, States,
         InstalledOnce, OneConnection, Retired, TypeOK, PoolTypeOK, Gens
<1>2. DialOwns'
  BY NoConnAssumption, GenAssumption, SMT
     DEF IndInv, Inv, DrainState, Closing, clientVars, sharedVars, States,
         InstalledOnce, OneConnection, Retired, DialOwns, Live, TypeOK, PoolTypeOK,
         Gens
<1>3. InstalledOnce'
  BY NoConnAssumption, GenAssumption, SMT
     DEF IndInv, Inv, DrainState, Closing, clientVars, sharedVars, States,
         InstalledOnce, OneConnection, Retired, TypeOK, PoolTypeOK, Gens
<1>4. Unseen'
  BY NoConnAssumption, GenAssumption
     DEF IndInv, Inv, DrainState, Closing, clientVars, sharedVars, States,
         InstalledOnce, OneConnection, Retired, Unseen, TypeOK, PoolTypeOK, Gens
<1>5. SharedState'
  BY NoConnAssumption, GenAssumption, SMT
     DEF IndInv, Inv, DrainState, Closing, clientVars, sharedVars, States,
         InstalledOnce, OneConnection, Retired, SharedState, TypeOK, PoolTypeOK, Gens
<1>6. OneConnection'
  BY NoConnAssumption, GenAssumption
     DEF IndInv, Inv, DrainState, Closing, clientVars, sharedVars, States,
         InstalledOnce, OneConnection, Retired, TypeOK, PoolTypeOK, Gens
<1>7. NoLeak'
  BY NoConnAssumption, GenAssumption, SMT
     DEF IndInv, Inv, DrainState, Closing, clientVars, sharedVars, States,
         InstalledOnce, OneConnection, Retired, NoLeak, Accounted, Tracked, Live,
         TypeOK, PoolTypeOK, Gens
<1>8. CreatedOnce'
  BY NoConnAssumption, GenAssumption
     DEF IndInv, Inv, DrainState, Closing, clientVars, sharedVars, States,
         InstalledOnce, OneConnection, Retired, CreatedOnce, Holders, TypeOK,
         PoolTypeOK, Gens
<1>9. HoldersKnow'
  BY NoConnAssumption, GenAssumption
     DEF IndInv, Inv, DrainState, Closing, clientVars, sharedVars, States,
         InstalledOnce, OneConnection, Retired, HoldersKnow, Holders, Tracked, TypeOK,
         PoolTypeOK, Gens
<1>q. QED BY <1>1, <1>2, <1>3, <1>4, <1>5, <1>6, <1>7, <1>8, <1>9 DEF Inv

\* The types in parts: what a client's call changes, what closing connections changes,
\* and the rest.
Flags == closed \in BOOLEAN /\ claimed \in BOOLEAN

CallTypes ==
    /\ pc \in [Clients -> {"idle", "acquire", "wait", "collect", "failed", "hold"}]
    /\ ctxDone \subseteq Clients
    /\ cgen \in [Clients -> Gens]
    /\ held \in [Clients -> Conns \cup {None}]

ConnTypes ==
    /\ all \in [Gens -> SUBSET Conns]
    /\ life \in [Conns -> Lives]
    /\ shared \in Conns \cup {None}
    /\ signalled \subseteq Conns

RestTypes ==
    /\ gen \in Gens
    /\ cancelled \subseteq Gens /\ drained \subseteq Gens
    /\ connecting \in [Gens -> {"none", "dial", "cancelled", "install"}]
    /\ dialled \in [Gens -> Conns \cup {None}]
    /\ starter \subseteq Clients
    /\ origin \in [Conns -> Gens]
    /\ readers \in [Conns -> 0..1]

LEMMA TypeParts == TypeOK <=> Flags /\ CallTypes /\ ConnTypes /\ RestTypes
BY DEF TypeOK, PoolTypeOK, Flags, CallTypes, ConnTypes, RestTypes

LEMMA OneIsGen == 1 \in Gens
BY GenAssumption, SMT DEF Gens

LEMMA ReturnTypes == ASSUME NEW c \in Clients, CallTypes, Return(c) PROVE CallTypes'
BY OneIsGen DEF CallTypes, Return, GoTo

LEMMA RetryTypes == ASSUME NEW c \in Clients, CallTypes, Retry(c) PROVE CallTypes'
BY OneIsGen DEF CallTypes, Retry, GoTo

LEMMA HandOutTypes ==
    ASSUME NEW c \in Clients, CallTypes, HandOut(c), shared \in Conns PROVE CallTypes'
BY OneIsGen DEF CallTypes, HandOut, GoTo

LEMMA ClosingTypes == ASSUME NEW ks, ConnTypes PROVE Closing(ks) \in [Conns -> Lives]
BY DEF ConnTypes, Closing, Lives

LEMMA RemoveTypes ==
    ASSUME NEW k \in Conns, gen \in Gens, ConnTypes, RemoveShared(k) PROVE ConnTypes'
BY ClosingTypes DEF ConnTypes, RemoveShared, DropConn

LEMMA InvalidateTypes ==
    ASSUME NEW k \in Conns, gen \in Gens, ConnTypes, Invalidate(k) PROVE ConnTypes'
BY ClosingTypes, RemoveTypes DEF ConnTypes, Invalidate

\* A connection is reported as created once: when it is not claimed, nobody reads it.
LEMMA ReadersTypes ==
    ASSUME NEW c, readers \in [Conns -> 0..1], SharedState, shared \in Conns, shared # None, HandOut(c)
    PROVE  readers' \in [Conns -> 0..1]
BY SMT DEF HandOut, SharedState

LEMMA DialTypes ==
    ASSUME NEW g \in Gens, NEW k \in Conns \cup {None}, RestTypes, DialReturns(g, k)
    PROVE  RestTypes'
BY DEF RestTypes, DialReturns, stateVars

\* Every step keeps the types; that a connection is created at most once needs the rest.
LEMMA TypeStep ==
    ASSUME IndInv, [Next]_vars
    PROVE  TypeOK'
<1>1. ASSUME NEW c \in Clients, Acquire(c) /\ UNCHANGED sharedVars PROVE TypeOK'
  BY NoConnAssumption, GenAssumption, <1>1
     DEF IndInv, Inv, Acquire, GoTo, stateVars, sharedVars, TypeOK, PoolTypeOK, Gens
<1>2. ASSUME NEW c \in Clients, CtxCancelled(c) PROVE TypeOK'
  BY NoConnAssumption, GenAssumption, <1>2
     DEF IndInv, Inv, CtxCancelled, CtxCancel, stateVars, TypeOK, PoolTypeOK, Gens
<1>3. ASSUME NEW c \in Clients, AcquireClosed(c) PROVE TypeOK'
  BY NoConnAssumption, GenAssumption, <1>3, SMT
     DEF IndInv, Inv, AcquireClosed, Return, GoTo, stateVars, sharedVars, TypeOK,
         PoolTypeOK, Gens
<1>4. ASSUME NEW c \in Clients, UseShared(c) PROVE TypeOK'
  <2>1. Flags'
    BY TypeParts, <1>4
    DEF IndInv, Inv, UseShared, HandOut, RemoveShared, DropConn, clientVars, Flags
  <2>2. CallTypes'
    BY TypeParts, ReturnTypes, RetryTypes, HandOutTypes, <1>4
    DEF IndInv, Inv, UseShared, clientVars, CallTypes, ConnTypes
  <2>3. ConnTypes'
    BY NoConnAssumption, TypeParts, ClosingTypes, RemoveTypes, <1>4
    DEF IndInv, Inv, UseShared, Lives, ConnTypes, CallTypes, RestTypes
  <2>4. RestTypes'
    BY NoConnAssumption, TypeParts, ReadersTypes, <1>4
    DEF IndInv, Inv, UseShared, RestTypes, ConnTypes, Gens
  <2>q. QED
    BY <2>1, <2>2, <2>3, <2>4 DEF Flags, CallTypes, ConnTypes, RestTypes, TypeOK, PoolTypeOK
<1>5. ASSUME NEW c \in Clients, StartDial(c) PROVE TypeOK'
  BY NoConnAssumption, GenAssumption, <1>5
     DEF IndInv, Inv, StartDial, GoTo, stateVars, TypeOK, PoolTypeOK, Gens
<1>6. ASSUME NEW c \in Clients, JoinDial(c) PROVE TypeOK'
  BY NoConnAssumption, GenAssumption, <1>6
     DEF IndInv, Inv, JoinDial, GoTo, stateVars, sharedVars, TypeOK, PoolTypeOK, Gens
<1>7. ASSUME NEW c \in Clients, CollectError(c) PROVE TypeOK'
  <2>1. Flags'
    BY TypeParts, <1>7
    DEF IndInv, Inv, CollectError, stateVars, Flags
  <2>2. CallTypes'
    BY TypeParts, ReturnTypes, RetryTypes, HandOutTypes, <1>7
    DEF IndInv, Inv, CollectError, stateVars, CallTypes, ConnTypes
  <2>3. ConnTypes'
    BY NoConnAssumption, TypeParts, ClosingTypes, RemoveTypes, <1>7
    DEF IndInv, Inv, CollectError, stateVars, ConnTypes, CallTypes, RestTypes
  <2>4. RestTypes'
    BY NoConnAssumption, GenAssumption, TypeParts, <1>7
    DEF IndInv, Inv, CollectError, stateVars, RestTypes, ConnTypes, Gens
  <2>q. QED
    BY <2>1, <2>2, <2>3, <2>4 DEF Flags, CallTypes, ConnTypes, RestTypes, TypeOK, PoolTypeOK
<1>8. ASSUME NEW c \in Clients, CollectShared(c) PROVE TypeOK'
  <2>1. Flags'
    BY TypeParts, <1>8
    DEF IndInv, Inv, CollectShared, HandOut, RemoveShared, DropConn, Flags
  <2>2. CallTypes'
    BY TypeParts, ReturnTypes, RetryTypes, HandOutTypes, <1>8
    DEF IndInv, Inv, CollectShared, CallTypes, ConnTypes
  <2>3. ConnTypes'
    BY NoConnAssumption, TypeParts, ClosingTypes, RemoveTypes, <1>8
    DEF IndInv, Inv, CollectShared, Lives, ConnTypes, CallTypes, RestTypes
  <2>4. RestTypes'
    BY NoConnAssumption, TypeParts, ReadersTypes, <1>8
    DEF IndInv, Inv, CollectShared, RestTypes, ConnTypes, Gens
  <2>q. QED
    BY <2>1, <2>2, <2>3, <2>4 DEF Flags, CallTypes, ConnTypes, RestTypes, TypeOK, PoolTypeOK
<1>9. ASSUME NEW c \in Clients, WaitCancelled(c) PROVE TypeOK'
  BY NoConnAssumption, GenAssumption, <1>9, SMTT(60)
     DEF IndInv, Inv, WaitCancelled, Return, GoTo, stateVars, TypeOK, PoolTypeOK,
         Gens
<1>10. ASSUME NEW c \in Clients, WaitRetired(c) PROVE TypeOK'
  <2>1. Flags'
    BY TypeParts, <1>10
    DEF IndInv, Inv, WaitRetired, stateVars, Flags
  <2>2. CallTypes'
    BY TypeParts, ReturnTypes, RetryTypes, HandOutTypes, <1>10
    DEF IndInv, Inv, WaitRetired, stateVars, CallTypes, ConnTypes
  <2>3. ConnTypes'
    BY NoConnAssumption, TypeParts, ClosingTypes, RemoveTypes, <1>10
    DEF IndInv, Inv, WaitRetired, stateVars, ConnTypes, CallTypes, RestTypes
  <2>4. RestTypes'
    BY NoConnAssumption, GenAssumption, TypeParts, <1>10
    DEF IndInv, Inv, WaitRetired, stateVars, RestTypes, ConnTypes, Gens
  <2>q. QED
    BY <2>1, <2>2, <2>3, <2>4 DEF Flags, CallTypes, ConnTypes, RestTypes, TypeOK, PoolTypeOK
<1>11. ASSUME NEW c \in Clients, Release(c) PROVE TypeOK'
  <2>1. Flags'
    BY TypeParts, <1>11
    DEF IndInv, Inv, Release, RemoveShared, DropConn, Flags
  <2>2. CallTypes'
    BY TypeParts, ReturnTypes, RetryTypes, HandOutTypes, <1>11
    DEF IndInv, Inv, Release, CallTypes, ConnTypes
  <2>3. ConnTypes'
    BY NoConnAssumption, TypeParts, ClosingTypes, RemoveTypes, <1>11, SMTT(60)
       DEF IndInv, Inv, Release, Lives, HoldersKnow, Holders, ConnTypes, CallTypes,
         RestTypes
  <2>4. RestTypes'
    BY NoConnAssumption, GenAssumption, TypeParts, <1>11
    DEF IndInv, Inv, Release, RestTypes, ConnTypes, Gens
  <2>q. QED
    BY <2>1, <2>2, <2>3, <2>4 DEF Flags, CallTypes, ConnTypes, RestTypes, TypeOK, PoolTypeOK
<1>12. ASSUME NEW c \in Clients, WriteFails(c) PROVE TypeOK'
  <2>1. Flags'
    BY TypeParts, <1>12
    DEF IndInv, Inv, WriteFails, Invalidate, RemoveShared, DropConn, Flags
  <2>2. CallTypes'
    BY TypeParts, ReturnTypes, RetryTypes, HandOutTypes, <1>12
    DEF IndInv, Inv, WriteFails, CallTypes, ConnTypes
  <2>3. ConnTypes'
    BY NoConnAssumption, TypeParts, ClosingTypes, RemoveTypes, <1>12, SMT
       DEF IndInv, Inv, WriteFails, Invalidate, Lives, HoldersKnow, Holders, ConnTypes,
         CallTypes, RestTypes
  <2>4. RestTypes'
    BY NoConnAssumption, GenAssumption, TypeParts, <1>12
    DEF IndInv, Inv, WriteFails, RestTypes, ConnTypes, Gens
  <2>q. QED
    BY <2>1, <2>2, <2>3, <2>4 DEF Flags, CallTypes, ConnTypes, RestTypes, TypeOK, PoolTypeOK
<1>13. ASSUME NEW c \in Clients, ExchangeAborted(c) PROVE TypeOK'
  BY NoConnAssumption, GenAssumption, <1>13, SMT
     DEF IndInv, Inv, ExchangeAborted, Return, GoTo, stateVars, sharedVars, TypeOK,
         PoolTypeOK, Gens
<1>14. ASSUME NEW k \in Conns, RecvFails(k) PROVE TypeOK'
  <2>1. Flags'
    BY TypeParts, <1>14
    DEF IndInv, Inv, RecvFails, Invalidate, RemoveShared, DropConn, clientVars,
         Flags
  <2>2. CallTypes'
    BY TypeParts, ReturnTypes, RetryTypes, HandOutTypes, <1>14
    DEF IndInv, Inv, RecvFails, clientVars, CallTypes, ConnTypes
  <2>3. ConnTypes'
    BY TypeParts, InvalidateTypes, <1>14
    DEF IndInv, Inv, RecvFails, ConnTypes, CallTypes, RestTypes
  <2>4. RestTypes'
    BY NoConnAssumption, GenAssumption, TypeParts, <1>14
    DEF IndInv, Inv, RecvFails, RestTypes, ConnTypes, Gens
  <2>q. QED
    BY <2>1, <2>2, <2>3, <2>4 DEF Flags, CallTypes, ConnTypes, RestTypes, TypeOK, PoolTypeOK
<1>15. ASSUME NEW k \in Conns, Die(k) /\ UNCHANGED sharedVars PROVE TypeOK'
  BY NoConnAssumption, GenAssumption, <1>15
     DEF IndInv, Inv, Die, stateVars, clientVars, sharedVars, Lives, TypeOK,
         PoolTypeOK, Gens
<1>16. ASSUME ResetShared PROVE TypeOK'
  <2>1. Flags'
    BY TypeParts, <1>16
    DEF IndInv, Inv, ResetShared, Reset, clientVars, Flags
  <2>2. CallTypes'
    BY TypeParts, ReturnTypes, RetryTypes, HandOutTypes, <1>16
    DEF IndInv, Inv, ResetShared, Reset, clientVars, CallTypes, ConnTypes
  <2>3. ConnTypes'
    BY NoConnAssumption, TypeParts, ClosingTypes, RemoveTypes, <1>16
    DEF IndInv, Inv, ResetShared, Reset, ConnTypes, CallTypes, RestTypes
  <2>4. RestTypes'
    BY NoConnAssumption, GenAssumption, TypeParts, <1>16, SMT
       DEF IndInv, Inv, ResetShared, Reset, RestTypes, ConnTypes, Gens
  <2>q. QED
    BY <2>1, <2>2, <2>3, <2>4 DEF Flags, CallTypes, ConnTypes, RestTypes, TypeOK, PoolTypeOK
<1>17. ASSUME Close /\ UNCHANGED sharedVars PROVE TypeOK'
  BY NoConnAssumption, GenAssumption, <1>17
     DEF IndInv, Inv, Close, clientVars, sharedVars, TypeOK, PoolTypeOK, Gens
<1>18. ASSUME NEW g \in Gens, DialFails(g) PROVE TypeOK'
  BY NoConnAssumption, GenAssumption, <1>18
     DEF IndInv, Inv, DialFails, DialReturns, stateVars, clientVars, TypeOK,
         PoolTypeOK, Gens
<1>19. ASSUME NEW g \in Gens, DialOK(g) PROVE TypeOK'
  <2>1. Flags'
    BY TypeParts, <1>19
    DEF IndInv, Inv, DialOK, DialReturns, stateVars, clientVars, Flags
  <2>2. CallTypes'
    BY TypeParts, ReturnTypes, RetryTypes, HandOutTypes, <1>19
    DEF IndInv, Inv, DialOK, DialReturns, stateVars, clientVars, CallTypes,
         ConnTypes
  <2>3. ConnTypes'
    BY NoConnAssumption, TypeParts, ClosingTypes, RemoveTypes, <1>19, SMTT(60)
       DEF IndInv, Inv, DialOK, DialReturns, Lives, stateVars, ConnTypes, CallTypes,
         RestTypes
  <2>4. RestTypes'
    BY TypeParts, DialTypes, <1>19
    DEF IndInv, Inv, DialOK, RestTypes, ConnTypes, Gens
  <2>q. QED
    BY <2>1, <2>2, <2>3, <2>4 DEF Flags, CallTypes, ConnTypes, RestTypes, TypeOK, PoolTypeOK
<1>20. ASSUME NEW g \in Gens, Connect(g) PROVE TypeOK'
  <2>1. Flags'
    BY TypeParts, <1>20
    DEF IndInv, Inv, Connect, Wake, Flags
  <2>2. CallTypes'
    BY TypeParts, ReturnTypes, RetryTypes, HandOutTypes, <1>20
    DEF IndInv, Inv, Connect, Wake, CallTypes, ConnTypes
  <2>3. ConnTypes'
    BY NoConnAssumption, TypeParts, ClosingTypes, RemoveTypes, <1>20, SMTT(60)
       DEF IndInv, Inv, Connect, Lives, ConnTypes, CallTypes, RestTypes
  <2>4. RestTypes'
    BY NoConnAssumption, GenAssumption, TypeParts, <1>20, SMTT(60)
       DEF IndInv, Inv, Connect, RestTypes, ConnTypes, Gens
  <2>q. QED
    BY <2>1, <2>2, <2>3, <2>4 DEF Flags, CallTypes, ConnTypes, RestTypes, TypeOK, PoolTypeOK
<1>21. ASSUME NEW g \in Gens, CancelState(g) /\ UNCHANGED sharedVars PROVE TypeOK'
  BY NoConnAssumption, GenAssumption, <1>21
     DEF IndInv, Inv, CancelState, clientVars, sharedVars, TypeOK, PoolTypeOK, Gens
<1>22. ASSUME NEW g \in Gens, DrainState(g) /\ UNCHANGED sharedVars PROVE TypeOK'
  BY NoConnAssumption, GenAssumption, <1>22
     DEF IndInv, Inv, DrainState, Closing, Lives, clientVars, sharedVars, TypeOK,
         PoolTypeOK, Gens
<1>23. CASE UNCHANGED vars
  BY <1>23 DEF IndInv, vars, stateVars, clientVars, sharedVars, TypeOK, PoolTypeOK, Gens
<1>q. QED BY <1>1, <1>2, <1>3, <1>4, <1>5, <1>6, <1>7, <1>8, <1>9, <1>10, <1>11, <1>12,
         <1>13, <1>14, <1>15, <1>16, <1>17, <1>18, <1>19, <1>20, <1>21, <1>22, <1>23
   DEF Next, ClientStep, ConnectSingle, PoolStep

-----------------------------------------------------------------------------
LEMMA ReturnLetsGo == ASSUME NEW c \in Clients, CallTypes, Return(c) PROVE NoNewHolder
BY DEF CallTypes, Return, GoTo, NoNewHolder

LEMMA RetryLetsGo == ASSUME NEW c \in Clients, CallTypes, Retry(c) PROVE NoNewHolder
BY DEF CallTypes, Retry, GoTo, NoNewHolder

\* What a holder has was handed out once.
LEMMA HolderFacts ==
    ASSUME IndInv, NEW c \in Clients, pc[c] = "hold"
    PROVE  held[c] \in Conns /\ readers[held[c]] = 1
BY DEF IndInv, Inv, HoldersKnow, CreatedOnce, Holders

\* Every step keeps the invariant.
LEMMA InvStep ==
    ASSUME IndInv, [Next]_vars
    PROVE  Inv'
<1> USE TypeParts DEF IndInv
<1>1. ASSUME NEW c \in Clients, Acquire(c), UNCHANGED sharedVars PROVE Inv'
  <2>1. NoNewHolder
    BY <1>1 DEF Acquire, GoTo, NoNewHolder, CallTypes
  <2>q. QED
    BY <1>1, <2>1, LetGo DEF Acquire, stateVars, sharedVars, stateOnly
<1>2. ASSUME NEW c \in Clients, AcquireClosed(c) PROVE Inv'
  BY <1>2, ReturnLetsGo, LetGo DEF AcquireClosed, stateVars, sharedVars, stateOnly
<1>3. ASSUME NEW c \in Clients, UseShared(c) PROVE Inv'
  <2>1. CASE IsAlive(shared)
    BY <1>3, <2>1, HandingOut DEF UseShared
  <2>2. CASE ~IsAlive(shared)
    <3>1. shared \in Conns /\ Tracked(shared)
      BY <1>3 DEF UseShared, Tracked, ConnTypes, Inv, OneConnection
    <3>2. NoNewHolder
      BY <1>3, <2>2 DEF UseShared, NoNewHolder, clientVars
    <3>q. QED
      BY <1>3, <2>2, <3>1, <3>2, Removal DEF UseShared
  <2>q. QED BY <2>1, <2>2
<1>4. ASSUME NEW c \in Clients, JoinDial(c) PROVE Inv'
  <2>1. NoNewHolder
    BY <1>4 DEF JoinDial, GoTo, NoNewHolder, CallTypes
  <2>q. QED
    BY <1>4, <2>1, LetGo DEF JoinDial, stateVars, sharedVars, stateOnly
<1>5. ASSUME NEW c \in Clients, CollectError(c) PROVE Inv'
  BY <1>5, ReturnLetsGo, RetryLetsGo, LetGo DEF CollectError, stateVars, stateOnly
<1>6. ASSUME NEW c \in Clients, CollectShared(c) PROVE Inv'
  <2>1. CASE closed \/ gen # cgen[c] \/ shared = None
    BY <1>6, <2>1, ReturnLetsGo, RetryLetsGo, LetGo DEF CollectShared, stateOnly
  <2>2. CASE ~closed /\ gen = cgen[c] /\ shared # None /\ IsAlive(shared)
    BY <1>6, <2>2, HandingOut DEF CollectShared
  <2>3. CASE ~closed /\ gen = cgen[c] /\ shared # None /\ ~IsAlive(shared)
    <3>1. shared \in Conns /\ Tracked(shared)
      BY <2>3 DEF Tracked, ConnTypes, Inv, OneConnection
    <3>q. QED
      BY <1>6, <2>3, <3>1, RetryLetsGo, Removal DEF CollectShared
  <2>q. QED BY <2>1, <2>2, <2>3
<1>7. ASSUME NEW c \in Clients, WaitCancelled(c) PROVE Inv'
  BY <1>7, ReturnLetsGo, LetGo DEF WaitCancelled, stateVars, stateOnly
<1>8. ASSUME NEW c \in Clients, WaitRetired(c) PROVE Inv'
  BY <1>8, ReturnLetsGo, RetryLetsGo, LetGo DEF WaitRetired, stateVars, stateOnly
<1>9. ASSUME NEW c \in Clients, Release(c) PROVE Inv'
  <2>1. CASE ~Tracked(held[c])
    BY <1>9, <2>1, HolderFacts, ReturnLetsGo, LateClose DEF Release
  <2>2. CASE Tracked(held[c]) /\ IsAlive(held[c])
    BY <1>9, <2>2, ReturnLetsGo, LetGo DEF Release, stateOnly
  <2>3. CASE Tracked(held[c]) /\ ~IsAlive(held[c])
    BY <1>9, <2>3, HolderFacts, ReturnLetsGo, Removal DEF Release
  <2>q. QED BY <2>1, <2>2, <2>3
<1>10. ASSUME NEW k \in Conns, readers[k] = 1, Invalidate(k), NoNewHolder,
              UNCHANGED <<gen, closed, cancelled, drained, connecting, dialled, origin, readers>>
       PROVE  Inv'
  <2>1. CASE closed
    BY <1>10, <2>1, LateClose DEF Invalidate, Tracked
  <2>2. CASE ~closed /\ k \notin all[gen]
    BY <1>10, <2>2, LetGo DEF Invalidate, stateOnly
  <2>3. CASE ~closed /\ k \in all[gen]
    BY <1>10, <2>3, Removal DEF Invalidate, Tracked
  <2>q. QED BY <2>1, <2>2, <2>3
<1>11. ASSUME NEW c \in Clients, WriteFails(c) PROVE Inv'
  BY <1>10, <1>11, HolderFacts, ReturnLetsGo DEF WriteFails
<1>12. ASSUME NEW c \in Clients, ExchangeAborted(c) PROVE Inv'
  BY <1>12, ReturnLetsGo, LetGo DEF ExchangeAborted, stateVars, sharedVars, stateOnly
<1>13. ASSUME NEW k \in Conns, RecvFails(k) PROVE Inv'
  BY <1>10, <1>13 DEF RecvFails, NoNewHolder, clientVars
<1>14. ASSUME NEW g \in Gens, DialOK(g) PROVE Inv'
  BY <1>14, DialInTime, DialTooLate DEF DialOK
<1>15. ASSUME NEW g \in Gens, Connect(g) PROVE Inv'
  BY <1>15, Installed, NotInstalled
<1>16. CASE UNCHANGED vars
  <2>1. NoNewHolder /\ UNCHANGED stateOnly
    BY <1>16 DEF vars, stateVars, clientVars, sharedVars, NoNewHolder, stateOnly
  <2>q. QED BY <2>1, LetGo
<1>q. QED
  BY <1>1, <1>2, <1>3, <1>4, <1>5, <1>6, <1>7, <1>8, <1>9, <1>11, <1>12, <1>13, <1>14, <1>15,
     <1>16, StartDialInv, CtxCancelledInv, DialFailsInv, DieInv, ResetInv, CloseInv, CancelInv,
     DrainInv
  DEF Next, ClientStep, ConnectSingle, PoolStep

\* The pool begins without states to close, connections or dials.
LEMMA InitInv == Init => IndInv
<1> SUFFICES ASSUME Init PROVE IndInv
  OBVIOUS
<1>1. TypeOK
  <2>1. Flags /\ CallTypes
    BY OneIsGen DEF Init, PoolInit, Flags, CallTypes
  <2>2. ConnTypes /\ RestTypes
    BY OneIsGen, SMT DEF Init, PoolInit, ConnTypes, RestTypes, Lives
  <2>q. QED BY <2>1, <2>2, TypeParts
<1>2. States /\ DialOwns /\ InstalledOnce /\ Unseen /\ SharedState
  BY DEF Init, PoolInit, States, DialOwns, InstalledOnce, Unseen, SharedState
<1>3. OneConnection /\ NoLeak /\ CreatedOnce /\ HoldersKnow
  BY GenAssumption, SMT
     DEF Init, PoolInit, OneConnection, NoLeak, Accounted, Live, CreatedOnce, HoldersKnow,
     Holders, Gens
<1>q. QED BY <1>1, <1>2, <1>3 DEF IndInv, Inv

LEMMA IndInvHolds == Spec => []IndInv
<1>1. IndInv /\ [Next]_vars => IndInv'
  BY TypeStep, InvStep DEF IndInv
<1>q. QED BY <1>1, InitInv, PTL DEF Spec

-----------------------------------------------------------------------------
\* Every variable of the shared pool keeps its type, a connection's readers included.
THEOREM TypeCorrect == Spec => []TypeOK
<1>1. IndInv => TypeOK
  BY DEF IndInv
<1>q. QED BY <1>1, IndInvHolds, PTL

\* acquireShared and collectShared tell exactly one client that it created the
\* connection, so that exactly one receive loop reads it.
THEOREM OneReader == Spec => []CreatedOnce
<1>1. IndInv => CreatedOnce
  BY DEF IndInv, Inv
<1>q. QED BY <1>1, IndInvHolds, PTL

\* connectSingle never installs a second connection beside the shared one.
THEOREM OneConnectionPerState == Spec => []OneConnection
<1>1. IndInv => OneConnection
  BY DEF IndInv, Inv
<1>q. QED BY <1>1, IndInvHolds, PTL

\* Nobody dials a connection beside the installed one, which connectSingle would
\* overwrite: acquireShared looks for both under one lock.
THEOREM DialsAlone == Spec => []NoDialBeside
<1>1. IndInv => NoDialBeside
  BY DEF IndInv, Inv, SharedState, NoDialBeside
<1>q. QED BY <1>1, IndInvHolds, PTL

\* Whatever Reset, Close, cancelled starters and late dials do, every open connection
\* is in the pool, in a state closeState has yet to drain, or with its dial.
THEOREM NothingLeaks == Spec => []NoLeak
<1>1. IndInv => NoLeak
  BY DEF IndInv, Inv
<1>q. QED BY <1>1, IndInvHolds, PTL

\* removeConn and closeState cancel the context of every connection they close, so
\* that the clients of the connection do not wait for their own timeout.
THEOREM HoldersAreTold == Spec => []ClosedIsSignalled
<1>1. IndInv => ClosedIsSignalled
  <2> SUFFICES ASSUME IndInv, NEW c \in Holders, life[held[c]] = "closed"
               PROVE  ConnCtxDone(held[c]) \/ Retired(origin[held[c]])
    BY DEF ClosedIsSignalled
  <2>1. held[c] \in Conns /\ (Tracked(held[c]) \/ held[c] \in signalled \/ Retired(origin[held[c]]))
    BY DEF IndInv, Inv, HoldersKnow
  <2>2. ~Tracked(held[c])
    BY NoConnAssumption, <2>1 DEF IndInv, Inv, Tracked, OneConnection, SharedState
  <2>q. QED BY <2>1, <2>2 DEF ConnCtxDone
<1>q. QED BY <1>1, IndInvHolds, PTL
=============================================================================

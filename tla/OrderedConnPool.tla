--------------------------- MODULE OrderedConnPool --------------------------
(***************************************************************************)
(* The pool in ConnPoolOrdered mode, as the TLS transport uses it: idle     *)
(* connections in order of release, at most MaxInflight dials at a time,   *)
(* every connection with one client at a time.                             *)
(***************************************************************************)
EXTENDS ConnPool, Sequences, Functions

CONSTANT MaxInflight   \* weight of the semaphore
ASSUME InflightAssumption == MaxInflight \in Nat \ {0}
ASSUME ClientsAssumption == IsFiniteSet(Clients)

VARIABLES
    idle,      \* state.idle of the current state
    inflight   \* slots taken from p.sem

vars == <<stateVars, clientVars, life, idle, inflight>>

\* Every variable has its type.
TypeOK ==
    /\ PoolTypeOK
    /\ pc \in [Clients -> {"idle", "acquire", "slot", "dial", "install", "hold"}]
    /\ idle \in Seq(Conns)
    /\ inflight \in 0..MaxInflight

Init == PoolInit /\ idle = <<>> /\ inflight = 0

-----------------------------------------------------------------------------
(* acquireOrdered                                                             *)

AcquireClosed(c) ==
    /\ pc[c] = "acquire" /\ closed
    /\ Return(c)
    /\ UNCHANGED <<stateVars, life, idle, inflight>>

\* Mutant: the connection is looked at, and stays in the list.
PeekIdle(c) ==
    /\ pc[c] = "acquire" /\ ~closed /\ idle # <<>> /\ IsAlive(Head(idle))
    /\ GoTo(c, "hold")
    /\ held' = [held EXCEPT ![c] = Head(idle)]
    /\ UNCHANGED <<stateVars, life, ctxDone, cgen, idle, inflight>>

\* Mutant: a broken connection goes back to the end of the list.
TakeIdleRequeues(c) ==
    /\ pc[c] = "acquire" /\ ~closed /\ idle # <<>>
    /\ LET k == Head(idle) IN
         IF IsAlive(k)
         THEN /\ GoTo(c, "hold")
              /\ held' = [held EXCEPT ![c] = k]
              /\ idle' = Tail(idle)
         ELSE idle' = Append(Tail(idle), k) /\ UNCHANGED <<pc, held>>
    /\ UNCHANGED <<stateVars, life, ctxDone, cgen, inflight>>

TakeIdle(c) ==
    /\ pc[c] = "acquire" /\ ~closed /\ idle # <<>>
    /\ idle' = Tail(idle)
    /\ LET k == Head(idle) IN
         IF IsAlive(k)
         THEN /\ GoTo(c, "hold")
              /\ held' = [held EXCEPT ![c] = k]
              /\ UNCHANGED <<all, life>>
         ELSE DropConn(k) /\ UNCHANGED <<pc, held>>
    /\ UNCHANGED <<gen, closed, cancelled, drained, ctxDone, cgen, inflight>>

StartDial(c) ==
    /\ pc[c] = "acquire" /\ ~closed /\ idle = <<>>
    /\ GoTo(c, "slot")
    /\ cgen' = [cgen EXCEPT ![c] = gen]
    /\ UNCHANGED <<stateVars, life, ctxDone, held, idle, inflight>>
-----------------------------------------------------------------------------
(* dialAndInstall                                                             *)

\* Mutant: the semaphore does not limit.
AcquireSlotAlways(c) ==
    /\ pc[c] = "slot"
    /\ inflight' = inflight + 1
    /\ GoTo(c, "dial")
    /\ UNCHANGED <<stateVars, life, ctxDone, cgen, held, idle>>

AcquireSlot(c) ==
    /\ pc[c] = "slot" /\ inflight < MaxInflight
    /\ inflight' = inflight + 1
    /\ GoTo(c, "dial")
    /\ UNCHANGED <<stateVars, life, ctxDone, cgen, held, idle>>

SlotFails(c) ==
    /\ pc[c] = "slot" /\ DialCause(c \in ctxDone, cgen[c])
    /\ Return(c)
    /\ UNCHANGED <<stateVars, life, idle, inflight>>

\* Mutant: releaseSlot is not deferred, and a failed dial keeps its slot.
DialFailsKeepsSlot(c) ==
    /\ pc[c] = "dial"
    /\ Return(c)
    /\ UNCHANGED <<stateVars, life, idle, inflight>>

DialFails(c) ==
    /\ pc[c] = "dial"
    /\ Return(c)
    /\ inflight' = inflight - 1
    /\ UNCHANGED <<stateVars, life, idle>>

\* The dial returned a connection: it is closed at once if there is a cause.
DialOK(c) ==
    /\ pc[c] = "dial"
    /\ \E k \in Conns :
         /\ life[k] = "free"
         /\ IF DialCause(c \in ctxDone, cgen[c])
            THEN /\ life' = Closing({k})
                 /\ Return(c)
                 /\ inflight' = inflight - 1
            ELSE /\ life' = [life EXCEPT ![k] = "open"]
                 /\ GoTo(c, "install")
                 /\ held' = [held EXCEPT ![c] = k]
                 /\ UNCHANGED <<ctxDone, cgen, inflight>>
    /\ UNCHANGED <<stateVars, idle>>

\* Mutant: a connection dialled for a retired state is dropped, and not closed.
InstallForgets(c) ==
    /\ pc[c] = "install"
    /\ IF closed \/ gen # cgen[c]
       THEN Return(c) /\ UNCHANGED all
       ELSE /\ all' = [all EXCEPT ![gen] = @ \cup {held[c]}]
            /\ GoTo(c, "hold")
            /\ UNCHANGED <<ctxDone, cgen, held>>
    /\ inflight' = inflight - 1
    /\ UNCHANGED <<gen, closed, cancelled, drained, life, idle>>

Install(c) ==
    /\ pc[c] = "install"
    /\ IF closed \/ gen # cgen[c]
       THEN /\ life' = Closing({held[c]})
            /\ Return(c)
            /\ UNCHANGED all
       ELSE /\ all' = [all EXCEPT ![gen] = @ \cup {held[c]}]
            /\ GoTo(c, "hold")
            /\ UNCHANGED <<life, ctxDone, cgen, held>>
    /\ inflight' = inflight - 1
    /\ UNCHANGED <<gen, closed, cancelled, drained, idle>>

\* The idle list that removeConn leaves.
IdleWithout(k) == IF k \in Range(idle) THEN SelectSeq(idle, LAMBDA j : j # k) ELSE idle

\* Mutant: a connection of a retired state goes back to the list.
ReleaseUntracked(c, reuse) ==
    /\ pc[c] = "hold"
    /\ IF closed \/ ~reuse \/ ~IsAlive(held[c])
       THEN life' = Closing({held[c]}) /\ UNCHANGED idle
       ELSE UNCHANGED life /\ idle' = Append(idle, held[c])
    /\ Return(c)
    /\ UNCHANGED <<stateVars, inflight>>

Release(c, reuse) ==
    /\ pc[c] = "hold"
    /\ IF ~Tracked(held[c])
       THEN life' = Closing({held[c]}) /\ UNCHANGED <<all, idle>>
       ELSE IF ~reuse \/ ~IsAlive(held[c])
       THEN DropConn(held[c]) /\ idle' = IdleWithout(held[c])
       ELSE /\ idle' = IF held[c] \in Range(idle) THEN idle ELSE Append(idle, held[c])
            /\ UNCHANGED <<all, life>>
    /\ Return(c)
    /\ UNCHANGED <<gen, closed, cancelled, drained, inflight>>

ClientStep(c) ==
    \/ AcquireClosed(c) \/ TakeIdle(c) \/ StartDial(c)
    \/ AcquireSlot(c) \/ SlotFails(c) \/ DialFails(c) \/ DialOK(c) \/ Install(c)

PoolStep(g) == (CancelState(g) \/ DrainState(g)) /\ UNCHANGED <<idle, inflight>>

Next ==
    \/ \E c \in Clients :
         \/ (Acquire(c) \/ CtxCancel(c)) /\ UNCHANGED <<idle, inflight>>
         \/ ClientStep(c)
         \/ \E reuse \in BOOLEAN : Release(c, reuse)
    \/ \E k \in Conns : Die(k) /\ UNCHANGED <<idle, inflight>>
    \/ Reset /\ idle' = <<>> /\ UNCHANGED inflight
    \/ Close /\ UNCHANGED <<idle, inflight>>
    \/ \E g \in Gens : PoolStep(g)

Spec == Init /\ [][Next]_vars

\* Goroutines run, dials return, and the semaphore serves its waiters in order.
FairSpec ==
    /\ Spec
    /\ \A c \in Clients : WF_vars(ClientStep(c)) /\ SF_vars(AcquireSlot(c))
    /\ \A g \in Gens : WF_vars(PoolStep(g))

-----------------------------------------------------------------------------
Holders == {c \in Clients : pc[c] = "hold"}
Dialling == {c \in Clients : pc[c] \in {"dial", "install"}}

\* A connection serves one exchange at a time: no two clients hold the same one,
\* none in the idle list is held, and none is there twice.
ExclusiveHold ==
    /\ \A c, d \in Holders : held[c] = held[d] => c = d
    /\ \A c \in Holders : held[c] \notin Range(idle)
    /\ IsInjective(idle)

\* No connection is forgotten by a Reset or Close that races a dial or a release.
NoLeak == Accounted({held[c] : c \in {d \in Clients : pc[d] = "install"}})

\* Every path out of dialAndInstall gives its slot back, once.
SlotsMatchDials == inflight = Cardinality(Dialling)

\* Acquire hands out connections of the current state only, and none the pool
\* has closed: what Reset retired does not come back.
HandsOutCurrent ==
    [][\A c \in Clients : pc[c] # "hold" /\ pc'[c] = "hold" =>
           held'[c] \in all'[gen] /\ life'[held'[c]] # "closed"]_vars

\* Acquire returns, with a connection or with an error, whatever Reset, Close and
\* the other clients do.
AcquireReturns == \A c \in Clients : pc[c] = "acquire" ~> pc[c] \in {"hold", "idle"}
=============================================================================

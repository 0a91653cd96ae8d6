--------------------------- MODULE SharedConnPool ---------------------------
(***************************************************************************)
(* The pool in ConnPoolSingle mode, as the UDP transport uses it: one        *)
(* connection for all clients, dialled by one goroutine on behalf of all     *)
(* that wait, and read by the one client that is told it created it.         *)
(***************************************************************************)
EXTENDS ConnPool

VARIABLES
    shared,      \* state.shared of the current state, None without hasShared
    claimed,     \* state.sharedClaimed of the current state
    signalled,   \* connections whose sharedCtx has been cancelled by removeConn
    connecting,  \* each state's connectSingle goroutine: "none" while connecting is nil,
                 \* "dial", "cancelled" once the starter's context is done, "install"
    dialled,     \* the connection its dial returned, None when it failed
    starter,     \* clients that started the dial they wait for
    origin,      \* the state a connection was installed in
    readers      \* how often a connection was reported as created

sharedVars == <<shared, claimed, signalled, connecting, dialled, starter, origin, readers>>
vars == <<stateVars, clientVars, life, sharedVars>>

\* Every variable has its type.
TypeOK ==
    /\ PoolTypeOK
    /\ pc \in [Clients -> {"idle", "acquire", "wait", "collect", "failed", "hold"}]
    /\ shared \in Conns \cup {None} /\ claimed \in BOOLEAN
    /\ signalled \subseteq Conns
    /\ connecting \in [Gens -> {"none", "dial", "cancelled", "install"}]
    /\ dialled \in [Gens -> Conns \cup {None}]
    /\ starter \subseteq Clients
    /\ origin \in [Conns -> Gens]
    /\ readers \in [Conns -> 0..1]

Init ==
    /\ PoolInit
    /\ shared = None /\ claimed = FALSE /\ signalled = {}
    /\ connecting = [g \in Gens |-> "none"] /\ dialled = [g \in Gens |-> None]
    /\ starter = {}
    /\ origin = [k \in Conns |-> 1]
    /\ readers = [k \in Conns |-> 0]

-----------------------------------------------------------------------------
(* The sections of acquireShared and collectShared that hold the lock.        *)

\* removeConn of the connection k, if it is in the current state, and its close.
RemoveShared(k) ==
    /\ DropConn(k)
    /\ IF shared = k
       THEN /\ shared' = None /\ claimed' = FALSE
            /\ signalled' = signalled \cup {k}
       ELSE UNCHANGED <<shared, claimed, signalled>>

\* Mutant: the client that started the dial is the one that created the connection.
HandOutStarter(c) ==
    /\ GoTo(c, "hold")
    /\ held' = [held EXCEPT ![c] = shared]
    /\ ctxDone' = ctxDone \ {c} /\ cgen' = [cgen EXCEPT ![c] = 1]
    /\ claimed' = TRUE
    /\ readers' = IF c \in starter THEN [readers EXCEPT ![shared] = 1] ELSE readers

\* The shared connection is handed to c, who is told whether it created it.
HandOut(c) ==
    /\ GoTo(c, "hold")
    /\ held' = [held EXCEPT ![c] = shared]
    /\ ctxDone' = ctxDone \ {c} /\ cgen' = [cgen EXCEPT ![c] = 1]
    /\ claimed' = TRUE
    /\ readers' = IF claimed THEN readers ELSE [readers EXCEPT ![shared] = @ + 1]

AcquireClosed(c) ==
    /\ pc[c] = "acquire" /\ closed
    /\ Return(c)
    /\ UNCHANGED <<stateVars, life, sharedVars>>

UseShared(c) ==
    /\ pc[c] = "acquire" /\ ~closed /\ shared # None
    /\ IF IsAlive(shared)
       THEN HandOut(c) /\ UNCHANGED <<all, life, shared, signalled>>
       ELSE RemoveShared(shared) /\ UNCHANGED <<clientVars, readers>>
    /\ UNCHANGED <<gen, closed, cancelled, drained>>
    /\ UNCHANGED <<connecting, dialled, starter, origin>>

\* Mutant: a client dials without looking for a connection first.
StartDialUnseen(c) ==
    /\ pc[c] = "acquire" /\ ~closed /\ connecting[gen] = "none"
    /\ connecting' = [connecting EXCEPT ![gen] = IF c \in ctxDone THEN "cancelled" ELSE "dial"]
    /\ starter' = starter \cup {c}
    /\ GoTo(c, "wait")
    /\ cgen' = [cgen EXCEPT ![c] = gen]
    /\ UNCHANGED <<stateVars, life, ctxDone, held, shared, claimed, signalled, dialled, origin, readers>>

StartDial(c) ==
    /\ pc[c] = "acquire" /\ ~closed /\ shared = None /\ connecting[gen] = "none"
    /\ connecting' = [connecting EXCEPT ![gen] = IF c \in ctxDone THEN "cancelled" ELSE "dial"]
    /\ starter' = starter \cup {c}
    /\ GoTo(c, "wait")
    /\ cgen' = [cgen EXCEPT ![c] = gen]
    /\ UNCHANGED <<stateVars, life, ctxDone, held, shared, claimed, signalled, dialled, origin, readers>>

JoinDial(c) ==
    /\ pc[c] = "acquire" /\ ~closed /\ shared = None /\ connecting[gen] # "none"
    /\ GoTo(c, "wait")
    /\ cgen' = [cgen EXCEPT ![c] = gen]
    /\ UNCHANGED <<stateVars, life, ctxDone, held, sharedVars>>

-----------------------------------------------------------------------------
(* What a client waits for. state.done is closed for those in "collect" and   *)
(* "failed", whose select may still take another of its cases.                *)

Waits(c) == pc[c] \in {"wait", "collect", "failed"}

\* The attempt failed: whoever started it returns its error, the others start over.
CollectError(c) ==
    /\ pc[c] = "failed"
    /\ IF c \in starter THEN Return(c) ELSE Retry(c)
    /\ starter' = starter \ {c}
    /\ UNCHANGED <<stateVars, life, shared, claimed, signalled, connecting, dialled, origin, readers>>

CollectShared(c) ==
    /\ pc[c] = "collect"
    /\ IF closed \/ gen # cgen[c]
       THEN Return(c) /\ UNCHANGED <<all, life, shared, claimed, signalled, readers>>
       ELSE IF shared = None
       THEN Retry(c) /\ UNCHANGED <<all, life, shared, claimed, signalled, readers>>
       ELSE IF IsAlive(shared)
       THEN HandOut(c) /\ UNCHANGED <<all, life, shared, signalled>>
       ELSE RemoveShared(shared) /\ Retry(c) /\ UNCHANGED readers
    /\ starter' = starter \ {c}
    /\ UNCHANGED <<gen, closed, cancelled, drained, connecting, dialled, origin>>

\* Mutant: the select has no case for the context.
WaitUncancelled(c) == FALSE /\ UNCHANGED vars

WaitCancelled(c) ==
    /\ Waits(c) /\ c \in ctxDone
    /\ Return(c)
    /\ starter' = starter \ {c}
    /\ UNCHANGED <<stateVars, life, shared, claimed, signalled, connecting, dialled, origin, readers>>

\* The state's context is done: after a Close the client returns, after a Reset it
\* starts over with the new state.
WaitRetired(c) ==
    /\ Waits(c) /\ cgen[c] \in cancelled
    /\ IF closed THEN Return(c) ELSE Retry(c)
    /\ starter' = starter \ {c}
    /\ UNCHANGED <<stateVars, life, shared, claimed, signalled, connecting, dialled, origin, readers>>

\* A starter's context is the parent of its dial's.
CtxCancelled(c) ==
    /\ CtxCancel(c)
    /\ connecting' = IF c \in starter /\ connecting[cgen[c]] = "dial"
                     THEN [connecting EXCEPT ![cgen[c]] = "cancelled"] ELSE connecting
    /\ UNCHANGED <<shared, claimed, signalled, dialled, starter, origin, readers>>

-----------------------------------------------------------------------------
(* connectSingle, the goroutine that dials for the state g.                   *)

DialReturns(g, k) ==
    /\ connecting[g] \in {"dial", "cancelled"}
    /\ connecting' = [connecting EXCEPT ![g] = "install"]
    /\ dialled' = [dialled EXCEPT ![g] = k]
    /\ UNCHANGED <<stateVars, clientVars, shared, claimed, signalled, starter, origin, readers>>

DialFails(g) == DialReturns(g, None) /\ UNCHANGED life

\* A connection that arrives too late is closed, and the dial has failed.
DialOK(g) ==
    \E k \in Conns :
      /\ life[k] = "free"
      /\ IF DialCause(connecting[g] = "cancelled", g)
         THEN DialReturns(g, None) /\ life' = Closing({k})
         ELSE DialReturns(g, k) /\ life' = [life EXCEPT ![k] = "open"]

Stale(g) == closed \/ gen # g

\* close(state.done) wakes all that wait, whether the starter is still among them or not.
Wake(g, l) == pc' = [c \in Clients |-> IF pc[c] = "wait" /\ cgen[c] = g THEN l ELSE pc[c]]

\* The connection is installed, or is nobody's and closed.
Connect(g) ==
    LET k == dialled[g] IN
    /\ connecting[g] = "install"
    /\ connecting' = [connecting EXCEPT ![g] = "none"]
    /\ dialled' = [dialled EXCEPT ![g] = None]
    /\ IF k = None \/ Stale(g)
       THEN life' = Closing({k}) /\ Wake(g, "failed") /\ UNCHANGED <<all, shared, origin>>
       ELSE /\ shared' = k
            /\ origin' = [origin EXCEPT ![k] = g]
            /\ all' = [all EXCEPT ![g] = @ \cup {k}]
            /\ Wake(g, "collect")
            /\ UNCHANGED life
    /\ UNCHANGED <<gen, closed, cancelled, drained, ctxDone, cgen, held>>
    /\ UNCHANGED <<claimed, signalled, starter, readers>>

-----------------------------------------------------------------------------
(* The UDP exchange with the connection, and its receive loop.                *)

Release(c) ==
    /\ pc[c] = "hold"
    /\ IF ~Tracked(held[c])
       THEN life' = Closing({held[c]}) /\ UNCHANGED <<all, shared, claimed, signalled>>
       ELSE IF IsAlive(held[c])
       THEN UNCHANGED <<all, life, shared, claimed, signalled>>
       ELSE RemoveShared(held[c])
    /\ Return(c)
    /\ UNCHANGED <<gen, closed, cancelled, drained>>
    /\ UNCHANGED <<connecting, dialled, starter, origin, readers>>

\* Mutant: the clients of the connection are not told.
InvalidateSilently(k) ==
    IF closed THEN life' = Closing({k}) /\ UNCHANGED <<all, shared, claimed, signalled>>
    ELSE IF k \notin all[gen] THEN UNCHANGED <<all, life, shared, claimed, signalled>>
    ELSE /\ DropConn(k) /\ UNCHANGED signalled
         /\ IF shared = k THEN shared' = None /\ claimed' = FALSE ELSE UNCHANGED <<shared, claimed>>

Invalidate(k) ==
    IF closed THEN life' = Closing({k}) /\ UNCHANGED <<all, shared, claimed, signalled>>
    ELSE IF k \notin all[gen] THEN UNCHANGED <<all, life, shared, claimed, signalled>>
    ELSE RemoveShared(k)

WriteFails(c) ==
    /\ pc[c] = "hold" /\ life[held[c]] # "open"
    /\ Invalidate(held[c])
    /\ Return(c)
    /\ UNCHANGED <<gen, closed, cancelled, drained>>
    /\ UNCHANGED <<connecting, dialled, starter, origin, readers>>

ConnCtxDone(k) == k \in signalled \/ origin[k] \in cancelled

\* connCtx.Done() while waiting for the response.
ExchangeAborted(c) ==
    /\ pc[c] = "hold" /\ ConnCtxDone(held[c])
    /\ Return(c)
    /\ UNCHANGED <<stateVars, life, sharedVars>>

\* The receive loop of k, which whoever created k started, ends with a read error.
RecvFails(k) ==
    /\ readers[k] = 1 /\ life[k] # "open"
    /\ Invalidate(k)
    /\ UNCHANGED <<gen, closed, cancelled, drained, clientVars>>
    /\ UNCHANGED <<connecting, dialled, starter, origin, readers>>

-----------------------------------------------------------------------------
ClientStep(c) ==
    \/ AcquireClosed(c) \/ UseShared(c) \/ StartDial(c) \/ JoinDial(c)
    \/ CollectError(c) \/ CollectShared(c) \/ WaitCancelled(c) \/ WaitRetired(c)

ConnectSingle(g) == DialFails(g) \/ DialOK(g) \/ Connect(g)

PoolStep(g) == (CancelState(g) \/ DrainState(g)) /\ UNCHANGED sharedVars

\* The new state has no connection.
ResetShared ==
    /\ Reset
    /\ shared' = None /\ claimed' = FALSE
    /\ UNCHANGED <<signalled, connecting, dialled, starter, origin, readers>>

Next ==
    \/ \E c \in Clients :
         \/ Acquire(c) /\ UNCHANGED sharedVars
         \/ CtxCancelled(c)
         \/ ClientStep(c)
         \/ Release(c) \/ WriteFails(c) \/ ExchangeAborted(c)
    \/ \E k \in Conns : RecvFails(k) \/ (Die(k) /\ UNCHANGED sharedVars)
    \/ ResetShared
    \/ Close /\ UNCHANGED sharedVars
    \/ \E g \in Gens : ConnectSingle(g) \/ PoolStep(g)

Spec == Init /\ [][Next]_vars

\* Goroutines run, dials return, and a select that keeps finding ctx.Done() ready
\* takes it at last.
FairSpec ==
    /\ Spec
    /\ \A c \in Clients : WF_vars(ClientStep(c)) /\ SF_vars(WaitCancelled(c))
    /\ \A g \in Gens : WF_vars(ConnectSingle(g))

-----------------------------------------------------------------------------
Holders == {c \in Clients : pc[c] = "hold"}

\* Exactly one client is told that it created the connection, so exactly one
\* receive loop reads it: none handed out is without its reader, whoever dialled it
\* and whether or not that client was still there to collect it.
CreatedOnce ==
    /\ \A k \in Conns : readers[k] <= 1
    /\ \A c \in Holders : readers[held[c]] = 1

\* All clients share one connection: a state never has a second one beside it, whoever
\* dials, joins, retries or removes while another does. (With one connection to dial
\* this cannot fail for want of a second, so the instances check NoDialBeside.)
OneConnection == ~closed => all[gen] = IF shared = None THEN {} ELSE {shared}

\* While a connection is installed no dial of its state is under way, whoever joins,
\* gives up or removes meanwhile: connectSingle would put what the dial returns in its
\* place, and leave its clients a connection that nothing closes.
NoDialBeside == ~closed /\ shared # None => connecting[gen] = "none"

\* No connection is forgotten: not by a Reset or Close that races the dial, nor by a
\* starter that gave up before its dial returned.
NoLeak == Accounted({dialled[g] : g \in Gens})

\* A client whose connection the pool closes is told so through connCtx, and need
\* not wait for its own timeout: connCtx is done, or its state's closeState is about
\* to cancel it.
ClosedIsSignalled ==
    \A c \in Holders : life[held[c]] = "closed" => ConnCtxDone(held[c]) \/ Retired(origin[held[c]])

\* Once its context is done a client's Acquire returns: the loop of acquireShared, which
\* does not look at the context before it starts over, cannot keep it for ever, whatever
\* Reset, Close and the dials of other clients do.
CancelledReturns == \A c \in Clients : c \in ctxDone ~> pc[c] \in {"hold", "idle"}
=============================================================================

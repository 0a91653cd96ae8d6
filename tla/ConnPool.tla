------------------------------ MODULE ConnPool ------------------------------
(***************************************************************************)
(* What the two modes of the DNS transports' connection pool share         *)
(* (dns/transport/conn_pool.go): the generations of pool state that Reset   *)
(* and Close retire, the connections, and the clients that acquire them.   *)
(* OrderedConnPool and SharedConnPool add the two ways to acquire.         *)
(***************************************************************************)
EXTENDS Naturals, FiniteSets

CONSTANTS
    Clients,   \* concurrent callers of Acquire
    Conns,     \* connections that may be dialled
    SeesDeath, \* IsAlive notices a broken connection (QUIC; UDP and TLS only test for nil)
    MaxGen,    \* bound: generations of pool state
    None       \* no connection, no attempt

ASSUME GenAssumption == MaxGen \in Nat \ {0}
ASSUME SeesDeathAssumption == SeesDeath \in BOOLEAN
ASSUME NoConnAssumption == None \notin Conns

Gens == 1..MaxGen

VARIABLES
    gen,        \* p.state
    closed,     \* p.closed
    all,        \* connPoolState.all, per generation
    cancelled,  \* generations whose context closeState has cancelled
    drained,    \* generations whose connections closeState has closed
    life,       \* what has become of each connection
    pc,         \* where each client is
    ctxDone,    \* clients whose own context is done
    cgen,       \* the state a client has read (current)
    held        \* the connection a client has dialled or acquired

stateVars  == <<gen, closed, all, cancelled, drained>>
clientVars == <<pc, ctxDone, cgen, held>>

\* "free": not dialled yet; "open"; "dead": broken; "closed" by options.Close.
Lives == {"free", "open", "dead", "closed"}

PoolTypeOK ==
    /\ gen \in Gens /\ closed \in BOOLEAN
    /\ all \in [Gens -> SUBSET Conns]
    /\ cancelled \subseteq Gens /\ drained \subseteq Gens
    /\ life \in [Conns -> Lives]
    /\ ctxDone \subseteq Clients
    /\ cgen \in [Clients -> Gens]
    /\ held \in [Clients -> Conns \cup {None}]

PoolInit ==
    /\ gen = 1 /\ closed = FALSE
    /\ all = [g \in Gens |-> {}]
    /\ cancelled = {} /\ drained = {}
    /\ life = [k \in Conns |-> "free"]
    /\ pc = [c \in Clients |-> "idle"]
    /\ ctxDone = {}
    /\ cgen = [c \in Clients |-> 1]
    /\ held = [c \in Clients |-> None]

-----------------------------------------------------------------------------
Live(k) == life[k] \in {"open", "dead"}
IsAlive(k) == SeesDeath => life[k] = "open"
Closing(ks) == [k \in Conns |-> IF k \in ks THEN "closed" ELSE life[k]]

\* Generations that are no longer the pool's state.
Retired(g) == g < gen \/ (g = gen /\ closed)

GoTo(c, l) == pc' = [pc EXCEPT ![c] = l]

\* The call ends, and its locals with it.
Return(c) ==
    /\ GoTo(c, "idle")
    /\ held' = [held EXCEPT ![c] = None]
    /\ ctxDone' = ctxDone \ {c}
    /\ cgen' = [cgen EXCEPT ![c] = 1]

\* Acquire starts over, and reads the state again.
Retry(c) ==
    /\ GoTo(c, "acquire")
    /\ cgen' = [cgen EXCEPT ![c] = 1]
    /\ UNCHANGED <<ctxDone, held>>

\* Mutant: the caller of removeConn leaves the connection open.
DropConnUnclosed(k) ==
    /\ all' = [all EXCEPT ![gen] = @ \ {k}]
    /\ UNCHANGED life

\* Drop k from the current state and close it (removeConn, then options.Close).
DropConn(k) ==
    /\ all' = [all EXCEPT ![gen] = @ \ {k}]
    /\ life' = Closing({k})

-----------------------------------------------------------------------------
(* The environment: a client's context is done, a connection breaks.          *)
\* Where the context is waited for: nothing reads it in "acquire", and a holder whose
\* context is done releases the connection as any other.
CtxCancel(c) ==
    /\ pc[c] \notin {"idle", "acquire", "hold"} /\ c \notin ctxDone
    /\ ctxDone' = ctxDone \cup {c}
    /\ UNCHANGED <<stateVars, life, pc, cgen, held>>

Die(k) ==
    /\ life[k] = "open"
    /\ life' = [life EXCEPT ![k] = "dead"]
    /\ UNCHANGED <<stateVars, clientVars>>

Acquire(c) ==
    /\ pc[c] = "idle"
    /\ GoTo(c, "acquire")
    /\ UNCHANGED <<stateVars, life, ctxDone, cgen, held>>

-----------------------------------------------------------------------------
(* Reset and Close swap the state under the lock, then closeState runs        *)
(* without it: it cancels the old state's context, then closes its            *)
(* connections.                                                               *)

Reset ==
    /\ ~closed /\ gen < MaxGen
    /\ gen' = gen + 1
    /\ UNCHANGED <<closed, all, cancelled, drained, life, clientVars>>

Close ==
    /\ ~closed
    /\ closed' = TRUE
    /\ UNCHANGED <<gen, all, cancelled, drained, life, clientVars>>

CancelState(g) ==
    /\ Retired(g) /\ g \notin cancelled
    /\ cancelled' = cancelled \cup {g}
    /\ UNCHANGED <<gen, closed, all, drained, life, clientVars>>

DrainState(g) ==
    /\ g \in cancelled /\ g \notin drained
    /\ drained' = drained \cup {g}
    /\ life' = Closing(all[g])
    /\ UNCHANGED <<gen, closed, all, cancelled, clientVars>>

-----------------------------------------------------------------------------
(* Release and Invalidate of a connection a client holds: whether it stays    *)
(* in the pool.                                                               *)

Tracked(k) == ~closed /\ k \in all[gen]

\* The cause dialAndInstall and connectSingle find after the dial returned.
DialCause(ctxIsDone, g) == ctxIsDone \/ g \in cancelled

-----------------------------------------------------------------------------
\* Every connection that is not closed is somebody's to close: it is in the
\* pool, or in a retired state that closeState has yet to drain, or in the hands
\* of the dial that made it (inTransit).
Accounted(inTransit) ==
    \A k \in Conns : Live(k) =>
        \/ Tracked(k)
        \/ \E g \in Gens : Retired(g) /\ g \notin drained /\ k \in all[g]
        \/ k \in inTransit
=============================================================================

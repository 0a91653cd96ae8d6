------------------------------- MODULE Daemon -------------------------------
(* The daemon's StartedService, the Instances it replaces one by another, and *)
(* the start and the close of the Box in each.  Start and Close of a Box run  *)
(* on different goroutines: Instance.Close does not wait for Start to return. *)
(* Of the Box the model keeps the inbound manager, whose Start and Close      *)
(* exclude each other, and the service manager, whose Start lets go of its    *)
(* lock before it starts its items; each has one item.                        *)
EXTENDS Naturals, Sequences

CONSTANTS
    Callers,        \* goroutines that call StartOrReloadService and CloseService
    None,           \* no instance, no caller
    MaxInstances    \* bound on the instances: newInstance fails when it is reached

ASSUME NoneAssumption == None \notin Callers /\ None \notin Nat
ASSUME BoundAssumption == MaxInstances \in Nat

Instances == 1..MaxInstances
Managers == {"inbound", "service"}

VARIABLES
    \* StartedService
    serviceStatus,
    instance,
    serviceAccess,  \* the caller that holds it across a call of Instance.Close, or None
    pc, own,        \* of every caller: where it is, and the instance it deals with
    created,        \* the number of instances made
    lateError,      \* history: SetError was called while an instance was being closed
    \* every Instance
    closed,
    cancelled,      \* its context
    closeDone,
    closeErr,
    \* the Box of every instance
    done,
    at,             \* where its Start and its Close are
    pos,            \* the call of a manager's Start that is made or due
    started,        \* of every manager
    listed,         \* the manager has its item
    item,           \* "new", "open" or "closed"
    early,          \* history: Close came to the inbound manager before its first Start
    crashed         \* the process has ended with a panic

serviceVars == <<serviceStatus, instance, serviceAccess, pc, own, created, lateError>>
instanceVars == <<closed, cancelled, closeDone, closeErr>>
managerVars == <<started, listed, item, early>>
boxVars == <<done, at, pos, managerVars, crashed>>
vars == <<serviceVars, instanceVars, boxVars>>

All(value) == [i \in Instances |-> value]

Init ==
    /\ serviceStatus = "idle" /\ instance = None /\ serviceAccess = None
    /\ pc = [c \in Callers |-> "idle"] /\ own = [c \in Callers |-> None]
    /\ created = 0 /\ lateError = FALSE
    /\ closed = All(FALSE) /\ cancelled = All(FALSE)
    /\ closeDone = All(FALSE) /\ closeErr = All(FALSE)
    /\ done = All(FALSE)
    /\ at = All([start |-> "no", close |-> "no"])
    /\ pos = All(1)
    /\ started = All([m \in Managers |-> FALSE])
    /\ listed = All([m \in Managers |-> TRUE])
    /\ item = All([m \in Managers |-> "new"])
    /\ early = All(FALSE) /\ crashed = FALSE

-----------------------------------------------------------------------------
(* StartedService.  What a caller does under serviceAccess is one step.       *)

Goto(c, label, i) == pc' = [pc EXCEPT ![c] = label] /\ own' = [own EXCEPT ![c] = i]

Return(c) == Goto(c, "idle", None)

\* Instance.Close, up to its call of cancel.
BeginClose(i) ==
    /\ closed' = [closed EXCEPT ![i] = TRUE]
    /\ at' = [at EXCEPT ![i].close = "cancel"]

\* Mutant: the status does not say that the service is stopping.
RetireSilently(c, label) ==
    /\ instance # None
    /\ instance' = None
    /\ Goto(c, label, instance)
    /\ UNCHANGED <<serviceStatus, created>>

\* The caller takes the instance out of the service, and closes it without the lock.
Retire(c, label) ==
    /\ instance # None
    /\ serviceStatus' = "stopping" /\ instance' = None
    /\ Goto(c, label, instance)
    /\ UNCHANGED created

\* newInstance and the switch to the new instance, or its error.
Create(c) ==
    \/ /\ serviceStatus' = "fatal"
       /\ Return(c)
       /\ UNCHANGED <<instance, created>>
    \/ /\ created < MaxInstances
       /\ created' = created + 1
       /\ serviceStatus' = "starting" /\ instance' = created + 1
       /\ Goto(c, "created", created + 1)

Enter(c, label) == pc[c] = label /\ serviceAccess = None

\* Mutant: a reload does not look for an instance to close.
StartOrReloadServiceUnclosed(c) ==
    /\ Enter(c, "idle") /\ serviceStatus # "stopping"
    /\ Create(c)
    /\ UNCHANGED <<serviceAccess, lateError, instanceVars, boxVars>>

StartOrReloadService(c) ==
    /\ Enter(c, "idle") /\ serviceStatus # "stopping"
    /\ IF instance # None THEN Retire(c, "reload") ELSE Create(c)
    /\ UNCHANGED <<serviceAccess, lateError, instanceVars, boxVars>>

CloseService(c) ==
    /\ Enter(c, "idle") /\ serviceStatus \in {"starting", "started"}
    /\ Retire(c, "close")
    /\ UNCHANGED <<serviceAccess, lateError, instanceVars, boxVars>>

SetError ==
    /\ serviceAccess = None
    /\ serviceStatus' = "fatal"
    /\ lateError' = (lateError \/ serviceStatus = "stopping")
    /\ UNCHANGED <<instance, serviceAccess, pc, own, created, instanceVars, boxVars>>

\* The call of Instance.Close.
CallClose(c) ==
    /\ pc[c] \in {"reload", "close", "failed"} /\ ~closed[own[c]]
    /\ BeginClose(own[c])
    /\ UNCHANGED <<serviceVars, cancelled, closeDone, closeErr, done, pos, managerVars, crashed>>

\* StartOrReloadService after the old instance is closed.
Reload(c) ==
    /\ Enter(c, "reload") /\ closeDone[own[c]]
    /\ IF closeErr[own[c]]
       THEN serviceStatus' = "fatal" /\ Return(c) /\ UNCHANGED <<instance, created>>
       ELSE Create(c)
    /\ UNCHANGED <<serviceAccess, lateError, instanceVars, boxVars>>

CloseServiceDone(c) ==
    /\ Enter(c, "close") /\ closeDone[own[c]]
    /\ serviceStatus' = IF closeErr[own[c]] THEN "fatal" ELSE "idle"
    /\ Return(c)
    /\ UNCHANGED <<instance, serviceAccess, created, lateError, instanceVars, boxVars>>

\* Instance.Start: an instance that is closed by now is not started.
CallStart(c) ==
    /\ pc[c] = "created"
    /\ Goto(c, "starting", own[c])
    /\ at' = [at EXCEPT ![own[c]].start = IF closed[own[c]] THEN "err" ELSE "call"]
    /\ UNCHANGED <<serviceStatus, instance, serviceAccess, created, lateError, instanceVars>>
    /\ UNCHANGED <<done, pos, managerVars, crashed>>

StillStarting(c) == serviceStatus = "starting" /\ instance = own[c]

\* StartOrReloadService after Start.  When it failed the instance is closed with the
\* lock held.
StartReturns(c) ==
    /\ Enter(c, "starting")
    /\ \/ /\ at[own[c]].start \in {"ok", "err"} /\ ~StillStarting(c)
          /\ Return(c)
          /\ UNCHANGED <<serviceStatus, instance, serviceAccess>>
       \/ /\ at[own[c]].start = "ok" /\ StillStarting(c)
          /\ serviceStatus' = "started"
          /\ Return(c)
          /\ UNCHANGED <<instance, serviceAccess>>
       \/ /\ at[own[c]].start = "err" /\ StillStarting(c)
          /\ instance' = None /\ serviceAccess' = c
          /\ Goto(c, "failed", own[c])
          /\ UNCHANGED serviceStatus
    /\ UNCHANGED <<created, lateError, instanceVars, boxVars>>

StartFailed(c) ==
    /\ pc[c] = "failed" /\ closeDone[own[c]]
    /\ serviceStatus' = "fatal" /\ serviceAccess' = None
    /\ Return(c)
    /\ UNCHANGED <<instance, created, lateError, instanceVars, boxVars>>

-----------------------------------------------------------------------------
(* Box.Start: Start of the managers, stage by stage.                          *)

\* The stages finishStart and postStart do the same here, and are one.
Script ==
    << <<"inbound", "initialize">>, <<"service", "initialize">>,
       <<"inbound", "start">>, <<"service", "start">>,
       <<"inbound", "postStart">>, <<"service", "postStart">> >>

Manager(i) == Script[pos[i]][1]
Stage(i) == Script[pos[i]][2]

Advance(i) ==
    /\ pos' = [pos EXCEPT ![i] = IF @ < Len(Script) THEN @ + 1 ELSE 1]
    /\ at' = [at EXCEPT ![i].start = IF pos[i] < Len(Script) THEN "call" ELSE "ok"]

\* Manager.Start, up to its loop over the items it has at that moment.
ManagerStart(i) ==
    /\ at[i].start = "call"
    /\ started' = [started EXCEPT ![i][Manager(i)] = TRUE]
    /\ IF listed[i][Manager(i)]
       THEN at' = [at EXCEPT ![i].start = "item"] /\ UNCHANGED pos
       ELSE Advance(i)
    /\ UNCHANGED <<serviceVars, instanceVars, done, listed, item, early, crashed>>

\* Mutant: Box.start goes on after an error.
StartItemLenient(i) ==
    /\ at[i].start = "item"
    /\ item' \in {item, [item EXCEPT ![i][Manager(i)] = IF Stage(i) = "start" THEN "open" ELSE @]}
    /\ Advance(i)
    /\ UNCHANGED <<serviceVars, instanceVars, done, started, listed, early, crashed>>

\* Start of the item, which listens or runs from the second stage on.  It may wait
\* for something until the context is cancelled.  Its error ends Box.start.
StartItem(i) ==
    /\ at[i].start = "item"
    /\ \/ /\ item' = IF Stage(i) = "start" THEN [item EXCEPT ![i][Manager(i)] = "open"] ELSE item
          /\ Advance(i)
       \/ /\ at' = [at EXCEPT ![i].start = "check"]
          /\ pos' = [pos EXCEPT ![i] = 1]
          /\ UNCHANGED item
    /\ UNCHANGED <<serviceVars, instanceVars, done, started, listed, early, crashed>>

-----------------------------------------------------------------------------
(* Box.Close, by Box.Start that failed (t = "start") or by Instance.Close     *)
(* (t = "close").                                                             *)

Threads == {"start", "close"}

\* Mutant: Close does not cancel the context.
CancelNever(i) ==
    /\ at[i].close = "cancel"
    /\ at' = [at EXCEPT ![i].close = "check"]
    /\ UNCHANGED <<serviceVars, instanceVars, done, pos, managerVars, crashed>>

Cancel(i) ==
    /\ at[i].close = "cancel"
    /\ cancelled' = [cancelled EXCEPT ![i] = TRUE]
    /\ at' = [at EXCEPT ![i].close = "check"]
    /\ UNCHANGED <<serviceVars, closed, closeDone, closeErr, done, pos, managerVars, crashed>>

\* Box.Close returns; Instance.Close then stores the error and closes closeDone.
CloseReturns(i, t, err) ==
    IF t = "start"
    THEN at' = [at EXCEPT ![i].start = "err"] /\ UNCHANGED <<closeDone, closeErr>>
    ELSE /\ at' = [at EXCEPT ![i].close = "returned"]
         /\ closeDone' = [closeDone EXCEPT ![i] = TRUE]
         /\ closeErr' = [closeErr EXCEPT ![i] = err]

\* The select over done, whose default branch closes it.
CheckDone(i, t) ==
    /\ at[i][t] = "check"
    /\ IF done[i] THEN CloseReturns(i, t, FALSE)
       ELSE at' = [at EXCEPT ![i][t] = "mark"] /\ UNCHANGED <<closeDone, closeErr>>
    /\ UNCHANGED <<serviceVars, closed, cancelled, done, pos, managerVars, crashed>>

\* close(s.done) panics if the other has come first: Box.Start recovers and returns
\* nil, elsewhere it ends the process.
MarkDone(i, t) ==
    /\ at[i][t] = "mark"
    /\ done' = [done EXCEPT ![i] = TRUE]
    /\ IF ~done[i]
       THEN at' = [at EXCEPT ![i][t] = "service"] /\ UNCHANGED crashed
       ELSE /\ at' = [at EXCEPT ![i][t] = IF t = "start" THEN "ok" ELSE "panic"]
            /\ crashed' = (t = "close")
    /\ UNCHANGED <<serviceVars, instanceVars, pos, managerVars>>

\* Manager.Close: nothing, if the manager is not started; else its item is closed.
ManagerClose(i, m) ==
    IF started[i][m]
    THEN /\ started' = [started EXCEPT ![i][m] = FALSE]
         /\ listed' = [listed EXCEPT ![i][m] = FALSE]
         /\ item' = IF listed[i][m] THEN [item EXCEPT ![i][m] = "closed"] ELSE item
    ELSE UNCHANGED <<started, listed, item>>

CloseServices(i, t) ==
    /\ at[i][t] = "service"
    /\ ManagerClose(i, "service")
    /\ at' = [at EXCEPT ![i][t] = "inbound"]
    /\ UNCHANGED <<serviceVars, instanceVars, done, pos, early, crashed>>

\* Mutant: nothing keeps Close out of a Start under way.
LifecycleFreeAlways(i) == TRUE

\* Start of the inbound manager holds lifecycle to its end.
LifecycleFree(i) == ~(at[i].start = "item" /\ Manager(i) = "inbound")

CloseInbounds(i, t) ==
    /\ at[i][t] = "inbound" /\ LifecycleFree(i)
    /\ ManagerClose(i, "inbound")
    /\ early' = [early EXCEPT ![i] = @ \/ ~started[i]["inbound"]]
    /\ \E err \in BOOLEAN : CloseReturns(i, t, err)
    /\ UNCHANGED <<serviceVars, closed, cancelled, done, pos, crashed>>

-----------------------------------------------------------------------------
CallerStep(c) ==
    \/ CallClose(c) \/ Reload(c) \/ CloseServiceDone(c)
    \/ CallStart(c) \/ StartReturns(c) \/ StartFailed(c)

CloseStep(i, t) == CheckDone(i, t) \/ MarkDone(i, t) \/ CloseServices(i, t) \/ CloseInbounds(i, t)

BoxStep(i) == ManagerStart(i) \/ StartItem(i) \/ Cancel(i) \/ \E t \in Threads : CloseStep(i, t)

Next ==
    /\ ~crashed
    /\ \/ SetError
       \/ \E c \in Callers : StartOrReloadService(c) \/ CloseService(c) \/ CallerStep(c)
       \/ \E i \in Instances : BoxStep(i)

Spec == Init /\ [][Next]_vars

\* Goroutines run; the start of an item ends once its context is cancelled.
FairSpec ==
    /\ Spec
    /\ \A c \in Callers : WF_vars(~crashed /\ CallerStep(c))
    /\ \A i \in Instances :
         /\ WF_vars(~crashed /\ (ManagerStart(i) \/ (cancelled[i] /\ StartItem(i))))
         /\ WF_vars(~crashed /\ (Cancel(i) \/ CloseStep(i, "close")))
         /\ WF_vars(~crashed /\ CloseStep(i, "start"))

-----------------------------------------------------------------------------
Labels == {"no", "check", "mark", "service", "inbound"}

StartLabels == Labels \cup {"call", "item", "ok", "err"}
CloseLabels == Labels \cup {"cancel", "returned", "panic"}

ServiceTypeOK ==
    /\ serviceStatus \in {"idle", "starting", "started", "stopping", "fatal"}
    /\ instance \in Instances \cup {None} /\ serviceAccess \in Callers \cup {None}
    /\ pc \in [Callers -> {"idle", "reload", "close", "created", "starting", "failed"}]
    /\ own \in [Callers -> Instances \cup {None}]
    /\ created \in 0..MaxInstances /\ lateError \in BOOLEAN

InstanceTypeOK ==
    /\ closed \in [Instances -> BOOLEAN] /\ cancelled \in [Instances -> BOOLEAN]
    /\ closeDone \in [Instances -> BOOLEAN] /\ closeErr \in [Instances -> BOOLEAN]

BoxTypeOK ==
    /\ done \in [Instances -> BOOLEAN] /\ crashed \in BOOLEAN
    /\ at \in [Instances -> [start : StartLabels, close : CloseLabels]]
    /\ pos \in [Instances -> 1..Len(Script)]
    /\ started \in [Instances -> [Managers -> BOOLEAN]]
    /\ listed \in [Instances -> [Managers -> BOOLEAN]]
    /\ item \in [Instances -> [Managers -> {"new", "open", "closed"}]]
    /\ early \in [Instances -> BOOLEAN]

\* Types: a Start that goes on stays within the calls Box.start makes.
TypeOK == ServiceTypeOK /\ InstanceTypeOK /\ BoxTypeOK

\* The handlers that look at serviceStatus under serviceAccess use s.instance without
\* a test for nil: whoever starts, replaces, closes or fails at the same time, there
\* is an instance while the status says starting or started.
RunningHasInstance ==
    serviceAccess = None /\ serviceStatus \in {"starting", "started"} => instance # None

\* STARTED is true: the instance has been started to the last stage, nobody has begun
\* to close it, and what it listens on is open.
StartedIsRunning ==
    serviceStatus = "started" =>
        /\ at[instance].start = "ok" /\ ~closed[instance]
        /\ \A m \in Managers : item[instance][m] = "open"

\* No instance is forgotten: it is the service's, or is closed, or a caller is about
\* to close it, and an idle service has none; unless SetError came while an instance
\* was being closed, which lets a second caller in.
NoOrphan ==
    lateError
    \/ /\ serviceStatus = "idle" => instance = None
       /\ \A i \in 1..created :
            closed[i] \/ i = instance \/ \E c \in Callers : own[c] = i /\ pc[c] \in {"reload", "close", "failed"}

\* When Instance.Close has returned no inbound listens any more and none will, though
\* Start may still be under way; unless Close came to the manager before its first
\* Start, or Start has failed and is closing the Box itself, for which Close does not
\* wait.
InboundsReleased ==
    \A i \in Instances :
        closeDone[i] /\ ~early[i] /\ at[i].start \notin {"service", "inbound"} =>
            item[i]["inbound"] # "open"

Closing(c) == pc[c] \in {"reload", "close", "failed"}

\* Whoever closes an instance comes to an end, though the inbound manager's Start may
\* wait with lifecycle held, for something that only the context can end.
CloseEnds == \A c \in Callers : Closing(c) ~> ~Closing(c) \/ crashed
=============================================================================

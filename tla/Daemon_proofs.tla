--------------------------- MODULE Daemon_proofs ----------------------------
(* The safety properties of Daemon, for any number of callers and instances.  *)
EXTENDS Daemon, TLAPS

\* First-order leaves go to Zenon; a leaf that needs arithmetic or records says SMT.
USE Zenon

-----------------------------------------------------------------------------
(* The inductive invariant.                                                   *)

Made == 1..created

ClosingBox == {"service", "inbound"}

\* The Box of an instance that nobody has begun to close: only Start has touched it.
Untouched(i) ==
    /\ at[i].start \in {"no", "call", "item", "ok", "check", "mark"} => ~done[i]
    /\ at[i].start \in {"no", "call", "item", "ok"} => \A m \in Managers : listed[i][m]
    /\ at[i].start = "ok" => \A m \in Managers : item[i][m] = "open"
    /\ at[i].start \in {"call", "item"} =>
         /\ pos[i] > 3 => item[i]["inbound"] = "open"
         /\ pos[i] > 4 => item[i]["service"] = "open"

\* Whoever has marked the Box as done has closed its inbounds, or will.
Released(i) ==
    /\ ~listed[i]["inbound"] => item[i]["inbound"] = "closed" /\ LifecycleFree(i)
    /\ done[i] /\ at[i].start \notin ClosingBox /\ at[i].close \notin ClosingBox =>
         early[i] \/ ~listed[i]["inbound"]

BoxInv(i) ==
    /\ at[i].close # "no" => closed[i]
    /\ closeDone[i] => at[i].close = "returned" /\ done[i]
    /\ at[i].start \in ClosingBox \/ at[i].close \in ClosingBox => done[i]
    /\ at[i].start = "no" => pos[i] = 1
    /\ ~closed[i] => Untouched(i)
    /\ Released(i)

\* Every caller has an instance of its own to start; nobody closes the service's.
CallerInv(c) ==
    /\ pc[c] # "idle" => own[c] \in Made
    /\ Closing(c) => own[c] # instance
    /\ pc[c] = "failed" => serviceAccess = c /\ serviceStatus = "starting" /\ instance = None
    /\ pc[c] = "created" =>
         /\ at[own[c]].start = "no"
         /\ \A d \in Callers \ {c} : pc[d] = "created" => own[d] # own[c]

ServiceInv ==
    /\ \A c \in Callers : CallerInv(c)
    /\ instance # None => instance \in Made /\ ~closed[instance]
    /\ serviceStatus = "stopping" => instance = None
    /\ serviceStatus = "started" => instance # None /\ at[instance].start = "ok"
    /\ RunningHasInstance
    /\ \A i \in Instances \ Made : ~closed[i] /\ at[i].start = "no"

Retiring(c) == pc[c] \in {"reload", "close"}

\* Until SetError interferes one caller at a time closes an instance, and the status
\* tells the others so.
OrphanInv ==
    \/ lateError
    \/ /\ \A c \in Callers : Retiring(c) => serviceStatus = "stopping"
       /\ \A c, d \in Callers : Retiring(c) /\ Retiring(d) => c = d
       /\ NoOrphan

IndInv == TypeOK /\ ServiceInv /\ OrphanInv /\ \A i \in Instances : BoxInv(i)

LEMMA ScriptFacts ==
    /\ Len(Script) = 6
    /\ Script[1][1] = "inbound" /\ Script[2][1] = "service" /\ Script[3][1] = "inbound"
    /\ Script[4][1] = "service" /\ Script[5][1] = "inbound" /\ Script[6][1] = "service"
    /\ Script[1][2] = "initialize" /\ Script[2][2] = "initialize" /\ Script[3][2] = "start"
    /\ Script[4][2] = "start" /\ Script[5][2] = "postStart" /\ Script[6][2] = "postStart"
BY SMT DEF Script

LEMMA ManagerType == ASSUME TypeOK, NEW i \in Instances PROVE Manager(i) \in Managers
<1>1. pos[i] \in 1..6
  BY ScriptFacts DEF TypeOK, BoxTypeOK
<1>2. pos[i] = 1 \/ pos[i] = 2 \/ pos[i] = 3 \/ pos[i] = 4 \/ pos[i] = 5 \/ pos[i] = 6
  BY <1>1, SMT
<1> QED
  BY <1>2, ScriptFacts DEF Manager, Managers

\* An instance that is made is the next one.
LEMMA NextMade ==
    ASSUME TypeOK, created < MaxInstances
    PROVE  /\ created + 1 \in 0..MaxInstances /\ created + 1 \in Instances /\ created + 1 # None
           /\ created + 1 \notin Made /\ 1..(created + 1) = Made \cup {created + 1}
BY BoundAssumption, NoneAssumption, SMT DEF TypeOK, ServiceTypeOK, Instances, Made

LEMMA MadeInstances ==
    ASSUME TypeOK PROVE Made \subseteq Instances /\ None \notin Instances /\ None \notin Callers
BY BoundAssumption, NoneAssumption, SMT DEF TypeOK, ServiceTypeOK, Instances, Made

LEMMA IndInvInit == Init => IndInv
<1> SUFFICES ASSUME Init PROVE IndInv
  OBVIOUS
<1>1. ServiceTypeOK
  <2>1. 0 \in 0..MaxInstances
    BY BoundAssumption, SMT
  <2> QED
    BY <2>1 DEF Init, ServiceTypeOK
<1>2. InstanceTypeOK
  BY DEF Init, InstanceTypeOK, All
<1>3. BoxTypeOK
  <2>1. 1 \in 1..Len(Script)
    BY ScriptFacts, SMT
  <2>2. [start |-> "no", close |-> "no"] \in [start : StartLabels, close : CloseLabels]
    BY SMT DEF StartLabels, CloseLabels, Labels
  <2> QED
    BY <2>1, <2>2 DEF Init, BoxTypeOK, All
<1>4. Made = {}
  BY SMT DEF Init, Made
<1>5. \A i \in Instances : at[i].start = "no" /\ at[i].close = "no"
  BY SMT DEF Init, All
<1>6. ServiceInv
  BY <1>4, <1>5 DEF Init, All, ServiceInv, CallerInv, Closing, RunningHasInstance
<1>7. OrphanInv
  BY <1>4 DEF Init, OrphanInv, Retiring, NoOrphan, Made
<1>8. ASSUME NEW i \in Instances PROVE BoxInv(i)
  <2>1. /\ ~closeDone[i] /\ ~done[i] /\ pos[i] = 1
        /\ \A m \in Managers : listed[i][m] /\ item[i][m] = "new"
    BY DEF Init, All
  <2>2. listed[i]["inbound"]
    BY <2>1 DEF Managers
  <2> QED
    BY <1>5, <2>1, <2>2 DEF BoxInv, Untouched, Released, ClosingBox
<1> QED
  BY <1>1, <1>2, <1>3, <1>6, <1>7, <1>8 DEF IndInv, TypeOK

-----------------------------------------------------------------------------
(* Steps of the callers.                                                      *)

LEMMA BoxKept ==
    ASSUME IndInv, UNCHANGED <<instanceVars, boxVars>>
    PROVE  InstanceTypeOK' /\ BoxTypeOK' /\ \A i \in Instances : BoxInv(i)'
<1>1. InstanceTypeOK' /\ BoxTypeOK'
  BY DEF IndInv, TypeOK, InstanceTypeOK, BoxTypeOK, instanceVars, boxVars, managerVars
<1>2. ASSUME NEW i \in Instances PROVE BoxInv(i)'
  <2>1. BoxInv(i)
    BY DEF IndInv
  <2> QED
    BY <2>1 DEF BoxInv, Untouched, Released, LifecycleFree, Manager, instanceVars, boxVars, managerVars
<1> QED
  BY <1>1, <1>2

LEMMA GotoFacts ==
    ASSUME ServiceTypeOK, NEW c \in Callers, NEW i \in Instances \cup {None},
           NEW label \in {"idle", "reload", "close", "created", "starting", "failed"}, Goto(c, label, i)
    PROVE  /\ pc' \in [Callers -> {"idle", "reload", "close", "created", "starting", "failed"}]
           /\ own' \in [Callers -> Instances \cup {None}]
           /\ pc'[c] = label /\ own'[c] = i
           /\ \A d \in Callers : d # c => pc'[d] = pc[d] /\ own'[d] = own[d]
BY DEF Goto, ServiceTypeOK

\* A caller takes the instance out of the service.
LEMMA RetireInv ==
    ASSUME IndInv, NEW c \in Callers, NEW label \in {"reload", "close"}, Enter(c, "idle"),
           serviceStatus # "stopping", Retire(c, label),
           UNCHANGED <<serviceAccess, lateError, instanceVars, boxVars>>
    PROVE  ServiceTypeOK' /\ ServiceInv' /\ OrphanInv'
<1>1. /\ ServiceTypeOK /\ ServiceInv /\ OrphanInv /\ Made \subseteq Instances
      /\ None \notin Instances /\ None \notin Callers
  BY MadeInstances DEF IndInv, TypeOK
<1>2. /\ serviceAccess = None /\ pc[c] = "idle" /\ instance # None /\ instance \in Made
      /\ serviceStatus' = "stopping" /\ instance' = None /\ Goto(c, label, instance)
      /\ UNCHANGED <<created, serviceAccess, lateError, closed, at>> /\ Made' = Made
  BY <1>1 DEF Enter, Retire, ServiceInv, instanceVars, boxVars, Made
<1>3. /\ pc' \in [Callers -> {"idle", "reload", "close", "created", "starting", "failed"}]
      /\ own' \in [Callers -> Instances \cup {None}]
      /\ pc'[c] = label /\ own'[c] = instance
      /\ \A d \in Callers : d # c => pc'[d] = pc[d] /\ own'[d] = own[d]
  BY <1>1, <1>2, GotoFacts
<1>4. ServiceTypeOK'
  BY <1>1, <1>2, <1>3 DEF ServiceTypeOK
<1>5. ASSUME NEW d \in Callers PROVE CallerInv(d)'
  <2>1. CallerInv(d)
    BY <1>1 DEF ServiceInv
  <2>2. CASE d = c
    BY <1>1, <1>2, <1>3, <2>2 DEF CallerInv, Closing
  <2>3. CASE d # c
    BY <1>1, <1>2, <1>3, <2>1, <2>3 DEF CallerInv, Closing
  <2> QED
    BY <2>2, <2>3
<1>6. ServiceInv'
  BY <1>1, <1>2, <1>5 DEF ServiceInv, RunningHasInstance
<1>7. OrphanInv'
  <2>0. CASE lateError
    BY <1>2, <2>0 DEF OrphanInv
  <2>1. SUFFICES ASSUME ~lateError PROVE OrphanInv'
    BY <2>0
  <2>2. NoOrphan /\ \A d \in Callers : ~Retiring(d)
    BY <1>1, <2>1 DEF OrphanInv
  <2>3. \A d, e \in Callers : Retiring(d)' /\ Retiring(e)' => d = e
    BY <1>3, <2>2 DEF Retiring
  <2>4. ASSUME NEW i \in Made
        PROVE  closed[i] \/ \E d \in Callers : own'[d] = i /\ pc'[d] \in {"reload", "close", "failed"}
    <3>1. CASE i = instance
      BY <1>3, <3>1
    <3>2. CASE \E d \in Callers : own[d] = i /\ pc[d] \in {"reload", "close", "failed"}
      <4>1. PICK d \in Callers : own[d] = i /\ pc[d] \in {"reload", "close", "failed"}
        BY <3>2
      <4>2. d # c
        BY <1>2, <4>1
      <4> QED
        BY <1>3, <4>1, <4>2
    <3> QED
      BY <2>1, <2>2, <3>1, <3>2 DEF NoOrphan, Made
  <2>5. NoOrphan'
    BY <1>2, <2>4 DEF NoOrphan, Made
  <2> QED
    BY <1>2, <2>3, <2>5 DEF OrphanInv
<1> QED
  BY <1>4, <1>6, <1>7

\* A caller is done with an instance that is closed, or had none.
LEMMA ReturnInv ==
    ASSUME IndInv, NEW c \in Callers, serviceAccess = None, Return(c),
           serviceStatus' \in {"fatal", "idle"},
           UNCHANGED <<instance, created, serviceAccess, lateError, instanceVars, boxVars>>,
           pc[c] = "idle" \/ closed[own[c]],
           lateError \/ (instance = None /\ \A d \in Callers \ {c} : ~Retiring(d))
    PROVE  ServiceTypeOK' /\ ServiceInv' /\ OrphanInv'
<1>1. /\ ServiceTypeOK /\ ServiceInv /\ OrphanInv /\ Made \subseteq Instances
      /\ None \notin Instances /\ None \notin Callers
  BY MadeInstances DEF IndInv, TypeOK
<1>2. UNCHANGED <<instance, created, serviceAccess, lateError, closed, at>> /\ Made' = Made
  BY DEF instanceVars, boxVars, Made
<1>3. /\ pc' \in [Callers -> {"idle", "reload", "close", "created", "starting", "failed"}]
      /\ own' \in [Callers -> Instances \cup {None}]
      /\ pc'[c] = "idle" /\ own'[c] = None
      /\ \A d \in Callers : d # c => pc'[d] = pc[d] /\ own'[d] = own[d]
  BY <1>1, GotoFacts DEF Return
<1>4. ServiceTypeOK'
  BY <1>1, <1>2, <1>3 DEF ServiceTypeOK
<1>5. ASSUME NEW d \in Callers PROVE CallerInv(d)'
  <2>1. CallerInv(d)
    BY <1>1 DEF ServiceInv
  <2>2. CASE d = c
    BY <1>3, <2>2 DEF CallerInv, Closing
  <2>3. CASE d # c
    BY <1>1, <1>2, <1>3, <2>1, <2>3 DEF CallerInv, Closing
  <2> QED
    BY <2>2, <2>3
<1>6. ServiceInv'
  BY <1>1, <1>2, <1>5 DEF ServiceInv, RunningHasInstance
<1>7. OrphanInv'
  <2>0. CASE lateError
    BY <1>2, <2>0 DEF OrphanInv
  <2>1. SUFFICES ASSUME ~lateError PROVE OrphanInv'
    BY <2>0
  <2>2. NoOrphan /\ instance = None /\ \A d \in Callers \ {c} : ~Retiring(d)
    BY <1>1, <2>1 DEF OrphanInv
  <2>3. \A d \in Callers : ~Retiring(d)'
    BY <1>3, <2>2 DEF Retiring
  <2>4. ASSUME NEW i \in Made
        PROVE  closed[i] \/ \E d \in Callers : own'[d] = i /\ pc'[d] \in {"reload", "close", "failed"}
    <3>1. i # None
      BY <1>1
    <3>2. CASE \E d \in Callers : own[d] = i /\ pc[d] \in {"reload", "close", "failed"}
      <4>1. PICK d \in Callers : own[d] = i /\ pc[d] \in {"reload", "close", "failed"}
        BY <3>2
      <4>2. CASE d = c
        BY <4>1, <4>2
      <4>3. CASE d # c
        BY <1>3, <4>1, <4>3
      <4> QED
        BY <4>2, <4>3
    <3> QED
      BY <2>1, <2>2, <3>1, <3>2 DEF NoOrphan, Made
  <2>5. NoOrphan'
    BY <1>2, <2>2, <2>4 DEF NoOrphan, Made
  <2> QED
    BY <2>3, <2>5 DEF OrphanInv
<1> QED
  BY <1>4, <1>6, <1>7

\* A caller makes an instance, or fails to.
LEMMA CreateInv ==
    ASSUME IndInv, NEW c \in Callers, serviceAccess = None, Create(c),
           UNCHANGED <<serviceAccess, lateError, instanceVars, boxVars>>,
           pc[c] = "idle" \/ closed[own[c]],
           lateError \/ (instance = None /\ \A d \in Callers \ {c} : ~Retiring(d))
    PROVE  ServiceTypeOK' /\ ServiceInv' /\ OrphanInv'
<1>1. CASE serviceStatus' = "fatal" /\ Return(c) /\ UNCHANGED <<instance, created>>
  BY <1>1, ReturnInv
<1>2. CASE /\ created < MaxInstances /\ created' = created + 1
           /\ serviceStatus' = "starting" /\ instance' = created + 1
           /\ Goto(c, "created", created + 1)
  <2>1. /\ TypeOK /\ ServiceTypeOK /\ ServiceInv /\ OrphanInv /\ Made \subseteq Instances
        /\ None \notin Instances /\ None \notin Callers
    BY MadeInstances DEF IndInv, TypeOK
  <2>2. /\ created + 1 \in 0..MaxInstances /\ created + 1 \in Instances /\ created + 1 # None
        /\ created + 1 \notin Made /\ Made' = Made \cup {created + 1}
    BY <1>2, <2>1, NextMade DEF Made
  <2>3. /\ pc' \in [Callers -> {"idle", "reload", "close", "created", "starting", "failed"}]
        /\ own' \in [Callers -> Instances \cup {None}]
        /\ pc'[c] = "created" /\ own'[c] = created + 1
        /\ \A d \in Callers : d # c => pc'[d] = pc[d] /\ own'[d] = own[d]
    BY <1>2, <2>1, <2>2, GotoFacts
  <2>4. UNCHANGED <<serviceAccess, lateError, closed, at>>
    BY DEF instanceVars, boxVars
  <2>5. ServiceTypeOK'
    BY <1>2, <2>1, <2>2, <2>3, <2>4 DEF ServiceTypeOK
  <2>6. ASSUME NEW d \in Callers PROVE CallerInv(d)'
    <3>1. \A e \in Callers : CallerInv(e)
      BY <2>1 DEF ServiceInv
    <3>2. \A e \in Callers : pc[e] # "idle" => own[e] \in Made /\ own[e] # created + 1
      BY <2>2, <3>1 DEF CallerInv
    <3>3. CASE d = c
      <4>1. at[created + 1].start = "no"
        BY <2>1, <2>2 DEF ServiceInv
      <4> QED
        BY <2>2, <2>3, <2>4, <3>2, <3>3, <4>1 DEF CallerInv, Closing
    <3>4. CASE d # c
      <4>1. CallerInv(d)
        BY <3>1
      <4>2. pc'[d] = pc[d] /\ own'[d] = own[d] /\ pc[d] # "failed"
        BY <2>1, <2>3, <3>4, <4>1 DEF CallerInv
      <4>3. pc[d] = "created" =>
              /\ at'[own'[d]].start = "no"
              /\ \A e \in Callers \ {d} : pc'[e] = "created" => own'[e] # own'[d]
        <5>1. pc[d] = "created" => /\ at[own[d]].start = "no" /\ own[d] # created + 1
                                   /\ \A e \in Callers \ {d} : pc[e] = "created" => own[e] # own[d]
          BY <3>2, <4>1 DEF CallerInv
        <5>2. \A e \in Callers : e = c \/ (pc'[e] = pc[e] /\ own'[e] = own[e])
          BY <2>3
        <5>3. own'[c] = created + 1
          BY <2>3
        <5> QED
          BY <2>4, <4>2, <5>1, <5>2, <5>3
      <4> QED
        BY <1>2, <2>2, <3>2, <4>2, <4>3 DEF CallerInv, Closing
    <3> QED
      BY <3>3, <3>4
  <2>7. ServiceInv'
    <3>1. ~closed[created + 1] /\ \A i \in Instances \ Made' : ~closed[i] /\ at[i].start = "no"
      BY <2>1, <2>2 DEF ServiceInv
    <3> QED
      BY <1>2, <2>2, <2>4, <2>6, <3>1 DEF ServiceInv, RunningHasInstance
  <2>8. OrphanInv'
    <3>0. CASE lateError
      BY <2>4, <3>0 DEF OrphanInv
    <3>1. SUFFICES ASSUME ~lateError PROVE OrphanInv'
      BY <3>0
    <3>2. NoOrphan /\ instance = None /\ \A d \in Callers \ {c} : ~Retiring(d)
      BY <2>1, <3>1 DEF OrphanInv
    <3>3. \A d \in Callers : ~Retiring(d)'
      BY <2>3, <3>2 DEF Retiring
    <3>4. ASSUME NEW i \in Made
          PROVE  closed[i] \/ \E d \in Callers : own'[d] = i /\ pc'[d] \in {"reload", "close", "failed"}
      <4>1. i # None
        BY <2>1
      <4>2. CASE \E d \in Callers : own[d] = i /\ pc[d] \in {"reload", "close", "failed"}
        <5>1. PICK d \in Callers : own[d] = i /\ pc[d] \in {"reload", "close", "failed"}
          BY <4>2
        <5>2. CASE d = c
          BY <5>1, <5>2
        <5>3. CASE d # c
          BY <2>3, <5>1, <5>3
        <5> QED
          BY <5>2, <5>3
      <4> QED
        BY <3>1, <3>2, <4>1, <4>2 DEF NoOrphan, Made
    <3>5. \A i \in Made' : closed[i] \/ i = instance'
                          \/ \E d \in Callers : own'[d] = i /\ pc'[d] \in {"reload", "close", "failed"}
      BY <1>2, <2>2, <3>4
    <3>6. NoOrphan'
      BY <1>2, <2>4, <3>5 DEF NoOrphan, Made
    <3> QED
      BY <3>3, <3>6 DEF OrphanInv
  <2> QED
    BY <2>5, <2>7, <2>8
<1> QED
  BY <1>1, <1>2 DEF Create

\* An instance that Close has returned for is closed.
LEMMA DoneIsClosed == ASSUME IndInv, NEW i \in Instances, closeDone[i] PROVE closed[i]
BY DEF IndInv, BoxInv

LEMMA OwnMade ==
    ASSUME IndInv, NEW c \in Callers, pc[c] # "idle" PROVE own[c] \in Made /\ own[c] \in Instances
BY MadeInstances DEF IndInv, ServiceInv, CallerInv

LEMMA StartOrReloadServiceInv ==
    ASSUME IndInv, NEW c \in Callers, StartOrReloadService(c) PROVE IndInv'
<1>1. UNCHANGED <<serviceAccess, lateError, instanceVars, boxVars>> /\ Enter(c, "idle")
  BY DEF StartOrReloadService
<1>2. ServiceTypeOK' /\ ServiceInv' /\ OrphanInv'
  <2>1. CASE instance # None
    <3>1. Retire(c, "reload") /\ serviceStatus # "stopping"
      BY <2>1 DEF StartOrReloadService
    <3> QED
      BY <1>1, <3>1, RetireInv
  <2>2. CASE instance = None
    <3>1. Create(c) /\ serviceStatus # "stopping"
      BY <2>2 DEF StartOrReloadService
    <3>2. lateError \/ \A d \in Callers \ {c} : ~Retiring(d)
      BY <3>1 DEF IndInv, OrphanInv
    <3> QED
      BY <1>1, <2>2, <3>1, <3>2, CreateInv DEF Enter
  <2> QED
    BY <2>1, <2>2
<1> QED
  BY <1>1, <1>2, BoxKept DEF IndInv, TypeOK

LEMMA CloseServiceInv == ASSUME IndInv, NEW c \in Callers, CloseService(c) PROVE IndInv'
<1>1. /\ UNCHANGED <<serviceAccess, lateError, instanceVars, boxVars>> /\ Enter(c, "idle")
      /\ serviceStatus # "stopping" /\ Retire(c, "close")
  BY DEF CloseService
<1> QED
  BY <1>1, RetireInv, BoxKept DEF IndInv, TypeOK

\* While no SetError has interfered, who has closed an instance is alone.
LEMMA RetiringAlone ==
    ASSUME IndInv, NEW c \in Callers, Retiring(c)
    PROVE  lateError \/ (instance = None /\ \A d \in Callers \ {c} : ~Retiring(d))
BY DEF IndInv, OrphanInv, ServiceInv

LEMMA ReloadInv == ASSUME IndInv, NEW c \in Callers, Reload(c) PROVE IndInv'
<1>1. /\ UNCHANGED <<serviceAccess, lateError, instanceVars, boxVars>>
      /\ serviceAccess = None /\ pc[c] = "reload" /\ closeDone[own[c]]
  BY DEF Reload, Enter
<1>2. closed[own[c]]
  BY <1>1, OwnMade, DoneIsClosed
<1>3. lateError \/ (instance = None /\ \A d \in Callers \ {c} : ~Retiring(d))
  BY <1>1, RetiringAlone DEF Retiring
<1>4. ServiceTypeOK' /\ ServiceInv' /\ OrphanInv'
  <2>1. CASE closeErr[own[c]]
    <3>1. serviceStatus' = "fatal" /\ Return(c) /\ UNCHANGED <<instance, created>>
      BY <2>1 DEF Reload
    <3> QED
      BY <1>1, <1>2, <1>3, <3>1, ReturnInv
  <2>2. CASE ~closeErr[own[c]]
    <3>1. Create(c)
      BY <2>2 DEF Reload
    <3> QED
      BY <1>1, <1>2, <1>3, <3>1, CreateInv
  <2> QED
    BY <2>1, <2>2
<1> QED
  BY <1>1, <1>4, BoxKept DEF IndInv, TypeOK

LEMMA CloseServiceDoneInv == ASSUME IndInv, NEW c \in Callers, CloseServiceDone(c) PROVE IndInv'
<1>1. /\ UNCHANGED <<instance, created, serviceAccess, lateError, instanceVars, boxVars>>
      /\ serviceAccess = None /\ pc[c] = "close" /\ closeDone[own[c]]
      /\ serviceStatus' \in {"fatal", "idle"} /\ Return(c)
  BY DEF CloseServiceDone, Enter
<1>2. closed[own[c]]
  BY <1>1, OwnMade, DoneIsClosed
<1>3. lateError \/ (instance = None /\ \A d \in Callers \ {c} : ~Retiring(d))
  BY <1>1, RetiringAlone DEF Retiring
<1> QED
  BY <1>1, <1>2, <1>3, ReturnInv, BoxKept DEF IndInv, TypeOK

LEMMA SetErrorInv == ASSUME IndInv, SetError PROVE IndInv'
<1>1. /\ ServiceTypeOK /\ ServiceInv /\ OrphanInv /\ None \notin Callers
      /\ UNCHANGED <<instance, serviceAccess, pc, own, created, instanceVars, boxVars>>
      /\ serviceAccess = None /\ serviceStatus' = "fatal"
      /\ lateError' = (lateError \/ serviceStatus = "stopping")
  BY MadeInstances DEF SetError, IndInv, TypeOK
<1>2. UNCHANGED <<instance, serviceAccess, pc, own, created, closed, at>> /\ Made' = Made
  BY <1>1 DEF instanceVars, boxVars, Made
<1>3. ServiceTypeOK'
  <2>1. lateError' \in BOOLEAN
    BY <1>1
  <2> QED
    BY <1>1, <2>1 DEF ServiceTypeOK
<1>4. ASSUME NEW c \in Callers PROVE CallerInv(c)'
  <2>1. CallerInv(c) /\ pc[c] # "failed"
    BY <1>1 DEF ServiceInv, CallerInv
  <2> QED
    BY <1>2, <2>1 DEF CallerInv, Closing
<1>5. ServiceInv'
  BY <1>1, <1>2, <1>4 DEF ServiceInv, RunningHasInstance
<1>6. OrphanInv'
  <2>0. CASE lateError \/ serviceStatus = "stopping"
    BY <1>1, <2>0 DEF OrphanInv
  <2>1. SUFFICES ASSUME ~lateError, serviceStatus # "stopping" PROVE OrphanInv'
    BY <2>0
  <2>2. NoOrphan /\ \A d \in Callers : ~Retiring(d)
    BY <1>1, <2>1 DEF OrphanInv
  <2>3. NoOrphan' /\ \A d \in Callers : ~Retiring(d)'
    BY <1>1, <1>2, <2>1, <2>2 DEF NoOrphan, Retiring
  <2> QED
    BY <2>3 DEF OrphanInv
<1> QED
  BY <1>1, <1>3, <1>5, <1>6, BoxKept DEF IndInv, TypeOK

LEMMA StartReturnsInv == ASSUME IndInv, NEW c \in Callers, StartReturns(c) PROVE IndInv'
<1>1. /\ ServiceTypeOK /\ ServiceInv /\ OrphanInv /\ Made \subseteq Instances
      /\ None \notin Instances /\ None \notin Callers
      /\ pc[c] = "starting" /\ serviceAccess = None /\ own[c] \in Made /\ own[c] # None
      /\ UNCHANGED <<created, lateError, instanceVars, boxVars>>
  BY MadeInstances, OwnMade DEF StartReturns, Enter, IndInv, TypeOK
<1>2. UNCHANGED <<created, lateError, closed, at>> /\ Made' = Made
  BY <1>1 DEF instanceVars, boxVars, Made
<1>3. \A d \in Callers : CallerInv(d) /\ pc[d] # "failed"
  BY <1>1 DEF ServiceInv, CallerInv
<1>4. ASSUME NEW label \in {"idle", "failed"}, NEW i \in Instances \cup {None}, Goto(c, label, i),
             serviceStatus' = serviceStatus \/ (serviceStatus' = "started" /\ StillStarting(c)),
             instance' = instance \/ (label = "failed" /\ instance' = None /\ i = instance),
             serviceAccess' \in Callers \cup {None},
             label = "failed" => /\ serviceAccess' = c /\ serviceStatus' = "starting" /\ instance' = None
                                 /\ i \in Made
      PROVE  ServiceTypeOK' /\ (\A d \in Callers : CallerInv(d)') /\ OrphanInv'
  <2>1. /\ pc' \in [Callers -> {"idle", "reload", "close", "created", "starting", "failed"}]
        /\ own' \in [Callers -> Instances \cup {None}]
        /\ pc'[c] = label /\ own'[c] = i
        /\ \A d \in Callers : d # c => pc'[d] = pc[d] /\ own'[d] = own[d]
    <3>1. /\ ServiceTypeOK /\ Goto(c, label, i)
          /\ label \in {"idle", "reload", "close", "created", "starting", "failed"}
      BY <1>1, <1>4
    <3> QED
      BY <3>1, GotoFacts
  <2>2. ServiceTypeOK'
    BY <1>1, <1>2, <1>4, <2>1 DEF ServiceTypeOK
  <2>3. ASSUME NEW d \in Callers PROVE CallerInv(d)'
    <3>1. CASE d = c
      BY <1>1, <1>2, <1>4, <2>1, <3>1 DEF CallerInv, Closing
    <3>2. CASE d # c
      <4>1. /\ pc'[d] = pc[d] /\ own'[d] = own[d] /\ pc[d] # "failed"
            /\ pc[d] # "idle" => own[d] \in Made
        BY <1>3, <2>1, <3>2 DEF CallerInv
      <4>2. Closing(d)' => own'[d] # instance'
        BY <1>1, <1>3, <1>4, <4>1 DEF CallerInv, Closing
      <4>3. pc'[d] = "created" =>
              /\ at'[own'[d]].start = "no"
              /\ \A e \in Callers \ {d} : pc'[e] = "created" => own'[e] # own'[d]
        <5>1. pc[d] = "created" => /\ at[own[d]].start = "no"
                                   /\ \A e \in Callers \ {d} : pc[e] = "created" => own[e] # own[d]
          BY <1>3 DEF CallerInv
        <5>2. \A e \in Callers : pc'[e] = "created" => pc[e] = "created" /\ own'[e] = own[e]
          BY <2>1
        <5> QED
          BY <1>2, <4>1, <5>1, <5>2
      <4> QED
        BY <1>2, <4>1, <4>2, <4>3 DEF CallerInv
    <3> QED
      BY <3>1, <3>2
  <2>4. OrphanInv'
    <3>0. CASE lateError
      BY <1>2, <3>0 DEF OrphanInv
    <3>1. SUFFICES ASSUME ~lateError PROVE OrphanInv'
      BY <3>0
    <3>2. /\ NoOrphan
          /\ \A d \in Callers : Retiring(d) => serviceStatus = "stopping"
          /\ \A d, e \in Callers : Retiring(d) /\ Retiring(e) => d = e
      BY <1>1, <3>1 DEF OrphanInv
    <3>3. \A d \in Callers : Retiring(d)' => Retiring(d)
      BY <2>1 DEF Retiring
    <3>4. \A d \in Callers : Retiring(d)' => serviceStatus' = "stopping"
      BY <1>4, <3>2, <3>3 DEF StillStarting
    <3>5. ASSUME NEW j \in Made
          PROVE  closed[j] \/ j = instance' \/ \E d \in Callers : own'[d] = j /\ pc'[d] \in {"reload", "close", "failed"}
      <4>1. CASE j = instance
        BY <1>4, <2>1, <4>1
      <4>2. CASE \E d \in Callers : own[d] = j /\ pc[d] \in {"reload", "close", "failed"}
        <5>1. PICK d \in Callers : own[d] = j /\ pc[d] \in {"reload", "close", "failed"}
          BY <4>2
        <5>2. d # c
          BY <1>1, <5>1
        <5> QED
          BY <2>1, <5>1, <5>2
      <4> QED
        BY <3>1, <3>2, <4>1, <4>2 DEF NoOrphan, Made
    <3>6. serviceStatus' = "idle" => instance' = None
      BY <1>4, <3>1, <3>2 DEF NoOrphan
    <3>7. NoOrphan'
      BY <1>2, <3>5, <3>6 DEF NoOrphan, Made
    <3> QED
      BY <3>2, <3>3, <3>4, <3>7 DEF OrphanInv
  <2> QED
    BY <2>2, <2>3, <2>4
<1>5. CASE Return(c) /\ UNCHANGED <<serviceStatus, instance, serviceAccess>>
  <2>1. ServiceTypeOK' /\ (\A d \in Callers : CallerInv(d)') /\ OrphanInv'
    BY <1>1, <1>4, <1>5 DEF Return
  <2>2. ServiceInv'
    BY <1>1, <1>2, <1>5, <2>1 DEF ServiceInv, RunningHasInstance
  <2> QED
    BY <1>1, <2>1, <2>2, BoxKept DEF IndInv, TypeOK
<1>6. CASE /\ at[own[c]].start = "ok" /\ StillStarting(c) /\ serviceStatus' = "started"
           /\ Return(c) /\ UNCHANGED <<instance, serviceAccess>>
  <2>1. ServiceTypeOK' /\ (\A d \in Callers : CallerInv(d)') /\ OrphanInv'
    BY <1>1, <1>4, <1>6 DEF Return
  <2>2. ServiceInv'
    BY <1>1, <1>2, <1>6, <2>1 DEF ServiceInv, RunningHasInstance, StillStarting
  <2> QED
    BY <1>1, <2>1, <2>2, BoxKept DEF IndInv, TypeOK
<1>7. CASE /\ StillStarting(c) /\ instance' = None /\ serviceAccess' = c
           /\ Goto(c, "failed", own[c]) /\ UNCHANGED serviceStatus
  <2>1. ServiceTypeOK' /\ (\A d \in Callers : CallerInv(d)') /\ OrphanInv'
    BY <1>1, <1>4, <1>7 DEF StillStarting
  <2>2. ServiceInv'
    BY <1>1, <1>2, <1>7, <2>1 DEF ServiceInv, RunningHasInstance, StillStarting
  <2> QED
    BY <1>1, <2>1, <2>2, BoxKept DEF IndInv, TypeOK
<1> QED
  BY <1>5, <1>6, <1>7 DEF StartReturns

LEMMA StartFailedInv == ASSUME IndInv, NEW c \in Callers, StartFailed(c) PROVE IndInv'
<1>1. /\ ServiceTypeOK /\ ServiceInv /\ OrphanInv /\ Made \subseteq Instances
      /\ None \notin Instances /\ None \notin Callers
      /\ pc[c] = "failed" /\ closed[own[c]]
      /\ serviceStatus' = "fatal" /\ serviceAccess' = None /\ Return(c)
      /\ UNCHANGED <<instance, created, lateError, instanceVars, boxVars>>
  BY MadeInstances, OwnMade, DoneIsClosed DEF StartFailed, IndInv, TypeOK
<1>2. UNCHANGED <<instance, created, lateError, closed, at>> /\ Made' = Made
  BY <1>1 DEF instanceVars, boxVars, Made
<1>3. serviceAccess = c /\ serviceStatus = "starting" /\ instance = None
  BY <1>1 DEF ServiceInv, CallerInv
<1>4. /\ pc' \in [Callers -> {"idle", "reload", "close", "created", "starting", "failed"}]
      /\ own' \in [Callers -> Instances \cup {None}]
      /\ pc'[c] = "idle" /\ own'[c] = None
      /\ \A d \in Callers : d # c => pc'[d] = pc[d] /\ own'[d] = own[d]
  BY <1>1, GotoFacts DEF Return
<1>5. ServiceTypeOK'
  BY <1>1, <1>2, <1>4 DEF ServiceTypeOK
<1>6. ASSUME NEW d \in Callers PROVE CallerInv(d)'
  <2>1. CASE d = c
    BY <1>4, <2>1 DEF CallerInv, Closing
  <2>2. CASE d # c
    <3>1. CallerInv(d) /\ pc[d] # "failed" /\ pc'[d] = pc[d] /\ own'[d] = own[d]
      BY <1>1, <1>3, <1>4, <2>2 DEF ServiceInv, CallerInv
    <3> QED
      BY <1>2, <1>4, <3>1 DEF CallerInv, Closing
  <2> QED
    BY <2>1, <2>2
<1>7. ServiceInv'
  BY <1>1, <1>2, <1>6 DEF ServiceInv, RunningHasInstance
<1>8. OrphanInv'
  <2>0. CASE lateError
    BY <1>2, <2>0 DEF OrphanInv
  <2>1. SUFFICES ASSUME ~lateError PROVE OrphanInv'
    BY <2>0
  <2>2. NoOrphan /\ \A d \in Callers : ~Retiring(d)
    BY <1>1, <1>3, <2>1 DEF OrphanInv
  <2>3. \A d \in Callers : ~Retiring(d)'
    BY <1>4, <2>2 DEF Retiring
  <2>4. ASSUME NEW i \in Made
        PROVE  closed[i] \/ \E d \in Callers : own'[d] = i /\ pc'[d] \in {"reload", "close", "failed"}
    <3>1. i # None
      BY <1>1
    <3>2. CASE \E d \in Callers : own[d] = i /\ pc[d] \in {"reload", "close", "failed"}
      <4>1. PICK d \in Callers : own[d] = i /\ pc[d] \in {"reload", "close", "failed"}
        BY <3>2
      <4>2. CASE d = c
        BY <1>1, <4>1, <4>2
      <4>3. CASE d # c
        BY <1>4, <4>1, <4>3
      <4> QED
        BY <4>2, <4>3
    <3> QED
      BY <1>3, <2>1, <2>2, <3>1, <3>2 DEF NoOrphan, Made
  <2>5. NoOrphan'
    BY <1>1, <1>2, <2>4 DEF NoOrphan, Made
  <2> QED
    BY <2>3, <2>5 DEF OrphanInv
<1> QED
  BY <1>1, <1>5, <1>7, <1>8, BoxKept DEF IndInv, TypeOK

-----------------------------------------------------------------------------
(* Steps of an instance and of its Box.                                       *)

LEMMA AtStart ==
    ASSUME BoxTypeOK, NEW i \in Instances, NEW v \in StartLabels, at' = [at EXCEPT ![i].start = v]
    PROVE  /\ at' \in [Instances -> [start : StartLabels, close : CloseLabels]]
           /\ at'[i].start = v /\ at'[i].close = at[i].close
           /\ \A j \in Instances : j # i => at'[j] = at[j]
<1>1. at \in [Instances -> [start : StartLabels, close : CloseLabels]]
  BY DEF BoxTypeOK
<1>2. at[i] \in [start : StartLabels, close : CloseLabels]
  BY <1>1
<1>3. /\ [at[i] EXCEPT !.start = v] \in [start : StartLabels, close : CloseLabels]
      /\ [at[i] EXCEPT !.start = v].start = v /\ [at[i] EXCEPT !.start = v].close = at[i].close
  BY <1>2, SMT
<1>4. at' = [at EXCEPT ![i] = [at[i] EXCEPT !.start = v]]
  BY <1>1, <1>2
<1> QED
  BY <1>1, <1>3, <1>4

LEMMA AtClose ==
    ASSUME BoxTypeOK, NEW i \in Instances, NEW v \in CloseLabels, at' = [at EXCEPT ![i].close = v]
    PROVE  /\ at' \in [Instances -> [start : StartLabels, close : CloseLabels]]
           /\ at'[i].close = v /\ at'[i].start = at[i].start
           /\ \A j \in Instances : j # i => at'[j] = at[j]
<1>1. at \in [Instances -> [start : StartLabels, close : CloseLabels]]
  BY DEF BoxTypeOK
<1>2. at[i] \in [start : StartLabels, close : CloseLabels]
  BY <1>1
<1>3. /\ [at[i] EXCEPT !.close = v] \in [start : StartLabels, close : CloseLabels]
      /\ [at[i] EXCEPT !.close = v].close = v /\ [at[i] EXCEPT !.close = v].start = at[i].start
  BY <1>2, SMT
<1>4. at' = [at EXCEPT ![i] = [at[i] EXCEPT !.close = v]]
  BY <1>1, <1>2
<1> QED
  BY <1>1, <1>3, <1>4

\* A step of instance i is none of the others.
LEMMA Elsewhere ==
    ASSUME IndInv, NEW i \in Instances, NEW j \in Instances, j # i,
           at'[j] = at[j], pos'[j] = pos[j], closed'[j] = closed[j], closeDone'[j] = closeDone[j],
           done'[j] = done[j], listed'[j] = listed[j], item'[j] = item[j], early'[j] = early[j]
    PROVE  BoxInv(j)'
<1>1. BoxInv(j)
  BY DEF IndInv
<1> QED
  BY <1>1 DEF BoxInv, Untouched, Released, LifecycleFree, Manager

\* What the callers know of the instances is not changed by a step of a Box.
LEMMA ServiceKept ==
    ASSUME IndInv, UNCHANGED <<serviceVars, closed>>,
           \A j \in Instances : at[j].start \in {"no", "ok"} => at'[j].start = at[j].start
    PROVE  ServiceTypeOK' /\ ServiceInv' /\ OrphanInv'
<1>1. /\ ServiceTypeOK /\ ServiceInv /\ OrphanInv /\ Made \subseteq Instances
      /\ UNCHANGED <<serviceStatus, instance, serviceAccess, pc, own, created, lateError, closed>>
      /\ Made' = Made
  BY MadeInstances DEF IndInv, TypeOK, serviceVars, Made
<1>2. ServiceTypeOK' /\ OrphanInv'
  <2>1. ServiceTypeOK'
    BY <1>1 DEF ServiceTypeOK
  <2>2. NoOrphan => NoOrphan'
    BY <1>1, SMT DEF NoOrphan
  <2>3. \A c \in Callers : Retiring(c)' <=> Retiring(c)
    BY <1>1 DEF Retiring
  <2> QED
    BY <1>1, <2>1, <2>2, <2>3 DEF OrphanInv
<1>3. ASSUME NEW c \in Callers PROVE CallerInv(c)'
  <2>1. CallerInv(c)
    BY <1>1 DEF ServiceInv
  <2> QED
    BY <1>1, <2>1 DEF CallerInv, Closing
<1>4. ServiceInv'
  BY <1>1, <1>3 DEF ServiceInv, RunningHasInstance
<1> QED
  BY <1>2, <1>4

LEMMA CallCloseInv == ASSUME IndInv, NEW c \in Callers, CallClose(c) PROVE IndInv'
<1> DEFINE i == own[c]
<1>1. /\ IndInv /\ BoxTypeOK /\ ServiceInv /\ Closing(c) /\ ~closed[i]
      /\ closed' = [closed EXCEPT ![i] = TRUE] /\ at' = [at EXCEPT ![i].close = "cancel"]
      /\ UNCHANGED <<serviceVars, cancelled, closeDone, closeErr, done, pos, managerVars, crashed>>
  BY DEF CallClose, BeginClose, Closing, IndInv, TypeOK
<1>2. i \in Made /\ i \in Instances /\ i # instance /\ BoxInv(i) /\ Made \subseteq Instances
  BY <1>1, OwnMade, MadeInstances DEF Closing, IndInv, ServiceInv, CallerInv
<1>3. /\ at' \in [Instances -> [start : StartLabels, close : CloseLabels]]
      /\ at'[i].close = "cancel" /\ at'[i].start = at[i].start
      /\ \A j \in Instances : j # i => at'[j] = at[j]
  BY <1>1, <1>2, AtClose DEF CloseLabels
<1>4. /\ closed' \in [Instances -> BOOLEAN] /\ closed'[i]
      /\ \A j \in Instances : j # i => closed'[j] = closed[j]
  BY <1>1, <1>2 DEF IndInv, TypeOK, InstanceTypeOK
<1>5. /\ UNCHANGED <<serviceStatus, instance, serviceAccess, pc, own, created, lateError>>
      /\ UNCHANGED <<done, pos, started, listed, item, early, crashed, closeDone>> /\ Made' = Made
  BY <1>1 DEF serviceVars, managerVars, Made
<1>6. TypeOK'
  BY <1>1, <1>3, <1>4, <1>5 DEF IndInv, TypeOK, ServiceTypeOK, InstanceTypeOK, BoxTypeOK
<1>7. ServiceInv'
  <2>1. \A j \in Instances : at'[j].start = at[j].start
    BY <1>3
  <2>2. ASSUME NEW d \in Callers PROVE CallerInv(d)'
    <3>1. CallerInv(d)
      BY <1>1 DEF ServiceInv
    <3> QED
      BY <1>2, <1>5, <2>1, <3>1 DEF CallerInv, Closing
  <2> QED
    BY <1>1, <1>2, <1>4, <1>5, <2>1, <2>2 DEF ServiceInv, RunningHasInstance
<1>8. OrphanInv'
  <2>1. \A j \in Made : closed[j] => closed'[j]
    BY <1>2, <1>4
  <2> QED
    BY <1>5, <2>1 DEF IndInv, OrphanInv, Retiring, NoOrphan, Made
<1>9. ASSUME NEW j \in Instances PROVE BoxInv(j)'
  <2>1. CASE j # i
    BY <1>2, <1>3, <1>4, <1>5, <2>1, Elsewhere
  <2>2. CASE j = i
    <3>1. at[i].close = "no" /\ ~closeDone[i]
      BY <1>1, <1>2 DEF BoxInv
    <3>2. Released(j)'
      BY <1>2, <1>3, <1>5, <2>2, <3>1 DEF BoxInv, Released, LifecycleFree, Manager, ClosingBox
    <3> QED
      BY <1>2, <1>3, <1>4, <1>5, <2>2, <3>1, <3>2 DEF BoxInv, ClosingBox
  <2> QED
    BY <2>1, <2>2
<1> QED
  BY <1>6, <1>7, <1>8, <1>9 DEF IndInv

LEMMA CallStartInv == ASSUME IndInv, NEW c \in Callers, CallStart(c) PROVE IndInv'
<1> DEFINE i == own[c]
           v == IF closed[i] THEN "err" ELSE "call"
<1>1. /\ IndInv /\ BoxTypeOK /\ ServiceTypeOK /\ ServiceInv /\ pc[c] = "created"
      /\ Goto(c, "starting", i) /\ at' = [at EXCEPT ![i].start = v]
      /\ UNCHANGED <<serviceStatus, instance, serviceAccess, created, lateError, instanceVars>>
      /\ UNCHANGED <<done, pos, managerVars, crashed>>
  BY DEF CallStart, IndInv, TypeOK
<1>2. /\ i \in Made /\ i \in Instances /\ at[i].start = "no" /\ BoxInv(i) /\ Made \subseteq Instances
      /\ \A d \in Callers \ {c} : pc[d] = "created" => own[d] # i
  BY <1>1, OwnMade, MadeInstances DEF IndInv, ServiceInv, CallerInv
<1>3. v \in StartLabels /\ v \in {"err", "call"} /\ (~closed[i] => v = "call")
  BY DEF StartLabels
<1>4. /\ at' \in [Instances -> [start : StartLabels, close : CloseLabels]]
      /\ at'[i].start = v /\ at'[i].close = at[i].close
      /\ \A j \in Instances : j # i => at'[j] = at[j]
  <2> HIDE DEF i, v
  <2> QED
    BY <1>1, <1>2, <1>3, AtStart
<1>5. /\ UNCHANGED <<serviceStatus, instance, serviceAccess, created, lateError>>
      /\ UNCHANGED <<closed, closeDone, done, pos, started, listed, item, early, crashed>> /\ Made' = Made
  BY <1>1 DEF instanceVars, managerVars, Made
<1>6. /\ pc' \in [Callers -> {"idle", "reload", "close", "created", "starting", "failed"}]
      /\ own' \in [Callers -> Instances \cup {None}]
      /\ pc'[c] = "starting" /\ own'[c] = i
      /\ \A d \in Callers : d # c => pc'[d] = pc[d] /\ own'[d] = own[d]
  BY <1>1, <1>2, GotoFacts
<1> HIDE DEF v
<1>7. TypeOK'
  BY <1>1, <1>4, <1>5, <1>6 DEF IndInv, TypeOK, ServiceTypeOK, InstanceTypeOK, BoxTypeOK, instanceVars
<1>8. ServiceInv'
  <2>1. ASSUME NEW d \in Callers PROVE CallerInv(d)'
    <3>1. CallerInv(d)
      BY <1>1 DEF ServiceInv
    <3>2. CASE d = c
      BY <1>2, <1>5, <1>6, <3>2 DEF CallerInv, Closing
    <3>3. CASE d # c
      <4>1. pc'[d] = pc[d] /\ own'[d] = own[d]
        BY <1>6, <3>3
      <4>2. pc[d] = "created" => at'[own[d]].start = "no"
        BY <1>2, <1>4, <3>1, <3>3 DEF CallerInv
      <4>3. pc[d] = "created" => \A e \in Callers \ {d} : pc'[e] = "created" => own'[e] # own[d]
        BY <1>6, <3>1 DEF CallerInv
      <4> QED
        BY <1>5, <3>1, <4>1, <4>2, <4>3 DEF CallerInv, Closing
    <3> QED
      BY <3>2, <3>3
  <2>2. serviceStatus = "started" => at'[instance].start = "ok"
    BY <1>1, <1>2, <1>4 DEF ServiceInv
  <2>3. \A j \in Instances \ Made : at'[j].start = "no"
    BY <1>1, <1>2, <1>4 DEF ServiceInv
  <2> QED
    BY <1>1, <1>5, <2>1, <2>2, <2>3 DEF ServiceInv, RunningHasInstance
<1>9. OrphanInv'
  <2>1. \A d \in Callers : Retiring(d)' <=> Retiring(d)
    BY <1>1, <1>6 DEF Retiring
  <2>2. \A j : (\E d \in Callers : own[d] = j /\ pc[d] \in {"reload", "close", "failed"})
                => \E d \in Callers : own'[d] = j /\ pc'[d] \in {"reload", "close", "failed"}
    <3>1. \A d \in Callers : pc[d] \in {"reload", "close", "failed"} => d # c
      BY <1>1
    <3> QED
      BY <1>6, <3>1
  <2>3. CASE lateError
    BY <1>5, <2>3 DEF OrphanInv
  <2>4. CASE ~lateError
    <3>1. /\ \A d \in Callers : Retiring(d) => serviceStatus = "stopping"
          /\ \A d, e \in Callers : Retiring(d) /\ Retiring(e) => d = e
          /\ NoOrphan
      BY <2>4 DEF IndInv, OrphanInv
    <3>2. NoOrphan'
      <4>1. serviceStatus = "idle" => instance = None
        BY <2>4, <3>1 DEF NoOrphan
      <4>2. \A j \in 1..created : closed[j] \/ j = instance
              \/ \E d \in Callers : own[d] = j /\ pc[d] \in {"reload", "close", "failed"}
        BY <2>4, <3>1 DEF NoOrphan
      <4>3. \A j \in 1..created : closed[j] \/ j = instance
              \/ \E d \in Callers : own'[d] = j /\ pc'[d] \in {"reload", "close", "failed"}
        <5> TAKE j \in 1..created
        <5>1. CASE closed[j] \/ j = instance
          BY <5>1
        <5>2. CASE \E d \in Callers : own[d] = j /\ pc[d] \in {"reload", "close", "failed"}
          BY <2>2, <5>2
        <5> QED
          BY <4>2, <5>1, <5>2
      <4> QED
        BY <1>5, <4>1, <4>3 DEF NoOrphan
    <3> QED
      BY <1>5, <2>1, <3>1, <3>2 DEF OrphanInv
  <2> QED
    BY <2>3, <2>4
<1>10. ASSUME NEW j \in Instances PROVE BoxInv(j)'
  <2>1. CASE j # i
    BY <1>2, <1>4, <1>5, <2>1, Elsewhere
  <2>2. CASE j = i
    <3>1. pos[i] = 1 /\ ~(pos[i] > 3) /\ ~(pos[i] > 4)
      <4>1. pos[i] = 1
        BY <1>2 DEF BoxInv
      <4> QED
        BY <4>1, SMT
    <3>2. Released(j)'
      BY <1>2, <1>3, <1>4, <1>5, <2>2 DEF BoxInv, Released, LifecycleFree, Manager, ClosingBox
    <3>3. ~closed[i] => Untouched(j)'
      BY <1>2, <1>3, <1>4, <1>5, <2>2, <3>1 DEF BoxInv, Untouched
    <3> QED
      BY <1>2, <1>3, <1>4, <1>5, <2>2, <3>2, <3>3 DEF BoxInv, ClosingBox
  <2> QED
    BY <2>1, <2>2
<1> QED
  BY <1>7, <1>8, <1>9, <1>10 DEF IndInv

\* What is left to show of a step of instance i's Box: the types, and BoxInv(i).
LEMMA BoxStepInv ==
    ASSUME IndInv, NEW i \in Instances, UNCHANGED <<serviceVars, closed>>,
           InstanceTypeOK', BoxTypeOK', BoxInv(i)',
           at[i].start \in {"no", "ok"} => at'[i].start = at[i].start,
           \A j \in Instances : j # i =>
               /\ at'[j] = at[j] /\ pos'[j] = pos[j] /\ closeDone'[j] = closeDone[j] /\ done'[j] = done[j]
               /\ listed'[j] = listed[j] /\ item'[j] = item[j] /\ early'[j] = early[j]
    PROVE  IndInv'
<1>1. ServiceTypeOK' /\ ServiceInv' /\ OrphanInv'
  BY ServiceKept
<1>2. ASSUME NEW j \in Instances PROVE BoxInv(j)'
  BY Elsewhere
<1> QED
  BY <1>1, <1>2 DEF IndInv, TypeOK

\* Advance goes to the next call, or ends Start.
LEMMA AdvanceFacts ==
    ASSUME BoxTypeOK, NEW i \in Instances, Advance(i)
    PROVE  /\ at' \in [Instances -> [start : StartLabels, close : CloseLabels]]
           /\ pos' \in [Instances -> 1..Len(Script)]
           /\ at'[i].close = at[i].close
           /\ \/ at'[i].start = "call" /\ pos[i] < 6 /\ pos'[i] = pos[i] + 1
              \/ at'[i].start = "ok" /\ pos[i] = 6 /\ pos'[i] = 1
           /\ \A j \in Instances : j # i => at'[j] = at[j] /\ pos'[j] = pos[j]
<1> DEFINE v == IF pos[i] < Len(Script) THEN "call" ELSE "ok"
           n == IF pos[i] < Len(Script) THEN pos[i] + 1 ELSE 1
<1>1. pos \in [Instances -> 1..6] /\ pos[i] \in 1..6 /\ Len(Script) = 6
  BY ScriptFacts DEF BoxTypeOK
<1>2. \/ v = "call" /\ pos[i] < 6 /\ n = pos[i] + 1
      \/ v = "ok" /\ pos[i] = 6 /\ n = 1
  BY <1>1, SMT
<1>3. v \in StartLabels /\ n \in 1..6
  <2>1. n \in 1..6
    BY <1>1, SMT
  <2> QED
    BY <1>2, <2>1 DEF StartLabels
<1>4. at' = [at EXCEPT ![i].start = v] /\ pos' = [pos EXCEPT ![i] = n]
  BY DEF Advance
<1> HIDE DEF v, n
<1>5. /\ at' \in [Instances -> [start : StartLabels, close : CloseLabels]]
      /\ at'[i].start = v /\ at'[i].close = at[i].close
      /\ \A j \in Instances : j # i => at'[j] = at[j]
  BY <1>3, <1>4, AtStart
<1>6. pos' \in [Instances -> 1..6] /\ pos'[i] = n /\ \A j \in Instances : j # i => pos'[j] = pos[j]
  BY <1>1, <1>3, <1>4
<1> QED
  BY <1>1, <1>2, <1>5, <1>6

LEMMA ManagerStartInv == ASSUME IndInv, NEW i \in Instances, ManagerStart(i) PROVE IndInv'
<1>1. /\ TypeOK /\ InstanceTypeOK /\ BoxTypeOK /\ BoxInv(i) /\ at[i].start = "call"
      /\ started' = [started EXCEPT ![i][Manager(i)] = TRUE]
      /\ UNCHANGED <<serviceVars, instanceVars, done, listed, item, early, crashed>>
  BY DEF ManagerStart, IndInv, TypeOK
<1>2. UNCHANGED <<serviceVars, closed, closeDone, done, listed, item, early, crashed>> /\ InstanceTypeOK'
  BY <1>1 DEF instanceVars, InstanceTypeOK
<1>3. started' \in [Instances -> [Managers -> BOOLEAN]]
  <2>1. started \in [Instances -> [Managers -> BOOLEAN]] /\ Manager(i) \in Managers
    BY <1>1, ManagerType DEF BoxTypeOK
  <2> QED
    BY <1>1, <2>1
<1>4. CASE listed[i][Manager(i)]
  <2>1. at' = [at EXCEPT ![i].start = "item"] /\ UNCHANGED pos
    BY <1>4 DEF ManagerStart
  <2>2. /\ at' \in [Instances -> [start : StartLabels, close : CloseLabels]]
        /\ at'[i].start = "item" /\ at'[i].close = at[i].close
        /\ \A j \in Instances : j # i => at'[j] = at[j]
    BY <1>1, <2>1, AtStart DEF StartLabels
  <2>3. BoxTypeOK'
    BY <1>1, <1>2, <1>3, <2>1, <2>2 DEF BoxTypeOK
  <2>4. Released(i)'
    BY <1>1, <1>2, <1>4, <2>1, <2>2 DEF BoxInv, Released, LifecycleFree, Manager, ClosingBox
  <2>5. ~closed[i] => Untouched(i)'
    BY <1>1, <1>2, <2>1, <2>2 DEF BoxInv, Untouched
  <2>6. BoxInv(i)'
    BY <1>1, <1>2, <2>2, <2>4, <2>5 DEF BoxInv, ClosingBox
  <2> QED
    BY <1>1, <1>2, <2>1, <2>2, <2>3, <2>6, BoxStepInv
<1>5. CASE ~listed[i][Manager(i)]
  <2>1. /\ at' \in [Instances -> [start : StartLabels, close : CloseLabels]]
        /\ pos' \in [Instances -> 1..Len(Script)]
        /\ at'[i].close = at[i].close /\ at'[i].start \in {"call", "ok"}
        /\ \A j \in Instances : j # i => at'[j] = at[j] /\ pos'[j] = pos[j]
    BY <1>1, <1>5, AdvanceFacts DEF ManagerStart
  <2>2. closed[i]
    BY <1>1, <1>5, ManagerType DEF BoxInv, Untouched
  <2>3. BoxTypeOK'
    BY <1>1, <1>2, <1>3, <2>1 DEF BoxTypeOK
  <2>4. Released(i)'
    BY <1>1, <1>2, <2>1 DEF BoxInv, Released, LifecycleFree, ClosingBox
  <2>5. BoxInv(i)'
    BY <1>1, <1>2, <2>1, <2>2, <2>4 DEF BoxInv, ClosingBox
  <2> QED
    BY <1>1, <1>2, <2>1, <2>3, <2>5, BoxStepInv
<1> QED
  BY <1>4, <1>5

LEMMA StartItemInv == ASSUME IndInv, NEW i \in Instances, StartItem(i) PROVE IndInv'
<1>1. /\ TypeOK /\ InstanceTypeOK /\ BoxTypeOK /\ BoxInv(i) /\ at[i].start = "item"
      /\ UNCHANGED <<serviceVars, instanceVars, done, started, listed, early, crashed>>
  BY DEF StartItem, IndInv, TypeOK
<1>2. UNCHANGED <<serviceVars, closed, closeDone, done, started, listed, early, crashed>> /\ InstanceTypeOK'
  BY <1>1 DEF instanceVars, InstanceTypeOK
<1>3. CASE /\ item' = IF Stage(i) = "start" THEN [item EXCEPT ![i][Manager(i)] = "open"] ELSE item
           /\ Advance(i)
  <2>1. /\ at' \in [Instances -> [start : StartLabels, close : CloseLabels]]
        /\ pos' \in [Instances -> 1..Len(Script)]
        /\ at'[i].close = at[i].close
        /\ \/ at'[i].start = "call" /\ pos[i] < 6 /\ pos'[i] = pos[i] + 1
           \/ at'[i].start = "ok" /\ pos[i] = 6 /\ pos'[i] = 1
        /\ \A j \in Instances : j # i => at'[j] = at[j] /\ pos'[j] = pos[j]
    BY <1>1, <1>3, AdvanceFacts
  <2>2. /\ item \in [Instances -> [Managers -> {"new", "open", "closed"}]] /\ Manager(i) \in Managers
        /\ "inbound" \in Managers /\ "service" \in Managers
    BY <1>1, ManagerType DEF BoxTypeOK, Managers
  <2>3. /\ item' \in [Instances -> [Managers -> {"new", "open", "closed"}]]
        /\ \A j \in Instances : j # i => item'[j] = item[j]
        /\ \A m \in Managers : item'[i][m] = IF Stage(i) = "start" /\ m = Manager(i) THEN "open" ELSE item[i][m]
    <3>1. CASE Stage(i) = "start"
      BY <1>3, <2>2, <3>1
    <3>2. CASE Stage(i) # "start"
      BY <1>3, <2>2, <3>2
    <3> QED
      BY <3>1, <3>2
  <2>4. BoxTypeOK'
    BY <1>1, <1>2, <2>1, <2>3 DEF BoxTypeOK
  <2>5. Released(i)'
    <3>1. ~listed[i]["inbound"] => item'[i]["inbound"] = "closed"
      <4>1. ~listed[i]["inbound"] => Manager(i) # "inbound" /\ item[i]["inbound"] = "closed"
        BY <1>1 DEF BoxInv, Released, LifecycleFree
      <4> QED
        BY <2>2, <2>3, <4>1
    <3> QED
      BY <1>1, <1>2, <2>1, <3>1 DEF BoxInv, Released, LifecycleFree, ClosingBox
  <2>6. ~closed[i] => Untouched(i)'
    <3> SUFFICES ASSUME ~closed[i] PROVE Untouched(i)'
      OBVIOUS
    <3>1. /\ ~done[i] /\ \A m \in Managers : listed[i][m]
          /\ pos[i] > 3 => item[i]["inbound"] = "open"
          /\ pos[i] > 4 => item[i]["service"] = "open"
      BY <1>1 DEF BoxInv, Untouched
    <3>2. pos[i] \in 1..6
      BY <1>1, ScriptFacts DEF BoxTypeOK
    <3>3. /\ pos[i] = 3 => Manager(i) = "inbound" /\ Stage(i) = "start"
          /\ pos[i] = 4 => Manager(i) = "service" /\ Stage(i) = "start"
      BY ScriptFacts DEF Manager, Stage
    <3>4. pos[i] = 3 \/ pos[i] > 3 => item'[i]["inbound"] = "open"
      BY <2>2, <2>3, <3>1, <3>3
    <3>5. pos[i] = 4 \/ pos[i] > 4 => item'[i]["service"] = "open"
      BY <2>2, <2>3, <3>1, <3>3
    <3>6. /\ pos'[i] > 3 => item'[i]["inbound"] = "open"
          /\ pos'[i] > 4 => item'[i]["service"] = "open"
      BY <2>1, <3>2, <3>4, <3>5, SMT
    <3>7. at'[i].start = "ok" => item'[i]["inbound"] = "open" /\ item'[i]["service"] = "open"
      BY <2>1, <3>2, <3>4, <3>5, SMT
    <3> QED
      BY <1>2, <2>1, <3>1, <3>6, <3>7 DEF Untouched, Managers
  <2>7. BoxInv(i)'
    BY <1>1, <1>2, <2>1, <2>5, <2>6 DEF BoxInv, ClosingBox
  <2> QED
    BY <1>1, <1>2, <2>1, <2>3, <2>4, <2>7, BoxStepInv
<1>4. CASE /\ at' = [at EXCEPT ![i].start = "check"]
           /\ pos' = [pos EXCEPT ![i] = 1]
           /\ UNCHANGED item
  <2>1. /\ at' \in [Instances -> [start : StartLabels, close : CloseLabels]]
        /\ at'[i].start = "check" /\ at'[i].close = at[i].close
        /\ \A j \in Instances : j # i => at'[j] = at[j]
    BY <1>1, <1>4, AtStart DEF StartLabels, Labels
  <2>2. /\ pos' \in [Instances -> 1..Len(Script)]
        /\ \A j \in Instances : j # i => pos'[j] = pos[j]
    <3>1. 1 \in 1..Len(Script)
      BY ScriptFacts, SMT
    <3> QED
      BY <1>1, <1>4, <3>1 DEF BoxTypeOK
  <2>3. BoxTypeOK'
    BY <1>1, <1>2, <1>4, <2>1, <2>2 DEF BoxTypeOK
  <2>4. Released(i)'
    BY <1>1, <1>2, <1>4, <2>1 DEF BoxInv, Released, LifecycleFree, ClosingBox
  <2>5. ~closed[i] => Untouched(i)'
    BY <1>1, <1>2, <2>1 DEF BoxInv, Untouched
  <2>6. BoxInv(i)'
    BY <1>1, <1>2, <2>1, <2>4, <2>5 DEF BoxInv, ClosingBox
  <2> QED
    BY <1>1, <1>2, <1>4, <2>1, <2>2, <2>3, <2>6, BoxStepInv
<1> QED
  BY <1>3, <1>4 DEF StartItem

LEMMA CancelInv == ASSUME IndInv, NEW i \in Instances, Cancel(i) PROVE IndInv'
<1>1. /\ TypeOK /\ InstanceTypeOK /\ BoxTypeOK /\ BoxInv(i) /\ at[i].close = "cancel"
      /\ cancelled' = [cancelled EXCEPT ![i] = TRUE] /\ at' = [at EXCEPT ![i].close = "check"]
      /\ UNCHANGED <<serviceVars, closed, closeDone, closeErr, done, pos, managerVars, crashed>>
  BY DEF Cancel, IndInv, TypeOK
<1>2. UNCHANGED <<serviceVars, closed, closeDone, done, pos, started, listed, item, early, crashed>>
  BY <1>1 DEF managerVars
<1>3. InstanceTypeOK'
  BY <1>1 DEF InstanceTypeOK
<1>4. /\ at' \in [Instances -> [start : StartLabels, close : CloseLabels]]
      /\ at'[i].close = "check" /\ at'[i].start = at[i].start
      /\ \A j \in Instances : j # i => at'[j] = at[j]
  BY <1>1, AtClose DEF CloseLabels, Labels
<1>5. BoxTypeOK'
  BY <1>1, <1>2, <1>4 DEF BoxTypeOK
<1>6. Released(i)'
  BY <1>1, <1>2, <1>4 DEF BoxInv, Released, LifecycleFree, Manager, ClosingBox
<1>7. BoxInv(i)'
  BY <1>1, <1>2, <1>4, <1>6 DEF BoxInv, ClosingBox
<1> QED
  BY <1>1, <1>2, <1>3, <1>4, <1>5, <1>7, BoxStepInv

\* Box.Close returns to Start, or to Instance.Close.
LEMMA CloseReturnsFacts ==
    ASSUME InstanceTypeOK, BoxTypeOK, NEW i \in Instances, NEW t \in Threads, NEW err \in BOOLEAN,
           CloseReturns(i, t, err), UNCHANGED <<closed, cancelled>>
    PROVE  /\ at' \in [Instances -> [start : StartLabels, close : CloseLabels]] /\ InstanceTypeOK'
           /\ \/ /\ t = "start" /\ at'[i].start = "err" /\ at'[i].close = at[i].close
                 /\ closeDone'[i] = closeDone[i]
              \/ t = "close" /\ at'[i].close = "returned" /\ at'[i].start = at[i].start
           /\ \A j \in Instances : j # i => at'[j] = at[j] /\ closeDone'[j] = closeDone[j]
<1>1. CASE t = "start"
  <2>1. at' = [at EXCEPT ![i].start = "err"] /\ UNCHANGED <<closeDone, closeErr>>
    BY <1>1 DEF CloseReturns
  <2>2. /\ at' \in [Instances -> [start : StartLabels, close : CloseLabels]]
        /\ at'[i].start = "err" /\ at'[i].close = at[i].close
        /\ \A j \in Instances : j # i => at'[j] = at[j]
    BY <2>1, AtStart DEF StartLabels
  <2> QED
    BY <1>1, <2>1, <2>2 DEF InstanceTypeOK
<1>2. CASE t = "close"
  <2>1. /\ at' = [at EXCEPT ![i].close = "returned"]
        /\ closeDone' = [closeDone EXCEPT ![i] = TRUE] /\ closeErr' = [closeErr EXCEPT ![i] = err]
    BY <1>2 DEF CloseReturns
  <2>2. /\ at' \in [Instances -> [start : StartLabels, close : CloseLabels]]
        /\ at'[i].close = "returned" /\ at'[i].start = at[i].start
        /\ \A j \in Instances : j # i => at'[j] = at[j]
    BY <2>1, AtClose DEF CloseLabels
  <2>3. InstanceTypeOK' /\ \A j \in Instances : j # i => closeDone'[j] = closeDone[j]
    BY <2>1 DEF InstanceTypeOK
  <2> QED
    BY <1>2, <2>2, <2>3
<1> QED
  BY <1>1, <1>2 DEF Threads

\* The thread goes on to another label of Box.Close.
LEMMA AtThread ==
    ASSUME BoxTypeOK, NEW i \in Instances, NEW t \in Threads, NEW v \in Labels,
           at' = [at EXCEPT ![i][t] = v]
    PROVE  /\ at' \in [Instances -> [start : StartLabels, close : CloseLabels]]
           /\ \/ t = "start" /\ at'[i].start = v /\ at'[i].close = at[i].close
              \/ t = "close" /\ at'[i].close = v /\ at'[i].start = at[i].start
           /\ \A j \in Instances : j # i => at'[j] = at[j]
<1>1. v \in StartLabels /\ v \in CloseLabels
  BY DEF StartLabels, CloseLabels
<1>2. CASE t = "start"
  <2>1. at' = [at EXCEPT ![i].start = v]
    BY <1>2
  <2> QED
    BY <1>1, <1>2, <2>1, AtStart
<1>3. CASE t = "close"
  <2>1. at' = [at EXCEPT ![i].close = v]
    BY <1>3
  <2> QED
    BY <1>1, <1>3, <2>1, AtClose
<1> QED
  BY <1>2, <1>3 DEF Threads

LEMMA CheckDoneInv ==
    ASSUME IndInv, NEW i \in Instances, NEW t \in Threads, CheckDone(i, t) PROVE IndInv'
<1>1. /\ TypeOK /\ InstanceTypeOK /\ BoxTypeOK /\ BoxInv(i) /\ at[i][t] = "check"
      /\ UNCHANGED <<serviceVars, closed, cancelled, done, pos, managerVars, crashed>>
  BY DEF CheckDone, IndInv, TypeOK
<1>2. /\ UNCHANGED <<serviceVars, closed, done, pos, started, listed, item, early, crashed>>
      /\ t = "start" => at[i].start = "check"
      /\ t = "close" => at[i].close = "check"
  BY <1>1 DEF managerVars
<1>3. CASE done[i]
  <2>1. /\ at' \in [Instances -> [start : StartLabels, close : CloseLabels]] /\ InstanceTypeOK'
        /\ \/ /\ t = "start" /\ at'[i].start = "err" /\ at'[i].close = at[i].close
              /\ closeDone'[i] = closeDone[i]
           \/ t = "close" /\ at'[i].close = "returned" /\ at'[i].start = at[i].start
        /\ \A j \in Instances : j # i => at'[j] = at[j] /\ closeDone'[j] = closeDone[j]
    BY <1>1, <1>3, CloseReturnsFacts DEF CheckDone
  <2>2. BoxTypeOK'
    BY <1>1, <1>2, <2>1 DEF BoxTypeOK
  <2>3. closed[i]
    BY <1>1, <1>2, <1>3, <2>1 DEF BoxInv, Untouched
  <2>4. Released(i)'
    BY <1>1, <1>2, <2>1 DEF BoxInv, Released, LifecycleFree, Manager, ClosingBox
  <2>5. BoxInv(i)'
    BY <1>1, <1>2, <1>3, <2>1, <2>3, <2>4 DEF BoxInv, ClosingBox
  <2> QED
    BY <1>1, <1>2, <2>1, <2>2, <2>5, BoxStepInv
<1>4. CASE ~done[i]
  <2>1. at' = [at EXCEPT ![i][t] = "mark"] /\ UNCHANGED <<closeDone, closeErr>>
    BY <1>4 DEF CheckDone
  <2>2. /\ at' \in [Instances -> [start : StartLabels, close : CloseLabels]]
        /\ \/ t = "start" /\ at'[i].start = "mark" /\ at'[i].close = at[i].close
           \/ t = "close" /\ at'[i].close = "mark" /\ at'[i].start = at[i].start
        /\ \A j \in Instances : j # i => at'[j] = at[j]
    BY <1>1, <2>1, AtThread DEF Labels
  <2>3. BoxTypeOK' /\ InstanceTypeOK'
    BY <1>1, <1>2, <2>1, <2>2 DEF BoxTypeOK, InstanceTypeOK
  <2>4. Released(i)'
    BY <1>1, <1>2, <2>2 DEF BoxInv, Released, LifecycleFree, Manager, ClosingBox
  <2>5. ~closed[i] => Untouched(i)'
    BY <1>1, <1>2, <1>4, <2>2 DEF BoxInv, Untouched
  <2>6. BoxInv(i)'
    BY <1>1, <1>2, <2>1, <2>2, <2>4, <2>5 DEF BoxInv, ClosingBox
  <2> QED
    BY <1>1, <1>2, <2>1, <2>2, <2>3, <2>6, BoxStepInv
<1> QED
  BY <1>3, <1>4

LEMMA MarkDoneInv ==
    ASSUME IndInv, NEW i \in Instances, NEW t \in Threads, MarkDone(i, t) PROVE IndInv'
<1>1. /\ TypeOK /\ InstanceTypeOK /\ BoxTypeOK /\ BoxInv(i) /\ at[i][t] = "mark"
      /\ done' = [done EXCEPT ![i] = TRUE]
      /\ UNCHANGED <<serviceVars, instanceVars, pos, managerVars>>
  BY DEF MarkDone, IndInv, TypeOK
<1>2. /\ UNCHANGED <<serviceVars, closed, closeDone, pos, started, listed, item, early>> /\ InstanceTypeOK'
      /\ t = "start" => at[i].start = "mark"
      /\ t = "close" => at[i].close = "mark"
  BY <1>1 DEF managerVars, instanceVars, InstanceTypeOK
<1>3. /\ done' \in [Instances -> BOOLEAN] /\ done'[i]
      /\ \A j \in Instances : j # i => done'[j] = done[j]
  BY <1>1 DEF BoxTypeOK
<1>4. CASE ~done[i]
  <2>1. at' = [at EXCEPT ![i][t] = "service"] /\ UNCHANGED crashed
    BY <1>4 DEF MarkDone
  <2>2. /\ at' \in [Instances -> [start : StartLabels, close : CloseLabels]]
        /\ \/ t = "start" /\ at'[i].start = "service" /\ at'[i].close = at[i].close
           \/ t = "close" /\ at'[i].close = "service" /\ at'[i].start = at[i].start
        /\ \A j \in Instances : j # i => at'[j] = at[j]
    BY <1>1, <2>1, AtThread DEF Labels
  <2>3. BoxTypeOK'
    BY <1>1, <1>2, <1>3, <2>1, <2>2 DEF BoxTypeOK
  <2>4. Released(i)'
    BY <1>1, <1>2, <2>2 DEF BoxInv, Released, LifecycleFree, Manager, ClosingBox
  <2>5. ~closed[i] => Untouched(i)'
    BY <1>1, <1>2, <2>2 DEF BoxInv, Untouched
  <2>6. BoxInv(i)'
    BY <1>1, <1>2, <1>3, <2>2, <2>4, <2>5 DEF BoxInv, ClosingBox
  <2> QED
    BY <1>1, <1>2, <1>3, <2>2, <2>3, <2>6, BoxStepInv
<1>5. CASE done[i] /\ t = "start"
  <2>1. at' = [at EXCEPT ![i].start = "ok"] /\ crashed' \in BOOLEAN
    BY <1>5 DEF MarkDone
  <2>2. /\ at' \in [Instances -> [start : StartLabels, close : CloseLabels]]
        /\ at'[i].start = "ok" /\ at'[i].close = at[i].close
        /\ \A j \in Instances : j # i => at'[j] = at[j]
    BY <1>1, <2>1, AtStart DEF StartLabels
  <2>3. BoxTypeOK'
    BY <1>1, <1>2, <1>3, <2>1, <2>2 DEF BoxTypeOK
  <2>4. closed[i]
    BY <1>1, <1>2, <1>5 DEF BoxInv, Untouched
  <2>5. Released(i)'
    BY <1>1, <1>2, <1>5, <2>2 DEF BoxInv, Released, LifecycleFree, Manager, ClosingBox
  <2>6. BoxInv(i)'
    BY <1>1, <1>2, <1>3, <2>2, <2>4, <2>5 DEF BoxInv, ClosingBox
  <2> QED
    BY <1>1, <1>2, <1>3, <1>5, <2>2, <2>3, <2>6, BoxStepInv
<1>6. CASE done[i] /\ t = "close"
  <2>1. at' = [at EXCEPT ![i].close = "panic"] /\ crashed' \in BOOLEAN
    BY <1>6 DEF MarkDone
  <2>2. /\ at' \in [Instances -> [start : StartLabels, close : CloseLabels]]
        /\ at'[i].close = "panic" /\ at'[i].start = at[i].start
        /\ \A j \in Instances : j # i => at'[j] = at[j]
    BY <1>1, <2>1, AtClose DEF CloseLabels
  <2>3. BoxTypeOK'
    BY <1>1, <1>2, <1>3, <2>1, <2>2 DEF BoxTypeOK
  <2>4. closed[i] /\ ~closeDone[i]
    BY <1>1, <1>2, <1>6 DEF BoxInv
  <2>5. Released(i)'
    BY <1>1, <1>2, <1>6, <2>2 DEF BoxInv, Released, LifecycleFree, Manager, ClosingBox
  <2>6. BoxInv(i)'
    BY <1>1, <1>2, <1>3, <2>2, <2>4, <2>5 DEF BoxInv, ClosingBox
  <2> QED
    BY <1>1, <1>2, <1>3, <2>2, <2>3, <2>6, BoxStepInv
<1> QED
  BY <1>4, <1>5, <1>6 DEF Threads

LEMMA ManagerCloseFacts ==
    ASSUME BoxTypeOK, NEW i \in Instances, NEW m \in Managers, ManagerClose(i, m)
    PROVE  /\ started' \in [Instances -> [Managers -> BOOLEAN]]
           /\ listed' \in [Instances -> [Managers -> BOOLEAN]]
           /\ item' \in [Instances -> [Managers -> {"new", "open", "closed"}]]
           /\ \A j \in Instances : j # i => listed'[j] = listed[j] /\ item'[j] = item[j]
           /\ \A n \in Managers : n # m => listed'[i][n] = listed[i][n] /\ item'[i][n] = item[i][n]
           /\ started[i][m] => ~listed'[i][m]
           /\ started[i][m] /\ listed[i][m] => item'[i][m] = "closed"
           /\ started[i][m] /\ ~listed[i][m] => item'[i][m] = item[i][m]
           /\ ~started[i][m] => UNCHANGED <<listed, item>>
<1>1. /\ started \in [Instances -> [Managers -> BOOLEAN]]
      /\ listed \in [Instances -> [Managers -> BOOLEAN]]
      /\ item \in [Instances -> [Managers -> {"new", "open", "closed"}]]
  BY DEF BoxTypeOK
<1>2. CASE started[i][m]
  <2>1. /\ started' = [started EXCEPT ![i][m] = FALSE] /\ listed' = [listed EXCEPT ![i][m] = FALSE]
        /\ item' = IF listed[i][m] THEN [item EXCEPT ![i][m] = "closed"] ELSE item
    BY <1>2 DEF ManagerClose
  <2>2. /\ started' \in [Instances -> [Managers -> BOOLEAN]]
        /\ listed' \in [Instances -> [Managers -> BOOLEAN]] /\ ~listed'[i][m]
        /\ \A j \in Instances : j # i => listed'[j] = listed[j]
        /\ \A n \in Managers : n # m => listed'[i][n] = listed[i][n]
    BY <1>1, <2>1
  <2>3. CASE listed[i][m]
    <3>1. item' = [item EXCEPT ![i][m] = "closed"]
      BY <2>1, <2>3
    <3> QED
      BY <1>1, <1>2, <2>2, <2>3, <3>1
  <2>4. CASE ~listed[i][m]
    BY <1>1, <1>2, <2>1, <2>2, <2>4
  <2> QED
    BY <2>3, <2>4
<1>3. CASE ~started[i][m]
  BY <1>1, <1>3 DEF ManagerClose
<1> QED
  BY <1>2, <1>3

LEMMA CloseServicesInv ==
    ASSUME IndInv, NEW i \in Instances, NEW t \in Threads, CloseServices(i, t) PROVE IndInv'
<1>1. /\ TypeOK /\ InstanceTypeOK /\ BoxTypeOK /\ BoxInv(i) /\ at[i][t] = "service"
      /\ ManagerClose(i, "service") /\ at' = [at EXCEPT ![i][t] = "inbound"]
      /\ UNCHANGED <<serviceVars, instanceVars, done, pos, early, crashed>>
  BY DEF CloseServices, IndInv, TypeOK
<1>2. /\ UNCHANGED <<serviceVars, closed, closeDone, done, pos, early, crashed>> /\ InstanceTypeOK'
      /\ t = "start" => at[i].start = "service"
      /\ t = "close" => at[i].close = "service"
  BY <1>1 DEF instanceVars, InstanceTypeOK
<1>3. /\ at' \in [Instances -> [start : StartLabels, close : CloseLabels]]
      /\ \/ t = "start" /\ at'[i].start = "inbound" /\ at'[i].close = at[i].close
         \/ t = "close" /\ at'[i].close = "inbound" /\ at'[i].start = at[i].start
      /\ \A j \in Instances : j # i => at'[j] = at[j]
  BY <1>1, AtThread DEF Labels
<1>4. /\ started' \in [Instances -> [Managers -> BOOLEAN]]
      /\ listed' \in [Instances -> [Managers -> BOOLEAN]]
      /\ item' \in [Instances -> [Managers -> {"new", "open", "closed"}]]
      /\ \A j \in Instances : j # i => listed'[j] = listed[j] /\ item'[j] = item[j]
      /\ listed'[i]["inbound"] = listed[i]["inbound"] /\ item'[i]["inbound"] = item[i]["inbound"]
  <2>1. PICK m \in Managers : m = "service"
    BY DEF Managers
  <2>2. "inbound" \in Managers /\ "inbound" # m
    BY <2>1 DEF Managers
  <2>3. BoxTypeOK /\ ManagerClose(i, m)
    BY <1>1, <2>1
  <2>4. /\ started' \in [Instances -> [Managers -> BOOLEAN]]
        /\ listed' \in [Instances -> [Managers -> BOOLEAN]]
        /\ item' \in [Instances -> [Managers -> {"new", "open", "closed"}]]
        /\ \A j \in Instances : j # i => listed'[j] = listed[j] /\ item'[j] = item[j]
        /\ \A n \in Managers : n # m => listed'[i][n] = listed[i][n] /\ item'[i][n] = item[i][n]
    BY <2>3, ManagerCloseFacts
  <2> QED
    BY <2>2, <2>4
<1>5. BoxTypeOK'
  BY <1>1, <1>2, <1>3, <1>4 DEF BoxTypeOK
<1>6. Released(i)'
  BY <1>1, <1>2, <1>3, <1>4 DEF BoxInv, Released, LifecycleFree, Manager, ClosingBox
<1>7. ~closed[i] => Untouched(i)'
  BY <1>1, <1>2, <1>3 DEF BoxInv, Untouched
<1>8. BoxInv(i)'
  BY <1>1, <1>2, <1>3, <1>6, <1>7 DEF BoxInv, ClosingBox
<1> QED
  BY <1>1, <1>2, <1>3, <1>4, <1>5, <1>8, BoxStepInv

LEMMA CloseInboundsInv ==
    ASSUME IndInv, NEW i \in Instances, NEW t \in Threads, CloseInbounds(i, t) PROVE IndInv'
<1>1. /\ TypeOK /\ InstanceTypeOK /\ BoxTypeOK /\ BoxInv(i) /\ at[i][t] = "inbound" /\ LifecycleFree(i)
      /\ ManagerClose(i, "inbound") /\ early' = [early EXCEPT ![i] = @ \/ ~started[i]["inbound"]]
      /\ \E err \in BOOLEAN : CloseReturns(i, t, err)
      /\ UNCHANGED <<serviceVars, closed, cancelled, done, pos, crashed>>
  BY DEF CloseInbounds, IndInv, TypeOK
<1>2. /\ t = "start" => at[i].start = "inbound"
      /\ t = "close" => at[i].close = "inbound"
      /\ done[i]
  BY <1>1 DEF BoxInv, ClosingBox, Threads
<1>3. /\ at' \in [Instances -> [start : StartLabels, close : CloseLabels]] /\ InstanceTypeOK'
      /\ \/ /\ t = "start" /\ at'[i].start = "err" /\ at'[i].close = at[i].close
            /\ closeDone'[i] = closeDone[i]
         \/ t = "close" /\ at'[i].close = "returned" /\ at'[i].start = at[i].start
      /\ \A j \in Instances : j # i => at'[j] = at[j] /\ closeDone'[j] = closeDone[j]
  <2>1. PICK err \in BOOLEAN : CloseReturns(i, t, err)
    BY <1>1
  <2>2. InstanceTypeOK /\ BoxTypeOK /\ UNCHANGED <<closed, cancelled>>
    BY <1>1
  <2> QED
    BY <2>1, <2>2, CloseReturnsFacts
<1>4. /\ started' \in [Instances -> [Managers -> BOOLEAN]]
      /\ listed' \in [Instances -> [Managers -> BOOLEAN]]
      /\ item' \in [Instances -> [Managers -> {"new", "open", "closed"}]]
      /\ \A j \in Instances : j # i => listed'[j] = listed[j] /\ item'[j] = item[j]
      /\ started[i]["inbound"] => ~listed'[i]["inbound"]
      /\ ~listed'[i]["inbound"] =>
           item'[i]["inbound"] = "closed" \/ (~listed[i]["inbound"] /\ item'[i]["inbound"] = item[i]["inbound"])
  <2>1. PICK m \in Managers : m = "inbound"
    BY DEF Managers
  <2>2. BoxTypeOK /\ ManagerClose(i, m)
    BY <1>1, <2>1
  <2> QED
    BY <2>1, <2>2, ManagerCloseFacts
<1>5. /\ early' \in [Instances -> BOOLEAN] /\ \A j \in Instances : j # i => early'[j] = early[j]
      /\ early'[i] = (early[i] \/ ~started[i]["inbound"])
  <2>1. early \in [Instances -> BOOLEAN] /\ (early[i] \/ ~started[i]["inbound"]) \in BOOLEAN
    BY <1>1 DEF BoxTypeOK
  <2> QED
    BY <1>1, <2>1
<1>6. BoxTypeOK'
  BY <1>1, <1>3, <1>4, <1>5 DEF BoxTypeOK
<1>7. Released(i)'
  <2>1. ~listed'[i]["inbound"] => item'[i]["inbound"] = "closed"
    BY <1>1, <1>4 DEF BoxInv, Released
  <2>2. LifecycleFree(i)'
    BY <1>1, <1>3 DEF LifecycleFree, Manager
  <2>3. early'[i] \/ ~listed'[i]["inbound"]
    BY <1>4, <1>5
  <2> QED
    BY <2>1, <2>2, <2>3 DEF Released
<1>8. ~closed[i] => Untouched(i)'
  BY <1>1, <1>2, <1>3 DEF BoxInv, Untouched
<1>9. BoxInv(i)'
  BY <1>1, <1>2, <1>3, <1>7, <1>8 DEF BoxInv, ClosingBox
<1>10. at[i].start \in {"no", "ok"} => at'[i].start = at[i].start
  BY <1>2, <1>3
<1> QED
  BY <1>1, <1>3, <1>4, <1>5, <1>6, <1>9, <1>10, BoxStepInv

-----------------------------------------------------------------------------
(* The theorems.                                                              *)

LEMMA IndInvNext == ASSUME IndInv, [Next]_vars PROVE IndInv'
<1>1. CASE SetError
  BY <1>1, SetErrorInv
<1>2. ASSUME NEW c \in Callers, StartOrReloadService(c) \/ CloseService(c) \/ CallerStep(c) PROVE IndInv'
  BY <1>2, StartOrReloadServiceInv, CloseServiceInv, CallCloseInv, ReloadInv, CloseServiceDoneInv,
     CallStartInv, StartReturnsInv, StartFailedInv DEF CallerStep
<1>3. ASSUME NEW i \in Instances, BoxStep(i) PROVE IndInv'
  BY <1>3, ManagerStartInv, StartItemInv, CancelInv, CheckDoneInv, MarkDoneInv, CloseServicesInv,
     CloseInboundsInv DEF BoxStep, CloseStep
<1>4. CASE UNCHANGED vars
  <2>1. UNCHANGED <<serviceVars, instanceVars, boxVars>>
    BY <1>4 DEF vars
  <2>2. UNCHANGED <<serviceVars, closed>> /\ UNCHANGED at
    BY <2>1 DEF instanceVars, boxVars
  <2> QED
    BY <2>1, <2>2, BoxKept, ServiceKept DEF IndInv, TypeOK
<1> QED
  BY <1>1, <1>2, <1>3, <1>4 DEF Next

\* Whatever the callers do to the service, IndInv holds.
THEOREM Invariance == Spec => []IndInv
<1>1. IndInv /\ [Next]_vars => IndInv'
  BY IndInvNext
<1> QED
  BY <1>1, IndInvInit, PTL DEF Spec

\* Every variable stays within its type, and Start within the calls of Box.start.
THEOREM TypeCorrect == Spec => []TypeOK
<1>1. IndInv => TypeOK
  BY DEF IndInv
<1> QED
  BY <1>1, Invariance, PTL

\* Handlers that test serviceStatus under serviceAccess find an instance.
THEOREM HandlersFindInstance == Spec => []RunningHasInstance
<1>1. IndInv => RunningHasInstance
  BY DEF IndInv, ServiceInv
<1> QED
  BY <1>1, Invariance, PTL

\* The status says STARTED only of an instance that runs.
THEOREM StartedIsTrue == Spec => []StartedIsRunning
<1>1. IndInv => StartedIsRunning
  <2> SUFFICES ASSUME IndInv, serviceStatus = "started"
               PROVE  /\ at[instance].start = "ok" /\ ~closed[instance]
                      /\ \A m \in Managers : item[instance][m] = "open"
    BY DEF StartedIsRunning
  <2>1. instance \in Made /\ ~closed[instance] /\ at[instance].start = "ok"
    BY DEF IndInv, ServiceInv
  <2>2. BoxInv(instance)
    BY <2>1, MadeInstances DEF IndInv
  <2> QED
    BY <2>1, <2>2 DEF BoxInv, Untouched
<1> QED
  BY <1>1, Invariance, PTL

\* No instance is forgotten before it is closed, unless SetError interferes.
THEOREM NothingIsOrphaned == Spec => []NoOrphan
<1>1. IndInv => NoOrphan
  BY DEF IndInv, OrphanInv, NoOrphan
<1> QED
  BY <1>1, Invariance, PTL

\* Instance.Close leaves no inbound open and lets none be opened.
THEOREM CloseReleasesInbounds == Spec => []InboundsReleased
<1>1. IndInv => InboundsReleased
  <2> SUFFICES ASSUME IndInv, NEW i \in Instances, closeDone[i], ~early[i], at[i].start \notin ClosingBox
               PROVE  item[i]["inbound"] # "open"
    BY DEF InboundsReleased, ClosingBox
  <2>1. BoxInv(i)
    BY DEF IndInv
  <2>2. at[i].close \notin ClosingBox /\ done[i]
    BY <2>1 DEF BoxInv, ClosingBox
  <2>3. item[i]["inbound"] = "closed"
    BY <2>1, <2>2 DEF BoxInv, Released
  <2> QED
    BY <2>3
<1> QED
  BY <1>1, Invariance, PTL
=============================================================================

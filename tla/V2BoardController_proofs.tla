---------------------- MODULE V2BoardController_proofs ----------------------
(***************************************************************************)
(* Proofs about V2BoardController, for any revisions, ports, users and     *)
(* numbers of changes.                                                     *)
(***************************************************************************)
EXTENDS V2BoardController, TLAPS

\* First-order leaves go to Zenon; a leaf that needs arithmetic or records says SMT.
USE Zenon

-----------------------------------------------------------------------------
(* What the inbound manager and applyInbound may leave behind.               *)

\* The registered inbound inst is the one described by cur.
Matches(inst, cur) ==
    IF cur = None THEN inst = None
    ELSE \E b \in BOOLEAN : inst = [cfg |-> cur, open |-> b] /\ (b \/ CloseMayFail)

\* Create either registers an open inbound with the configuration it is given, or
\* leaves what was registered, at worst closed.
LEMMA CreateSound ==
    ASSUME NEW cfg, NEW cur, NEW inst, Matches(inst, cur), NEW r \in CreateResults(cfg, inst)
    PROVE  /\ r.err = "ok" => r.inst = [cfg |-> cfg, open |-> TRUE]
           /\ r.err # "ok" => Matches(r.inst, cur)
<1>1. CASE r \in {[err |-> "fail", inst |-> inst], [err |-> "conflict", inst |-> inst]}
  BY <1>1, SMT
<1>2. CASE r = [err |-> "ok", inst |-> [cfg |-> cfg, open |-> TRUE]]
  BY <1>2
<1>3. CASE /\ CloseMayFail /\ inst # None
           /\ r = [err |-> "fail", inst |-> [cfg |-> inst.cfg, open |-> FALSE]]
  <2>1. cur # None BY <1>3 DEF Matches
  <2>2. PICK b \in BOOLEAN : inst = [cfg |-> cur, open |-> b] BY <2>1 DEF Matches
  <2>3. inst.cfg = cur BY <2>2
  <2> QED BY <1>3, <2>1, <2>3 DEF Matches
<1> QED BY <1>1, <1>2, <1>3 DEF CreateResults

\* Every way out of applyInbound leaves current describing what is registered.
LEMMA ApplySound ==
    ASSUME Matches(installed, current), current # None => inboundReady,
           NEW cfg \in Config, NEW o \in ApplyOutcomes(cfg)
    PROVE  /\ Matches(o.inst, o.cur)
           /\ o.ok => o.cur = cfg /\ ~o.lost
           /\ ~o.ok /\ ~o.lost => o.cur = current /\ current # None
           /\ o.lost => o.cur = None
<1>0. cfg # None BY NoneAssumption
<1> DEFINE Good(x) == /\ Matches(x.inst, x.cur)
                      /\ x.ok => x.cur = cfg /\ ~x.lost
                      /\ ~x.ok /\ ~x.lost => x.cur = current /\ current # None
                      /\ x.lost => x.cur = None
<1>1. \A inst : Matches(inst, cfg) => Good(Applied(cfg, inst)) BY DEF Applied
<1>2. Matches([cfg |-> cfg, open |-> TRUE], cfg) BY <1>0 DEF Matches
<1>3. Good(Applied(cfg, [cfg |-> cfg, open |-> TRUE])) BY <1>1, <1>2
<1>4. ASSUME NEW inst, current # None, Matches(inst, current)
      PROVE  Good(Failed(inst))
  BY <1>4 DEF Failed
<1>5. Good(Lost(None, None)) BY DEF Lost, Matches
<1>6. Matches(None, None) BY DEF Matches
<1>7. ASSUME current # None, NEW x \in RestoreOutcomes(None)
      PROVE  Good(x)
  <2>1. PICK r \in CreateResults(current, None) :
             x = IF r.err = "ok" THEN Failed(r.inst) ELSE Lost(r.inst, None)
    BY <1>7 DEF RestoreOutcomes
  <2>2. CASE r.err = "ok"
    <3>1. r.inst = [cfg |-> current, open |-> TRUE] BY <2>2, <1>6, CreateSound
    <3>2. Matches(r.inst, current) BY <3>1, <1>7 DEF Matches
    <3> QED BY <2>1, <2>2, <3>2, <1>4, <1>7
  <2>3. CASE r.err # "ok"
    <3>1. r.inst = None BY <2>3, <1>6, CreateSound DEF Matches
    <3> QED BY <2>1, <2>3, <3>1, <1>5
  <2> QED BY <2>2, <2>3
<1>8. ASSUME current # None, NEW inst, NEW x \in ReplaceOutcomes(cfg, inst)
      PROVE  Good(x)
  <2>1. PICK rm \in RemoveResults(inst) :
          x \in IF rm.err = "fail"
                THEN IF rm.inst # None THEN {Failed(rm.inst)} ELSE RestoreOutcomes(rm.inst)
                ELSE UNION {IF r.err = "ok" THEN {Applied(cfg, r.inst)} ELSE RestoreOutcomes(r.inst) :
                               r \in CreateResults(cfg, rm.inst)}
    BY <1>8 DEF ReplaceOutcomes
  <2>2. rm.inst = None BY SMT DEF RemoveResults
  <2>3. CASE rm.err = "fail" BY <2>1, <2>2, <2>3, <1>7, <1>8
  <2>4. CASE rm.err # "fail"
    <3>1. PICK r \in CreateResults(cfg, None) :
             x \in IF r.err = "ok" THEN {Applied(cfg, r.inst)} ELSE RestoreOutcomes(r.inst)
      BY <2>1, <2>2, <2>4
    <3>2. CASE r.err = "ok"
      <4>1. r.inst = [cfg |-> cfg, open |-> TRUE] BY <3>2, <1>6, CreateSound
      <4> QED BY <3>1, <3>2, <4>1, <1>3
    <3>3. CASE r.err # "ok"
      <4>1. r.inst = None BY <3>3, <1>6, CreateSound DEF Matches
      <4> QED BY <3>1, <3>3, <4>1, <1>7, <1>8
    <3> QED BY <3>2, <3>3
  <2> QED BY <2>3, <2>4
<1>9. PICK r \in CreateResults(cfg, installed) :
         o \in IF r.err = "ok" THEN {Applied(cfg, r.inst)}
               ELSE IF ~inboundReady \/ current = None THEN {Lost(r.inst, current)}
               ELSE IF r.err # "conflict" THEN {Failed(r.inst)}
               ELSE ReplaceOutcomes(cfg, r.inst)
  BY DEF ApplyOutcomes
<1>10. CASE r.err = "ok"
  <2>1. r.inst = [cfg |-> cfg, open |-> TRUE] BY <1>10, CreateSound
  <2> QED BY <1>9, <1>10, <2>1, <1>3
<1>11. CASE r.err # "ok" /\ current = None
  <2>1. r.inst = None BY <1>11, CreateSound DEF Matches
  <2> QED BY <1>9, <1>11, <2>1, <1>5
<1>12. CASE r.err # "ok" /\ current # None
  <2>1. Matches(r.inst, current) BY <1>12, CreateSound
  <2> QED BY <1>9, <1>12, <2>1, <1>4, <1>8
<1> QED BY <1>10, <1>11, <1>12
-----------------------------------------------------------------------------
(* The inductive invariant.                                                  *)

\* Before Close, current describes what is registered and a ready status is about
\* it; between the two locked sections of rebuildInbound it is the configuration
\* just built.  After Close nothing is registered any more.
Serving ==
    /\ ~Closed =>
         /\ Matches(installed, current)
         /\ current # None => inboundReady \/ pc = "commit"
         /\ pc = "commit" => node # None /\ current = [rev |-> node, users |-> activeUsers]
         /\ status.ready => current # None /\ (pc = "commit" \/ current.rev = status.rev)
    /\ pc = "rebuild" /\ activeUsers # {} => node # None
    /\ Closed => installed = None /\ trackedUsers = None /\ ~status.ready

\* A rebuild leaves variables of the type of the fields they stand for.
LEMMA ApplyTypes ==
    ASSUME TypeOK, Serving, ApplyInbound
    PROVE  /\ installed' \in Inbound \cup {None}
           /\ current' \in Config \cup {None}
<1> DEFINE cfg == [rev |-> node, users |-> activeUsers]
<1>1. pc = "rebuild" /\ ~Closed /\ node \in Revs /\ activeUsers \subseteq Users
  BY DEF ApplyInbound, TypeOK, DataTypeOK, Serving
<1>2. cfg \in Config BY <1>1 DEF Config
<1>3. Matches(installed, current) /\ (current # None => inboundReady) BY <1>1 DEF Serving
<1> HIDE DEF cfg
<1>4. PICK o \in ApplyOutcomes(cfg) : installed' = o.inst /\ current' = o.cur /\ TRUE
  BY DEF ApplyInbound, cfg
<1>5. /\ Matches(o.inst, o.cur)
      /\ o.ok => o.cur = cfg
      /\ ~o.ok /\ ~o.lost => o.cur = current
      /\ o.lost => o.cur = None
  BY <1>2, <1>3, ApplySound
<1>6. o.cur \in Config \cup {None} BY <1>2, <1>5 DEF TypeOK, DataTypeOK, FlagTypeOK
<1>7. o.inst \in Inbound \cup {None}
  <2>1. CASE o.cur = None BY <2>1, <1>5 DEF Matches
  <2>2. CASE o.cur # None
    <3>1. PICK b \in BOOLEAN : o.inst = [cfg |-> o.cur, open |-> b] BY <2>2, <1>5 DEF Matches
    <3> QED BY <2>2, <3>1, <1>6, SMT DEF Inbound
  <2> QED BY <2>1, <2>2
<1> QED BY <1>4, <1>6, <1>7

LEMMA UpdateTypes ==
    ASSUME DataTypeOK, NEW b \in BOOLEAN, UpdateAppliedStatus(b)
    PROVE  status' \in Status
<1>1. NotReady \in Status BY DEF NotReady, Status
<1>2. node \in StatusRevs => [ready |-> TRUE, rev |-> node] \in Status BY DEF Status
<1> QED BY <1>1, <1>2 DEF UpdateAppliedStatus

LEMMA UnavailableTypes ==
    ASSUME DataTypeOK, ReportUnavailable
    PROVE  status' \in Status /\ pc' \in {"idle", "notify"}
<1>1. CASE Closed \/ (inboundReady /\ current # None)
  BY <1>1 DEF ReportUnavailable, DataTypeOK, statusVars, serveVars
<1>2. CASE ~(Closed \/ (inboundReady /\ current # None))
  BY <1>2, UpdateTypes DEF ReportUnavailable
<1> QED BY <1>1, <1>2

LEMMA UpdateFlag ==
    ASSUME NEW b \in BOOLEAN, UpdateAppliedStatus(b)
    PROVE  statusSupported' \in BOOLEAN
BY SMT DEF UpdateAppliedStatus

LEMMA RemoveSound ==
    ASSUME NEW inst, NEW rm \in RemoveResults(inst)
    PROVE  rm.inst = None
BY SMT DEF RemoveResults

LEMMA InitInv == Init => TypeOK /\ Serving
<1> SUFFICES ASSUME Init PROVE TypeOK /\ Serving
  OBVIOUS
<1>1. FlagTypeOK BY Zenon DEF Init, FlagTypeOK
<1>2. NotReady \in Status BY DEF NotReady, Status
<1>3. DataTypeOK
  <2>1. changes \in 0..MaxChanges BY BoundAssumption, SMT DEF Init
  <2>2. expired \subseteq Users /\ now \subseteq Users BY DEF Init
  <2>3. users \subseteq Users /\ activeUsers \subseteq Users BY DEF Init
  <2>4. status \in Status /\ message \in Status BY <1>2 DEF Init
  <2>5. pc = "idle" /\ statusPc = "idle" /\ closePc = "open" BY DEF Init
  <2>6. /\ panelStatus = None /\ late = {} /\ nodeTag = None /\ userTag = None
        /\ node = None /\ nodeHash = None /\ userHash = None
        /\ current = None /\ installed = None /\ trackedUsers = None
    BY DEF Init
  <2>7. panelRev \in Revs /\ panelUsers \subseteq Users
    BY FirstAssumption, SMT DEF Init
  <2> QED BY <2>1, <2>2, <2>3, <2>4, <2>5, <2>6, <2>7 DEF DataTypeOK
<1>4. Serving BY DEF Init, Serving, Matches, NotReady, Closed
<1> QED BY <1>1, <1>3, <1>4 DEF TypeOK

\* Every step keeps the flags Boolean.
LEMMA StepFlags == FlagTypeOK /\ [Next]_vars => FlagTypeOK'
<1> SUFFICES ASSUME FlagTypeOK, [Next]_vars PROVE FlagTypeOK'
  OBVIOUS
<1> USE DEF FlagTypeOK
<1>1. CASE PanelChanges
  BY <1>1 DEF PanelChanges,
     panelVars, fetchVars, statusVars, loopVars, wireVars, endVars, serveVars
<1>2. CASE UserExpires
  BY <1>2 DEF UserExpires,
     panelVars, fetchVars, statusVars, loopVars, wireVars, endVars, serveVars
<1>3. CASE Cancel
  BY <1>3 DEF Cancel,
     panelVars, fetchVars, statusVars, loopVars, wireVars, endVars, serveVars
<1>4. CASE PullTimer
  BY <1>4 DEF PullTimer,
     panelVars, fetchVars, statusVars, loopVars, wireVars, endVars, serveVars
<1>5. CASE FetchFails
  BY <1>5 DEF FetchFails, ForgetLocals, fieldVars,
     panelVars, fetchVars, statusVars, loopVars, wireVars, endVars, serveVars
<1>6. CASE FetchNode
  BY <1>6, SMT DEF FetchNode,
     panelVars, fetchVars, statusVars, loopVars, wireVars, endVars, serveVars
<1>7. CASE NodeNotModified
  BY <1>7 DEF NodeNotModified,
     panelVars, fetchVars, statusVars, loopVars, wireVars, endVars, serveVars
<1>8. CASE EmptyUserList
  BY <1>8 DEF EmptyUserList, TakeUsers,
     panelVars, fetchVars, statusVars, loopVars, wireVars, endVars, serveVars
<1>9. CASE FetchUsers
  BY <1>9 DEF FetchUsers, TakeUsers,
     panelVars, fetchVars, statusVars, loopVars, wireVars, endVars, serveVars
<1>10. CASE UsersNotModified
  BY <1>10 DEF UsersNotModified, TakeUsers,
     panelVars, fetchVars, statusVars, loopVars, wireVars, endVars, serveVars
<1>11. CASE FetchUsersFails
  BY <1>11, UpdateFlag DEF FetchUsersFails, ForgetLocals, fieldVars, ReportUnavailable,
     panelVars, fetchVars, statusVars, loopVars, wireVars, endVars, serveVars
<1>12. CASE AliveCancelled
  BY <1>12 DEF AliveCancelled, ForgetLocals, fieldVars,
     panelVars, fetchVars, statusVars, loopVars, wireVars, endVars, serveVars
<1>13. CASE FetchAlive
  BY <1>13 DEF FetchAlive, ForgetLocals, fieldVars,
     panelVars, fetchVars, statusVars, loopVars, wireVars, endVars, serveVars
<1>14. CASE BuildFails
  BY <1>14, UpdateFlag DEF BuildFails, ReportUnavailable,
     panelVars, fetchVars, statusVars, loopVars, wireVars, endVars, serveVars
<1>15. CASE ClearInbound
  <2>1. CASE Closed BY <1>15, <2>1 DEF ClearInbound, fetchVars, statusVars, endVars, serveVars
  <2>2. CASE ~Closed
    <3>1. PICK rm \in RemoveResults(installed) :
             /\ inboundReady' = (rm.err = "ok")
             /\ pendingBuild' = (pendingBuild /\ rm.err # "ok")
      BY <1>15, <2>2 DEF ClearInbound
    <3>2. inboundReady' \in BOOLEAN /\ pendingBuild' \in BOOLEAN BY <3>1
    <3>3. statusSupported' \in BOOLEAN BY <1>15, <2>2, UpdateFlag DEF ClearInbound
    <3> QED BY <1>15, <3>2, <3>3 DEF ClearInbound, fetchVars, endVars, serveVars
  <2> QED BY <2>1, <2>2
<1>16. CASE ApplyInbound
  <2>1. PICK o \in ApplyOutcomes([rev |-> node, users |-> activeUsers]) :
           /\ inboundReady' = (inboundReady /\ ~o.lost)
           /\ IF o.lost THEN UpdateAppliedStatus(FALSE) ELSE UNCHANGED statusVars
    BY <1>16 DEF ApplyInbound
  <2>2. inboundReady' \in BOOLEAN BY <2>1
  <2>3. statusSupported' \in BOOLEAN BY <2>1, UpdateFlag DEF statusVars, serveVars
  <2> QED BY <1>16, <2>2, <2>3 DEF ApplyInbound, fetchVars, endVars, serveVars
<1>17. CASE Commit
  <2>1. statusSupported' \in BOOLEAN BY <1>17, UpdateFlag DEF Commit, CommitUnchecked
  <2> QED BY <1>17, <2>1 DEF Commit, CommitUnchecked, fetchVars, endVars, serveVars
<1>18. CASE RebuildClosed
  BY <1>18 DEF RebuildClosed,
     panelVars, fetchVars, statusVars, loopVars, wireVars, endVars, serveVars
<1>19. CASE Notify
  BY <1>19 DEF Notify,
     panelVars, fetchVars, statusVars, loopVars, wireVars, endVars, serveVars
<1>20. CASE RunStops
  BY <1>20 DEF RunStops, RunStopsEarly,
     panelVars, fetchVars, statusVars, loopVars, wireVars, endVars, serveVars
<1>21. CASE StatusTimer
  BY <1>21 DEF StatusTimer, ReportStatus,
     panelVars, fetchVars, statusVars, loopVars, wireVars, endVars, serveVars
<1>22. CASE StatusWake
  BY <1>22 DEF StatusWake, ReportStatus,
     panelVars, fetchVars, statusVars, loopVars, wireVars, endVars, serveVars
<1>23. CASE StatusDelivered
  BY <1>23 DEF StatusDelivered,
     panelVars, fetchVars, statusVars, loopVars, wireVars, endVars, serveVars
<1>24. CASE StatusFails
  BY <1>24 DEF StatusFails, GivesUp,
     panelVars, fetchVars, statusVars, loopVars, wireVars, endVars, serveVars
<1>25. CASE StatusStops
  BY <1>25 DEF StatusStops,
     panelVars, fetchVars, statusVars, loopVars, wireVars, endVars, serveVars
<1>26. CASE CloseController
  BY <1>26, UpdateFlag DEF CloseController, RemoveResults,
     panelVars, fetchVars, statusVars, loopVars, wireVars, endVars, serveVars
<1>27. CASE FinalReport
  BY <1>27 DEF FinalReport, GivesUp,
     panelVars, fetchVars, statusVars, loopVars, wireVars, endVars, serveVars
<1>28. CASE LateReport
  BY <1>28 DEF LateReport,
     panelVars, fetchVars, statusVars, loopVars, wireVars, endVars, serveVars
<1>29. CASE UNCHANGED vars
  BY <1>29 DEF vars, panelVars, fetchVars, statusVars, loopVars, wireVars, endVars, serveVars
<1> QED
  BY <1>1, <1>2, <1>3, <1>4, <1>5, <1>6, <1>7, <1>8, <1>9, <1>10, <1>11, <1>12, <1>13, <1>14,
     <1>15, <1>16, <1>17, <1>18, <1>19, <1>20, <1>21, <1>22, <1>23, <1>24, <1>25, <1>26, <1>27, <1>28,
     <1>29
  DEF Next, SyncStep, StatusStep, GetNode, GetUsers

\* Every step preserves the types of the data.
LEMMA StepData == TypeOK /\ Serving /\ [Next]_vars => DataTypeOK'
<1> SUFFICES ASSUME DataTypeOK, TypeOK, Serving, [Next]_vars PROVE DataTypeOK'
  BY DEF TypeOK
<1>0. NotReady \in Status BY DEF NotReady, Status
<1> USE DEF DataTypeOK
<1>1. CASE PanelChanges
  BY <1>1, BoundAssumption, SMT
     DEF PanelChanges, panelVars, fetchVars, statusVars, loopVars, wireVars, endVars, serveVars
<1>2. CASE UserExpires
  BY <1>2, BoundAssumption, SMT
     DEF UserExpires, panelVars, fetchVars, statusVars, loopVars, wireVars, endVars, serveVars
<1>3. CASE Cancel
  BY <1>3, SMT
     DEF Cancel, panelVars, fetchVars, statusVars, loopVars, wireVars, endVars, serveVars
<1>4. CASE PullTimer
  BY <1>4, SMT
     DEF PullTimer, panelVars, fetchVars, statusVars, loopVars, wireVars, endVars, serveVars
<1>5. CASE FetchFails
  BY <1>5, SMT
     DEF FetchFails, ForgetLocals, fieldVars, panelVars, fetchVars, statusVars, loopVars, wireVars, endVars, serveVars
<1>6. CASE FetchNode
  BY <1>6, SMT
     DEF FetchNode, panelVars, fetchVars, statusVars, loopVars, wireVars, endVars, serveVars
<1>7. CASE NodeNotModified
  BY <1>7, SMT
     DEF NodeNotModified, panelVars, fetchVars, statusVars, loopVars, wireVars, endVars, serveVars
<1>8. CASE EmptyUserList
  BY <1>8, SMT
     DEF EmptyUserList, TakeUsers, panelVars, fetchVars, statusVars, loopVars, wireVars, endVars, serveVars
<1>9. CASE FetchUsers
  BY <1>9, SMT
     DEF FetchUsers, TakeUsers, panelVars, fetchVars, statusVars, loopVars, wireVars, endVars, serveVars
<1>10. CASE UsersNotModified
  BY <1>10, SMT
     DEF UsersNotModified, TakeUsers, panelVars, fetchVars, statusVars, loopVars, wireVars, endVars, serveVars
<1>11. CASE FetchUsersFails
  BY <1>11, UnavailableTypes, SMT
     DEF FetchUsersFails, ForgetLocals, fieldVars, panelVars, fetchVars, statusVars, loopVars, wireVars, endVars, serveVars
<1>12. CASE AliveCancelled
  BY <1>12, SMT
     DEF AliveCancelled, ForgetLocals, fieldVars, panelVars, fetchVars, statusVars, loopVars, wireVars, endVars, serveVars
<1>13. CASE FetchAlive
  BY <1>13, SMT
     DEF FetchAlive, ForgetLocals, fieldVars, panelVars, fetchVars, statusVars, loopVars, wireVars, endVars, serveVars
<1>14. CASE BuildFails
  BY <1>14, UnavailableTypes, SMTT(60)
     DEF BuildFails, panelVars, fetchVars, statusVars, loopVars, wireVars, endVars, serveVars
<1>15. CASE ClearInbound
  <2>1. CASE Closed
    BY <1>15, <2>1, SMT
       DEF ClearInbound, panelVars, fetchVars, statusVars, loopVars, wireVars, endVars, serveVars
  <2>2. CASE ~Closed
    <3>1. PICK rm \in RemoveResults(installed) : installed' = rm.inst
      BY <1>15, <2>2 DEF ClearInbound
    <3>2. installed' = None BY <3>1, RemoveSound
    <3>3. status' \in Status BY <1>15, <2>2, UpdateTypes DEF ClearInbound
    <3>4. current' = None /\ trackedUsers' = {} /\ pc' = "notify"
      BY <1>15, <2>2 DEF ClearInbound
    <3> QED BY <1>15, <3>2, <3>3, <3>4, SMTT(60)
               DEF ClearInbound, panelVars, fetchVars, loopVars, wireVars, endVars, serveVars
  <2> QED BY <2>1, <2>2
<1>16. CASE ApplyInbound
  <2>1. PICK o \in ApplyOutcomes([rev |-> node, users |-> activeUsers]) :
           /\ pc' = IF o.ok THEN "commit" ELSE IF o.lost THEN "notify" ELSE "idle"
           /\ IF o.lost THEN UpdateAppliedStatus(FALSE) ELSE UNCHANGED statusVars
    BY <1>16 DEF ApplyInbound
  <2>2. pc' \in {"commit", "notify", "idle"}
    BY <2>1
  <2>3. status' \in Status
    BY <2>1, UpdateTypes DEF statusVars, serveVars
  <2>4. UNCHANGED <<panelVars, fetchVars, loopVars, endVars, pendingBuild, statusWake, trackedUsers>>
    BY <1>16 DEF ApplyInbound
  <2> QED BY <1>16, <2>2, <2>3, <2>4, ApplyTypes, SMT
             DEF panelVars, fetchVars, loopVars, wireVars, endVars, serveVars
<1>17. CASE Commit
  <2>1. status' \in Status BY <1>17, UpdateTypes DEF Commit, CommitUnchecked
  <2> QED BY <1>17, <2>1, SMTT(60)
             DEF Commit, CommitUnchecked, panelVars, fetchVars, loopVars, wireVars, endVars, serveVars
<1>18. CASE RebuildClosed
  BY <1>18, SMT
     DEF RebuildClosed, panelVars, fetchVars, statusVars, loopVars, wireVars, endVars, serveVars
<1>19. CASE Notify
  BY <1>19, SMT
     DEF Notify, panelVars, fetchVars, statusVars, loopVars, wireVars, endVars, serveVars
<1>20. CASE RunStops
  BY <1>20, SMT
     DEF RunStops, RunStopsEarly, panelVars, fetchVars, statusVars, loopVars, wireVars, endVars, serveVars
<1>21. CASE StatusTimer
  BY <1>21, SMT
     DEF StatusTimer, ReportStatus, panelVars, fetchVars, statusVars, loopVars, wireVars, endVars, serveVars
<1>22. CASE StatusWake
  BY <1>22, SMT
     DEF StatusWake, ReportStatus, panelVars, fetchVars, statusVars, loopVars, wireVars, endVars, serveVars
<1>23. CASE StatusDelivered
  BY <1>23, SMT
     DEF StatusDelivered, panelVars, fetchVars, statusVars, loopVars, wireVars, endVars, serveVars
<1>24. CASE StatusFails
  BY <1>24, SMT
     DEF StatusFails, GivesUp, panelVars, fetchVars, statusVars, loopVars, wireVars, endVars, serveVars
<1>25. CASE StatusStops
  BY <1>25, SMT
     DEF StatusStops, panelVars, fetchVars, statusVars, loopVars, wireVars, endVars, serveVars
<1>26. CASE CloseController
  <2>1. PICK rm \in RemoveResults(installed) : installed' = rm.inst
    BY <1>26 DEF CloseController
  <2>2. installed' = None BY <2>1, RemoveSound
  <2>3. status' \in Status BY <1>26, UpdateTypes DEF CloseController
  <2>4. closePc' \in {"final", "done"} /\ trackedUsers' = None BY <1>26 DEF CloseController
  <2>5. UNCHANGED <<panelVars, fetchVars, loopVars, current, pc>> BY <1>26 DEF CloseController
  <2> QED BY <2>2, <2>3, <2>4, <2>5, SMT DEF panelVars, fetchVars, loopVars, wireVars
<1>27. CASE FinalReport
  BY <1>27, <1>0, SMT
     DEF FinalReport, GivesUp, panelVars, fetchVars, statusVars, loopVars, wireVars, endVars, serveVars
<1>28. CASE LateReport
  BY <1>28, SMT
     DEF LateReport, panelVars, fetchVars, statusVars, loopVars, wireVars, endVars, serveVars
<1>29. CASE UNCHANGED vars
  BY <1>29, SMT
     DEF vars, panelVars, fetchVars, statusVars, loopVars, wireVars, endVars, serveVars
<1> QED
  BY <1>1, <1>2, <1>3, <1>4, <1>5, <1>6, <1>7, <1>8, <1>9, <1>10, <1>11, <1>12, <1>13, <1>14,
     <1>15, <1>16, <1>17, <1>18, <1>19, <1>20, <1>21, <1>22, <1>23, <1>24, <1>25, <1>26, <1>27, <1>28,
     <1>29
  DEF Next, SyncStep, StatusStep, GetNode, GetUsers
-----------------------------------------------------------------------------
(* Every step preserves Serving.                                             *)

\* A step that leaves the inbound and the status alone, and neither enters nor
\* leaves the section between applyInbound and the commit.
LEMMA ServingFrame ==
    ASSUME Serving,
           UNCHANGED <<installed, current, inboundReady, status, closePc, trackedUsers>>,
           pc' = "commit" <=> pc = "commit",
           pc = "commit" => UNCHANGED <<node, activeUsers>>,
           pc' = "rebuild" /\ activeUsers' # {} => node' # None
    PROVE  Serving'
BY DEF Serving, Closed, Matches

\* reportUnavailableStatusBestEffort never gives up an inbound that is there.
LEMMA UnavailableServing ==
    ASSUME Serving, ReportUnavailable, pc # "commit",
           UNCHANGED <<installed, current, closePc, trackedUsers>>
    PROVE  Serving'
<1>1. pc' \in {"idle", "notify"} BY DEF ReportUnavailable
<1>2. CASE Closed \/ (inboundReady /\ current # None)
  <2>1. UNCHANGED <<inboundReady, status>> BY <1>2 DEF ReportUnavailable, statusVars, serveVars
  <2> QED BY <1>1, <2>1, ServingFrame
<1>3. CASE ~Closed /\ ~(inboundReady /\ current # None)
  <2>1. current = None BY <1>3 DEF Serving
  <2>2. ~status'.ready BY <1>3, SMT
                          DEF ReportUnavailable, UpdateAppliedStatus, NotReady
  <2> QED BY <1>1, <1>3, <2>1, <2>2 DEF Serving, Closed, Matches
<1> QED BY <1>2, <1>3

LEMMA StepServing == TypeOK /\ Serving /\ [Next]_vars => Serving'
<1> SUFFICES ASSUME DataTypeOK, Serving, [Next]_vars PROVE Serving'
  BY DEF TypeOK
<1>1. CASE PanelChanges
  BY <1>1, ServingFrame DEF PanelChanges, fetchVars, statusVars, endVars, serveVars, Serving
<1>2. CASE UserExpires
  BY <1>2, ServingFrame DEF UserExpires, fetchVars, statusVars, endVars, serveVars, Serving
<1>3. CASE Cancel
  BY <1>3, ServingFrame DEF Cancel, fetchVars, statusVars, endVars, serveVars, Serving
<1>4. CASE PullTimer
  BY <1>4, ServingFrame DEF PullTimer, fetchVars, statusVars, endVars, serveVars, Serving
<1>5. CASE FetchFails
  BY <1>5, ServingFrame DEF FetchFails, ForgetLocals, fieldVars, fetchVars, statusVars, endVars, serveVars, Serving
<1>6. CASE FetchNode
  BY <1>6, ServingFrame DEF FetchNode, fetchVars, statusVars, endVars, serveVars, Serving
<1>7. CASE NodeNotModified
  BY <1>7, ServingFrame DEF NodeNotModified, fetchVars, statusVars, endVars, serveVars, Serving
<1>8. CASE EmptyUserList
  BY <1>8, ServingFrame DEF EmptyUserList, TakeUsers, fetchVars, statusVars, endVars, serveVars, Serving
<1>9. CASE FetchUsers
  BY <1>9, ServingFrame DEF FetchUsers, TakeUsers, fetchVars, statusVars, endVars, serveVars, Serving
<1>10. CASE UsersNotModified
  BY <1>10, ServingFrame DEF UsersNotModified, TakeUsers, fetchVars, statusVars, endVars, serveVars, Serving
<1>11. CASE FetchUsersFails BY <1>11, UnavailableServing DEF FetchUsersFails, ForgetLocals, fieldVars, endVars, serveVars
<1>12. CASE AliveCancelled
  BY <1>12, ServingFrame DEF AliveCancelled, ForgetLocals, fieldVars, fetchVars, statusVars, endVars, serveVars, Serving
<1>13. CASE FetchAlive
  BY <1>13, ServingFrame DEF FetchAlive, ForgetLocals, fieldVars, fetchVars, statusVars, endVars, serveVars, Serving
<1>14. CASE BuildFails BY <1>14, UnavailableServing DEF BuildFails, endVars, serveVars
<1>15. CASE ClearInbound
  <2>1. CASE Closed BY <1>15, <2>1, ServingFrame DEF ClearInbound, statusVars, endVars, serveVars
  <2>2. CASE ~Closed
    <3>1. PICK rm \in RemoveResults(installed) : installed' = rm.inst
      BY <1>15, <2>2 DEF ClearInbound
    <3>2. installed' = None BY <3>1, RemoveSound
    <3>3. ~status'.ready BY <1>15, <2>2, SMT
                            DEF ClearInbound, UpdateAppliedStatus, NotReady
    <3> QED BY <1>15, <2>2, <3>2, <3>3 DEF ClearInbound, endVars, serveVars, Serving, Closed, Matches
  <2> QED BY <2>1, <2>2
<1>16. CASE ApplyInbound
  <2> DEFINE cfg == [rev |-> node, users |-> activeUsers]
  <2>1. pc = "rebuild" /\ ~Closed /\ node \in Revs /\ activeUsers \subseteq Users
    BY <1>16 DEF ApplyInbound, DataTypeOK, Serving
  <2>2. cfg \in Config BY <2>1 DEF Config
  <2>3. Matches(installed, current) /\ (current # None => inboundReady) BY <2>1 DEF Serving
  <2>4. PICK o \in ApplyOutcomes(cfg) :
           /\ installed' = o.inst
           /\ current' = o.cur
           /\ pc' = IF o.ok THEN "commit" ELSE IF o.lost THEN "notify" ELSE "idle"
           /\ inboundReady' = (inboundReady /\ ~o.lost)
           /\ IF o.lost THEN UpdateAppliedStatus(FALSE) ELSE UNCHANGED statusVars
    BY <1>16 DEF ApplyInbound
  <2>5. UNCHANGED <<node, activeUsers, closePc>> BY <1>16 DEF ApplyInbound, fetchVars, endVars, serveVars
  <2>6. cfg # None BY <2>2, NoneAssumption
  <2> HIDE DEF cfg
  <2>7. /\ Matches(o.inst, o.cur)
        /\ o.ok => o.cur = cfg /\ ~o.lost
        /\ ~o.ok /\ ~o.lost => o.cur = current /\ current # None
        /\ o.lost => o.cur = None
    BY <2>2, <2>3, ApplySound
  <2>8. Matches(installed, current)' BY <2>4, <2>7 DEF Matches
  <2>9. CASE o.ok
    <3>1. current' = cfg /\ pc' = "commit" /\ status' = status
      BY <2>4, <2>7, <2>9 DEF statusVars, serveVars
    <3>2. cfg = [rev |-> node', users |-> activeUsers'] /\ node' # None
      BY <2>1, <2>5, RevsAssumption DEF cfg
    <3> QED BY <2>1, <2>5, <2>6, <2>8, <3>1, <3>2 DEF Serving, Closed
  <2>10. CASE ~o.ok /\ o.lost
    <3>1. current' = None /\ pc' = "notify" /\ ~status'.ready
      BY <2>4, <2>7, <2>10, SMT DEF UpdateAppliedStatus, NotReady
    <3> QED BY <2>1, <2>5, <2>8, <3>1 DEF Serving, Closed
  <2>11. CASE ~o.ok /\ ~o.lost
    <3>1. current' = current /\ pc' = "idle" /\ status' = status /\ (inboundReady => inboundReady')
      BY <2>4, <2>7, <2>11 DEF statusVars, serveVars
    <3> QED BY <2>1, <2>3, <2>5, <2>8, <3>1 DEF Serving, Closed
  <2> QED BY <2>7, <2>9, <2>10, <2>11
<1>17. CASE Commit
  <2>1. ~Closed /\ pc = "commit" /\ pc' = "notify" /\ inboundReady'
    BY <1>17 DEF Commit, CommitUnchecked
  <2>2. UNCHANGED <<installed, current, closePc, node, activeUsers>>
    BY <1>17 DEF Commit, CommitUnchecked, fetchVars, endVars, serveVars
  <2>3. node # None /\ current.rev = node /\ current # None BY <2>1, NoneAssumption, SMTT(60)
                                                               DEF Serving, Config, DataTypeOK
  <2>4. status'.ready => status'.rev = node
    BY <1>17 DEF Commit, CommitUnchecked, UpdateAppliedStatus, NotReady
  <2> QED BY <2>1, <2>2, <2>3, <2>4 DEF Serving, Closed, Matches
<1>18. CASE RebuildClosed
  BY <1>18 DEF RebuildClosed, statusVars, endVars, serveVars, Serving, Closed
<1>19. CASE Notify
  BY <1>19, ServingFrame DEF Notify, fetchVars, statusVars, endVars, serveVars, Serving
<1>20. CASE RunStops
  BY <1>20, ServingFrame DEF RunStops, RunStopsEarly, fetchVars, statusVars, endVars, serveVars, Serving
<1>21. CASE StatusTimer
  BY <1>21, ServingFrame DEF StatusTimer, ReportStatus, fetchVars, statusVars, endVars, serveVars, Serving
<1>22. CASE StatusWake
  BY <1>22, ServingFrame DEF StatusWake, ReportStatus, fetchVars, statusVars, endVars, serveVars, Serving
<1>23. CASE StatusDelivered
  BY <1>23, ServingFrame DEF StatusDelivered, fetchVars, statusVars, endVars, serveVars, Serving
<1>24. CASE StatusFails
  BY <1>24, ServingFrame DEF StatusFails, GivesUp, fetchVars, statusVars, endVars, serveVars, Serving
<1>25. CASE StatusStops
  BY <1>25, ServingFrame DEF StatusStops, fetchVars, statusVars, endVars, serveVars, Serving
<1>26. CASE CloseController
  <2>1. PICK rm \in RemoveResults(installed) : installed' = rm.inst
    BY <1>26 DEF CloseController
  <2>2. installed' = None BY <2>1, RemoveSound
  <2>3. ~status'.ready BY <1>26 DEF CloseController, UpdateAppliedStatus, NotReady
  <2>4. Closed' BY <1>26 DEF CloseController, Closed
  <2> QED BY <1>26, <2>2, <2>3, <2>4 DEF CloseController, Serving, fetchVars, serveVars
<1>27. CASE FinalReport
  BY <1>27 DEF FinalReport, GivesUp, fetchVars, statusVars, serveVars, Serving, Closed
<1>28. CASE LateReport
  BY <1>28, ServingFrame DEF LateReport, fetchVars, statusVars, endVars, serveVars, Serving
<1>29. CASE UNCHANGED vars
  BY <1>29, ServingFrame DEF vars, fetchVars, statusVars, endVars, serveVars, Serving
<1> QED
  BY <1>1, <1>2, <1>3, <1>4, <1>5, <1>6, <1>7, <1>8, <1>9, <1>10, <1>11, <1>12, <1>13, <1>14,
     <1>15, <1>16, <1>17, <1>18, <1>19, <1>20, <1>21, <1>22, <1>23, <1>24, <1>25, <1>26, <1>27, <1>28,
     <1>29
  DEF Next, SyncStep, StatusStep, GetNode, GetUsers
-----------------------------------------------------------------------------
(* The theorems.                                                             *)

IndInv == TypeOK /\ Serving

THEOREM IndInvHolds == Spec => []IndInv
<1>1. Init => IndInv BY InitInv DEF IndInv
<1>2. IndInv /\ [Next]_vars => IndInv' BY StepFlags, StepData, StepServing DEF IndInv, TypeOK
<1> QED BY <1>1, <1>2, PTL DEF Spec

\* Type correctness of the controller.
THEOREM TypeCorrect == Spec => []TypeOK
<1>1. IndInv => TypeOK BY DEF IndInv
<1> QED BY <1>1, IndInvHolds, PTL

\* After any sequence of failed and successful Create, Remove and restore calls,
\* current and inboundReady describe what the inbound manager has registered.
THEOREM ControllerKnowsInbound == Spec => []CurrentIsInstalled
<1>1. Serving /\ TypeOK => CurrentIsInstalled
  <2> SUFFICES ASSUME Serving, TypeOK, ~Closed PROVE CurrentIsInstalled
    BY DEF CurrentIsInstalled
  <2>1. CASE current = None BY <2>1 DEF Serving, Matches, CurrentIsInstalled
  <2>2. CASE current # None
    <3>1. PICK b \in BOOLEAN : installed = [cfg |-> current, open |-> b]
      BY <2>2 DEF Serving, Matches
    <3>2. installed # None
      <4>1. installed \in Inbound BY <2>2, <3>1 DEF Inbound, TypeOK, DataTypeOK
      <4> QED BY <4>1, NoneAssumption
    <3>3. installed.cfg = current BY <3>1
    <3> QED BY <2>2, <3>2, <3>3 DEF Serving, CurrentIsInstalled
  <2> QED BY <2>1, <2>2
<1> QED BY <1>1, IndInvHolds, PTL DEF IndInv

\* If no inbound's Close fails, every ready status the controller can report names
\* the revision of an inbound that is registered and open.
THEOREM ReadyIsTrue == ~CloseMayFail => (Spec => []StatusTruthful)
<1> SUFFICES ASSUME ~CloseMayFail PROVE Spec => []StatusTruthful
  OBVIOUS
<1>1. Serving /\ TypeOK => StatusTruthful
  <2> SUFFICES ASSUME Serving, TypeOK, status.ready PROVE StatusTruthful
    BY DEF StatusTruthful
  <2>1. ~Closed /\ current # None BY DEF Serving
  <2>2. PICK b \in BOOLEAN : installed = [cfg |-> current, open |-> b] /\ b
    BY <2>1 DEF Serving, Matches
  <2>3. installed # None
    <3>1. installed \in Inbound BY <2>1, <2>2 DEF Inbound, TypeOK, DataTypeOK
    <3> QED BY <3>1, NoneAssumption
  <2>4. installed.open BY <2>2
  <2>5. installed.cfg = current BY <2>2
  <2> QED BY <2>1, <2>3, <2>4, <2>5 DEF Serving, StatusTruthful
<1> QED BY <1>1, IndInvHolds, PTL DEF IndInv

\* Close is final even if it runs while a sync is under way: neither the inbound nor
\* the tracker's node comes back.
THEOREM CloseIsFinal == Spec => []CloseReleases
<1>1. IndInv => CloseReleases BY DEF IndInv, Serving, CloseReleases
<1> QED BY <1>1, IndInvHolds, PTL
-----------------------------------------------------------------------------
(* The wake-up channel.                                                      *)

\* NoLostWake, strengthened: it holds before the first configuration because
\* nothing but not-ready was ever set or read.
WakeInv ==
    /\ ~Closed /\ status # message => statusWake \/ pc = "notify"
    /\ node = None => status = NotReady /\ message = NotReady

\* A step that touches neither the status nor what was read of it.
LEMMA WakeFrame ==
    ASSUME WakeInv, UNCHANGED <<status, message, closePc>>,
           statusWake => statusWake', pc = "notify" => pc' = "notify",
           node' = None => node = None
    PROVE  WakeInv'
BY DEF WakeInv, Closed

\* A step that may change the status and then notifies.
LEMMA WakeNotify ==
    ASSUME WakeInv, UNCHANGED <<message, node>>, pc' = "notify",
           node = None => status' = NotReady
    PROVE  WakeInv'
BY DEF WakeInv

LEMMA StepWake ==
    ASSUME StatusRevs = Revs
    PROVE  TypeOK /\ Serving /\ WakeInv /\ [Next]_vars => WakeInv'
<1> SUFFICES ASSUME DataTypeOK, Serving, WakeInv, [Next]_vars PROVE WakeInv'
  BY DEF TypeOK
<1>0. \A b \in BOOLEAN : UpdateAppliedStatus(b) => (node = None => status' = NotReady)
  BY RevsAssumption DEF UpdateAppliedStatus
<1>1. CASE PanelChanges
  BY <1>1, WakeFrame DEF PanelChanges, fetchVars, statusVars, loopVars, wireVars, endVars, serveVars
<1>2. CASE UserExpires
  BY <1>2, WakeFrame DEF UserExpires, fetchVars, statusVars, loopVars, wireVars, endVars, serveVars
<1>3. CASE Cancel
  BY <1>3, WakeFrame DEF Cancel, fetchVars, statusVars, loopVars, wireVars, endVars, serveVars
<1>4. CASE PullTimer
  BY <1>4, WakeFrame DEF PullTimer, fetchVars, statusVars, loopVars, wireVars, endVars, serveVars
<1>5. CASE FetchFails
  BY <1>5, WakeFrame DEF FetchFails, ForgetLocals, fieldVars, fetchVars, statusVars, loopVars, wireVars, endVars, serveVars
<1>6. CASE FetchNode
  BY <1>6, WakeFrame, RevsAssumption DEF FetchNode, loopVars, wireVars, endVars, serveVars, DataTypeOK
<1>7. CASE NodeNotModified
  BY <1>7, WakeFrame DEF NodeNotModified, fetchVars, statusVars, loopVars, wireVars, endVars, serveVars
<1>8. CASE EmptyUserList
  BY <1>8, WakeFrame DEF EmptyUserList, TakeUsers, fetchVars, statusVars, loopVars, wireVars, endVars, serveVars
<1>9. CASE FetchUsers
  BY <1>9, WakeFrame DEF FetchUsers, TakeUsers, fetchVars, statusVars, loopVars, wireVars, endVars, serveVars
<1>10. CASE UsersNotModified
  BY <1>10, WakeFrame DEF UsersNotModified, TakeUsers, fetchVars, statusVars, loopVars, wireVars, endVars, serveVars
<1>11. CASE FetchUsersFails
  <2>1. UNCHANGED <<message, node, closePc, statusWake>> /\ pc # "notify"
    BY <1>11 DEF FetchUsersFails, ForgetLocals, fieldVars, loopVars, wireVars, fetchVars, endVars, serveVars
  <2>2. CASE UNCHANGED status
    BY <2>1, <2>2, WakeFrame
  <2>3. CASE pc' = "notify" /\ UpdateAppliedStatus(FALSE)
    BY <1>0, <2>1, <2>3, WakeNotify
  <2> QED BY <1>11, <2>2, <2>3 DEF FetchUsersFails, ForgetLocals, fieldVars, ReportUnavailable, statusVars, serveVars
<1>12. CASE AliveCancelled
  BY <1>12, WakeFrame DEF AliveCancelled, ForgetLocals, fieldVars, fetchVars, statusVars, loopVars, wireVars, endVars, serveVars
<1>13. CASE FetchAlive
  BY <1>13, WakeFrame DEF FetchAlive, ForgetLocals, fieldVars, fetchVars, statusVars, loopVars, wireVars, endVars, serveVars
<1>14. CASE BuildFails
  <2>1. UNCHANGED <<message, node, closePc, statusWake>> /\ pc # "notify"
    BY <1>14 DEF BuildFails, loopVars, wireVars, fetchVars, endVars, serveVars
  <2>2. CASE UNCHANGED status
    BY <2>1, <2>2, WakeFrame
  <2>3. CASE pc' = "notify" /\ UpdateAppliedStatus(FALSE)
    BY <1>0, <2>1, <2>3, WakeNotify
  <2> QED BY <1>14, <2>2, <2>3 DEF BuildFails, ReportUnavailable, statusVars, serveVars
<1>15. CASE ClearInbound
  <2>1. CASE Closed
    BY <1>15, <2>1, WakeFrame DEF ClearInbound, statusVars, loopVars, wireVars, fetchVars, endVars, serveVars
  <2>2. CASE ~Closed
    BY <1>15, <1>0, <2>2, WakeNotify DEF ClearInbound, loopVars, wireVars, fetchVars, serveVars
  <2> QED BY <2>1, <2>2
<1>16. CASE ApplyInbound
  <2>1. UNCHANGED <<message, node, closePc, statusWake>> /\ pc # "notify"
    BY <1>16 DEF ApplyInbound, loopVars, wireVars, fetchVars, endVars, serveVars
  <2>2. PICK o \in ApplyOutcomes([rev |-> node, users |-> activeUsers]) :
           /\ pc' = IF o.ok THEN "commit" ELSE IF o.lost THEN "notify" ELSE "idle"
           /\ IF o.lost THEN UpdateAppliedStatus(FALSE) ELSE UNCHANGED statusVars
           /\ o.ok => ~o.lost
    <3>1. [rev |-> node, users |-> activeUsers] \in Config
      BY <1>16 DEF ApplyInbound, DataTypeOK, Serving, Config
    <3>2. Matches(installed, current) /\ (current # None => inboundReady)
      BY <1>16 DEF ApplyInbound, Serving
    <3>3. \A o \in ApplyOutcomes([rev |-> node, users |-> activeUsers]) : o.ok => ~o.lost
      BY <3>1, <3>2, ApplySound
    <3> QED BY <1>16, <3>3 DEF ApplyInbound
  <2>3. CASE o.lost BY <1>0, <2>1, <2>2, <2>3, WakeNotify
  <2>4. CASE ~o.lost BY <2>1, <2>2, <2>4, WakeFrame DEF statusVars, serveVars
  <2> QED BY <2>3, <2>4
<1>17. CASE Commit
  BY <1>17, <1>0, WakeNotify DEF Commit, CommitUnchecked, loopVars, wireVars, fetchVars, serveVars
<1>18. CASE RebuildClosed
  BY <1>18, WakeFrame DEF RebuildClosed, statusVars, loopVars, wireVars, fetchVars, endVars, serveVars
<1>19. CASE Notify
  BY <1>19 DEF Notify, statusVars, loopVars, wireVars, fetchVars, endVars, serveVars, WakeInv, Closed
<1>20. CASE RunStops
  BY <1>20, WakeFrame DEF RunStops, RunStopsEarly, fetchVars, statusVars, loopVars, wireVars, endVars, serveVars
<1>21. CASE StatusTimer
  <2>1. UNCHANGED <<status, node, closePc, pc>> BY <1>21 DEF StatusTimer, statusVars, fetchVars, endVars, serveVars
  <2>2. CASE Closed
    BY <1>21, <2>1, <2>2 DEF StatusTimer, ReportStatus, WakeInv, Closed
  <2>3. CASE ~Closed /\ ~statusSupported /\ node \notin StatusRevs
    <3>1. node = None BY <2>3 DEF DataTypeOK
    <3>2. message' = message BY <1>21, <2>3 DEF StatusTimer, ReportStatus
    <3> QED BY <2>1, <3>1, <3>2 DEF WakeInv
  <2>4. CASE ~Closed /\ ~(~statusSupported /\ node \notin StatusRevs)
    <3>1. message' = status BY <1>21, <2>4 DEF StatusTimer, ReportStatus
    <3> QED BY <2>1, <3>1 DEF WakeInv
  <2> QED BY <2>2, <2>3, <2>4
<1>22. CASE StatusWake
  <2>1. UNCHANGED <<status, node, closePc, pc>> BY <1>22 DEF StatusWake, statusVars, fetchVars, endVars, serveVars
  <2>2. CASE Closed
    BY <1>22, <2>1, <2>2 DEF StatusWake, ReportStatus, WakeInv, Closed
  <2>3. CASE ~Closed /\ ~statusSupported /\ node \notin StatusRevs
    <3>1. node = None BY <2>3 DEF DataTypeOK
    <3>2. message' = message BY <1>22, <2>3 DEF StatusWake, ReportStatus
    <3> QED BY <2>1, <3>1, <3>2 DEF WakeInv
  <2>4. CASE ~Closed /\ ~(~statusSupported /\ node \notin StatusRevs)
    <3>1. message' = status BY <1>22, <2>4 DEF StatusWake, ReportStatus
    <3> QED BY <2>1, <3>1 DEF WakeInv
  <2> QED BY <2>2, <2>3, <2>4
<1>23. CASE StatusDelivered
  BY <1>23, WakeFrame DEF StatusDelivered, fetchVars, statusVars, loopVars, wireVars, endVars, serveVars
<1>24. CASE StatusFails
  BY <1>24, WakeFrame DEF StatusFails, GivesUp, fetchVars, statusVars, loopVars, wireVars, endVars, serveVars
<1>25. CASE StatusStops
  BY <1>25, WakeFrame DEF StatusStops, fetchVars, statusVars, loopVars, wireVars, endVars, serveVars
<1>26. CASE CloseController
  <2>1. Closed' /\ UNCHANGED <<message, node>>
    BY <1>26 DEF CloseController, Closed, loopVars, wireVars, fetchVars, serveVars
  <2>2. node = None => status' = NotReady BY <1>26, <1>0 DEF CloseController
  <2> QED BY <2>1, <2>2 DEF WakeInv
<1>27. CASE FinalReport
  BY <1>27 DEF FinalReport, GivesUp, fetchVars, statusVars, serveVars, WakeInv, Closed
<1>28. CASE LateReport
  BY <1>28, WakeFrame DEF LateReport, fetchVars, statusVars, endVars, serveVars
<1>29. CASE UNCHANGED vars
  BY <1>29, WakeFrame DEF vars, fetchVars, statusVars, loopVars, wireVars, endVars, serveVars
<1> QED
  BY <1>1, <1>2, <1>3, <1>4, <1>5, <1>6, <1>7, <1>8, <1>9, <1>10, <1>11, <1>12, <1>13, <1>14,
     <1>15, <1>16, <1>17, <1>18, <1>19, <1>20, <1>21, <1>22, <1>23, <1>24, <1>25, <1>26, <1>27, <1>28,
     <1>29
  DEF Next, SyncStep, StatusStep, GetNode, GetUsers

\* While every configuration of the node reports its status, no wake-up of the status
\* goroutine is lost, however its reads interleave with sync.
THEOREM WakeIsNotLost == StatusRevs = Revs => (Spec => []NoLostWake)
<1> SUFFICES ASSUME StatusRevs = Revs PROVE Spec => []NoLostWake
  OBVIOUS
<1>1. Init => WakeInv BY DEF Init, WakeInv
<1>2. IndInv /\ WakeInv /\ [Next]_vars => WakeInv' BY StepWake DEF IndInv
<1>3. WakeInv => NoLostWake BY DEF WakeInv, NoLostWake
<1> QED BY <1>1, <1>2, <1>3, IndInvHolds, PTL DEF Spec

-----------------------------------------------------------------------------
(* The order of the end: the status goroutine, Run, Controller.Close.        *)

\* Run waits for the status goroutine, and Service.Close for Run.
EndsInOrder ==
    /\ pc = "stopped" => statusPc = "stopped"
    /\ Closed => pc = "stopped"

\* A step of sync begins before Run has returned, and only RunStops returns.
LEMMA SyncBeforeStop ==
    ASSUME SyncStep
    PROVE  /\ pc # "stopped" /\ UNCHANGED <<statusPc, wireVars, closePc>>
           /\ pc' = "stopped" => statusPc = "stopped"
<1> USE DEF loopVars, wireVars, endVars
<1>1. CASE PullTimer \/ FetchFails \/ FetchNode \/ NodeNotModified
    BY <1>1 DEF PullTimer, FetchFails, FetchNode, NodeNotModified
<1>2. CASE EmptyUserList \/ FetchUsers \/ UsersNotModified
    BY <1>2 DEF EmptyUserList, FetchUsers, UsersNotModified, TakeUsers
<1>3. ReportUnavailable => pc' # "stopped" BY DEF ReportUnavailable
<1>4. CASE FetchUsersFails \/ BuildFails
    BY <1>3, <1>4 DEF FetchUsersFails, ForgetLocals, fieldVars, BuildFails
<1>5. CASE AliveCancelled \/ RebuildClosed \/ Notify
    BY <1>5 DEF AliveCancelled, ForgetLocals, fieldVars, RebuildClosed, Notify
<1>6. CASE FetchAlive BY <1>6 DEF FetchAlive, ForgetLocals, fieldVars
<1>7. CASE ClearInbound BY <1>7 DEF ClearInbound
<1>8. CASE ApplyInbound BY <1>8 DEF ApplyInbound
<1>9. CASE Commit BY <1>9 DEF Commit, CommitUnchecked
<1>10. CASE RunStops BY <1>10 DEF RunStops, RunStopsEarly
<1> QED
  BY <1>1, <1>2, <1>4, <1>5, <1>6, <1>7, <1>8, <1>9, <1>10
  DEF SyncStep, GetNode, GetUsers

\* The status goroutine that has stopped takes no step, and none of its steps is Run's.
LEMMA StatusBeforeStop ==
    ASSUME StatusStep
    PROVE  statusPc # "stopped" /\ UNCHANGED <<pc, closePc>>
BY DEF StatusStep, StatusTimer, StatusWake, StatusDelivered, StatusFails, StatusStops, endVars

LEMMA StepEnds ==
    ASSUME CloseWaits, EndsInOrder, [Next]_vars
    PROVE  /\ EndsInOrder'
           /\ Closed => SendsNotReadyOnly
<1> USE DEF EndsInOrder, Closed
<1>0. UNCHANGED wireVars => SendsNotReadyOnly BY DEF SendsNotReadyOnly, wireVars
<1>1. CASE SyncStep BY <1>0, <1>1, SyncBeforeStop
<1>2. CASE StatusStep BY <1>2, StatusBeforeStop
<1>3. CASE PanelChanges \/ UserExpires \/ Cancel \/ UNCHANGED vars
  <2>1. UNCHANGED <<pc, statusPc, wireVars, closePc>>
      BY <1>3 DEF PanelChanges, UserExpires, Cancel, vars, loopVars, wireVars, endVars
  <2> QED BY <1>0, <2>1
<1>4. CASE CloseController BY <1>0, <1>4 DEF CloseController, loopVars, wireVars
<1>5. CASE FinalReport BY <1>5 DEF FinalReport, GivesUp, SendsNotReadyOnly
<1>6. CASE LateReport BY <1>6 DEF LateReport, SendsNotReadyOnly, endVars
<1> QED BY <1>1, <1>2, <1>3, <1>4, <1>5, <1>6 DEF Next

\* Where Service.Close waits for Run, nothing but not-ready is sent once
\* Controller.Close has begun: no regular report is under way with a client that
\* waits for it, since Run has waited for the goroutine that sends them.
THEOREM CloseSendsNotReadyOnly == CloseWaits => (Spec => NoReadyAfterClose)
<1> SUFFICES ASSUME CloseWaits PROVE Spec => NoReadyAfterClose
  OBVIOUS
<1>1. Init => EndsInOrder BY DEF Init, EndsInOrder, Closed
<1>2. EndsInOrder /\ [Next]_vars => EndsInOrder' /\ [Closed => SendsNotReadyOnly]_vars
    BY StepEnds
<1> QED BY <1>1, <1>2, PTL DEF Spec, NoReadyAfterClose
=============================================================================

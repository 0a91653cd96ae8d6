------------------------- MODULE V2BoardController --------------------------
(***************************************************************************)
(* One controller of the v2board service (service/v2board/controller.go):  *)
(* the Run goroutine that pulls the node configuration and the user list   *)
(* and rebuilds the managed inbound, the status goroutine, and the close   *)
(* sequence of Service.Close.  The panel is the environment.  Create and   *)
(* Remove of adapter/inbound/manager.go run under the manager's lifecycle  *)
(* mutex and are functions from the registered inbound to the possible     *)
(* outcomes.  Traffic and alive reports are in V2BoardTracker.             *)
(***************************************************************************)
EXTENDS Naturals, FiniteSets

CONSTANTS
    Revs,              \* node configurations, named by their config revision
    StatusRevs,        \* the ones whose node reports its status (Shadowsocks)
    Port,              \* [Revs -> listen ports]
    Users,             \* panel users
    First,             \* the configurations and users the panel may begin with
    MaxChanges,        \* bound: changes the panel makes
    MaxLate,           \* bound: reports on their way that nobody waits for, at a time
    CloseMayFail,      \* an inbound's Close may return an error
    UserFetchMayFail,  \* GetUserList may fail
    Legacy,            \* the ShadowsocksTidalab API: the user list is also the node's configuration
    CloseWaits,        \* Controller.Close runs after Run returned, as in Service.Close
    None               \* nil

ASSUME RevsAssumption == StatusRevs \subseteq Revs /\ None \notin Revs
ASSUME FirstAssumption == First \subseteq Revs \X SUBSET Users
ASSUME LegacyAssumption == Legacy => StatusRevs = {}
ASSUME BoundAssumption == MaxChanges \in Nat /\ MaxLate \in Nat
ASSUME FailAssumption ==
    CloseMayFail \in BOOLEAN /\ UserFetchMayFail \in BOOLEAN /\ Legacy \in BOOLEAN /\ CloseWaits \in BOOLEAN

VARIABLES
    panelRev, panelUsers, expired, changes,   \* the panel, and who has expired
    panelStatus,                              \* the last status the panel received
    late,                                     \* reports the client gave up on that may yet arrive
    nodeTag, userTag,                         \* Client's ETags, as what they stand for
    now,                                      \* who had expired when the sync began
    node, users, activeUsers,                 \* Controller fields of the same names
    nodeHash, userHash, nodeChanged, usersChanged, gotUsers,
    inboundReady, pendingBuild, current,
    status, statusSupported, statusWake,      \* statusReady with appliedRevision; channel
    installed,                                \* what inbound.Manager holds for the tag
    trackedUsers,                             \* users of the tracker's node, None if deleted
    pc,                                       \* where the Run goroutine is
    statusPc, message,                        \* where the status goroutine is, what it last read
    closePc, cancelled                        \* where Controller.Close is; ctx.Done()

panelVars  == <<panelRev, panelUsers, expired, changes>>
fetchVars  == <<nodeTag, userTag, now, node, users, activeUsers, nodeHash, userHash,
                nodeChanged, usersChanged, gotUsers>>
fieldVars  == <<nodeTag, userTag, node, users, activeUsers, nodeHash, userHash>>
statusVars == <<status, statusSupported>>
serveVars  == <<inboundReady, pendingBuild, current, installed, trackedUsers>>
wireVars   == <<panelStatus, late>>
loopVars   == <<statusPc, message, wireVars>>
endVars    == <<cancelled, closePc>>
vars == <<panelVars, fetchVars, statusVars, serveVars, loopVars, endVars, statusWake, pc>>

Config == [rev : Revs, users : SUBSET Users]
Inbound == [cfg : Config, open : BOOLEAN]
NotReady == [ready |-> FALSE, rev |-> None]
Status == [ready : {TRUE}, rev : StatusRevs] \cup {NotReady}
ASSUME NoneAssumption == None \notin Config \cup Inbound

Closed == closePc # "open"

FlagTypeOK ==
    /\ nodeChanged \in BOOLEAN /\ usersChanged \in BOOLEAN /\ gotUsers \in BOOLEAN
    /\ inboundReady \in BOOLEAN /\ pendingBuild \in BOOLEAN
    /\ statusSupported \in BOOLEAN /\ statusWake \in BOOLEAN /\ cancelled \in BOOLEAN

DataTypeOK ==
    /\ panelRev \in Revs /\ panelUsers \subseteq Users /\ expired \subseteq Users
    /\ changes \in 0..MaxChanges
    /\ panelStatus \in Status \cup {None} /\ late \subseteq Status
    /\ nodeTag \in Revs \cup {None} /\ userTag \in {None} \cup SUBSET Users
    /\ now \subseteq Users
    /\ node \in Revs \cup {None} /\ users \subseteq Users /\ activeUsers \subseteq Users
    /\ nodeHash \in Revs \cup {None} /\ userHash \in {None} \cup SUBSET Users
    /\ current \in Config \cup {None}
    /\ status \in Status /\ message \in Status
    /\ installed \in Inbound \cup {None}
    /\ trackedUsers \in {None} \cup SUBSET Users
    /\ pc \in {"idle", "node", "users", "alive", "rebuild", "commit", "notify", "stopped"}
    /\ statusPc \in {"idle", "send", "stopped"}
    /\ closePc \in {"open", "final", "done"}

\* Every variable has the type of the field or local it stands for.
TypeOK == DataTypeOK /\ FlagTypeOK

Init ==
    /\ \E first \in First : panelRev = first[1] /\ panelUsers = first[2]
    /\ expired = {} /\ changes = 0
    /\ panelStatus = None /\ late = {}
    /\ nodeTag = None /\ userTag = None
    /\ now = {} /\ node = None /\ users = {} /\ activeUsers = {}
    /\ nodeHash = None /\ userHash = None
    /\ nodeChanged = FALSE /\ usersChanged = FALSE /\ gotUsers = FALSE
    /\ inboundReady = FALSE /\ pendingBuild = FALSE /\ current = None
    /\ status = NotReady /\ statusSupported = FALSE /\ statusWake = FALSE
    /\ installed = None /\ trackedUsers = None
    /\ pc = "idle" /\ statusPc = "idle" /\ message = NotReady
    /\ cancelled = FALSE /\ closePc = "open"

-----------------------------------------------------------------------------
(* The environment: the panel changes its mind, users expire, the box closes. *)

PanelChanges ==
    /\ changes < MaxChanges
    /\ \E r \in Revs, us \in SUBSET Users :
           /\ <<r, us>> # <<panelRev, panelUsers>>
           /\ panelRev' = r /\ panelUsers' = us
    /\ changes' = changes + 1
    /\ UNCHANGED <<expired, fetchVars, statusVars, loopVars, endVars, serveVars, statusWake, pc>>

UserExpires ==
    /\ changes < MaxChanges
    /\ \E u \in Users \ expired : expired' = expired \cup {u}
    /\ changes' = changes + 1
    /\ UNCHANGED <<panelRev, panelUsers, fetchVars, statusVars, loopVars, endVars, serveVars>>
    /\ UNCHANGED <<statusWake, pc>>

\* Service.Close cancels the context of both goroutines.
Cancel ==
    /\ ~cancelled
    /\ cancelled' = TRUE
    /\ UNCHANGED <<panelVars, fetchVars, statusVars, loopVars, closePc, serveVars, statusWake>>
    /\ UNCHANGED <<pc>>

-----------------------------------------------------------------------------
(* adapter/inbound/manager.go, with the manager started: what Create and      *)
(* Remove may return and the registered inbound they leave behind.            *)

\* The new inbound starts to listen while the old one still does.
Conflicts(cfg, inst) == inst # None /\ inst.open /\ Port[inst.cfg.rev] = Port[cfg.rev]

CreateResults(cfg, inst) ==
    {[err |-> "fail", inst |-> inst], [err |-> "conflict", inst |-> inst]}
        \cup (IF Conflicts(cfg, inst) THEN {}
              ELSE {[err |-> "ok", inst |-> [cfg |-> cfg, open |-> TRUE]]})
        \cup (IF CloseMayFail /\ inst # None /\ ~Conflicts(cfg, inst)
              THEN {[err |-> "fail", inst |-> [cfg |-> inst.cfg, open |-> FALSE]]} ELSE {})

\* os.ErrInvalid, for a tag that is not registered, counts as success.
RemoveResults(inst) ==
    {[err |-> "ok", inst |-> None]}
        \cup (IF CloseMayFail /\ inst # None THEN {[err |-> "fail", inst |-> None]} ELSE {})
-----------------------------------------------------------------------------
(* applyInbound, under the controller's lifecycle mutex.  An outcome says     *)
(* whether it returned nil, whether it gave the inbound up (not ready, status *)
(* cleared and reported), and what is registered and current afterwards.      *)

Applied(cfg, inst) == [ok |-> TRUE, lost |-> FALSE, inst |-> inst, cur |-> cfg]
Failed(inst) == [ok |-> FALSE, lost |-> FALSE, inst |-> inst, cur |-> current]
Lost(inst, cur) == [ok |-> FALSE, lost |-> TRUE, inst |-> inst, cur |-> cur]

\* Mutant: a failed restore is treated like a successful one.
RestoreOutcomesUnchecked(inst) == {Failed(r.inst) : r \in CreateResults(current, inst)}

\* restoreCurrentInbound and its callers: a failed restore gives the inbound up.
RestoreOutcomes(inst) ==
    {IF r.err = "ok" THEN Failed(r.inst) ELSE Lost(r.inst, None) : r \in CreateResults(current, inst)}

\* Mutant: a replacement that fails leaves the removed inbound current.
ReplaceOutcomesNoRestore(cfg, inst) ==
    UNION {{IF r.err = "ok" THEN Applied(cfg, r.inst) ELSE Failed(r.inst) :
               r \in CreateResults(cfg, rm.inst)} : rm \in RemoveResults(inst)}

ReplaceOutcomes(cfg, inst) ==
    UNION {IF rm.err = "fail"
           THEN IF rm.inst # None THEN {Failed(rm.inst)} ELSE RestoreOutcomes(rm.inst)
           ELSE UNION {IF r.err = "ok" THEN {Applied(cfg, r.inst)} ELSE RestoreOutcomes(r.inst) :
                          r \in CreateResults(cfg, rm.inst)} :
              rm \in RemoveResults(inst)}

ApplyOutcomes(cfg) ==
    UNION {IF r.err = "ok" THEN {Applied(cfg, r.inst)}
           ELSE IF ~inboundReady \/ current = None THEN {Lost(r.inst, current)}
           ELSE IF r.err # "conflict" THEN {Failed(r.inst)}
           ELSE ReplaceOutcomes(cfg, r.inst) :
              r \in CreateResults(cfg, installed)}

-----------------------------------------------------------------------------
(* sync, one step per request and per section of the lifecycle mutex.         *)

\* updateAppliedStatusLocked
UpdateAppliedStatus(ready) ==
    /\ statusSupported' = (node \in StatusRevs)
    /\ status' = IF node \in StatusRevs /\ ready THEN [ready |-> TRUE, rev |-> node] ELSE NotReady

\* reportUnavailableStatusBestEffort, then sync returns the error.
ReportUnavailable ==
    IF Closed \/ (inboundReady /\ current # None)
    THEN pc' = "idle" /\ UNCHANGED <<inboundReady, statusVars>>
    ELSE pc' = "notify" /\ inboundReady' = FALSE /\ UpdateAppliedStatus(FALSE)

\* The locals of sync (now, nodeChanged, usersChanged, users) are not used again.
ForgetLocals ==
    now' = {} /\ nodeChanged' = FALSE /\ usersChanged' = FALSE /\ gotUsers' = FALSE

PullTimer ==
    /\ pc = "idle"
    /\ pc' = "node"
    /\ now' = expired
    /\ nodeChanged' = FALSE /\ usersChanged' = FALSE /\ gotUsers' = FALSE
    /\ UNCHANGED <<panelVars, nodeTag, userTag, node, users, activeUsers, nodeHash, userHash>>
    /\ UNCHANGED <<statusVars, loopVars, endVars, serveVars, statusWake>>

FetchFails ==
    /\ pc = "node"
    /\ pc' = "idle"
    /\ ForgetLocals
    /\ UNCHANGED <<panelVars, fieldVars, statusVars, loopVars, endVars, serveVars, statusWake>>

\* GetNodeInfo answers 200, with or without a new configuration.
FetchNode ==
    /\ pc = "node" /\ ~cancelled /\ (Legacy => panelUsers # {})
    /\ pc' = "users"
    /\ node' = panelRev
    /\ nodeTag' = IF Legacy THEN None ELSE panelRev
    /\ statusSupported' = (panelRev \in StatusRevs)
    /\ nodeHash' = panelRev
    /\ nodeChanged' = (panelRev # nodeHash)
    /\ UNCHANGED <<panelVars, userTag, now, users, activeUsers, userHash, usersChanged, gotUsers>>
    /\ UNCHANGED <<status, loopVars, endVars, serveVars, statusWake>>

\* GetNodeInfo answers 304 to the ETag of the last configuration it decoded.
NodeNotModified ==
    /\ pc = "node" /\ ~cancelled /\ ~Legacy /\ nodeTag = panelRev
    /\ pc' = "users"
    /\ UNCHANGED <<panelVars, fetchVars, statusVars, loopVars, endVars, serveVars, statusWake>>

\* What sync does with the user list us, or with the one it has if there is none.
TakeUsers(us) ==
    /\ users' = us
    /\ activeUsers' = us \ now
    /\ userHash' = us \ now
    /\ usersChanged' = (us \ now # userHash)
    /\ pc' = "alive"

\* A legacy panel with no users: GetNodeInfo returns ErrEmptyUserList.
EmptyUserList ==
    /\ pc = "node" /\ ~cancelled /\ Legacy /\ panelUsers = {}
    /\ gotUsers' = TRUE
    /\ TakeUsers({})
    /\ UNCHANGED <<panelVars, nodeTag, userTag, now, node, nodeHash, nodeChanged, statusVars>>
    /\ UNCHANGED <<loopVars, endVars, serveVars, statusWake>>

FetchUsers ==
    /\ pc = "users" /\ ~cancelled
    /\ gotUsers' = TRUE /\ userTag' = panelUsers
    /\ TakeUsers(panelUsers)
    /\ UNCHANGED <<panelVars, nodeTag, now, node, nodeHash, nodeChanged, statusVars, loopVars>>
    /\ UNCHANGED <<endVars, serveVars, statusWake>>

UsersNotModified ==
    /\ pc = "users" /\ ~cancelled /\ userTag = panelUsers
    /\ TakeUsers(users)
    /\ UNCHANGED <<panelVars, nodeTag, userTag, now, node, nodeHash, nodeChanged, gotUsers>>
    /\ UNCHANGED <<statusVars, loopVars, endVars, serveVars, statusWake>>

FetchUsersFails ==
    /\ pc = "users" /\ (UserFetchMayFail \/ cancelled)
    /\ ReportUnavailable
    /\ ForgetLocals
    /\ UNCHANGED <<panelVars, fieldVars, loopVars, endVars, pendingBuild, current, statusWake>>
    /\ UNCHANGED <<installed, trackedUsers>>
-----------------------------------------------------------------------------
(* The rest of sync: GetAliveList and the decision, then rebuildInbound.      *)

AliveCancelled ==
    /\ pc = "alive" /\ cancelled
    /\ pc' = "idle"
    /\ ForgetLocals
    /\ UNCHANGED <<panelVars, fieldVars, statusVars, loopVars, endVars, serveVars, statusWake>>

\* Mutant: a build that failed is not tried again.
UpToDateNoPending == ~nodeChanged /\ ~usersChanged /\ inboundReady

UpToDate == ~nodeChanged /\ ~usersChanged /\ inboundReady /\ ~pendingBuild

\* GetAliveList answered, failed, or is not supported by the panel's API.
FetchAlive ==
    /\ pc = "alive"
    /\ IF node = None
       THEN /\ pc' = IF gotUsers /\ activeUsers = {} THEN "rebuild" ELSE "idle"
            /\ UNCHANGED pendingBuild
       ELSE IF UpToDate
       THEN pc' = "idle" /\ UNCHANGED pendingBuild
       ELSE pc' = "rebuild" /\ pendingBuild' = TRUE
    /\ ForgetLocals
    /\ UNCHANGED <<panelVars, fieldVars, statusVars, loopVars, endVars, inboundReady, current>>
    /\ UNCHANGED <<statusWake, installed, trackedUsers>>

\* buildNodeRules or BuildInbound rejects the configuration.
BuildFails ==
    /\ pc = "rebuild" /\ node # None
    /\ ReportUnavailable
    /\ UNCHANGED <<panelVars, fetchVars, loopVars, endVars, pendingBuild, current, statusWake>>
    /\ UNCHANGED <<installed, trackedUsers>>

\* clearInbound
ClearInbound ==
    /\ pc = "rebuild" /\ activeUsers = {}
    /\ IF Closed
       THEN /\ pc' = "idle"
            /\ UNCHANGED <<statusVars, inboundReady, pendingBuild, current, installed, trackedUsers>>
       ELSE \E rm \in RemoveResults(installed) :
              /\ installed' = rm.inst
              /\ current' = None
              /\ trackedUsers' = {}
              /\ inboundReady' = (rm.err = "ok")
              /\ pendingBuild' = (pendingBuild /\ rm.err # "ok")
              /\ UpdateAppliedStatus(FALSE)
              /\ pc' = "notify"
    /\ UNCHANGED <<panelVars, fetchVars, loopVars, endVars, statusWake>>

\* applyInbound
ApplyInbound ==
    /\ pc = "rebuild" /\ activeUsers # {} /\ ~Closed
    /\ \E o \in ApplyOutcomes([rev |-> node, users |-> activeUsers]) :
         /\ installed' = o.inst
         /\ current' = o.cur
         /\ pc' = IF o.ok THEN "commit" ELSE IF o.lost THEN "notify" ELSE "idle"
         /\ inboundReady' = (inboundReady /\ ~o.lost)
         /\ IF o.lost THEN UpdateAppliedStatus(FALSE) ELSE UNCHANGED statusVars
    /\ UNCHANGED <<panelVars, fetchVars, loopVars, endVars, pendingBuild, statusWake>>
    /\ UNCHANGED <<trackedUsers>>

\* The last section of rebuildInbound, entered after applyInbound unlocked.
CommitUnchecked ==
    /\ pc = "commit"
    /\ trackedUsers' = activeUsers
    /\ inboundReady' = TRUE /\ pendingBuild' = FALSE
    /\ UpdateAppliedStatus(TRUE)
    /\ pc' = "notify"
    /\ UNCHANGED <<panelVars, fetchVars, loopVars, endVars, current, statusWake, installed>>

Commit ==
    /\ ~Closed
    /\ CommitUnchecked

\* applyInbound or the section after it finds the controller closed.
RebuildClosed ==
    /\ Closed
    /\ pc = "commit" \/ (pc = "rebuild" /\ activeUsers # {})
    /\ pc' = "idle"
    /\ UNCHANGED <<panelVars, fetchVars, statusVars, loopVars, endVars, serveVars, statusWake>>

\* Mutant: the wake-up is sent only when the status goroutine is waiting for it.
NotifyIfIdle ==
    /\ pc = "notify"
    /\ statusWake' = (statusWake \/ (~Closed /\ statusPc = "idle"))
    /\ pc' = "idle"
    /\ UNCHANGED <<panelVars, fetchVars, statusVars, loopVars, endVars, serveVars>>

\* reportStatusBestEffort while the status goroutine runs: a send that never blocks.
Notify ==
    /\ pc = "notify"
    /\ statusWake' = (statusWake \/ ~Closed)
    /\ pc' = "idle"
    /\ UNCHANGED <<panelVars, fetchVars, statusVars, loopVars, endVars, serveVars>>

-----------------------------------------------------------------------------
(* The status goroutine: reportStatus on its timer or when woken.             *)

\* Mutant: only a ready status is worth a report.
ReportStatusReadyOnly ==
    IF Closed \/ ~status.ready
    THEN UNCHANGED <<statusPc, message>>
    ELSE statusPc' = "send" /\ message' = status

ReportStatus ==
    IF Closed \/ (~statusSupported /\ node \notin StatusRevs)
    THEN UNCHANGED <<statusPc, message>>
    ELSE statusPc' = "send" /\ message' = status

StatusTimer ==
    /\ statusPc = "idle"
    /\ ReportStatus
    /\ UNCHANGED <<panelVars, fetchVars, statusVars, wireVars, endVars, serveVars, statusWake>>
    /\ UNCHANGED <<pc>>

StatusWake ==
    /\ statusPc = "idle" /\ statusWake
    /\ statusWake' = FALSE
    /\ ReportStatus
    /\ UNCHANGED <<panelVars, fetchVars, statusVars, wireVars, endVars, serveVars, pc>>

\* The panel handles the report and the goroutine is still waiting for its answer.
StatusDelivered ==
    /\ statusPc = "send"
    /\ panelStatus' = message
    /\ statusPc' = "idle"
    /\ UNCHANGED <<panelVars, fetchVars, statusVars, message, late, endVars, serveVars>>
    /\ UNCHANGED <<statusWake, pc>>

\* The report m was not sent, or it was and the request timed out or was cancelled:
\* then it stays on its way.
GivesUp(m) == \/ UNCHANGED late
              \/ late' = late \cup {m} /\ Cardinality(late') <= MaxLate

StatusFails ==
    /\ statusPc = "send"
    /\ statusPc' = "idle"
    /\ GivesUp(message)
    /\ UNCHANGED <<panelVars, fetchVars, statusVars, message, panelStatus, endVars, serveVars>>
    /\ UNCHANGED <<statusWake, pc>>

\* The panel handles a report that nobody waits for any more.
LateReport ==
    /\ \E m \in late : panelStatus' = m /\ late' = late \ {m}
    /\ UNCHANGED <<panelVars, fetchVars, statusVars, statusPc, message, endVars, serveVars>>
    /\ UNCHANGED <<statusWake, pc>>

StatusStops ==
    /\ statusPc = "idle" /\ cancelled
    /\ statusPc' = "stopped"
    /\ UNCHANGED <<panelVars, fetchVars, statusVars, message, wireVars, endVars, serveVars>>
    /\ UNCHANGED <<statusWake, pc>>
-----------------------------------------------------------------------------
(* The end of Run and Controller.Close.                                       *)

\* Mutant: Run returns without waiting for statusDone.
RunStopsEarly ==
    /\ pc = "idle" /\ cancelled
    /\ pc' = "stopped"
    /\ UNCHANGED <<panelVars, fetchVars, statusVars, loopVars, endVars, serveVars, statusWake>>

RunStops ==
    /\ statusPc = "stopped"
    /\ RunStopsEarly

CloseController ==
    /\ closePc = "open"
    /\ CloseWaits => pc = "stopped"
    /\ closePc' = IF node \in StatusRevs THEN "final" ELSE "done"
    /\ UpdateAppliedStatus(FALSE)
    /\ \E rm \in RemoveResults(installed) : installed' = rm.inst
    /\ trackedUsers' = None
    /\ UNCHANGED <<panelVars, fetchVars, loopVars, cancelled, inboundReady, pendingBuild>>
    /\ UNCHANGED <<current, statusWake, pc>>

\* The final report, under its own timeout: it is handled in time, later or never.
FinalReport ==
    /\ closePc = "final"
    /\ closePc' = "done"
    /\ \/ panelStatus' = NotReady /\ UNCHANGED late
       \/ GivesUp(NotReady) /\ UNCHANGED panelStatus
    /\ UNCHANGED <<panelVars, fetchVars, statusVars, statusPc, message, cancelled, serveVars>>
    /\ UNCHANGED <<statusWake, pc>>

-----------------------------------------------------------------------------
GetNode == FetchNode \/ NodeNotModified \/ EmptyUserList
GetUsers == FetchUsers \/ UsersNotModified

SyncStep ==
    \/ PullTimer \/ FetchFails \/ GetNode \/ GetUsers \/ FetchUsersFails
    \/ AliveCancelled \/ FetchAlive \/ BuildFails \/ ClearInbound \/ ApplyInbound
    \/ Commit \/ RebuildClosed \/ Notify \/ RunStops

StatusStep == StatusTimer \/ StatusWake \/ StatusDelivered \/ StatusFails \/ StatusStops

Next ==
    \/ PanelChanges \/ UserExpires \/ Cancel
    \/ SyncStep \/ StatusStep \/ LateReport
    \/ CloseController \/ FinalReport

Spec == Init /\ [][Next]_vars

\* Both goroutines keep running, every request that is repeated for ever is
\* answered in the end, and so is a rebuild that is tried for ever.
FairSpec ==
    /\ Spec
    /\ WF_vars(SyncStep) /\ WF_vars(StatusStep)
    /\ SF_vars(GetNode) /\ SF_vars(GetUsers)
    /\ SF_vars(ClearInbound /\ installed' = None)
    /\ SF_vars(ApplyInbound /\ pc' = "commit")
    /\ SF_vars(StatusDelivered)

-----------------------------------------------------------------------------
(* Safety.                                                                    *)

\* What reportStatus may tell the panel is true: a status that is ready names
\* the revision of an inbound that is registered and open.  Only between
\* applyInbound and the section that follows it may the revision be the old one.
StatusTruthful ==
    status.ready =>
        /\ installed # None /\ installed.open
        /\ pc = "commit" \/ installed.cfg.rev = status.rev

\* The controller's idea of what it serves (current, inboundReady) is what the
\* inbound manager has registered, through every failed replacement and restore.
CurrentIsInstalled ==
    ~Closed =>
        /\ installed = None <=> current = None
        /\ installed # None => installed.cfg = current
        /\ current # None => inboundReady \/ pc = "commit"

\* No wake-up is lost: while the status differs from the last one the status
\* goroutine read, a wake-up is in the channel or about to be sent.
NoLostWake ==
    statusSupported /\ ~Closed /\ status # message => statusWake \/ pc = "notify"

SendsNotReadyOnly ==
    /\ panelStatus' # panelStatus => panelStatus' \in late \cup {NotReady}
    /\ late' \subseteq late \cup {NotReady}

\* Once Close has begun nothing but not-ready is sent any more: what the panel
\* hears then is not-ready, or a report its client had given up on before, and no
\* such report is added.
NoReadyAfterClose == [][Closed => SendsNotReadyOnly]_vars

\* Close releases everything, and a rebuild that was under way when it ran does not
\* bring the inbound or the tracker's node back.
CloseReleases == Closed => installed = None /\ trackedUsers = None

\* Whoever the registered inbound authenticates is known to the tracker, so that
\* the connection gets a traffic counter.
ServedIsTracked ==
    installed # None /\ ~Closed => trackedUsers # None /\ installed.cfg.users \subseteq trackedUsers

-----------------------------------------------------------------------------
(* Liveness.                                                                  *)

Wanted == panelUsers \ expired
Serves(rev, us) == installed # None /\ installed.open /\ installed.cfg = [rev |-> rev, users |-> us]

\* Once the panel stops changing, its node is served with its current
\* configuration to exactly its active users, and not at all if there are none.
ConfigServed ==
    <>[](cancelled \/ Closed \/ IF Wanted = {} THEN installed = None ELSE Serves(panelRev, Wanted))

\* The panel's picture of a node that reports its status becomes the controller's.
StatusConverges ==
    <>[](cancelled \/ Closed \/ (statusSupported => panelStatus = status))
=============================================================================

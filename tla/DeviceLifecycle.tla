---------------------------- MODULE DeviceLifecycle ----------------------------
(***************************************************************************)
(* The life of one OLT device in the adapter: the state machine of         *)
(* olt_state_transitions.go, the three background goroutines that the      *)
(* DeviceHandler keeps per device (heartbeat check, indication reader,     *)
(* statistics collector), the goroutines that tear them down and bring     *)
(* them up again (updateStateUnreachable, updateStateRebooted, DeleteDevice,*)
(* DisableDevice, UpdateDevice), and the status of the device held by the  *)
(* core, by the handler's local copy and by the KV store.                  *)
(*                                                                         *)
(* A step is one RPC, one channel operation or one critical section of     *)
(* lockDevice.  Sections under lockDevice.Lock never block, so they are    *)
(* single steps; sections under lockDevice.RLock send on channels of       *)
(* capacity one and may block while the lock is held, so they are split    *)
(* at every send.                                                          *)
(***************************************************************************)
EXTENDS Goroutines, Integers, FiniteSets

CONSTANTS
    Starts,       \* how the handler comes into being, and what happens to it then:
                  \* records of an origin, "adopt", "reconcile", "reconcile_rebooted"
                  \* or "reconcile_disabled", whether the OLT was rebooted meanwhile,
                  \* and the number and the kinds of the external events to come
    MaxReaders,   \* how many readIndications goroutines may start or end at once
    MaxCollectors \* how many startCollector goroutines up indications may add

ASSUME BoundsAssumption ==
    /\ \A start \in Starts : start.faults \in Nat
    /\ MaxReaders \in Nat /\ MaxCollectors \in Nat

VARIABLES
    state,        \* transitionMap.currentDeviceState
    cs,           \* the goroutine inside Handle, holding oltTransitionMutex
    at,           \* goroutines at each program point, by the fate of their ctx
    col,          \* startCollector goroutines at each program point
    wg,           \* collectorWaitGroup
    tok,          \* tokens in stopHeartbeatCheck, stopIndications, stopCollector
    active,       \* isHeartbeatCheckActive, isReadIndicationRoutineActive, isCollectorActive
    dev,          \* dh.device: the handler's copy of the device's status
    deleting,     \* isDeviceDeletionInProgress
    ready,        \* initializeDeviceHandlerModules has completed (eventMgr etc. non-nil)
    conn,         \* clientCon is dialled and not closed
    hbSig,        \* dh.heartbeatSignature
    heard,        \* the signature a heartbeat check is about to store
    prevRebooted, \* prevOperStatus = REBOOTED, set by ReconcileDevice
    core,         \* the device as the core knows it
    req,          \* the device argument of the last admin RPC
    boot,         \* how often the OLT has booted: its heartbeat signature
    kvSig,        \* the heartbeat signature in the KV store, 0 when absent
    inMap,        \* the handler is in OpenOLT.deviceHandlers
    budget        \* the start, and the external events still to come

fsm  == <<state, cs>>
gor  == <<at, col, wg>>
ctl  == <<tok, active>>
mem  == <<dev, deleting, ready, conn, hbSig, heard, prevRebooted>>
env  == <<core, req, boot, kvSig, inMap, budget>>
vars == <<fsm, gor, ctl, mem, env>>

-------------------------------------------------------------------------------
(* The transition table. *)

DeviceState == {"Null", "Init", "Connected", "Up", "Down"}

Trigger == {"DeviceInit", "GrpcDisconnected", "GrpcConnected", "DeviceUpInd", "DeviceDownInd"}

PreviousState ==
    [DeviceInit       |-> {"Null", "Connected", "Up", "Down"},
     GrpcDisconnected |-> {"Connected", "Down"},
     GrpcConnected    |-> {"Init"},
     DeviceUpInd      |-> {"Connected", "Down"},
     DeviceDownInd    |-> {"Up", "Connected"}]

CurrentState ==
    [DeviceInit       |-> "Init",
     GrpcDisconnected |-> "Init",
     GrpcConnected    |-> "Connected",
     DeviceUpInd      |-> "Up",
     DeviceDownInd    |-> "Down"]

(* The first step of the before handler of each trigger. *)
Before ==
    [DeviceInit       |-> "dial",
     GrpcDisconnected |-> "dial",
     GrpcConnected    |-> "connected",
     DeviceUpInd      |-> "up",
     DeviceDownInd    |-> "down"]

(* OLT indications are handled by the goroutine that read them. *)
ReaderTrigger == {"DeviceUpInd", "DeviceDownInd"}

-------------------------------------------------------------------------------
(* Program points. *)

Routine == {"heartbeat", "indications", "collector"}

(* A goroutine's ctx descends from the one transitionHandlerCancel cancels. *)
Ctx == IF \E start \in Starts : "update" \in start.kinds THEN {"live", "done"} ELSE {"live"}

(* The heartbeat check waits in its select, with no report timer, with one *)
(* running or with one that has fired, and is in the RPC likewise.         *)
HbRpc     == [hb_wait    |-> "hb_rpc",
              hb_pending |-> "hb_rpc_pending",
              hb_fired   |-> "hb_rpc_fired"]
HbWaiting == DOMAIN HbRpc
HbLabel   == {"hb_wait", "hb_pending", "hb_fired", "hb_rpc", "hb_rpc_pending", "hb_rpc_fired",
              "hb_start", "hb_sig", "hb_exit"}
RdLabel   == {"rd_start", "rd_enter", "rd_select", "rd_recv", "rd_exit"}

(* The sends of stop tokens under lockDevice.RLock: whom each one stops    *)
(* and where the sender goes next.                                         *)
StopSend ==
    [un_col |-> [stops |-> "collector",   next |-> "un_hb"],
     un_hb  |-> [stops |-> "heartbeat",   next |-> "un_ind"],
     un_ind |-> [stops |-> "indications", next |-> "DeviceInit"],
     rb_ind |-> [stops |-> "indications", next |-> "rb_hb"],
     rb_hb  |-> [stops |-> "heartbeat",   next |-> "rb_core"],
     rb_col |-> [stops |-> "collector",   next |-> "rb_children"],
     dl_col |-> [stops |-> "collector",   next |-> "dl_hb"],
     dl_hb  |-> [stops |-> "heartbeat",   next |-> "dl_ind"],
     dl_ind |-> [stops |-> "indications", next |-> "dl_clean"],
     ds_col |-> [stops |-> "collector",   next |-> "ds_set"]]

SendLabel == DOMAIN StopSend

(* The same three sends in doStateUp, made by the goroutine in Handle. *)
UpStopSend ==
    [upHb  |-> [stops |-> "heartbeat",   next |-> "upInd"],
     upInd |-> [stops |-> "indications", next |-> "upCol"],
     upCol |-> [stops |-> "collector",   next |-> "upClean"]]

Label == Trigger \cup HbLabel \cup RdLabel \cup SendLabel \cup
         {"orphan_timer", "un_get", "un_core", "un_stop",
          "rb_get", "rb_flag", "rb_stop", "rb_core", "rb_clean", "rb_colstop", "rb_children",
          "dl_flag", "dl_stop", "dl_clean", "dl_reboot", "dl_poll",
          "ds_stop", "ds_set", "re_set", "local_device"}

Point == Label \X Ctx

ColLabel == {"start", "run", "exit", "done"}

CsStep == {"idle", "dial", "connected", "populate", "wait", "build",
           "up", "upGet", "upStop", "upHb", "upInd", "upCol", "upClean", "upDone", "down"}

(* Which call of initializeDeviceHandlerModules is running: for an enabled *)
(* device, for a disabled one, or from doStateUp after a missed reboot.    *)
Mode == {"enabled", "disabled", "reconcile"}

Idle == [trig |-> "none", step |-> "idle", ctx |-> "live", mode |-> "enabled"]

OperStatus == {"UNKNOWN", "ACTIVE", "FAILED", "REBOOTED", "RECONCILING"}
ConnStatus == {"UNKNOWN", "REACHABLE", "UNREACHABLE"}
Status     == [oper : OperStatus, conn : ConnStatus]

TypeOK ==
    /\ state \in DeviceState
    /\ cs \in [trig : Trigger \cup {"none"}, step : CsStep, ctx : Ctx, mode : Mode]
    /\ at \in [Point -> Nat]
    /\ col \in [ColLabel -> Nat]
    /\ wg \in Int
    /\ tok \in [Routine -> {0, 1}]
    /\ active \in [Routine -> BOOLEAN]
    /\ dev \in Status
    /\ deleting \in BOOLEAN
    /\ ready \in BOOLEAN
    /\ conn \in BOOLEAN
    /\ hbSig \in Nat
    /\ heard \in Nat
    /\ prevRebooted \in BOOLEAN
    /\ core \in [oper : OperStatus, conn : ConnStatus, disabled : BOOLEAN, has : BOOLEAN]
    /\ req \in Status
    /\ boot \in Nat
    /\ kvSig \in Nat
    /\ inMap \in BOOLEAN
    /\ budget \in [left : Nat, start : Starts]

-------------------------------------------------------------------------------
(* Locks, contexts, the core and external events. *)

RLockedStep == DOMAIN UpStopSend

(* Some goroutine is inside a section under lockDevice.RLock that can block, *)
(* so lockDevice.Lock is not available.                                      *)
RLocked == \/ \E l \in SendLabel, c \in Ctx : Present(at, <<l, c>>)
           \/ cs.step \in RLockedStep

Fault(kind) ==
    /\ budget.left > 0 /\ kind \in budget.start.kinds
    /\ budget' = [left |-> budget.left - 1, start |-> budget.start]

(* A unary RPC to the OLT, which fails at once while there is no connection. *)
OltAnswers == conn /\ UNCHANGED budget
OltFails   == \/ ~conn /\ UNCHANGED budget
              \/ Fault("rpc")

(* EnableIndication: the stream lives under the caller's ctx. *)
StreamOpens(c) == conn /\ c = "live" /\ UNCHANGED budget
StreamFails(c) == \/ (~conn \/ c = "done") /\ UNCHANGED budget
                  \/ Fault("rpc")

(* A KV store operation: it runs under the caller's ctx. *)
KvAnswers(c) == c = "live" /\ UNCHANGED budget
KvFails(c)   == \/ c = "done" /\ UNCHANGED budget
                \/ c = "live" /\ Fault("kv")

(* A call to the core fails: the device is gone, or the call is lost. *)
CoreFails == \/ ~core.has /\ UNCHANGED budget
             \/ core.has /\ Fault("core")

CoreAnswers == core.has /\ UNCHANGED budget

CoreStatus(oper, conStatus) ==
    [oper |-> oper, conn |-> conStatus, disabled |-> core.disabled, has |-> core.has]

CoreAdmin(disabled, has) ==
    [oper |-> core.oper, conn |-> core.conn, disabled |-> disabled, has |-> has]

(* transitionHandlerCancel: every goroutine of the device's lineage finds  *)
(* its ctx done; the core's own RPC goroutines run under their own ctx.    *)
RpcLabel == {"dl_flag", "dl_stop", "dl_col", "dl_hb", "dl_ind", "dl_clean", "dl_reboot", "dl_poll",
             "ds_stop", "ds_col", "ds_set", "re_set"}

Cancelled(pop) ==
    [p \in Point |->
        CASE p[1] \in RpcLabel -> pop[p]
          [] p[2] = "live"     -> 0
          [] OTHER             -> pop[p] + pop[<<p[1], "live">>]]

(* Bound: how many readers may be on their way in or out. *)
ReaderMaySpawn == \A p \in {"rd_start", "rd_enter", "rd_exit"} \X Ctx : at[p] < MaxReaders


-------------------------------------------------------------------------------
(* TransitionMap.Handle: the mutex is held from the check to the last      *)
(* handler.  A goroutine waiting for it stands at the point named after    *)
(* its trigger.                                                            *)

(* The caller of Handle goes on: the reader reads, the others return. *)
Resume(pop, trig, c) ==
    IF trig \in ReaderTrigger THEN Spawn(pop, <<"rd_select", c>>) ELSE pop

HandleEnter(trig, c) ==
    /\ cs = Idle
    /\ Present(at, <<trig, c>>)
    /\ state \in PreviousState[trig]
    /\ cs' = [trig |-> trig, step |-> Before[trig], ctx |-> c, mode |-> "enabled"]
    /\ at' = Exit(at, <<trig, c>>)
    /\ conn' = (conn /\ Before[trig] # "dial")
    /\ UNCHANGED <<state, col, wg, ctl, dev, deleting, ready, hbSig, heard, prevRebooted, env>>

HandleReject(trig, c) ==
    /\ cs = Idle
    /\ Present(at, <<trig, c>>)
    /\ state \notin PreviousState[trig]
    /\ at' = Resume(Exit(at, <<trig, c>>), trig, c)
    /\ UNCHANGED <<fsm, col, wg, ctl, mem, env>>

(* A before handler returned an error: no transition. *)
HandlerError ==
    /\ cs' = Idle
    /\ at' = Resume(at, cs.trig, cs.ctx)
    /\ UNCHANGED state

(* The before handler succeeded; spawned are the goroutines it and the     *)
(* after handler start.                                                    *)
HandlerDone(spawned) ==
    /\ cs' = Idle
    /\ state' = CurrentState[cs.trig]
    /\ at' = [p \in Point |-> Resume(at, cs.trig, cs.ctx)[p] +
                              IF p[2] = cs.ctx /\ p[1] \in spawned THEN 1 ELSE 0]

NextStep(step, mode) ==
    /\ cs' = [trig |-> cs.trig, step |-> step, ctx |-> cs.ctx, mode |-> mode]
    /\ UNCHANGED <<state, at>>

(* doStateInit dials and waits; postInit hands over to GrpcConnected. *)
DoStateInit ==
    /\ cs.step = "dial"
    /\ \/ /\ cs.ctx = "live" /\ dev.oper # "RECONCILING"
          /\ conn' = TRUE
          /\ HandlerDone({"GrpcConnected"})
          /\ UNCHANGED <<core, dev, budget>>
       \/ /\ cs.ctx = "live" /\ dev.oper = "RECONCILING" /\ CoreAnswers
          /\ conn' = TRUE
          /\ core' = CoreStatus("RECONCILING", "REACHABLE")
          /\ dev' = [oper |-> "RECONCILING", conn |-> "REACHABLE"]
          /\ HandlerDone({"GrpcConnected"})
       \/ /\ cs.ctx = "live" /\ dev.oper = "RECONCILING" /\ CoreFails
          /\ conn' = TRUE
          /\ HandlerError
          /\ UNCHANGED <<core, dev>>
       \/ /\ cs.ctx = "done"
          /\ HandlerError
          /\ UNCHANGED <<core, dev, conn, budget>>
    /\ UNCHANGED <<col, wg, ctl, deleting, ready, hbSig, heard, prevRebooted, req, boot, kvSig, inMap>>

(* doStateConnected up to the call of initializeDeviceHandlerModules. *)
DoStateConnected ==
    /\ cs.step = "connected"
    /\ \/ CoreFails /\ HandlerError /\ UNCHANGED <<core, dev>>
       \/ /\ CoreAnswers /\ ~core.disabled
          /\ NextStep("populate", "enabled")
          /\ UNCHANGED <<core, dev>>
       \/ /\ core.has /\ core.disabled
          /\ dev' = [oper |-> "UNKNOWN", conn |-> "REACHABLE"]
          /\ \/ Fault("core") /\ HandlerError /\ UNCHANGED core
             \/ /\ core' = CoreStatus("UNKNOWN", "REACHABLE")
                /\ \/ OltAnswers /\ NextStep("populate", "disabled")
                   \/ OltFails /\ HandlerError
    /\ UNCHANGED <<col, wg, ctl, deleting, ready, conn, hbSig, heard, prevRebooted,
                   req, boot, kvSig, inMap>>

(* Mutant: after a failed initialisation the heartbeat check is started as usual. *)
InitFailedStartsHeartbeat ==
    /\ dev' = [oper |-> "UNKNOWN", conn |-> "UNREACHABLE"]
    /\ HandlerDone({"GrpcDisconnected", "hb_start"})
    /\ UNCHANGED core

(* Mutant: a failed initialisation is not retried. *)
InitFailedNoRetry ==
    /\ dev' = [oper |-> "UNKNOWN", conn |-> "UNREACHABLE"]
    /\ HandlerDone({})
    /\ UNCHANGED core

(* initializeDeviceHandlerModules failed in doStateConnected or doStateUp. *)
InitFailed ==
    \/ /\ cs.mode = "enabled"
       /\ dev' = [oper |-> "UNKNOWN", conn |-> "UNREACHABLE"]
       /\ core' \in {core} \cup IF core.has THEN {CoreStatus("UNKNOWN", "UNREACHABLE")} ELSE {}
       /\ HandlerDone({"GrpcDisconnected"})
    \/ cs.mode # "enabled" /\ HandlerError /\ UNCHANGED <<core, dev>>

(* populateDeviceInfo, then the decision whether to wait for the collector. *)
PopulateDeviceInfo ==
    /\ cs.step = "populate"
    /\ \/ /\ OltAnswers /\ CoreAnswers
          /\ NextStep(IF active["collector"] THEN "wait" ELSE "build", cs.mode)
          /\ UNCHANGED <<core, dev>>
       \/ (OltFails \/ CoreFails) /\ InitFailed
    /\ UNCHANGED <<col, wg, ctl, deleting, ready, conn, hbSig, heard, prevRebooted,
                   req, boot, kvSig, inMap>>

(* collectorWaitGroup.Wait. *)
CollectorWait ==
    /\ cs.step = "wait"
    /\ wg = 0
    /\ NextStep("build", cs.mode)
    /\ UNCHANGED <<col, wg, ctl, mem, env>>

(* The managers are rebuilt from the KV store, which a cancelled ctx may   *)
(* prevent; the caller of initializeDeviceHandlerModules completes.        *)
BuildModules ==
    /\ cs.step = "build"
    /\ \/ cs.ctx = "done" /\ InitFailed /\ UNCHANGED <<col, wg, ready>>
       \/ /\ ready' = TRUE
          /\ UNCHANGED <<core, dev>>
          /\ \/ /\ cs.mode = "enabled"
                /\ HandlerDone({"hb_start", "local_device"})
                /\ UNCHANGED <<col, wg>>
             \/ /\ cs.mode = "disabled"
                /\ HandlerDone({"hb_start"})
                /\ UNCHANGED <<col, wg>>
             \/ /\ cs.mode = "reconcile"
                /\ wg' = wg + 1
                /\ col' = Spawn(col, "start")
                /\ at' = Spawn(at, <<"hb_start", cs.ctx>>)
                /\ cs' = [trig |-> cs.trig, step |-> "upDone", ctx |-> cs.ctx, mode |-> cs.mode]
                /\ UNCHANGED state
    /\ UNCHANGED <<ctl, deleting, conn, hbSig, heard, prevRebooted, req, boot, kvSig, inMap, budget>>

(* updateLocalDevice, started by doStateConnected. *)
UpdateLocalDevice(c) ==
    /\ Present(at, <<"local_device", c>>)
    /\ at' = Exit(at, <<"local_device", c>>)
    /\ ~RLocked
    /\ \/ CoreAnswers /\ dev' = [oper |-> core.oper, conn |-> core.conn]
       \/ CoreFails /\ UNCHANGED dev
    /\ UNCHANGED <<fsm, col, wg, ctl, deleting, ready, conn, hbSig, heard, prevRebooted,
                   core, req, boot, kvSig, inMap>>

-------------------------------------------------------------------------------
(* doStateUp and doStateDown, run by the reader that got the indication. *)

(* Mutant: collectorWaitGroup.Add comes after the error returns. *)
DoStateUpWithoutAdd ==
    /\ cs.step = "up"
    /\ col' = Spawn(col, "start")
    /\ NextStep("upGet", cs.mode)
    /\ UNCHANGED <<wg, ctl, mem, env>>

(* The collector is started before anything else is known to work. *)
DoStateUp ==
    /\ cs.step = "up"
    /\ wg' = wg + 1
    /\ col' = Spawn(col, "start")
    /\ NextStep("upGet", cs.mode)
    /\ UNCHANGED <<ctl, mem, env>>

(* A device found RECONCILING that had rebooted while the adapter was away *)
(* is cleaned up first; reconcileOnus and reconcilePonPorts touch none of  *)
(* this state.                                                             *)
UpGetDevice ==
    /\ cs.step = "upGet"
    /\ \/ CoreFails /\ HandlerError
       \/ /\ CoreAnswers
          /\ NextStep(IF core.oper = "RECONCILING" /\ prevRebooted THEN "upStop" ELSE "upDone",
                      "reconcile")
    /\ UNCHANGED <<col, wg, ctl, mem, core, req, boot, kvSig, inMap>>

UpRLock ==
    /\ cs.step = "upStop"
    /\ NextStep("upHb", cs.mode)
    /\ UNCHANGED <<col, wg, ctl, mem, env>>

(* Mutant: the stop channels have a larger buffer. *)
SendStopLargeBuffer(r) ==
    IF active[r] THEN tok' = [tok EXCEPT ![r] = @ + 1] ELSE UNCHANGED tok

(* if dh.is...Active { dh.stop... <- true } *)
SendStop(r) ==
    IF active[r] THEN tok[r] = 0 /\ tok' = [tok EXCEPT ![r] = 1] ELSE UNCHANGED tok

UpSendStop ==
    /\ cs.step \in DOMAIN UpStopSend
    /\ SendStop(UpStopSend[cs.step].stops)
    /\ NextStep(UpStopSend[cs.step].next, cs.mode)
    /\ UNCHANGED <<col, wg, active, mem, env>>

(* cleanupDeviceResources: when no clean-up step fails the device's whole  *)
(* KV prefix goes, the heartbeat signature with it.                        *)
CleanupOk(c)    == KvAnswers(c) /\ kvSig' = 0
CleanupFails(c) == KvFails(c) /\ UNCHANGED kvSig

UpCleanup ==
    /\ cs.step = "upClean"
    /\ \/ CleanupOk(cs.ctx) /\ NextStep("populate", "reconcile")
       \/ CleanupFails(cs.ctx) /\ HandlerError
    /\ UNCHANGED <<col, wg, ctl, mem, core, req, boot, inMap>>

(* The end of doStateUp: the core is told, then the ports are listed; a    *)
(* failure of either leaves the state machine where it was.                *)
UpReport ==
    /\ cs.step = "upDone"
    /\ \/ CoreFails /\ HandlerError /\ UNCHANGED <<core, dev>>
       \/ /\ core.has
          /\ core' = CoreStatus("ACTIVE", "REACHABLE")
          /\ dev' = [oper |-> "ACTIVE", conn |-> "REACHABLE"]
          /\ \/ HandlerDone({}) /\ UNCHANGED budget
             \/ HandlerError /\ Fault("core")
    /\ UNCHANGED <<col, wg, ctl, deleting, ready, conn, hbSig, heard, prevRebooted,
                   req, boot, kvSig, inMap>>

DoStateDown ==
    /\ cs.step = "down"
    /\ \/ CoreFails /\ HandlerError /\ UNCHANGED <<core, dev>>
       \/ /\ core.has
          /\ ~RLocked
          /\ dev' = [oper |-> "UNKNOWN", conn |-> core.conn]
          /\ \/ Fault("core") /\ HandlerError /\ core' \in {core, CoreStatus("UNKNOWN", core.conn)}
             \/ HandlerDone({}) /\ core' = CoreStatus("UNKNOWN", core.conn) /\ UNCHANGED budget
    /\ UNCHANGED <<col, wg, ctl, deleting, ready, conn, hbSig, heard, prevRebooted,
                   req, boot, kvSig, inMap>>

-------------------------------------------------------------------------------
(* startCollector. *)

CollectorEnter ==
    /\ Present(col, "start")
    /\ ~RLocked
    /\ col' = Move(col, "start", "run")
    /\ active' = [active EXCEPT !["collector"] = TRUE]
    /\ UNCHANGED <<fsm, at, wg, tok, mem, env>>

CollectorStop ==
    /\ Present(col, "run")
    /\ tok["collector"] = 1
    /\ tok' = [tok EXCEPT !["collector"] = 0]
    /\ col' = Move(col, "run", "exit")
    /\ UNCHANGED <<fsm, at, wg, active, mem, env>>

(* Mutant: the deferred function forgets isCollectorActive. *)
CollectorLeaveKeepsFlag ==
    /\ Present(col, "exit")
    /\ ~RLocked
    /\ col' = Move(col, "exit", "done")
    /\ UNCHANGED <<fsm, at, wg, ctl, mem, env>>

CollectorLeave ==
    /\ Present(col, "exit")
    /\ ~RLocked
    /\ col' = Move(col, "exit", "done")
    /\ active' = [active EXCEPT !["collector"] = FALSE]
    /\ UNCHANGED <<fsm, at, wg, tok, mem, env>>

CollectorDone ==
    /\ Present(col, "done")
    /\ col' = Exit(col, "done")
    /\ wg' = wg - 1
    /\ UNCHANGED <<fsm, at, ctl, mem, env>>

-------------------------------------------------------------------------------
(* startHeartbeatCheck. *)

HeartbeatEnter(c) ==
    /\ Present(at, <<"hb_start", c>>)
    /\ ~RLocked
    /\ at' = Move(at, <<"hb_start", c>>, <<"hb_wait", c>>)
    /\ active' = [active EXCEPT !["heartbeat"] = TRUE]
    /\ \/ KvAnswers(c) /\ hbSig' = kvSig
       \/ KvFails(c) /\ hbSig' = 0
    /\ UNCHANGED <<fsm, col, wg, tok, dev, deleting, ready, conn, heard, prevRebooted,
                   core, req, boot, kvSig, inMap>>

(* The interval elapses with no stop token to take: the RPC is under way. *)
HeartbeatTick(l, c) ==
    /\ Present(at, <<l, c>>) /\ l \in HbWaiting
    /\ tok["heartbeat"] = 0
    /\ at' = Move(at, <<l, c>>, <<HbRpc[l], c>>)
    /\ UNCHANGED <<fsm, col, wg, ctl, mem, env>>

(* A failed heartbeat starts the report timer unless one was started.  The *)
(* failure is a counted fault, also when the redial closed the connection  *)
(* under the RPC.                                                          *)
HeartbeatFail(l, c) ==
    /\ Present(at, <<HbRpc[l], c>>) /\ l \in HbWaiting
    /\ Fault("rpc")
    /\ at' = Move(at, <<HbRpc[l], c>>, <<IF l = "hb_wait" THEN "hb_pending" ELSE l, c>>)
    /\ UNCHANGED <<fsm, col, wg, ctl, mem, core, req, boot, kvSig, inMap>>

(* Mutant: the report timer is a ticker. *)
ReportTicker(c) ==
    /\ \E l \in {"hb_pending", "hb_rpc_pending"} : Present(at, <<l, c>>)
    /\ at[<<"un_get", c>>] < 2
    /\ at' = Spawn(at, <<"un_get", c>>)
    /\ UNCHANGED <<fsm, col, wg, ctl, mem, env>>

(* The AfterFunc timer of a running heartbeat check expires. *)
ReportTimer(c) ==
    /\ \E p \in {<<"hb_pending", "hb_fired">>, <<"hb_rpc_pending", "hb_rpc_fired">>} :
          /\ Present(at, <<p[1], c>>)
          /\ at' = Spawn(Move(at, <<p[1], c>>, <<p[2], c>>), <<"un_get", c>>)
    /\ UNCHANGED <<fsm, col, wg, ctl, mem, env>>

(* The timer of a heartbeat check that was stopped in the meantime expires. *)
OrphanTimer(c) ==
    /\ Present(at, <<"orphan_timer", c>>)
    /\ at' = Move(at, <<"orphan_timer", c>>, <<"un_get", c>>)
    /\ UNCHANGED <<fsm, col, wg, ctl, mem, env>>

(* updateHeartbeatSignature: a failure is only reported. *)
StoreSignature(sig, c) == \/ KvAnswers(c) /\ kvSig' = sig
                          \/ KvFails(c) /\ UNCHANGED kvSig

(* A heartbeat with the known signature, or the first one: the timer is    *)
(* stopped if it has not fired, the signature is stored if none was, and a *)
(* reader is started if none is marked active.                             *)
HeartbeatOk(l, c) ==
    /\ Present(at, <<HbRpc[l], c>>) /\ l \in HbWaiting
    /\ conn
    /\ hbSig \in {0, boot}
    /\ hbSig' = boot
    /\ \/ hbSig # 0 /\ UNCHANGED <<kvSig, budget>>
       \/ hbSig = 0 /\ StoreSignature(boot, c)
    /\ active["indications"] \/ ReaderMaySpawn
    /\ LET back == Move(at, <<HbRpc[l], c>>, <<"hb_wait", c>>)
       IN  at' = IF active["indications"] THEN back ELSE Spawn(back, <<"rd_start", c>>)
    /\ UNCHANGED <<fsm, col, wg, ctl, dev, deleting, ready, conn, heard, prevRebooted,
                   core, req, boot, inMap>>

(* Mutant: another signature is taken over without a clean-up. *)
HeartbeatRebootedIgnored(l, c) ==
    /\ Present(at, <<HbRpc[l], c>>) /\ l \in HbWaiting
    /\ conn
    /\ hbSig \notin {0, boot}
    /\ hbSig' = boot
    /\ StoreSignature(boot, c)
    /\ at' = Move(at, <<HbRpc[l], c>>, <<"hb_wait", c>>)
    /\ UNCHANGED <<fsm, col, wg, ctl, dev, deleting, ready, conn, heard, prevRebooted,
                   core, req, boot, inMap>>

(* A heartbeat with another signature: the OLT has rebooted.  Bound: two   *)
(* checks never store different signatures at the same time.               *)
HeartbeatRebooted(l, c) ==
    /\ Present(at, <<HbRpc[l], c>>) /\ l \in HbWaiting
    /\ OltAnswers
    /\ hbSig \notin {0, boot}
    /\ heard = boot \/ ~\E d \in Ctx : Present(at, <<"hb_sig", d>>)
    /\ heard' = boot
    /\ at' = Spawn(Move(at, <<HbRpc[l], c>>, <<"hb_sig", c>>), <<"rb_get", c>>)
    /\ UNCHANGED <<fsm, col, wg, ctl, dev, deleting, ready, conn, hbSig, prevRebooted,
                   core, req, boot, kvSig, inMap>>

(* Mutant: the new signature is stored but not remembered. *)
HeartbeatStoreKvOnly(c) ==
    /\ Present(at, <<"hb_sig", c>>)
    /\ StoreSignature(heard, c)
    /\ at' = Move(at, <<"hb_sig", c>>, <<"hb_wait", c>>)
    /\ at[<<"rb_get", c>>] < 2
    /\ UNCHANGED <<fsm, col, wg, ctl, mem, core, req, boot, inMap>>

(* ... and its signature goes to the KV store, then to the handler, while  *)
(* updateStateRebooted runs.                                               *)
HeartbeatStore(c) ==
    /\ Present(at, <<"hb_sig", c>>)
    /\ StoreSignature(heard, c)
    /\ hbSig' = heard
    /\ at' = Move(at, <<"hb_sig", c>>, <<"hb_wait", c>>)
    /\ UNCHANGED <<fsm, col, wg, ctl, dev, deleting, ready, conn, heard, prevRebooted,
                   core, req, boot, inMap>>

(* The stop token ends the check; a started timer is left running. *)
HeartbeatStop(l, c) ==
    /\ Present(at, <<l, c>>) /\ l \in HbWaiting
    /\ tok["heartbeat"] = 1
    /\ tok' = [tok EXCEPT !["heartbeat"] = 0]
    /\ LET gone == Move(at, <<l, c>>, <<"hb_exit", c>>)
       IN  at' = IF l = "hb_pending" THEN Spawn(gone, <<"orphan_timer", c>>) ELSE gone
    /\ UNCHANGED <<fsm, col, wg, active, mem, env>>

HeartbeatLeave(c) ==
    /\ Present(at, <<"hb_exit", c>>)
    /\ ~RLocked
    /\ at' = Exit(at, <<"hb_exit", c>>)
    /\ active' = [active EXCEPT !["heartbeat"] = FALSE]
    /\ UNCHANGED <<fsm, col, wg, tok, mem, env>>

-------------------------------------------------------------------------------
(* readIndications. *)

ReaderMoves(l, m, c) ==
    /\ Present(at, <<l, c>>)
    /\ at' = Move(at, <<l, c>>, <<m, c>>)

ReaderStart(c) ==
    /\ \/ ReaderMoves("rd_start", "rd_enter", c) /\ StreamOpens(c)
       \/ ReaderMoves("rd_start", "rd_exit", c) /\ StreamFails(c)
    /\ UNCHANGED <<fsm, col, wg, ctl, mem, core, req, boot, kvSig, inMap>>

ReaderEnter(c) ==
    /\ ReaderMoves("rd_enter", "rd_select", c)
    /\ ~RLocked
    /\ active' = [active EXCEPT !["indications"] = TRUE]
    /\ UNCHANGED <<fsm, col, wg, tok, mem, env>>

(* The stop token, seen before a receive, or while backing off after the   *)
(* stream broke under one.                                                 *)
ReaderStop(l, c) ==
    /\ l \in {"rd_select", "rd_recv"}
    /\ tok["indications"] = 1
    /\ tok' = [tok EXCEPT !["indications"] = 0]
    /\ ReaderMoves(l, "rd_exit", c)
    /\ UNCHANGED <<fsm, col, wg, active, mem, env>>

ReaderSelect(c) ==
    /\ tok["indications"] = 0
    /\ ReaderMoves("rd_select", "rd_recv", c)
    /\ UNCHANGED <<fsm, col, wg, ctl, mem, env>>

(* An OLT up indication; ignored, without the mutex, if already Up. *)
RecvOltUp(c) ==
    /\ StreamOpens(c)
    /\ state # "Up" => wg < MaxCollectors
    /\ ReaderMoves("rd_recv", IF state # "Up" THEN "DeviceUpInd" ELSE "rd_select", c)
    /\ UNCHANGED <<fsm, col, wg, ctl, mem, core, req, boot, kvSig, inMap>>

RecvOltDown(c) ==
    /\ conn /\ c = "live"
    /\ Fault("down")
    /\ ReaderMoves("rd_recv", "DeviceDownInd", c)
    /\ UNCHANGED <<fsm, col, wg, ctl, mem, core, req, boot, kvSig, inMap>>

(* The receive fails: a new stream is opened, after the back-off timer if  *)
(* the old one's ctx is done; the routine ends if it cannot be opened.     *)
ReaderReopen(c) ==
    /\ \/ ReaderMoves("rd_recv", "rd_select", c) /\ StreamOpens(c)
       \/ ReaderMoves("rd_recv", "rd_exit", c) /\ StreamFails(c)
    /\ UNCHANGED <<fsm, col, wg, ctl, mem, core, req, boot, kvSig, inMap>>

ReaderLeave(c) ==
    /\ Present(at, <<"rd_exit", c>>)
    /\ ~RLocked
    /\ at' = Exit(at, <<"rd_exit", c>>)
    /\ active' = [active EXCEPT !["indications"] = FALSE]
    /\ UNCHANGED <<fsm, col, wg, tok, mem, env>>

-------------------------------------------------------------------------------
(* The sections under lockDevice.RLock shared by the tear-down paths. *)

RLockNext == [un_stop |-> "un_col", rb_stop |-> "rb_ind", rb_colstop |-> "rb_col",
              dl_stop |-> "dl_col", ds_stop |-> "ds_col"]

TakeRLock(l, c) ==
    /\ Present(at, <<l, c>>) /\ l \in DOMAIN RLockNext
    /\ at' = Move(at, <<l, c>>, <<RLockNext[l], c>>)
    /\ UNCHANGED <<fsm, col, wg, ctl, mem, env>>

(* One conditional send; the sender waits, holding the RLock, while the    *)
(* channel is full.                                                        *)
SendStopToken(l, c) ==
    /\ Present(at, <<l, c>>) /\ l \in SendLabel
    /\ SendStop(StopSend[l].stops)
    /\ at' = Move(at, <<l, c>>, <<StopSend[l].next, c>>)
    /\ UNCHANGED <<fsm, col, wg, active, mem, env>>

-------------------------------------------------------------------------------
(* updateStateUnreachable. *)

UnreachableGet(c) ==
    /\ Present(at, <<"un_get", c>>)
    /\ \/ CoreFails /\ at' = Exit(at, <<"un_get", c>>)
       \/ /\ CoreAnswers
          /\ at' = IF core.conn = "REACHABLE" THEN Move(at, <<"un_get", c>>, <<"un_core", c>>)
                                              ELSE Exit(at, <<"un_get", c>>)
    /\ UNCHANGED <<fsm, col, wg, ctl, mem, core, req, boot, kvSig, inMap>>

(* Mutant: the core is not told. *)
UnreachableReportLocalOnly(c) ==
    /\ Present(at, <<"un_core", c>>)
    /\ dev' = [oper |-> "UNKNOWN", conn |-> "UNREACHABLE"]
    /\ at' = Move(at, <<"un_core", c>>, <<"un_stop", c>>)
    /\ UNCHANGED <<fsm, col, wg, ctl, deleting, ready, conn, hbSig, heard, prevRebooted, env>>

(* A failed update of the core is logged and the tear-down goes on. *)
UnreachableReport(c) ==
    /\ Present(at, <<"un_core", c>>)
    /\ \/ CoreAnswers /\ core' = CoreStatus("UNKNOWN", "UNREACHABLE")
       \/ CoreFails /\ UNCHANGED core
    /\ dev' = [oper |-> "UNKNOWN", conn |-> "UNREACHABLE"]
    /\ at' = Move(at, <<"un_core", c>>, <<"un_stop", c>>)
    /\ UNCHANGED <<fsm, col, wg, ctl, deleting, ready, conn, hbSig, heard, prevRebooted,
                   req, boot, kvSig, inMap>>

-------------------------------------------------------------------------------
(* updateStateRebooted. *)

RebootedGet(c) ==
    /\ Present(at, <<"rb_get", c>>)
    /\ \/ CoreFails /\ at' = Exit(at, <<"rb_get", c>>)
       \/ CoreAnswers /\ at' = Move(at, <<"rb_get", c>>, <<"rb_flag", c>>)
    /\ UNCHANGED <<fsm, col, wg, ctl, mem, core, req, boot, kvSig, inMap>>

RebootedFlag(c) ==
    /\ Present(at, <<"rb_flag", c>>)
    /\ ~RLocked
    /\ deleting' = TRUE
    /\ at' = Move(at, <<"rb_flag", c>>, <<"rb_stop", c>>)
    /\ UNCHANGED <<fsm, col, wg, ctl, dev, ready, conn, hbSig, heard, prevRebooted, env>>

RebootedReport(c) ==
    /\ Present(at, <<"rb_core", c>>)
    /\ \/ CoreAnswers /\ core' = CoreStatus("REBOOTED", "REACHABLE")
       \/ CoreFails /\ UNCHANGED core
    /\ dev' = [oper |-> "UNKNOWN", conn |-> "UNREACHABLE"]
    /\ at' = Move(at, <<"rb_core", c>>, <<"rb_clean", c>>)
    /\ UNCHANGED <<fsm, col, wg, ctl, deleting, ready, conn, hbSig, heard, prevRebooted,
                   req, boot, kvSig, inMap>>

(* Mutant: the deletion flag is reset before the child devices are gone. *)
RebootedCleanupResetsFlag(c) ==
    /\ Present(at, <<"rb_clean", c>>)
    /\ CleanupOk(c) \/ CleanupFails(c)
    /\ deleting' = FALSE
    /\ at' = Move(at, <<"rb_clean", c>>, <<"rb_colstop", c>>)
    /\ UNCHANGED <<fsm, col, wg, ctl, dev, ready, conn, hbSig, heard, prevRebooted,
                   core, req, boot, inMap>>

RebootedCleanup(c) ==
    /\ Present(at, <<"rb_clean", c>>)
    /\ CleanupOk(c) \/ CleanupFails(c)
    /\ at' = Move(at, <<"rb_clean", c>>, <<"rb_colstop", c>>)
    /\ UNCHANGED <<fsm, col, wg, ctl, mem, core, req, boot, inMap>>

(* Once the core has no child devices left the clean-up is over. *)
RebootedDone(c) ==
    /\ Present(at, <<"rb_children", c>>)
    /\ ~RLocked
    /\ deleting' = FALSE
    /\ at' = Move(at, <<"rb_children", c>>, <<"DeviceInit", c>>)
    /\ UNCHANGED <<fsm, col, wg, ctl, dev, ready, conn, hbSig, heard, prevRebooted, env>>

-------------------------------------------------------------------------------
(* Requests of the core: DeleteDevice, DisableDevice, ReenableDevice and   *)
(* UpdateDevice.                                                           *)

(* DeleteDevice is refused while the flag is up. *)
DeleteDevice ==
    /\ inMap /\ ~deleting
    /\ Fault("delete")
    /\ at' = Spawn(at, <<"dl_flag", "live">>)
    /\ UNCHANGED <<fsm, col, wg, ctl, mem, core, req, boot, kvSig, inMap>>

DeleteFlag ==
    /\ Present(at, <<"dl_flag", "live">>)
    /\ ~RLocked
    /\ deleting' = TRUE
    /\ at' = Move(at, <<"dl_flag", "live">>, <<"dl_stop", "live">>)
    /\ UNCHANGED <<fsm, col, wg, ctl, dev, ready, conn, hbSig, heard, prevRebooted, env>>

DeleteCleanup ==
    /\ Present(at, <<"dl_clean", "live">>)
    /\ \/ /\ CleanupOk("live")
          /\ at' = Move(at, <<"dl_clean", "live">>, <<"dl_reboot", "live">>)
          /\ UNCHANGED deleting
       \/ /\ CleanupFails("live")
          /\ ~RLocked
          /\ at' = Exit(at, <<"dl_clean", "live">>)
          /\ deleting' = FALSE
    /\ UNCHANGED <<fsm, col, wg, ctl, dev, ready, conn, hbSig, heard, prevRebooted,
                   core, req, boot, inMap>>

(* The OLT is rebooted; if that fails the error goes back to the core and  *)
(* the handler stays in the map.                                           *)
DeleteReboot ==
    /\ Present(at, <<"dl_reboot", "live">>)
    /\ \/ /\ OltAnswers
          /\ boot' = boot + 1
          /\ at' = Move(at, <<"dl_reboot", "live">>, <<"dl_poll", "live">>)
       \/ /\ OltFails
          /\ at' = Exit(at, <<"dl_reboot", "live">>)
          /\ UNCHANGED boot
    /\ UNCHANGED <<fsm, col, wg, ctl, mem, core, req, kvSig, inMap>>

(* OpenOLT.DeleteDevice polls the three flags and gives up after 30 s. *)
DeletePoll(timeout) ==
    /\ Present(at, <<"dl_poll", "live">>)
    /\ timeout \/ \A r \in Routine : ~active[r]
    /\ inMap' = FALSE
    /\ at' = Exit(at, <<"dl_poll", "live">>)
    /\ UNCHANGED <<fsm, col, wg, ctl, mem, core, req, boot, kvSig, budget>>

(* The core forgets a device whose deletion it has asked for. *)
CoreForgets ==
    /\ core.has
    /\ \/ ~inMap
       \/ \E l \in {"dl_stop", "dl_col", "dl_hb", "dl_ind", "dl_clean", "dl_reboot", "dl_poll"} :
             Present(at, <<l, "live">>)
    /\ core' = CoreAdmin(core.disabled, FALSE)
    /\ UNCHANGED <<fsm, gor, ctl, mem, req, boot, kvSig, inMap, budget>>

(* DisableOlt and ReenableOlt may be refused by the OLT agent: the request *)
(* then ends at once.                                                      *)
DisableDevice ==
    /\ inMap /\ core.has /\ ~core.disabled
    /\ Fault("admin")
    /\ core' = CoreAdmin(TRUE, core.has)
    /\ req' = [oper |-> core.oper, conn |-> core.conn]
    /\ at' \in {at, Spawn(at, <<"ds_stop", "live">>)}
    /\ UNCHANGED <<fsm, col, wg, ctl, mem, boot, kvSig, inMap>>

DisableStore ==
    /\ Present(at, <<"ds_set", "live">>)
    /\ dev' = req
    /\ at' = Exit(at, <<"ds_set", "live">>)
    /\ UNCHANGED <<fsm, col, wg, ctl, deleting, ready, conn, hbSig, heard, prevRebooted, env>>

(* ReenableDevice needs the client postInit creates and reports with the   *)
(* connect status the request came with.                                   *)
ReenableDevice ==
    /\ inMap /\ core.has /\ core.disabled /\ state # "Null"
    /\ \A l \in {"ds_stop", "ds_col", "ds_set"} : ~Present(at, <<l, "live">>)
    /\ core' = CoreAdmin(FALSE, core.has)
    /\ req' = [oper |-> core.oper, conn |-> core.conn]
    /\ at' \in {at, Spawn(at, <<"re_set", "live">>)}
    /\ UNCHANGED <<fsm, col, wg, ctl, mem, boot, kvSig, inMap, budget>>

ReenableReport ==
    /\ Present(at, <<"re_set", "live">>)
    /\ at' = Exit(at, <<"re_set", "live">>)
    /\ \E oper \in {"ACTIVE", "FAILED"} :
          /\ dev' = [oper |-> oper, conn |-> req.conn]
          /\ \/ CoreAnswers /\ core' = CoreStatus(oper, req.conn)
             \/ CoreFails /\ UNCHANGED core
    /\ UNCHANGED <<fsm, col, wg, ctl, deleting, ready, conn, hbSig, heard, prevRebooted,
                   req, boot, kvSig, inMap>>

(* UpdateDevice cancels the running lineage before it looks at the address: *)
(* an unchanged address is then an error, a new one starts a new lineage.   *)
UpdateDevice(changed) ==
    /\ inMap
    /\ Fault("update")
    /\ ~RLocked
    /\ cs' = [trig |-> cs.trig, step |-> cs.step, mode |-> cs.mode,
              ctx |-> IF cs = Idle THEN "live" ELSE "done"]
    /\ at' = IF changed
             THEN Spawn(Cancelled(at),
                        <<IF dev.conn = "REACHABLE" THEN "un_get" ELSE "DeviceInit", "live">>)
             ELSE Cancelled(at)
    /\ UNCHANGED <<state, col, wg, ctl, mem, core, req, boot, kvSig, inMap>>

-------------------------------------------------------------------------------
(* The OLT. *)

OltReboots ==
    /\ Fault("reboot")
    /\ boot' = boot + 1
    /\ UNCHANGED <<fsm, gor, ctl, mem, core, req, kvSig, inMap>>

-------------------------------------------------------------------------------
(* A handler is created by AdoptDevice, or by ReconcileDevice when the     *)
(* adapter restarts: the OLT may have rebooted in between, the core may    *)
(* have known of a reboot, and the device may be disabled.                 *)

Init ==
    /\ state = "Null"
    /\ cs = Idle
    /\ at = [p \in Point |-> IF p = <<"DeviceInit", "live">> THEN 1 ELSE 0]
    /\ col = [l \in ColLabel |-> 0]
    /\ wg = 0
    /\ tok = [r \in Routine |-> 0]
    /\ active = [r \in Routine |-> FALSE]
    /\ deleting = FALSE
    /\ ready = FALSE
    /\ conn = FALSE
    /\ hbSig = 0
    /\ heard = 0
    /\ inMap = TRUE
    /\ \E start \in Starts :
          /\ budget = [left |-> start.faults, start |-> start]
          /\ dev = IF start.origin = "adopt" THEN [oper |-> "UNKNOWN", conn |-> "UNKNOWN"]
                                             ELSE [oper |-> "RECONCILING", conn |-> "UNREACHABLE"]
          /\ prevRebooted = (start.origin = "reconcile_rebooted")
          /\ kvSig = IF start.origin = "adopt" THEN 0 ELSE 1
          /\ boot = IF start.rebooted THEN 2 ELSE 1
          /\ core = [oper |-> dev.oper, conn |-> dev.conn,
                     disabled |-> start.origin = "reconcile_disabled", has |-> TRUE]
    /\ req = dev

HandleNext == \/ \E trig \in Trigger, c \in Ctx : HandleEnter(trig, c) \/ HandleReject(trig, c)
              \/ DoStateInit \/ DoStateConnected \/ PopulateDeviceInfo \/ CollectorWait
              \/ BuildModules \/ DoStateUp \/ UpGetDevice \/ UpRLock \/ UpSendStop
              \/ UpCleanup \/ UpReport \/ DoStateDown

CollectorNext == CollectorEnter \/ CollectorStop \/ CollectorLeave \/ CollectorDone

HeartbeatNext ==
    \E c \in Ctx :
       \/ HeartbeatEnter(c) \/ ReportTimer(c) \/ OrphanTimer(c)
       \/ HeartbeatStore(c) \/ HeartbeatLeave(c)
       \/ \E l \in HbWaiting : \/ HeartbeatTick(l, c) \/ HeartbeatFail(l, c) \/ HeartbeatOk(l, c)
                              \/ HeartbeatRebooted(l, c) \/ HeartbeatStop(l, c)

ReaderNext ==
    \E c \in Ctx :
       \/ ReaderStart(c) \/ ReaderEnter(c) \/ ReaderSelect(c) \/ ReaderLeave(c)
       \/ RecvOltUp(c) \/ RecvOltDown(c) \/ ReaderReopen(c)
       \/ \E l \in {"rd_select", "rd_recv"} : ReaderStop(l, c)

TeardownNext ==
    \E c \in Ctx :
       \/ UnreachableGet(c) \/ UnreachableReport(c)
       \/ RebootedGet(c) \/ RebootedFlag(c) \/ RebootedReport(c) \/ RebootedCleanup(c)
       \/ RebootedDone(c) \/ UpdateLocalDevice(c)
       \/ \E l \in DOMAIN RLockNext : TakeRLock(l, c)
       \/ \E l \in SendLabel : SendStopToken(l, c)

RequestNext == \/ DeleteDevice \/ DeleteFlag \/ DeleteCleanup \/ DeleteReboot
               \/ \E timeout \in BOOLEAN : DeletePoll(timeout)
               \/ DisableDevice \/ DisableStore \/ ReenableDevice \/ ReenableReport
               \/ \E changed \in BOOLEAN : UpdateDevice(changed)

EnvNext == CoreForgets \/ OltReboots

Next == \/ HandleNext \/ CollectorNext \/ HeartbeatNext \/ ReaderNext \/ TeardownNext
        \/ RequestNext \/ EnvNext

Spec == Init /\ [][Next]_vars

(* Fairness.  The Go scheduler runs every goroutine, a Mutex and an RWMutex *)
(* do not starve a waiter, RPCs return and timers fire.  Strong fairness    *)
(* because locks and channels are contended.  The OLT repeats its up        *)
(* indication to a reader that keeps receiving (EnableIndication).          *)
HandleCall(trigs) ==
    \E trig \in trigs, c \in Ctx : HandleEnter(trig, c) \/ HandleReject(trig, c)

Fairness == /\ SF_vars(HandleCall(ReaderTrigger))
            /\ SF_vars(HandleCall(Trigger \ ReaderTrigger))
            /\ SF_vars(HandleNext /\ cs # Idle)
            /\ SF_vars(CollectorNext \/ TeardownNext)
            /\ SF_vars(HeartbeatNext)
            /\ SF_vars(ReaderNext)
            /\ \A c \in Ctx : SF_vars(RecvOltUp(c))

FairSpec == Spec /\ Fairness

-------------------------------------------------------------------------------
(* Properties. *)

(* collectorWaitGroup counts exactly the startCollector goroutines that    *)
(* have not called Done, whatever doStateUp's error paths and repeated up  *)
(* indications do: Done never makes it negative (a panic), and Wait in     *)
(* initializeDeviceHandlerModules returns only when all have ended.        *)
CollectorAccounting == wg = col["start"] + col["run"] + col["exit"] + col["done"]

(* Goroutines of routine r between setting and clearing its active flag. *)
MarkedActive(r) ==
    CASE r = "collector"   -> Present(col, "run") \/ Present(col, "exit")
      [] r = "heartbeat"   -> \E l \in HbLabel \ {"hb_start"}, c \in Ctx : Present(at, <<l, c>>)
      [] r = "indications" -> \/ \E l \in (RdLabel \ {"rd_start", "rd_enter"}) \cup ReaderTrigger,
                                    c \in Ctx : Present(at, <<l, c>>)
                              \/ cs.trig \in ReaderTrigger

(* A flag isHeartbeatCheckActive, isReadIndicationRoutineActive or         *)
(* isCollectorActive that is set has a goroutine behind it that will clear *)
(* it, however many copies of the routine run: OpenOLT.DeleteDevice's      *)
(* polling and the conditional stops never see a flag nobody owns.         *)
ActiveHasRoutine == \A r \in Routine : active[r] => MarkedActive(r)

(* The routines use the managers, so none of them runs before              *)
(* initializeDeviceHandlerModules has completed once, even when it failed  *)
(* and GrpcDisconnected started over.                                      *)
RoutinesAfterInit ==
    \/ ready
    \/ /\ \A l \in HbLabel \cup RdLabel \cup {"orphan_timer", "rb_get"} :
             \A c \in Ctx : ~Present(at, <<l, c>>)
       /\ \A l \in ColLabel : ~Present(col, l)

(* Goroutines that will still take a stop token of r: the select loops, and *)
(* the reader that is inside a transition and returns to its loop.          *)
Receiver(r) ==
    CASE r = "collector"   -> Present(col, "run")
      [] r = "heartbeat"   -> \E l \in HbLabel \ {"hb_start", "hb_exit"}, c \in Ctx :
                                 Present(at, <<l, c>>)
      [] r = "indications" -> \/ \E l \in {"rd_select", "rd_recv"} \cup ReaderTrigger, c \in Ctx :
                                    Present(at, <<l, c>>)
                              \/ cs.trig \in ReaderTrigger

(* A goroutine holds the RLock and finds the stop channel of r full. *)
SendBlocked(r) ==
    /\ active[r] /\ tok[r] = 1
    /\ \/ \E l \in SendLabel, c \in Ctx : StopSend[l].stops = r /\ Present(at, <<l, c>>)
       \/ cs.step \in DOMAIN UpStopSend /\ UpStopSend[cs.step].stops = r

(* With at most one disturbance, a tear-down that blocks on a full stop    *)
(* channel under lockDevice.RLock still has a receiver to drain it: if the *)
(* only routine left were past its loop it would wait for lockDevice.Lock, *)
(* and the device would be locked for good.                                *)
SenderHasReceiver ==
    budget.start.faults <= 1 => \A r \in Routine : SendBlocked(r) => Receiver(r)

(* With a single disturbance no tear-down path ever blocks on a stop       *)
(* channel: the flag it checks and the token it sends stay in step with    *)
(* the routine although nothing holds the lock between flag and token.     *)
SendersNeverWait == \A r \in Routine : ~SendBlocked(r)

(* When no call to the core is lost, no administrator interferes and the   *)
(* OLT has not rebooted, the core sees the device ACTIVE only while the    *)
(* state machine is Up: the tear-down of updateStateUnreachable and the    *)
(* doStateUp of a reader do not overtake each other.                       *)
ActiveMeansUp == boot = 1 /\ core.oper = "ACTIVE" /\ cs = Idle => state = "Up"

(* updateStateRebooted between setting and clearing the deletion flag. *)
RebootCleanup == {"rb_stop", "rb_ind", "rb_hb", "rb_core", "rb_clean", "rb_colstop", "rb_col",
                  "rb_children"}

(* While updateStateRebooted cleans up, isDeviceDeletionInProgress is set, *)
(* so that flow, group and child requests are turned away from the         *)
(* half-removed device.                                                    *)
RebootCleanupGuarded ==
    (\E l \in RebootCleanup, c \in Ctx : Present(at, <<l, c>>)) => deleting

RebootPoint == (RebootCleanup \cup {"rb_get", "rb_flag"}) \X Ctx

(* One reboot of the OLT is cleaned up by one updateStateRebooted at a     *)
(* time, although heartbeat checks overlap across a re-initialisation and  *)
(* share the signature they compare with.                                  *)
RebootHandledOnce ==
    \A p \in RebootPoint : Present(at, p) =>
        /\ at[p] = 1
        /\ \A q \in RebootPoint \ {p} : ~Present(at, q)

(* lockDevice does not stay read-locked: every blocked stop is received in *)
(* the end, so the routines waiting for lockDevice.Lock can go on.         *)
LockAvailable == []<>~RLocked

(* After a failed RPC, a missed heartbeat, an OLT down indication or a     *)
(* reboot the device is up again and the core is told so for good, unless  *)
(* the state machine is left in collectorWaitGroup.Wait.                   *)
Recovery == \/ <>[](state = "Up" /\ core.oper = "ACTIVE" /\ core.conn = "REACHABLE")
            \/ <>[](cs.step = "wait")

(* An OLT whose signature differs from the one in the KV store, because it *)
(* rebooted while connected or while the adapter was away, is noticed by a *)
(* heartbeat check: updateStateRebooted reports it and cleans up after it. *)
RebootNoticed == kvSig \notin {0, boot} ~> \E c \in Ctx : Present(at, <<"rb_clean", c>>)
===============================================================================

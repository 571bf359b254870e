------------------------- MODULE DeviceLifecycleProofs -------------------------
(***************************************************************************)
(* Proofs about DeviceLifecycle for every set of origins and faults and    *)
(* every bound.                                                            *)
(***************************************************************************)
EXTENDS DeviceLifecycle, TLAPS

-------------------------------------------------------------------------------
(* Populations of goroutines. *)

(* A goroutine that starts, proceeds or returns leaves a population of     *)
(* goroutines over the same points.                                        *)
LEMMA PopulationType ==
    ASSUME NEW S, NEW pop \in [S -> Nat], NEW p \in S, NEW q \in S
    PROVE  /\ Spawn(pop, p) \in [S -> Nat]
           /\ Present(pop, p) => Exit(pop, p) \in [S -> Nat]
           /\ Present(pop, p) => Move(pop, p, q) \in [S -> Nat]
BY DEF Spawn, Exit, Move, Present

-------------------------------------------------------------------------------
(* collectorWaitGroup. *)

CollectorInv == /\ col \in [ColLabel -> Nat]
                /\ wg \in Int
                /\ CollectorAccounting

(* The heartbeat check touches neither the state machine nor the           *)
(* collectors, and only when it starts, stops and ends its own flag and    *)
(* channel.                                                                *)
LEMMA HeartbeatFrame ==
    ASSUME HeartbeatNext
    PROVE  /\ UNCHANGED <<fsm, col, wg>>
           /\ \/ UNCHANGED ctl
              \/ \E c \in Ctx : HeartbeatEnter(c) \/ HeartbeatLeave(c)
                                \/ \E l \in HbWaiting : HeartbeatStop(l, c)
<1>1. PICK c \in Ctx :
        \/ HeartbeatEnter(c) \/ ReportTimer(c) \/ OrphanTimer(c)
        \/ HeartbeatStore(c) \/ HeartbeatLeave(c)
        \/ \E l \in HbWaiting : \/ HeartbeatTick(l, c) \/ HeartbeatFail(l, c) \/ HeartbeatOk(l, c)
                                \/ HeartbeatRebooted(l, c) \/ HeartbeatStop(l, c)
  BY DEF HeartbeatNext
<1>2. CASE HeartbeatEnter(c) \/ HeartbeatLeave(c)
  BY <1>2 DEF HeartbeatEnter, HeartbeatLeave
<1>3. CASE ReportTimer(c) \/ OrphanTimer(c) \/ HeartbeatStore(c)
  BY <1>3 DEF ReportTimer, OrphanTimer, HeartbeatStore
<1>4. ASSUME NEW l \in HbWaiting, HeartbeatTick(l, c) \/ HeartbeatFail(l, c) \/ HeartbeatOk(l, c)
                                  \/ HeartbeatRebooted(l, c)
      PROVE  UNCHANGED <<fsm, col, wg, ctl>>
  BY <1>4 DEF HeartbeatTick, HeartbeatFail, HeartbeatOk, HeartbeatRebooted
<1>5. ASSUME NEW l \in HbWaiting, HeartbeatStop(l, c)
      PROVE  UNCHANGED <<fsm, col, wg>>
  BY <1>5 DEF HeartbeatStop
<1>. QED  BY <1>1, <1>2, <1>3, <1>4, <1>5

(* Only doStateUp, the rebuild inside it and startCollector itself touch   *)
(* the collectors and their wait group.                                    *)
LEMMA CollectorFrame ==
    ASSUME Next, ~DoStateUp, ~BuildModules, ~CollectorNext
    PROVE  UNCHANGED <<col, wg>>
<1>1. CASE HandleNext
  <2>1. CASE \E trig \in Trigger, c \in Ctx : HandleEnter(trig, c) \/ HandleReject(trig, c)
    BY <2>1 DEF HandleEnter, HandleReject
  <2>2. CASE DoStateInit \/ DoStateConnected \/ PopulateDeviceInfo \/ CollectorWait
    BY <2>2 DEF DoStateInit, DoStateConnected, PopulateDeviceInfo, CollectorWait
  <2>3. CASE UpGetDevice \/ UpRLock \/ UpSendStop \/ UpCleanup \/ UpReport \/ DoStateDown
    BY <2>3 DEF UpGetDevice, UpRLock, UpSendStop, UpCleanup, UpReport, DoStateDown
  <2>. QED  BY <1>1, <2>1, <2>2, <2>3 DEF HandleNext
<1>2. CASE HeartbeatNext
  BY <1>2, HeartbeatFrame
<1>3. CASE ReaderNext
  BY <1>3 DEF ReaderNext, ReaderStart, ReaderEnter, ReaderSelect, ReaderLeave, RecvOltUp,
              RecvOltDown, ReaderReopen, ReaderStop
<1>4. CASE TeardownNext
  BY Zenon, <1>4 DEF TeardownNext, UnreachableGet, UnreachableReport, RebootedGet, RebootedFlag,
              RebootedReport, RebootedCleanup, RebootedDone, UpdateLocalDevice, TakeRLock,
              SendStopToken
<1>5. CASE RequestNext
  BY Zenon, <1>5 DEF RequestNext, DeleteDevice, DeleteFlag, DeleteCleanup, DeleteReboot, DeletePoll,
              DisableDevice, DisableStore, ReenableDevice, ReenableReport, UpdateDevice
<1>6. CASE EnvNext
  BY Zenon, <1>6 DEF EnvNext, CoreForgets, OltReboots, gor
<1>. QED  BY <1>1, <1>2, <1>3, <1>4, <1>5, <1>6 DEF Next

LEMMA CollectorStep ==
    ASSUME CollectorInv, [Next]_vars
    PROVE  CollectorInv'
<1> USE DEF CollectorInv, CollectorAccounting, ColLabel, Present, Spawn, Exit, Move
<1>1. CASE DoStateUp
  BY <1>1 DEF DoStateUp
<1>2. CASE BuildModules
  BY <1>2 DEF BuildModules
<1>3. CASE CollectorEnter
  BY <1>3 DEF CollectorEnter
<1>4. CASE CollectorStop
  BY <1>4 DEF CollectorStop
<1>5. CASE CollectorLeave
  BY <1>5 DEF CollectorLeave
<1>6. CASE CollectorDone
  BY <1>6 DEF CollectorDone
<1>7. CASE Next /\ ~DoStateUp /\ ~BuildModules /\ ~CollectorNext
  BY <1>7, CollectorFrame
<1>8. CASE UNCHANGED vars
  BY <1>8 DEF vars, gor
<1>. QED  BY <1>1, <1>2, <1>3, <1>4, <1>5, <1>6, <1>7, <1>8 DEF CollectorNext

(* The wait group accounts for the collectors in every reachable state:    *)
(* however often doStateUp starts one and fails afterwards, Done is called *)
(* exactly once for every Add.                                             *)
THEOREM CollectorsAccounted == Spec => []CollectorAccounting
<1>1. Init => CollectorInv
  BY DEF Init, CollectorInv, CollectorAccounting, ColLabel
<1>2. CollectorInv /\ [Next]_vars => CollectorInv'
  BY CollectorStep
<1>3. CollectorInv => CollectorAccounting
  BY DEF CollectorInv
<1>. QED  BY <1>1, <1>2, <1>3, PTL DEF Spec

-------------------------------------------------------------------------------
(* Type correctness. *)

(* Every goroutine stands at a program point. *)
AtType == at \in [Point -> Nat]

(* The tables name program points only. *)
LEMMA LabelFacts ==
    /\ Trigger \subseteq Label /\ HbLabel \subseteq Label /\ RdLabel \subseteq Label
    /\ SendLabel \subseteq Label /\ RpcLabel \subseteq Label
    /\ {"orphan_timer", "un_get", "un_core", "un_stop", "rb_get", "rb_flag", "rb_stop", "rb_core",
        "rb_clean", "rb_colstop", "rb_children", "local_device"} \subseteq Label
    /\ \A l \in HbWaiting : l \in HbLabel /\ HbRpc[l] \in HbLabel
    /\ \A l \in SendLabel : StopSend[l].next \in Label
    /\ \A l \in DOMAIN RLockNext : l \in Label /\ RLockNext[l] \in Label
    /\ "live" \in Ctx
<1>1. Trigger \subseteq Label /\ HbLabel \subseteq Label /\ RdLabel \subseteq Label
      /\ SendLabel \subseteq Label
  BY DEF Label
<1>2. SendLabel = {"un_col", "un_hb", "un_ind", "rb_ind", "rb_hb", "rb_col", "dl_col", "dl_hb",
                   "dl_ind", "ds_col"}
  BY DEF SendLabel, StopSend
<1>3. RpcLabel \subseteq Label
  BY <1>2 DEF RpcLabel, Label
<1>4. {"orphan_timer", "un_get", "un_core", "un_stop", "rb_get", "rb_flag", "rb_stop", "rb_core",
        "rb_clean", "rb_colstop", "rb_children", "local_device"} \subseteq Label
  BY DEF Label
<1>5. \A l \in HbWaiting : l \in HbLabel /\ HbRpc[l] \in HbLabel
  BY DEF HbWaiting, HbRpc, HbLabel
<1>6. \A l \in SendLabel : StopSend[l].next \in Label
  BY <1>2 DEF StopSend, Label, Trigger
<1>7. \A l \in DOMAIN RLockNext : l \in Label /\ RLockNext[l] \in Label
  BY <1>2 DEF RLockNext, Label
<1>8. "live" \in Ctx
  BY DEF Ctx
<1>. QED  BY <1>1, <1>3, <1>4, <1>5, <1>6, <1>7, <1>8

LEMMA PointFacts ==
    /\ \A l \in Label, c \in Ctx : <<l, c>> \in Point
    /\ \A l \in Trigger \cup HbLabel \cup RdLabel \cup SendLabel \cup RpcLabel, c \in Ctx :
          <<l, c>> \in Point
BY LabelFacts DEF Point

(* The goroutine that leaves Handle resumes or ends, and what the handlers *)
(* start stands at program points.                                         *)
LEMMA HandlerAt ==
    ASSUME AtType, cs.ctx \in Ctx
    PROVE  /\ \A trig : \A c \in Ctx : Resume(at, trig, c) \in [Point -> Nat]
           /\ HandlerError => AtType'
           /\ \A spawned : HandlerDone(spawned) => AtType'
           /\ \A step, mode : NextStep(step, mode) => AtType'
           /\ InitFailed => AtType'
<1>1. ASSUME NEW pop \in [Point -> Nat], NEW trig, NEW c \in Ctx
      PROVE  Resume(pop, trig, c) \in [Point -> Nat]
  <2>1. <<"rd_select", c>> \in Point
    BY PointFacts DEF RdLabel
  <2>. QED  BY <2>1, PopulationType DEF Resume
<1>2. \A trig : \A c \in Ctx : Resume(at, trig, c) \in [Point -> Nat]
  BY <1>1 DEF AtType
<1>3. HandlerError => AtType'
  BY <1>2 DEF HandlerError, AtType
<1>4. \A spawned : HandlerDone(spawned) => AtType'
  BY <1>2 DEF HandlerDone, AtType
<1>5. \A step, mode : NextStep(step, mode) => AtType'
  BY DEF NextStep, AtType
<1>6. InitFailed => AtType'
  BY <1>3, <1>4 DEF InitFailed
<1>. QED  BY <1>2, <1>3, <1>4, <1>5, <1>6

LEMMA AtTypeStep ==
    ASSUME TypeOK, Next
    PROVE  AtType'
<1> AtType /\ cs.ctx \in Ctx
  BY DEF TypeOK, AtType
<1>1. CASE HandleNext
  <2>1. ASSUME NEW trig \in Trigger, NEW c \in Ctx, HandleEnter(trig, c) \/ HandleReject(trig, c)
        PROVE  AtType'
    <3>1. <<trig, c>> \in Point
      BY PointFacts
    <3>2. Present(at, <<trig, c>>) => Exit(at, <<trig, c>>) \in [Point -> Nat]
      BY Zenon, <3>1, PopulationType DEF AtType
    <3>3. <<"rd_select", c>> \in Point
      BY PointFacts DEF RdLabel
    <3>4. CASE HandleEnter(trig, c)
      BY <3>2, <3>4 DEF HandleEnter, AtType
    <3>5. CASE HandleReject(trig, c)
      <4>1. Exit(at, <<trig, c>>) \in [Point -> Nat]
        BY <3>2, <3>5 DEF HandleReject
      <4>2. Resume(Exit(at, <<trig, c>>), trig, c) \in [Point -> Nat]
        BY Zenon, <3>3, <4>1, PopulationType DEF Resume
      <4>. QED  BY <3>5, <4>2 DEF HandleReject, AtType
    <3>. QED  BY <2>1, <3>4, <3>5
  <2>2. CASE DoStateInit \/ DoStateConnected \/ PopulateDeviceInfo \/ CollectorWait
    BY <2>2, HandlerAt DEF DoStateInit, DoStateConnected, PopulateDeviceInfo, CollectorWait
  <2>3. CASE BuildModules
    <3>1. <<"hb_start", cs.ctx>> \in Point
      BY PointFacts DEF HbLabel
    <3>2. Spawn(at, <<"hb_start", cs.ctx>>) \in [Point -> Nat]
      BY <3>1, PopulationType DEF AtType
    <3>. QED  BY <2>3, <3>2, HandlerAt DEF BuildModules, AtType
  <2>4. CASE DoStateUp \/ UpGetDevice \/ UpRLock \/ UpSendStop \/ UpCleanup \/ UpReport
             \/ DoStateDown
    BY <2>4, HandlerAt DEF DoStateUp, UpGetDevice, UpRLock, UpSendStop, UpCleanup, UpReport,
                           DoStateDown
  <2>. QED  BY <1>1, <2>1, <2>2, <2>3, <2>4 DEF HandleNext
<1>2. CASE CollectorNext
  BY <1>2 DEF CollectorNext, CollectorEnter, CollectorStop, CollectorLeave, CollectorDone, AtType
<1>3. CASE HeartbeatNext
  <2> PICK c \in Ctx :
        \/ HeartbeatEnter(c) \/ ReportTimer(c) \/ OrphanTimer(c)
        \/ HeartbeatStore(c) \/ HeartbeatLeave(c)
        \/ \E l \in HbWaiting : \/ HeartbeatTick(l, c) \/ HeartbeatFail(l, c) \/ HeartbeatOk(l, c)
                                \/ HeartbeatRebooted(l, c) \/ HeartbeatStop(l, c)
    BY <1>3 DEF HeartbeatNext
  <2>1. /\ \A l \in HbLabel : <<l, c>> \in Point
        /\ \A l \in HbWaiting : <<l, c>> \in Point /\ <<HbRpc[l], c>> \in Point
        /\ <<"un_get", c>> \in Point /\ <<"orphan_timer", c>> \in Point
        /\ <<"rb_get", c>> \in Point /\ <<"rd_start", c>> \in Point
    BY PointFacts, LabelFacts DEF RdLabel
  <2>2. CASE HeartbeatEnter(c) \/ HeartbeatStore(c) \/ HeartbeatLeave(c) \/ OrphanTimer(c)
    <3>1. /\ <<"hb_start", c>> \in Point /\ <<"hb_wait", c>> \in Point
          /\ <<"hb_sig", c>> \in Point /\ <<"hb_exit", c>> \in Point
      BY <2>1 DEF HbLabel
    <3>2. CASE HeartbeatEnter(c)
      BY Zenon, <3>1, <3>2, PopulationType DEF HeartbeatEnter, AtType
    <3>3. CASE HeartbeatStore(c)
      BY Zenon, <3>1, <3>3, PopulationType DEF HeartbeatStore, AtType
    <3>4. CASE HeartbeatLeave(c)
      BY Zenon, <3>1, <3>4, PopulationType DEF HeartbeatLeave, AtType
    <3>5. CASE OrphanTimer(c)
      BY Zenon, <2>1, <3>5, PopulationType DEF OrphanTimer, AtType
    <3>. QED  BY <2>2, <3>2, <3>3, <3>4, <3>5
  <2>3. CASE ReportTimer(c)
    <3> PICK p \in {<<"hb_pending", "hb_fired">>, <<"hb_rpc_pending", "hb_rpc_fired">>} :
          /\ Present(at, <<p[1], c>>)
          /\ at' = Spawn(Move(at, <<p[1], c>>, <<p[2], c>>), <<"un_get", c>>)
      BY <2>3 DEF ReportTimer
    <3>1. <<p[1], c>> \in Point /\ <<p[2], c>> \in Point
      BY <2>1 DEF HbLabel
    <3>2. Move(at, <<p[1], c>>, <<p[2], c>>) \in [Point -> Nat]
      BY Zenon, <3>1, PopulationType DEF AtType
    <3>. QED  BY Zenon, <2>1, <3>2, PopulationType DEF AtType
  <2>4. ASSUME NEW l \in HbWaiting,
               \/ HeartbeatTick(l, c) \/ HeartbeatFail(l, c) \/ HeartbeatOk(l, c)
               \/ HeartbeatRebooted(l, c) \/ HeartbeatStop(l, c)
        PROVE  AtType'
    <3>1. \A m \in {"hb_wait", "hb_pending", "hb_exit", "hb_sig"} : <<m, c>> \in Point
      BY <2>1 DEF HbLabel
    <3>2. \A m \in {"hb_wait", "hb_pending", "hb_exit", "hb_sig", l} :
             /\ Present(at, <<HbRpc[l], c>>) => Move(at, <<HbRpc[l], c>>, <<m, c>>) \in [Point -> Nat]
             /\ Present(at, <<l, c>>) => Move(at, <<l, c>>, <<m, c>>) \in [Point -> Nat]
      BY Zenon, <2>1, <3>1, PopulationType DEF AtType
    <3>3. CASE HeartbeatTick(l, c)
      BY Zenon, <2>1, <3>3, PopulationType DEF HeartbeatTick, AtType
    <3>4. CASE HeartbeatFail(l, c)
      BY <3>2, <3>4 DEF HeartbeatFail, AtType
    <3>5. CASE HeartbeatOk(l, c)
      <4> DEFINE back == Move(at, <<HbRpc[l], c>>, <<"hb_wait", c>>)
      <4>1. back \in [Point -> Nat]
        BY <3>2, <3>5 DEF HeartbeatOk
      <4>2. Spawn(back, <<"rd_start", c>>) \in [Point -> Nat]
        BY Zenon, <2>1, <4>1, PopulationType
      <4>3. at' = back \/ at' = Spawn(back, <<"rd_start", c>>)
        BY <3>5 DEF HeartbeatOk
      <4>. QED  BY <4>1, <4>2, <4>3 DEF AtType
    <3>6. CASE HeartbeatRebooted(l, c)
      BY Zenon, <2>1, <3>2, <3>6, PopulationType DEF HeartbeatRebooted, AtType
    <3>7. CASE HeartbeatStop(l, c)
      BY Zenon, <2>1, <3>2, <3>7, PopulationType DEF HeartbeatStop, AtType
    <3>. QED  BY <2>4, <3>3, <3>4, <3>5, <3>6, <3>7
  <2>. QED  BY <2>2, <2>3, <2>4
<1>4. CASE ReaderNext
  <2> PICK c \in Ctx :
        \/ ReaderStart(c) \/ ReaderEnter(c) \/ ReaderSelect(c) \/ ReaderLeave(c)
        \/ RecvOltUp(c) \/ RecvOltDown(c) \/ ReaderReopen(c)
        \/ \E l \in {"rd_select", "rd_recv"} : ReaderStop(l, c)
    BY <1>4 DEF ReaderNext
  <2>1. \A l \in RdLabel \cup ReaderTrigger : <<l, c>> \in Point
    BY Zenon, PointFacts DEF ReaderTrigger, Trigger
  <2>2. ASSUME NEW l \in RdLabel \cup ReaderTrigger, NEW m \in RdLabel \cup ReaderTrigger,
               ReaderMoves(l, m, c)
        PROVE  AtType'
    <3>1. <<l, c>> \in Point /\ <<m, c>> \in Point
      BY <2>1
    <3>. QED  BY Zenon, <2>2, <3>1, PopulationType DEF ReaderMoves, AtType
  <2>3. \E l, m \in RdLabel \cup ReaderTrigger : ReaderMoves(l, m, c) \/ ReaderLeave(c)
    BY DEF ReaderStart, ReaderEnter, ReaderSelect, RecvOltUp, RecvOltDown, ReaderReopen,
           ReaderStop, RdLabel, ReaderTrigger
  <2>4. CASE ReaderLeave(c)
    <3>1. <<"rd_exit", c>> \in Point
      BY <2>1 DEF RdLabel
    <3>. QED  BY Zenon, <2>4, <3>1, PopulationType DEF ReaderLeave, AtType
  <2>. QED  BY <2>2, <2>3, <2>4
<1>5. CASE TeardownNext
  <2> PICK c \in Ctx :
        \/ UnreachableGet(c) \/ UnreachableReport(c)
        \/ RebootedGet(c) \/ RebootedFlag(c) \/ RebootedReport(c) \/ RebootedCleanup(c)
        \/ RebootedDone(c) \/ UpdateLocalDevice(c)
        \/ \E l \in DOMAIN RLockNext : TakeRLock(l, c)
        \/ \E l \in SendLabel : SendStopToken(l, c)
    BY <1>5 DEF TeardownNext
  <2>1. /\ \A l \in {"un_get", "un_core", "un_stop", "rb_get", "rb_flag", "rb_stop", "rb_core",
                     "rb_clean", "rb_colstop", "rb_children", "local_device", "DeviceInit"} :
              <<l, c>> \in Point
        /\ \A l \in DOMAIN RLockNext : <<l, c>> \in Point /\ <<RLockNext[l], c>> \in Point
        /\ \A l \in SendLabel : <<l, c>> \in Point /\ <<StopSend[l].next, c>> \in Point
    BY PointFacts, LabelFacts DEF Trigger
  <2>2. CASE UnreachableGet(c)
    <3>1. /\ Exit(at, <<"un_get", c>>) \in [Point -> Nat]
          /\ Move(at, <<"un_get", c>>, <<"un_core", c>>) \in [Point -> Nat]
      BY Zenon, <2>1, <2>2, PopulationType DEF UnreachableGet, AtType
    <3>. QED  BY <2>2, <3>1 DEF UnreachableGet, AtType
  <2>3. CASE UnreachableReport(c)
    BY Zenon, <2>1, <2>3, PopulationType DEF UnreachableReport, AtType
  <2>4. CASE RebootedGet(c)
    <3>1. /\ Exit(at, <<"rb_get", c>>) \in [Point -> Nat]
          /\ Move(at, <<"rb_get", c>>, <<"rb_flag", c>>) \in [Point -> Nat]
      BY Zenon, <2>1, <2>4, PopulationType DEF RebootedGet, AtType
    <3>. QED  BY <2>4, <3>1 DEF RebootedGet, AtType
  <2>5. CASE RebootedFlag(c)
    BY Zenon, <2>1, <2>5, PopulationType DEF RebootedFlag, AtType
  <2>6. CASE RebootedReport(c)
    BY Zenon, <2>1, <2>6, PopulationType DEF RebootedReport, AtType
  <2>7. CASE RebootedCleanup(c)
    BY Zenon, <2>1, <2>7, PopulationType DEF RebootedCleanup, AtType
  <2>8. CASE RebootedDone(c)
    BY Zenon, <2>1, <2>8, PopulationType DEF RebootedDone, AtType
  <2>9. CASE UpdateLocalDevice(c)
    BY Zenon, <2>1, <2>9, PopulationType DEF UpdateLocalDevice, AtType
  <2>10. CASE \E l \in DOMAIN RLockNext : TakeRLock(l, c)
    <3> PICK l \in DOMAIN RLockNext : TakeRLock(l, c)
      BY <2>10
    <3>1. Move(at, <<l, c>>, <<RLockNext[l], c>>) \in [Point -> Nat]
      BY Zenon, <2>1, PopulationType DEF TakeRLock, AtType
    <3>. QED  BY <3>1 DEF TakeRLock, AtType
  <2>11. CASE \E l \in SendLabel : SendStopToken(l, c)
    <3> PICK l \in SendLabel : SendStopToken(l, c)
      BY <2>11
    <3>1. Move(at, <<l, c>>, <<StopSend[l].next, c>>) \in [Point -> Nat]
      BY Zenon, <2>1, PopulationType DEF SendStopToken, AtType
    <3>. QED  BY <3>1 DEF SendStopToken, AtType
  <2>. QED  BY <2>2, <2>3, <2>4, <2>5, <2>6, <2>7, <2>8, <2>9, <2>10, <2>11
<1>6. CASE RequestNext
  <2>1. \A l \in RpcLabel : <<l, "live">> \in Point
    BY PointFacts, LabelFacts
  <2>2. /\ <<"dl_flag", "live">> \in Point /\ <<"dl_stop", "live">> \in Point
        /\ <<"dl_clean", "live">> \in Point /\ <<"dl_reboot", "live">> \in Point
        /\ <<"dl_poll", "live">> \in Point /\ <<"ds_stop", "live">> \in Point
        /\ <<"ds_set", "live">> \in Point /\ <<"re_set", "live">> \in Point
        /\ <<"un_get", "live">> \in Point /\ <<"DeviceInit", "live">> \in Point
    BY <2>1, PointFacts, LabelFacts DEF RpcLabel, Trigger
  <2>3. CASE DeleteDevice
    BY <2>2, <2>3, PopulationType DEF DeleteDevice, AtType
  <2>4. CASE DeleteFlag
    BY <2>2, <2>4, PopulationType DEF DeleteFlag, AtType
  <2>5. CASE DeleteCleanup
    BY <2>2, <2>5, PopulationType DEF DeleteCleanup, AtType
  <2>6. CASE DeleteReboot
    BY <2>2, <2>6, PopulationType DEF DeleteReboot, AtType
  <2>7. CASE \E timeout \in BOOLEAN : DeletePoll(timeout)
    BY <2>2, <2>7, PopulationType DEF DeletePoll, AtType
  <2>8. CASE DisableDevice
    <3>1. Spawn(at, <<"ds_stop", "live">>) \in [Point -> Nat]
      BY <2>2, PopulationType DEF AtType
    <3>. QED  BY <2>8, <3>1 DEF DisableDevice, AtType
  <2>9. CASE DisableStore
    BY <2>2, <2>9, PopulationType DEF DisableStore, AtType
  <2>10. CASE ReenableDevice
    <3>1. Spawn(at, <<"re_set", "live">>) \in [Point -> Nat]
      BY <2>2, PopulationType DEF AtType
    <3>. QED  BY <2>10, <3>1 DEF ReenableDevice, AtType
  <2>11. CASE ReenableReport
    BY Zenon, <2>2, <2>11, PopulationType DEF ReenableReport, AtType
  <2>12. ASSUME NEW changed \in BOOLEAN, UpdateDevice(changed)
         PROVE  AtType'
    <3>1. \A p \in Point : <<p[1], "live">> \in Point
      BY LabelFacts DEF Point
    <3>2. Cancelled(at) \in [Point -> Nat]
      BY <3>1 DEF Cancelled, AtType
    <3>3. \A l \in {"un_get", "DeviceInit"} : Spawn(Cancelled(at), <<l, "live">>) \in [Point -> Nat]
      BY Zenon, <2>2, <3>2, PopulationType
    <3>. QED  BY <2>12, <3>2, <3>3 DEF UpdateDevice, AtType
  <2>. QED  BY <1>6, <2>3, <2>4, <2>5, <2>6, <2>7, <2>8, <2>9, <2>10, <2>11, <2>12 DEF RequestNext
<1>7. CASE EnvNext
  BY Zenon, <1>7 DEF EnvNext, CoreForgets, OltReboots, gor, AtType
<1>. QED  BY <1>1, <1>2, <1>3, <1>4, <1>5, <1>6, <1>7 DEF Next

(* TypeOK without the populations and the wait group. *)
HandlerType == /\ state \in DeviceState
               /\ cs \in [trig : Trigger \cup {"none"}, step : CsStep, ctx : Ctx, mode : Mode]

RoutineType == tok \in [Routine -> {0, 1}] /\ active \in [Routine -> BOOLEAN]

CoreType == [oper : OperStatus, conn : ConnStatus, disabled : BOOLEAN, has : BOOLEAN]

MemoryType == /\ dev \in Status
              /\ deleting \in BOOLEAN /\ ready \in BOOLEAN /\ conn \in BOOLEAN
              /\ hbSig \in Nat /\ heard \in Nat
              /\ prevRebooted \in BOOLEAN

BudgetType == [left : Nat, start : Starts]

EnvType == /\ core \in CoreType
           /\ req \in Status
           /\ boot \in Nat /\ kvSig \in Nat
           /\ inMap \in BOOLEAN
           /\ budget \in BudgetType

LEMMA TypeSplit ==
    TypeOK <=> AtType /\ col \in [ColLabel -> Nat] /\ wg \in Int
               /\ HandlerType /\ RoutineType /\ MemoryType /\ EnvType
BY DEF TypeOK, AtType, HandlerType, RoutineType, MemoryType, EnvType, CoreType, BudgetType

(* The ctx that UpdateDevice cancels is a ctx of the model. *)
LEMMA UpdateCancels ==
    ASSUME EnvType, NEW changed, UpdateDevice(changed)
    PROVE  Ctx = {"live", "done"}
<1>1. budget.start \in Starts /\ "update" \in budget.start.kinds
  BY DEF UpdateDevice, Fault, EnvType, BudgetType
<1>. QED  BY <1>1 DEF Ctx

(* Whoever is inside Handle came with a trigger. *)
StepHasTrigger == cs.trig = "none" => cs.step = "idle"

LEMMA HandlerTypeStep ==
    ASSUME HandlerType, StepHasTrigger, EnvType, Next
    PROVE  HandlerType' /\ StepHasTrigger'
<1> USE DEF HandlerType, StepHasTrigger
<1>1. HandlerError => HandlerType' /\ StepHasTrigger'
  BY LabelFacts DEF HandlerError, Idle, CsStep, Mode
<1>2. ASSUME NEW spawned, HandlerDone(spawned), cs.step # "idle"
      PROVE  HandlerType' /\ StepHasTrigger'
  <2>1. \A trig \in Trigger : CurrentState[trig] \in DeviceState
    BY SMTT(30) DEF Trigger, CurrentState, DeviceState
  <2>2. state' \in DeviceState
    BY <1>2, <2>1 DEF HandlerDone
  <2>3. cs' = Idle
    BY <1>2 DEF HandlerDone
  <2>. QED  BY <2>2, <2>3, LabelFacts DEF Idle, CsStep, Mode
<1>3. \A step \in CsStep, mode \in Mode :
         NextStep(step, mode) /\ cs.step # "idle" => HandlerType' /\ StepHasTrigger'
  BY DEF NextStep
<1>4. InitFailed /\ cs.step # "idle" => HandlerType' /\ StepHasTrigger'
  BY <1>1, <1>2 DEF InitFailed
<1>5. CASE HandleNext
  <2>1. ASSUME NEW trig \in Trigger, NEW c \in Ctx, HandleEnter(trig, c) \/ HandleReject(trig, c)
        PROVE  HandlerType' /\ StepHasTrigger'
    <3>1. CASE HandleEnter(trig, c)
      <4>1. \A t \in Trigger : Before[t] \in CsStep /\ t # "none"
        BY DEF Before, Trigger, CsStep
      <4>2. cs' = [trig |-> trig, step |-> Before[trig], ctx |-> c, mode |-> "enabled"]
            /\ state' = state
        BY <3>1 DEF HandleEnter
      <4>. QED  BY <4>1, <4>2 DEF Mode
    <3>2. CASE HandleReject(trig, c)
      BY <3>2 DEF HandleReject, fsm
    <3>. QED  BY <2>1, <3>1, <3>2
  <2>2. CASE DoStateInit
    BY <2>2, <1>1, <1>2 DEF DoStateInit
  <2>7. CASE DoStateConnected
    BY <2>7, <1>1, <1>3 DEF DoStateConnected, CsStep, Mode
  <2>8. CASE PopulateDeviceInfo \/ CollectorWait
    BY <2>8, <1>3, <1>4 DEF PopulateDeviceInfo, CollectorWait, CsStep
  <2>3. CASE BuildModules
    <3>1. CASE InitFailed
      BY <2>3, <3>1, <1>4 DEF BuildModules
    <3>2. CASE \E spawned : HandlerDone(spawned)
      BY <2>3, <3>2, <1>2 DEF BuildModules
    <3>3. CASE /\ cs' = [trig |-> cs.trig, step |-> "upDone", ctx |-> cs.ctx, mode |-> cs.mode]
               /\ UNCHANGED state
      BY <2>3, <3>3 DEF BuildModules, CsStep
    <3>. QED  BY <2>3, <3>1, <3>2, <3>3 DEF BuildModules
  <2>4. CASE DoStateUp \/ UpGetDevice \/ UpRLock \/ UpCleanup
    BY <2>4, <1>1, <1>3 DEF DoStateUp, UpGetDevice, UpRLock, UpCleanup, CsStep, Mode
  <2>5. CASE UpSendStop
    BY SMTT(30), <2>5, <1>3 DEF UpSendStop, UpStopSend, CsStep
  <2>6. CASE UpReport
    BY <2>6, <1>1, <1>2 DEF UpReport
  <2>9. CASE DoStateDown
    BY <2>9, <1>1, <1>2 DEF DoStateDown
  <2>. QED  BY <1>5, <2>1, <2>2, <2>3, <2>4, <2>5, <2>6, <2>7, <2>8, <2>9 DEF HandleNext
<1>6. CASE \E changed \in BOOLEAN : UpdateDevice(changed)
  BY <1>6, UpdateCancels DEF UpdateDevice
<1>7. ASSUME UNCHANGED fsm PROVE HandlerType' /\ StepHasTrigger'
  BY <1>7 DEF fsm
<1>8. CASE CollectorNext
  BY <1>7, <1>8 DEF CollectorNext, CollectorEnter, CollectorStop, CollectorLeave, CollectorDone
<1>9. CASE HeartbeatNext
  BY <1>7, <1>9, HeartbeatFrame
<1>10. CASE ReaderNext
  BY <1>7, <1>10 DEF ReaderNext, ReaderStart, ReaderEnter, ReaderSelect, ReaderLeave, RecvOltUp,
                     RecvOltDown, ReaderReopen, ReaderStop
<1>11. CASE TeardownNext
  BY Zenon, <1>7, <1>11 DEF TeardownNext, UnreachableGet, UnreachableReport, RebootedGet, RebootedFlag,
                     RebootedReport, RebootedCleanup, RebootedDone, UpdateLocalDevice, TakeRLock,
                     SendStopToken
<1>12. CASE RequestNext /\ ~\E changed \in BOOLEAN : UpdateDevice(changed)
  BY Zenon, <1>7, <1>12 DEF RequestNext, DeleteDevice, DeleteFlag, DeleteCleanup, DeleteReboot, DeletePoll,
                     DisableDevice, DisableStore, ReenableDevice, ReenableReport
<1>13. CASE EnvNext
  BY Zenon, <1>7, <1>13 DEF EnvNext, CoreForgets, OltReboots
<1>. QED  BY <1>5, <1>6, <1>8, <1>9, <1>10, <1>11, <1>12, <1>13 DEF Next

(* A stop channel holds at most one token and a flag is a Boolean. *)
LEMMA RoutineTypeStep ==
    ASSUME RoutineType, Next
    PROVE  RoutineType'
<1> USE DEF RoutineType
<1>1. \A r \in Routine : SendStop(r) /\ UNCHANGED active => RoutineType'
  BY DEF SendStop
<1>2. ASSUME UNCHANGED ctl PROVE RoutineType'
  BY <1>2 DEF ctl
<1>3. CASE HandleNext
  <2>1. CASE UpSendStop
    <3>1. \A l \in DOMAIN UpStopSend : UpStopSend[l].stops \in Routine
      BY DEF UpStopSend, Routine
    <3>2. SendStop(UpStopSend[cs.step].stops) /\ UNCHANGED active
      BY <2>1 DEF UpSendStop
    <3>3. UpStopSend[cs.step].stops \in Routine
      BY <2>1, <3>1 DEF UpSendStop
    <3>. QED  BY <1>1, <3>2, <3>3, Zenon
  <2>2. CASE HandleNext /\ ~UpSendStop
    BY Zenon, <1>2, <2>2 DEF HandleNext, HandleEnter, HandleReject, DoStateInit, DoStateConnected,
                      PopulateDeviceInfo, CollectorWait, BuildModules, DoStateUp, UpGetDevice,
                      UpRLock, UpCleanup, UpReport, DoStateDown
  <2>. QED  BY <1>3, <2>1, <2>2
<1>4. CASE CollectorNext
  BY Zenon, <1>4, <1>2 DEF CollectorNext, CollectorEnter, CollectorStop, CollectorLeave, CollectorDone
<1>5. CASE HeartbeatNext
  <2>1. ASSUME NEW c \in Ctx, HeartbeatEnter(c) \/ HeartbeatLeave(c)
        PROVE  RoutineType'
    BY Zenon, <2>1 DEF HeartbeatEnter, HeartbeatLeave
  <2>2. ASSUME NEW c \in Ctx, NEW l \in HbWaiting, HeartbeatStop(l, c)
        PROVE  RoutineType'
    BY Zenon, <2>2 DEF HeartbeatStop
  <2>. QED  BY <1>5, <1>2, <2>1, <2>2, HeartbeatFrame
<1>6. CASE ReaderNext
  BY Zenon, <1>6, <1>2 DEF ReaderNext, ReaderStart, ReaderEnter, ReaderSelect, ReaderLeave, RecvOltUp,
                    RecvOltDown, ReaderReopen, ReaderStop
<1>7. CASE TeardownNext
  <2>1. \A l \in SendLabel : StopSend[l].stops \in Routine
    BY SMTT(30) DEF SendLabel, StopSend, Routine
  <2>2. CASE \E c \in Ctx, l \in SendLabel : SendStopToken(l, c)
    <3> PICK c \in Ctx, l \in SendLabel : SendStopToken(l, c)
      BY <2>2
    <3>1. SendStop(StopSend[l].stops) /\ UNCHANGED active
      BY DEF SendStopToken
    <3>. QED  BY <1>1, <2>1, <3>1, Zenon
  <2>3. CASE ~\E c \in Ctx, l \in SendLabel : SendStopToken(l, c)
    <3>1. UNCHANGED ctl
      BY Zenon, <1>7, <2>3
         DEF TeardownNext, UnreachableGet, UnreachableReport, RebootedGet, RebootedFlag,
             RebootedReport, RebootedCleanup, RebootedDone, UpdateLocalDevice, TakeRLock
    <3>. QED  BY <1>2, <3>1
  <2>. QED  BY <2>2, <2>3
<1>8. CASE RequestNext \/ EnvNext
  BY Zenon, <1>8, <1>2 DEF RequestNext, DeleteDevice, DeleteFlag, DeleteCleanup, DeleteReboot, DeletePoll,
                    DisableDevice, DisableStore, ReenableDevice, ReenableReport, UpdateDevice,
                    EnvNext, CoreForgets, OltReboots
<1>. QED  BY <1>3, <1>4, <1>5, <1>6, <1>7, <1>8 DEF Next

(* What the device's status may become. *)
LEMMA StatusFacts ==
    ASSUME MemoryType, EnvType
    PROVE  /\ \A oper \in OperStatus, con \in ConnStatus : [oper |-> oper, conn |-> con] \in Status
           /\ \A oper \in OperStatus, con \in ConnStatus :
                 CoreStatus(oper, con) \in CoreType
           /\ \A disabled, has \in BOOLEAN : CoreAdmin(disabled, has) \in CoreType
           /\ core.oper \in OperStatus /\ core.conn \in ConnStatus
           /\ core.disabled \in BOOLEAN /\ core.has \in BOOLEAN
           /\ req.conn \in ConnStatus
           /\ "UNKNOWN" \in OperStatus /\ "ACTIVE" \in OperStatus /\ "FAILED" \in OperStatus
           /\ "REBOOTED" \in OperStatus /\ "RECONCILING" \in OperStatus
           /\ "UNKNOWN" \in ConnStatus /\ "REACHABLE" \in ConnStatus /\ "UNREACHABLE" \in ConnStatus
<1>1. core.oper \in OperStatus /\ core.conn \in ConnStatus /\ req.conn \in ConnStatus
      /\ core.disabled \in BOOLEAN /\ core.has \in BOOLEAN
  BY DEF MemoryType, EnvType, CoreType, Status
<1>2. /\ \A oper \in OperStatus, con \in ConnStatus : [oper |-> oper, conn |-> con] \in Status
      /\ \A oper \in OperStatus, con \in ConnStatus : CoreStatus(oper, con) \in CoreType
      /\ \A disabled, has \in BOOLEAN : CoreAdmin(disabled, has) \in CoreType
  BY <1>1 DEF Status, CoreStatus, CoreAdmin, CoreType
<1>3. /\ "UNKNOWN" \in OperStatus /\ "ACTIVE" \in OperStatus /\ "FAILED" \in OperStatus
      /\ "REBOOTED" \in OperStatus /\ "RECONCILING" \in OperStatus
      /\ "UNKNOWN" \in ConnStatus /\ "REACHABLE" \in ConnStatus /\ "UNREACHABLE" \in ConnStatus
  BY DEF OperStatus, ConnStatus
<1>. QED  BY <1>1, <1>2, <1>3

LEMMA MemoryTypeStep ==
    ASSUME MemoryType, EnvType, Next
    PROVE  MemoryType' /\ EnvType'
<1> USE DEF MemoryType, EnvType
<1>1. InitFailed => dev' \in Status /\ core' \in CoreType
  <2>1. CoreStatus("UNKNOWN", "UNREACHABLE") \in CoreType
        /\ [oper |-> "UNKNOWN", conn |-> "UNREACHABLE"] \in Status
    BY StatusFacts
  <2>. QED  BY <2>1 DEF InitFailed
<1>2. \A kind : Fault(kind) => budget' \in BudgetType
  BY DEF Fault, BudgetType
<1>3. (CoreFails \/ CoreAnswers \/ OltFails \/ OltAnswers) => budget' \in BudgetType
  BY <1>2 DEF CoreFails, CoreAnswers, OltFails, OltAnswers
<1>4. \A c : (StreamOpens(c) \/ StreamFails(c) \/ KvAnswers(c) \/ KvFails(c)) => budget' \in BudgetType
  BY <1>2 DEF StreamOpens, StreamFails, KvAnswers, KvFails
<1>5. \A c : (CleanupOk(c) \/ CleanupFails(c)) => budget' \in BudgetType /\ kvSig' \in Nat
  BY <1>4 DEF CleanupOk, CleanupFails
<1>6. \A c, sig : StoreSignature(sig, c) /\ sig \in Nat => budget' \in BudgetType /\ kvSig' \in Nat
  BY <1>4 DEF StoreSignature
<1>7. CASE HandleNext
  <2>1. ASSUME NEW trig \in Trigger, NEW c \in Ctx, HandleEnter(trig, c) \/ HandleReject(trig, c)
        PROVE  MemoryType' /\ EnvType'
    BY Zenon, <2>1 DEF HandleEnter, HandleReject, mem, env
  <2>2. CASE DoStateInit
    <3>5. CoreStatus("RECONCILING", "REACHABLE") \in CoreType
          /\ [oper |-> "RECONCILING", conn |-> "REACHABLE"] \in Status
      BY StatusFacts
    <3>1. dev' \in Status
      BY <2>2, <3>5 DEF DoStateInit
    <3>4. conn' \in BOOLEAN
      <4>1. conn' = TRUE \/ conn' = conn
        BY <2>2, Zenon DEF DoStateInit
      <4>. QED  BY Zenon, <4>1
    <3>2. core' \in CoreType
      BY <2>2, <3>5 DEF DoStateInit
    <3>3. budget' \in BudgetType
      BY <2>2, <1>3 DEF DoStateInit
    <3>. QED  BY Zenon, <2>2, <3>1, <3>2, <3>3, <3>4 DEF DoStateInit
  <2>3. CASE DoStateConnected
    <3>1. dev' \in Status
      BY <2>3, StatusFacts DEF DoStateConnected
    <3>2. core' \in CoreType
      BY <2>3, StatusFacts DEF DoStateConnected
    <3>3. budget' \in BudgetType
      BY <2>3, <1>2, <1>3 DEF DoStateConnected
    <3>. QED  BY <2>3, <3>1, <3>2, <3>3 DEF DoStateConnected
  <2>4. CASE PopulateDeviceInfo
    BY <2>4, <1>1, <1>3 DEF PopulateDeviceInfo
  <2>5. CASE BuildModules
    BY Zenon, <2>5, <1>1 DEF BuildModules
  <2>6. CASE CollectorWait \/ DoStateUp \/ UpRLock \/ UpSendStop
    BY <2>6 DEF CollectorWait, DoStateUp, UpRLock, UpSendStop, mem, env
  <2>7. CASE UpGetDevice \/ UpCleanup
    BY <2>7, <1>3, <1>5 DEF UpGetDevice, UpCleanup, mem
  <2>8. CASE UpReport
    <3>1. CoreStatus("ACTIVE", "REACHABLE") \in CoreType
          /\ [oper |-> "ACTIVE", conn |-> "REACHABLE"] \in Status
      BY StatusFacts
    <3>2. budget' \in BudgetType
      BY <2>8, <1>2, <1>3 DEF UpReport
    <3>. QED  BY <2>8, <3>1, <3>2 DEF UpReport
  <2>9. CASE DoStateDown
    <3>1. CoreStatus("UNKNOWN", core.conn) \in CoreType
          /\ [oper |-> "UNKNOWN", conn |-> core.conn] \in Status
      BY StatusFacts
    <3>2. budget' \in BudgetType
      BY <2>9, <1>2, <1>3 DEF DoStateDown
    <3>. QED  BY <2>9, <3>1, <3>2 DEF DoStateDown
  <2>. QED  BY <1>7, <2>1, <2>2, <2>3, <2>4, <2>5, <2>6, <2>7, <2>8, <2>9 DEF HandleNext
<1>8. CASE CollectorNext
  BY <1>8 DEF CollectorNext, CollectorEnter, CollectorStop, CollectorLeave, CollectorDone, mem, env
<1>9. CASE HeartbeatNext
  <2> PICK c \in Ctx :
        \/ HeartbeatEnter(c) \/ ReportTimer(c) \/ OrphanTimer(c)
        \/ HeartbeatStore(c) \/ HeartbeatLeave(c)
        \/ \E l \in HbWaiting : \/ HeartbeatTick(l, c) \/ HeartbeatFail(l, c) \/ HeartbeatOk(l, c)
                                \/ HeartbeatRebooted(l, c) \/ HeartbeatStop(l, c)
    BY <1>9 DEF HeartbeatNext
  <2>1. CASE HeartbeatEnter(c)
    BY SMTT(30), <2>1, <1>4 DEF HeartbeatEnter
  <2>5. CASE HeartbeatStore(c)
    BY Zenon, <2>5, <1>6 DEF HeartbeatStore
  <2>2. CASE \E l \in HbWaiting : HeartbeatOk(l, c)
    BY Zenon, <2>2, <1>6 DEF HeartbeatOk
  <2>3. CASE \E l \in HbWaiting : HeartbeatFail(l, c) \/ HeartbeatRebooted(l, c)
    BY <2>3, <1>2, <1>3 DEF HeartbeatFail, HeartbeatRebooted, mem
  <2>4. CASE ReportTimer(c) \/ OrphanTimer(c) \/ HeartbeatLeave(c)
             \/ \E l \in HbWaiting : HeartbeatTick(l, c) \/ HeartbeatStop(l, c)
    BY Zenon, <2>4 DEF ReportTimer, OrphanTimer, HeartbeatLeave, HeartbeatTick, HeartbeatStop, mem, env
  <2>. QED  BY <2>1, <2>2, <2>3, <2>4, <2>5
<1>10. CASE ReaderNext
  BY <1>10, <1>2, <1>4 DEF ReaderNext, ReaderStart, ReaderEnter, ReaderSelect, ReaderLeave, RecvOltUp,
                     RecvOltDown, ReaderReopen, ReaderStop, mem, env
<1>11. CASE TeardownNext
  <2> PICK c \in Ctx :
        \/ UnreachableGet(c) \/ UnreachableReport(c)
        \/ RebootedGet(c) \/ RebootedFlag(c) \/ RebootedReport(c) \/ RebootedCleanup(c)
        \/ RebootedDone(c) \/ UpdateLocalDevice(c)
        \/ \E l \in DOMAIN RLockNext : TakeRLock(l, c)
        \/ \E l \in SendLabel : SendStopToken(l, c)
    BY <1>11 DEF TeardownNext
  <2>1. CASE UnreachableGet(c) \/ RebootedGet(c) \/ RebootedCleanup(c)
    BY Zenon, <2>1, <1>3, <1>5 DEF UnreachableGet, RebootedGet, RebootedCleanup, mem
  <2>2. CASE UnreachableReport(c)
    <3>1. dev' \in Status
      BY <2>2, StatusFacts DEF UnreachableReport
    <3>2. CoreStatus("UNKNOWN", "UNREACHABLE") \in CoreType
      BY Zenon, StatusFacts
    <3>3. budget' \in BudgetType
      BY <2>2, <1>3 DEF UnreachableReport
    <3>. QED  BY Zenon, <2>2, <3>1, <3>2, <3>3 DEF UnreachableReport
  <2>4. CASE RebootedReport(c)
    <3>1. dev' \in Status
      BY <2>4, StatusFacts DEF RebootedReport
    <3>2. CoreStatus("REBOOTED", "REACHABLE") \in CoreType
      BY Zenon, StatusFacts
    <3>3. budget' \in BudgetType
      BY <2>4, <1>3 DEF RebootedReport
    <3>. QED  BY Zenon, <2>4, <3>1, <3>2, <3>3 DEF RebootedReport
  <2>5. CASE UpdateLocalDevice(c)
    <3>1. [oper |-> core.oper, conn |-> core.conn] \in Status
      BY StatusFacts
    <3>2. budget' \in BudgetType
      BY <2>5, <1>3 DEF UpdateLocalDevice
    <3>. QED  BY <2>5, <3>1, <3>2 DEF UpdateLocalDevice
  <2>3. CASE RebootedFlag(c) \/ RebootedDone(c) \/ (\E l \in DOMAIN RLockNext : TakeRLock(l, c))
             \/ \E l \in SendLabel : SendStopToken(l, c)
    BY Zenon, <2>3 DEF RebootedFlag, RebootedDone, TakeRLock, SendStopToken, mem, env
  <2>. QED  BY <2>1, <2>2, <2>3, <2>4, <2>5
<1>12. CASE RequestNext \/ EnvNext
  <2>1. CASE DeleteDevice \/ DeleteFlag \/ \E timeout \in BOOLEAN : DeletePoll(timeout)
    BY Zenon, <2>1, <1>2 DEF DeleteDevice, DeleteFlag, DeletePoll, mem, env
  <2>2. CASE DeleteCleanup
    BY Zenon, <2>2, <1>5 DEF DeleteCleanup
  <2>3. CASE DeleteReboot
    BY <2>3, <1>3 DEF DeleteReboot, mem
  <2>4. CASE DisableDevice
    BY Zenon, <2>4, <1>2, StatusFacts DEF DisableDevice, mem
  <2>5. CASE DisableStore
    BY <2>5 DEF DisableStore, env
  <2>6. CASE ReenableDevice
    BY Zenon, <2>6, StatusFacts DEF ReenableDevice, mem
  <2>7. CASE ReenableReport
    <3>1. \A oper \in {"ACTIVE", "FAILED"} : CoreStatus(oper, req.conn) \in CoreType
                                           /\ [oper |-> oper, conn |-> req.conn] \in Status
      BY StatusFacts
    <3>2. budget' \in BudgetType
      BY <2>7, <1>3 DEF ReenableReport
    <3>. QED  BY <2>7, <3>1, <3>2 DEF ReenableReport
  <2>8. CASE \E changed \in BOOLEAN : UpdateDevice(changed)
    BY <2>8, <1>2 DEF UpdateDevice, mem
  <2>9. CASE CoreForgets
    BY Zenon, <2>9, StatusFacts DEF CoreForgets, mem
  <2>10. CASE OltReboots
    BY <2>10, <1>2 DEF OltReboots, mem
  <2>. QED
    BY <1>12, <2>1, <2>2, <2>3, <2>4, <2>5, <2>6, <2>7, <2>8, <2>9, <2>10 DEF RequestNext, EnvNext
<1>. QED  BY <1>7, <1>8, <1>9, <1>10, <1>11, <1>12 DEF Next

TypeInv == TypeOK /\ StepHasTrigger /\ CollectorInv

LEMMA InitTypeInv == Init => TypeInv
<1> SUFFICES ASSUME Init PROVE TypeInv
  OBVIOUS
<1>1. CollectorInv
  BY SMTT(30) DEF Init, CollectorInv, CollectorAccounting, ColLabel
<1>2. AtType
  <2>1. at = [p \in Point |-> IF p = <<"DeviceInit", "live">> THEN 1 ELSE 0]
    BY DEF Init
  <2>. QED  BY <2>1 DEF AtType
<1>3. HandlerType /\ StepHasTrigger
  <2>1. state = "Null" /\ cs = Idle
    BY DEF Init
  <2>. QED  BY <2>1, LabelFacts
            DEF HandlerType, StepHasTrigger, Idle, DeviceState, CsStep, Mode
<1>4. RoutineType
  BY DEF Init, RoutineType
<1>5. dev \in Status /\ kvSig \in Nat /\ prevRebooted \in BOOLEAN /\ boot \in Nat
  <2>1. \/ dev = [oper |-> "UNKNOWN", conn |-> "UNKNOWN"]
        \/ dev = [oper |-> "RECONCILING", conn |-> "UNREACHABLE"]
    BY DEF Init
  <2>2. kvSig \in {0, 1} /\ boot \in {1, 2}
    BY DEF Init
  <2>3. prevRebooted \in BOOLEAN
    BY DEF Init
  <2>. QED  BY <2>1, <2>2, <2>3 DEF Status, OperStatus, ConnStatus
<1>6. core \in CoreType
  <2>1. \E disabled \in BOOLEAN :
           core = [oper |-> dev.oper, conn |-> dev.conn, disabled |-> disabled, has |-> TRUE]
    BY Zenon DEF Init
  <2>. QED  BY <1>5, <2>1 DEF CoreType, Status
<1>7. MemoryType /\ EnvType
  <2>1. budget \in BudgetType
    <3>1. PICK start \in Starts : budget = [left |-> start.faults, start |-> start]
      BY DEF Init
    <3>. QED  BY <3>1, BoundsAssumption DEF BudgetType
  <2>. QED  BY Zenon, <1>5, <1>6, <2>1 DEF Init, MemoryType, EnvType
<1>. QED  BY <1>1, <1>2, <1>3, <1>4, <1>7, TypeSplit DEF TypeInv, CollectorInv

LEMMA TypeInvStep == TypeInv /\ [Next]_vars => TypeInv'
<1> SUFFICES ASSUME TypeInv, [Next]_vars PROVE TypeInv'
  OBVIOUS
<1>1. CollectorInv'
  BY CollectorStep DEF TypeInv
<1>2. CASE Next
  <2>1. AtType' /\ HandlerType' /\ StepHasTrigger' /\ RoutineType' /\ MemoryType' /\ EnvType'
    BY Zenon, <1>2, AtTypeStep, HandlerTypeStep, RoutineTypeStep, MemoryTypeStep, TypeSplit DEF TypeInv
  <2>. QED  BY <1>1, <2>1 DEF TypeInv, CollectorInv, TypeOK, AtType, HandlerType, RoutineType,
                              MemoryType, EnvType, CoreType, BudgetType
<1>3. CASE UNCHANGED vars
  BY <1>1, <1>3 DEF TypeInv, TypeOK, StepHasTrigger, vars, fsm, gor, ctl, mem, env
<1>. QED  BY <1>2, <1>3

(* Every variable of the handler keeps its type: no counter of goroutines  *)
(* goes below zero, no stop channel exceeds its capacity and whoever       *)
(* completes a handler came with a trigger the table knows.                *)
THEOREM TypeCorrect == Spec => []TypeOK
<1>1. TypeInv => TypeOK
  BY DEF TypeInv
<1>. QED  BY <1>1, InitTypeInv, TypeInvStep, PTL DEF Spec

-------------------------------------------------------------------------------
(* The state machine follows its transition table. *)

(* What TransitionMap.Handle promises: the state changes only from a       *)
(* previous state of a trigger to its current state.                       *)
FollowsTable ==
    state' # state =>
        \E trig \in Trigger : state \in PreviousState[trig] /\ state' = CurrentState[trig]

(* The trigger that is being handled is still valid in the state.          *)
TriggerValid == cs.trig # "none" => state \in PreviousState[cs.trig]

(* What a step does to the state machine: it enters Handle with a valid    *)
(* trigger, goes on inside or outside of it, gives up, or completes the    *)
(* transition.                                                             *)
Enters    == /\ UNCHANGED state
             /\ \E trig \in Trigger : cs'.trig = trig /\ state \in PreviousState[trig]
GoesOn    == UNCHANGED state /\ cs'.trig = cs.trig
GivesUp   == UNCHANGED state /\ cs' = Idle
Completes == cs.trig \in Trigger /\ state' = CurrentState[cs.trig] /\ cs' = Idle

LEMMA MachineStep ==
    ASSUME HandlerType, StepHasTrigger, Next
    PROVE  Enters \/ GoesOn \/ GivesUp \/ Completes
<1>. DEFINE Out == Enters \/ GoesOn \/ GivesUp \/ Completes
<1>. SUFFICES Out
  OBVIOUS
<1>1. HandlerError => Out
  BY DEF HandlerError, GivesUp
<1>2. ASSUME NEW spawned, HandlerDone(spawned), cs.step # "idle" PROVE Out
  BY <1>2 DEF HandlerDone, Completes, HandlerType, StepHasTrigger
<1>3. \A step, mode : NextStep(step, mode) => Out
  BY DEF NextStep, GoesOn
<1>4. InitFailed /\ cs.step # "idle" => Out
  BY <1>1, <1>2 DEF InitFailed
<1>5. ASSUME UNCHANGED fsm PROVE Out
  BY <1>5 DEF fsm, GoesOn
<1>. HIDE DEF Out
<1>6. CASE HandleNext
  <2>1. ASSUME NEW trig \in Trigger, NEW c \in Ctx, HandleEnter(trig, c) PROVE Out
    BY Zenon, <2>1 DEF HandleEnter, Enters, Out
  <2>2. ASSUME NEW trig \in Trigger, NEW c \in Ctx, HandleReject(trig, c) PROVE Out
    BY <1>5, <2>2 DEF HandleReject
  <2>3. CASE DoStateInit
    BY <2>3, <1>1, <1>2 DEF DoStateInit
  <2>4. CASE DoStateConnected
    BY <2>4, <1>1, <1>3 DEF DoStateConnected
  <2>5. CASE PopulateDeviceInfo \/ CollectorWait
    BY Zenon, <2>5, <1>3, <1>4 DEF PopulateDeviceInfo, CollectorWait
  <2>6. CASE BuildModules
    <3>1. CASE InitFailed
      BY Zenon, <2>6, <3>1, <1>4 DEF BuildModules
    <3>2. CASE \E spawned : HandlerDone(spawned)
      BY <2>6, <3>2, <1>2 DEF BuildModules
    <3>3. CASE /\ cs' = [trig |-> cs.trig, step |-> "upDone", ctx |-> cs.ctx, mode |-> cs.mode]
               /\ UNCHANGED state
      BY <3>3 DEF GoesOn, Out
    <3>. QED  BY Zenon, <2>6, <3>1, <3>2, <3>3 DEF BuildModules
  <2>7. CASE DoStateUp \/ UpGetDevice \/ UpRLock \/ UpSendStop \/ UpCleanup
    BY Zenon, <2>7, <1>1, <1>3 DEF DoStateUp, UpGetDevice, UpRLock, UpSendStop, UpCleanup
  <2>8. CASE UpReport
    BY <2>8, <1>1, <1>2 DEF UpReport
  <2>9. CASE DoStateDown
    BY <2>9, <1>1, <1>2 DEF DoStateDown
  <2>. QED
    BY <1>6, <2>1, <2>2, <2>3, <2>4, <2>5, <2>6, <2>7, <2>8, <2>9 DEF HandleNext
<1>7. ASSUME NEW changed \in BOOLEAN, UpdateDevice(changed) PROVE Out
  BY <1>7 DEF UpdateDevice, GoesOn, Out
<1>8. CASE CollectorNext
  BY <1>5, <1>8 DEF CollectorNext, CollectorEnter, CollectorStop, CollectorLeave, CollectorDone
<1>9. CASE HeartbeatNext
  BY Zenon, <1>5, <1>9, HeartbeatFrame
<1>10. CASE ReaderNext
  BY <1>5, <1>10 DEF ReaderNext, ReaderStart, ReaderEnter, ReaderSelect, ReaderLeave, RecvOltUp,
                     RecvOltDown, ReaderReopen, ReaderStop
<1>11. CASE TeardownNext
  BY Zenon, <1>5, <1>11 DEF TeardownNext, UnreachableGet, UnreachableReport, RebootedGet, RebootedFlag,
                     RebootedReport, RebootedCleanup, RebootedDone, UpdateLocalDevice, TakeRLock,
                     SendStopToken
<1>12. CASE RequestNext /\ ~\E changed \in BOOLEAN : UpdateDevice(changed)
  BY Zenon, <1>5, <1>12 DEF RequestNext, DeleteDevice, DeleteFlag, DeleteCleanup, DeleteReboot, DeletePoll,
                     DisableDevice, DisableStore, ReenableDevice, ReenableReport
<1>13. CASE EnvNext
  BY Zenon, <1>5, <1>13 DEF EnvNext, CoreForgets, OltReboots
<1>14. CASE RequestNext
  BY <1>7, <1>12, <1>14
<1>. QED  BY <1>6, <1>8, <1>9, <1>10, <1>11, <1>13, <1>14 DEF Next

(* The device state changes only along the transition table, whoever calls *)
(* Handle and whatever happens while a handler waits or fails: Handle      *)
(* holds the mutex from the check of the state to the change.              *)
THEOREM TableFollowed == Spec => [][FollowsTable]_vars
<1>1. ASSUME Init PROVE TriggerValid
  BY Zenon, <1>1 DEF Init, Idle, TriggerValid
<1>2. ASSUME TypeInv, TriggerValid, [Next]_vars PROVE TriggerValid' /\ [FollowsTable]_vars
  <2>1. CASE UNCHANGED vars
    BY <1>2, <2>1 DEF vars, fsm, TriggerValid
  <2>2. CASE Next
    <3>1. Enters \/ GoesOn \/ GivesUp \/ Completes
      BY <1>2, <2>2, MachineStep, TypeSplit DEF TypeInv
    <3>2. "none" \notin Trigger
      BY DEF Trigger
    <3>3. Idle.trig = "none"
      BY DEF Idle
    <3>4. CASE Enters
      BY <3>4 DEF TriggerValid, FollowsTable, Enters
    <3>5. CASE GoesOn
      BY <1>2, <3>5 DEF TriggerValid, FollowsTable, GoesOn
    <3>6. CASE GivesUp
      BY <3>3, <3>6 DEF TriggerValid, FollowsTable, GivesUp
    <3>7. CASE Completes
      <4>1. TriggerValid'
        BY <3>3, <3>7 DEF TriggerValid, Completes
      <4>2. state \in PreviousState[cs.trig]
        BY <1>2, <3>2, <3>7 DEF TriggerValid, Completes
      <4>3. FollowsTable
        BY <3>7, <4>2 DEF FollowsTable, Completes
      <4>. QED  BY Zenon, <4>1, <4>3
    <3>. QED  BY <3>1, <3>4, <3>5, <3>6, <3>7
  <2>. QED  BY <1>2, <2>1, <2>2
<1>. QED  BY <1>1, <1>2, InitTypeInv, TypeInvStep, PTL DEF Spec

-------------------------------------------------------------------------------
(* The clean-up of updateStateRebooted under the deletion flag. *)

CleanupPoint == RebootCleanup \X Ctx

Cleaning(pop) == \E p \in CleanupPoint : Present(pop, p)

(* DeleteDevice, which takes the flag back when its own clean-up fails,    *)
(* does not clean up at the same time.                                     *)
DeletesApart == Present(at, <<"dl_clean", "live">>) => ~Cleaning(at)

(* Nobody joins a group by steps that do not end in it. *)
LEMMA NotJoined ==
    ASSUME NEW T, NEW pop \in [T -> Nat], NEW p \in T, NEW q \in T, NEW S \in SUBSET T
    PROVE  /\ p \notin S => \A s \in S : Spawn(pop, p)[s] = pop[s]
           /\ \A s \in S : Exit(pop, p)[s] <= pop[s]
           /\ q \notin S => \A s \in S : Move(pop, p, q)[s] <= pop[s]
BY DEF Spawn, Exit, Move

LEMMA CleanupFacts ==
    /\ CleanupPoint \subseteq Point
    /\ \A l, c : <<l, c>> \in CleanupPoint <=> l \in RebootCleanup /\ c \in Ctx
    /\ (HbLabel \cup RdLabel \cup Trigger \cup RpcLabel) \cap RebootCleanup = {}
    /\ \A l \in {"orphan_timer", "un_get", "un_core", "un_stop", "rb_get", "rb_flag", "local_device"} :
          l \notin RebootCleanup
    /\ \A l \in SendLabel : StopSend[l].next \in RebootCleanup => l \in RebootCleanup
    /\ \A l \in DOMAIN RLockNext : RLockNext[l] \in RebootCleanup => l \in RebootCleanup
<1>1. SendLabel = {"un_col", "un_hb", "un_ind", "rb_ind", "rb_hb", "rb_col", "dl_col", "dl_hb",
                   "dl_ind", "ds_col"}
  BY DEF SendLabel, StopSend
<1>2. RebootCleanup \subseteq Label
  BY <1>1 DEF RebootCleanup, Label
<1>3. CleanupPoint \subseteq Point
  BY <1>2 DEF CleanupPoint, Point
<1>4. \A l, c : <<l, c>> \in CleanupPoint <=> l \in RebootCleanup /\ c \in Ctx
  BY DEF CleanupPoint
<1>5. (HbLabel \cup RdLabel) \cap RebootCleanup = {}
  BY DEF HbLabel, RdLabel, RebootCleanup
<1>6. (Trigger \cup RpcLabel) \cap RebootCleanup = {}
  BY DEF Trigger, RpcLabel, RebootCleanup
<1>7. \A l \in {"orphan_timer", "un_get", "un_core", "un_stop", "rb_get", "rb_flag", "local_device"} :
          l \notin RebootCleanup
  BY DEF RebootCleanup
<1>8. \A l \in SendLabel : StopSend[l].next \in RebootCleanup => l \in RebootCleanup
  <2>1. /\ StopSend.un_col.next = "un_hb" /\ StopSend.un_hb.next = "un_ind"
        /\ StopSend.un_ind.next = "DeviceInit" /\ StopSend.dl_col.next = "dl_hb"
        /\ StopSend.dl_hb.next = "dl_ind" /\ StopSend.dl_ind.next = "dl_clean"
        /\ StopSend.ds_col.next = "ds_set"
    BY DEF StopSend
  <2>2. {"un_hb", "un_ind", "DeviceInit", "dl_hb", "dl_ind", "dl_clean", "ds_set"}
           \cap RebootCleanup = {}
    BY DEF RebootCleanup
  <2>3. {"rb_ind", "rb_hb", "rb_col"} \subseteq RebootCleanup
    BY DEF RebootCleanup
  <2>. QED  BY Zenon, <1>1, <2>1, <2>2, <2>3
<1>9. \A l \in DOMAIN RLockNext : RLockNext[l] \in RebootCleanup => l \in RebootCleanup
  <2>1. DOMAIN RLockNext = {"un_stop", "rb_stop", "rb_colstop", "dl_stop", "ds_stop"}
    BY DEF RLockNext
  <2>2. /\ RLockNext.un_stop = "un_col" /\ RLockNext.dl_stop = "dl_col"
        /\ RLockNext.ds_stop = "ds_col"
    BY DEF RLockNext
  <2>3. {"un_col", "dl_col", "ds_col"} \cap RebootCleanup = {}
    BY DEF RebootCleanup
  <2>4. {"rb_stop", "rb_colstop"} \subseteq RebootCleanup
    BY DEF RebootCleanup
  <2>. QED  BY <2>1, <2>2, <2>3, <2>4
<1>. QED  BY <1>3, <1>4, <1>5, <1>6, <1>7, <1>8, <1>9

(* A clean-up begins when the flag is set, and in no other way. *)
Begins == ~Cleaning(at) /\ Cleaning(at')

LEMMA NoneArrives ==
    ASSUME at \in [Point -> Nat], \A s \in CleanupPoint : at'[s] <= at[s], AtType'
    PROVE  ~Begins
BY CleanupFacts DEF Begins, Cleaning, Present, AtType

(* A goroutine that moves from one point to another. *)
LEMMA MoveArrives ==
    ASSUME at \in [Point -> Nat], AtType', NEW l \in Label, NEW m \in Label, NEW c \in Ctx,
           Present(at, <<l, c>>), at' = Move(at, <<l, c>>, <<m, c>>),
           m \in RebootCleanup => l \in RebootCleanup
    PROVE  ~Begins
<1>1. <<l, c>> \in Point /\ <<m, c>> \in Point /\ CleanupPoint \in SUBSET Point
  BY PointFacts, CleanupFacts
<1>2. CASE l \in RebootCleanup
  <2>1. <<l, c>> \in CleanupPoint
    BY <1>2, CleanupFacts
  <2>. QED  BY <2>1 DEF Begins, Cleaning
<1>3. CASE l \notin RebootCleanup
  <2>1. <<m, c>> \notin CleanupPoint
    BY Zenon, <1>3, CleanupFacts
  <2>2. \A s \in CleanupPoint : Move(at, <<l, c>>, <<m, c>>)[s] <= at[s]
    BY <1>1, <2>1, NotJoined
  <2>. QED  BY <2>2, NoneArrives
<1>. QED  BY Zenon, <1>2, <1>3

(* Handle and the handlers start no clean-up and leave the flag alone. *)
LEMMA HandleBegins ==
    ASSUME TypeOK, AtType', HandleNext
    PROVE  ~Begins /\ UNCHANGED deleting
<1>. at \in [Point -> Nat] /\ cs.ctx \in Ctx
  BY DEF TypeOK
<1>. DEFINE Same(pop) == \A s \in CleanupPoint : pop[s] = at[s]
<1>1. ASSUME NEW l \in HbLabel \cup RdLabel \cup Trigger, NEW c \in Ctx,
             NEW pop \in [Point -> Nat], Same(pop)
      PROVE  Same(Spawn(pop, <<l, c>>)) /\ Same(Exit(pop, <<l, c>>))
  <2>1. <<l, c>> \notin CleanupPoint /\ CleanupPoint \in SUBSET Point
    BY <1>1, CleanupFacts
  <2>. QED  BY <1>1, <2>1 DEF Spawn, Exit
<1>2. ASSUME NEW pop \in [Point -> Nat], Same(pop), NEW trig, NEW c \in Ctx
      PROVE  Same(Resume(pop, trig, c))
  <2>1. "rd_select" \in HbLabel \cup RdLabel \cup Trigger
    BY DEF RdLabel
  <2>. QED  BY <1>1, <1>2, <2>1 DEF Resume
<1>3. Same(at)
  OBVIOUS
<1>. HIDE DEF Same
<1>4. HandlerError => Same(at')
  BY <1>2, <1>3 DEF HandlerError
<1>5. ASSUME NEW spawned, HandlerDone(spawned), spawned \cap RebootCleanup = {}
      PROVE  Same(at')
  <2>1. Same(Resume(at, cs.trig, cs.ctx)) /\ Resume(at, cs.trig, cs.ctx) \in [Point -> Nat]
    BY <1>2, <1>3, HandlerAt DEF AtType
  <2>2. \A s \in CleanupPoint : s \in Point /\ s[1] \notin spawned
    BY <1>5, CleanupFacts DEF CleanupPoint
  <2>3. \A s \in CleanupPoint : at'[s] = Resume(at, cs.trig, cs.ctx)[s]
    BY <1>5, <2>1, <2>2 DEF HandlerDone
  <2>. QED  BY <2>1, <2>3 DEF Same
<1>6. /\ {"GrpcConnected"} \cap RebootCleanup = {} /\ {"GrpcDisconnected"} \cap RebootCleanup = {}
      /\ {"hb_start", "local_device"} \cap RebootCleanup = {} /\ {"hb_start"} \cap RebootCleanup = {}
      /\ {} \cap RebootCleanup = {}
  BY DEF RebootCleanup
<1>7. InitFailed => Same(at')
  BY <1>4, <1>5, <1>6 DEF InitFailed
<1>8. \A step, mode : NextStep(step, mode) => Same(at')
  BY <1>3 DEF NextStep
<1>9. ASSUME NEW trig \in Trigger, NEW c \in Ctx, HandleEnter(trig, c) \/ HandleReject(trig, c)
      PROVE  Same(at') /\ UNCHANGED deleting
  <2>1. Same(Exit(at, <<trig, c>>)) /\ <<trig, c>> \in Point
    BY <1>1, <1>3, PointFacts
  <2>2. Present(at, <<trig, c>>) => Exit(at, <<trig, c>>) \in [Point -> Nat]
    BY <2>1, PopulationType
  <2>3. CASE HandleEnter(trig, c)
    BY Zenon, <2>1, <2>3 DEF HandleEnter
  <2>4. CASE HandleReject(trig, c)
    BY Zenon, <1>2, <2>1, <2>2, <2>4 DEF HandleReject, mem
  <2>. QED  BY <1>9, <2>3, <2>4
<1>10. ASSUME DoStateInit PROVE Same(at') /\ UNCHANGED deleting
  BY <1>10, <1>4, <1>5, <1>6 DEF DoStateInit
<1>11. ASSUME DoStateConnected PROVE Same(at') /\ UNCHANGED deleting
  BY <1>11, <1>4, <1>8 DEF DoStateConnected
<1>12. ASSUME PopulateDeviceInfo \/ CollectorWait PROVE Same(at') /\ UNCHANGED deleting
  BY <1>12, <1>7, <1>8 DEF PopulateDeviceInfo, CollectorWait, mem
<1>13. ASSUME BuildModules PROVE Same(at') /\ UNCHANGED deleting
  <2>1. Same(Spawn(at, <<"hb_start", cs.ctx>>))
    BY <1>1, <1>3 DEF HbLabel
  <2>. QED  BY Zenon, <1>13, <2>1, <1>5, <1>6, <1>7 DEF BuildModules
<1>14. ASSUME DoStateUp \/ UpGetDevice \/ UpRLock \/ UpSendStop \/ UpCleanup
       PROVE  Same(at') /\ UNCHANGED deleting
  BY Zenon, <1>14, <1>4, <1>8 DEF DoStateUp, UpGetDevice, UpRLock, UpSendStop, UpCleanup, mem
<1>15. ASSUME UpReport \/ DoStateDown PROVE Same(at') /\ UNCHANGED deleting
  BY Zenon, <1>15, <1>4, <1>5, <1>6 DEF UpReport, DoStateDown
<1>16. Same(at') /\ UNCHANGED deleting
  BY <1>9, <1>10, <1>11, <1>12, <1>13, <1>14, <1>15 DEF HandleNext
<1>17. \A s \in CleanupPoint : at'[s] <= at[s]
  BY <1>16, CleanupFacts DEF Same
<1>. QED  BY <1>16, <1>17, NoneArrives

(* Nor do the routines. *)
LEMMA HeartbeatBegins ==
    ASSUME TypeOK, AtType', HeartbeatNext
    PROVE  ~Begins /\ UNCHANGED deleting
<1>. at \in [Point -> Nat]
  BY DEF TypeOK
<1>1. PICK c \in Ctx :
        \/ HeartbeatEnter(c) \/ ReportTimer(c) \/ OrphanTimer(c)
        \/ HeartbeatStore(c) \/ HeartbeatLeave(c)
        \/ \E l \in HbWaiting : \/ HeartbeatTick(l, c) \/ HeartbeatFail(l, c) \/ HeartbeatOk(l, c)
                                \/ HeartbeatRebooted(l, c) \/ HeartbeatStop(l, c)
  BY DEF HeartbeatNext
<1>. DEFINE Free  == {<<l, c>> : l \in HbLabel \cup {"orphan_timer", "un_get", "rb_get", "rd_start"}}
            Same(pop) == \A s \in CleanupPoint : pop[s] <= at[s]
<1>2. Free \subseteq Point /\ Free \cap CleanupPoint = {} /\ CleanupPoint \in SUBSET Point
  BY PointFacts, LabelFacts, CleanupFacts DEF RdLabel
<1>3. ASSUME NEW pop \in [Point -> Nat], Same(pop), NEW p \in Free, NEW q \in Free, Present(pop, p)
      PROVE  /\ Same(Exit(pop, p)) /\ Same(Move(pop, p, q)) /\ Move(pop, p, q) \in [Point -> Nat]
  <2>1. p \in Point /\ q \in Point /\ p \notin CleanupPoint /\ q \notin CleanupPoint
    BY Zenon, <1>2, <1>3
  <2>2. Move(pop, p, q) \in [Point -> Nat]
    BY <1>3, <2>1, PopulationType
  <2>3. \A s \in CleanupPoint : Exit(pop, p)[s] = pop[s] /\ Move(pop, p, q)[s] = pop[s]
    BY <1>2, <1>3, <2>1 DEF Exit, Move
  <2>. QED  BY Zenon, <1>3, <2>2, <2>3
<1>4. ASSUME NEW pop \in [Point -> Nat], Same(pop), NEW p \in Free PROVE Same(Spawn(pop, p))
  <2>1. p \in Point /\ p \notin CleanupPoint
    BY <1>2, <1>4
  <2>. QED  BY <1>2, <1>4, <2>1 DEF Spawn
<1>5. Same(at)
  BY <1>2
<1>6. /\ \A l \in HbLabel \cup {"orphan_timer", "un_get", "rb_get", "rd_start"} : <<l, c>> \in Free
      /\ \A l \in HbWaiting : <<l, c>> \in Free /\ <<HbRpc[l], c>> \in Free
  BY LabelFacts
<1>. HIDE DEF Free, Same
<1>7. CASE HeartbeatEnter(c) \/ HeartbeatStore(c) \/ HeartbeatLeave(c) \/ OrphanTimer(c)
  <2>1. /\ <<"hb_start", c>> \in Free /\ <<"hb_wait", c>> \in Free
        /\ <<"hb_sig", c>> \in Free /\ <<"hb_exit", c>> \in Free
        /\ <<"orphan_timer", c>> \in Free /\ <<"un_get", c>> \in Free
    BY Zenon, <1>6 DEF HbLabel
  <2>2. Same(at') /\ UNCHANGED deleting
    BY <1>3, <1>5, <1>7, <2>1 DEF HeartbeatEnter, HeartbeatStore, HeartbeatLeave, OrphanTimer, mem
  <2>. QED  BY <2>2, NoneArrives DEF Same
<1>8. CASE ReportTimer(c)
  <2>. PICK p \in {<<"hb_pending", "hb_fired">>, <<"hb_rpc_pending", "hb_rpc_fired">>} :
          /\ Present(at, <<p[1], c>>)
          /\ at' = Spawn(Move(at, <<p[1], c>>, <<p[2], c>>), <<"un_get", c>>)
    BY <1>8 DEF ReportTimer
  <2>1. <<p[1], c>> \in Free /\ <<p[2], c>> \in Free /\ <<"un_get", c>> \in Free
    BY <1>6 DEF HbLabel
  <2>2. Same(at')
    BY <1>3, <1>4, <1>5, <2>1
  <2>. QED  BY <1>8, <2>2, NoneArrives DEF Same, ReportTimer, mem
<1>9. ASSUME NEW l \in HbWaiting,
             \/ HeartbeatTick(l, c) \/ HeartbeatFail(l, c) \/ HeartbeatOk(l, c)
             \/ HeartbeatRebooted(l, c) \/ HeartbeatStop(l, c)
      PROVE  ~Begins /\ UNCHANGED deleting
  <2>1. /\ <<l, c>> \in Free /\ <<HbRpc[l], c>> \in Free
        /\ \A m \in {"hb_wait", "hb_pending", "hb_exit", "hb_sig", "orphan_timer", "rb_get",
                     "rd_start"} : <<m, c>> \in Free
    BY <1>6 DEF HbLabel
  <2>2. CASE HeartbeatTick(l, c) \/ HeartbeatFail(l, c)
    BY Zenon, <1>3, <1>5, <2>1, <2>2, NoneArrives DEF HeartbeatTick, HeartbeatFail, mem, Same
  <2>3. CASE HeartbeatOk(l, c)
    <3>1. Same(at')
      BY <1>3, <1>4, <1>5, <2>1, <2>3 DEF HeartbeatOk
    <3>. QED  BY <2>3, <3>1, NoneArrives DEF HeartbeatOk, Same
  <2>4. CASE HeartbeatRebooted(l, c)
    <3>1. Same(at')
      BY <1>3, <1>4, <1>5, <2>1, <2>4 DEF HeartbeatRebooted
    <3>. QED  BY <2>4, <3>1, NoneArrives DEF HeartbeatRebooted, Same
  <2>5. CASE HeartbeatStop(l, c)
    <3>1. Same(at')
      BY <1>3, <1>4, <1>5, <2>1, <2>5 DEF HeartbeatStop
    <3>. QED  BY <2>5, <3>1, NoneArrives DEF HeartbeatStop, mem, Same
  <2>. QED  BY <1>9, <2>2, <2>3, <2>4, <2>5
<1>. QED  BY <1>1, <1>7, <1>8, <1>9

LEMMA ReaderBegins ==
    ASSUME TypeOK, AtType', ReaderNext \/ CollectorNext \/ EnvNext
    PROVE  ~Begins /\ UNCHANGED deleting
<1>. at \in [Point -> Nat]
  BY DEF TypeOK
<1>1. CASE CollectorNext
  BY Zenon, <1>1 DEF CollectorNext, CollectorEnter, CollectorStop, CollectorLeave, CollectorDone, mem,
              Begins, Cleaning
<1>2. CASE EnvNext
  BY Zenon, <1>2 DEF EnvNext, CoreForgets, OltReboots, gor, mem, Begins, Cleaning
<1>3. CASE ReaderNext
  <2>1. PICK c \in Ctx :
        \/ ReaderStart(c) \/ ReaderEnter(c) \/ ReaderSelect(c) \/ ReaderLeave(c)
        \/ RecvOltUp(c) \/ RecvOltDown(c) \/ ReaderReopen(c)
        \/ \E l \in {"rd_select", "rd_recv"} : ReaderStop(l, c)
    BY <1>3 DEF ReaderNext
  <2>2. UNCHANGED deleting
    BY Zenon, <2>1 DEF ReaderStart, ReaderEnter, ReaderSelect, ReaderLeave, RecvOltUp, RecvOltDown,
                ReaderReopen, ReaderStop, mem
  <2>3. ReaderLeave(c) \/ \E l, m \in RdLabel \cup ReaderTrigger : ReaderMoves(l, m, c)
    BY <2>1 DEF ReaderStart, ReaderEnter, ReaderSelect, RecvOltUp, RecvOltDown, ReaderReopen,
                ReaderStop, RdLabel, ReaderTrigger
  <2>4. ASSUME NEW l \in RdLabel \cup ReaderTrigger, NEW m \in RdLabel \cup ReaderTrigger,
               ReaderMoves(l, m, c)
        PROVE  ~Begins
    <3>1. ReaderTrigger \subseteq Trigger
      BY DEF ReaderTrigger, Trigger
    <3>2. l \in RdLabel \cup Trigger /\ m \in RdLabel \cup Trigger
      BY <2>4, <3>1
    <3>3. l \in Label /\ m \in Label
      BY <3>2, LabelFacts
    <3>4. m \notin RebootCleanup
      BY Zenon, <3>2, CleanupFacts
    <3>. QED  BY <2>4, <3>3, <3>4, MoveArrives DEF ReaderMoves
  <2>5. ASSUME ReaderLeave(c) PROVE ~Begins
    <3>1. <<"rd_exit", c>> \in Point /\ CleanupPoint \in SUBSET Point
      BY Zenon, PointFacts, CleanupFacts DEF RdLabel
    <3>2. \A s \in CleanupPoint : at'[s] <= at[s]
      BY Zenon, <2>5, <3>1, NotJoined DEF ReaderLeave
    <3>. QED  BY <3>2, NoneArrives
  <2>. QED  BY <2>2, <2>3, <2>4, <2>5
<1>. QED  BY <1>1, <1>2, <1>3

(* updateStateRebooted begins with setting the flag and ends with clearing *)
(* it; the steps between go from one point of the clean-up to the next.    *)
LEMMA TeardownBegins ==
    ASSUME TypeOK, AtType', TeardownNext
    PROVE  \/ deleting' = TRUE
           \/ ~Begins /\ UNCHANGED deleting
           \/ \E c \in Ctx : RebootedDone(c)
<1>. at \in [Point -> Nat]
  BY DEF TypeOK
<1>1. PICK c \in Ctx :
        \/ UnreachableGet(c) \/ UnreachableReport(c)
        \/ RebootedGet(c) \/ RebootedFlag(c) \/ RebootedReport(c) \/ RebootedCleanup(c)
        \/ RebootedDone(c) \/ UpdateLocalDevice(c)
        \/ \E l \in DOMAIN RLockNext : TakeRLock(l, c)
        \/ \E l \in SendLabel : SendStopToken(l, c)
  BY DEF TeardownNext
<1>2. ASSUME NEW l \in Label, at' = Exit(at, <<l, c>>) PROVE ~Begins
  <2>1. <<l, c>> \in Point /\ CleanupPoint \in SUBSET Point
    BY PointFacts, CleanupFacts
  <2>2. \A s \in CleanupPoint : at'[s] <= at[s]
    BY <1>2, <2>1, NotJoined
  <2>. QED  BY <2>2, NoneArrives
<1>3. CASE UnreachableGet(c)
  <2>1. {"un_get", "un_core"} \subseteq Label /\ "un_core" \notin RebootCleanup
    BY LabelFacts, CleanupFacts
  <2>. QED  BY <1>2, <1>3, <2>1, MoveArrives DEF UnreachableGet, mem
<1>4. CASE UnreachableReport(c)
  <2>1. {"un_core", "un_stop"} \subseteq Label /\ "un_stop" \notin RebootCleanup
    BY LabelFacts, CleanupFacts
  <2>. QED  BY Zenon, <1>4, <2>1, MoveArrives DEF UnreachableReport
<1>5. CASE RebootedGet(c)
  <2>1. {"rb_get", "rb_flag"} \subseteq Label /\ "rb_flag" \notin RebootCleanup
    BY LabelFacts, CleanupFacts
  <2>. QED  BY <1>2, <1>5, <2>1, MoveArrives DEF RebootedGet, mem
<1>6. CASE RebootedFlag(c)
  BY <1>6 DEF RebootedFlag
<1>7. CASE RebootedReport(c) \/ RebootedCleanup(c)
  <2>1. {"rb_core", "rb_clean", "rb_colstop"} \subseteq Label
        /\ "rb_core" \in RebootCleanup /\ "rb_clean" \in RebootCleanup
    BY LabelFacts DEF RebootCleanup
  <2>. QED  BY <1>7, <2>1, MoveArrives DEF RebootedReport, RebootedCleanup, mem
<1>8. CASE UpdateLocalDevice(c)
  BY Zenon, <1>2, <1>8, LabelFacts DEF UpdateLocalDevice
<1>9. ASSUME NEW l \in DOMAIN RLockNext, TakeRLock(l, c) PROVE ~Begins /\ UNCHANGED deleting
  <2>1. l \in Label /\ RLockNext[l] \in Label
        /\ (RLockNext[l] \in RebootCleanup => l \in RebootCleanup)
    BY <1>9, LabelFacts, CleanupFacts
  <2>. QED  BY Zenon, <1>9, <2>1, MoveArrives DEF TakeRLock, mem
<1>10. ASSUME NEW l \in SendLabel, SendStopToken(l, c) PROVE ~Begins /\ UNCHANGED deleting
  <2>1. l \in Label /\ StopSend[l].next \in Label
        /\ (StopSend[l].next \in RebootCleanup => l \in RebootCleanup)
    BY <1>10, LabelFacts, CleanupFacts
  <2>. QED  BY Zenon, <1>10, <2>1, MoveArrives DEF SendStopToken, mem
<1>. QED  BY Zenon, <1>1, <1>3, <1>4, <1>5, <1>6, <1>7, <1>8, <1>9, <1>10

(* UpdateDevice moves no goroutine to another label. *)
LEMMA CancelBegins ==
    ASSUME TypeOK, AtType', NEW changed \in BOOLEAN, UpdateDevice(changed)
    PROVE  ~Begins /\ UNCHANGED deleting
<1>. at \in [Point -> Nat]
  BY DEF TypeOK
<1>1. ASSUME \A s \in CleanupPoint : at[s] = 0
      PROVE  /\ Cancelled(at) \in [Point -> Nat]
             /\ \A s \in CleanupPoint : Cancelled(at)[s] = 0
  <2>1. \A p \in Point : <<p[1], "live">> \in Point
    BY LabelFacts DEF Point
  <2>2. \A s \in CleanupPoint : <<s[1], "live">> \in CleanupPoint /\ s \in Point
    BY LabelFacts, CleanupFacts DEF CleanupPoint
  <2>3. Cancelled(at) \in [Point -> Nat]
    BY <2>1 DEF Cancelled
  <2>4. \A s \in CleanupPoint : at[s] = 0 /\ at[<<s[1], "live">>] = 0
    BY <1>1, <2>2
  <2>. QED  BY <2>2, <2>3, <2>4 DEF Cancelled
<1>2. ASSUME NEW l \in {"un_get", "DeviceInit"}, NEW pop \in [Point -> Nat],
             \A s \in CleanupPoint : pop[s] = 0
      PROVE  \A s \in CleanupPoint : Spawn(pop, <<l, "live">>)[s] = 0
  <2>1. l \in Label /\ l \notin RebootCleanup
    <3>1. "DeviceInit" \in Trigger
      BY DEF Trigger
    <3>2. "DeviceInit" \in Label /\ "DeviceInit" \notin RebootCleanup
      BY Zenon, <3>1, LabelFacts, CleanupFacts
    <3>3. "un_get" \in Label /\ "un_get" \notin RebootCleanup
      BY LabelFacts, CleanupFacts
    <3>. QED  BY <1>2, <3>2, <3>3
  <2>2. <<l, "live">> \in Point /\ <<l, "live">> \notin CleanupPoint
    BY <2>1, LabelFacts, PointFacts, CleanupFacts
  <2>3. CleanupPoint \subseteq Point
    BY Zenon, CleanupFacts
  <2>. QED  BY <1>2, <2>2, <2>3 DEF Spawn
<1>3. \/ at' = Cancelled(at)
      \/ at' = Spawn(Cancelled(at), <<"un_get", "live">>)
      \/ at' = Spawn(Cancelled(at), <<"DeviceInit", "live">>)
  BY DEF UpdateDevice
<1>4. ASSUME ~Cleaning(at) PROVE ~Cleaning(at')
  <2>1. \A s \in CleanupPoint : at[s] = 0
    BY <1>4, CleanupFacts DEF Cleaning, Present
  <2>2. \A s \in CleanupPoint : at'[s] = 0
    BY <1>1, <1>2, <1>3, <2>1
  <2>. QED  BY <2>2 DEF Cleaning, Present
<1>. QED  BY <1>4 DEF Begins, UpdateDevice, mem

LEMMA RequestBegins ==
    ASSUME TypeOK, AtType', RequestNext
    PROVE  \/ deleting' = TRUE
           \/ ~Begins /\ (UNCHANGED deleting \/ DeleteCleanup)
<1>. at \in [Point -> Nat]
  BY DEF TypeOK
<1>1. \A l \in RpcLabel : l \in Label /\ <<l, "live">> \in Point \ CleanupPoint
  BY LabelFacts, PointFacts, CleanupFacts
<1>2. ASSUME NEW p \in Point \ CleanupPoint, NEW q \in Point \ CleanupPoint,
             at' = at \/ at' = Spawn(at, p) \/ at' = Exit(at, p) \/ at' = Move(at, p, q)
      PROVE  ~Begins
  <2>1. CleanupPoint \in SUBSET Point
    BY CleanupFacts
  <2>2. \A s \in CleanupPoint : at'[s] <= at[s]
    BY <1>2, <2>1, NotJoined
  <2>. QED  BY <2>2, NoneArrives
<1>3. /\ <<"dl_flag", "live">> \in Point \ CleanupPoint
      /\ <<"dl_clean", "live">> \in Point \ CleanupPoint
      /\ <<"dl_reboot", "live">> \in Point \ CleanupPoint
      /\ <<"dl_poll", "live">> \in Point \ CleanupPoint
      /\ <<"ds_stop", "live">> \in Point \ CleanupPoint
      /\ <<"ds_set", "live">> \in Point \ CleanupPoint
      /\ <<"re_set", "live">> \in Point \ CleanupPoint
  BY <1>1 DEF RpcLabel
<1>4. CASE DeleteDevice
  BY <1>2, <1>3, <1>4 DEF DeleteDevice, mem
<1>5. CASE DeleteFlag
  BY <1>5 DEF DeleteFlag
<1>6. CASE DeleteCleanup
  BY <1>2, <1>3, <1>6 DEF DeleteCleanup
<1>7. CASE DeleteReboot
  BY <1>2, <1>3, <1>7 DEF DeleteReboot, mem
<1>8. CASE \E timeout \in BOOLEAN : DeletePoll(timeout)
  BY <1>2, <1>3, <1>8 DEF DeletePoll, mem
<1>9. CASE DisableDevice
  BY <1>2, <1>3, <1>9 DEF DisableDevice, mem
<1>10. CASE DisableStore
  BY <1>2, <1>3, <1>10 DEF DisableStore
<1>11. CASE ReenableDevice
  BY <1>2, <1>3, <1>11 DEF ReenableDevice, mem
<1>12. CASE ReenableReport
  BY <1>2, <1>3, <1>12 DEF ReenableReport
<1>. QED
  BY Zenon, <1>4, <1>5, <1>6, <1>7, <1>8, <1>9, <1>10, <1>11, <1>12, CancelBegins DEF RequestNext

(* A clean-up that ends takes the flag back: nobody else may need it. *)
LEMMA CleanupEnds ==
    ASSUME TypeOK, RebootHandledOnce, NEW c \in Ctx, RebootedDone(c)
    PROVE  ~Cleaning(at')
<1>. DEFINE p == <<"rb_children", c>>
<1>1. at \in [Point -> Nat] /\ p \in CleanupPoint /\ CleanupPoint \subseteq RebootPoint
      /\ CleanupPoint \subseteq Point
  BY Zenon, CleanupFacts DEF TypeOK, CleanupPoint, RebootPoint, RebootCleanup
<1>2. <<"DeviceInit", c>> \notin CleanupPoint /\ <<"DeviceInit", c>> \in Point
  BY CleanupFacts, PointFacts DEF Trigger
<1>3. at[p] = 1 /\ \A q \in CleanupPoint \ {p} : at[q] = 0
  <2>1. Present(at, p)
    BY DEF RebootedDone
  <2>2. at[p] = 1 /\ \A q \in RebootPoint \ {p} : ~Present(at, q)
    BY <1>1, <2>1 DEF RebootHandledOnce
  <2>. QED  BY <1>1, <2>2 DEF Present
<1>4. \A q \in CleanupPoint : at'[q] = 0
  BY <1>1, <1>2, <1>3 DEF RebootedDone, Move
<1>. QED  BY <1>4 DEF Cleaning, Present

(* While updateStateRebooted cleans up the deletion flag is set, for every *)
(* start and bound and whatever else happens, as long as the clean-up is   *)
(* alone: the flag is one Boolean that every clean-up sets and takes back, *)
(* so a second updateStateRebooted, or a DeleteDevice whose clean-up       *)
(* fails, would take it from the first.                                    *)
THEOREM CleanupsGuarded ==
    Spec /\ []RebootHandledOnce /\ []DeletesApart => []RebootCleanupGuarded
<1>. DEFINE Guarded == Cleaning(at) => deleting
<1>1. ASSUME Init PROVE Guarded
  <2>1. at = [q \in Point |-> IF q = <<"DeviceInit", "live">> THEN 1 ELSE 0]
    BY Zenon, <1>1 DEF Init
  <2>2. <<"DeviceInit", "live">> \notin CleanupPoint /\ CleanupPoint \subseteq Point
    BY CleanupFacts DEF Trigger
  <2>3. \A s \in CleanupPoint : at[s] = 0
    BY <2>1, <2>2
  <2>. QED  BY <2>3 DEF Cleaning, Present
<1>2. ASSUME TypeInv, Guarded, RebootHandledOnce, DeletesApart, [Next]_vars PROVE Guarded'
  <2>1. CASE UNCHANGED vars
    BY <1>2, <2>1 DEF vars, gor, mem, Cleaning
  <2>2. CASE Next
    <3>1. TypeOK /\ AtType'
      BY <1>2, <2>2, AtTypeStep DEF TypeInv
    <3>2. \/ deleting' = TRUE
          \/ ~Begins /\ UNCHANGED deleting
          \/ ~Begins /\ DeleteCleanup
          \/ \E c \in Ctx : RebootedDone(c)
      BY Zenon, <2>2, <3>1, HandleBegins, HeartbeatBegins, ReaderBegins, TeardownBegins, RequestBegins
         DEF Next
    <3>3. ASSUME ~Begins, DeleteCleanup PROVE ~Cleaning(at')
      BY <1>2, <3>3 DEF DeletesApart, DeleteCleanup, Begins
    <3>4. ASSUME NEW c \in Ctx, RebootedDone(c) PROVE ~Cleaning(at')
      BY <1>2, <3>1, <3>4, CleanupEnds
    <3>. QED  BY <1>2, <3>2, <3>3, <3>4 DEF Begins
  <2>. QED  BY <1>2, <2>1, <2>2
<1>3. Guarded => RebootCleanupGuarded
  BY CleanupFacts DEF Cleaning, RebootCleanupGuarded
<1>. QED  BY <1>1, <1>2, <1>3, InitTypeInv, TypeInvStep, PTL DEF Spec
===============================================================================

-------------------------- MODULE DeviceRoutineProofs --------------------------
(***************************************************************************)
(* Who owns the flags of the background routines, and since when they run: *)
(* proofs of ActiveHasRoutine and RoutinesAfterInit for every set of       *)
(* origins and faults and every bound.                                     *)
(***************************************************************************)
EXTENDS DeviceLifecycleProofs

-------------------------------------------------------------------------------
(* Groups of program points. *)

Someone(S, pop) == \E p \in S : Present(pop, p)

(* Nobody leaves a group by steps of goroutines outside it. *)
LEMMA Outside ==
    ASSUME NEW T, NEW pop \in [T -> Nat], NEW p \in T, NEW q \in T, NEW S \in SUBSET T
    PROVE  /\ \A s \in S : Spawn(pop, p)[s] >= pop[s]
           /\ p \notin S => \A s \in S : Exit(pop, p)[s] >= pop[s]
           /\ p \notin S => \A s \in S : Move(pop, p, q)[s] >= pop[s]
BY DEF Spawn, Exit, Move

(* A step inside a group, or into it, leaves someone there. *)
LEMMA Inside ==
    ASSUME NEW T, NEW pop \in [T -> Nat], NEW p \in T, NEW q \in T, NEW S \in SUBSET T,
           q \in S, Present(pop, p)
    PROVE  Someone(S, Move(pop, p, q)) /\ Someone(S, Spawn(pop, q))
<1>1. Present(Move(pop, p, q), q) /\ Present(Spawn(pop, q), q)
  BY DEF Move, Spawn, Present
<1>. QED  BY <1>1 DEF Someone

LEMMA StillThere ==
    ASSUME NEW T, NEW pop \in [T -> Nat], NEW new \in [T -> Nat], NEW S \in SUBSET T,
           Someone(S, pop), \A s \in S : new[s] >= pop[s]
    PROVE  Someone(S, new)
BY DEF Someone, Present

(* The heartbeat check and the reader between setting and clearing their   *)
(* flags; the reader may be waiting for the transition mutex.              *)
HbMarked == (HbLabel \ {"hb_start"}) \X Ctx
RdMarked == ((RdLabel \ {"rd_start", "rd_enter"}) \cup ReaderTrigger) \X Ctx

(* All points of the two routines, the timer and the goroutine the         *)
(* heartbeat check leaves behind.                                          *)
WorkLabel == HbLabel \cup RdLabel \cup ReaderTrigger \cup {"orphan_timer", "rb_get"}
WorkPoint == WorkLabel \X Ctx

(* The steps of tear-downs and requests start and end outside the routines. *)
LEMMA WorkFacts ==
    /\ HbMarked \subseteq WorkPoint /\ RdMarked \subseteq WorkPoint /\ WorkPoint \subseteq Point
    /\ \A l, c : <<l, c>> \in WorkPoint <=> l \in WorkLabel /\ c \in Ctx
    /\ \A l \in SendLabel : l \notin WorkLabel /\ StopSend[l].next \notin WorkLabel
    /\ \A l \in DOMAIN RLockNext : l \notin WorkLabel /\ RLockNext[l] \notin WorkLabel
    /\ \A l \in RpcLabel : l \notin WorkLabel
    /\ \A l \in {"un_get", "un_core", "un_stop", "rb_flag", "rb_stop",
                 "rb_core", "rb_clean", "rb_colstop", "rb_children", "local_device"} :
          l \notin WorkLabel
    /\ \A l \in Trigger \ ReaderTrigger : l \notin WorkLabel
<1>1. WorkLabel = {"hb_wait", "hb_pending", "hb_fired", "hb_rpc", "hb_rpc_pending", "hb_rpc_fired",
                   "hb_start", "hb_sig", "hb_exit",
                   "rd_start", "rd_enter", "rd_select", "rd_recv", "rd_exit",
                   "DeviceUpInd", "DeviceDownInd", "orphan_timer", "rb_get"}
  BY DEF WorkLabel, HbLabel, RdLabel, ReaderTrigger
<1>2. HbMarked \subseteq WorkPoint /\ RdMarked \subseteq WorkPoint
  BY DEF HbMarked, RdMarked, WorkPoint, WorkLabel
<1>3. WorkLabel \subseteq Label
  BY LabelFacts DEF WorkLabel, ReaderTrigger, Trigger
<1>4. WorkPoint \subseteq Point
  BY <1>3 DEF WorkPoint, Point
<1>5. \A l, c : <<l, c>> \in WorkPoint <=> l \in WorkLabel /\ c \in Ctx
  BY DEF WorkPoint
<1>6. SendLabel = {"un_col", "un_hb", "un_ind", "rb_ind", "rb_hb", "rb_col", "dl_col", "dl_hb",
                   "dl_ind", "ds_col"}
  BY DEF SendLabel, StopSend
<1>7. \A l \in SendLabel : l \notin WorkLabel
  BY <1>1, <1>6
<1>8. \A l \in SendLabel : StopSend[l].next \notin WorkLabel
  BY <1>1, <1>6 DEF StopSend
<1>9. \A l \in DOMAIN RLockNext : l \notin WorkLabel /\ RLockNext[l] \notin WorkLabel
  BY <1>1 DEF RLockNext
<1>10. \A l \in RpcLabel : l \notin WorkLabel
  BY <1>1 DEF RpcLabel
<1>11. \A l \in {"un_get", "un_core", "un_stop", "rb_flag", "rb_stop",
                 "rb_core", "rb_clean", "rb_colstop", "rb_children", "local_device"} :
          l \notin WorkLabel
  BY <1>1
<1>12. \A l \in Trigger \ ReaderTrigger : l \notin WorkLabel
  BY <1>1 DEF Trigger, ReaderTrigger
<1>. QED  BY <1>2, <1>4, <1>5, <1>7, <1>8, <1>9, <1>10, <1>11, <1>12

LEMMA Elsewhere ==
    ASSUME NEW T, NEW pop \in [T -> Nat], NEW p \in T, NEW q \in T, NEW S \in SUBSET T,
           p \notin S, q \notin S
    PROVE  \A s \in S : /\ Spawn(pop, p)[s] = pop[s]
                        /\ Exit(pop, p)[s] = pop[s]
                        /\ Move(pop, p, q)[s] = pop[s]
BY DEF Spawn, Exit, Move

(* Tear-downs leave every goroutine of the routines where it is;           *)
(* updateStateRebooted proceeds from its first point.                      *)
LEMMA TeardownFrame ==
    ASSUME TypeOK, TeardownNext
    PROVE  /\ \A s \in WorkPoint : \/ at'[s] = at[s]
                                   \/ s[1] = "rb_get" /\ at'[s] <= at[s]
           /\ UNCHANGED <<fsm, col, wg, active, ready>>
<1> at \in [Point -> Nat]
  BY DEF TypeOK
<1> WorkPoint \in SUBSET Point
  BY WorkFacts
<1> PICK c \in Ctx :
      \/ UnreachableGet(c) \/ UnreachableReport(c)
      \/ RebootedGet(c) \/ RebootedFlag(c) \/ RebootedReport(c) \/ RebootedCleanup(c)
      \/ RebootedDone(c) \/ UpdateLocalDevice(c)
      \/ \E l \in DOMAIN RLockNext : TakeRLock(l, c)
      \/ \E l \in SendLabel : SendStopToken(l, c)
  BY DEF TeardownNext
<1>1. \A l \in {"un_get", "un_core", "un_stop", "rb_flag", "rb_stop", "rb_core", "rb_clean",
                "rb_colstop", "rb_children", "local_device", "DeviceInit"} :
         <<l, c>> \in Point /\ <<l, c>> \notin WorkPoint
  <2>1. "DeviceInit" \in Trigger \ ReaderTrigger
    BY DEF Trigger, ReaderTrigger
  <2>. QED  BY <2>1, PointFacts, LabelFacts, WorkFacts
<1>2. ASSUME NEW l, NEW m, <<l, c>> \in Point \ WorkPoint, <<m, c>> \in Point \ WorkPoint
      PROVE  \A s \in WorkPoint : /\ Exit(at, <<l, c>>)[s] = at[s]
                                  /\ Move(at, <<l, c>>, <<m, c>>)[s] = at[s]
  BY <1>2, Elsewhere
<1>3. CASE UnreachableGet(c) \/ UpdateLocalDevice(c)
  <2>1. \A s \in WorkPoint : at'[s] = at[s]
    BY <1>3, <1>1, <1>2 DEF UnreachableGet, UpdateLocalDevice
  <2>. QED  BY <1>3, <2>1 DEF UnreachableGet, UpdateLocalDevice, ctl, mem
<1>8. CASE RebootedGet(c)
  <2>1. /\ <<"rb_get", c>> \in Point /\ <<"rb_flag", c>> \in Point
        /\ <<"rb_flag", c>> \notin WorkPoint
    BY <1>1, PointFacts, LabelFacts
  <2>2. \/ at' = Exit(at, <<"rb_get", c>>)
        \/ at' = Move(at, <<"rb_get", c>>, <<"rb_flag", c>>)
    BY <1>8 DEF RebootedGet
  <2>3. ASSUME NEW s \in WorkPoint
        PROVE  at'[s] = at[s] \/ (s[1] = "rb_get" /\ at'[s] <= at[s])
    <3>1. s \in Point /\ s # <<"rb_flag", c>>
      BY <2>1, <2>3
    <3>2. CASE s = <<"rb_get", c>>
      BY <2>1, <2>2, <3>1, <3>2 DEF Exit, Move
    <3>3. CASE s # <<"rb_get", c>>
      BY <2>1, <2>2, <3>1, <3>3 DEF Exit, Move
    <3>. QED  BY <3>2, <3>3
  <2>. QED  BY <1>8, <2>3 DEF RebootedGet, ctl, mem
<1>4. CASE UnreachableReport(c) \/ RebootedFlag(c) \/ RebootedReport(c)
  <2>1. \A s \in WorkPoint : at'[s] = at[s]
    <3>1. CASE UnreachableReport(c)
      BY <3>1, <1>1, <1>2 DEF UnreachableReport
    <3>2. CASE RebootedFlag(c)
      BY <3>2, <1>1, <1>2 DEF RebootedFlag
    <3>3. CASE RebootedReport(c)
      BY <3>3, <1>1, <1>2 DEF RebootedReport
    <3>. QED  BY Zenon, <1>4, <3>1, <3>2, <3>3
  <2>. QED  BY <1>4, <2>1 DEF UnreachableReport, RebootedFlag, RebootedReport, ctl
<1>5. CASE RebootedCleanup(c) \/ RebootedDone(c)
  <2>1. \A s \in WorkPoint : at'[s] = at[s]
    BY <1>5, <1>1, <1>2 DEF RebootedCleanup, RebootedDone
  <2>. QED  BY SMTT(30), <1>5, <2>1 DEF RebootedCleanup, RebootedDone, ctl, mem
<1>6. CASE \E l \in DOMAIN RLockNext : TakeRLock(l, c)
  <2> PICK l \in DOMAIN RLockNext : TakeRLock(l, c)
    BY <1>6
  <2>1. <<l, c>> \in Point \ WorkPoint /\ <<RLockNext[l], c>> \in Point \ WorkPoint
    BY PointFacts, LabelFacts, WorkFacts
  <2>. QED  BY <2>1, <1>2 DEF TakeRLock, ctl, mem
<1>7. CASE \E l \in SendLabel : SendStopToken(l, c)
  <2> PICK l \in SendLabel : SendStopToken(l, c)
    BY <1>7
  <2>1. <<l, c>> \in Point \ WorkPoint /\ <<StopSend[l].next, c>> \in Point \ WorkPoint
    BY PointFacts, LabelFacts, WorkFacts
  <2>. QED  BY <2>1, <1>2 DEF SendStopToken, mem
<1>. QED  BY <1>3, <1>4, <1>5, <1>6, <1>7, <1>8

(* So do the requests of the core, except UpdateDevice, and the OLT. *)
LEMMA RequestFrame ==
    ASSUME TypeOK, RequestNext \/ EnvNext, ~\E changed \in BOOLEAN : UpdateDevice(changed)
    PROVE  /\ \A s \in WorkPoint : at'[s] = at[s]
           /\ UNCHANGED <<fsm, col, wg, active, ready>>
<1> at \in [Point -> Nat]
  BY DEF TypeOK
<1> WorkPoint \in SUBSET Point
  BY WorkFacts
<1>1. \A l \in RpcLabel : <<l, "live">> \in Point \ WorkPoint
  BY PointFacts, LabelFacts, WorkFacts
<1>2. ASSUME NEW p \in Point \ WorkPoint, NEW q \in Point \ WorkPoint
      PROVE  \A s \in WorkPoint : /\ Spawn(at, p)[s] = at[s]
                                  /\ Exit(at, p)[s] = at[s]
                                  /\ Move(at, p, q)[s] = at[s]
  BY <1>2, Elsewhere
<1>3. /\ <<"dl_flag", "live">> \in Point \ WorkPoint /\ <<"dl_stop", "live">> \in Point \ WorkPoint
      /\ <<"dl_clean", "live">> \in Point \ WorkPoint /\ <<"dl_reboot", "live">> \in Point \ WorkPoint
      /\ <<"dl_poll", "live">> \in Point \ WorkPoint /\ <<"ds_stop", "live">> \in Point \ WorkPoint
      /\ <<"ds_set", "live">> \in Point \ WorkPoint /\ <<"re_set", "live">> \in Point \ WorkPoint
  BY <1>1 DEF RpcLabel
<1>4. CASE DeleteDevice
  BY <1>4, <1>2, <1>3 DEF DeleteDevice, ctl, mem
<1>5. CASE DeleteFlag
  BY <1>5, <1>2, <1>3 DEF DeleteFlag, ctl
<1>6. CASE DeleteCleanup
  BY <1>6, <1>2, <1>3 DEF DeleteCleanup, ctl
<1>7. CASE DeleteReboot
  BY <1>7, <1>2, <1>3 DEF DeleteReboot, ctl, mem
<1>8. CASE \E timeout \in BOOLEAN : DeletePoll(timeout)
  <2>1. at' = Exit(at, <<"dl_poll", "live">>) /\ UNCHANGED <<fsm, col, wg, ctl, mem>>
    BY Zenon, <1>8 DEF DeletePoll
  <2>2. \A t \in WorkPoint : at'[t] = at[t]
    BY Zenon, <2>1, <1>2, <1>3
  <2>. QED  BY <2>1, <2>2 DEF ctl, mem
<1>9. CASE DisableDevice
  <2>1. at' = at \/ at' = Spawn(at, <<"ds_stop", "live">>)
    BY <1>9 DEF DisableDevice
  <2>. QED  BY <1>9, <2>1, <1>2, <1>3 DEF DisableDevice, ctl, mem
<1>10. CASE DisableStore
  BY <1>10, <1>2, <1>3 DEF DisableStore, ctl
<1>11. CASE ReenableDevice
  <2>1. at' = at \/ at' = Spawn(at, <<"re_set", "live">>)
    BY <1>11 DEF ReenableDevice
  <2>. QED  BY <1>11, <2>1, <1>2, <1>3 DEF ReenableDevice, ctl, mem
<1>12. CASE ReenableReport
  BY <1>12, <1>2, <1>3 DEF ReenableReport, ctl
<1>13. CASE EnvNext
  BY Zenon, <1>13 DEF EnvNext, CoreForgets, OltReboots, ctl, mem, gor
<1>. QED  BY <1>4, <1>5, <1>6, <1>7, <1>8, <1>9, <1>10, <1>11, <1>12, <1>13 DEF RequestNext

(* UpdateDevice cancels goroutines and moves none: whoever was at a point  *)
(* of a routine is still at it, with its ctx done.                         *)
LEMMA CancelFrame ==
    ASSUME TypeOK, NEW changed \in BOOLEAN, UpdateDevice(changed),
           NEW L \in SUBSET WorkLabel
    PROVE  /\ Someone(L \X Ctx, at) => Someone(L \X Ctx, at')
           /\ (\A s \in L \X Ctx : at[s] = 0) => \A s \in L \X Ctx : at'[s] = 0
           /\ cs'.trig = cs.trig /\ cs'.step = cs.step
           /\ UNCHANGED <<col, wg, active, ready>>
<1> at \in [Point -> Nat]
  BY DEF TypeOK
<1>1. Ctx = {"live", "done"}
  BY UpdateCancels, TypeSplit
<1>2. L \X Ctx \in SUBSET Point /\ \A l \in L, c \in Ctx : <<l, c>> \in Point
  BY WorkFacts DEF WorkPoint
<1>3. \A l \in L : l \notin RpcLabel
  BY WorkFacts
<1>4. \A l \in L : /\ Cancelled(at)[<<l, "live">>] = 0
                   /\ Cancelled(at)[<<l, "done">>] = at[<<l, "done">>] + at[<<l, "live">>]
  BY <1>1, <1>2, <1>3 DEF Cancelled
<1>5. Cancelled(at) \in [Point -> Nat]
  <2>1. \A p \in Point : <<p[1], "live">> \in Point
    BY LabelFacts DEF Point
  <2>. QED  BY <2>1 DEF Cancelled
<1>6. \A s \in L \X Ctx : at'[s] = Cancelled(at)[s]
  <2>1. <<"un_get", "live">> \in Point /\ <<"DeviceInit", "live">> \in Point
    BY PointFacts, LabelFacts DEF Trigger
  <2>2. "un_get" \notin WorkLabel /\ "DeviceInit" \notin WorkLabel
    <3>1. "DeviceInit" \in Trigger \ ReaderTrigger
      BY DEF Trigger, ReaderTrigger
    <3>. QED  BY <3>1, WorkFacts
  <2>3. <<"un_get", "live">> \notin L \X Ctx /\ <<"DeviceInit", "live">> \notin L \X Ctx
    BY <2>2
  <2>4. \A s \in L \X Ctx : /\ Spawn(Cancelled(at), <<"un_get", "live">>)[s] = Cancelled(at)[s]
                            /\ Spawn(Cancelled(at), <<"DeviceInit", "live">>)[s] = Cancelled(at)[s]
    <3>1. ASSUME NEW p \in Point, p \notin L \X Ctx
          PROVE  \A s \in L \X Ctx : Spawn(Cancelled(at), p)[s] = Cancelled(at)[s]
      <4> SUFFICES ASSUME NEW s \in L \X Ctx
                   PROVE  Spawn(Cancelled(at), p)[s] = Cancelled(at)[s]
        OBVIOUS
      <4>1. s # p /\ s \in Point
        BY <1>2, <3>1
      <4>. QED  BY <1>5, <3>1, <4>1 DEF Spawn
    <3>. QED  BY <2>1, <2>3, <3>1
  <2>5. \/ at' = Cancelled(at)
        \/ at' = Spawn(Cancelled(at), <<"un_get", "live">>)
        \/ at' = Spawn(Cancelled(at), <<"DeviceInit", "live">>)
    BY DEF UpdateDevice
  <2>. QED  BY <2>4, <2>5
<1>7. ASSUME Someone(L \X Ctx, at) PROVE Someone(L \X Ctx, at')
  <2>3. PICK s \in L \X Ctx : at[s] > 0
    BY <1>7 DEF Someone, Present
  <2>4. PICK l \in L, c \in Ctx : s = <<l, c>>
    BY <2>3
  <2>2. <<l, "live">> \in Point /\ <<l, "done">> \in Point /\ <<l, "done">> \in L \X Ctx
    BY <1>1, <1>2
  <2>5. at[<<l, "live">>] > 0 \/ at[<<l, "done">>] > 0
    BY <1>1, <2>3, <2>4
  <2>6. at'[<<l, "done">>] = at[<<l, "done">>] + at[<<l, "live">>]
    BY <1>4, <1>6, <2>2
  <2>1. at'[<<l, "done">>] > 0
    BY <2>2, <2>5, <2>6
  <2>. QED  BY <2>1, <1>1 DEF Someone, Present
<1>8. ASSUME \A s \in L \X Ctx : at[s] = 0 PROVE \A s \in L \X Ctx : at'[s] = 0
  <2>1. \A l \in L : at[<<l, "live">>] = 0 /\ at[<<l, "done">>] = 0
    BY <1>8, <1>1
  <2>2. \A l \in L, c \in Ctx : at'[<<l, c>>] = Cancelled(at)[<<l, c>>]
    BY <1>6
  <2>3. \A l \in L, c \in Ctx : Cancelled(at)[<<l, c>>] = 0
    <3> TAKE l \in L
    <3>1. Cancelled(at)[<<l, "live">>] = 0 /\ Cancelled(at)[<<l, "done">>] = 0 + 0
      BY <2>1, <1>4
    <3>. QED  BY <3>1, <1>1
  <2>. QED  BY <2>2, <2>3
<1>9. cs'.trig = cs.trig /\ cs'.step = cs.step
  BY DEF UpdateDevice
<1>. QED  BY <1>7, <1>8, <1>9 DEF UpdateDevice, ctl, mem

-------------------------------------------------------------------------------
(* The goroutine inside Handle. *)

(* It goes on with the handler. *)
Stays == cs'.trig = cs.trig /\ at' = at

(* It leaves Handle and, if it is a reader, goes back to its loop; nobody  *)
(* else has moved and the new goroutines are at the given points.          *)
Returned(spawned) ==
    /\ cs' = Idle
    /\ \A s \in Point : at'[s] >= at[s]
    /\ cs.trig \in ReaderTrigger => Someone(RdMarked, at')
    /\ cs.trig \notin ReaderTrigger => \A s \in Point : s[1] \notin spawned => at'[s] = at[s]

LEMMA HandlerReturns ==
    ASSUME TypeOK
    PROVE  /\ HandlerError => Returned({})
           /\ \A spawned : HandlerDone(spawned) => Returned(spawned)
<1> at \in [Point -> Nat] /\ cs.ctx \in Ctx
  BY DEF TypeOK
<1>1. <<"rd_select", cs.ctx>> \in Point /\ <<"rd_select", cs.ctx>> \in RdMarked
  BY PointFacts, LabelFacts DEF RdLabel, RdMarked
<1> DEFINE back == Resume(at, cs.trig, cs.ctx)
<1>2. /\ \A s \in Point : back[s] \in Nat /\ back[s] >= at[s]
      /\ cs.trig \in ReaderTrigger => back[<<"rd_select", cs.ctx>>] > 0
      /\ cs.trig \notin ReaderTrigger => back = at
  BY <1>1 DEF Resume, Spawn
<1> HIDE DEF back
<1>3. ASSUME HandlerError PROVE Returned({})
  <2>1. cs' = Idle /\ at' = back
    BY <1>3 DEF HandlerError, back
  <2>. QED  BY <1>1, <1>2, <2>1 DEF Returned, Someone, Present
<1>4. ASSUME NEW spawned, HandlerDone(spawned) PROVE Returned(spawned)
  <2>1. cs' = Idle
        /\ at' = [p \in Point |-> back[p] + IF p[2] = cs.ctx /\ p[1] \in spawned THEN 1 ELSE 0]
    BY <1>4 DEF HandlerDone, back
  <2>2. \A s \in Point : at'[s] >= back[s] /\ (s[1] \notin spawned => at'[s] = back[s])
    BY <1>2, <2>1
  <2>3. \A s \in Point : at'[s] >= at[s] /\ at'[s] \in Int
    BY <1>2, <2>1
  <2>4. cs.trig \in ReaderTrigger => at'[<<"rd_select", cs.ctx>>] > 0
    BY <1>1, <1>2, <2>1
  <2>. QED  BY <1>1, <1>2, <2>1, <2>2, <2>3, <2>4 DEF Returned, Someone, Present
<1>. QED  BY <1>3, <1>4

(* Every step of a handler, once it has been entered. *)
LEMMA HandlerOutcome ==
    ASSUME TypeOK, HandleNext,
           ~\E trig \in Trigger, c \in Ctx : HandleEnter(trig, c) \/ HandleReject(trig, c)
    PROVE  \/ Stays
           \/ \E spawned : Returned(spawned) /\ (ready' \/ spawned \cap WorkLabel = {})
           \/ ready' /\ cs'.trig = cs.trig /\ at' = Spawn(at, <<"hb_start", cs.ctx>>)
<1> DEFINE Out == \/ Stays
                  \/ \E spawned : Returned(spawned) /\ (ready' \/ spawned \cap WorkLabel = {})
<1>1. \A step, mode : NextStep(step, mode) => Out
  BY DEF NextStep, Stays
<1>2. HandlerError => Out
  BY HandlerReturns
<1>3. \A spawned : HandlerDone(spawned) /\ (ready' \/ spawned \cap WorkLabel = {}) => Out
  BY HandlerReturns
<1>4. {"GrpcConnected"} \cap WorkLabel = {} /\ {"GrpcDisconnected"} \cap WorkLabel = {}
  BY DEF WorkLabel, HbLabel, RdLabel, ReaderTrigger
<1>5. InitFailed => Out
  BY <1>2, <1>3, <1>4 DEF InitFailed
<1>6. {} \cap WorkLabel = {}
  OBVIOUS
<1> HIDE DEF Out
<1>7. ASSUME DoStateInit PROVE Out
  BY <1>7, <1>2, <1>3, <1>4 DEF DoStateInit
<1>8. ASSUME DoStateConnected PROVE Out
  BY <1>8, <1>1, <1>2 DEF DoStateConnected
<1>9. ASSUME PopulateDeviceInfo \/ CollectorWait PROVE Out
  BY <1>9, <1>1, <1>5 DEF PopulateDeviceInfo, CollectorWait
<1>10. CASE BuildModules
  <2>1. CASE cs.ctx = "done" /\ InitFailed
    BY <2>1, <1>5 DEF Out
  <2>2. CASE ready' = TRUE /\ \E spawned : HandlerDone(spawned)
    BY <2>2, <1>3 DEF Out
  <2>3. CASE /\ ready' = TRUE
             /\ at' = Spawn(at, <<"hb_start", cs.ctx>>)
             /\ cs' = [trig |-> cs.trig, step |-> "upDone", ctx |-> cs.ctx, mode |-> cs.mode]
    BY <2>3
  <2>. QED  BY Zenon, <1>10, <2>1, <2>2, <2>3 DEF BuildModules
<1>11. ASSUME DoStateUp \/ UpRLock \/ UpSendStop PROVE Out
  BY <1>11, <1>1 DEF DoStateUp, UpRLock, UpSendStop
<1>12. ASSUME UpGetDevice \/ UpCleanup PROVE Out
  BY <1>12, <1>1, <1>2 DEF UpGetDevice, UpCleanup
<1>13. ASSUME UpReport PROVE Out
  BY <1>13, <1>2, <1>3, <1>6 DEF UpReport
<1>14. ASSUME DoStateDown PROVE Out
  BY <1>14, <1>2, <1>3, <1>6 DEF DoStateDown
<1>. QED
  BY <1>7, <1>8, <1>9, <1>10, <1>11, <1>12, <1>13, <1>14 DEF HandleNext, Out

(* Handle and its handlers set and clear no flag. *)
LEMMA HandleFrame ==
    ASSUME HandleNext
    PROVE  UNCHANGED active
<1>1. CASE \E trig \in Trigger, c \in Ctx : HandleEnter(trig, c) \/ HandleReject(trig, c)
  BY <1>1 DEF HandleEnter, HandleReject, ctl
<1>2. CASE DoStateInit
  BY <1>2 DEF DoStateInit, ctl
<1>3. CASE DoStateConnected
  BY <1>3 DEF DoStateConnected, ctl
<1>4. CASE PopulateDeviceInfo \/ CollectorWait
  BY <1>4 DEF PopulateDeviceInfo, CollectorWait, ctl
<1>5. CASE BuildModules
  BY <1>5 DEF BuildModules, ctl
<1>6. CASE DoStateUp \/ UpRLock \/ UpSendStop
  BY <1>6 DEF DoStateUp, UpRLock, UpSendStop, ctl
<1>7. CASE UpGetDevice \/ UpCleanup
  BY <1>7 DEF UpGetDevice, UpCleanup, ctl
<1>8. CASE UpReport
  BY <1>8 DEF UpReport, ctl
<1>9. CASE DoStateDown
  BY <1>9 DEF DoStateDown, ctl
<1>. QED  BY <1>1, <1>2, <1>3, <1>4, <1>5, <1>6, <1>7, <1>8, <1>9 DEF HandleNext

-------------------------------------------------------------------------------
(* The owners of the three flags. *)

HbOwned  == active["heartbeat"] => Someone(HbMarked, at)
RdOwned  == active["indications"] => Someone(RdMarked, at) \/ cs.trig \in ReaderTrigger
ColOwned == active["collector"] => Present(col, "run") \/ Present(col, "exit")

(* A step in which nobody leaves the marked points disowns no flag. *)
LEMMA NobodyLeaves ==
    ASSUME TypeOK, AtType', UNCHANGED active, NEW S \in SUBSET Point,
           \A s \in S : at'[s] >= at[s]
    PROVE  Someone(S, at) => Someone(S, at')
<1> at \in [Point -> Nat] /\ at' \in [Point -> Nat]
  BY DEF TypeOK, AtType
<1>. QED  BY StillThere

LEMMA HandleOwned ==
    ASSUME TypeOK, HandleNext, HbOwned, RdOwned
    PROVE  HbOwned' /\ RdOwned'
<1> at \in [Point -> Nat] /\ cs.ctx \in Ctx
  BY DEF TypeOK
<1> HbMarked \in SUBSET Point /\ RdMarked \in SUBSET Point
  BY WorkFacts
<1>1. UNCHANGED active /\ AtType'
  BY HandleFrame, AtTypeStep DEF Next
<1>2. ASSUME \A s \in HbMarked : at'[s] >= at[s] PROVE HbOwned'
  BY <1>1, <1>2, NobodyLeaves DEF HbOwned
<1>3. ASSUME \A s \in RdMarked : at'[s] >= at[s], cs.trig \notin ReaderTrigger PROVE RdOwned'
  BY <1>1, <1>3, NobodyLeaves DEF RdOwned
<1>4. Idle.trig \notin ReaderTrigger
  BY DEF Idle, ReaderTrigger
<1>5. \A s \in HbMarked : s \in Point
  BY WorkFacts
<1>6. ASSUME NEW trig \in Trigger, NEW c \in Ctx, HandleEnter(trig, c) \/ HandleReject(trig, c)
      PROVE  HbOwned' /\ RdOwned'
  <2> <<trig, c>> \in Point
    BY PointFacts
  <2> DEFINE gone == Exit(at, <<trig, c>>)
  <2>1. <<trig, c>> \notin HbMarked
    BY DEF HbMarked, HbLabel, Trigger
  <2>2. \A s \in HbMarked : gone[s] >= at[s]
    BY Zenon, <2>1, Outside
  <2>3. gone \in [Point -> Nat]
    BY Zenon, <1>6, PopulationType DEF HandleEnter, HandleReject
  <2>4. <<"rd_select", c>> \in Point /\ <<"rd_select", c>> \in RdMarked
    BY PointFacts, LabelFacts DEF RdLabel, RdMarked
  <2>5. trig \notin ReaderTrigger => <<trig, c>> \notin RdMarked
    BY WorkFacts DEF WorkPoint
  <2>6. trig \notin ReaderTrigger => \A s \in RdMarked : gone[s] >= at[s]
    BY <2>5, Outside
  <2> HIDE DEF gone
  <2>7. CASE HandleEnter(trig, c)
    <3>1. at' = gone /\ cs'.trig = trig /\ cs = Idle
      BY <2>7 DEF HandleEnter, gone
    <3>. QED  BY <1>2, <1>3, <1>4, <2>2, <2>6, <3>1 DEF RdOwned
  <2>8. CASE HandleReject(trig, c)
    <3>1. at' = Resume(gone, trig, c) /\ cs' = cs /\ cs = Idle
      BY <2>8 DEF HandleReject, gone, fsm
    <3>2. CASE trig \in ReaderTrigger
      <4>1. at' = Spawn(gone, <<"rd_select", c>>)
        BY <3>1, <3>2 DEF Resume
      <4>2. \A s \in HbMarked : at'[s] >= at[s]
        BY <4>1, <2>2, <2>3, <1>5, <2>4 DEF Spawn
      <4>3. Present(at', <<"rd_select", c>>)
        BY <4>1, <2>3, <2>4 DEF Spawn, Present
      <4>. QED  BY <4>2, <4>3, <1>2, <2>4 DEF RdOwned, Someone
    <3>3. CASE trig \notin ReaderTrigger
      <4>1. at' = gone
        BY <3>1, <3>3 DEF Resume
      <4>. QED  BY Zenon, <4>1, <3>1, <3>3, <1>2, <1>3, <1>4, <2>2, <2>6
    <3>. QED  BY <3>2, <3>3
  <2>. QED  BY <1>6, <2>7, <2>8
<1>7. CASE Stays
  <2>1. \A s \in Point : at'[s] >= at[s]
    BY <1>7 DEF Stays
  <2>. QED  BY <2>1, <1>1, <1>2, <1>7, NobodyLeaves DEF RdOwned, Stays
<1>8. CASE \E spawned : Returned(spawned)
  <2>1. /\ \A s \in Point : at'[s] >= at[s]
        /\ cs.trig \in ReaderTrigger => Someone(RdMarked, at')
    BY <1>8 DEF Returned
  <2>. QED  BY <2>1, <1>2, <1>3 DEF RdOwned
<1>9. CASE cs'.trig = cs.trig /\ at' = Spawn(at, <<"hb_start", cs.ctx>>)
  <2>1. <<"hb_start", cs.ctx>> \in Point
    BY PointFacts DEF HbLabel
  <2>2. \A s \in Point : at'[s] >= at[s]
    BY <2>1, <1>9 DEF Spawn
  <2>. QED  BY <2>2, <1>1, <1>2, <1>9, NobodyLeaves DEF RdOwned
<1>. QED  BY <1>6, <1>7, <1>8, <1>9, HandlerOutcome

LEMMA HeartbeatOwned ==
    ASSUME TypeOK, HeartbeatNext, HbOwned, RdOwned
    PROVE  HbOwned' /\ RdOwned'
<1> at \in [Point -> Nat] /\ active \in [Routine -> BOOLEAN]
  BY DEF TypeOK
<1> HbMarked \in SUBSET Point /\ RdMarked \in SUBSET Point
  BY WorkFacts
<1>0. AtType' /\ UNCHANGED cs
  BY HeartbeatFrame, AtTypeStep DEF Next, fsm
<1> at' \in [Point -> Nat]
  BY <1>0 DEF AtType
<1>1. "heartbeat" \in Routine /\ "indications" \in Routine
  BY DEF Routine
<1>2. ASSUME active'["indications"] = active["indications"], \A s \in RdMarked : at'[s] >= at[s]
      PROVE  RdOwned'
  BY <1>0, <1>2, StillThere DEF RdOwned
<1>3. ASSUME Someone(HbMarked, at') PROVE HbOwned'
  BY <1>3 DEF HbOwned
<1>4. ASSUME NEW c \in Ctx, NEW l \in HbLabel
      PROVE  <<l, c>> \in Point /\ <<l, c>> \notin RdMarked /\ (l # "hb_start" => <<l, c>> \in HbMarked)
  <2>1. l \notin RdLabel /\ l \notin ReaderTrigger
    BY Zenon DEF HbLabel, RdLabel, ReaderTrigger
  <2>. QED  BY <2>1, PointFacts DEF HbMarked, RdMarked
<1>5. \A l \in HbWaiting : l \in HbLabel /\ HbRpc[l] \in HbLabel /\ l # "hb_start" /\ HbRpc[l] # "hb_start"
  BY LabelFacts DEF HbWaiting, HbRpc
<1>6. {"hb_start", "hb_wait", "hb_pending", "hb_fired", "hb_rpc_pending", "hb_rpc_fired",
       "hb_sig", "hb_exit"} \subseteq HbLabel
  BY DEF HbLabel
(* A heartbeat goroutine proceeds, and may start one other goroutine. *)
<1>7. ASSUME NEW c \in Ctx, NEW l \in HbLabel, NEW m \in HbLabel, m # "hb_start",
             Present(at, <<l, c>>),
             \/ at' = Move(at, <<l, c>>, <<m, c>>)
             \/ \E p \in Point : at' = Spawn(Move(at, <<l, c>>, <<m, c>>), p)
      PROVE  Someone(HbMarked, at') /\ \A s \in RdMarked : at'[s] >= at[s]
  <2> DEFINE moved == Move(at, <<l, c>>, <<m, c>>)
  <2>1. /\ <<l, c>> \in Point /\ <<m, c>> \in Point /\ <<m, c>> \in HbMarked
        /\ <<l, c>> \notin RdMarked
    BY <1>7, <1>4
  <2>2. moved \in [Point -> Nat]
    BY Zenon, <1>7, <2>1, PopulationType
  <2>3. Someone(HbMarked, moved)
    BY <1>7, <2>1, Inside
  <2>4. \A s \in RdMarked : moved[s] >= at[s]
    BY <2>1, Outside
  <2> HIDE DEF moved
  <2>5. CASE at' = moved
    BY <2>3, <2>4, <2>5
  <2>6. CASE \E p \in Point : at' = Spawn(moved, p)
    <3>1. \A s \in Point : at'[s] >= moved[s]
      BY <2>2, <2>6 DEF Spawn
    <3>2. Someone(HbMarked, at')
      BY <2>2, <2>3, <3>1, StillThere
    <3>. QED  BY <2>2, <2>4, <3>1, <3>2
  <2>. QED  BY <1>7, <2>5, <2>6 DEF moved
<1> PICK c \in Ctx :
      \/ HeartbeatEnter(c) \/ ReportTimer(c) \/ OrphanTimer(c)
      \/ HeartbeatStore(c) \/ HeartbeatLeave(c)
      \/ \E l \in HbWaiting : \/ HeartbeatTick(l, c) \/ HeartbeatFail(l, c) \/ HeartbeatOk(l, c)
                             \/ HeartbeatRebooted(l, c) \/ HeartbeatStop(l, c)
  BY DEF HeartbeatNext
<1>8. /\ <<"un_get", c>> \in Point /\ <<"rb_get", c>> \in Point /\ <<"rd_start", c>> \in Point
      /\ <<"orphan_timer", c>> \in Point
  BY PointFacts, LabelFacts DEF RdLabel
<1>9. CASE HeartbeatEnter(c)
  <2>1. Present(at, <<"hb_start", c>>) /\ at' = Move(at, <<"hb_start", c>>, <<"hb_wait", c>>)
        /\ active'["indications"] = active["indications"]
    BY <1>1, <1>9 DEF HeartbeatEnter
  <2>. QED  BY <2>1, <1>2, <1>3, <1>6, <1>7
<1>10. CASE ReportTimer(c)
  <2>1. UNCHANGED active
    BY <1>10 DEF ReportTimer, ctl
  <2>2. \E l, m \in HbLabel : /\ m # "hb_start" /\ Present(at, <<l, c>>)
                              /\ at' = Spawn(Move(at, <<l, c>>, <<m, c>>), <<"un_get", c>>)
    <3>1. CASE /\ Present(at, <<"hb_pending", c>>)
               /\ at' = Spawn(Move(at, <<"hb_pending", c>>, <<"hb_fired", c>>), <<"un_get", c>>)
      BY Zenon, <3>1, <1>6
    <3>2. CASE /\ Present(at, <<"hb_rpc_pending", c>>)
               /\ at' = Spawn(Move(at, <<"hb_rpc_pending", c>>, <<"hb_rpc_fired", c>>), <<"un_get", c>>)
      BY Zenon, <3>2, <1>6
    <3>3. PICK p \in {<<"hb_pending", "hb_fired">>, <<"hb_rpc_pending", "hb_rpc_fired">>} :
             /\ Present(at, <<p[1], c>>)
             /\ at' = Spawn(Move(at, <<p[1], c>>, <<p[2], c>>), <<"un_get", c>>)
      BY <1>10 DEF ReportTimer
    <3>4. CASE p = <<"hb_pending", "hb_fired">>
      <4>1. p[1] = "hb_pending" /\ p[2] = "hb_fired"
        BY <3>4
      <4>. QED  BY <4>1, <3>1, <3>3
    <3>5. CASE p = <<"hb_rpc_pending", "hb_rpc_fired">>
      <4>1. p[1] = "hb_rpc_pending" /\ p[2] = "hb_rpc_fired"
        BY <3>5
      <4>. QED  BY <4>1, <3>2, <3>3
    <3>. QED  BY Zenon, <3>3, <3>4, <3>5
  <2>. QED  BY Zenon, <2>1, <2>2, <1>2, <1>3, <1>7, <1>8
<1>11. CASE OrphanTimer(c)
  <2>1. <<"orphan_timer", c>> \notin HbMarked /\ <<"orphan_timer", c>> \notin RdMarked
    BY DEF HbMarked, RdMarked, HbLabel, RdLabel, ReaderTrigger
  <2>2. at' = Move(at, <<"orphan_timer", c>>, <<"un_get", c>>) /\ UNCHANGED active
    BY Zenon, <1>11 DEF OrphanTimer, ctl
  <2>3. (\A s \in HbMarked : at'[s] >= at[s]) /\ (\A s \in RdMarked : at'[s] >= at[s])
    BY Zenon, <2>1, <2>2, <1>8, Outside
  <2>. QED  BY <2>2, <2>3, <1>2, StillThere DEF HbOwned
<1>12. CASE HeartbeatStore(c)
  <2>1. Present(at, <<"hb_sig", c>>) /\ at' = Move(at, <<"hb_sig", c>>, <<"hb_wait", c>>)
        /\ UNCHANGED active
    BY <1>12 DEF HeartbeatStore, ctl
  <2>. QED  BY <2>1, <1>2, <1>3, <1>6, <1>7
<1>13. CASE HeartbeatLeave(c)
  <2>1. at' = Exit(at, <<"hb_exit", c>>) /\ active' = [active EXCEPT !["heartbeat"] = FALSE]
    BY <1>13 DEF HeartbeatLeave
  <2>2. \A s \in RdMarked : at'[s] >= at[s]
    BY Zenon, <2>1, <1>4, <1>6, Outside
  <2>. QED  BY <2>1, <2>2, <1>1, <1>2 DEF HbOwned
<1>14. ASSUME NEW l \in HbWaiting,
              \/ HeartbeatTick(l, c) \/ HeartbeatFail(l, c) \/ HeartbeatOk(l, c)
              \/ HeartbeatRebooted(l, c) \/ HeartbeatStop(l, c)
       PROVE  HbOwned' /\ RdOwned'
  <2>1. l \in HbLabel /\ HbRpc[l] \in HbLabel /\ l # "hb_start" /\ HbRpc[l] # "hb_start"
    BY <1>5
  <2>2. CASE HeartbeatTick(l, c)
    <3>1. /\ Present(at, <<l, c>>) /\ UNCHANGED active
          /\ at' = Move(at, <<l, c>>, <<HbRpc[l], c>>)
      BY <2>2 DEF HeartbeatTick, ctl
    <3>. QED  BY <3>1, <2>1, <1>2, <1>3, <1>7
  <2>3. CASE HeartbeatFail(l, c)
    <3> DEFINE m == IF l = "hb_wait" THEN "hb_pending" ELSE l
    <3>1. m \in HbLabel /\ m # "hb_start"
      BY <2>1, <1>6
    <3>2. Present(at, <<HbRpc[l], c>>) /\ at' = Move(at, <<HbRpc[l], c>>, <<m, c>>) /\ UNCHANGED active
      BY <2>3 DEF HeartbeatFail, ctl
    <3> HIDE DEF m
    <3>. QED  BY <3>1, <3>2, <2>1, <1>2, <1>3, <1>7
  <2>4. CASE HeartbeatOk(l, c)
    <3>1. Present(at, <<HbRpc[l], c>>) /\ UNCHANGED active
      BY Zenon, <2>4 DEF HeartbeatOk, ctl
    <3>2. \/ at' = Move(at, <<HbRpc[l], c>>, <<"hb_wait", c>>)
          \/ at' = Spawn(Move(at, <<HbRpc[l], c>>, <<"hb_wait", c>>), <<"rd_start", c>>)
      BY <2>4 DEF HeartbeatOk
    <3>. QED  BY Zenon, <3>1, <3>2, <2>1, <1>2, <1>3, <1>6, <1>7, <1>8
  <2>5. CASE HeartbeatRebooted(l, c)
    <3>1. /\ Present(at, <<HbRpc[l], c>>) /\ UNCHANGED active
          /\ at' = Spawn(Move(at, <<HbRpc[l], c>>, <<"hb_sig", c>>), <<"rb_get", c>>)
      BY <2>5 DEF HeartbeatRebooted, ctl
    <3>. QED  BY Zenon, <3>1, <2>1, <1>2, <1>3, <1>6, <1>7, <1>8
  <2>6. CASE HeartbeatStop(l, c)
    <3>1. Present(at, <<l, c>>) /\ UNCHANGED active
      BY <2>6 DEF HeartbeatStop
    <3>2. \/ at' = Move(at, <<l, c>>, <<"hb_exit", c>>)
          \/ at' = Spawn(Move(at, <<l, c>>, <<"hb_exit", c>>), <<"orphan_timer", c>>)
      BY <2>6 DEF HeartbeatStop
    <3>. QED  BY <3>1, <3>2, <2>1, <1>2, <1>3, <1>6, <1>7, <1>8
  <2>. QED  BY <1>14, <2>2, <2>3, <2>4, <2>5, <2>6
<1>. QED  BY <1>9, <1>10, <1>11, <1>12, <1>13, <1>14

LEMMA ReaderOwned ==
    ASSUME TypeOK, ReaderNext, HbOwned, RdOwned
    PROVE  /\ HbOwned' /\ RdOwned'
           /\ active'["collector"] = active["collector"]
           /\ UNCHANGED <<fsm, col, wg, ready>>
<1> at \in [Point -> Nat] /\ active \in [Routine -> BOOLEAN]
  BY DEF TypeOK
<1> HbMarked \in SUBSET Point /\ RdMarked \in SUBSET Point
  BY WorkFacts
<1>1. /\ "heartbeat" \in Routine /\ "indications" \in Routine /\ "collector" \in Routine
      /\ "heartbeat" # "indications" /\ "collector" # "indications"
  BY DEF Routine
<1> PICK c \in Ctx :
      \/ ReaderStart(c) \/ ReaderEnter(c) \/ ReaderSelect(c) \/ ReaderLeave(c)
      \/ RecvOltUp(c) \/ RecvOltDown(c) \/ ReaderReopen(c)
      \/ \E l \in {"rd_select", "rd_recv"} : ReaderStop(l, c)
  BY Zenon DEF ReaderNext
<1>2. UNCHANGED <<fsm, col, wg, ready>>
  BY DEF ReaderStart, ReaderEnter, ReaderSelect, ReaderLeave, RecvOltUp, RecvOltDown, ReaderReopen,
         ReaderStop, mem
<1>3. AtType'
  BY AtTypeStep DEF Next, ReaderNext
<1> at' \in [Point -> Nat]
  BY <1>3 DEF AtType
<1>4. ASSUME active'["heartbeat"] = active["heartbeat"], \A s \in HbMarked : at'[s] >= at[s]
      PROVE  HbOwned'
  BY <1>4, StillThere DEF HbOwned
<1>5. ASSUME NEW l \in RdLabel \cup ReaderTrigger
      PROVE  /\ <<l, c>> \in Point /\ <<l, c>> \notin HbMarked
             /\ l \notin {"rd_start", "rd_enter"} => <<l, c>> \in RdMarked
  <2>1. l \notin HbLabel
    BY DEF HbLabel, RdLabel, ReaderTrigger
  <2>2. l \in Label
    BY LabelFacts DEF ReaderTrigger, Trigger
  <2>. QED  BY <2>1, <2>2, PointFacts DEF HbMarked, RdMarked
<1>6. {"rd_start", "rd_enter", "rd_select", "rd_recv", "rd_exit", "DeviceUpInd", "DeviceDownInd"}
        \subseteq RdLabel \cup ReaderTrigger
  BY DEF RdLabel, ReaderTrigger
(* The reader proceeds to a point where its flag is its own. *)
<1>7. ASSUME NEW l \in RdLabel \cup ReaderTrigger, NEW m \in RdLabel \cup ReaderTrigger,
             m \notin {"rd_start", "rd_enter"}, ReaderMoves(l, m, c),
             active'["heartbeat"] = active["heartbeat"]
      PROVE  HbOwned' /\ RdOwned'
  <2>1. /\ <<l, c>> \in Point /\ <<m, c>> \in Point /\ <<m, c>> \in RdMarked
        /\ <<l, c>> \notin HbMarked
    BY <1>7, <1>5
  <2>2. at' = Move(at, <<l, c>>, <<m, c>>) /\ Present(at, <<l, c>>)
    BY <1>7 DEF ReaderMoves
  <2>3. Someone(RdMarked, at')
    BY <2>1, <2>2, Inside
  <2>4. \A s \in HbMarked : at'[s] >= at[s]
    BY Zenon, <2>1, <2>2, Outside
  <2>. QED  BY <1>4, <1>7, <2>3, <2>4 DEF RdOwned
<1>8. CASE ReaderStart(c)
  <2>1. UNCHANGED active
    BY <1>8 DEF ReaderStart, ctl
  <2>2. CASE ReaderMoves("rd_start", "rd_enter", c)
    <3>1. /\ <<"rd_start", c>> \in Point /\ <<"rd_enter", c>> \in Point
          /\ <<"rd_start", c>> \notin HbMarked
      BY <1>5, <1>6
    <3>2. <<"rd_start", c>> \notin RdMarked
      BY DEF RdMarked, ReaderTrigger
    <3>3. at' = Move(at, <<"rd_start", c>>, <<"rd_enter", c>>)
      BY <2>2 DEF ReaderMoves
    <3>4. (\A s \in HbMarked : at'[s] >= at[s]) /\ (\A s \in RdMarked : at'[s] >= at[s])
      BY Zenon, <3>1, <3>2, <3>3, Outside
    <3>. QED  BY <1>2, <1>4, <2>1, <3>4, StillThere DEF RdOwned, fsm
  <2>3. CASE ReaderMoves("rd_start", "rd_exit", c)
    BY <2>1, <2>3, <1>2, <1>6, <1>7
  <2>. QED  BY <1>2, <1>8, <2>1, <2>2, <2>3 DEF ReaderStart
<1>9. CASE ReaderEnter(c)
  <2>1. /\ ReaderMoves("rd_enter", "rd_select", c)
        /\ active' = [active EXCEPT !["indications"] = TRUE]
    BY <1>9 DEF ReaderEnter
  <2>2. /\ active'["heartbeat"] = active["heartbeat"]
        /\ active'["collector"] = active["collector"]
    BY <1>1, <2>1
  <2>. QED  BY <2>1, <2>2, <1>2, <1>6, <1>7
<1>10. CASE ReaderSelect(c)
  <2>1. ReaderMoves("rd_select", "rd_recv", c) /\ UNCHANGED active
    BY Zenon, <1>10 DEF ReaderSelect, ctl
  <2>. QED  BY <2>1, <1>2, <1>6, <1>7
<1>11. CASE ReaderLeave(c)
  <2>1. /\ at' = Exit(at, <<"rd_exit", c>>)
        /\ active' = [active EXCEPT !["indications"] = FALSE]
    BY <1>11 DEF ReaderLeave
  <2>2. /\ active'["heartbeat"] = active["heartbeat"]
        /\ active'["collector"] = active["collector"]
        /\ ~active'["indications"]
    BY <1>1, <2>1
  <2>3. <<"rd_exit", c>> \in Point /\ <<"rd_exit", c>> \notin HbMarked
    BY Zenon, <1>5, <1>6
  <2>4. \A s \in HbMarked : at'[s] >= at[s]
    BY <2>1, <2>3, Outside
  <2>. QED  BY <2>2, <2>4, <1>2, <1>4 DEF RdOwned
<1>12. CASE RecvOltUp(c)
  <2>1. /\ \E m \in {"DeviceUpInd", "rd_select"} : ReaderMoves("rd_recv", m, c)
        /\ UNCHANGED active
    BY <1>12 DEF RecvOltUp, ctl
  <2>. QED  BY <2>1, <1>2, <1>6, <1>7
<1>13. CASE RecvOltDown(c)
  <2>1. ReaderMoves("rd_recv", "DeviceDownInd", c) /\ UNCHANGED active
    BY <1>13 DEF RecvOltDown, ctl
  <2>. QED  BY <2>1, <1>2, <1>6, <1>7
<1>14. CASE ReaderReopen(c)
  <2>1. /\ \E m \in {"rd_select", "rd_exit"} : ReaderMoves("rd_recv", m, c)
        /\ UNCHANGED active
    BY <1>14 DEF ReaderReopen, ctl
  <2>. QED  BY <2>1, <1>2, <1>6, <1>7
<1>15. CASE \E l \in {"rd_select", "rd_recv"} : ReaderStop(l, c)
  <2>1. /\ \E l \in {"rd_select", "rd_recv"} : ReaderMoves(l, "rd_exit", c)
        /\ UNCHANGED active
    BY <1>15 DEF ReaderStop
  <2>. QED  BY <2>1, <1>2, <1>6, <1>7
<1>. QED  BY <1>8, <1>9, <1>10, <1>11, <1>12, <1>13, <1>14, <1>15

LEMMA CollectorOwned ==
    ASSUME TypeOK, Next, ColOwned
    PROVE  ColOwned'
<1> /\ col \in [ColLabel -> Nat] /\ active \in [Routine -> BOOLEAN]
    /\ ColLabel = {"start", "run", "exit", "done"}
    /\ "collector" \in Routine /\ "heartbeat" \in Routine /\ "indications" \in Routine
  BY DEF TypeOK, ColLabel, Routine
<1>1. CASE CollectorEnter
  BY <1>1 DEF CollectorEnter, ColOwned, Present, Move
<1>2. CASE CollectorStop
  BY <1>2 DEF CollectorStop, ColOwned, Present, Move
<1>3. CASE CollectorLeave
  BY <1>3 DEF CollectorLeave, ColOwned
<1>4. CASE CollectorDone
  BY <1>4 DEF CollectorDone, ColOwned, Present, Exit, ctl
<1>5. CASE DoStateUp
  BY <1>5 DEF DoStateUp, ColOwned, Present, Spawn, ctl
<1>6. CASE BuildModules
  <2>1. UNCHANGED col \/ col' = Spawn(col, "start")
    BY Zenon, <1>6 DEF BuildModules
  <2>2. UNCHANGED active
    BY <1>6 DEF BuildModules, ctl
  <2>. QED  BY Zenon, <2>1, <2>2 DEF ColOwned, Present, Spawn
<1>7. ASSUME ~CollectorNext, ~DoStateUp, ~BuildModules PROVE ColOwned'
  <2>1. UNCHANGED col
    BY <1>7, CollectorFrame
  <2>2. active'["collector"] = active["collector"]
    <3>1. CASE HandleNext
      BY <3>1, HandleFrame
    <3>2. CASE HeartbeatNext
      BY Zenon, <3>2, HeartbeatFrame DEF ctl, HeartbeatEnter, HeartbeatLeave, HeartbeatStop
    <3>3. CASE ReaderNext
      BY <3>3 DEF ReaderNext, ReaderStart, ReaderEnter, ReaderSelect, ReaderLeave, RecvOltUp,
                  RecvOltDown, ReaderReopen, ReaderStop, ctl
    <3>4. CASE TeardownNext
      BY <3>4, TeardownFrame
    <3>5. CASE RequestNext \/ EnvNext
      <4>1. CASE \E changed \in BOOLEAN : UpdateDevice(changed)
        BY <4>1 DEF UpdateDevice, ctl
      <4>. QED  BY <3>5, <4>1, RequestFrame
    <3>. QED  BY <1>7, <3>1, <3>2, <3>3, <3>4, <3>5 DEF Next
  <2>. QED  BY <2>1, <2>2 DEF ColOwned
<1>. QED  BY <1>1, <1>2, <1>3, <1>4, <1>5, <1>6, <1>7 DEF CollectorNext

(* Everything else leaves the owners of the two other flags alone. *)
LEMMA OthersOwned ==
    ASSUME TypeOK, CollectorNext \/ TeardownNext \/ RequestNext \/ EnvNext, HbOwned, RdOwned
    PROVE  HbOwned' /\ RdOwned'
<1> HbMarked \in SUBSET Point /\ RdMarked \in SUBSET Point
  BY WorkFacts
<1>1. ASSUME \A s \in WorkPoint : at'[s] = at[s], UNCHANGED <<fsm, active>>
      PROVE  HbOwned' /\ RdOwned'
  BY Zenon, <1>1, WorkFacts DEF HbOwned, RdOwned, Someone, Present, fsm
<1>2. CASE CollectorNext
  <2>1. /\ UNCHANGED <<fsm, at>>
        /\ active'["heartbeat"] = active["heartbeat"]
        /\ active'["indications"] = active["indications"]
    BY <1>2 DEF CollectorNext, CollectorEnter, CollectorStop, CollectorLeave, CollectorDone, ctl,
                TypeOK, Routine
  <2>. QED  BY Zenon, <2>1 DEF HbOwned, RdOwned, Someone, fsm
<1>3. CASE TeardownNext
  <2>1. \A s \in HbMarked \cup RdMarked : s \in WorkPoint /\ s[1] # "rb_get"
    BY WorkFacts DEF HbMarked, RdMarked, HbLabel, RdLabel, ReaderTrigger
  <2>2. \A s \in HbMarked \cup RdMarked : at'[s] = at[s]
    BY <1>3, <2>1, TeardownFrame
  <2>3. UNCHANGED <<fsm, active>>
    BY <1>3, TeardownFrame
  <2>. QED  BY Zenon, <2>2, <2>3 DEF HbOwned, RdOwned, Someone, Present, fsm
<1>4. ASSUME NEW changed \in BOOLEAN, UpdateDevice(changed)
      PROVE  HbOwned' /\ RdOwned'
  <2> DEFINE H == HbLabel \ {"hb_start"}
             R == (RdLabel \ {"rd_start", "rd_enter"}) \cup ReaderTrigger
  <2>1. H \in SUBSET WorkLabel /\ R \in SUBSET WorkLabel
    BY DEF WorkLabel
  <2>2. HbMarked = H \X Ctx /\ RdMarked = R \X Ctx
    BY DEF HbMarked, RdMarked
  <2> HIDE DEF H, R
  <2>3. Someone(H \X Ctx, at) => Someone(H \X Ctx, at')
    BY <1>4, <2>1, CancelFrame
  <2>4. Someone(R \X Ctx, at) => Someone(R \X Ctx, at')
    BY <1>4, <2>1, CancelFrame
  <2>5. UNCHANGED active /\ cs'.trig = cs.trig
    BY Zenon, <1>4, <2>1, CancelFrame
  <2>. QED  BY <2>2, <2>3, <2>4, <2>5 DEF HbOwned, RdOwned
<1>5. CASE RequestNext \/ EnvNext
  BY <1>1, <1>4, <1>5, RequestFrame
<1>. QED  BY <1>2, <1>3, <1>5

-------------------------------------------------------------------------------
OwnedInv == TypeInv /\ HbOwned /\ RdOwned /\ ColOwned

(* A set flag isHeartbeatCheckActive, isReadIndicationRoutineActive or     *)
(* isCollectorActive always has a goroutine behind it that will clear it,  *)
(* however many copies of startHeartbeatCheck, readIndications and         *)
(* startCollector run, whatever fails and whoever cancels them.            *)
THEOREM FlagsOwned == Spec => []ActiveHasRoutine
<1>1. Init => HbOwned /\ RdOwned /\ ColOwned
  BY DEF Init, HbOwned, RdOwned, ColOwned, Routine
<1>2. Init => TypeInv
  BY InitTypeInv
<1>3. OwnedInv /\ [Next]_vars => OwnedInv'
  <2> SUFFICES ASSUME OwnedInv, [Next]_vars PROVE OwnedInv'
    OBVIOUS
  <2>1. TypeInv' /\ TypeOK
    BY TypeInvStep DEF OwnedInv, TypeInv
  <2>2. CASE Next
    <3>1. ColOwned'
      BY <2>1, <2>2, CollectorOwned DEF OwnedInv
    <3>2. HbOwned' /\ RdOwned'
      BY <2>1, <2>2, HandleOwned, HeartbeatOwned, ReaderOwned, OthersOwned DEF OwnedInv, Next
    <3>. QED  BY <2>1, <3>1, <3>2 DEF OwnedInv
  <2>3. CASE UNCHANGED vars
    BY <2>1, <2>3 DEF OwnedInv, HbOwned, RdOwned, ColOwned, Someone, vars, fsm, gor, ctl
  <2>. QED  BY <2>2, <2>3
<1>4. OwnedInv => ActiveHasRoutine
  <2> SUFFICES ASSUME OwnedInv, NEW r \in Routine, active[r] PROVE MarkedActive(r)
    BY DEF ActiveHasRoutine
  <2>1. CASE r = "collector"
    BY <2>1 DEF OwnedInv, ColOwned, MarkedActive
  <2>2. CASE r = "heartbeat"
    BY <2>2 DEF OwnedInv, HbOwned, MarkedActive, Someone, HbMarked
  <2>3. CASE r = "indications"
    BY <2>3 DEF OwnedInv, RdOwned, MarkedActive, Someone, RdMarked
  <2>. QED  BY <2>1, <2>2, <2>3 DEF Routine
<1>. QED  BY <1>1, <1>2, <1>3, <1>4, PTL DEF Spec, OwnedInv

-------------------------------------------------------------------------------
(* doStateUp is run by a reader. *)
UpByReader == cs.step = "up" => cs.trig \in ReaderTrigger

LEMMA UpByReaderStep ==
    ASSUME TypeOK, Next, UpByReader
    PROVE  UpByReader'
<1>1. ASSUME cs'.step # "up" \/ cs'.trig \in ReaderTrigger PROVE UpByReader'
  BY <1>1 DEF UpByReader
<1>2. ASSUME cs' = Idle \/ \E step, mode : NextStep(step, mode) /\ step # "up"
      PROVE  UpByReader'
  BY SMTT(30), <1>1, <1>2 DEF Idle, NextStep
<1>3. CASE HandleNext
  <2>1. HandlerError => UpByReader'
    BY <1>2 DEF HandlerError
  <2>2. \A spawned : HandlerDone(spawned) => UpByReader'
    BY <1>2 DEF HandlerDone
  <2>3. InitFailed => UpByReader'
    BY <2>1, <2>2 DEF InitFailed
  <2>4. ASSUME NEW trig \in Trigger, NEW c \in Ctx, HandleEnter(trig, c) PROVE UpByReader'
    <3>1. cs'.step = Before[trig] /\ cs'.trig = trig
      BY Zenon, <2>4 DEF HandleEnter
    <3>2. CASE trig \in ReaderTrigger
      BY <3>1, <3>2, <1>1
    <3>3. CASE trig \in {"DeviceInit", "GrpcDisconnected", "GrpcConnected"}
      <4>1. /\ Before["DeviceInit"] = "dial" /\ Before["GrpcDisconnected"] = "dial"
            /\ Before["GrpcConnected"] = "connected"
        BY DEF Before
      <4>2. Before[trig] # "up"
        BY <3>3, <4>1
      <4>. QED  BY Zenon, <3>1, <4>2, <1>1
    <3>. QED  BY <3>2, <3>3 DEF Trigger, ReaderTrigger
  <2>5. ASSUME NEW trig \in Trigger, NEW c \in Ctx, HandleReject(trig, c) PROVE UpByReader'
    BY Zenon, <2>5 DEF HandleReject, fsm, UpByReader
  <2>6. CASE DoStateInit
    BY <2>6, <2>1, <2>2 DEF DoStateInit
  <2>7. CASE DoStateConnected
    BY <2>7, <2>1, <1>2 DEF DoStateConnected
  <2>8. CASE PopulateDeviceInfo
    <3>1. InitFailed \/ NextStep("wait", cs.mode) \/ NextStep("build", cs.mode)
      BY <2>8 DEF PopulateDeviceInfo
    <3>. QED  BY <3>1, <2>3, <1>2
  <2>9. CASE CollectorWait \/ DoStateUp \/ UpRLock
    BY <2>9, <1>2 DEF CollectorWait, DoStateUp, UpRLock
  <2>10. CASE BuildModules
    <3>1. \/ InitFailed
          \/ \E spawned : HandlerDone(spawned)
          \/ cs' = [trig |-> cs.trig, step |-> "upDone", ctx |-> cs.ctx, mode |-> cs.mode]
      BY <2>10 DEF BuildModules
    <3>2. ASSUME cs' = [trig |-> cs.trig, step |-> "upDone", ctx |-> cs.ctx, mode |-> cs.mode]
          PROVE  UpByReader'
      BY <3>2, <1>1
    <3>. QED  BY Zenon, <3>1, <3>2, <2>2, <2>3
  <2>11. CASE UpSendStop
    <3>1. \A step \in DOMAIN UpStopSend : UpStopSend[step].next # "up"
      BY SMTT(30) DEF UpStopSend
    <3>. QED  BY Zenon, <2>11, <3>1, <1>2 DEF UpSendStop
  <2>12. CASE UpGetDevice
    <3>1. HandlerError \/ NextStep("upStop", "reconcile") \/ NextStep("upDone", "reconcile")
      BY <2>12 DEF UpGetDevice
    <3>. QED  BY <3>1, <2>1, <1>2
  <2>13. CASE UpCleanup
    BY <2>13, <2>1, <1>2 DEF UpCleanup
  <2>14. CASE UpReport
    BY <2>14, <2>1, <2>2 DEF UpReport
  <2>15. CASE DoStateDown
    BY <2>15, <2>1, <2>2 DEF DoStateDown
  <2>. QED  BY <1>3, <2>4, <2>5, <2>6, <2>7, <2>8, <2>9, <2>10, <2>11, <2>12, <2>13, <2>14, <2>15
            DEF HandleNext
<1>4. ASSUME UNCHANGED fsm PROVE UpByReader'
  BY <1>4 DEF UpByReader, fsm
<1>5. CASE CollectorNext
  BY <1>4, <1>5 DEF CollectorNext, CollectorEnter, CollectorStop, CollectorLeave, CollectorDone
<1>6. CASE HeartbeatNext
  BY Zenon, <1>4, <1>6, HeartbeatFrame
<1>7. CASE ReaderNext
  BY <1>4, <1>7 DEF ReaderNext, ReaderStart, ReaderEnter, ReaderSelect, ReaderLeave, RecvOltUp,
                    RecvOltDown, ReaderReopen, ReaderStop
<1>8. CASE TeardownNext
  BY <1>4, <1>8, TeardownFrame
<1>9. CASE RequestNext \/ EnvNext
  <2>1. ASSUME NEW changed \in BOOLEAN, UpdateDevice(changed) PROVE UpByReader'
    BY <2>1 DEF UpdateDevice, UpByReader
  <2>. QED  BY <1>4, <1>9, <2>1, RequestFrame
<1>. QED  BY <1>3, <1>5, <1>6, <1>7, <1>8, <1>9 DEF Next

(* Nothing takes the built managers away. *)
LEMMA ReadyStays ==
    ASSUME TypeOK, Next, ready
    PROVE  ready'
<1>1. CASE HandleNext
  <2>1. CASE \E trig \in Trigger, c \in Ctx : HandleEnter(trig, c) \/ HandleReject(trig, c)
    BY Zenon, <2>1 DEF HandleEnter, HandleReject, mem
  <2>2. CASE DoStateInit \/ DoStateConnected \/ PopulateDeviceInfo
    BY Zenon, <2>2 DEF DoStateInit, DoStateConnected, PopulateDeviceInfo
  <2>3. CASE BuildModules
    BY Zenon, <2>3 DEF BuildModules
  <2>4. CASE CollectorWait \/ DoStateUp \/ UpRLock \/ UpSendStop
    BY Zenon, <2>4 DEF CollectorWait, DoStateUp, UpRLock, UpSendStop, mem
  <2>5. CASE UpGetDevice \/ UpCleanup \/ UpReport \/ DoStateDown
    BY Zenon, <2>5 DEF UpGetDevice, UpCleanup, UpReport, DoStateDown, mem
  <2>. QED  BY <1>1, <2>1, <2>2, <2>3, <2>4, <2>5 DEF HandleNext
<1>2. CASE CollectorNext
  BY Zenon, <1>2 DEF CollectorNext, CollectorEnter, CollectorStop, CollectorLeave, CollectorDone, mem
<1>3. CASE HeartbeatNext
  <2> PICK c \in Ctx :
        \/ HeartbeatEnter(c) \/ ReportTimer(c) \/ OrphanTimer(c)
        \/ HeartbeatStore(c) \/ HeartbeatLeave(c)
        \/ \E l \in HbWaiting : \/ HeartbeatTick(l, c) \/ HeartbeatFail(l, c) \/ HeartbeatOk(l, c)
                               \/ HeartbeatRebooted(l, c) \/ HeartbeatStop(l, c)
    BY <1>3 DEF HeartbeatNext
  <2>1. CASE HeartbeatEnter(c) \/ ReportTimer(c) \/ OrphanTimer(c)
    BY Zenon, <2>1 DEF HeartbeatEnter, ReportTimer, OrphanTimer, mem
  <2>2. CASE HeartbeatStore(c) \/ HeartbeatLeave(c)
    BY Zenon, <2>2 DEF HeartbeatStore, HeartbeatLeave, mem
  <2>3. ASSUME NEW l \in HbWaiting, HeartbeatTick(l, c) \/ HeartbeatFail(l, c) PROVE ready'
    BY Zenon, <2>3 DEF HeartbeatTick, HeartbeatFail, mem
  <2>4. ASSUME NEW l \in HbWaiting,
               HeartbeatOk(l, c) \/ HeartbeatRebooted(l, c) \/ HeartbeatStop(l, c)
        PROVE  ready'
    BY Zenon, <2>4 DEF HeartbeatOk, HeartbeatRebooted, HeartbeatStop, mem
  <2>. QED  BY <2>1, <2>2, <2>3, <2>4
<1>4. CASE ReaderNext
  BY Zenon, <1>4 DEF ReaderNext, ReaderStart, ReaderEnter, ReaderSelect, ReaderLeave, RecvOltUp,
              RecvOltDown, ReaderReopen, ReaderStop, mem
<1>5. CASE TeardownNext
  BY Zenon, <1>5, TeardownFrame
<1>6. CASE RequestNext \/ EnvNext
  <2>1. ASSUME NEW changed \in BOOLEAN, UpdateDevice(changed) PROVE ready'
    BY <2>1 DEF UpdateDevice, mem
  <2>. QED  BY Zenon, <1>6, <2>1, RequestFrame
<1>. QED  BY <1>1, <1>2, <1>3, <1>4, <1>5, <1>6 DEF Next

(* Before the managers are built nobody runs or waits to run a routine. *)
Quiet == /\ \A s \in WorkPoint : at[s] = 0
         /\ cs.trig \notin ReaderTrigger
         /\ \A l \in ColLabel : col[l] = 0

(* The routines themselves cannot take a step then. *)
LEMMA QuietRoutines ==
    ASSUME Quiet
    PROVE  ~HeartbeatNext /\ ~ReaderNext /\ ~CollectorNext
<1>1. \A l \in WorkLabel, c \in Ctx : ~Present(at, <<l, c>>)
  BY DEF Quiet, WorkPoint, Present
<1>2. /\ {"hb_start", "hb_pending", "hb_rpc_pending", "hb_sig", "hb_exit", "orphan_timer",
          "rd_start", "rd_enter", "rd_select", "rd_recv", "rd_exit"} \subseteq WorkLabel
      /\ \A l \in HbWaiting : l \in WorkLabel /\ HbRpc[l] \in WorkLabel
  BY LabelFacts DEF WorkLabel, HbLabel, RdLabel
<1>3. ~CollectorNext
  BY DEF Quiet, ColLabel, Present, CollectorNext, CollectorEnter, CollectorStop, CollectorLeave,
         CollectorDone
<1>4. ASSUME NEW c \in Ctx
      PROVE  ~(\/ ReaderStart(c) \/ ReaderEnter(c) \/ ReaderSelect(c) \/ ReaderLeave(c)
               \/ RecvOltUp(c) \/ RecvOltDown(c) \/ ReaderReopen(c)
               \/ \E l \in {"rd_select", "rd_recv"} : ReaderStop(l, c))
  <2>1. \A l \in {"rd_start", "rd_enter", "rd_select", "rd_recv", "rd_exit"} :
           ~Present(at, <<l, c>>)
    BY <1>1, <1>2
  <2>. QED  BY Zenon, <2>1 DEF ReaderStart, ReaderEnter, ReaderSelect, ReaderLeave, RecvOltUp, RecvOltDown,
                        ReaderReopen, ReaderStop, ReaderMoves
<1>5. ASSUME NEW c \in Ctx
      PROVE  ~(\/ HeartbeatEnter(c) \/ ReportTimer(c) \/ OrphanTimer(c)
               \/ HeartbeatStore(c) \/ HeartbeatLeave(c))
  <2>1. ~ReportTimer(c)
    <3>1. ~Present(at, <<"hb_pending", c>>) /\ ~Present(at, <<"hb_rpc_pending", c>>)
      BY <1>1, <1>2
    <3>. QED  BY <3>1 DEF ReportTimer
  <2>. QED  BY <2>1, <1>1, <1>2 DEF HeartbeatEnter, OrphanTimer, HeartbeatStore, HeartbeatLeave
<1>6. ASSUME NEW c \in Ctx, NEW l \in HbWaiting
      PROVE  ~(\/ HeartbeatTick(l, c) \/ HeartbeatFail(l, c) \/ HeartbeatOk(l, c)
               \/ HeartbeatRebooted(l, c) \/ HeartbeatStop(l, c))
  <2>1. ~Present(at, <<l, c>>) /\ ~Present(at, <<HbRpc[l], c>>)
    BY <1>1, <1>2
  <2>. QED  BY Zenon, <2>1 DEF HeartbeatTick, HeartbeatFail, HeartbeatOk, HeartbeatRebooted, HeartbeatStop
<1>. QED  BY <1>3, <1>4, <1>5, <1>6 DEF HeartbeatNext, ReaderNext

(* A handler wakes the routines only after it has built the managers. *)
LEMMA QuietHandle ==
    ASSUME TypeOK, HandleNext, UpByReader, Quiet
    PROVE  ready' \/ Quiet'
<1> at \in [Point -> Nat] /\ cs.ctx \in Ctx
  BY DEF TypeOK
<1> WorkPoint \in SUBSET Point
  BY WorkFacts
<1>1. ready' \/ \A l \in ColLabel : col'[l] = 0
  <2>1. ~DoStateUp
    BY DEF Quiet, UpByReader, DoStateUp
  <2>2. CASE BuildModules
    <3>1. ready' \/ UNCHANGED col
      BY Zenon, <2>2 DEF BuildModules
    <3>. QED  BY <3>1 DEF Quiet
  <2>3. CASE ~BuildModules
    <3>1. ~CollectorNext
      BY QuietRoutines
    <3>2. UNCHANGED col
      BY <2>1, <2>3, <3>1, CollectorFrame DEF Next
    <3>. QED  BY <3>2 DEF Quiet
  <2>. QED  BY <2>2, <2>3
<1>2. ASSUME \A s \in WorkPoint : at'[s] = at[s], cs'.trig \notin ReaderTrigger
      PROVE  ready' \/ Quiet'
  <2>1. \A s \in WorkPoint : at'[s] = 0
    BY <1>2 DEF Quiet
  <2>. QED  BY <2>1, <1>1, <1>2 DEF Quiet
<1>3. Idle.trig \notin ReaderTrigger
  BY Zenon DEF Idle, ReaderTrigger
<1>4. ASSUME NEW trig \in Trigger, NEW c \in Ctx, HandleEnter(trig, c) \/ HandleReject(trig, c)
      PROVE  ready' \/ Quiet'
  <2>1. <<trig, c>> \in Point
    BY PointFacts
  <2>2. Present(at, <<trig, c>>)
    BY Zenon, <1>4 DEF HandleEnter, HandleReject
  <2>3. <<trig, c>> \notin WorkPoint
    BY <2>2 DEF Quiet, Present
  <2>4. trig \notin ReaderTrigger
    BY Zenon, <2>3 DEF WorkPoint, WorkLabel
  <2>5. at' = Exit(at, <<trig, c>>) /\ cs'.trig \in {trig, Idle.trig}
    <3>1. CASE HandleEnter(trig, c)
      BY Zenon, <3>1 DEF HandleEnter
    <3>2. CASE HandleReject(trig, c)
      <4>1. at' = Resume(Exit(at, <<trig, c>>), trig, c) /\ cs' = Idle
        BY Zenon, <3>2 DEF HandleReject, fsm
      <4>. QED  BY <2>4, <4>1 DEF Resume
    <3>. QED  BY <1>4, <3>1, <3>2
  <2>6. ASSUME NEW s \in WorkPoint PROVE at'[s] = at[s]
    <3>1. s \in Point /\ s # <<trig, c>>
      BY <2>3
    <3>. QED  BY <2>1, <2>5, <3>1 DEF Exit
  <2>. QED  BY <2>4, <2>5, <2>6, <1>2, <1>3
<1>5. CASE Stays
  BY Zenon, <1>2, <1>5 DEF Stays, Quiet
<1>6. ASSUME NEW spawned, Returned(spawned), spawned \cap WorkLabel = {}
      PROVE  ready' \/ Quiet'
  <2>1. cs' = Idle /\ \A s \in Point : s[1] \notin spawned => at'[s] = at[s]
    BY Zenon, <1>6 DEF Returned, Quiet
  <2>2. \A s \in WorkPoint : s[1] \in WorkLabel
    BY DEF WorkPoint
  <2>3. \A s \in WorkPoint : at'[s] = at[s]
    BY <1>6, <2>1, <2>2
  <2>. QED  BY Zenon, <2>1, <2>3, <1>2, <1>3
<1>. QED  BY Zenon, <1>4, <1>5, <1>6, HandlerOutcome

(* Nobody else wakes them. *)
LEMMA QuietOthers ==
    ASSUME TypeOK, TeardownNext \/ RequestNext \/ EnvNext, Quiet
    PROVE  Quiet'
<1> at \in [Point -> Nat] /\ at' \in [Point -> Nat]
  BY AtTypeStep DEF TypeOK, AtType, Next
<1> WorkPoint \in SUBSET Point
  BY Zenon, WorkFacts
<1>1. CASE TeardownNext
  <2>1. /\ \A s \in WorkPoint : at'[s] = at[s] \/ at'[s] <= at[s]
        /\ UNCHANGED <<fsm, col>>
    BY <1>1, TeardownFrame
  <2>2. \A s \in WorkPoint : at[s] = 0 /\ at'[s] \in Nat
    BY DEF Quiet
  <2>3. \A s \in WorkPoint : at'[s] = 0
    BY <2>1, <2>2
  <2>. QED  BY <2>1, <2>3 DEF Quiet, fsm
<1>2. ASSUME NEW changed \in BOOLEAN, UpdateDevice(changed) PROVE Quiet'
  <2>1. \A s \in WorkLabel \X Ctx : at[s] = 0
    BY DEF Quiet, WorkPoint
  <2>2. WorkLabel \in SUBSET WorkLabel
    OBVIOUS
  <2>3. /\ \A s \in WorkLabel \X Ctx : at'[s] = 0
        /\ cs'.trig = cs.trig /\ UNCHANGED col
    BY Zenon, <1>2, <2>1, <2>2, CancelFrame
  <2>. QED  BY <2>3 DEF Quiet, WorkPoint
<1>3. CASE RequestNext \/ EnvNext
  <2>1. CASE ~\E changed \in BOOLEAN : UpdateDevice(changed)
    <3>1. (\A s \in WorkPoint : at'[s] = at[s]) /\ UNCHANGED <<fsm, col>>
      BY <1>3, <2>1, RequestFrame
    <3>. QED  BY <3>1 DEF Quiet, fsm
  <2>. QED  BY <1>2, <2>1
<1>. QED  BY <1>1, <1>3

ReadyInv == TypeInv /\ UpByReader /\ (ready \/ Quiet)

(* startHeartbeatCheck, readIndications and startCollector never run       *)
(* before initializeDeviceHandlerModules has completed, for an adopted and *)
(* a reconciled device, whatever fails during its first initialisations:   *)
(* none of them finds a manager missing.                                   *)
THEOREM ManagersFirst == Spec => []RoutinesAfterInit
<1>1. Init => TypeInv /\ UpByReader /\ Quiet
  <2> SUFFICES ASSUME Init PROVE TypeInv /\ UpByReader /\ Quiet
    OBVIOUS
  <2>1. /\ at = [p \in Point |-> IF p = <<"DeviceInit", "live">> THEN 1 ELSE 0]
        /\ cs = Idle
        /\ \A l \in ColLabel : col[l] = 0
    BY DEF Init
  <2>2. <<"DeviceInit", "live">> \notin WorkPoint
    BY DEF WorkPoint, WorkLabel, HbLabel, RdLabel, ReaderTrigger
  <2>3. \A s \in WorkPoint : at[s] = 0
    BY <2>1, <2>2, WorkFacts
  <2>. QED  BY <2>1, <2>3, InitTypeInv DEF UpByReader, Quiet, Idle, ReaderTrigger
<1>2. ReadyInv /\ [Next]_vars => ReadyInv'
  <2> SUFFICES ASSUME ReadyInv, [Next]_vars PROVE ReadyInv'
    OBVIOUS
  <2>1. TypeInv' /\ TypeOK
    BY TypeInvStep DEF ReadyInv, TypeInv
  <2>2. CASE Next
    <3>1. UpByReader'
      BY <2>1, <2>2, UpByReaderStep DEF ReadyInv
    <3>2. CASE ready
      BY <2>1, <2>2, <3>1, <3>2, ReadyStays DEF ReadyInv
    <3>3. CASE Quiet
      BY <2>1, <2>2, <3>1, <3>3, QuietRoutines, QuietHandle, QuietOthers DEF ReadyInv, Next
    <3>. QED  BY <3>2, <3>3 DEF ReadyInv
  <2>3. CASE UNCHANGED vars
    BY <2>1, <2>3 DEF ReadyInv, UpByReader, Quiet, vars, fsm, gor, mem
  <2>. QED  BY <2>2, <2>3
<1>3. ReadyInv => RoutinesAfterInit
  <2> SUFFICES ASSUME ReadyInv, ~ready PROVE RoutinesAfterInit
    BY DEF RoutinesAfterInit
  <2>1. \A l \in WorkLabel, c \in Ctx : ~Present(at, <<l, c>>)
    BY DEF ReadyInv, Quiet, WorkPoint, Present
  <2>2. \A l \in ColLabel : ~Present(col, l)
    BY DEF ReadyInv, Quiet, Present
  <2>. QED  BY <2>1, <2>2 DEF RoutinesAfterInit, WorkLabel
<1>. QED  BY <1>1, <1>2, <1>3, PTL DEF Spec, ReadyInv
===============================================================================

------------------------------ MODULE OnuIdProofs ------------------------------
(***************************************************************************)
(* Ids of ONUs have one owner.  DeviceIdHeld, that the id of a device the  *)
(* core keeps is not free, is not inductive: FreeonuID is called by a      *)
(* discovery that failed and by ChildDeviceLost, and nothing in it says    *)
(* that the id they free is not that of a device.  What makes it so is     *)
(* that an id that is not free has at most one owner: the discovery that   *)
(* took it and has not passed it to the core, the device, or the call that *)
(* cleans up after the device.  The first part is about the types, and     *)
(* what the fields mean at each point of a discovery and of a              *)
(* ChildDeviceLost call.                                                   *)
(***************************************************************************)
EXTENDS OnuDiscovery, TLAPS

Routine ==
    {r \in [pc : Pc, sn : Sns \cup {None}, id : OnuIds \cup {None}] :
        /\ r.pc # "idle" => r.sn \in Sns
        /\ r.pc \in {"detect", "client", "state", "gem", "activate", "up", "down"} =>
              r.id \in OnuIds}

LostCall ==
    {c \in [pc : {"away", "gem", "delete", "free", "forget"},
            pon : Pons \cup {None}, id : OnuIds \cup {None}] :
        c.pc # "away" => c.pon \in Pons /\ c.id \in OnuIds}

Indication == [kind : {"disc"}, sn : Sns, id : {None}] \cup
              [kind : {"up", "down"}, sn : Sns, id : OnuIds]

Setting == [check : {"off", "device", "techprofile"},
            kinds : {sc.kinds : sc \in Scenarios}, left : Nat]

Onu == [pon : Pons, id : OnuIds, sn : Sns, st : {"idle", "ranging", "up"}]

(* TypeOK with what the fields mean at each point of a discovery and of a  *)
(* ChildDeviceLost call.                                                   *)
Typed ==
    /\ discOnus \in [Sns -> {"none", "inProcess", "completed"}]
    /\ onus \in [Keys -> Sns \cup {None}] /\ gemInfo \in [Keys -> Sns \cup {None}]
    /\ pool \in [Pons -> SUBSET OnuIds] /\ tp \subseteq Keys
    /\ recon \subseteq Sns
    /\ core \in [Sns -> {None} \cup Device]
    /\ olt \subseteq Onu
    /\ attach \in [Sns -> Pons \cup {None}] /\ child \in [Sns -> {"up", "down"}]
    /\ routine \in [Pons -> Routine] /\ lost \in [Sns -> LostCall]
    /\ queue \in [Pons -> Seq(Indication)]
    /\ scenario \in Setting

-------------------------------------------------------------------------------
(* The steps of the definitions every action is made of. *)

LEMMA FaultTyped ==
    ASSUME Typed, NEW kind, Fault(kind)
    PROVE  scenario' \in Setting
<1>1. scenario \in Setting /\ scenario.left \in Nat /\ scenario.left > 0
  BY DEF Typed, Fault, Setting
<1>2. scenario' = [scenario EXCEPT !.left = scenario.left - 1] /\ scenario.left - 1 \in Nat
  BY <1>1 DEF Fault
<1>. QED  BY <1>1, <1>2 DEF Setting

LEMMA PutTyped ==
    ASSUME Typed, NEW p \in Pons, NEW ind \in Indication, Put(p, ind)
    PROVE  queue' \in [Pons -> Seq(Indication)]
BY DEF Typed, Put

LEMMA GotoTyped ==
    ASSUME Typed, NEW p \in Pons, NEW pc \in Pc, Goto(p, pc),
           pc # "idle" => routine[p].sn \in Sns,
           pc \in {"detect", "client", "state", "gem", "activate", "up", "down"} =>
              routine[p].id \in OnuIds
    PROVE  routine' \in [Pons -> Routine]
<1>1. routine[p] \in Routine /\ routine \in [Pons -> Routine]
  BY DEF Typed
<1>2. Idle \in Routine
  BY DEF Idle, Routine, Pc
<1>3. [routine[p] EXCEPT !.pc = pc] \in Routine \/ pc = "idle"
  BY <1>1 DEF Routine
<1>. QED  BY <1>1, <1>2, <1>3 DEF Goto

LEMMA GotoWithTyped ==
    ASSUME Typed, NEW p \in Pons, NEW pc \in Pc, NEW id \in OnuIds,
           GotoWith(p, pc, id), routine[p].sn \in Sns
    PROVE  /\ routine' \in [Pons -> Routine]
           /\ routine'[p].pc = pc /\ routine'[p].id = id
           /\ \A q \in Pons \ {p} : routine'[q] = routine[q]
<1>1. routine \in [Pons -> Routine] /\ routine[p] \in Routine
  BY DEF Typed
<1>2. ASSUME NEW r \in Routine, r.sn \in Sns
      PROVE  /\ [r EXCEPT !.pc = pc, !.id = id] \in Routine
             /\ [r EXCEPT !.pc = pc, !.id = id].pc = pc
             /\ [r EXCEPT !.pc = pc, !.id = id].id = id
  BY <1>2, Zenon DEF Routine
<1>. QED  BY <1>1, <1>2, Zenon DEF GotoWith

LEMMA ReturnTyped ==
    ASSUME Typed, NEW p \in Pons, Return(p)
    PROVE  routine' \in [Pons -> Routine]
<1>1. Idle \in Routine
  BY DEF Idle, Routine, Pc
<1>. QED  BY <1>1 DEF Return, Typed

(* A step leaves the scenario alone or uses up one external event. *)
LEMMA NextFault == ASSUME Next PROVE scenario' = scenario \/ \E kind : Fault(kind)
<1>1. ASSUME NEW p \in Pons, RoutineStep(p) PROVE scenario' = scenario \/ \E kind : Fault(kind)
  BY <1>1, Zenon DEF RoutineStep, TakeIndication, CheckDevice, CheckTechProfile, LoadOrStore,
              GetChildDevice, GetONUID, SendChildDeviceDetected, CacheOnu, UpdateOnuDeviceState,
              AddNewOnuGemInfo, ActivateOnu, Completed, OnuIndication, UpdateOnuStates, env
<1>2. ASSUME NEW s \in Sns, LostStep(s) \/ ReconcileOnu(s)
      PROVE  scenario' = scenario \/ \E kind : Fault(kind)
  BY <1>2 DEF LostStep, LostClearData, LostDeleteOnu, LostFreeId, LostForget, ReconcileOnu, env
<1>3. ASSUME NEW s \in Sns, \/ OltDiscovers(s) \/ OnuDisabled(s) \/ CoreDeletes(s)
                            \/ CoreForgets(s) \/ \E p \in Pons : Replug(s, p)
      PROVE  scenario' = scenario \/ \E kind : Fault(kind)
  BY <1>3 DEF OltDiscovers, OnuDisabled, CoreDeletes, CoreForgets, Replug, env
<1>4. CASE OltStep \/ DisableDevice \/ Restart \/ \E k \in Keys : StoreTechProfile(k)
  BY <1>4, Zenon DEF OltStep, OltRanges, OltReportsDown, DisableDevice, Restart, StoreTechProfile
<1>. QED  BY <1>1, <1>2, <1>3, <1>4 DEF Next

LEMMA NextScenario == ASSUME Typed, Next PROVE scenario' \in Setting
BY NextFault, FaultTyped DEF Typed

LEMMA TakeIndicationTyped ==
    ASSUME Typed, scenario' \in Setting, NEW p \in Pons, TakeIndication(p)
    PROVE  Typed'
<1>1. queue[p] \in Seq(Indication) /\ queue[p] # <<>>
  BY DEF TakeIndication, Typed
<1>2. Head(queue[p]) \in Indication /\ Tail(queue[p]) \in Seq(Indication)
  BY <1>1
<1>3. routine' \in [Pons -> Routine]
  BY <1>2 DEF TakeIndication, Typed, Indication, Routine, Pc, ExistenceCheck
<1>4. queue' \in [Pons -> Seq(Indication)]
  BY <1>2 DEF TakeIndication, Typed
<1>. QED
  BY <1>3, <1>4 DEF TakeIndication, Typed, adapter, env

LEMMA CheckDeviceTyped ==
    ASSUME Typed, scenario' \in Setting, NEW p \in Pons, CheckDevice(p)
    PROVE  Typed'
<1>1. routine[p] \in Routine /\ routine[p].pc = "check"
  BY DEF CheckDevice, At, Typed
<1>2. routine' \in [Pons -> Routine]
  BY <1>1, GotoTyped, ReturnTyped DEF CheckDevice, Routine, Pc
<1>. QED
  BY <1>2 DEF CheckDevice, Typed, adapter, env

LEMMA CheckTechProfileTyped ==
    ASSUME Typed, scenario' \in Setting, NEW p \in Pons, CheckTechProfile(p)
    PROVE  Typed'
<1>1. routine[p] \in Routine /\ routine[p].pc = "check"
  BY DEF CheckTechProfile, At, Typed
<1>2. routine' \in [Pons -> Routine]
  BY <1>1, GotoTyped, ReturnTyped, Zenon DEF CheckTechProfile, Routine, Pc
<1>3. onus' \in [Keys -> Sns \cup {None}]
  BY <1>1, Zenon DEF CheckTechProfile, Typed, Keys, Routine, Device
<1>. QED
  BY <1>2, <1>3 DEF CheckTechProfile, Typed, adapter, env

LEMMA LoadOrStoreTyped ==
    ASSUME Typed, scenario' \in Setting, NEW p \in Pons, LoadOrStore(p)
    PROVE  Typed'
<1>1. routine[p] \in Routine /\ routine[p].pc = "load"
  BY DEF LoadOrStore, At, Typed
<1>2. routine' \in [Pons -> Routine]
  BY <1>1, GotoTyped DEF LoadOrStore, Routine, Pc
<1>. QED
  BY <1>2, Zenon DEF LoadOrStore, Typed, adapter, env

LEMMA GetChildDeviceTyped ==
    ASSUME Typed, scenario' \in Setting, NEW p \in Pons, GetChildDevice(p)
    PROVE  Typed'
<1>1. routine[p].sn \in Sns /\ routine[p].pc = "get"
  BY DEF GetChildDevice, At, Typed, Routine
<1>2. core[routine[p].sn] # None => core[routine[p].sn].id \in OnuIds
  BY <1>1 DEF Typed, Device
<1>3. routine' \in [Pons -> Routine]
  BY <1>1, <1>2, GotoWithTyped, GotoTyped, ReturnTyped DEF GetChildDevice, Pc
<1>. QED
  BY <1>3 DEF GetChildDevice, Typed, adapter, env, Forget

LEMMA GetONUIDTyped == ASSUME Typed, scenario' \in Setting, NEW p \in Pons, GetONUID(p) PROVE Typed'
<1>1. routine[p].sn \in Sns /\ routine[p].pc = "id"
  BY DEF GetONUID, At, Typed, Routine
<1>2. \A id \in pool[p] : id \in OnuIds
  BY DEF Typed
<1>3. routine' \in [Pons -> Routine]
  BY <1>1, <1>2, GotoWithTyped, ReturnTyped DEF GetONUID, Pc
<1>4. pool \in [Pons -> SUBSET OnuIds]
  BY DEF Typed
<1>5. \A id \in pool[p] : [pool EXCEPT ![p] = @ \ {id}] \in [Pons -> SUBSET OnuIds]
  BY <1>4
<1>6. pool' = pool \/ \E id \in pool[p] : pool' = [pool EXCEPT ![p] = @ \ {id}]
  BY DEF GetONUID
<1>7. pool' \in [Pons -> SUBSET OnuIds]
  BY <1>4, <1>5, <1>6
<1>8. discOnus' \in [Sns -> {"none", "inProcess", "completed"}]
  BY Zenon DEF GetONUID, Typed, Forget
<1>. QED
  BY <1>3, <1>7, <1>8 DEF GetONUID, Typed, adapter, env, Forget

LEMMA SendChildDeviceDetectedTyped ==
    ASSUME Typed, scenario' \in Setting, NEW p \in Pons, SendChildDeviceDetected(p)
    PROVE  Typed'
<1>1. routine[p].pc = "detect" /\ routine[p].sn \in Sns /\ routine[p].id \in OnuIds
  BY DEF SendChildDeviceDetected, At, Typed, Routine
<1>2. routine' \in [Pons -> Routine]
  BY <1>1, GotoTyped, ReturnTyped DEF SendChildDeviceDetected, Pc
<1>3. \/ core' = core
      \/ core' = [core EXCEPT ![routine[p].sn] = [pon |-> p, id |-> routine[p].id, del |-> FALSE]]
  BY DEF SendChildDeviceDetected
<1>4. core \in [Sns -> {None} \cup Device] /\ pool \in [Pons -> SUBSET OnuIds]
  BY DEF Typed
<1>5. [pon |-> p, id |-> routine[p].id, del |-> FALSE] \in Device
  BY <1>1 DEF Device
<1>6. core' \in [Sns -> {None} \cup Device]
  BY <1>3, <1>4, <1>5
<1>7. pool' = pool \/ pool' = [pool EXCEPT ![p] = @ \cup {routine[p].id}]
  BY DEF SendChildDeviceDetected, Free
<1>8. pool[p] \cup {routine[p].id} \in SUBSET OnuIds
  BY <1>1, <1>4
<1>9. pool' \in [Pons -> SUBSET OnuIds]
  BY <1>4, <1>7, <1>8
<1>10. discOnus' \in [Sns -> {"none", "inProcess", "completed"}]
  BY <1>1 DEF SendChildDeviceDetected, Forget, Typed
<1>. QED
  BY <1>2, <1>6, <1>9, <1>10 DEF SendChildDeviceDetected, Typed, adapter, env

LEMMA CacheOnuTyped == ASSUME Typed, scenario' \in Setting, NEW p \in Pons, CacheOnu(p) PROVE Typed'
<1>1. routine[p].pc = "client" /\ routine[p].sn \in Sns /\ routine[p].id \in OnuIds
  BY DEF CacheOnu, At, Typed, Routine
<1>2. routine' \in [Pons -> Routine]
  BY <1>1, GotoTyped, ReturnTyped DEF CacheOnu, Pc
<1>3. onus' \in [Keys -> Sns \cup {None}]
  BY <1>1, Zenon DEF CacheOnu, Keys, Typed
<1>. QED
  BY <1>2, <1>3 DEF CacheOnu, Typed, adapter, env

LEMMA UpdateOnuDeviceStateTyped ==
    ASSUME Typed, scenario' \in Setting, NEW p \in Pons, UpdateOnuDeviceState(p)
    PROVE  Typed'
<1>1. routine[p].pc = "state" /\ routine[p].sn \in Sns /\ routine[p].id \in OnuIds
  BY DEF UpdateOnuDeviceState, At, Typed, Routine
<1>2. routine' \in [Pons -> Routine]
  BY <1>1, GotoTyped, ReturnTyped DEF UpdateOnuDeviceState, Pc
<1>. QED
  BY <1>2 DEF UpdateOnuDeviceState, Typed, adapter, env

LEMMA AddNewOnuGemInfoTyped ==
    ASSUME Typed, scenario' \in Setting, NEW p \in Pons, AddNewOnuGemInfo(p)
    PROVE  Typed'
<1>1. routine[p].pc = "gem" /\ routine[p].sn \in Sns /\ routine[p].id \in OnuIds
  BY DEF AddNewOnuGemInfo, At, Typed, Routine
<1>2. routine' \in [Pons -> Routine]
  BY <1>1, GotoTyped, ReturnTyped DEF AddNewOnuGemInfo, Pc
<1>3. gemInfo' = gemInfo \/ gemInfo' = [gemInfo EXCEPT ![<<p, routine[p].id>>] = routine[p].sn]
  BY DEF AddNewOnuGemInfo
<1>4. gemInfo' \in [Keys -> Sns \cup {None}]
  BY <1>1, <1>3, Zenon DEF Keys, Typed
<1>. QED
  BY <1>2, <1>4 DEF AddNewOnuGemInfo, Typed, adapter, env

LEMMA ActivateOnuTyped ==
    ASSUME Typed, scenario' \in Setting, NEW p \in Pons, ActivateOnu(p)
    PROVE  Typed'
<1>1. routine[p].pc = "activate" /\ routine[p].sn \in Sns /\ routine[p].id \in OnuIds
  BY DEF ActivateOnu, At, Typed, Routine
<1>2. routine' \in [Pons -> Routine]
  BY <1>1, GotoTyped, ReturnTyped DEF ActivateOnu, Pc
<1>3. olt' \subseteq Onu
  <2>1. olt' \subseteq olt \cup
           {[pon |-> p, id |-> routine[p].id, sn |-> routine[p].sn, st |-> "ranging"]}
    BY DEF ActivateOnu
  <2>2. [pon |-> p, id |-> routine[p].id, sn |-> routine[p].sn, st |-> "ranging"]
           \in Onu
    BY <1>1 DEF Onu
  <2>3. olt \subseteq Onu
    BY DEF Typed
  <2>. QED  BY <2>1, <2>2, <2>3
<1>. QED
  BY <1>2, <1>3 DEF ActivateOnu, Typed, adapter, env

LEMMA CompletedTyped ==
    ASSUME Typed, scenario' \in Setting, NEW p \in Pons, Completed(p)
    PROVE  Typed'
<1>1. routine[p].pc = "completed" /\ routine[p].sn \in Sns
  BY DEF Completed, At, Typed, Routine
<1>2. routine' \in [Pons -> Routine]
  BY ReturnTyped DEF Completed
<1>. QED
  BY <1>2, Zenon DEF Completed, Typed, adapter, env

LEMMA OnuIndicationTyped ==
    ASSUME Typed, scenario' \in Setting, NEW p \in Pons, OnuIndication(p)
    PROVE  Typed'
<1>1. routine[p].sn \in Sns /\ routine[p].id \in OnuIds
  BY DEF OnuIndication, At, Typed, Routine
<1>2. <<p, routine[p].id>> \in Keys
  BY <1>1 DEF Keys
<1>3. \/ onus' = onus
      \/ \E s \in Sns : onus' = [onus EXCEPT ![<<p, routine[p].id>>] = s]
  BY <1>1, <1>2 DEF OnuIndication, Typed
<1>4. \A s \in Sns, b \in BOOLEAN : [pc |-> IF b THEN "send_up" ELSE "send_down", sn |-> s, id |-> None] \in Routine
  BY DEF Routine, Pc
<1>5. onus[<<p, routine[p].id>>] \in Sns \cup {None}
  BY <1>2 DEF Typed
<1>6. routine' \in [Pons -> Routine]
  <2>1. \/ Return(p)
        \/ \E s \in Sns, b \in BOOLEAN : routine' = [routine EXCEPT ![p] =
              [pc |-> IF b THEN "send_up" ELSE "send_down", sn |-> s, id |-> None]]
    BY <1>1, <1>5, Zenon DEF OnuIndication, At
  <2>. QED  BY <1>4, <2>1, ReturnTyped, Zenon DEF Typed
<1>7. onus' \in [Keys -> Sns \cup {None}]
  BY <1>2, <1>3, Zenon DEF Typed
<1>. QED
  BY <1>6, <1>7 DEF OnuIndication, Typed, adapter, env

LEMMA UpdateOnuStatesTyped ==
    ASSUME Typed, scenario' \in Setting, NEW p \in Pons, UpdateOnuStates(p)
    PROVE  Typed'
<1>1. routine' \in [Pons -> Routine]
  BY ReturnTyped DEF UpdateOnuStates
<1>2. discOnus' \in [Sns -> {"none", "inProcess", "completed"}]
  BY DEF UpdateOnuStates, Forget, Typed
<1>3. child' \in [Sns -> {"up", "down"}]
  BY DEF UpdateOnuStates, Typed
<1>. QED
  BY <1>1, <1>2, <1>3 DEF UpdateOnuStates, Typed, adapter, env

LEMMA OltDiscoversTyped ==
    ASSUME Typed, scenario' \in Setting, NEW s \in Sns, OltDiscovers(s)
    PROVE  Typed'
<1>1. attach[s] \in Pons /\ [kind |-> "disc", sn |-> s, id |-> None] \in Indication
  BY DEF OltDiscovers, Indication, Typed
<1>2. queue' \in [Pons -> Seq(Indication)]
  BY <1>1, PutTyped DEF OltDiscovers
<1>. QED
  BY <1>2 DEF OltDiscovers, Typed, adapter, env

LEMMA OltRangesTyped ==
    ASSUME Typed, scenario' \in Setting, NEW o \in olt, OltRanges(o)
    PROVE  Typed'
<1>1. o \in Onu
  BY DEF Typed
<1>2. [kind |-> "up", sn |-> o.sn, id |-> o.id] \in Indication
  BY <1>1 DEF Indication, Onu
<1>3. queue' \in [Pons -> Seq(Indication)]
  BY <1>1, <1>2, PutTyped DEF Onu, OltRanges
<1>4. [o EXCEPT !.st = "up"] \in Onu
  BY <1>1 DEF Onu
<1>5. olt' \subseteq Onu
  BY <1>4, Zenon DEF OltRanges, Typed
<1>. QED
  BY <1>3, <1>5 DEF OltRanges, Typed, adapter, env

LEMMA OltReportsDownTyped ==
    ASSUME Typed, scenario' \in Setting, NEW o \in olt, OltReportsDown(o)
    PROVE  Typed'
<1>1. o \in Onu
  BY DEF Typed
<1>2. [kind |-> "down", sn |-> o.sn, id |-> o.id] \in Indication
  BY <1>1 DEF Indication, Onu
<1>3. queue' \in [Pons -> Seq(Indication)]
  BY <1>1, <1>2, PutTyped DEF Onu, OltReportsDown
<1>4. [o EXCEPT !.st = "idle"] \in Onu
  BY <1>1 DEF Onu
<1>5. olt' \subseteq Onu
  BY <1>4, Zenon DEF OltReportsDown, Typed
<1>. QED
  BY <1>3, <1>5 DEF OltReportsDown, Typed, adapter, env

LEMMA ReplugTyped ==
    ASSUME Typed, scenario' \in Setting, NEW s \in Sns, NEW p \in Pons, Replug(s, p)
    PROVE  Typed'
<1>1. attach' \in [Sns -> Pons \cup {None}]
  BY DEF Replug, Typed
<1>. QED
  BY <1>1 DEF Replug, Typed, adapter, env

LEMMA IdleOnuTyped ==
    ASSUME Typed, NEW o \in olt
    PROVE  [o EXCEPT !.st = "idle"] \in Onu
<1>1. o \in Onu
  BY DEF Typed
<1>. QED  BY <1>1 DEF Onu

LEMMA OnuDisabledTyped ==
    ASSUME Typed, scenario' \in Setting, NEW s \in Sns, OnuDisabled(s)
    PROVE  Typed'
<1>1. attach[s] \in Pons /\ (core[s] # None => core[s].id \in OnuIds)
  BY DEF OnuDisabled, Typed, Device
<1>2. onus' = onus \/ (core[s] # None /\ onus' = [onus EXCEPT ![<<attach[s], core[s].id>>] = s])
  BY DEF OnuDisabled
<1>3. onus' \in [Keys -> Sns \cup {None}]
  BY <1>1, <1>2, Zenon DEF Keys, Typed
<1>4. \A o \in olt : [o EXCEPT !.st = "idle"] \in Onu
  BY IdleOnuTyped, Zenon
<1>5. olt' \subseteq Onu
  BY <1>4 DEF OnuDisabled, Typed
<1>6. child' \in [Sns -> {"up", "down"}]
  BY DEF OnuDisabled, Typed
<1>7. discOnus' \in [Sns -> {"none", "inProcess", "completed"}]
  BY DEF OnuDisabled, Forget, Typed
<1>. QED
  BY <1>3, <1>5, <1>6, <1>7 DEF OnuDisabled, Typed, adapter, env

LEMMA DisableDeviceTyped == ASSUME Typed, scenario' \in Setting, DisableDevice PROVE Typed'
<1>1. \A o \in olt : [o EXCEPT !.st = "idle"] \in Onu
  BY IdleOnuTyped, Zenon
<1>2. olt' \subseteq Onu
  BY <1>1 DEF DisableDevice, Typed
<1>. QED
  BY <1>2 DEF DisableDevice, Typed, adapter, env

LEMMA StoreTechProfileTyped ==
    ASSUME Typed, scenario' \in Setting, NEW k \in Keys, StoreTechProfile(k)
    PROVE  Typed'
<1>. QED
  BY DEF StoreTechProfile, Typed, adapter, env

LEMMA CoreDeletesTyped ==
    ASSUME Typed, scenario' \in Setting, NEW s \in Sns, CoreDeletes(s)
    PROVE  Typed'
<1>1. core[s] \in Device
  BY DEF CoreDeletes, Typed
<1>2. [core[s] EXCEPT !.del = TRUE] \in Device
  BY <1>1, Zenon DEF Device
<1>3. core' \in [Sns -> {None} \cup Device]
  BY <1>2 DEF CoreDeletes, Typed
<1>4. [pc |-> "gem", pon |-> core[s].pon, id |-> core[s].id] \in LostCall
  BY <1>1 DEF LostCall, Device
<1>5. lost' \in [Sns -> LostCall]
  BY <1>4 DEF CoreDeletes, Typed
<1>. QED
  BY <1>3, <1>5 DEF CoreDeletes, Typed, adapter, env

LEMMA CoreForgetsTyped ==
    ASSUME Typed, scenario' \in Setting, NEW s \in Sns, CoreForgets(s)
    PROVE  Typed'
<1>1. core' \in [Sns -> {None} \cup Device]
  BY DEF CoreForgets, Typed
<1>2. child' \in [Sns -> {"up", "down"}]
  BY DEF CoreForgets, Typed
<1>. QED
  BY <1>1, <1>2 DEF CoreForgets, Typed, adapter, env

LEMMA LostClearDataTyped ==
    ASSUME Typed, scenario' \in Setting, NEW s \in Sns, LostClearData(s)
    PROVE  Typed'
<1>1. lost[s] \in LostCall /\ lost[s].pon \in Pons /\ lost[s].id \in OnuIds
  BY DEF LostClearData, LostAt, Typed, LostCall
<1>2. [lost[s] EXCEPT !.pc = "delete"] \in LostCall
  BY <1>1 DEF LostCall
<1>3. lost' \in [Sns -> LostCall]
  BY <1>2 DEF LostClearData, Typed
<1>4. gemInfo' = gemInfo \/ gemInfo' = [gemInfo EXCEPT ![LostKey(s)] = None]
  BY DEF LostClearData
<1>5. gemInfo' \in [Keys -> Sns \cup {None}]
  BY <1>4 DEF Typed
<1>6. tp' \subseteq Keys
  BY DEF LostClearData, Typed
<1>. QED
  BY <1>3, <1>5, <1>6 DEF LostClearData, Typed, adapter, env

LEMMA LostDeleteOnuTyped ==
    ASSUME Typed, scenario' \in Setting, NEW s \in Sns, LostDeleteOnu(s)
    PROVE  Typed'
<1>1. lost[s] \in LostCall /\ lost[s].pon \in Pons /\ lost[s].id \in OnuIds
  BY DEF LostDeleteOnu, LostAt, Typed, LostCall
<1>2. [lost[s] EXCEPT !.pc = "free"] \in LostCall
  BY <1>1 DEF LostCall
<1>3. Away \in LostCall
  BY DEF Away, LostCall
<1>4. lost' \in [Sns -> LostCall]
  BY <1>2, <1>3, Zenon DEF LostDeleteOnu, Typed
<1>5. olt' \subseteq Onu
  BY DEF LostDeleteOnu, Typed
<1>. QED
  BY <1>4, <1>5 DEF LostDeleteOnu, Typed, adapter, env

LEMMA LostFreeIdTyped ==
    ASSUME Typed, scenario' \in Setting, NEW s \in Sns, LostFreeId(s)
    PROVE  Typed'
<1>1. lost[s] \in LostCall /\ lost[s].pon \in Pons /\ lost[s].id \in OnuIds
  BY DEF LostFreeId, LostAt, Typed, LostCall
<1>2. [lost[s] EXCEPT !.pc = "forget"] \in LostCall
  BY <1>1 DEF LostCall
<1>3. lost' \in [Sns -> LostCall]
  BY <1>2 DEF LostFreeId, Typed
<1>4. pool \in [Pons -> SUBSET OnuIds]
  BY DEF Typed
<1>5. pool[lost[s].pon] \cup {lost[s].id} \in SUBSET OnuIds
  BY <1>1, <1>4
<1>6. pool' \in [Pons -> SUBSET OnuIds]
  BY <1>4, <1>5, Zenon DEF LostFreeId, Free
<1>. QED
  BY <1>3, <1>6 DEF LostFreeId, Typed, adapter, env

LEMMA LostForgetTyped ==
    ASSUME Typed, scenario' \in Setting, NEW s \in Sns, LostForget(s)
    PROVE  Typed'
<1>1. Away \in LostCall
  BY DEF Away, LostCall
<1>2. lost' \in [Sns -> LostCall]
  BY <1>1 DEF LostForget, Typed
<1>3. onus' \in [Keys -> Sns \cup {None}]
  BY Zenon DEF LostForget, Typed
<1>4. discOnus' \in [Sns -> {"none", "inProcess", "completed"}]
  BY DEF LostForget, Forget, Typed
<1>. QED
  BY <1>2, <1>3, <1>4 DEF LostForget, Typed, adapter, env

LEMMA RestartTyped == ASSUME Typed, scenario' \in Setting, Restart PROVE Typed'
<1>1. Away \in LostCall
  BY DEF Away, LostCall
<1>2. Idle \in Routine
  BY DEF Idle, Routine, Pc
<1>3. routine' \in [Pons -> Routine] /\ lost' \in [Sns -> LostCall]
  BY <1>1, <1>2 DEF Restart
<1>4. queue' \in [Pons -> Seq(Indication)]
  BY DEF Restart
<1>5. recon' \subseteq Sns
  BY Zenon DEF Restart
<1>. QED
  BY <1>3, <1>4, <1>5 DEF Restart, Typed, adapter, env

LEMMA ReconcileOnuTyped ==
    ASSUME Typed, scenario' \in Setting, NEW s \in Sns, ReconcileOnu(s)
    PROVE  Typed'
<1>1. ASSUME core[s] # None
      PROVE  /\ core[s].pon \in Pons /\ core[s].id \in OnuIds
             /\ \A k \in {"up", "down"} : [kind |-> k, sn |-> s, id |-> core[s].id] \in Indication
  BY Zenon, <1>1 DEF Typed, Indication, Device
<1>2. queue' \in [Pons -> Seq(Indication)]
  BY Zenon, <1>1, PutTyped DEF ReconcileOnu, Typed
<1>3. onus' = onus \/ (core[s] # None /\ onus' = [onus EXCEPT ![<<core[s].pon, core[s].id>>] = s])
  BY DEF ReconcileOnu
<1>4. onus' \in [Keys -> Sns \cup {None}]
  BY <1>1, <1>3, Zenon DEF Keys, Typed
<1>. QED
  BY <1>2, <1>4 DEF ReconcileOnu, Typed, adapter, env

LEMMA NextTyped == ASSUME Typed, Next PROVE Typed'
<1>. scenario' \in Setting
  BY NextScenario
<1>1. ASSUME NEW p \in Pons, RoutineStep(p) PROVE Typed'
  BY <1>1, TakeIndicationTyped, CheckDeviceTyped, CheckTechProfileTyped, LoadOrStoreTyped,
     GetChildDeviceTyped, GetONUIDTyped, SendChildDeviceDetectedTyped, CacheOnuTyped,
     UpdateOnuDeviceStateTyped, AddNewOnuGemInfoTyped, ActivateOnuTyped, CompletedTyped,
     OnuIndicationTyped, UpdateOnuStatesTyped DEF RoutineStep
<1>2. ASSUME NEW s \in Sns, LostStep(s) PROVE Typed'
  BY <1>2, LostClearDataTyped, LostDeleteOnuTyped, LostFreeIdTyped, LostForgetTyped DEF LostStep
<1>3. CASE OltStep
  BY <1>3, OltRangesTyped, OltReportsDownTyped DEF OltStep
<1>. QED
  BY <1>1, <1>2, <1>3, OltDiscoversTyped, OnuDisabledTyped, CoreDeletesTyped, CoreForgetsTyped,
     ReplugTyped, DisableDeviceTyped, RestartTyped, ReconcileOnuTyped, StoreTechProfileTyped DEF Next

LEMMA OnusTyped == Spec => []Typed
<1>1. ASSUME Init PROVE Typed
  <2>1. Idle \in Routine /\ Away \in LostCall
    BY DEF Idle, Away, Routine, LostCall, Pc
  <2>2. routine \in [Pons -> Routine] /\ lost \in [Sns -> LostCall]
    BY <1>1, <2>1 DEF Init
  <2>3. queue \in [Pons -> Seq(Indication)]
    <3>1. queue = [p \in Pons |-> <<>>]
      BY <1>1 DEF Init
    <3>. QED  BY <3>1
  <2>4. PICK sc \in Scenarios :
          attach = sc.attach /\ scenario = [check |-> sc.check, kinds |-> sc.kinds, left |-> sc.faults]
    BY <1>1 DEF Init
  <2>5. attach \in [Sns -> Pons \cup {None}] /\ scenario \in Setting
    BY <2>4, OnuDiscoveryAssumption DEF Setting
  <2>. QED  BY <1>1, <2>2, <2>3, <2>5 DEF Init, Typed
<1>2. ASSUME Typed, [Next]_vars PROVE Typed'
  BY <1>2, NextTyped DEF vars, adapter, env, Typed
<1>. QED  BY <1>1, <1>2, PTL DEF Spec

(* Every variable has its type.  The indications queued, the discovery of  *)
(* a port and the clean-up after a device name an ONU and an id that exist *)
(* wherever onuDiscIndication and ChildDeviceLost use them (Typed).        *)
THEOREM OnusTypeCorrect == Spec => []TypeOK
<1>1. ASSUME Typed PROVE TypeOK
  <2>1. Routine \subseteq [pc : Pc, sn : Sns \cup {None}, id : OnuIds \cup {None}]
    BY DEF Routine
  <2>2. LostCall \subseteq [pc : {"away", "gem", "delete", "free", "forget"},
                          pon : Pons \cup {None}, id : OnuIds \cup {None}]
    BY DEF LostCall
  <2>3. olt \subseteq [pon : Pons, id : OnuIds, sn : Sns, st : {"idle", "ranging", "up"}]
    BY <1>1 DEF Typed, Onu
  <2>. QED  BY <1>1, <2>1, <2>2, <2>3 DEF Typed, TypeOK
<1>. QED  BY <1>1, OnusTyped, PTL

-------------------------------------------------------------------------------
(* The owners of an id. *)

\* the discovery on port p has taken id i and has not passed it to the core
TakenBy(p, i) == routine[p].pc = "detect" /\ routine[p].id = i

\* the core keeps the device s, on port p under id i
KeptBy(s, p, i) == core[s] # None /\ ~core[s].del /\ core[s].pon = p /\ core[s].id = i

\* ChildDeviceLost for s has still to free id i of port p
ClearedBy(s, p, i) ==
    lost[s].pc \in {"gem", "delete", "free"} /\ lost[s].pon = p /\ lost[s].id = i

OneOwnerOf(p, i) ==
    /\ TakenBy(p, i) =>
          i \notin pool[p] /\ \A s \in Sns : ~KeptBy(s, p, i) /\ ~ClearedBy(s, p, i)
    /\ \A s \in Sns : KeptBy(s, p, i) =>
          i \notin pool[p] /\ \A t \in Sns : ~ClearedBy(t, p, i) /\ (KeptBy(t, p, i) => s = t)
    /\ \A s \in Sns : ClearedBy(s, p, i) =>
          i \notin pool[p] /\ \A t \in Sns : ClearedBy(t, p, i) => s = t

OneOwner == \A p \in Pons, i \in OnuIds : OneOwnerOf(p, i)

IdInv == Typed /\ OneOwner /\ "answer" \notin scenario.kinds

(* A step that makes nobody the owner of an id, and does not free it. *)
NoNewOwnerOf(p, i) ==
    /\ i \in pool'[p] => i \in pool[p]
    /\ TakenBy(p, i)' => TakenBy(p, i)
    /\ \A s \in Sns : KeptBy(s, p, i)' => KeptBy(s, p, i)
    /\ \A s \in Sns : ClearedBy(s, p, i)' => ClearedBy(s, p, i)

LEMMA NoNewOwnerOfSuffices ==
    ASSUME NEW p \in Pons, NEW i \in OnuIds, OneOwnerOf(p, i), NoNewOwnerOf(p, i)
    PROVE  OneOwnerOf(p, i)'
BY DEF OneOwnerOf, NoNewOwnerOf

NoNewOwner == \A p \in Pons, i \in OnuIds : NoNewOwnerOf(p, i)

LEMMA NoNewOwnerSuffices == ASSUME OneOwner, NoNewOwner PROVE OneOwner'
BY NoNewOwnerOfSuffices DEF OneOwner, NoNewOwner

LEMMA GotoOwner ==
    ASSUME Typed, NEW p \in Pons, NEW pc, Goto(p, pc), pc # "detect"
    PROVE  \A q \in Pons, i \in OnuIds : TakenBy(q, i)' => TakenBy(q, i)
BY DEF Goto, Idle, TakenBy, Typed, Routine

LEMMA ReturnOwner ==
    ASSUME Typed, NEW p \in Pons, Return(p)
    PROVE  \A q \in Pons, i \in OnuIds : TakenBy(q, i)' => TakenBy(q, i)
BY DEF Return, Idle, TakenBy, Typed, Routine

(* The steps of a discovery that neither take an id nor pass it on. *)
LEMMA DiscoveryOwner ==
    ASSUME IdInv, NEW p \in Pons,
           \/ CheckDevice(p) \/ CheckTechProfile(p) \/ LoadOrStore(p) \/ CacheOnu(p)
           \/ UpdateOnuDeviceState(p) \/ AddNewOnuGemInfo(p) \/ ActivateOnu(p) \/ Completed(p)
           \/ UpdateOnuStates(p)
    PROVE  OneOwner'
<1>1. \A q \in Pons, i \in OnuIds : TakenBy(q, i)' => TakenBy(q, i)
  <2>1. CASE CheckDevice(p)
    BY Zenon, <2>1, GotoOwner, ReturnOwner DEF CheckDevice, IdInv
  <2>2. CASE CheckTechProfile(p)
    BY <2>2, GotoOwner, ReturnOwner, Zenon DEF CheckTechProfile, IdInv
  <2>3. CASE LoadOrStore(p)
    BY Zenon, <2>3, GotoOwner, ReturnOwner DEF LoadOrStore, IdInv
  <2>4. CASE CacheOnu(p)
    BY Zenon, <2>4, GotoOwner, ReturnOwner DEF CacheOnu, IdInv
  <2>5. CASE UpdateOnuDeviceState(p)
    BY Zenon, <2>5, GotoOwner, ReturnOwner DEF UpdateOnuDeviceState, IdInv
  <2>6. CASE AddNewOnuGemInfo(p)
    BY Zenon, <2>6, GotoOwner, ReturnOwner DEF AddNewOnuGemInfo, IdInv
  <2>7. CASE ActivateOnu(p)
    BY Zenon, <2>7, GotoOwner, ReturnOwner DEF ActivateOnu, IdInv
  <2>8. CASE Completed(p)
    BY Zenon, <2>8, GotoOwner, ReturnOwner DEF Completed, IdInv
  <2>9. CASE UpdateOnuStates(p)
    BY <2>9, GotoOwner, ReturnOwner DEF UpdateOnuStates, IdInv
  <2>. QED  BY Zenon, <2>1, <2>2, <2>3, <2>4, <2>5, <2>6, <2>7, <2>8, <2>9
<1>2. pool' = pool /\ core' = core /\ lost' = lost
  BY Zenon DEF CheckDevice, CheckTechProfile, LoadOrStore, CacheOnu, UpdateOnuDeviceState,
         AddNewOnuGemInfo, ActivateOnu, Completed, UpdateOnuStates, adapter, env
<1>3. NoNewOwner
  BY Zenon, <1>1, <1>2 DEF NoNewOwner, NoNewOwnerOf, KeptBy, ClearedBy
<1>. QED  BY <1>3, NoNewOwnerSuffices DEF IdInv

LEMMA TakeIndicationOwner == ASSUME IdInv, NEW p \in Pons, TakeIndication(p) PROVE OneOwner'
<1>1. Head(queue[p]) \in Indication
  <2>1. queue[p] \in Seq(Indication) /\ queue[p] # <<>>
    BY Zenon DEF TakeIndication, IdInv, Typed
  <2>. QED  BY <2>1
<1>2. \A q \in Pons, i \in OnuIds : TakenBy(q, i)' => TakenBy(q, i)
  BY Zenon, <1>1 DEF TakeIndication, IdInv, Typed, Indication, TakenBy
<1>3. pool' = pool /\ core' = core /\ lost' = lost
  BY DEF TakeIndication, adapter, env
<1>4. NoNewOwner
  BY <1>2, <1>3 DEF NoNewOwner, NoNewOwnerOf, KeptBy, ClearedBy
<1>. QED  BY <1>4, NoNewOwnerSuffices DEF IdInv

LEMMA OnuIndicationOwner == ASSUME IdInv, NEW p \in Pons, OnuIndication(p) PROVE OneOwner'
<1>1. \/ Return(p)
      \/ \E t : routine' = [routine EXCEPT ![p] =
            [pc |-> IF At(p, "up") THEN "send_up" ELSE "send_down", sn |-> t, id |-> None]]
  BY DEF OnuIndication
<1>2. \A q \in Pons, i \in OnuIds : TakenBy(q, i)' => TakenBy(q, i)
  <2>1. CASE Return(p)
    BY <2>1, ReturnOwner DEF IdInv
  <2>2. ASSUME NEW t, routine' = [routine EXCEPT ![p] =
                  [pc |-> IF At(p, "up") THEN "send_up" ELSE "send_down", sn |-> t, id |-> None]]
        PROVE  routine'[p].pc # "detect" /\ \A q \in Pons \ {p} : routine'[q] = routine[q]
    BY <2>2 DEF IdInv, Typed
  <2>. QED  BY <1>1, <2>1, <2>2 DEF TakenBy
<1>3. pool' = pool /\ core' = core /\ lost' = lost
  BY Zenon DEF OnuIndication
<1>4. NoNewOwner
  BY <1>2, <1>3 DEF NoNewOwner, NoNewOwnerOf, KeptBy, ClearedBy
<1>. QED  BY <1>4, NoNewOwnerSuffices DEF IdInv

LEMMA GetChildDeviceOwner == ASSUME IdInv, NEW p \in Pons, GetChildDevice(p) PROVE OneOwner'
<1>1. routine[p].sn \in Sns
  BY DEF GetChildDevice, At, IdInv, Typed, Routine
<1>2. core[routine[p].sn] # None => core[routine[p].sn].id \in OnuIds
  BY <1>1 DEF IdInv, Typed, Device
<1>3. \A q \in Pons, i \in OnuIds : TakenBy(q, i)' => TakenBy(q, i)
  <2>1. CASE Goto(p, "id") \/ Return(p)
    BY <2>1, GotoOwner, ReturnOwner DEF IdInv
  <2>2. CASE core[routine[p].sn] # None /\ GotoWith(p, "client", core[routine[p].sn].id)
    <3>1. PICK i \in OnuIds : i = core[routine[p].sn].id
      BY <1>2, <2>2
    <3>2. "client" \in Pc /\ Typed /\ GotoWith(p, "client", i)
      BY <2>2, <3>1 DEF Pc, IdInv
    <3>3. routine'[p].pc = "client" /\ \A q \in Pons \ {p} : routine'[q] = routine[q]
      BY <1>1, <3>2, GotoWithTyped
    <3>. QED  BY <3>3 DEF TakenBy
  <2>. QED  BY <2>1, <2>2 DEF GetChildDevice
<1>4. pool' = pool /\ core' = core /\ lost' = lost
  BY DEF GetChildDevice
<1>5. NoNewOwner
  BY <1>3, <1>4 DEF NoNewOwner, NoNewOwnerOf, KeptBy, ClearedBy
<1>. QED  BY <1>5, NoNewOwnerSuffices DEF IdInv

(* The steps that leave the discoveries, the devices and the pools alone. *)
LEMMA ElsewhereOwner ==
    ASSUME IdInv,
           \/ \E s \in Sns : \/ OltDiscovers(s) \/ OnuDisabled(s) \/ ReconcileOnu(s)
                             \/ \E p \in Pons : Replug(s, p)
           \/ OltStep \/ DisableDevice \/ \E k \in Keys : StoreTechProfile(k)
           \/ UNCHANGED vars
    PROVE  OneOwner'
<1>1. pool' = pool /\ core' = core /\ lost' = lost /\ routine' = routine
  BY Zenon DEF OltDiscovers, OnuDisabled, ReconcileOnu, Replug, OltStep, OltRanges, OltReportsDown,
         DisableDevice, StoreTechProfile, vars, adapter, env
<1>2. NoNewOwner
  BY <1>1 DEF NoNewOwner, NoNewOwnerOf, TakenBy, KeptBy, ClearedBy
<1>. QED  BY <1>2, NoNewOwnerSuffices DEF IdInv

LEMMA CoreForgetsOwner == ASSUME IdInv, NEW s \in Sns, CoreForgets(s) PROVE OneOwner'
<1>1. pool' = pool /\ lost' = lost /\ routine' = routine
  BY Zenon DEF CoreForgets, adapter
<1>2. \A t \in Sns : core'[t] = None \/ core'[t] = core[t]
  BY DEF CoreForgets, IdInv, Typed
<1>3. NoNewOwner
  BY <1>1, <1>2 DEF NoNewOwner, NoNewOwnerOf, TakenBy, KeptBy, ClearedBy
<1>. QED  BY <1>3, NoNewOwnerSuffices DEF IdInv

LEMMA LostClearDataOwner == ASSUME IdInv, NEW s \in Sns, LostClearData(s) PROVE OneOwner'
<1>1. pool' = pool /\ core' = core /\ routine' = routine
  BY DEF LostClearData, adapter, env
<1>2. \A t \in Sns, p \in Pons, i \in OnuIds : ClearedBy(t, p, i)' => ClearedBy(t, p, i)
  BY DEF LostClearData, LostAt, Away, ClearedBy, IdInv, Typed, LostCall
<1>3. NoNewOwner
  BY <1>1, <1>2 DEF NoNewOwner, NoNewOwnerOf, TakenBy, KeptBy
<1>. QED  BY <1>3, NoNewOwnerSuffices DEF IdInv

LEMMA LostForgetOwner == ASSUME IdInv, NEW s \in Sns, LostForget(s) PROVE OneOwner'
<1>1. pool' = pool /\ core' = core /\ routine' = routine
  BY Zenon DEF LostForget, adapter, env
<1>2. \A t \in Sns, p \in Pons, i \in OnuIds : ClearedBy(t, p, i)' => ClearedBy(t, p, i)
  BY DEF LostForget, LostAt, Away, ClearedBy, IdInv, Typed, LostCall
<1>3. NoNewOwner
  BY <1>1, <1>2 DEF NoNewOwner, NoNewOwnerOf, TakenBy, KeptBy
<1>. QED  BY <1>3, NoNewOwnerSuffices DEF IdInv

LEMMA RestartOwner == ASSUME IdInv, Restart PROVE OneOwner'
<1>1. pool' = pool /\ core' = core
  BY DEF Restart
<1>2. \A p \in Pons, i \in OnuIds : ~TakenBy(p, i)' /\ \A s \in Sns : ~ClearedBy(s, p, i)'
  BY DEF Restart, Idle, Away, TakenBy, ClearedBy
<1>3. NoNewOwner
  BY <1>1, <1>2 DEF NoNewOwner, NoNewOwnerOf, KeptBy
<1>. QED  BY <1>3, NoNewOwnerSuffices DEF IdInv

LEMMA LostDeleteOnuOwner == ASSUME IdInv, NEW s \in Sns, LostDeleteOnu(s) PROVE OneOwner'
<1>1. pool' = pool /\ core' = core /\ routine' = routine
  BY DEF LostDeleteOnu, adapter, env
<1>2. lost \in [Sns -> LostCall] /\ lost[s].pc = "delete"
  BY DEF LostDeleteOnu, LostAt, IdInv, Typed
<1>3. lost' = [lost EXCEPT ![s].pc = "free"] \/ lost' = [lost EXCEPT ![s] = Away]
  BY DEF LostDeleteOnu
<1>4. \A t \in Sns, p \in Pons, i \in OnuIds : ClearedBy(t, p, i)' => ClearedBy(t, p, i)
  BY <1>2, <1>3 DEF Away, ClearedBy, LostCall
<1>5. NoNewOwner
  BY <1>1, <1>4 DEF NoNewOwner, NoNewOwnerOf, TakenBy, KeptBy
<1>. QED  BY <1>5, NoNewOwnerSuffices DEF IdInv

(* GetONUID takes an id out of the pool, where it has no owner. *)
LEMMA GetONUIDOwner == ASSUME IdInv, NEW p \in Pons, GetONUID(p) PROVE OneOwner'
<1>1. core' = core /\ lost' = lost
  BY Zenon DEF GetONUID
<1>2. routine[p].sn \in Sns /\ pool \in [Pons -> SUBSET OnuIds]
  BY DEF GetONUID, At, IdInv, Typed, Routine
<1>3. CASE \E id \in pool[p] : pool' = [pool EXCEPT ![p] = @ \ {id}] /\ GotoWith(p, "detect", id)
  <2>1. PICK id \in pool[p] : pool' = [pool EXCEPT ![p] = @ \ {id}] /\ GotoWith(p, "detect", id)
    BY <1>3, Zenon
  <2>2. id \in OnuIds
    BY <1>2
  <2>3. \A q \in Pons, i \in OnuIds : TakenBy(q, i)' => TakenBy(q, i) \/ (q = p /\ i = id)
    BY <1>2, <2>1, <2>2, GotoWithTyped DEF TakenBy, IdInv, Pc
  <2>4. \A s \in Sns : ~KeptBy(s, p, id) /\ ~ClearedBy(s, p, id)
    BY <2>1, <2>2 DEF IdInv, OneOwner, OneOwnerOf
  <2>5. \A q \in Pons : pool'[q] \subseteq pool[q] /\ (q = p => id \notin pool'[q])
    BY <1>2, <2>1
  <2>6. ASSUME NEW q \in Pons, NEW i \in OnuIds PROVE OneOwnerOf(q, i)'
    <3>1. /\ \A s \in Sns : KeptBy(s, q, i)' = KeptBy(s, q, i)
          /\ \A s \in Sns : ClearedBy(s, q, i)' = ClearedBy(s, q, i)
      BY Zenon, <1>1 DEF KeptBy, ClearedBy
    <3>2. CASE q = p /\ i = id
      BY <2>4, <2>5, <3>1, <3>2 DEF OneOwnerOf
    <3>3. CASE q # p \/ i # id
      <4>1. NoNewOwnerOf(q, i)
        BY <2>3, <2>5, <3>1, <3>3 DEF NoNewOwnerOf
      <4>. QED  BY Zenon, <4>1, NoNewOwnerOfSuffices DEF IdInv, OneOwner
    <3>. QED  BY <3>2, <3>3
  <2>. QED  BY <2>6 DEF OneOwner
<1>4. CASE pool' = pool /\ Return(p)
  <2>1. NoNewOwner
    BY <1>1, <1>4, ReturnOwner DEF IdInv, NoNewOwner, NoNewOwnerOf, KeptBy, ClearedBy
  <2>. QED  BY <2>1, NoNewOwnerSuffices DEF IdInv
<1>. QED  BY <1>3, <1>4 DEF GetONUID

(* A discovery passes its id to the device, or frees it: it alone owns it. *)
LEMMA SendChildDeviceDetectedOwner ==
    ASSUME IdInv, NEW p \in Pons, SendChildDeviceDetected(p) PROVE OneOwner'
<1> PICK s \in Sns, id \in OnuIds : s = routine[p].sn /\ id = routine[p].id
  BY DEF SendChildDeviceDetected, At, IdInv, Typed, Routine
<1>1. routine[p].pc = "detect" /\ routine \in [Pons -> Routine]
  BY Zenon DEF SendChildDeviceDetected, At, IdInv, Typed, Routine
<1>2. /\ lost' = lost
      /\ core \in [Sns -> {None} \cup Device]
      /\ pool \in [Pons -> SUBSET OnuIds]
  BY Zenon DEF SendChildDeviceDetected, IdInv, Typed
<1>3. \/ /\ core' = [core EXCEPT ![s] = [pon |-> p, id |-> id, del |-> FALSE]]
         /\ pool' = pool
      \/ core' = core /\ pool' = [pool EXCEPT ![p] = @ \cup {id}]
  BY DEF SendChildDeviceDetected, Free, IdInv, Fault
<1>4. \A q \in Pons, i \in OnuIds : TakenBy(q, i)' => TakenBy(q, i) /\ q # p
  <2>1. CASE Return(p)
    BY <1>1, <2>1 DEF Return, Idle, TakenBy
  <2>2. CASE Goto(p, "client")
    BY <1>1, <2>2 DEF Goto, TakenBy, Routine
  <2>. QED  BY <2>1, <2>2 DEF SendChildDeviceDetected
<1>5. TakenBy(p, id)
  BY <1>1 DEF TakenBy
<1>6. /\ id \notin pool[p]
      /\ \A t \in Sns : ~KeptBy(t, p, id) /\ ~ClearedBy(t, p, id)
  BY <1>1, <1>5 DEF IdInv, OneOwner, OneOwnerOf
<1>7. \A t \in Sns, q \in Pons, i \in OnuIds : ClearedBy(t, q, i)' = ClearedBy(t, q, i)
  BY <1>2 DEF ClearedBy
<1>8. CASE core' = [core EXCEPT ![s] = [pon |-> p, id |-> id, del |-> FALSE]] /\ pool' = pool
  <2>1. core'[s].pon = p /\ core'[s].id = id /\ \A t \in Sns \ {s} : core'[t] = core[t]
    BY <1>2, <1>8
  <2>2. \A q \in Pons, i \in OnuIds : KeptBy(s, q, i)' => q = p /\ i = id
    BY <1>1, <2>1 DEF KeptBy
  <2>3. \A t \in Sns \ {s}, q \in Pons, i \in OnuIds : KeptBy(t, q, i)' => KeptBy(t, q, i)
    BY <2>1 DEF KeptBy
  <2>4. ASSUME NEW q \in Pons, NEW i \in OnuIds PROVE OneOwnerOf(q, i)'
    <3>1. CASE q = p /\ i = id
      <4>1. i \notin pool'[q] /\ ~TakenBy(q, i)' /\ \A t \in Sns : ~ClearedBy(t, q, i)'
        BY <1>4, <1>6, <1>7, <1>8, <3>1
      <4>2. \A t \in Sns : KeptBy(t, q, i)' => t = s
        BY <1>6, <2>3, <3>1
      <4>. QED  BY <4>1, <4>2 DEF OneOwnerOf
    <3>2. CASE q # p \/ i # id
      <4>1. NoNewOwnerOf(q, i)
        BY <1>4, <1>7, <1>8, <2>2, <2>3, <3>2 DEF NoNewOwnerOf
      <4>. QED  BY Zenon, <4>1, NoNewOwnerOfSuffices DEF IdInv, OneOwner
    <3>. QED  BY <3>1, <3>2
  <2>. QED  BY <2>4 DEF OneOwner
<1>9. CASE core' = core /\ pool' = [pool EXCEPT ![p] = @ \cup {id}]
  <2>1. \A t \in Sns, q \in Pons, i \in OnuIds : KeptBy(t, q, i)' = KeptBy(t, q, i)
    BY <1>9 DEF KeptBy
  <2>2. \A q \in Pons : \A i \in pool'[q] : i \in pool[q] \/ (q = p /\ i = id)
    BY Zenon, <1>2, <1>9
  <2>3. ASSUME NEW q \in Pons, NEW i \in OnuIds PROVE OneOwnerOf(q, i)'
    <3>1. CASE q = p /\ i = id
      <4>1. /\ ~TakenBy(q, i)'
            /\ \A t \in Sns : ~KeptBy(t, q, i)' /\ ~ClearedBy(t, q, i)'
        BY <1>4, <1>6, <1>7, <2>1, <3>1
      <4>. QED  BY Zenon, <4>1 DEF OneOwnerOf
    <3>2. CASE q # p \/ i # id
      <4>1. NoNewOwnerOf(q, i)
        BY <1>4, <1>7, <2>1, <2>2, <3>2 DEF NoNewOwnerOf
      <4>. QED  BY <4>1, NoNewOwnerOfSuffices DEF IdInv, OneOwner
    <3>. QED  BY <3>1, <3>2
  <2>. QED  BY <2>3 DEF OneOwner
<1>. QED  BY <1>3, <1>8, <1>9

(* The call of ChildDeviceLost takes the id over from the device. *)
LEMMA CoreDeletesOwner == ASSUME IdInv, NEW s \in Sns, CoreDeletes(s) PROVE OneOwner'
<1>1. pool' = pool /\ routine' = routine
  BY DEF CoreDeletes, adapter
<1>2. /\ core[s] \in Device /\ core[s] # None /\ ~core[s].del
      /\ core \in [Sns -> {None} \cup Device]
      /\ lost \in [Sns -> LostCall]
  BY DEF CoreDeletes, IdInv, Typed
<1>3. KeptBy(s, core[s].pon, core[s].id)
  BY <1>2 DEF KeptBy
<1>4. \A t \in Sns, q \in Pons, i \in OnuIds : KeptBy(t, q, i)' => KeptBy(t, q, i) /\ t # s
  BY <1>2 DEF CoreDeletes, KeptBy
<1>5. \A t \in Sns, q \in Pons, i \in OnuIds :
         ClearedBy(t, q, i)' => (ClearedBy(t, q, i) /\ t # s)
                                \/ (t = s /\ q = core[s].pon /\ i = core[s].id)
  <2>1. lost'[s].pon = core[s].pon /\ lost'[s].id = core[s].id
    BY <1>2 DEF CoreDeletes
  <2>2. \A t \in Sns \ {s} : lost'[t] = lost[t]
    BY <1>2 DEF CoreDeletes
  <2>3. \A q \in Pons, i \in OnuIds : ClearedBy(s, q, i)' => q = core[s].pon /\ i = core[s].id
    BY <2>1 DEF ClearedBy
  <2>4. \A t \in Sns \ {s}, q \in Pons, i \in OnuIds : ClearedBy(t, q, i)' => ClearedBy(t, q, i)
    BY <2>2 DEF ClearedBy
  <2>. QED  BY <2>3, <2>4
<1>6. \A q \in Pons, i \in OnuIds : TakenBy(q, i)' = TakenBy(q, i)
  BY <1>1 DEF TakenBy
<1>7. ASSUME NEW q \in Pons, NEW i \in OnuIds PROVE OneOwnerOf(q, i)'
  <2>1. OneOwnerOf(q, i)
    BY Zenon DEF IdInv, OneOwner
  <2>2. CASE q = core[s].pon /\ i = core[s].id
    <3>1. /\ i \notin pool[q] /\ ~TakenBy(q, i)
          /\ \A t \in Sns : ~ClearedBy(t, q, i) /\ (KeptBy(t, q, i) => s = t)
      BY <1>3, <2>1, <2>2 DEF OneOwnerOf
    <3>. QED  BY Zenon, <1>1, <1>4, <1>5, <1>6, <3>1 DEF OneOwnerOf
  <2>3. CASE q # core[s].pon \/ i # core[s].id
    <3>1. NoNewOwnerOf(q, i)
      BY <1>1, <1>4, <1>5, <1>6, <2>3 DEF NoNewOwnerOf
    <3>. QED  BY <2>1, <3>1, NoNewOwnerOfSuffices
  <2>. QED  BY <2>2, <2>3
<1>. QED  BY <1>7 DEF OneOwner

(* ChildDeviceLost frees an id it alone owns. *)
LEMMA LostFreeIdOwner == ASSUME IdInv, NEW s \in Sns, LostFreeId(s) PROVE OneOwner'
<1>1. core' = core /\ routine' = routine
  BY DEF LostFreeId, env
<1>2. /\ lost \in [Sns -> LostCall] /\ lost[s].pc = "free"
      /\ lost[s].pon \in Pons /\ lost[s].id \in OnuIds
      /\ pool \in [Pons -> SUBSET OnuIds]
  BY DEF LostFreeId, LostAt, LostCall, IdInv, Typed
<1>3. ClearedBy(s, lost[s].pon, lost[s].id)
  BY <1>2 DEF ClearedBy
<1>4. \A t \in Sns, q \in Pons, i \in OnuIds : ClearedBy(t, q, i)' => ClearedBy(t, q, i) /\ t # s
  BY <1>2 DEF LostFreeId, ClearedBy, LostCall
<1>5. \A q \in Pons : \A i \in pool'[q] : i \in pool[q] \/ (q = lost[s].pon /\ i = lost[s].id)
  BY <1>2 DEF LostFreeId, Free
<1>6. \A q \in Pons, i \in OnuIds :
         TakenBy(q, i)' = TakenBy(q, i) /\ \A t \in Sns : KeptBy(t, q, i)' = KeptBy(t, q, i)
  BY Zenon, <1>1 DEF TakenBy, KeptBy
<1>7. ASSUME NEW q \in Pons, NEW i \in OnuIds PROVE OneOwnerOf(q, i)'
  <2>1. OneOwnerOf(q, i)
    BY DEF IdInv, OneOwner
  <2>2. CASE q = lost[s].pon /\ i = lost[s].id
    <3>1. /\ ~TakenBy(q, i)
          /\ \A t \in Sns : ~KeptBy(t, q, i) /\ (ClearedBy(t, q, i) => s = t)
      BY Zenon, <1>3, <2>1, <2>2 DEF OneOwnerOf
    <3>. QED  BY Zenon, <1>4, <1>6, <3>1 DEF OneOwnerOf
  <2>3. CASE q # lost[s].pon \/ i # lost[s].id
    <3>1. NoNewOwnerOf(q, i)
      BY <1>4, <1>5, <1>6, <2>3 DEF NoNewOwnerOf
    <3>. QED  BY <2>1, <3>1, NoNewOwnerOfSuffices
  <2>. QED  BY <2>2, <2>3
<1>. QED  BY <1>7 DEF OneOwner

LEMMA NextOwner == ASSUME IdInv, [Next]_vars PROVE OneOwner'
<1>1. ASSUME NEW p \in Pons, RoutineStep(p) PROVE OneOwner'
  BY <1>1, DiscoveryOwner, TakeIndicationOwner, OnuIndicationOwner, GetChildDeviceOwner,
     GetONUIDOwner, SendChildDeviceDetectedOwner DEF RoutineStep
<1>2. ASSUME NEW s \in Sns, LostStep(s) PROVE OneOwner'
  BY <1>2, LostClearDataOwner, LostDeleteOnuOwner, LostFreeIdOwner, LostForgetOwner DEF LostStep
<1>. QED
  BY <1>1, <1>2, ElsewhereOwner, CoreDeletesOwner, CoreForgetsOwner, RestartOwner DEF Next

(* The id of a device the core keeps is not free, for every set of ONUs,   *)
(* ports and ids and every mix of failures, deletions, moves and restarts, *)
(* provided that no answer of the core to ChildDeviceDetected is lost.     *)
THEOREM DeviceIdsHeld ==
    ASSUME \A sc \in Scenarios : "answer" \notin sc.kinds
    PROVE  Spec => []DeviceIdHeld
<1>1. ASSUME Typed PROVE "answer" \notin scenario.kinds
  BY <1>1 DEF Typed, Setting
<1>2. ASSUME Init PROVE OneOwner
  BY Zenon, <1>2 DEF Init, OneOwner, OneOwnerOf, TakenBy, KeptBy, ClearedBy, Idle, Away
<1>3. ASSUME Typed, OneOwner, [Next]_vars PROVE OneOwner'
  BY Zenon, <1>1, <1>3, NextOwner DEF IdInv
<1>4. ASSUME Typed, OneOwner PROVE DeviceIdHeld
  <2>1. SUFFICES ASSUME NEW s \in Sns, core[s] # None, ~core[s].del
                 PROVE  core[s].id \notin pool[core[s].pon]
    BY DEF DeviceIdHeld
  <2>2. core[s].pon \in Pons /\ core[s].id \in OnuIds
    BY <1>4, <2>1 DEF Typed, Device
  <2>3. KeptBy(s, core[s].pon, core[s].id)
    BY Zenon, <2>1 DEF KeptBy
  <2>. QED  BY <1>4, <2>2, <2>3 DEF OneOwner, OneOwnerOf
<1>. QED  BY <1>2, <1>3, <1>4, OnusTyped, PTL DEF Spec

-------------------------------------------------------------------------------
(* ONUs in place: what a discovery and its surroundings agree on while no   *)
(* device is deleted and no ONU moved, and how a step takes a discovery on. *)
(* OnuPlaceProofs shows that all steps keep PlaceInv.                       *)
Discovering == {"check", "load", "get", "id", "detect", "client", "state", "gem", "activate"}
HasDevice   == {"client", "state", "gem", "activate"}

\* the core has s as the device with id i on port p
IsDevice(s, p, i) == core[s] # None /\ core[s].pon = p /\ core[s].id = i

\* an ONU is announced on the port it is plugged into
Announced(p) ==
    \A k \in 1..Len(queue[p]) : queue[p][k].kind = "disc" => attach[queue[p][k].sn] = p

\* the discovery on port p is of an ONU plugged in there, carries the id of its
\* device once there is one, and activates it under the id its OnuGemInfo has
Discovery(p) ==
    /\ routine[p].pc \in Discovering => attach[routine[p].sn] = p
    /\ routine[p].pc \in HasDevice => IsDevice(routine[p].sn, p, routine[p].id)
    /\ routine[p].pc = "activate" => gemInfo[<<p, routine[p].id>>] = routine[p].sn

\* no device is being deleted, and each is on the port its ONU is plugged into
DevicesKept ==
    \A s \in Sns : lost[s] = Away /\ (core[s] # None => ~core[s].del /\ core[s].pon = attach[s])

\* an OnuGemInfo is stored under the id of the device of its ONU
Stored == \A k \in Keys : gemInfo[k] # None => IsDevice(gemInfo[k], k[1], k[2])

Configures == \A o \in olt : gemInfo[<<o.pon, o.id>>] = o.sn

PlaceInv ==
    /\ \A p \in Pons : Announced(p) /\ Discovery(p)
    /\ DevicesKept /\ Stored /\ Configures

-------------------------------------------------------------------------------
(* A step in place neither moves an ONU nor takes away a device or an      *)
(* OnuGemInfo.                                                             *)
Grows ==
    /\ attach' = attach
    /\ \A s \in Sns : core[s] # None => core'[s] = core[s]
    /\ \A k \in Keys : gemInfo[k] # None => gemInfo'[k] = gemInfo[k]

Others(p) == \A q \in Pons \ {p} : routine'[q] = routine[q]

LEMMA DiscoveryStays ==
    ASSUME Typed, Grows, NEW p \in Pons, Discovery(p), routine'[p] = routine[p]
    PROVE  Discovery(p)'
<1>1. routine[p] \in Routine
  BY DEF Typed
<1>2. routine[p].pc \in HasDevice => routine[p].sn \in Sns /\ routine[p].id \in OnuIds
  BY <1>1 DEF Routine, HasDevice
<1>3. routine[p].pc \in HasDevice => <<p, routine[p].id>> \in Keys
  BY <1>2 DEF Keys
<1>4. routine'[p].pc \in Discovering => attach'[routine'[p].sn] = p
  BY DEF Discovery, Grows
<1>5. routine[p].pc \in HasDevice =>
         core'[routine[p].sn] # None /\ core'[routine[p].sn].pon = p
         /\ core'[routine[p].sn].id = routine[p].id
  BY <1>2 DEF Discovery, Grows, IsDevice
<1>6. routine[p].pc = "activate" => gemInfo'[<<p, routine[p].id>>] = routine[p].sn
  BY <1>2, <1>3, OnuDiscoveryAssumption DEF Discovery, Grows, HasDevice
<1>. QED  BY <1>4, <1>5, <1>6 DEF Discovery, IsDevice

LEMMA DevicesKeptStays ==
    ASSUME DevicesKept, attach' = attach, core' = core, lost' = lost PROVE DevicesKept'
BY DEF DevicesKept

LEMMA StoredStays ==
    ASSUME Typed, Stored, Grows, gemInfo' = gemInfo PROVE Stored'
<1>1. SUFFICES ASSUME NEW k \in Keys, gemInfo[k] # None
               PROVE  /\ core'[gemInfo[k]] # None /\ core'[gemInfo[k]].pon = k[1]
                      /\ core'[gemInfo[k]].id = k[2]
  BY DEF Stored, IsDevice
<1>2. gemInfo[k] \in Sns
  BY <1>1 DEF Typed
<1>. QED  BY <1>1, <1>2 DEF Stored, Grows, IsDevice

(* An ONU the OLT has is one it had, up to its state. *)
SameOnus == \A n \in olt' : \E o \in olt : o.pon = n.pon /\ o.id = n.id /\ o.sn = n.sn

LEMMA ConfiguresStays ==
    ASSUME Typed, Configures, Grows, SameOnus PROVE Configures'
<1>1. SUFFICES ASSUME NEW n \in olt' PROVE gemInfo'[<<n.pon, n.id>>] = n.sn
  BY Zenon DEF Configures
<1>2. PICK o \in olt : o.pon = n.pon /\ o.id = n.id /\ o.sn = n.sn
  BY DEF SameOnus
<1>3. <<o.pon, o.id>> \in Keys /\ o.sn \in Sns
  BY DEF Typed, Keys, Onu
<1>4. gemInfo[<<o.pon, o.id>>] = o.sn /\ o.sn # None
  BY <1>3, OnuDiscoveryAssumption DEF Configures
<1>. QED  BY <1>2, <1>3, <1>4 DEF Grows

LEMMA PutAnnounced ==
    ASSUME Typed, NEW p \in Pons, NEW ind \in Indication, Put(p, ind), attach' = attach,
           ind.kind = "disc" => attach[ind.sn] = p, NEW q \in Pons, Announced(q)
    PROVE  Announced(q)'
<1>1. queue[p] \in Seq(Indication) /\ queue[q] \in Seq(Indication)
  BY DEF Typed
<1>2. queue'[q] = IF q = p THEN Append(queue[p], ind) ELSE queue[q]
  BY DEF Put, Typed
<1>3. CASE q # p
  BY <1>2, <1>3 DEF Announced
<1>4. CASE q = p
  <2>1. queue'[p] = Append(queue[p], ind)
    BY <1>2, <1>4
  <2>2. Len(queue'[p]) = Len(queue[p]) + 1 /\ Len(queue[p]) \in Nat
    BY <1>1, <2>1
  <2>3. ASSUME NEW k \in 1..Len(queue'[p])
        PROVE  queue'[p][k] = IF k = Len(queue[p]) + 1 THEN ind ELSE queue[p][k]
    BY <1>1, <2>1
  <2>4. ASSUME NEW k \in 1..Len(queue'[p]), queue'[p][k].kind = "disc"
        PROVE  attach[queue'[p][k].sn] = p
    <3>1. CASE k = Len(queue[p]) + 1
      BY <2>3, <2>4, <3>1
    <3>2. CASE k # Len(queue[p]) + 1
      <4>1. k \in 1..Len(queue[p]) /\ queue'[p][k] = queue[p][k]
        BY <2>2, <2>3, <3>2
      <4>. QED  BY <1>4, <2>4, <4>1 DEF Announced
    <3>. QED  BY <3>1, <3>2
  <2>. QED  BY <1>4, <2>4 DEF Announced
<1>. QED  BY <1>3, <1>4

LEMMA TakeAnnounced ==
    ASSUME Typed, NEW p \in Pons, TakeIndication(p), NEW q \in Pons, Announced(q)
    PROVE  Announced(q)'
<1>1. queue[p] \in Seq(Indication) /\ queue[p] # <<>> /\ attach' = attach
  BY DEF Typed, TakeIndication, env
<1>2. queue'[q] = IF q = p THEN Tail(queue[p]) ELSE queue[q]
  BY DEF TakeIndication, Typed
<1>3. CASE q # p
  BY <1>1, <1>2, <1>3 DEF Announced
<1>4. CASE q = p
  <2>1. queue'[p] = Tail(queue[p])
    BY <1>2, <1>4
  <2>2. Len(queue'[p]) = Len(queue[p]) - 1 /\ Len(queue[p]) \in Nat
    BY <1>1, <2>1
  <2>3. ASSUME NEW k \in 1..Len(queue'[p])
        PROVE  queue'[p][k] = queue[p][k + 1] /\ k + 1 \in 1..Len(queue[p])
    BY <1>1, <2>1, <2>2
  <2>4. ASSUME NEW k \in 1..Len(queue'[p]), queue'[p][k].kind = "disc"
        PROVE  attach[queue'[p][k].sn] = p
    BY <1>4, <2>3, <2>4 DEF Announced
  <2>. QED  BY <1>1, <1>4, <2>4 DEF Announced
<1>. QED  BY <1>3, <1>4

-------------------------------------------------------------------------------
(* How a step of its routine takes a discovery on: it ends, or it goes on  *)
(* with the same ONU and, once that has a device, with the same id.        *)
Ends(p) == routine'[p].pc \notin Discovering

Proceeds(p) ==
    /\ routine[p].pc \in Discovering /\ routine'[p].sn = routine[p].sn
    /\ routine'[p].pc \in HasDevice =>
          routine[p].pc \in HasDevice /\ routine'[p].id = routine[p].id
    /\ routine'[p].pc # "activate"

LEMMA GotoStep ==
    ASSUME Typed, NEW p \in Pons, NEW pc, Goto(p, pc)
    PROVE  /\ Others(p)
           /\ pc = "idle" => routine'[p] = Idle
           /\ pc # "idle" => /\ routine'[p].pc = pc
                             /\ routine'[p].sn = routine[p].sn /\ routine'[p].id = routine[p].id
<1>1. routine \in [Pons -> Routine] /\ routine[p] \in Routine
  BY DEF Typed
<1>2. Others(p) /\ (pc = "idle" => routine'[p] = Idle)
      /\ (pc # "idle" => routine'[p] = [routine[p] EXCEPT !.pc = pc])
  BY <1>1 DEF Goto, Others
<1>3. /\ [routine[p] EXCEPT !.pc = pc].pc = pc
      /\ [routine[p] EXCEPT !.pc = pc].sn = routine[p].sn
      /\ [routine[p] EXCEPT !.pc = pc].id = routine[p].id
  BY <1>1 DEF Routine
<1>. QED  BY <1>2, <1>3, Zenon

LEMMA ReturnStep ==
    ASSUME Typed, NEW p \in Pons, Return(p)
    PROVE  Others(p) /\ Ends(p)
BY DEF Typed, Return, Idle, Others, Ends, Discovering

LEMMA IdleEnds == ASSUME NEW p, routine'[p] = Idle PROVE Ends(p)
BY DEF Idle, Ends, Discovering

LEMMA GotoWithStep ==
    ASSUME Typed, NEW p \in Pons, NEW pc, NEW id, GotoWith(p, pc, id)
    PROVE  /\ Others(p)
           /\ routine'[p].pc = pc /\ routine'[p].sn = routine[p].sn /\ routine'[p].id = id
<1>1. routine \in [Pons -> Routine] /\ routine[p] \in Routine
  BY DEF Typed
<1>2. Others(p) /\ routine'[p] = [routine[p] EXCEPT !.pc = pc, !.id = id]
  BY <1>1 DEF GotoWith, Others
<1>3. /\ [routine[p] EXCEPT !.pc = pc, !.id = id].pc = pc
      /\ [routine[p] EXCEPT !.pc = pc, !.id = id].sn = routine[p].sn
      /\ [routine[p] EXCEPT !.pc = pc, !.id = id].id = id
  BY <1>1 DEF Routine
<1>. QED  BY <1>2, <1>3

(* The steps before the core is asked, and between its answer and the      *)
(* OnuGemInfo.                                                             *)
LEMMA ProceedingSteps ==
    ASSUME Typed, NEW p \in Pons,
           \/ CheckDevice(p) \/ CheckTechProfile(p) \/ LoadOrStore(p) \/ GetONUID(p)
           \/ CacheOnu(p) \/ UpdateOnuDeviceState(p)
    PROVE  Others(p) /\ (Ends(p) \/ Proceeds(p))
<1>1. ASSUME NEW pc \in {"idle", "load", "get", "completed", "detect", "state", "gem"}, Goto(p, pc),
             routine[p].pc \in Discovering,
             pc \in {"state", "gem"} => routine[p].pc \in HasDevice
      PROVE  Others(p) /\ (Ends(p) \/ Proceeds(p))
  <2>1. CASE pc = "idle"
    BY Zenon, <1>1, <2>1, GotoStep, IdleEnds
  <2>2. CASE pc # "idle"
    BY <1>1, <2>2, GotoStep DEF Proceeds, HasDevice, Discovering, Ends
  <2>. QED  BY Zenon, <2>1, <2>2
<1>2. CASE CheckDevice(p)
  BY Zenon, <1>1, <1>2, ReturnStep DEF CheckDevice, At, Discovering
<1>3. CASE CheckTechProfile(p)
  BY <1>1, <1>3, ReturnStep, Zenon DEF CheckTechProfile, At, Discovering
<1>4. CASE LoadOrStore(p)
  BY Zenon, <1>1, <1>4 DEF LoadOrStore, At, Discovering
<1>5. CASE GetONUID(p)
  <2>1. CASE Return(p)
    BY <2>1, ReturnStep
  <2>2. ASSUME NEW id \in pool[p], GotoWith(p, "detect", id) PROVE Others(p) /\ Proceeds(p)
    BY Zenon, <1>5, <2>2, GotoWithStep DEF GetONUID, At, Proceeds, Discovering, HasDevice
  <2>. QED  BY <1>5, <2>1, <2>2 DEF GetONUID
<1>6. CASE CacheOnu(p)
  BY Zenon, <1>1, <1>6, ReturnStep DEF CacheOnu, At, Discovering, HasDevice
<1>7. CASE UpdateOnuDeviceState(p)
  BY Zenon, <1>1, <1>7, ReturnStep DEF UpdateOnuDeviceState, At, Discovering, HasDevice
<1>. QED  BY <1>2, <1>3, <1>4, <1>5, <1>6, <1>7

(* The steps that end a discovery, and those of an indication. *)
LEMMA EndingSteps ==
    ASSUME Typed, NEW p \in Pons,
           ActivateOnu(p) \/ Completed(p) \/ OnuIndication(p) \/ UpdateOnuStates(p)
    PROVE  Others(p) /\ Ends(p)
<1>1. CASE ActivateOnu(p)
  <2>1. Goto(p, "completed") \/ Return(p)
    BY <1>1, Zenon DEF ActivateOnu
  <2>2. ASSUME Goto(p, "completed") PROVE Others(p) /\ routine'[p].pc = "completed"
    BY <2>2, GotoStep
  <2>3. "completed" \notin Discovering
    BY DEF Discovering
  <2>. QED  BY <2>1, <2>2, <2>3, ReturnStep, Zenon DEF Ends
<1>2. CASE Completed(p) \/ UpdateOnuStates(p)
  BY <1>2, ReturnStep DEF Completed, UpdateOnuStates
<1>3. CASE OnuIndication(p)
  <2>1. CASE Return(p)
    BY <2>1, ReturnStep
  <2>2. ASSUME NEW t, routine' = [routine EXCEPT ![p] =
                  [pc |-> IF At(p, "up") THEN "send_up" ELSE "send_down", sn |-> t, id |-> None]]
        PROVE  Others(p) /\ Ends(p)
    BY <2>2 DEF Typed, Others, Ends, Discovering
  <2>. QED  BY Zenon, <1>3, <2>1, <2>2 DEF OnuIndication
<1>. QED  BY <1>1, <1>2, <1>3

LEMMA GoesOn ==
    ASSUME Typed, Grows, NEW p \in Pons, Discovery(p), Ends(p) \/ Proceeds(p)
    PROVE  Discovery(p)'
<1>1. CASE Ends(p)
  BY Zenon, <1>1 DEF Ends, Discovery, Discovering, HasDevice
<1>2. CASE Proceeds(p)
  <2>1. routine[p] \in Routine
    BY Zenon DEF Typed
  <2>2. routine'[p].pc \in Discovering => attach'[routine'[p].sn] = p
    BY Zenon, <1>2 DEF Proceeds, Discovery, Grows
  <2>3. ASSUME routine'[p].pc \in HasDevice PROVE IsDevice(routine[p].sn, p, routine[p].id)'
    <3>1. routine[p].pc \in HasDevice /\ routine'[p].id = routine[p].id
          /\ routine'[p].sn = routine[p].sn
      BY Zenon, <1>2, <2>3 DEF Proceeds
    <3>2. routine[p].sn \in Sns /\ IsDevice(routine[p].sn, p, routine[p].id)
      BY Zenon, <2>1, <3>1 DEF Routine, HasDevice, Discovery
    <3>. QED  BY Zenon, <3>1, <3>2 DEF Grows, IsDevice
  <2>. QED  BY Zenon, <1>2, <2>2, <2>3 DEF Discovery, Proceeds
<1>. QED  BY <1>1, <1>2

-------------------------------------------------------------------------------
(* discOnus as a lock.  LoadOrStore lets a discovery go on when the ONU    *)
(* has no entry, and the entry stays until the discovery returns, unless   *)
(* something else takes it away: an ONU that went down, was disabled or    *)
(* deleted, or DisableDevice.  Unforced: no step takes the entry of an ONU *)
(* away from a routine that goes on processing its discovery.              *)
Unforced ==
    \A p \in Pons : Processing(p) /\ Processing(p)' => discOnus'[routine[p].sn] # "none"

Held == \A p \in Pons : Processing(p) => discOnus[routine[p].sn] # "none"

\* the routine of p processes the ONU it processed before
Continues(p) == Processing(p) /\ routine'[p].sn = routine[p].sn

\* the routine of p finds no entry and makes one
Locks(p) ==
    /\ Others(p) /\ routine'[p].sn = routine[p].sn
    /\ discOnus[routine[p].sn] = "none" /\ discOnus'[routine[p].sn] = "inProcess"

LEMMA RoutineLocks ==
    ASSUME Typed, NEW p \in Pons, RoutineStep(p)
    PROVE  Others(p) /\ (Processing(p)' => Continues(p) \/ Locks(p))
<1>. DEFINE Done == Others(p) /\ ~Processing(p)'
            Kept == Others(p) /\ routine'[p].sn = routine[p].sn
<1>1. ASSUME Return(p) PROVE Done
  BY <1>1 DEF Typed, Return, Idle, Others, Processing
<1>2. ASSUME NEW pc, Goto(p, pc) PROVE Kept \/ Done
  BY <1>2, GotoStep DEF Idle, Processing
<1>3. ASSUME NEW pc, Goto(p, pc), pc \in {"idle", "load", "completed"} PROVE Done
  BY <1>3, GotoStep DEF Idle, Processing
<1>4. ASSUME NEW pc, NEW id, GotoWith(p, pc, id) PROVE Kept
  BY <1>4, GotoWithStep
<1>5. CASE TakeIndication(p)
  <2>1. queue[p] \in Seq(Indication) /\ queue[p] # <<>>
    BY <1>5 DEF TakeIndication, Typed
  <2>2. Head(queue[p]) \in Indication
    BY <2>1
  <2>3. Head(queue[p]).kind \in {"disc", "up", "down"}
    BY <2>2 DEF Indication
  <2>. QED  BY <1>5, <2>3 DEF TakeIndication, Typed, Others, Processing
<1>6. CASE CheckDevice(p)
  BY Zenon, <1>1, <1>3, <1>6 DEF CheckDevice
<1>7. CASE CheckTechProfile(p)
  BY <1>1, <1>3, <1>7, Zenon DEF CheckTechProfile
<1>8. CASE LoadOrStore(p)
  <2>1. routine[p] \in Routine /\ discOnus \in [Sns -> {"none", "inProcess", "completed"}]
    BY DEF Typed
  <2>2. routine[p].sn \in Sns
    BY Zenon, <1>8, <2>1 DEF LoadOrStore, At, Routine
  <2>3. CASE discOnus[routine[p].sn] = "none"
    BY <1>8, <2>1, <2>2, <2>3, GotoStep DEF LoadOrStore, Locks
  <2>4. CASE discOnus[routine[p].sn] # "none"
    BY Zenon, <1>3, <1>8, <2>4 DEF LoadOrStore
  <2>. QED  BY Zenon, <2>3, <2>4 DEF Locks
<1>9. CASE GetChildDevice(p)
  BY <1>1, <1>2, <1>4, <1>9 DEF GetChildDevice, At, Continues, Processing
<1>10. CASE GetONUID(p)
  BY Zenon, <1>1, <1>4, <1>10 DEF GetONUID, At, Continues, Processing
<1>11. CASE SendChildDeviceDetected(p)
  BY Zenon, <1>1, <1>2, <1>11 DEF SendChildDeviceDetected, At, Continues, Processing
<1>12. CASE CacheOnu(p) \/ UpdateOnuDeviceState(p) \/ AddNewOnuGemInfo(p)
  BY Zenon, <1>1, <1>2, <1>12
     DEF CacheOnu, UpdateOnuDeviceState, AddNewOnuGemInfo, At, Continues, Processing
<1>13. CASE ActivateOnu(p)
  <2>1. Goto(p, "completed") \/ Return(p)
    BY <1>13, Zenon DEF ActivateOnu
  <2>. QED  BY <1>1, <1>3, <2>1
<1>14. CASE Completed(p) \/ UpdateOnuStates(p)
  BY Zenon, <1>1, <1>14 DEF Completed, UpdateOnuStates
<1>15. CASE OnuIndication(p)
  <2>1. ASSUME NEW t, routine' = [routine EXCEPT ![p] =
                  [pc |-> IF At(p, "up") THEN "send_up" ELSE "send_down", sn |-> t, id |-> None]]
        PROVE  Done
    BY Zenon, <2>1 DEF Typed, Others, Processing
  <2>. QED  BY <1>1, <1>15, <2>1 DEF OnuIndication
<1>. QED
  BY Zenon, <1>5, <1>6, <1>7, <1>8, <1>9, <1>10, <1>11, <1>12, <1>13, <1>14, <1>15 DEF RoutineStep

LEMMA NextLocks ==
    ASSUME Typed, Next, NEW p \in Pons, Processing(p)'
    PROVE  Continues(p) \/ Locks(p)
<1>1. CASE \E q \in Pons : RoutineStep(q)
  <2>1. PICK q \in Pons : RoutineStep(q)
    BY <1>1
  <2>2. CASE q = p
    BY Zenon, <2>1, <2>2, RoutineLocks
  <2>3. CASE q # p
    BY <2>1, <2>3, RoutineLocks DEF Others, Continues, Processing
  <2>. QED  BY <2>2, <2>3
<1>2. CASE Restart
  BY <1>2 DEF Restart, Processing, Idle
<1>3. ASSUME \/ OltStep \/ DisableDevice
             \/ \E s \in Sns : \/ OltDiscovers(s) \/ OnuDisabled(s) \/ ReconcileOnu(s)
                               \/ CoreDeletes(s) \/ CoreForgets(s) \/ LostStep(s)
                               \/ \E q \in Pons : Replug(s, q)
             \/ \E k \in Keys : StoreTechProfile(k)
      PROVE  routine' = routine
  BY <1>3, Zenon DEF OltStep, OltRanges, OltReportsDown, DisableDevice, OltDiscovers, OnuDisabled,
               ReconcileOnu, CoreDeletes, CoreForgets, LostStep, LostClearData, LostDeleteOnu,
               LostFreeId, LostForget, Replug, StoreTechProfile, env
<1>. QED  BY <1>1, <1>2, <1>3 DEF Next, Continues, Processing

LEMMA LockKept ==
    ASSUME Typed, Held, OneAtATime, Next, Unforced
    PROVE  Held' /\ OneAtATime'
<1>1. ASSUME NEW p \in Pons, Processing(p)' PROVE discOnus'[routine'[p].sn] # "none"
  BY <1>1, NextLocks DEF Unforced, Continues, Locks
<1>2. ASSUME NEW p \in Pons, NEW q \in Pons, p # q, Processing(p)', Processing(q)'
      PROVE  routine'[p].sn # routine'[q].sn
  <2>1. ASSUME NEW a \in Pons, NEW b \in Pons, a # b, Locks(a), Processing(b)'
        PROVE  routine'[a].sn # routine'[b].sn
    <3>1. routine'[b] = routine[b] /\ Processing(b)
      BY <2>1 DEF Locks, Others, Processing
    <3>. QED  BY <2>1, <3>1 DEF Locks, Held
  <2>. QED  BY <1>2, <2>1, NextLocks DEF Continues, OneAtATime
<1>. QED  BY Zenon, <1>1, <1>2 DEF Held, OneAtATime

(* One routine at a time processes the discovery of an ONU, for every set  *)
(* of ONUs, ports and ids, whatever fails, moves or restarts, as long as   *)
(* the entry of discOnus is not taken away under a discovery that goes on. *)
THEOREM DiscoveredOneAtATime == Spec /\ [][Unforced]_vars => []OneAtATime
<1>1. ASSUME Init PROVE Held /\ OneAtATime
  BY <1>1 DEF Init, Held, OneAtATime, Processing, Idle
<1>2. ASSUME Typed, Held /\ OneAtATime, [Next]_vars, [Unforced]_vars
      PROVE  (Held /\ OneAtATime)'
  <2>1. CASE UNCHANGED vars
    BY <1>2, <2>1 DEF vars, adapter, Held, OneAtATime, Processing
  <2>2. CASE ~UNCHANGED vars
    BY <1>2, <2>2, LockKept
  <2>. QED  BY <2>1, <2>2
<1>. QED  BY <1>1, <1>2, OnusTyped, PTL DEF Spec
===============================================================================

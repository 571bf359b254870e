---------------------------- MODULE OnuPlaceProofs ----------------------------
(***************************************************************************)
(* No two ONUs share an id at the OLT, and the OnuGemInfo of an id is that *)
(* of the ONU the OLT has under it, while no device is deleted and no ONU  *)
(* is moved to another port.  Neither is inductive: activateONU writes     *)
(* both from the id a discovery carries.  What makes them so is that the   *)
(* id is that of the device of the ONU, from the answer of the core to the *)
(* activation, and that an id has one owner (OnuIdProofs).                 *)
(*                                                                         *)
(* From that, and from what the caches hold: an ONU in service passes no   *)
(* check, and with CheckOnuDevExistenceAtOnuDiscovery an ONU is activated  *)
(* once for its device.                                                    *)
(***************************************************************************)
EXTENDS OnuIdProofs

(* Once the step of port p is known to keep its discovery in place, so are *)
(* the discoveries of the other ports.                                     *)
LEMMA RoutineInPlace ==
    ASSUME Typed, PlaceInv, Grows, NEW p \in Pons, Others(p), Discovery(p)'
    PROVE  \A q \in Pons : Discovery(q)'
BY DiscoveryStays DEF PlaceInv, Others

(* A step of a routine that leaves the core, the OnuGemInfo and the OLT    *)
(* alone.                                                                  *)
LEMMA QuietInPlace ==
    ASSUME Typed, PlaceInv, \A q \in Pons : Announced(q)' /\ Discovery(q)',
           attach' = attach, core' = core, lost' = lost, gemInfo' = gemInfo, SameOnus
    PROVE  PlaceInv'
<1>1. Grows
  BY DEF Grows
<1>. QED
  BY <1>1, DevicesKeptStays, StoredStays, ConfiguresStays DEF PlaceInv

LEMMA AnnouncedStays ==
    ASSUME PlaceInv, queue' = queue, attach' = attach PROVE \A q \in Pons : Announced(q)'
BY DEF PlaceInv, Announced

LEMMA ProceedingInPlace ==
    ASSUME Typed, PlaceInv, NEW p \in Pons,
           \/ CheckDevice(p) \/ CheckTechProfile(p) \/ LoadOrStore(p) \/ GetONUID(p)
           \/ CacheOnu(p) \/ UpdateOnuDeviceState(p)
           \/ Completed(p) \/ OnuIndication(p) \/ UpdateOnuStates(p)
    PROVE  PlaceInv'
<1>1. /\ attach' = attach /\ core' = core /\ lost' = lost /\ gemInfo' = gemInfo /\ olt' = olt
      /\ queue' = queue
  BY DEF CheckDevice, CheckTechProfile, LoadOrStore, GetONUID, CacheOnu, UpdateOnuDeviceState,
         Completed, OnuIndication, UpdateOnuStates, adapter, env
<1>2. Grows /\ SameOnus
  BY <1>1 DEF Grows, SameOnus
<1>3. Others(p) /\ (Ends(p) \/ Proceeds(p))
  BY ProceedingSteps, EndingSteps
<1>4. Discovery(p)'
  BY <1>2, <1>3, GoesOn DEF PlaceInv
<1>5. \A q \in Pons : Discovery(q)'
  BY <1>2, <1>3, <1>4, RoutineInPlace
<1>. QED  BY Zenon, <1>1, <1>2, <1>5, AnnouncedStays, QuietInPlace

LEMMA TakeIndicationInPlace ==
    ASSUME Typed, PlaceInv, NEW p \in Pons, TakeIndication(p) PROVE PlaceInv'
<1>1. /\ attach' = attach /\ core' = core /\ lost' = lost /\ gemInfo' = gemInfo /\ olt' = olt
      /\ queue[p] \in Seq(Indication) /\ queue[p] # <<>>
  BY DEF TakeIndication, Typed, adapter, env
<1>2. Grows /\ SameOnus
  BY <1>1 DEF Grows, SameOnus
<1>3. /\ Head(queue[p]) = queue[p][1] /\ 1 \in 1..Len(queue[p]) /\ Head(queue[p]) \in Indication
  BY <1>1
<1>4. Head(queue[p]).kind = "disc" => attach[Head(queue[p]).sn] = p
  BY <1>3 DEF PlaceInv, Announced
<1>5. /\ Others(p) /\ routine'[p].sn = Head(queue[p]).sn
      /\ routine'[p].pc = IF Head(queue[p]).kind # "disc" THEN Head(queue[p]).kind
                          ELSE IF ExistenceCheck = "off" THEN "load" ELSE "check"
  BY DEF TakeIndication, Typed, Others
<1>6. routine'[p].pc \notin HasDevice
      /\ (routine'[p].pc \in Discovering => Head(queue[p]).kind = "disc")
  BY <1>3, <1>5 DEF Indication, HasDevice, Discovering
<1>7. Discovery(p)'
  BY <1>1, <1>4, <1>5, <1>6 DEF Discovery, HasDevice
<1>8. \A q \in Pons : Discovery(q)'
  BY <1>2, <1>5, <1>7, RoutineInPlace
<1>9. \A q \in Pons : Announced(q)'
  BY TakeAnnounced DEF PlaceInv
<1>. QED  BY <1>1, <1>2, <1>8, <1>9, QuietInPlace

(* The core's device of the ONU is on the port of the discovery, which     *)
(* goes on with its id.                                                    *)
LEMMA GetChildDeviceInPlace ==
    ASSUME Typed, PlaceInv, NEW p \in Pons, GetChildDevice(p) PROVE PlaceInv'
<1>1. /\ attach' = attach /\ core' = core /\ lost' = lost /\ gemInfo' = gemInfo /\ olt' = olt
      /\ queue' = queue
  BY DEF GetChildDevice
<1>2. Grows /\ SameOnus
  BY <1>1 DEF Grows, SameOnus
<1> PICK s \in Sns : s = routine[p].sn
  BY DEF GetChildDevice, At, Typed, Routine
<1>3. routine[p].pc = "get" /\ attach[s] = p
  BY Zenon DEF GetChildDevice, At, PlaceInv, Discovery, Discovering
<1>4. Others(p) /\ Discovery(p)'
  <2>1. CASE Return(p)
    BY <1>2, <2>1, ReturnStep, GoesOn DEF PlaceInv
  <2>2. CASE Goto(p, "id")
    <3>1. Others(p) /\ Proceeds(p)
      BY <1>3, <2>2, GotoStep DEF Proceeds, Discovering, HasDevice
    <3>. QED  BY <1>2, <3>1, GoesOn DEF PlaceInv
  <2>3. CASE core[s] # None /\ GotoWith(p, "client", core[s].id)
    <3>1. Others(p) /\ routine'[p].pc = "client" /\ routine'[p].sn = s /\ routine'[p].id = core[s].id
      BY <2>3, GotoWithStep
    <3>2. core[s].pon = p
      BY <1>3, <2>3 DEF PlaceInv, DevicesKept
    <3>. QED  BY <1>1, <1>3, <2>3, <3>1, <3>2 DEF Discovery, IsDevice
  <2>. QED  BY <2>1, <2>2, <2>3 DEF GetChildDevice
<1>5. \A q \in Pons : Discovery(q)'
  BY <1>2, <1>4, RoutineInPlace
<1>. QED  BY <1>1, <1>2, <1>5, AnnouncedStays, QuietInPlace

(* The core creates the device on the port and under the id of the         *)
(* discovery, which goes on with it.                                       *)
LEMMA SendChildDeviceDetectedInPlace ==
    ASSUME Typed, PlaceInv, NEW p \in Pons, SendChildDeviceDetected(p) PROVE PlaceInv'
<1> PICK s \in Sns, id \in OnuIds : s = routine[p].sn /\ id = routine[p].id
  BY DEF SendChildDeviceDetected, At, Typed, Routine
<1>1. /\ attach' = attach /\ lost' = lost /\ gemInfo' = gemInfo /\ olt' = olt /\ queue' = queue
      /\ core \in [Sns -> {None} \cup Device]
  BY DEF SendChildDeviceDetected, Typed
<1>2. \/ core' = core /\ Return(p)
      \/ /\ core[s] = None /\ core' = [core EXCEPT ![s] = [pon |-> p, id |-> id, del |-> FALSE]]
         /\ Return(p) \/ Goto(p, "client")
  BY DEF SendChildDeviceDetected
<1>3. attach[s] = p
  BY Zenon DEF SendChildDeviceDetected, At, PlaceInv, Discovery, Discovering
<1>4. /\ \A t \in Sns \ {s} : core'[t] = core[t]
      /\ core'[s] = core[s] \/ (core[s] = None /\ core'[s] = [pon |-> p, id |-> id, del |-> FALSE])
  BY <1>1, <1>2
<1>5. Grows /\ SameOnus
  BY <1>1, <1>4 DEF Grows, SameOnus
<1>6. Others(p) /\ Discovery(p)'
  <2>1. CASE Return(p)
    BY <1>5, <2>1, ReturnStep, GoesOn DEF PlaceInv
  <2>2. CASE Goto(p, "client") /\ core' = [core EXCEPT ![s] = [pon |-> p, id |-> id, del |-> FALSE]]
    <3>1. Others(p) /\ routine'[p].pc = "client" /\ routine'[p].sn = s /\ routine'[p].id = id
      <4>1. Goto(p, "client")
        BY <2>2
      <4>2. /\ Others(p) /\ routine'[p].pc = "client"
            /\ routine'[p].sn = routine[p].sn /\ routine'[p].id = routine[p].id
        BY <4>1, GotoStep
      <4>. QED  BY <4>2
    <3>2. core'[s] = [pon |-> p, id |-> id, del |-> FALSE]
      BY <1>1, <2>2
    <3>3. core'[s] # None /\ core'[s].pon = p /\ core'[s].id = id
      <4>1. [pon |-> p, id |-> id, del |-> FALSE] \in Device
        BY DEF Device
      <4>2. [pon |-> p, id |-> id, del |-> FALSE] # None
        BY <4>1, OnuDiscoveryAssumption, Zenon
      <4>. QED  BY <3>2, <4>2
    <3>. QED  BY <1>1, <1>3, <3>1, <3>3 DEF Discovery, IsDevice
  <2>. QED  BY <1>2, <2>1, <2>2
<1>7. \A q \in Pons : Discovery(q)'
  BY <1>5, <1>6, RoutineInPlace
<1>8. DevicesKept'
  BY <1>1, <1>3, <1>4 DEF PlaceInv, DevicesKept
<1>. QED
  BY <1>1, <1>5, <1>7, <1>8, AnnouncedStays, StoredStays, ConfiguresStays DEF PlaceInv

(* activateONU: an OnuGemInfo that is there already is that of the device  *)
(* with this id, which is the ONU being discovered.                        *)
LEMMA AddNewOnuGemInfoInPlace ==
    ASSUME Typed, OneOwner, PlaceInv, NEW p \in Pons, AddNewOnuGemInfo(p) PROVE PlaceInv'
<1> PICK s \in Sns, id \in OnuIds : s = routine[p].sn /\ id = routine[p].id
  BY DEF AddNewOnuGemInfo, At, Typed, Routine
<1>1. /\ attach' = attach /\ core' = core /\ lost' = lost /\ olt' = olt /\ queue' = queue
      /\ gemInfo \in [Keys -> Sns \cup {None}] /\ <<p, id>> \in Keys
  BY DEF AddNewOnuGemInfo, Typed, Keys
<1>2. IsDevice(s, p, id) /\ attach[s] = p
  BY DEF AddNewOnuGemInfo, At, PlaceInv, Discovery, HasDevice, Discovering
<1>3. ASSUME gemInfo[<<p, id>>] # None PROVE gemInfo[<<p, id>>] = s
  <2>1. PICK t \in Sns : t = gemInfo[<<p, id>>]
    BY <1>1, <1>3
  <2>2. IsDevice(t, p, id)
    BY <1>1, <1>3, <2>1 DEF PlaceInv, Stored
  <2>3. KeptBy(t, p, id) /\ KeptBy(s, p, id)
    BY <1>2, <2>2 DEF IsDevice, KeptBy, PlaceInv, DevicesKept
  <2>4. s = t
    BY <2>3 DEF OneOwner, OneOwnerOf
  <2>. QED  BY <2>1, <2>4
<1>4. \/ gemInfo' = gemInfo /\ Return(p)
      \/ gemInfo[<<p, id>>] # None /\ gemInfo' = gemInfo /\ Goto(p, "activate")
      \/ /\ gemInfo[<<p, id>>] = None /\ gemInfo' = [gemInfo EXCEPT ![<<p, id>>] = s]
         /\ Goto(p, "activate")
  BY DEF AddNewOnuGemInfo
<1>5. /\ \A k \in Keys \ {<<p, id>>} : gemInfo'[k] = gemInfo[k]
      /\ \/ gemInfo'[<<p, id>>] = gemInfo[<<p, id>>]
         \/ gemInfo[<<p, id>>] = None /\ gemInfo'[<<p, id>>] = s
      /\ Goto(p, "activate") => gemInfo'[<<p, id>>] = s \/ Return(p)
  BY <1>1, <1>3, <1>4
<1>6. Grows /\ SameOnus
  BY <1>1, <1>5 DEF Grows, SameOnus
<1>7. Others(p) /\ Discovery(p)'
  <2>1. CASE Return(p)
    BY <1>6, <2>1, ReturnStep, GoesOn DEF PlaceInv
  <2>2. CASE Goto(p, "activate") /\ gemInfo'[<<p, id>>] = s
    <3>1. Others(p) /\ routine'[p].pc = "activate" /\ routine'[p].sn = s /\ routine'[p].id = id
      BY <2>2, GotoStep
    <3>. QED  BY <1>1, <1>2, <2>2, <3>1 DEF Discovery, IsDevice
  <2>. QED  BY <1>4, <1>5, <2>1, <2>2
<1>8. \A q \in Pons : Discovery(q)'
  BY <1>6, <1>7, RoutineInPlace
<1>9. Stored'
  <2>1. SUFFICES ASSUME NEW k \in Keys, gemInfo'[k] # None
                 PROVE  /\ core[gemInfo'[k]] # None /\ core[gemInfo'[k]].pon = k[1]
                        /\ core[gemInfo'[k]].id = k[2]
    BY <1>1 DEF Stored, IsDevice
  <2>2. CASE gemInfo'[k] = gemInfo[k]
    BY <2>1, <2>2 DEF PlaceInv, Stored, IsDevice
  <2>3. CASE k = <<p, id>> /\ gemInfo'[k] = s
    BY <1>2, <2>3 DEF IsDevice
  <2>. QED  BY <1>5, <2>2, <2>3
<1>. QED
  BY <1>1, <1>6, <1>8, <1>9, AnnouncedStays, DevicesKeptStays, ConfiguresStays DEF PlaceInv

(* The OLT is told to activate the ONU its OnuGemInfo has under this id. *)
LEMMA ActivateOnuInPlace ==
    ASSUME Typed, PlaceInv, NEW p \in Pons, ActivateOnu(p) PROVE PlaceInv'
<1>1. /\ attach' = attach /\ core' = core /\ lost' = lost /\ gemInfo' = gemInfo /\ queue' = queue
  BY DEF ActivateOnu, adapter
<1>2. Grows
  BY <1>1 DEF Grows
<1>3. Others(p) /\ Discovery(p)'
  BY <1>2, EndingSteps, GoesOn DEF PlaceInv
<1>4. \A q \in Pons : Discovery(q)'
  BY <1>2, <1>3, RoutineInPlace
<1>5. Configures'
  <2>1. SUFFICES ASSUME NEW n \in olt' PROVE gemInfo[<<n.pon, n.id>>] = n.sn
    BY <1>1, Zenon DEF Configures
  <2>2. n \in olt \/ n = [pon |-> p, id |-> routine[p].id, sn |-> routine[p].sn, st |-> "ranging"]
    BY <2>1 DEF ActivateOnu
  <2>3. gemInfo[<<p, routine[p].id>>] = routine[p].sn
    BY DEF ActivateOnu, At, PlaceInv, Discovery
  <2>. QED  BY <2>2, <2>3 DEF PlaceInv, Configures
<1>. QED
  BY <1>1, <1>2, <1>4, <1>5, AnnouncedStays, DevicesKeptStays, StoredStays DEF PlaceInv

-------------------------------------------------------------------------------
(* The steps of the OLT, and those besides the routines. *)

LEMMA OltDiscoversInPlace ==
    ASSUME Typed, PlaceInv, NEW s \in Sns, OltDiscovers(s) PROVE PlaceInv'
<1>1. /\ attach' = attach /\ core' = core /\ lost' = lost /\ gemInfo' = gemInfo /\ olt' = olt
      /\ routine' = routine
  BY DEF OltDiscovers, adapter, env
<1>2. PICK p \in Pons : p = attach[s]
  BY DEF OltDiscovers, Typed
<1>3. PICK ind \in Indication : ind = [kind |-> "disc", sn |-> s, id |-> None]
  BY Zenon DEF Indication
<1>4. Put(p, ind) /\ attach[ind.sn] = p
  BY <1>2, <1>3 DEF OltDiscovers
<1>5. \A q \in Pons : Announced(q)'
  BY <1>1, <1>4, PutAnnounced DEF PlaceInv
<1>6. Grows /\ SameOnus
  BY <1>1 DEF Grows, SameOnus
<1>7. \A q \in Pons : Discovery(q)'
  BY <1>1, <1>6, DiscoveryStays DEF PlaceInv
<1>. QED  BY <1>1, <1>5, <1>6, <1>7, QuietInPlace

LEMMA OltStepInPlace == ASSUME Typed, PlaceInv, OltStep PROVE PlaceInv'
<1>1. PICK o \in olt : OltRanges(o) \/ OltReportsDown(o)
  BY DEF OltStep
<1>2. /\ attach' = attach /\ core' = core /\ lost' = lost /\ gemInfo' = gemInfo
      /\ routine' = routine
  BY <1>1 DEF OltRanges, OltReportsDown, adapter
<1>3. o \in Onu
  BY DEF Typed
<1>4. PICK kind \in {"up", "down"}, st \in {"up", "idle"} :
         /\ olt' = (olt \ {o}) \cup {[o EXCEPT !.st = st]}
         /\ Put(o.pon, [kind |-> kind, sn |-> o.sn, id |-> o.id])
  BY <1>1 DEF OltRanges, OltReportsDown
<1>5. \A q \in Pons : Announced(q)'
  <2>1. PICK ind \in Indication : ind = [kind |-> kind, sn |-> o.sn, id |-> o.id]
    BY <1>3, Zenon DEF Indication, Onu
  <2>2. PICK p \in Pons : p = o.pon
    BY <1>3 DEF Onu
  <2>3. Put(p, ind) /\ ind.kind # "disc"
    BY <1>4, <2>1, <2>2
  <2>. QED  BY <1>2, <2>3, PutAnnounced DEF PlaceInv
<1>6. SameOnus
  <2>1. /\ [o EXCEPT !.st = st].pon = o.pon /\ [o EXCEPT !.st = st].id = o.id
        /\ [o EXCEPT !.st = st].sn = o.sn
    BY <1>3
  <2>. QED  BY <1>4, <2>1, Zenon DEF SameOnus
<1>7. Grows
  BY <1>2 DEF Grows
<1>8. \A q \in Pons : Discovery(q)'
  BY <1>2, <1>7, DiscoveryStays DEF PlaceInv
<1>. QED  BY <1>2, <1>5, <1>6, <1>8, QuietInPlace

LEMMA DisableInPlace ==
    ASSUME Typed, PlaceInv,
           \/ \E s \in Sns : OnuDisabled(s)
           \/ DisableDevice \/ \E k \in Keys : StoreTechProfile(k)
    PROVE  PlaceInv'
<1>1. /\ attach' = attach /\ core' = core /\ lost' = lost /\ gemInfo' = gemInfo
      /\ routine' = routine /\ queue' = queue
  BY Zenon DEF OnuDisabled, DisableDevice, StoreTechProfile
<1>2. \A n \in olt' : n \in olt \/ \E o \in olt : n = [o EXCEPT !.st = "idle"]
  <2>1. ASSUME NEW s \in Sns, OnuDisabled(s), NEW n \in olt'
        PROVE  n \in olt \/ \E o \in olt : n = [o EXCEPT !.st = "idle"]
    <3>1. PICK o \in olt : n = IF o.sn = s THEN [o EXCEPT !.st = "idle"] ELSE o
      BY <2>1 DEF OnuDisabled
    <3>. QED  BY <3>1
  <2>2. ASSUME DisableDevice, NEW n \in olt' PROVE \E o \in olt : n = [o EXCEPT !.st = "idle"]
    BY <2>2 DEF DisableDevice
  <2>3. ASSUME NEW k \in Keys, StoreTechProfile(k) PROVE olt' = olt
    BY <2>3 DEF StoreTechProfile
  <2>. QED  BY <2>1, <2>2, <2>3
<1>3. ASSUME NEW o \in olt
      PROVE  /\ [o EXCEPT !.st = "idle"].pon = o.pon /\ [o EXCEPT !.st = "idle"].id = o.id
             /\ [o EXCEPT !.st = "idle"].sn = o.sn
  <2>1. o \in Onu
    BY DEF Typed
  <2>. QED  BY <2>1
<1>4. SameOnus
  BY <1>2, <1>3, Zenon DEF SameOnus
<1>5. Grows
  BY <1>1 DEF Grows
<1>6. \A q \in Pons : Discovery(q)'
  BY <1>1, <1>5, DiscoveryStays DEF PlaceInv
<1>. QED  BY <1>1, <1>4, <1>6, AnnouncedStays, QuietInPlace

LEMMA RestartInPlace == ASSUME Typed, PlaceInv, Restart PROVE PlaceInv'
<1>1. attach' = attach /\ core' = core /\ gemInfo' = gemInfo /\ olt' = olt
  BY DEF Restart
<1>2. \A q \in Pons : queue'[q] = <<>> /\ routine'[q].pc = "idle"
  BY DEF Restart, Idle
<1>3. \A q \in Pons : Announced(q)' /\ Discovery(q)'
  BY <1>2 DEF Announced, Discovery, Discovering, HasDevice
<1>4. DevicesKept'
  BY <1>1 DEF Restart, PlaceInv, DevicesKept
<1>5. Grows /\ SameOnus
  BY <1>1 DEF Grows, SameOnus
<1>. QED  BY <1>1, <1>3, <1>4, <1>5, StoredStays, ConfiguresStays DEF PlaceInv

LEMMA ReconcileOnuInPlace ==
    ASSUME Typed, PlaceInv, NEW s \in Sns, ReconcileOnu(s) PROVE PlaceInv'
<1>1. /\ attach' = attach /\ core' = core /\ lost' = lost /\ gemInfo' = gemInfo /\ olt' = olt
      /\ routine' = routine
  BY DEF ReconcileOnu
<1>2. \A q \in Pons : Announced(q)'
  <2>1. CASE queue' = queue
    BY <1>1, <2>1, AnnouncedStays
  <2>2. ASSUME core[s] # None, NEW kind \in {"up", "down"},
               Put(core[s].pon, [kind |-> kind, sn |-> s, id |-> core[s].id])
        PROVE  \A q \in Pons : Announced(q)'
    <3>1. core[s] \in Device
      BY <2>2 DEF Typed
    <3>2. PICK ind \in Indication : ind = [kind |-> kind, sn |-> s, id |-> core[s].id]
      BY <3>1, Zenon DEF Indication, Device
    <3>3. PICK p \in Pons : p = core[s].pon
      BY <3>1 DEF Device
    <3>4. Put(p, ind) /\ ind.kind # "disc"
      BY <2>2, <3>2, <3>3
    <3>. QED  BY <1>1, <3>4, PutAnnounced DEF PlaceInv
  <2>. QED  BY <2>1, <2>2 DEF ReconcileOnu
<1>3. Grows /\ SameOnus
  BY <1>1 DEF Grows, SameOnus
<1>4. \A q \in Pons : Discovery(q)'
  BY <1>1, <1>3, DiscoveryStays DEF PlaceInv
<1>. QED  BY <1>1, <1>2, <1>3, <1>4, QuietInPlace

(* Without deletions and moves nothing takes a device away. *)
LEMMA NoneGoes ==
    ASSUME Typed, PlaceInv, InPlace, NEW s \in Sns
    PROVE  /\ ~CoreDeletes(s) /\ ~CoreForgets(s) /\ ~LostStep(s)
           /\ \A p \in Pons : ~Replug(s, p)
<1>1. ~CoreDeletes(s) /\ \A p \in Pons : ~Replug(s, p)
  BY DEF InPlace, CoreDeletes, Replug, Fault
<1>2. ~CoreForgets(s)
  BY DEF CoreForgets, PlaceInv, DevicesKept
<1>3. lost[s].pc = "away"
  BY DEF PlaceInv, DevicesKept, Away
<1>4. ~LostStep(s)
  BY <1>3 DEF LostStep, LostClearData, LostDeleteOnu, LostFreeId, LostForget, LostAt
<1>. QED  BY <1>1, <1>2, <1>4

LEMMA NextInPlace ==
    ASSUME Typed, OneOwner, PlaceInv, InPlace, Next PROVE PlaceInv'
<1>1. ASSUME NEW p \in Pons, RoutineStep(p) PROVE PlaceInv'
  BY <1>1, ProceedingInPlace, TakeIndicationInPlace, GetChildDeviceInPlace,
     SendChildDeviceDetectedInPlace, AddNewOnuGemInfoInPlace, ActivateOnuInPlace DEF RoutineStep
<1>. QED
  BY <1>1, NoneGoes, OltDiscoversInPlace, OltStepInPlace, DisableInPlace, RestartInPlace,
     ReconcileOnuInPlace DEF Next

(* The kinds of external events of a scenario stay the same. *)
LEMMA NextKinds == ASSUME Typed, Next PROVE InPlace' => InPlace
<1>1. ASSUME NEW kind, Fault(kind) PROVE scenario'.kinds = scenario.kinds
  BY <1>1 DEF Fault, Typed, Setting
<1>. QED  BY <1>1, NextFault DEF InPlace

-------------------------------------------------------------------------------
NoLostAnswer == \A sc \in Scenarios : "answer" \notin sc.kinds

InPlaceInv == Typed /\ OneOwner /\ (InPlace => PlaceInv)

LEMMA OnusInPlace == NoLostAnswer => (Spec => []InPlaceInv)
<1>. SUFFICES ASSUME NoLostAnswer PROVE Spec => []InPlaceInv
  OBVIOUS
<1>1. ASSUME Typed PROVE "answer" \notin scenario.kinds
  BY <1>1 DEF Typed, Setting, NoLostAnswer
<1>2. ASSUME Init, Typed PROVE InPlaceInv
  <2>1. OneOwner
    BY <1>2 DEF Init, OneOwner, OneOwnerOf, TakenBy, KeptBy, ClearedBy, Idle, Away
  <2>2. \A p \in Pons : queue[p] = <<>> /\ routine[p].pc = "idle"
    BY <1>2 DEF Init, Idle
  <2>3. \A p \in Pons : Announced(p) /\ Discovery(p)
    BY <2>2 DEF Announced, Discovery, Discovering, HasDevice
  <2>4. DevicesKept /\ Stored /\ Configures
    BY <1>2 DEF Init, DevicesKept, Stored, Configures
  <2>. QED  BY <1>2, <2>1, <2>3, <2>4 DEF InPlaceInv, PlaceInv
<1>3. ASSUME InPlaceInv, Typed', [Next]_vars PROVE InPlaceInv'
  <2>1. OneOwner'
    BY <1>1, <1>3, NextOwner DEF InPlaceInv, IdInv
  <2>2. CASE Next
    BY <1>3, <2>1, <2>2, NextInPlace, NextKinds DEF InPlaceInv
  <2>3. CASE UNCHANGED vars
    <3>1. /\ attach' = attach /\ core' = core /\ lost' = lost /\ gemInfo' = gemInfo
          /\ routine' = routine /\ queue' = queue /\ olt' = olt /\ scenario' = scenario
      BY <2>3 DEF vars, adapter, env
    <3>2. InPlace' = InPlace
      BY <3>1 DEF InPlace
    <3>3. ASSUME PlaceInv PROVE PlaceInv'
      <4>1. Grows /\ SameOnus
        BY <3>1 DEF Grows, SameOnus
      <4>2. \A q \in Pons : Discovery(q)'
        BY <1>3, <3>1, <3>3, <4>1, DiscoveryStays DEF PlaceInv, InPlaceInv
      <4>. QED  BY <1>3, <3>1, <3>3, <4>1, <4>2, AnnouncedStays, QuietInPlace DEF InPlaceInv
    <3>. QED  BY <1>3, <2>1, <3>2, <3>3 DEF InPlaceInv
  <2>. QED  BY <1>3, <2>2, <2>3
<1>. QED  BY <1>2, <1>3, OnusTyped, PTL DEF Spec

(* The OnuGemInfo of an id is that of the ONU the OLT has under it, for    *)
(* every set of ONUs, ports and ids, whatever fails during discoveries and *)
(* whenever ONUs are disabled or the adapter restarts, provided that no    *)
(* answer of the core to ChildDeviceDetected is lost.                      *)
THEOREM GemInfosMatch == NoLostAnswer => (Spec => []GemInfoMatches)
<1>1. ASSUME InPlaceInv PROVE GemInfoMatches
  BY <1>1, Zenon DEF InPlaceInv, PlaceInv, Configures, GemInfoMatches
<1>. QED  BY <1>1, OnusInPlace, PTL

(* Under the same condition the OLT never has two ONUs under one id of a   *)
(* PON port: GetONUID and FreeonuID keep the ids of devices apart, and     *)
(* activateONU uses no other id.                                           *)
THEOREM IdsNotShared == NoLostAnswer => (Spec => []NoSharedId)
<1>1. ASSUME InPlaceInv PROVE NoSharedId
  BY <1>1, Zenon DEF InPlaceInv, PlaceInv, Configures, NoSharedId
<1>. QED  BY <1>1, OnusInPlace, PTL

(* In place one routine at a time processes the discovery of an ONU, even  *)
(* when its entry of discOnus is taken away under it, by an ONU that is    *)
(* disabled, by DisableDevice or by a restart: an ONU is announced on the  *)
(* port it is plugged into, and a port has one routine.                    *)
THEOREM PlacedOneAtATime == NoLostAnswer => (Spec => [](InPlace => OneAtATime))
<1>1. ASSUME InPlaceInv, InPlace PROVE OneAtATime
  <2>1. \A p \in Pons : Discovery(p)
    BY <1>1, Zenon DEF InPlaceInv, PlaceInv
  <2>2. \A p \in Pons : Processing(p) => attach[routine[p].sn] = p
    BY Zenon, <2>1 DEF Discovery, Discovering, Processing
  <2>. QED  BY <2>2, Zenon DEF OneAtATime
<1>. QED  BY <1>1, OnusInPlace, PTL

-------------------------------------------------------------------------------
(* A report of the OLT, queued or being handled, names a device and its id. *)
Reports == {"up", "down"}

Reported(p) ==
    /\ routine[p].pc \in Reports => IsDevice(routine[p].sn, p, routine[p].id)
    /\ \A k \in 1..Len(queue[p]) :
          queue[p][k].kind \in Reports => IsDevice(queue[p][k].sn, p, queue[p][k].id)

(* An ONU is cached under the port and the id of its device. *)
Cached == \A k \in Keys : onus[k] # None => IsDevice(onus[k], k[1], k[2])

CacheInv == Cached /\ \A p \in Pons : Reported(p)

LEMMA IsDeviceStays ==
    ASSUME Grows, NEW s \in Sns, NEW p, NEW i, IsDevice(s, p, i)
    PROVE  core'[s] # None /\ core'[s].pon = p /\ core'[s].id = i
BY DEF Grows, IsDevice

LEMMA CachedStays == ASSUME Typed, Cached, Grows, onus' = onus PROVE Cached'
<1>1. SUFFICES ASSUME NEW k \in Keys, onus[k] # None
               PROVE  /\ core'[onus[k]] # None /\ core'[onus[k]].pon = k[1]
                      /\ core'[onus[k]].id = k[2]
  BY DEF Cached, IsDevice
<1>2. onus[k] \in Sns
  BY <1>1 DEF Typed
<1>. QED  BY <1>1, <1>2, IsDeviceStays DEF Cached

LEMMA CachedWith ==
    ASSUME Typed, Cached, core' = core, NEW j \in Keys, NEW s \in Sns,
           onus' = [onus EXCEPT ![j] = s], IsDevice(s, j[1], j[2])
    PROVE  Cached'
<1>1. SUFFICES ASSUME NEW k \in Keys, onus'[k] # None
               PROVE  /\ core[onus'[k]] # None /\ core[onus'[k]].pon = k[1]
                      /\ core[onus'[k]].id = k[2]
  BY DEF Cached, IsDevice
<1>2. onus'[k] = IF k = j THEN s ELSE onus[k]
  BY DEF Typed
<1>. QED  BY <1>1, <1>2 DEF Cached, IsDevice

LEMMA ReportedStays ==
    ASSUME Typed, Grows, NEW p \in Pons, Reported(p), queue'[p] = queue[p],
           routine'[p] = routine[p] \/ routine'[p].pc \notin Reports
    PROVE  Reported(p)'
<1>1. routine[p] \in Routine /\ queue[p] \in Seq(Indication)
  BY DEF Typed
<1>2. ASSUME routine'[p].pc \in Reports PROVE IsDevice(routine[p].sn, p, routine[p].id)'
  <2>1. routine'[p] = routine[p] /\ routine[p].sn \in Sns
    BY <1>1, <1>2 DEF Reports, Routine
  <2>. QED  BY <1>2, <2>1, IsDeviceStays DEF Reported, IsDevice
<1>3. ASSUME NEW k \in 1..Len(queue[p]), queue[p][k].kind \in Reports
      PROVE  IsDevice(queue[p][k].sn, p, queue[p][k].id)'
  <2>1. queue[p][k] \in Indication
    BY <1>1
  <2>2. queue[p][k].sn \in Sns
    BY <2>1 DEF Indication
  <2>3. core'[queue[p][k].sn] # None /\ core'[queue[p][k].sn].pon = p
        /\ core'[queue[p][k].sn].id = queue[p][k].id
    BY <1>3, <2>2, IsDeviceStays DEF Reported
  <2>4. queue'[p][k] = queue[p][k]
    OBVIOUS
  <2>. QED  BY <2>3, <2>4 DEF IsDevice
<1>. QED  BY <1>2, <1>3 DEF Reported

LEMMA PutReported ==
    ASSUME Typed, NEW p \in Pons, NEW ind \in Indication, Put(p, ind), core' = core,
           routine' = routine, ind.kind \in Reports => IsDevice(ind.sn, p, ind.id),
           NEW q \in Pons, Reported(q)
    PROVE  Reported(q)'
<1>1. queue[p] \in Seq(Indication) /\ queue[q] \in Seq(Indication)
  BY DEF Typed
<1>2. queue'[q] = IF q = p THEN Append(queue[p], ind) ELSE queue[q]
  BY DEF Put, Typed
<1>3. CASE q # p
  BY Zenon, <1>2, <1>3 DEF Reported, IsDevice
<1>4. CASE q = p
  <2>1. queue'[p] = Append(queue[p], ind)
    BY <1>2, <1>4
  <2>2. Len(queue'[p]) = Len(queue[p]) + 1 /\ Len(queue[p]) \in Nat
    BY <1>1, <2>1
  <2>3. ASSUME NEW k \in 1..Len(queue'[p])
        PROVE  queue'[p][k] = IF k = Len(queue[p]) + 1 THEN ind ELSE queue[p][k]
    BY <1>1, <2>1
  <2>4. ASSUME NEW k \in 1..Len(queue'[p]), queue'[p][k].kind \in Reports
        PROVE  IsDevice(queue'[p][k].sn, p, queue'[p][k].id)
    <3>1. CASE k = Len(queue[p]) + 1
      BY <2>3, <2>4, <3>1
    <3>2. CASE k # Len(queue[p]) + 1
      <4>1. k \in 1..Len(queue[p]) /\ queue'[p][k] = queue[p][k]
        BY <2>2, <2>3, <3>2
      <4>. QED  BY <1>4, <2>4, <4>1 DEF Reported
    <3>. QED  BY <3>1, <3>2
  <2>. QED  BY <1>4, <2>4 DEF Reported, IsDevice
<1>. QED  BY <1>3, <1>4

LEMMA TakeReported ==
    ASSUME Typed, NEW p \in Pons, TakeIndication(p), Others(p), NEW q \in Pons, Reported(q)
    PROVE  Reported(q)'
<1>1. queue[p] \in Seq(Indication) /\ queue[p] # <<>> /\ core' = core
  BY DEF Typed, TakeIndication, env
<1>2. queue'[q] = IF q = p THEN Tail(queue[p]) ELSE queue[q]
  BY DEF TakeIndication, Typed
<1>3. CASE q # p
  BY Zenon, <1>1, <1>2, <1>3 DEF Reported, IsDevice, Others
<1>4. CASE q = p
  <2>1. queue'[p] = Tail(queue[p])
    BY <1>2, <1>4
  <2>2. Len(queue'[p]) = Len(queue[p]) - 1 /\ Len(queue[p]) \in Nat
    BY <1>1, <2>1
  <2>3. ASSUME NEW k \in 1..Len(queue'[p])
        PROVE  queue'[p][k] = queue[p][k + 1] /\ k + 1 \in 1..Len(queue[p])
    BY <1>1, <2>1, <2>2
  <2>4. ASSUME NEW k \in 1..Len(queue'[p]), queue'[p][k].kind \in Reports
        PROVE  IsDevice(queue'[p][k].sn, p, queue'[p][k].id)
    BY <1>4, <2>3, <2>4 DEF Reported
  <2>5. Head(queue[p]) = queue[p][1] /\ 1 \in 1..Len(queue[p])
    BY <1>1
  <2>6. /\ routine'[p].sn = Head(queue[p]).sn /\ routine'[p].id = Head(queue[p]).id
        /\ routine'[p].pc \in Reports => Head(queue[p]).kind \in Reports
    BY DEF TakeIndication, Typed, Reports
  <2>7. routine'[p].pc \in Reports => IsDevice(routine'[p].sn, p, routine'[p].id)
    BY <1>4, <2>5, <2>6 DEF Reported
  <2>. QED  BY <1>1, <1>4, <2>4, <2>7 DEF Reported, IsDevice
<1>. QED  BY <1>3, <1>4

(* The step of a routine leaves the other routines alone, and only the     *)
(* next indication makes it handle a report.                               *)
LEMMA RoutineAlone ==
    ASSUME Typed, NEW p \in Pons, RoutineStep(p)
    PROVE  Others(p) /\ (TakeIndication(p) \/ routine'[p].pc \notin Reports)
<1>1. ASSUME NEW pc \in Pc \ Reports, Goto(p, pc) PROVE Others(p) /\ routine'[p].pc \notin Reports
  BY <1>1, GotoStep DEF Idle, Reports
<1>2. ASSUME Return(p) PROVE Others(p) /\ routine'[p].pc \notin Reports
  BY <1>2 DEF Typed, Return, Idle, Others, Reports
<1>3. ASSUME NEW pc \in Pc \ Reports, NEW id, GotoWith(p, pc, id)
      PROVE  Others(p) /\ routine'[p].pc \notin Reports
  BY <1>3, GotoWithStep
<1>4. /\ {"idle", "load", "get", "completed", "id", "client", "state", "gem", "activate"}
            \subseteq Pc \ Reports
      /\ "detect" \in Pc \ Reports
  BY DEF Pc, Reports
<1>5. CASE TakeIndication(p)
  BY Zenon, <1>5 DEF TakeIndication, Typed, Others
<1>6. CASE CheckDevice(p)
  BY <1>1, <1>2, <1>4, <1>6 DEF CheckDevice
<1>7. CASE CheckTechProfile(p)
  BY <1>1, <1>2, <1>4, <1>7, Zenon DEF CheckTechProfile
<1>8. CASE LoadOrStore(p) \/ UpdateOnuDeviceState(p) \/ Completed(p) \/ CacheOnu(p)
  BY Zenon, <1>1, <1>2, <1>4, <1>8 DEF LoadOrStore, UpdateOnuDeviceState, Completed, CacheOnu
<1>9. CASE GetChildDevice(p)
  BY Zenon, <1>1, <1>2, <1>3, <1>4, <1>9 DEF GetChildDevice
<1>10. CASE GetONUID(p)
  BY <1>2, <1>3, <1>4, <1>10 DEF GetONUID
<1>11. CASE SendChildDeviceDetected(p) \/ AddNewOnuGemInfo(p) \/ ActivateOnu(p)
  BY Zenon, <1>1, <1>2, <1>4, <1>11 DEF SendChildDeviceDetected, AddNewOnuGemInfo, ActivateOnu
<1>12. CASE UpdateOnuStates(p)
  BY Zenon, <1>2, <1>12 DEF UpdateOnuStates
<1>13. CASE OnuIndication(p)
  <2>1. ASSUME NEW t, routine' = [routine EXCEPT ![p] =
                  [pc |-> IF At(p, "up") THEN "send_up" ELSE "send_down", sn |-> t, id |-> None]]
        PROVE  Others(p) /\ routine'[p].pc \notin Reports
    BY <2>1 DEF Typed, Others, Reports
  <2>. QED  BY <1>2, <1>13, <2>1 DEF OnuIndication
<1>. QED
  BY <1>5, <1>6, <1>7, <1>8, <1>9, <1>10, <1>11, <1>12, <1>13 DEF RoutineStep

LEMMA RoutineGrows ==
    ASSUME Typed, NEW p \in Pons, RoutineStep(p)
    PROVE  Grows /\ lost' = lost
<1>1. CASE SendChildDeviceDetected(p)
  <2>1. attach' = attach /\ gemInfo' = gemInfo /\ lost' = lost
    BY <1>1 DEF SendChildDeviceDetected
  <2>2. ASSUME NEW s \in Sns, core[s] # None PROVE core'[s] = core[s]
    BY <1>1, <2>2 DEF SendChildDeviceDetected, Typed
  <2>. QED  BY <2>1, <2>2 DEF Grows
<1>2. CASE AddNewOnuGemInfo(p)
  <2>1. attach' = attach /\ core' = core /\ lost' = lost
    BY <1>2 DEF AddNewOnuGemInfo
  <2>2. ASSUME NEW k \in Keys, gemInfo[k] # None PROVE gemInfo'[k] = gemInfo[k]
    BY Zenon, <1>2, <2>2 DEF AddNewOnuGemInfo, Typed
  <2>. QED  BY <2>1, <2>2 DEF Grows
<1>3. CASE ~SendChildDeviceDetected(p) /\ ~AddNewOnuGemInfo(p)
  <2>1. attach' = attach /\ core' = core /\ gemInfo' = gemInfo /\ lost' = lost
    BY Zenon, <1>3 DEF RoutineStep, TakeIndication, CheckDevice, CheckTechProfile, LoadOrStore, GetONUID,
         GetChildDevice, CacheOnu, UpdateOnuDeviceState, ActivateOnu, Completed, OnuIndication,
         UpdateOnuStates, adapter, env
  <2>. QED  BY <2>1 DEF Grows
<1>. QED  BY <1>1, <1>2, <1>3

LEMMA RoutineCaches ==
    ASSUME Typed, PlaceInv, CacheInv, NEW p \in Pons, RoutineStep(p)
    PROVE  CacheInv'
<1>1. Grows /\ Others(p) /\ (TakeIndication(p) \/ routine'[p].pc \notin Reports)
  BY RoutineAlone, RoutineGrows
<1>2. ASSUME NEW q \in Pons PROVE Reported(q)'
  <2>1. CASE TakeIndication(p)
    BY <1>1, <2>1, TakeReported DEF CacheInv
  <2>2. CASE ~TakeIndication(p)
    <3>1. queue' = queue
      BY Zenon, <2>2 DEF RoutineStep, CheckDevice, CheckTechProfile, LoadOrStore, GetONUID,
         SendChildDeviceDetected, AddNewOnuGemInfo,
         GetChildDevice, CacheOnu, UpdateOnuDeviceState, ActivateOnu, Completed, OnuIndication,
         UpdateOnuStates, adapter, env
    <3>2. routine'[q] = routine[q] \/ routine'[q].pc \notin Reports
      BY <1>1, <2>2 DEF Others
    <3>. QED  BY <1>1, <3>1, <3>2, ReportedStays DEF CacheInv
  <2>. QED  BY <2>1, <2>2
<1>3. Cached'
  <2>0. routine[p] \in Routine
    BY DEF Typed
  <2>1. CASE onus' = onus
    BY <1>1, <2>1, CachedStays DEF CacheInv
  <2>2. CASE CacheOnu(p) /\ onus' # onus
    <3>1. /\ core' = core /\ onus' = [onus EXCEPT ![<<p, routine[p].id>>] = routine[p].sn]
          /\ routine[p].pc = "client"
      BY Zenon, <2>2 DEF CacheOnu, At
    <3>2. IsDevice(routine[p].sn, p, routine[p].id) /\ routine[p].sn \in Sns
          /\ routine[p].id \in OnuIds
      BY <2>0, <3>1 DEF PlaceInv, Discovery, HasDevice, Routine
    <3>3. PICK j \in Keys : j = <<p, routine[p].id>>
      BY Zenon, <3>2 DEF Keys
    <3>. QED  BY Zenon, <3>1, <3>2, <3>3, CachedWith DEF CacheInv
  <2>3. CASE CheckTechProfile(p) /\ onus' # onus
    <3>1. /\ core' = core /\ onus' = [onus EXCEPT ![<<p, core[routine[p].sn].id>>] = routine[p].sn]
          /\ core[routine[p].sn] # None /\ routine[p].pc = "check"
      BY <2>3, Zenon DEF CheckTechProfile, At
    <3>2. routine[p].sn \in Sns /\ attach[routine[p].sn] = p
      BY Zenon, <2>0, <3>1 DEF PlaceInv, Discovery, Discovering, Routine
    <3>3. core[routine[p].sn].pon = p /\ core[routine[p].sn] \in Device
      BY <3>1, <3>2 DEF PlaceInv, DevicesKept, Typed
    <3>4. core[routine[p].sn].id \in OnuIds
      BY <3>3 DEF Device
    <3>5. PICK j \in Keys : j = <<p, core[routine[p].sn].id>>
      BY Zenon, <3>4 DEF Keys
    <3>6. IsDevice(routine[p].sn, j[1], j[2])
      BY Zenon, <3>1, <3>3, <3>5 DEF IsDevice
    <3>. QED  BY Zenon, <3>1, <3>2, <3>5, <3>6, CachedWith DEF CacheInv
  <2>4. CASE OnuIndication(p) /\ onus' # onus
    <3>1. routine[p].pc \in Reports
      BY <2>4 DEF OnuIndication, At, Reports
    <3>2. routine[p].sn \in Sns /\ routine[p].id \in OnuIds
          /\ IsDevice(routine[p].sn, p, routine[p].id)
      BY <2>0, <3>1 DEF CacheInv, Reported, Routine, Reports
    <3>3. PICK j \in Keys : j = <<p, routine[p].id>>
      BY Zenon, <3>2 DEF Keys
    <3>4. /\ core' = core
          /\ onus' = [onus EXCEPT ![j] = IF onus[j] # None THEN onus[j] ELSE routine[p].sn]
      BY <2>4, <3>3 DEF OnuIndication
    <3>5. onus[j] = None
      BY <2>4, <3>4 DEF Typed
    <3>6. onus' = [onus EXCEPT ![j] = routine[p].sn]
      BY <3>4, <3>5
    <3>. QED  BY Zenon, <3>2, <3>3, <3>4, <3>6, CachedWith DEF CacheInv
  <2>5. onus' = onus \/ CacheOnu(p) \/ CheckTechProfile(p) \/ OnuIndication(p)
    BY Zenon DEF RoutineStep, TakeIndication, CheckDevice, LoadOrStore, GetONUID,
         SendChildDeviceDetected, AddNewOnuGemInfo,
         GetChildDevice, UpdateOnuDeviceState, ActivateOnu, Completed,
         UpdateOnuStates, adapter, env
  <2>. QED  BY <2>1, <2>2, <2>3, <2>4, <2>5
<1>. QED  BY <1>2, <1>3 DEF CacheInv

(* A step besides the routines that leaves the devices alone and puts at   *)
(* most the report of a device into a queue.                               *)
LEMMA ReportedBesides ==
    ASSUME Typed, CacheInv, core' = core, routine' = routine, NEW p \in Pons,
           NEW kind \in Reports, NEW s \in Sns, NEW i \in OnuIds,
           Put(p, [kind |-> kind, sn |-> s, id |-> i]), IsDevice(s, p, i)
    PROVE  \A q \in Pons : Reported(q)'
<1>1. PICK ind \in Indication : ind = [kind |-> kind, sn |-> s, id |-> i]
  BY Zenon DEF Indication, Reports
<1>. QED  BY <1>1, PutReported DEF CacheInv

LEMMA OltCaches ==
    ASSUME Typed, PlaceInv, CacheInv, OltStep \/ \E s \in Sns : OltDiscovers(s)
    PROVE  CacheInv'
<1>1. /\ attach' = attach /\ core' = core /\ gemInfo' = gemInfo /\ onus' = onus
      /\ routine' = routine
  BY Zenon DEF OltStep, OltRanges, OltReportsDown, OltDiscovers, adapter, env
<1>2. Cached'
  BY <1>1, CachedStays DEF Grows, CacheInv
<1>3. ASSUME NEW s \in Sns, OltDiscovers(s), NEW q \in Pons PROVE Reported(q)'
  <2>1. PICK p \in Pons : p = attach[s]
    BY <1>3 DEF OltDiscovers, Typed
  <2>2. PICK ind \in Indication : ind = [kind |-> "disc", sn |-> s, id |-> None]
    BY Zenon DEF Indication
  <2>3. Put(p, ind) /\ ind.kind \notin Reports
    BY <1>3, <2>1, <2>2 DEF OltDiscovers, Reports
  <2>. QED  BY <1>1, <2>3, PutReported DEF CacheInv
<1>4. ASSUME NEW o \in olt, OltRanges(o) \/ OltReportsDown(o) PROVE \A q \in Pons : Reported(q)'
  <2>1. o \in Onu
    BY DEF Typed
  <2>2. o.pon \in Pons /\ o.id \in OnuIds /\ o.sn \in Sns
    BY <2>1 DEF Onu
  <2>3. PICK kind \in Reports : Put(o.pon, [kind |-> kind, sn |-> o.sn, id |-> o.id])
    BY <1>4 DEF OltRanges, OltReportsDown, Reports
  <2>4. <<o.pon, o.id>> \in Keys /\ gemInfo[<<o.pon, o.id>>] = o.sn /\ o.sn # None
    BY <2>2, OnuDiscoveryAssumption DEF PlaceInv, Configures, Keys
  <2>5. IsDevice(o.sn, o.pon, o.id)
    BY <2>4 DEF PlaceInv, Stored
  <2>. QED  BY <1>1, <2>2, <2>3, <2>5, ReportedBesides
<1>. QED  BY <1>2, <1>3, <1>4 DEF CacheInv, OltStep

LEMMA DisableCaches ==
    ASSUME Typed, PlaceInv, CacheInv,
           \/ \E s \in Sns : OnuDisabled(s)
           \/ DisableDevice \/ \E k \in Keys : StoreTechProfile(k)
    PROVE  CacheInv'
<1>1. /\ attach' = attach /\ core' = core /\ gemInfo' = gemInfo
      /\ routine' = routine /\ queue' = queue
  BY Zenon DEF OnuDisabled, DisableDevice, StoreTechProfile
<1>2. Grows
  BY <1>1 DEF Grows
<1>3. \A q \in Pons : Reported(q)'
  BY <1>1, <1>2, ReportedStays DEF CacheInv
<1>4. CASE onus' = onus
  BY <1>2, <1>3, <1>4, CachedStays DEF CacheInv
<1>5. CASE DisableDevice
  BY <1>3, <1>5 DEF CacheInv, Cached, DisableDevice
<1>6. ASSUME NEW s \in Sns, OnuDisabled(s), onus' # onus PROVE Cached'
  <2>1. core[s] # None /\ onus' = [onus EXCEPT ![<<attach[s], core[s].id>>] = s]
        /\ attach[s] \in Pons
    BY <1>6 DEF OnuDisabled, Typed
  <2>2. core[s].pon = attach[s] /\ core[s] \in Device
    BY <2>1 DEF PlaceInv, DevicesKept, Typed
  <2>3. core[s].id \in OnuIds
    BY <2>2 DEF Device
  <2>4. PICK j \in Keys : j = <<attach[s], core[s].id>>
    BY Zenon, <2>1, <2>3 DEF Keys
  <2>5. IsDevice(s, j[1], j[2])
    BY <2>1, <2>2, <2>4 DEF IsDevice
  <2>. QED  BY Zenon, <1>1, <2>1, <2>4, <2>5, CachedWith DEF CacheInv
<1>7. ASSUME NEW k \in Keys, StoreTechProfile(k) PROVE onus' = onus
  BY <1>7 DEF StoreTechProfile
<1>. QED  BY <1>3, <1>4, <1>5, <1>6, <1>7 DEF CacheInv

LEMMA RestartCaches == ASSUME Restart PROVE CacheInv'
<1>1. \A q \in Pons : queue'[q] = <<>> /\ routine'[q].pc = "idle"
  BY DEF Restart, Idle
<1>2. \A q \in Pons : Reported(q)'
  BY <1>1 DEF Reported, Reports
<1>3. Cached'
  BY DEF Restart, Cached
<1>. QED  BY <1>2, <1>3 DEF CacheInv

LEMMA ReconcileCaches ==
    ASSUME Typed, CacheInv, NEW s \in Sns, ReconcileOnu(s) PROVE CacheInv'
<1>1. /\ attach' = attach /\ core' = core /\ gemInfo' = gemInfo /\ routine' = routine
  BY DEF ReconcileOnu
<1>2. Grows
  BY <1>1 DEF Grows
<1>3. ASSUME core[s] # None
      PROVE  /\ core[s].pon \in Pons /\ core[s].id \in OnuIds
             /\ IsDevice(s, core[s].pon, core[s].id)
  <2>1. core[s] \in Device
    BY <1>3 DEF Typed
  <2>. QED  BY <1>3, <2>1 DEF Device, IsDevice
<1>4. \A q \in Pons : Reported(q)'
  <2>1. CASE queue' = queue
    BY <1>1, <1>2, <2>1, ReportedStays DEF CacheInv
  <2>2. ASSUME core[s] # None, NEW kind \in Reports,
               Put(core[s].pon, [kind |-> kind, sn |-> s, id |-> core[s].id])
        PROVE  \A q \in Pons : Reported(q)'
    BY <1>1, <1>3, <2>2, ReportedBesides
  <2>. QED  BY Zenon, <2>1, <2>2 DEF ReconcileOnu, Reports
<1>5. Cached'
  <2>1. CASE onus' = onus
    BY <1>2, <2>1, CachedStays DEF CacheInv
  <2>2. CASE core[s] # None /\ onus' = [onus EXCEPT ![<<core[s].pon, core[s].id>>] = s]
    <3>1. PICK j \in Keys : j = <<core[s].pon, core[s].id>>
      BY Zenon, <1>3, <2>2 DEF Keys
    <3>. QED  BY Zenon, <1>1, <1>3, <2>2, <3>1, CachedWith DEF CacheInv
  <2>. QED  BY Zenon, <2>1, <2>2 DEF ReconcileOnu
<1>. QED  BY Zenon, <1>4, <1>5 DEF CacheInv

LEMMA NextCaches ==
    ASSUME Typed, PlaceInv, InPlace, CacheInv, Next PROVE CacheInv'
BY Zenon, NoneGoes, RoutineCaches, OltCaches, DisableCaches, RestartCaches, ReconcileCaches DEF Next

-------------------------------------------------------------------------------
(* A discovery that passes the check is not of an ONU in service. *)
LEMMA CheckKeeps ==
    ASSUME Typed, PlaceInv, CacheInv, "get" \notin scenario.kinds, NEW p \in Pons, At(p, "check"),
           CheckDevice(p) \/ CheckTechProfile(p), routine'[p].pc = "load",
           NEW k \in tp
    PROVE  gemInfo[k] # routine[p].sn
<1> DEFINE s == routine[p].sn
<1>1. SUFFICES ASSUME gemInfo[k] = s PROVE FALSE
  OBVIOUS
<1>2. routine[p] \in Routine /\ k \in Keys
  BY Zenon DEF Typed
<1>3. s \in Sns /\ s # None /\ attach[s] = p
  BY Zenon, <1>2, OnuDiscoveryAssumption DEF At, Routine, PlaceInv, Discovery, Discovering
<1>4. IsDevice(s, k[1], k[2])
  BY <1>1, <1>2, <1>3 DEF PlaceInv, Stored
<1>5. core[s] # None /\ k = <<p, core[s].id>>
  BY <1>2, <1>3, <1>4 DEF IsDevice, PlaceInv, DevicesKept, Keys
<1>6. ~Fault("get")
  BY DEF Fault
<1>7. ~Goto(p, "idle") /\ ~Return(p)
  BY DEF Goto, Return, Idle, Typed
<1>8. CASE CheckDevice(p)
  BY <1>5, <1>6, <1>7, <1>8 DEF CheckDevice
<1>9. CASE CheckTechProfile(p)
  <2>1. ASSUME NEW id \in CachedIds(s) PROVE id = core[s].id
    <3>1. PICK j \in Keys : onus[j] = s /\ id = j[2]
      BY <2>1 DEF CachedIds
    <3>. QED  BY Zenon, <1>3, <3>1 DEF CacheInv, Cached, IsDevice
  <2>2. gemInfo[<<p, core[s].id>>] # None /\ <<p, core[s].id>> \in tp
    BY <1>1, <1>3, <1>5
  <2>. QED  BY Zenon, <1>5, <1>6, <1>7, <1>9, <2>1, <2>2 DEF CheckTechProfile
<1>. QED  BY <1>8, <1>9

-------------------------------------------------------------------------------
(* With the check for devices, a discovery is of an ONU without a device   *)
(* until the core makes one, and of an ONU the OLT does not have until it  *)
(* is activated; the OLT has an ONU once.                                  *)
NoDevice == {"load", "get", "id", "detect"}

Fresh(p) ==
    /\ routine[p].pc \in NoDevice => core[routine[p].sn] = None
    /\ routine[p].pc \in HasDevice => \A o \in olt : o.sn # routine[p].sn

FreshInv ==
    /\ \A p \in Pons : Fresh(p)
    /\ \A o, n \in olt : o.sn = n.sn => o = n

LEMMA OltHasDevice ==
    ASSUME Typed, PlaceInv, NEW o \in olt PROVE o.sn \in Sns /\ core[o.sn] # None
<1>1. o \in Onu
  BY DEF Typed
<1>2. o.pon \in Pons /\ o.id \in OnuIds /\ o.sn \in Sns
  BY <1>1 DEF Onu
<1>3. <<o.pon, o.id>> \in Keys /\ gemInfo[<<o.pon, o.id>>] = o.sn /\ o.sn # None
  BY <1>2, OnuDiscoveryAssumption DEF PlaceInv, Configures, Keys
<1>. QED  BY <1>2, <1>3 DEF PlaceInv, Stored, IsDevice

LEMMA FreshStays ==
    ASSUME NEW p \in Pons, Fresh(p), routine'[p] = routine[p], core' = core, SameOnus
    PROVE  Fresh(p)'
BY DEF Fresh, SameOnus

(* An ONU is discovered on one port. *)
LEMMA FreshOthers ==
    ASSUME Typed, PlaceInv, FreshInv, NEW p \in Pons, routine[p].pc \in Discovering, Others(p),
           \A t \in Sns \ {routine[p].sn} :
              core'[t] = core[t] /\ \A n \in olt' : n.sn = t => \E o \in olt : o.sn = t,
           NEW q \in Pons \ {p}
    PROVE  Fresh(q)'
<1>1. routine'[q] = routine[q] /\ routine[q] \in Routine
  BY Zenon DEF Others, Typed
<1>2. CASE routine[q].pc \in NoDevice \cup HasDevice
  <2>1. routine[q].sn \in Sns /\ attach[routine[q].sn] = q
    BY Zenon, <1>1, <1>2 DEF Routine, NoDevice, HasDevice, PlaceInv, Discovery, Discovering
  <2>2. attach[routine[p].sn] = p
    BY Zenon DEF PlaceInv, Discovery
  <2>3. routine[q].sn \in Sns \ {routine[p].sn}
    BY <2>1, <2>2
  <2>4. Fresh(q)
    BY DEF FreshInv
  <2>5. core'[routine[q].sn] = core[routine[q].sn]
    BY <2>3
  <2>6. \A n \in olt' : n.sn = routine[q].sn => \E o \in olt : o.sn = routine[q].sn
    BY <2>3
  <2>. QED  BY Zenon, <1>1, <2>4, <2>5, <2>6 DEF Fresh
<1>3. CASE routine[q].pc \notin NoDevice \cup HasDevice
  BY <1>1, <1>3 DEF Fresh
<1>. QED  BY <1>2, <1>3

(* The steps of a routine besides those that make a device or activate. *)
LEMMA RoutineFresh ==
    ASSUME Typed, PlaceInv, FreshInv, ExistenceCheck = "device", "get" \notin scenario.kinds,
           NEW p \in Pons, RoutineStep(p),
           ~SendChildDeviceDetected(p), ~ActivateOnu(p)
    PROVE  FreshInv'
<1>1. core' = core /\ olt' = olt
  BY Zenon DEF RoutineStep, TakeIndication, CheckDevice, CheckTechProfile, LoadOrStore, GetONUID,
         AddNewOnuGemInfo, GetChildDevice, CacheOnu, UpdateOnuDeviceState, Completed,
         OnuIndication, UpdateOnuStates, adapter, env
<1>2. Others(p) /\ SameOnus
  BY <1>1, RoutineAlone DEF SameOnus
<1>3. \A q \in Pons \ {p} : Fresh(q)'
  BY <1>1, <1>2, FreshStays DEF FreshInv, Others
<1>4. ~Fault("get")
  BY DEF Fault
<1>5. ASSUME NEW pc, Goto(p, pc), pc \in NoDevice => core[routine[p].sn] = None,
             pc \in HasDevice => routine[p].pc \in HasDevice
      PROVE  Fresh(p)'
  <2>1. CASE pc = "idle"
    <3>1. routine'[p] = Idle
      BY Zenon, <1>5, <2>1, GotoStep
    <3>2. Idle.pc = "idle"
      BY DEF Idle
    <3>3. Idle.pc \notin NoDevice \cup HasDevice
      BY <3>2 DEF NoDevice, HasDevice
    <3>. QED  BY <3>1, <3>3 DEF Fresh
  <2>2. CASE pc # "idle"
    <3>1. routine'[p].pc = pc /\ routine'[p].sn = routine[p].sn
      BY Zenon, <1>5, <2>2, GotoStep
    <3>. QED  BY Zenon, <1>1, <1>5, <3>1 DEF FreshInv, Fresh
  <2>. QED  BY <2>1, <2>2
<1>6. ASSUME routine'[p].pc \notin NoDevice \cup HasDevice PROVE Fresh(p)'
  BY <1>6 DEF Fresh
<1>7. ASSUME Return(p) PROVE Fresh(p)'
  <2>1. routine'[p].pc = "idle"
    BY <1>7 DEF Return, Idle, Typed
  <2>. QED  BY Zenon, <1>6, <2>1 DEF NoDevice, HasDevice
<1>8. ASSUME TakeIndication(p) PROVE Fresh(p)'
  <2>1. queue[p] \in Seq(Indication) /\ queue[p] # <<>>
    BY Zenon, <1>8 DEF TakeIndication, Typed
  <2>2. Head(queue[p]) \in Indication
    BY <2>1
  <2>3. Head(queue[p]).kind \in {"disc", "up", "down"}
    BY Zenon, <2>2 DEF Indication
  <2>4. routine'[p].pc \in {"check", "up", "down"}
    BY Zenon, <1>8, <2>3 DEF TakeIndication, Typed
  <2>. QED  BY Zenon, <1>6, <2>4 DEF NoDevice, HasDevice
<1>9. ASSUME CheckDevice(p) PROVE Fresh(p)'
  BY <1>4, <1>5, <1>7, <1>9 DEF CheckDevice, NoDevice, HasDevice
<1>10. ASSUME LoadOrStore(p) PROVE Fresh(p)'
  <2>1. core[routine[p].sn] = None
    BY <1>10 DEF LoadOrStore, At, FreshInv, Fresh, NoDevice
  <2>. QED  BY <1>5, <1>10, <2>1 DEF LoadOrStore, HasDevice
<1>11. ASSUME GetChildDevice(p) PROVE Fresh(p)'
  <2>1. core[routine[p].sn] = None
    BY Zenon, <1>11 DEF GetChildDevice, At, FreshInv, Fresh, NoDevice
  <2>. QED  BY Zenon, <1>4, <1>5, <1>11, <2>1 DEF GetChildDevice, HasDevice
<1>12. ASSUME GetONUID(p) PROVE Fresh(p)'
  <2>1. core[routine[p].sn] = None
    BY Zenon, <1>12 DEF GetONUID, At, FreshInv, Fresh, NoDevice
  <2>2. ASSUME NEW id, GotoWith(p, "detect", id) PROVE Fresh(p)'
    BY <1>1, <2>1, <2>2, GotoWithStep DEF Fresh, HasDevice
  <2>. QED  BY Zenon, <1>7, <1>12, <2>2 DEF GetONUID
<1>13. ASSUME CacheOnu(p) \/ UpdateOnuDeviceState(p) \/ AddNewOnuGemInfo(p) PROVE Fresh(p)'
  BY Zenon, <1>5, <1>7, <1>13 DEF CacheOnu, UpdateOnuDeviceState, AddNewOnuGemInfo, At, NoDevice, HasDevice
<1>14. ASSUME Completed(p) \/ UpdateOnuStates(p) PROVE Fresh(p)'
  BY Zenon, <1>7, <1>14 DEF Completed, UpdateOnuStates
<1>15. ASSUME OnuIndication(p) PROVE Fresh(p)'
  <2>1. ASSUME NEW t, routine' = [routine EXCEPT ![p] =
                  [pc |-> IF At(p, "up") THEN "send_up" ELSE "send_down", sn |-> t, id |-> None]]
        PROVE  Fresh(p)'
    <3>1. routine'[p].pc \in {"send_up", "send_down"}
      BY <2>1 DEF Typed
    <3>. QED  BY Zenon, <1>6, <3>1 DEF NoDevice, HasDevice
  <2>. QED  BY <1>7, <1>15, <2>1 DEF OnuIndication
<1>16. ~CheckTechProfile(p)
  BY Zenon DEF CheckTechProfile
<1>17. Fresh(p)'
  BY Zenon, <1>8, <1>9, <1>10, <1>11, <1>12, <1>13, <1>14, <1>15, <1>16 DEF RoutineStep
<1>. QED  BY <1>1, <1>3, <1>17 DEF FreshInv

LEMMA SendFresh ==
    ASSUME Typed, PlaceInv, FreshInv, NEW p \in Pons, SendChildDeviceDetected(p)
    PROVE  FreshInv'
<1>1. /\ olt' = olt /\ routine[p] \in Routine /\ routine[p].pc = "detect"
      /\ core[routine[p].sn] = None
  BY DEF SendChildDeviceDetected, Typed, At, FreshInv, Fresh, NoDevice
<1>2. routine[p].pc \in Discovering /\ Others(p) /\ routine[p].sn \in Sns
  BY Zenon, <1>1, RoutineAlone DEF RoutineStep, Discovering, Routine
<1>3. \A t \in Sns \ {routine[p].sn} : core'[t] = core[t]
  BY <1>2 DEF SendChildDeviceDetected, Typed
<1>4. \A q \in Pons \ {p} : Fresh(q)'
  BY Zenon, <1>1, <1>2, <1>3, FreshOthers
<1>5. \A o \in olt : o.sn # routine[p].sn
  BY <1>1, OltHasDevice
<1>6. Fresh(p)'
  <2>1. CASE Goto(p, "client")
    <3>. DEFINE pc == "client"
    <3>0. pc # "idle"
      OBVIOUS
    <3>. HIDE DEF pc
    <3>1. routine'[p].pc = pc /\ routine'[p].sn = routine[p].sn
      <4>1. Goto(p, pc)
        BY <2>1 DEF pc
      <4>. QED  BY Zenon, <3>0, <4>1, GotoStep
    <3>2. pc \notin NoDevice
      BY DEF pc, NoDevice
    <3>. QED  BY Zenon, <1>1, <1>5, <3>1, <3>2 DEF Fresh
  <2>2. CASE Return(p)
    BY Zenon, <2>2 DEF Return, Idle, Typed, Fresh, NoDevice, HasDevice
  <2>. QED  BY <2>1, <2>2 DEF SendChildDeviceDetected
<1>. QED  BY Zenon, <1>1, <1>4, <1>6 DEF FreshInv

LEMMA ActivateFresh ==
    ASSUME Typed, PlaceInv, FreshInv, NEW p \in Pons, ActivateOnu(p)
    PROVE  /\ FreshInv'
           /\ \A n \in olt' : n \in olt \/ \A o \in olt : o.sn # n.sn
<1> DEFINE r == [pon |-> p, id |-> routine[p].id, sn |-> routine[p].sn, st |-> "ranging"]
<1>1. /\ core' = core /\ routine[p] \in Routine /\ routine[p].pc = "activate"
      /\ \A o \in olt : o.sn # routine[p].sn
  BY Zenon DEF ActivateOnu, Typed, At, FreshInv, Fresh, HasDevice
<1>2. \A n \in olt' : n \in olt \/ n = r
  BY Zenon DEF ActivateOnu
<1>3. routine[p].pc \in Discovering /\ Others(p) /\ r.sn = routine[p].sn
  BY Zenon, <1>1, RoutineAlone DEF RoutineStep, Discovering
<1>4. \A q \in Pons \ {p} : Fresh(q)'
  BY Zenon, <1>1, <1>2, <1>3, FreshOthers
<1>5. Fresh(p)'
  <2>1. Ends(p)
    BY EndingSteps, Zenon
  <2>2. NoDevice \cup HasDevice \subseteq Discovering
    BY DEF NoDevice, HasDevice, Discovering
  <2>. QED  BY <2>1, <2>2, Zenon DEF Ends, Fresh
<1>6. ASSUME NEW o \in olt', NEW n \in olt', o.sn = n.sn PROVE o = n
  BY Zenon, <1>1, <1>2, <1>3, <1>6 DEF FreshInv
<1>. QED  BY Zenon, <1>1, <1>2, <1>3, <1>4, <1>5, <1>6 DEF FreshInv

(* An ONU the OLT ranges is one it ranged before, or one it did not have. *)
RangedOnce == \A n \in olt' : n.st = "ranging" => n \in olt \/ \A o \in olt : o.sn # n.sn

LEMMA OltFresh ==
    ASSUME Typed, FreshInv,
           \/ OltStep \/ DisableDevice
           \/ \E s \in Sns : OltDiscovers(s) \/ OnuDisabled(s) \/ ReconcileOnu(s)
           \/ \E k \in Keys : StoreTechProfile(k)
    PROVE  FreshInv' /\ RangedOnce /\ routine' = routine
<1>1. core' = core /\ routine' = routine
  BY Zenon DEF OltStep, OltRanges, OltReportsDown, DisableDevice, OltDiscovers, OnuDisabled,
               ReconcileOnu, StoreTechProfile, env
<1>2. \A o \in olt : o \in Onu
  BY DEF Typed
<1>3. ASSUME NEW s \in Sns, OnuDisabled(s)
      PROVE  \A n \in olt' : \E o \in olt : n = IF o.sn = s THEN [o EXCEPT !.st = "idle"] ELSE o
  BY <1>3 DEF OnuDisabled
<1>4. ASSUME DisableDevice PROVE \A n \in olt' : \E o \in olt : n = [o EXCEPT !.st = "idle"]
  BY <1>4 DEF DisableDevice
<1>5. ASSUME NEW o \in olt, OltRanges(o) \/ OltReportsDown(o)
      PROVE  \E st \in {"up", "idle"} : olt' = (olt \ {o}) \cup {[o EXCEPT !.st = st]}
  BY <1>5 DEF OltRanges, OltReportsDown
<1>6. ASSUME \/ \E s \in Sns : OltDiscovers(s) \/ ReconcileOnu(s)
             \/ \E k \in Keys : StoreTechProfile(k)
      PROVE  olt' = olt
  BY <1>6, Zenon DEF OltDiscovers, ReconcileOnu, StoreTechProfile, env
<1>7. SameOnus /\ RangedOnce /\ \A m, n \in olt' : m.sn = n.sn => m = n
  <2>1. CASE \E s \in Sns : OnuDisabled(s)
    BY <1>2, <1>3, <2>1 DEF SameOnus, RangedOnce, FreshInv, Onu
  <2>2. CASE DisableDevice
    BY <1>2, <1>4, <2>2 DEF SameOnus, RangedOnce, FreshInv, Onu
  <2>3. CASE OltStep
    <3>1. PICK o \in olt : OltRanges(o) \/ OltReportsDown(o)
      BY <2>3 DEF OltStep
    <3>2. PICK st \in {"up", "idle"} : olt' = (olt \ {o}) \cup {[o EXCEPT !.st = st]}
      BY <1>5, <3>1
    <3>. QED  BY <1>2, <3>2 DEF SameOnus, RangedOnce, FreshInv, Onu
  <2>4. CASE olt' = olt
    BY <2>4 DEF SameOnus, RangedOnce, FreshInv
  <2>. QED  BY <1>6, <2>1, <2>2, <2>3, <2>4
<1>8. \A q \in Pons : Fresh(q)'
  BY <1>1, <1>7, FreshStays DEF FreshInv
<1>. QED  BY <1>1, <1>7, <1>8 DEF FreshInv

LEMMA RestartFresh == ASSUME FreshInv, Restart PROVE FreshInv' /\ RangedOnce
<1>1. olt' = olt /\ \A q \in Pons : routine'[q].pc = "idle"
  BY DEF Restart, Idle
<1>2. \A q \in Pons : Fresh(q)'
  BY <1>1 DEF Fresh, NoDevice, HasDevice
<1>. QED  BY <1>1, <1>2 DEF FreshInv, RangedOnce

LEMMA NextFresh ==
    ASSUME Typed, PlaceInv, InPlace, FreshInv, ExistenceCheck = "device",
           "get" \notin scenario.kinds, Next
    PROVE  FreshInv' /\ RangedOnce
<1>1. ASSUME NEW p \in Pons, RoutineStep(p) PROVE FreshInv' /\ RangedOnce
  <2>1. CASE ActivateOnu(p)
    BY <2>1, ActivateFresh DEF RangedOnce
  <2>2. CASE ~ActivateOnu(p)
    <3>1. olt' = olt
      BY Zenon, <1>1, <2>2 DEF RoutineStep, TakeIndication, CheckDevice, CheckTechProfile, LoadOrStore,
         GetONUID, AddNewOnuGemInfo, GetChildDevice, SendChildDeviceDetected, CacheOnu,
         UpdateOnuDeviceState, Completed, OnuIndication, UpdateOnuStates, adapter, env
    <3>. QED  BY Zenon, <1>1, <2>2, <3>1, RoutineFresh, SendFresh DEF RangedOnce
  <2>. QED  BY <2>1, <2>2
<1>2. ASSUME Restart PROVE FreshInv' /\ RangedOnce
  BY <1>2, RestartFresh
<1>. QED  BY Zenon, <1>1, <1>2, NoneGoes, OltFresh DEF Next

-------------------------------------------------------------------------------
(* No look-up of a device in the core fails, no answer to                  *)
(* ChildDeviceDetected is lost, no device is deleted and no ONU moved.     *)
Undisturbed == \A sc \in Scenarios : sc.kinds \cap {"get", "answer", "delete", "replug"} = {}

ServiceInv == InPlaceInv /\ CacheInv /\ (ExistenceCheck = "device" => FreshInv)

LEMMA UndisturbedKinds ==
    ASSUME Undisturbed, InPlaceInv
    PROVE  Typed /\ PlaceInv /\ InPlace /\ "get" \notin scenario.kinds
<1>1. Typed /\ scenario \in Setting
  BY DEF InPlaceInv, Typed
<1>2. PICK sc \in Scenarios : scenario.kinds = sc.kinds
  BY <1>1 DEF Setting
<1>3. InPlace /\ "get" \notin scenario.kinds
  BY <1>2 DEF Undisturbed, InPlace
<1>. QED  BY <1>1, <1>3 DEF InPlaceInv

LEMMA OnusServed == Undisturbed => (Spec => []ServiceInv)
<1>. SUFFICES ASSUME Undisturbed PROVE Spec => []ServiceInv
  OBVIOUS
<1>1. NoLostAnswer
  BY DEF Undisturbed, NoLostAnswer
<1>2. ASSUME Init, InPlaceInv PROVE ServiceInv
  <2>1. \A p \in Pons : queue[p] = <<>> /\ routine[p].pc = "idle"
    BY <1>2 DEF Init, Idle
  <2>2. CacheInv
    <3>1. Cached
      BY <1>2 DEF Init, Cached
    <3>2. \A p \in Pons : Reported(p)
      BY <2>1 DEF Reported, Reports
    <3>. QED  BY <3>1, <3>2 DEF CacheInv
  <2>3. FreshInv
    <3>1. olt = {}
      BY <1>2 DEF Init
    <3>. QED  BY <2>1, <3>1 DEF FreshInv, Fresh, NoDevice, HasDevice
  <2>. QED  BY <1>2, <2>2, <2>3 DEF ServiceInv
<1>3. ASSUME ServiceInv, InPlaceInv', [Next]_vars PROVE ServiceInv'
  <2>1. Typed /\ PlaceInv /\ InPlace /\ "get" \notin scenario.kinds
    BY <1>3, UndisturbedKinds DEF ServiceInv
  <2>2. CASE Next
    <3>1. ExistenceCheck' = ExistenceCheck
      BY <2>1, <2>2, NextFault DEF ExistenceCheck, Fault, Typed, Setting
    <3>. QED  BY <1>3, <2>1, <2>2, <3>1, NextCaches, NextFresh DEF ServiceInv
  <2>3. CASE UNCHANGED vars
    <3>1. /\ onus' = onus /\ core' = core /\ routine' = routine /\ queue' = queue
          /\ olt' = olt /\ scenario' = scenario
      BY <2>3 DEF vars, adapter, env
    <3>2. ASSUME CacheInv PROVE CacheInv'
      <4>1. Cached'
        BY Zenon, <3>1, <3>2 DEF CacheInv, Cached, IsDevice
      <4>2. \A p \in Pons : Reported(p)'
        BY <3>1, <3>2 DEF CacheInv, Reported, IsDevice
      <4>. QED  BY <4>1, <4>2 DEF CacheInv
    <3>3. ASSUME FreshInv PROVE FreshInv'
      BY <3>1, <3>3 DEF FreshInv, Fresh
    <3>4. ExistenceCheck' = ExistenceCheck
      BY <3>1 DEF ExistenceCheck
    <3>. QED  BY <1>3, <3>2, <3>3, <3>4 DEF ServiceInv
  <2>. QED  BY <1>3, <2>2, <2>3
<1>. QED  BY <1>1, <1>2, <1>3, OnusInPlace, PTL DEF Spec

(* Only the check lets a discovery go on to discOnus. *)
LEMMA OnlyCheckPasses ==
    ASSUME Typed, PlaceInv, InPlace, Next, NEW p \in Pons, At(p, "check"),
           routine'[p].pc = "load"
    PROVE  CheckDevice(p) \/ CheckTechProfile(p)
<1>1. routine'[p] # routine[p]
  BY DEF At
<1>2. ~Restart
  BY DEF Restart, Idle
<1>3. ASSUME \/ OltStep \/ DisableDevice
             \/ \E s \in Sns : OltDiscovers(s) \/ OnuDisabled(s) \/ ReconcileOnu(s)
             \/ \E k \in Keys : StoreTechProfile(k)
      PROVE  routine' = routine
  BY <1>3, Zenon DEF OltStep, OltRanges, OltReportsDown, DisableDevice, OltDiscovers, OnuDisabled,
               ReconcileOnu, StoreTechProfile, env
<1>4. PICK q \in Pons : RoutineStep(q)
  BY Zenon, <1>1, <1>2, <1>3, NoneGoes DEF Next
<1>5. q = p
  BY <1>1, <1>4, RoutineAlone DEF Others
<1>. QED
  BY Zenon, <1>4, <1>5 DEF RoutineStep, TakeIndication, LoadOrStore, GetChildDevice, GetONUID,
     SendChildDeviceDetected, CacheOnu, UpdateOnuDeviceState, AddNewOnuGemInfo, ActivateOnu,
     Completed, OnuIndication, UpdateOnuStates, At

(* An ONU in service is not discovered again, for every set of ONUs, ports *)
(* and ids, whichever check is configured, whatever else fails and         *)
(* whenever ONUs or the device are disabled or the adapter restarts:       *)
(* whatever the caches have lost, the core still knows the device.         *)
THEOREM ServiceIsKept == Undisturbed => (Spec => ServiceKept)
<1>. SUFFICES ASSUME Undisturbed PROVE Spec => ServiceKept
  OBVIOUS
<1>1. ASSUME ServiceInv, [Next]_vars
      PROVE  [\A p \in Pons : At(p, "check") /\ routine'[p].pc = "load" =>
                 \A k \in tp : gemInfo[k] # routine[p].sn]_vars
  <2>1. CASE Next
    BY <1>1, <2>1, UndisturbedKinds, OnlyCheckPasses, CheckKeeps DEF ServiceInv
  <2>. QED  BY <1>1, <2>1
<1>. QED  BY <1>1, OnusServed, PTL DEF Spec, ServiceKept

(* Under the same condition an ONU is activated once for each device, with *)
(* CheckOnuDevExistenceAtOnuDiscovery: from the check to the answer of the *)
(* core no other discovery makes the device, because an ONU is announced   *)
(* on one port and a port has one routine.                                 *)
THEOREM OnusActivatedOnce == Undisturbed => (Spec => ActivatedOncePerDevice)
<1>. SUFFICES ASSUME Undisturbed PROVE Spec => ActivatedOncePerDevice
  OBVIOUS
<1>1. ASSUME ServiceInv, [Next]_vars
      PROVE  [ExistenceCheck = "device" =>
                 \A o \in olt : o.st # "ranging" /\ core[o.sn] # None =>
                     [o EXCEPT !.st = "ranging"] \notin olt']_vars
  <2>1. ASSUME Next, ExistenceCheck = "device", NEW o \in olt, o.st # "ranging"
        PROVE  [o EXCEPT !.st = "ranging"] \notin olt'
    <3>1. FreshInv /\ RangedOnce /\ o \in Onu
      BY <1>1, <2>1, UndisturbedKinds, NextFresh DEF ServiceInv, Typed
    <3>. QED  BY Zenon, <2>1, <3>1 DEF RangedOnce, FreshInv, Onu
  <2>. QED  BY <1>1, <2>1
<1>. QED  BY <1>1, OnusServed, PTL DEF Spec, ActivatedOncePerDevice
===============================================================================

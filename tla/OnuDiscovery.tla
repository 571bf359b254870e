----------------------------- MODULE OnuDiscovery -----------------------------
(***************************************************************************)
(* How the ONUs of one OLT are discovered, activated, reported and lost:   *)
(* onuDiscIndication, onuIndication and handleOnuDisableIndication, run by *)
(* one routine per PON port and by the indication reader; ChildDeviceLost, *)
(* called by the core; and DisableDevice.  They share discOnus, onus, the  *)
(* pools of ONU ids and the OnuGemInfo of the resource manager.            *)
(*                                                                         *)
(* A step is one RPC or one operation on a shared map.                     *)
(***************************************************************************)
EXTENDS Naturals, Sequences, FiniteSets

CONSTANTS
    Sns,            \* serial numbers of ONUs
    Pons,           \* PON ports
    OnuIds,         \* the pool of ONU ids of each PON port
    Scenarios,      \* records of an initial attachment of the ONUs, the existence
                    \* check configured, "off" (ForceOnuDiscIndProcessing), "device"
                    \* (CheckOnuDevExistenceAtOnuDiscovery) or "techprofile", the kinds
                    \* of external events that may disturb the discovery, and how many
                    \* of them happen
    MaxQueue,       \* indications queued per PON port
    None

(* A child device of the core: its port, its id, and whether it is being   *)
(* deleted.                                                                *)
Device == [pon : Pons, id : OnuIds, del : BOOLEAN]

ASSUME OnuDiscoveryAssumption ==
    /\ \A sc \in Scenarios : /\ sc.attach \in [Sns -> Pons \cup {None}] /\ sc.faults \in Nat
                             /\ sc.check \in {"off", "device", "techprofile"}
    /\ MaxQueue \in Nat
    /\ None \notin Sns /\ None \notin Pons /\ None \notin OnuIds /\ None \notin Device

VARIABLES
    discOnus, \* none, inProcess (true in the code) or completed (false)
    onus,     \* the cached serial number under each key <<pon, onu id>>
    pool,     \* the free ONU ids of each PON port
    gemInfo,  \* the serial number in the OnuGemInfo of each key
    tp,       \* the keys some tech profile id is stored for
    core,     \* the child device of each serial number
    olt,      \* the ONUs configured at the OLT
    attach,   \* the PON port each ONU is plugged into
    queue,    \* the indication channel of each PON port
    routine,  \* the onuIndicationsRoutine of each PON port
    lost,     \* the ChildDeviceLost call for each serial number
    recon,    \* the child devices reconcileOnus has still to look at
    child,    \* the last state the ONU adapter was told
    scenario  \* the existence check, and the external events still to come

adapter == <<discOnus, onus, pool, gemInfo, tp>>
env     == <<core, olt, attach, child, scenario>>
vars    == <<adapter, env, queue, routine, lost, recon>>

Keys == Pons \X OnuIds

Idle == [pc |-> "idle", sn |-> None, id |-> None]
Away == [pc |-> "away", pon |-> None, id |-> None]

Init ==
    /\ discOnus = [s \in Sns |-> "none"]
    /\ onus = [k \in Keys |-> None]
    /\ pool = [p \in Pons |-> OnuIds]
    /\ gemInfo = [k \in Keys |-> None]
    /\ tp = {}
    /\ core = [s \in Sns |-> None]
    /\ olt = {}
    /\ queue = [p \in Pons |-> <<>>]
    /\ routine = [p \in Pons |-> Idle]
    /\ lost = [s \in Sns |-> Away]
    /\ recon = {}
    /\ child = [s \in Sns |-> "down"]
    /\ \E sc \in Scenarios :
          /\ attach = sc.attach
          /\ scenario = [check |-> sc.check, kinds |-> sc.kinds, left |-> sc.faults]

ExistenceCheck == scenario.check

Fault(kind) ==
    /\ kind \in scenario.kinds /\ scenario.left > 0
    /\ scenario' = [scenario EXCEPT !.left = @ - 1]

-------------------------------------------------------------------------------
(* The OLT and the ONUs. *)

Configured(p, s) == {o \in olt : o.pon = p /\ o.sn = s}

Put(p, ind) == Len(queue[p]) < MaxQueue /\ queue' = [queue EXCEPT ![p] = Append(@, ind)]

(* The OLT announces an ONU that is plugged in and not being ranged, again *)
(* and again.                                                              *)
OltDiscovers(s) ==
    /\ attach[s] # None
    /\ \A o \in Configured(attach[s], s) : o.st = "idle"
    /\ Put(attach[s], [kind |-> "disc", sn |-> s, id |-> None])
    /\ UNCHANGED <<adapter, env, routine, lost, recon>>

(* An activated ONU completes ranging. *)
OltRanges(o) ==
    /\ o \in olt /\ o.st = "ranging" /\ attach[o.sn] = o.pon
    /\ olt' = (olt \ {o}) \cup {[o EXCEPT !.st = "up"]}
    /\ Put(o.pon, [kind |-> "up", sn |-> o.sn, id |-> o.id])
    /\ UNCHANGED <<adapter, core, attach, child, scenario, routine, lost, recon>>

(* The OLT gives up an ONU it had configured: ranging failed, or the ONU   *)
(* went away.                                                              *)
OltReportsDown(o) ==
    /\ o \in olt /\ o.st # "idle"
    /\ attach[o.sn] # o.pon
    /\ olt' = (olt \ {o}) \cup {[o EXCEPT !.st = "idle"]}
    /\ Put(o.pon, [kind |-> "down", sn |-> o.sn, id |-> o.id])
    /\ UNCHANGED <<adapter, core, attach, child, scenario, routine, lost, recon>>

(* An ONU is moved to another PON port. *)
Replug(s, p) ==
    /\ Fault("replug")
    /\ attach' = [attach EXCEPT ![s] = p]
    /\ UNCHANGED <<adapter, core, olt, child, queue, routine, lost, recon>>

-------------------------------------------------------------------------------
(* The routine of a PON port takes the next indication. *)

At(p, pc) == routine[p].pc = pc

Goto(p, pc) == routine' = [routine EXCEPT ![p] = IF pc = "idle" THEN Idle ELSE [@ EXCEPT !.pc = pc]]

(* The id of the ONU is known. *)
GotoWith(p, pc, id) == routine' = [routine EXCEPT ![p] = [@ EXCEPT !.pc = pc, !.id = id]]

Return(p) == routine' = [routine EXCEPT ![p] = Idle]

Forget(s) == discOnus' = [discOnus EXCEPT ![s] = "none"]

TakeIndication(p) ==
    /\ At(p, "idle") /\ queue[p] # <<>>
    /\ LET ind == Head(queue[p]) IN
       routine' = [routine EXCEPT ![p] =
           [pc |-> IF ind.kind # "disc" THEN ind.kind
                   ELSE IF ExistenceCheck = "off" THEN "load" ELSE "check",
            sn |-> ind.sn, id |-> ind.id]]
    /\ queue' = [queue EXCEPT ![p] = Tail(@)]
    /\ UNCHANGED <<adapter, env, lost, recon>>

(* getChildDevice: the device is looked for in the cache by serial number, *)
(* then in the core, from where it is cached under its id.                 *)
CachedIds(s) == {k[2] : k \in {j \in Keys : onus[j] = s}}

(* Mutant: the cache is asked instead of the core. *)
CheckDeviceCacheOnly(p) ==
    /\ At(p, "check") /\ ExistenceCheck = "device"
    /\ \/ Goto(p, IF CachedIds(routine[p].sn) = {} THEN "load" ELSE "idle") /\ UNCHANGED scenario
       \/ Fault("get") /\ (Return(p) \/ Goto(p, "load"))
    /\ UNCHANGED <<adapter, core, olt, attach, child, queue, lost, recon>>

(* checkForResourceExistance.  A discovery that is ignored, or fails here, *)
(* leaves discOnus alone.                                                  *)
CheckDevice(p) ==
    /\ At(p, "check") /\ ExistenceCheck = "device"
    /\ \/ Goto(p, IF core[routine[p].sn] = None THEN "load" ELSE "idle") /\ UNCHANGED scenario
       \/ Fault("get") /\ (Return(p) \/ Goto(p, "load"))
    /\ UNCHANGED <<adapter, core, olt, attach, child, queue, lost, recon>>
(* Mutant: an ONU that is not cached counts as unknown. *)
CheckTechProfileCacheOnly(p) ==
    /\ At(p, "check") /\ ExistenceCheck = "techprofile"
    /\ LET s == routine[p].sn
           found(id) == \/ /\ Goto(p, IF gemInfo[<<p, id>>] # None /\ <<p, id>> \in tp
                                      THEN "idle" ELSE "load")
                           /\ UNCHANGED scenario
                        \/ gemInfo[<<p, id>>] = None /\ Fault("gem") /\ Return(p)
       IN \/ \E id \in CachedIds(s) : found(id) /\ UNCHANGED onus
          \/ /\ CachedIds(s) = {} /\ core[s] # None
             /\ found(core[s].id)
             /\ onus' = [onus EXCEPT ![<<p, core[s].id>>] = s]
          \/ /\ CachedIds(s) = {} /\ UNCHANGED onus
             /\ Goto(p, "load")
             /\ UNCHANGED scenario
    /\ UNCHANGED <<discOnus, pool, gemInfo, tp, core, olt, attach, child, queue, lost, recon>>

CheckTechProfile(p) ==
    /\ At(p, "check") /\ ExistenceCheck = "techprofile"
    /\ LET s == routine[p].sn
           found(id) == \/ /\ Goto(p, IF gemInfo[<<p, id>>] # None /\ <<p, id>> \in tp
                                      THEN "idle" ELSE "load")
                           /\ UNCHANGED scenario
                        \/ gemInfo[<<p, id>>] = None /\ Fault("gem") /\ Return(p)
       IN \/ \E id \in CachedIds(s) : found(id) /\ UNCHANGED onus
          \/ /\ CachedIds(s) = {} /\ core[s] # None
             /\ found(core[s].id)
             /\ onus' = [onus EXCEPT ![<<p, core[s].id>>] = s]
          \/ /\ CachedIds(s) = {} /\ UNCHANGED onus
             /\ Goto(p, "load")
             /\ (core[s] = None /\ UNCHANGED scenario) \/ Fault("get")
    /\ UNCHANGED <<discOnus, pool, gemInfo, tp, core, olt, attach, child, queue, lost, recon>>

(* Mutant: a completed discovery is processed again. *)
LoadOrStoreRetries(p) ==
    /\ At(p, "load")
    /\ LET s == routine[p].sn IN
       IF discOnus[s] # "inProcess"
       THEN discOnus' = [discOnus EXCEPT ![s] = "inProcess"] /\ Goto(p, "get")
       ELSE UNCHANGED discOnus /\ Goto(p, "completed")
    /\ UNCHANGED <<onus, pool, gemInfo, tp, env, queue, lost, recon>>

(* discOnus.LoadOrStore.  An ONU seen before is not processed again: at    *)
(* most a pending LOS alarm is cleared.                                    *)
LoadOrStore(p) ==
    /\ At(p, "load")
    /\ LET s == routine[p].sn IN
       IF discOnus[s] = "none"
       THEN discOnus' = [discOnus EXCEPT ![s] = "inProcess"] /\ Goto(p, "get")
       ELSE UNCHANGED discOnus /\ Goto(p, "completed")
    /\ UNCHANGED <<onus, pool, gemInfo, tp, env, queue, lost, recon>>

(* Mutant: the entry stays after an error. *)
GetChildDeviceKeepsEntry(p) ==
    /\ At(p, "get")
    /\ LET s == routine[p].sn IN
       \/ /\ core[s] # None
          /\ GotoWith(p, "client", core[s].id)
          /\ UNCHANGED <<discOnus, scenario>>
       \/ /\ (core[s] = None /\ UNCHANGED scenario) \/ Fault("get")
          /\ Goto(p, "id") /\ UNCHANGED discOnus
       \/ Fault("get") /\ UNCHANGED discOnus /\ Return(p)
    /\ UNCHANGED <<onus, pool, gemInfo, tp, core, olt, attach, child, queue, lost, recon>>

(* getChildDeviceFromCore.  Internal, or no connection to the core, counts *)
(* as not found.                                                           *)
GetChildDevice(p) ==
    /\ At(p, "get")
    /\ LET s == routine[p].sn IN
       \/ /\ core[s] # None
          /\ GotoWith(p, "client", core[s].id)
          /\ UNCHANGED <<discOnus, scenario>>
       \/ /\ (core[s] = None /\ UNCHANGED scenario) \/ Fault("get")
          /\ Goto(p, "id") /\ UNCHANGED discOnus
       \/ Fault("get") /\ Forget(s) /\ Return(p)
    /\ UNCHANGED <<onus, pool, gemInfo, tp, core, olt, attach, child, queue, lost, recon>>
(* Mutant: the id is not taken out of the pool. *)
GetONUIDUnreserved(p) ==
    /\ At(p, "id")
    /\ \/ \E id \in pool[p] :
             /\ UNCHANGED pool
             /\ GotoWith(p, "detect", id)
             /\ UNCHANGED <<discOnus, scenario>>
       \/ /\ (pool[p] = {} /\ UNCHANGED scenario) \/ Fault("id")
          /\ Forget(routine[p].sn) /\ Return(p) /\ UNCHANGED pool
    /\ UNCHANGED <<onus, gemInfo, tp, core, olt, attach, child, queue, lost, recon>>
(* Mutant: a failure to get an id is ignored. *)
GetONUIDUnchecked(p) ==
    /\ At(p, "id")
    /\ \/ \E id \in pool[p] :
             /\ pool' = [pool EXCEPT ![p] = @ \ {id}]
             /\ GotoWith(p, "detect", id)
             /\ UNCHANGED <<discOnus, scenario>>
       \/ /\ (pool[p] = {} /\ UNCHANGED scenario) \/ Fault("id")
          /\ Goto(p, "detect") /\ UNCHANGED <<discOnus, pool>>
    /\ UNCHANGED <<onus, gemInfo, tp, core, olt, attach, child, queue, lost, recon>>

GetONUID(p) ==
    /\ At(p, "id")
    /\ \/ \E id \in pool[p] :
             /\ pool' = [pool EXCEPT ![p] = @ \ {id}]
             /\ GotoWith(p, "detect", id)
             /\ UNCHANGED <<discOnus, scenario>>
       \/ /\ (pool[p] = {} /\ UNCHANGED scenario) \/ Fault("id")
          /\ Forget(routine[p].sn) /\ Return(p) /\ UNCHANGED pool
    /\ UNCHANGED <<onus, gemInfo, tp, core, olt, attach, child, queue, lost, recon>>

(* FreeonuID *)
Free(p, id) == pool' = [pool EXCEPT ![p] = @ \cup {id}]

(* The core creates the device under the id, unless it already has one for *)
(* this serial number; its answer may be lost.  Then the event is sent.    *)
SendChildDeviceDetected(p) ==
    /\ At(p, "detect")
    /\ LET s == routine[p].sn
           created == [core EXCEPT ![s] = [pon |-> p, id |-> routine[p].id, del |-> FALSE]]
       IN \/ /\ core[s] = None /\ core' = created
             /\ (Goto(p, "client") /\ UNCHANGED scenario) \/ (Fault("event") /\ Return(p))
             /\ UNCHANGED <<discOnus, pool>>
          \/ /\ \/ core[s] # None /\ UNCHANGED <<core, scenario>>
                \/ Fault("detect") /\ UNCHANGED core
                \/ Fault("answer") /\ core[s] = None /\ core' = created
             /\ Forget(s) /\ Free(p, routine[p].id) /\ Return(p)
    /\ UNCHANGED <<onus, gemInfo, tp, olt, attach, child, queue, lost, recon>>

(* setupChildInterAdapterClient, then the ONU is cached. *)
CacheOnu(p) ==
    /\ At(p, "client")
    /\ \/ /\ onus' = [onus EXCEPT ![<<p, routine[p].id>>] = routine[p].sn]
          /\ Goto(p, "state") /\ UNCHANGED scenario
       \/ Fault("child") /\ Return(p) /\ UNCHANGED onus
    /\ UNCHANGED <<discOnus, pool, gemInfo, tp, core, olt, attach, child, queue, lost, recon>>

UpdateOnuDeviceState(p) ==
    /\ At(p, "state")
    /\ \/ core[routine[p].sn] # None /\ Goto(p, "gem") /\ UNCHANGED scenario
       \/ core[routine[p].sn] = None /\ Return(p) /\ UNCHANGED scenario
       \/ Fault("state") /\ Return(p)
    /\ UNCHANGED <<adapter, core, olt, attach, child, queue, lost, recon>>

(* Mutant: a failure to store the OnuGemInfo is only logged. *)
AddNewOnuGemInfoLogged(p) ==
    /\ At(p, "gem")
    /\ LET k == <<p, routine[p].id>> IN
       \/ /\ gemInfo' = IF gemInfo[k] # None THEN gemInfo
                        ELSE [gemInfo EXCEPT ![k] = routine[p].sn]
          /\ Goto(p, "activate") /\ UNCHANGED scenario
       \/ gemInfo[k] = None /\ Fault("gem") /\ Goto(p, "activate") /\ UNCHANGED gemInfo
    /\ UNCHANGED <<discOnus, onus, pool, tp, core, olt, attach, child, queue, lost, recon>>

(* activateONU: the OnuGemInfo of a known ONU id is left as it is. *)
AddNewOnuGemInfo(p) ==
    /\ At(p, "gem")
    /\ LET k == <<p, routine[p].id>> IN
       \/ /\ gemInfo' = IF gemInfo[k] # None THEN gemInfo
                        ELSE [gemInfo EXCEPT ![k] = routine[p].sn]
          /\ Goto(p, "activate") /\ UNCHANGED scenario
       \/ gemInfo[k] = None /\ Fault("gem") /\ Return(p) /\ UNCHANGED gemInfo
    /\ UNCHANGED <<discOnus, onus, pool, tp, core, olt, attach, child, queue, lost, recon>>

(* An ONU that is already active answers AlreadyExists, which is no error. *)
ActivateOnu(p) ==
    /\ At(p, "activate")
    /\ LET o == [pon |-> p, id |-> routine[p].id, sn |-> routine[p].sn] IN
       \/ /\ olt' = IF \E q \in olt : q.pon = p /\ q.sn = o.sn /\ q.id = o.id /\ q.st # "idle"
                    THEN olt
                    ELSE (olt \ Configured(p, o.sn)) \cup
                         {[pon |-> p, id |-> o.id, sn |-> o.sn, st |-> "ranging"]}
          /\ Goto(p, "completed") /\ UNCHANGED scenario
       \/ Fault("activate") /\ Return(p) /\ UNCHANGED olt
    /\ UNCHANGED <<adapter, core, attach, child, queue, lost, recon>>

(* handleOnuDiscoveryProcessingError, deferred: on every return without    *)
(* error the entry is completed.                                           *)
Completed(p) ==
    /\ At(p, "completed")
    /\ discOnus' = [discOnus EXCEPT ![routine[p].sn] = "completed"]
    /\ Return(p)
    /\ UNCHANGED <<onus, pool, gemInfo, tp, env, queue, lost, recon>>

-------------------------------------------------------------------------------
(* onuIndication: the device is that of the cached ONU, or the core's for  *)
(* the serial number, which is then cached; then updateOnuStates.          *)
OnuIndication(p) ==
    /\ At(p, "up") \/ At(p, "down")
    /\ LET k      == <<p, routine[p].id>>
           cached == onus[k]
           s      == IF cached # None THEN cached ELSE routine[p].sn
       IN \/ /\ core[s] # None
             /\ onus' = [onus EXCEPT ![k] = s]
             /\ routine' = [routine EXCEPT ![p] =
                   [pc |-> IF At(p, "up") THEN "send_up" ELSE "send_down", sn |-> s, id |-> None]]
             /\ UNCHANGED scenario
          \/ core[s] = None /\ Return(p) /\ UNCHANGED <<onus, scenario>>
          \/ Fault("ind") /\ Return(p) /\ UNCHANGED onus
    /\ UNCHANGED <<discOnus, pool, gemInfo, tp, core, olt, attach, child, queue, lost, recon>>

UpdateOnuStates(p) ==
    \E st \in {"up", "down"} :
        /\ At(p, IF st = "up" THEN "send_up" ELSE "send_down")
        /\ IF st = "down" THEN Forget(routine[p].sn) ELSE UNCHANGED discOnus
        /\ \/ child' = [child EXCEPT ![routine[p].sn] = st] /\ UNCHANGED scenario
           \/ Fault("send") /\ UNCHANGED child
        /\ Return(p)
        /\ UNCHANGED <<onus, pool, gemInfo, tp, core, olt, attach, queue, lost, recon>>

(* An ONU is disabled at the OLT, and enabled again.                       *)
(* handleOnuDisableIndication runs in the reader, besides the routines.    *)
OnuDisabled(s) ==
    /\ Fault("disable")
    /\ attach[s] # None
    /\ Forget(s)
    /\ onus' = IF CachedIds(s) = {} /\ core[s] # None
               THEN [onus EXCEPT ![<<attach[s], core[s].id>>] = s] ELSE onus
    /\ child' = IF CachedIds(s) = {} /\ core[s] = None THEN child
                ELSE [child EXCEPT ![s] = "down"]
    /\ olt' = {IF o.sn = s THEN [o EXCEPT !.st = "idle"] ELSE o : o \in olt}
    /\ UNCHANGED <<pool, gemInfo, tp, core, attach, queue, routine, lost, recon>>

(* DisableDevice replaces both maps; the OLT then drops its ONUs, which    *)
(* announce themselves again once it is enabled.                           *)
DisableDevice ==
    /\ Fault("admin")
    /\ discOnus' = [s \in Sns |-> "none"]
    /\ onus' = [k \in Keys |-> None]
    /\ olt' = {[o EXCEPT !.st = "idle"] : o \in olt}
    /\ child' = [s \in Sns |-> "down"]
    /\ UNCHANGED <<pool, gemInfo, tp, core, attach, queue, routine, lost, recon>>

-------------------------------------------------------------------------------
(* The first flow of a subscriber, added once the ONU is up, stores a tech *)
(* profile id for the ONU.                                                 *)
StoreTechProfile(k) ==
    /\ Fault("flow")
    /\ gemInfo[k] # None /\ onus[k] # None /\ child[onus[k]] = "up"
    /\ [pon |-> k[1], id |-> k[2], sn |-> onus[k], st |-> "up"] \in olt
    /\ tp' = tp \cup {k}
    /\ UNCHANGED <<discOnus, onus, pool, gemInfo, core, olt, attach, child, queue, routine, lost, recon>>

(* The core deletes a child device: it calls ChildDeviceLost and drops the *)
(* device at some moment of that call.                                     *)
CoreDeletes(s) ==
    /\ core[s] # None /\ ~core[s].del /\ lost[s] = Away
    /\ Fault("delete")
    /\ core' = [core EXCEPT ![s].del = TRUE]
    /\ lost' = [lost EXCEPT ![s] = [pc |-> "gem", pon |-> core[s].pon, id |-> core[s].id]]
    /\ UNCHANGED <<adapter, olt, attach, child, queue, routine, recon>>

CoreForgets(s) ==
    /\ core[s] # None /\ core[s].del
    /\ core' = [core EXCEPT ![s] = None]
    /\ child' = [child EXCEPT ![s] = "down"]
    /\ UNCHANGED <<adapter, olt, attach, scenario, queue, routine, lost, recon>>

LostAt(s, pc) == lost[s].pc = pc
LostKey(s) == <<lost[s].pon, lost[s].id>>

(* ChildDeviceLost: flows, UNI data and OnuGemInfo of the id are removed;  *)
(* failures of the KV store are only logged.                               *)
LostClearData(s) ==
    /\ LostAt(s, "gem")
    /\ LET k == LostKey(s) IN
       \/ gemInfo[k] = None /\ UNCHANGED <<gemInfo, tp, scenario>>
       \/ gemInfo[k] # None /\ gemInfo' = [gemInfo EXCEPT ![k] = None] /\ tp' = tp \ {k} /\ UNCHANGED scenario
       \/ gemInfo[k] # None /\ Fault("gem") /\ UNCHANGED gemInfo /\ tp' \in {tp, tp \ {k}}
    /\ lost' = [lost EXCEPT ![s].pc = "delete"]
    /\ UNCHANGED <<discOnus, onus, pool, core, olt, attach, child, queue, routine, recon>>

LostDeleteOnu(s) ==
    /\ LostAt(s, "delete")
    /\ \/ /\ olt' = olt \ {o \in olt : o.pon = lost[s].pon /\ o.id = lost[s].id /\ o.sn = s}
          /\ lost' = [lost EXCEPT ![s].pc = "free"] /\ UNCHANGED scenario
       \/ Fault("remove") /\ lost' = [lost EXCEPT ![s] = Away] /\ UNCHANGED olt
    /\ UNCHANGED <<adapter, core, attach, child, queue, routine, recon>>

LostFreeId(s) ==
    /\ LostAt(s, "free")
    /\ Free(lost[s].pon, lost[s].id)
    /\ lost' = [lost EXCEPT ![s].pc = "forget"]
    /\ UNCHANGED <<discOnus, onus, gemInfo, tp, env, queue, routine, recon>>
(* Mutant: the id is freed where the caches are cleared, too. *)
LostForgetFreesAgain(s) ==
    /\ LostAt(s, "forget")
    /\ onus' = [onus EXCEPT ![LostKey(s)] = None]
    /\ Forget(s)
    /\ lost' = [lost EXCEPT ![s] = Away]
    /\ Free(lost[s].pon, lost[s].id)
    /\ UNCHANGED <<gemInfo, tp, env, queue, routine, recon>>

LostForget(s) ==
    /\ LostAt(s, "forget")
    /\ onus' = [onus EXCEPT ![LostKey(s)] = None]
    /\ Forget(s)
    /\ lost' = [lost EXCEPT ![s] = Away]
    /\ UNCHANGED <<pool, gemInfo, tp, env, queue, routine, recon>>

-------------------------------------------------------------------------------
(* The adapter restarts: what is not in the KV store is lost, and doStateUp *)
(* runs reconcileOnus over the core's child devices.                        *)
Restart ==
    /\ Fault("restart")
    /\ discOnus' = [s \in Sns |-> "none"]
    /\ onus' = [k \in Keys |-> None]
    /\ queue' = [p \in Pons |-> <<>>]
    /\ routine' = [p \in Pons |-> Idle]
    /\ lost' = [s \in Sns |-> Away]
    /\ recon' = {s \in Sns : core[s] # None}
    /\ UNCHANGED <<pool, gemInfo, tp, core, olt, attach, child>>

(* An ONU whose state the core and the OLT see differently is reported as  *)
(* if by the OLT, any other reachable one is cached.                       *)
ReconcileOnu(s) ==
    /\ s \in recon
    /\ recon' = recon \ {s}
    /\ LET d  == core[s]
           up == d # None /\ \E o \in olt : o.sn = s /\ o.pon = d.pon /\ o.id = d.id /\ o.st = "up"
       IN \/ /\ d # None /\ up /\ child[s] # "up"
             /\ Put(d.pon, [kind |-> "up", sn |-> s, id |-> d.id]) /\ UNCHANGED <<onus, scenario>>
          \/ /\ d # None /\ ~up /\ child[s] = "up"
             /\ Put(d.pon, [kind |-> "down", sn |-> s, id |-> d.id]) /\ UNCHANGED <<onus, scenario>>
          \/ /\ d # None /\ up /\ child[s] = "up"
             /\ onus' = [onus EXCEPT ![<<d.pon, d.id>>] = s] /\ UNCHANGED <<queue, scenario>>
          \/ /\ ~up /\ (d = None \/ child[s] # "up") /\ UNCHANGED <<onus, queue, scenario>>
          \/ Fault("info") /\ UNCHANGED <<onus, queue>>
    /\ UNCHANGED <<discOnus, pool, gemInfo, tp, core, olt, attach, child, routine, lost>>

-------------------------------------------------------------------------------
RoutineStep(p) ==
    \/ TakeIndication(p) \/ CheckDevice(p) \/ CheckTechProfile(p) \/ LoadOrStore(p)
    \/ GetChildDevice(p) \/ GetONUID(p) \/ SendChildDeviceDetected(p) \/ CacheOnu(p)
    \/ UpdateOnuDeviceState(p) \/ AddNewOnuGemInfo(p) \/ ActivateOnu(p) \/ Completed(p)
    \/ OnuIndication(p) \/ UpdateOnuStates(p)

LostStep(s) == LostClearData(s) \/ LostDeleteOnu(s) \/ LostFreeId(s) \/ LostForget(s)

OltStep == \E o \in olt : OltRanges(o) \/ OltReportsDown(o)

Next ==
    \/ \E p \in Pons : RoutineStep(p)
    \/ \E s \in Sns : \/ OltDiscovers(s) \/ OnuDisabled(s) \/ CoreDeletes(s) \/ CoreForgets(s)
                      \/ LostStep(s)
                      \/ \E p \in Pons : Replug(s, p)
    \/ OltStep \/ DisableDevice \/ Restart
    \/ \E s \in Sns : ReconcileOnu(s)
    \/ \E k \in Keys : StoreTechProfile(k)

Spec == Init /\ [][Next]_vars

(* The routines run, the OLT keeps announcing ONUs and reports what        *)
(* becomes of the activated ones, and the core completes a deletion.       *)
Fairness ==
    /\ \A p \in Pons : WF_vars(RoutineStep(p))
    /\ \A s \in Sns : SF_vars(OltDiscovers(s)) /\ WF_vars(LostStep(s))
                     /\ WF_vars(CoreForgets(s)) /\ SF_vars(ReconcileOnu(s))
    /\ SF_vars(OltStep)

FairSpec == Spec /\ Fairness
-------------------------------------------------------------------------------
Pc == {"idle", "check", "load", "get", "id", "detect", "client", "state", "gem", "activate",
       "completed", "up", "down", "send_up", "send_down"}

TypeOK ==
    /\ discOnus \in [Sns -> {"none", "inProcess", "completed"}]
    /\ onus \in [Keys -> Sns \cup {None}] /\ gemInfo \in [Keys -> Sns \cup {None}]
    /\ pool \in [Pons -> SUBSET OnuIds] /\ tp \subseteq Keys
    /\ recon \subseteq Sns
    /\ core \in [Sns -> {None} \cup Device]
    /\ olt \subseteq [pon : Pons, id : OnuIds, sn : Sns, st : {"idle", "ranging", "up"}]
    /\ attach \in [Sns -> Pons \cup {None}] /\ child \in [Sns -> {"up", "down"}]
    /\ routine \in [Pons -> [pc : Pc, sn : Sns \cup {None}, id : OnuIds \cup {None}]]
    /\ lost \in [Sns -> [pc : {"away", "gem", "delete", "free", "forget"},
                         pon : Pons \cup {None}, id : OnuIds \cup {None}]]

InPlace == scenario.kinds \cap {"delete", "replug"} = {}

(* An id identifies one ONU on its PON port: while no device is deleted    *)
(* and no ONU is moved to another port, the OLT never has two serial       *)
(* numbers under one id, whatever fails between GetONUID and ActivateOnu   *)
(* and whenever the adapter restarts.                                      *)
NoSharedId ==
    InPlace => \A a, b \in olt : a.pon = b.pon /\ a.id = b.id => a.sn = b.sn

(* activateONU leaves the OnuGemInfo of a known id alone, so that it must  *)
(* be that of the ONU the OLT is told to activate: flows, alarms and the   *)
(* reconciliation find the ONU through it.                                 *)
GemInfoMatches == InPlace => \A o \in olt : gemInfo[<<o.pon, o.id>>] = o.sn

(* The id of a device the core keeps is not free, so that GetONUID cannot  *)
(* hand it to another ONU, however FreeonuID calls of failed discoveries   *)
(* and of ChildDeviceLost interleave with new discoveries.                 *)
DeviceIdHeld ==
    \A s \in Sns : core[s] # None /\ ~core[s].del => core[s].id \notin pool[core[s].pon]

(* discOnus lets one routine at a time process the discovery of an ONU,    *)
(* also when the ONU is announced on two PON ports.                        *)
Processing(p) == routine[p].pc \in {"get", "id", "detect", "client", "state", "gem", "activate"}

OneAtATime ==
    \A p, q \in Pons : p # q /\ Processing(p) /\ Processing(q) => routine[p].sn # routine[q].sn

(* An ONU that has a tech profile in the KV store is in service: no        *)
(* discovery of it passes checkForResourceExistance, although that looks   *)
(* the ONU up in caches that a restart or DisableDevice may have emptied.  *)
ServiceKept ==
    [][\A p \in Pons : At(p, "check") /\ routine'[p].pc = "load" =>
          \A k \in tp : gemInfo[k] # routine[p].sn]_vars

(* With CheckOnuDevExistenceAtOnuDiscovery an ONU is activated once for    *)
(* each device the core creates for it.                                    *)
ActivatedOncePerDevice ==
    [][ExistenceCheck = "device" =>
          \A o \in olt : o.st # "ranging" /\ core[o.sn] # None =>
              [o EXCEPT !.st = "ranging"] \notin olt']_vars

(* Errors before the device exists, in getting the device, the id or the   *)
(* core's answer, and restarts of the adapter delay the ONU but do not     *)
(* keep it down: its adapter is told that it is up.                        *)
ComesUp == \A s \in Sns : <>[](child[s] = "up")
===============================================================================

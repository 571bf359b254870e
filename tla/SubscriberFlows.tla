---------------------------- MODULE SubscriberFlows ----------------------------
(***************************************************************************)
(* The flows of one ONU: AddFlow and RemoveFlow of openolt_flowmgr.go with  *)
(* everything they create and release (tech profile instances, alloc ids,  *)
(* gem ports, schedulers, queues, meters, flow ids per gem port), and the   *)
(* clean-up of the ONU in ChildDeviceLost.                                 *)
(*                                                                         *)
(* The handler routine of the ONU takes one request at a time (see         *)
(* HandlerRoutines), so a request is one step.  A step is computed as the  *)
(* set of its outcomes: every call to the OLT and every write to the KV    *)
(* store may fail, or be the last thing the process does, as long as the    *)
(* faults of the scenario are not used up.                                 *)
(*                                                                         *)
(* An entry of the resource manager is what its getter returns: the cached *)
(* value, equal to the stored one unless a write failed.                   *)
(***************************************************************************)
EXTENDS Naturals, FiniteSets, SequencesExt, FiniteSetsExt, FlowRules

CONSTANTS
    Unis,      \* UNI ports of the ONU
    TpIDs,     \* tech profile ids
    AllocIds,  \* the alloc ids of the PON port's pool
    GemIds,    \* the gem port ids of the PON port's pool
    Scenarios  \* records: flows, the flows there are; profile, the instance control
               \* of the tech profiles, "multi" or "single"; values, the type of the list
               \* FindAllTpInstances returns; kinds and left, the faults; during, the
               \* operations they may hit, "add", "remove" and "lost"; lost, whether
               \* the core may ask for the ONU to be forgotten; pool, the gem ports free
               \* at the start

ASSUME PoolsAssumption ==
    /\ NumGems \in Nat \ {0}
    /\ AllocIds \subseteq Nat \ {0} /\ GemIds \subseteq Nat \ {0}
    \* what is written in place before a failed write is lost by a restart: not both
    /\ \A scn \in Scenarios : scn.left \in Nat /\ ~({"kv", "crash"} \subseteq scn.kinds)

VARIABLES
    st,        \* the state of the adapter and of the OLT, a record (see TypeOK)
    core,      \* the flows as the core sees them: "none", "held" or "removing"
    present,   \* the ONU is known to the adapter
    scenario   \* the scenario of this behaviour

vars == <<st, core, present, scenario>>

-------------------------------------------------------------------------------
(* Outcomes: a state and how the code ended there, normally ("ok"), with an *)
(* error ("err"), or with the process ("crash").                            *)

Ends(s, how) == {[st |-> s, end |-> how]}
Done(s)      == Ends(s, "ok")
Failed(s)    == Ends(s, "err")

\* return err: go on only after success
Then(outs, F(_)) == UNION {IF o.end = "ok" THEN F(o.st) ELSE {o} : o \in outs}

\* log the error and go on
Logged(outs) == {IF o.end = "err" THEN [o EXCEPT !.end = "ok"] ELSE o : o \in outs}

Anyway(outs, F(_)) == Then(Logged(outs), F)

\* on an error run the clean-up, then return the error
OnError(outs, F(_)) ==
    UNION {IF o.end = "err"
             THEN {IF c.end = "ok" THEN [c EXCEPT !.end = "err"] ELSE c : c \in F(o.st)}
             ELSE {o} : o \in outs}

\* for _, x := range xs { F(x) }, returning at the first error
ForEach(s, xs, F(_, _)) ==
    FoldLeft(LAMBDA outs, x : Then(outs, LAMBDA s1 : F(s1, x)), Done(s), xs)

Fault(s, kinds, how, s2) ==
    IF s.left > 0 /\ scenario.kinds \cap kinds # {}
      THEN Ends([s2 EXCEPT !.left = s.left - 1], how)
      ELSE {}

(* An RPC of the OLT: done, refused, done with the answer lost, or never     *)
(* made because the process died.                                           *)
Rpc(s, done) ==
    Done(done) \cup Fault(s, {"rpc"}, "err", s) \cup Fault(s, {"lost"}, "err", done)
               \cup Fault(s, {"crash"}, "crash", s)

(* A write to the KV store followed by the update of the cache; inCache is   *)
(* what the cache holds when the write fails.                               *)
Kv(s, done, inCache) ==
    Done(done) \cup Fault(s, {"kv"}, "err", inCache) \cup Fault(s, {"crash"}, "crash", s)

-------------------------------------------------------------------------------
(* Lists held by the cache are Go slices: append(l[:i], l[i+1:]...) shifts   *)
(* the elements of the cached slice itself, whose length stays until the     *)
(* cache entry is replaced.                                                 *)

AppendUnique(l, x) == IF Contains(l, x) THEN l ELSE Append(l, x)

ShiftedInPlace(l, x) ==
    IF Contains(l, x) THEN Append(RemoveFirst(l, x), l[Len(l)]) ELSE l

None == [none |-> TRUE]
Dirs == {"up", "down"}
Svcs == Unis \X TpIDs
NNI  == 0

Reverse_(dir) == IF dir = "up" THEN "down" ELSE "up"
SvcOf(f) == <<f.uni, f.tp>>

SchedQueue(s, svc, dir, meter) == [svc |-> svc, dir |-> dir, inst |-> s.tp[svc], meter |-> meter]

-------------------------------------------------------------------------------
(* Resource manager. *)

UpdateAllocIds(s, uni, l, inCache) ==
    Kv(s, [s EXCEPT !.allocs[uni] = l], [s EXCEPT !.allocs[uni] = inCache])

UpdateGEMPortIDs(s, uni, l, inCache) ==
    Kv(s, [s EXCEPT !.gemIds[uni] = l], [s EXCEPT !.gemIds[uni] = inCache])

FreeAllocID(s, uni, alloc, freeFromResourcePool) ==
    LET l == s.allocs[uni] IN
    Anyway(UpdateAllocIds(s, uni, RemoveFirst(l, alloc), ShiftedInPlace(l, alloc)),
           LAMBDA s1 : Done(IF freeFromResourcePool
                              THEN [s1 EXCEPT !.freeAlloc = @ \cup {alloc}]
                              ELSE s1))

FreeGemPortID(s, uni, gem) ==
    LET l == s.gemIds[uni] IN
    Anyway(UpdateGEMPortIDs(s, uni, RemoveFirst(l, gem), ShiftedInPlace(l, gem)),
           LAMBDA s1 : Done([s1 EXCEPT !.freeGem = @ \cup {gem}]))

FreePONResourcesForONU(s, uni) ==
    LET freed == [s EXCEPT !.freeAlloc = @ \cup ToSet(s.allocs[uni]),
                           !.freeGem = @ \cup ToSet(s.gemIds[uni])]
        gone  == [freed EXCEPT !.allocs[uni] = <<>>, !.gemIds[uni] = <<>>]
    IN  Logged(Kv(freed, gone, freed))

UpdateTechProfileIDForOnu(s, svc) ==
    IF Contains(s.tpIds[svc[1]], svc[2])
      THEN Done(s)
      ELSE Kv(s, [s EXCEPT !.tpIds[svc[1]] = Append(@, svc[2])], s)

RemoveTechProfileIDForOnu(s, svc) ==
    Kv(s, [s EXCEPT !.tpIds[svc[1]] = RemoveFirst(@, svc[2])],
          [s EXCEPT !.tpIds[svc[1]] = ShiftedInPlace(@, svc[2])])

RemoveTechProfileIDsForOnu(s, uni) == Kv(s, [s EXCEPT !.tpIds[uni] = <<>>], s)

StoreMeterInfoForOnu(s, svc, dir, info) == Kv(s, [s EXCEPT !.meter[svc][dir] = info], s)

RemoveMeterInfoForOnu(s, svc, dir) == Kv(s, [s EXCEPT !.meter[svc][dir] = None], s)

\* mutant: the counter is not a byte
HandleMeterInfoRefCntUpdateSigned(s, svc, dir, increment) ==
    LET info == s.meter[svc][dir]
        s1   == [s EXCEPT !.meter[svc][dir] =
                   [info EXCEPT !.ref = IF increment THEN @ + 1 ELSE @ - 1]]
    IN  IF info = None
          THEN IF increment THEN Failed(s) ELSE Done(s)
          ELSE Kv(s, s1, s1)

(* The counter of the cached MeterInfo is changed before it is stored. *)
HandleMeterInfoRefCntUpdate(s, svc, dir, increment) ==
    LET info == s.meter[svc][dir]
        s1   == [s EXCEPT !.meter[svc][dir] =
                   [info EXCEPT !.ref = (@ + IF increment THEN 1 ELSE 255) % 256]]
    IN  IF info = None
          THEN IF increment THEN Failed(s) ELSE Done(s)
          ELSE Kv(s, s1, s1)

AddGemToOnuGemInfo(s, gems) ==
    LET s1 == [s EXCEPT !.onuGems = FoldLeft(AppendUnique, @, gems)]
    IN  IF present THEN Kv(s, s1, s1) ELSE Done(s)

RemoveGemFromOnuGemInfo(s, gem) ==
    LET s1 == [s EXCEPT !.onuGems = RemoveFirst(@, gem)]
    IN  IF present /\ s1 # s THEN Kv(s, s1, s1) ELSE Done(s)

AddUniPortToOnuInfo(s, uni) ==
    LET s1 == [s EXCEPT !.uniPorts = Append(@, uni)]
    IN  IF present /\ uni # 0 /\ ~Contains(s.uniPorts, uni) THEN Kv(s, s1, s1) ELSE Done(s)

DelOnuGemInfo(s) == Kv(s, [s EXCEPT !.onuGems = <<>>, !.uniPorts = <<>>], s)

RegisterFlowIDForGem(s, gem, id) ==
    Kv(s, [s EXCEPT !.flowIds[gem] = AppendUnique(@, id)], s)

\* UpdateFlowIDsForGem as clearResources calls it, with the id cut out of the cached list
DropFlowIDFromGem(s, gem, id) ==
    Kv(s, [s EXCEPT !.flowIds[gem] = RemoveFirst(@, id)],
          [s EXCEPT !.flowIds[gem] = ShiftedInPlace(@, id)])

DeleteFlowIDsForGem(s, gem) == Kv(s, [s EXCEPT !.flowIds[gem] = <<>>], s)

IsFlowOnKvStore(s, f) ==
    \E gem \in (IF f.branch # "subscriber" THEN {NNI} ELSE ToSet(s.onuGems)) :
        Contains(s.flowIds[gem], f.id)

-------------------------------------------------------------------------------
(* The tech profile library: instances are kept in a map and in the KV       *)
(* store; ids come from the pools of the PON port.                           *)

GetTPInstance(s, svc) == s.tp[svc]

SharedAlloc(s, svc) ==
    {s.tp[<<u, svc[2]>>].alloc : u \in {v \in Unis \ {svc[1]} : s.tp[<<v, svc[2]>>] # None}}

(* An alloc id already taken is not given back when the pool of gem ports is *)
(* empty; all ids are when the write fails, and the instance stays in the map. *)
CreateTechProfileInstance(s, svc) ==
    LET shared == IF scenario.profile = "single" THEN SharedAlloc(s, svc) ELSE {}
        alloc  == Min(IF shared # {} THEN shared ELSE s.freeAlloc)
        s1     == [s EXCEPT !.freeAlloc = @ \ {alloc}]
        gems   == FoldLeft(LAMBDA l, i : Append(l, Min(s.freeGem \ ToSet(l))), <<>>,
                           [i \in 1..NumGems |-> i])
        taken  == [s1 EXCEPT !.freeGem = @ \ ToSet(gems)]
        s2     == [taken EXCEPT !.tp[svc] = [alloc |-> alloc, gems |-> gems]]
    IN  IF shared = {} /\ s.freeAlloc = {} THEN Failed(s)
        ELSE IF Cardinality(s.freeGem) < NumGems THEN Failed(s1)
        ELSE Kv(taken, s2, [s2 EXCEPT !.freeAlloc = @ \cup {alloc}, !.freeGem = s.freeGem])

DeleteTechProfileInstance(s, svc) ==
    LET s1 == [s EXCEPT !.tp[svc] = None] IN Kv(s, s1, s1)

-------------------------------------------------------------------------------
(* The OLT, external: an upstream scheduler is the T-CONT of an alloc id, a  *)
(* downstream one belongs to the UNI; a queue belongs to a gem port.         *)

Sched(sq) ==
    IF sq.dir = "up"
      THEN [dir |-> "up", alloc |-> sq.inst.alloc, svc |-> <<>>]
      ELSE [dir |-> "down", alloc |-> 0, svc |-> sq.svc]

Queues(sq) == {[dir |-> sq.dir, gem |-> gem] : gem \in ToSet(sq.inst.gems)}

CreateTrafficSchedulers(s, sq) == Rpc(s, [s EXCEPT !.scheds = @ \cup {Sched(sq)}])
RemoveTrafficSchedulers(s, sq) == Rpc(s, [s EXCEPT !.scheds = @ \ {Sched(sq)}])
CreateTrafficQueues(s, sq)     == Rpc(s, [s EXCEPT !.queues = @ \cup Queues(sq)])
RemoveTrafficQueues(s, sq)     == Rpc(s, [s EXCEPT !.queues = @ \ Queues(sq)])

-------------------------------------------------------------------------------
(* Schedulers, queues and meters. *)

(* The type assertion on the list of FindAllTpInstances panics when the list *)
(* holds pointers.                                                          *)
IsAllocUsedByAnotherUNI(s, sq, used, unused) ==
    LET asked == scenario.profile = "single" /\ sq.dir = "up"
    IN  CASE asked /\ ~scenario.values -> Ends(s, "crash")
          [] asked /\ scenario.values /\ \E u \in Unis \ {sq.svc[1]} :
                LET inst == s.tp[<<u, sq.svc[2]>>]
                IN  inst # None /\ inst.alloc = sq.inst.alloc -> used
          [] OTHER -> unused

RemoveHalfMadeQueues(s, sq) ==
    IF NumGems > 1 THEN Logged(RemoveTrafficQueues(s, sq)) ELSE Done(s)

PushTrafficQueues(s, sq) ==
    OnError(CreateTrafficQueues(s, sq), LAMBDA s1 : RemoveHalfMadeQueues(s1, sq))

RevertScheduler(s, sq) == Logged(RemoveTrafficSchedulers(s, sq))

\* interfaceToMcastQueueMap gets an entry when the PON port has none
AddMcastQueue(s, sq) ==
    LET s1 == [s EXCEPT !.mcast = TRUE]
    IN  IF sq.dir = "down" /\ ~s.mcast THEN Kv(s, s1, s1) ELSE Done(s)

PushSchedulerQueuesToDevice(s, sq) ==
    LET Schedulers(s1) ==
            IsAllocUsedByAnotherUNI(s1, sq, Done(s1), CreateTrafficSchedulers(s1, sq))
        TheQueues(s1) ==
            OnError(CreateTrafficQueues(s1, sq),
                    LAMBDA s2 : Then(RemoveHalfMadeQueues(s2, sq),
                                     LAMBDA s3 : RevertScheduler(s3, sq)))
    IN  Then(Then(Schedulers(s), TheQueues), LAMBDA s1 : AddMcastQueue(s1, sq))

(* The meter in the KV store stands for the scheduler on the OLT. *)
CreateSchedulerQueues(s, sq) ==
    LET info == s.meter[sq.svc][sq.dir]
    IN  IF info # None /\ info.id = sq.meter
          THEN Then(HandleMeterInfoRefCntUpdate(s, sq.svc, sq.dir, TRUE),
                    LAMBDA s1 : IsAllocUsedByAnotherUNI(s1, sq, PushTrafficQueues(s1, sq), Done(s1)))
          ELSE Then(PushSchedulerQueuesToDevice(s, sq),
                    LAMBDA s1 : StoreMeterInfoForOnu(s1, sq.svc, sq.dir, [id |-> sq.meter, ref |-> 1]))

ValidateMeter(s, f) ==
    LET info == s.meter[SvcOf(f)][f.dir]
    IN  IF info = None \/ info.id = f.meter THEN Done(s)
        ELSE IF info.ref = 0 THEN RemoveMeterInfoForOnu(s, SvcOf(f), f.dir)
        ELSE Failed(s)

\* an error of the RPC returns before the meter is removed
RemoveScheduler(s, sq) ==
    Then(RemoveTrafficSchedulers(s, sq), LAMBDA s1 : RemoveMeterInfoForOnu(s1, sq.svc, sq.dir))

ForceRemoveSchedulerQueues(s, sq) ==
    Anyway(RemoveTrafficQueues(s, sq), LAMBDA s1 : Logged(RemoveTrafficSchedulers(s1, sq)))

RevertTechProfileInstance(s, sq) ==
    LET Release(s1) ==
            Then(ForEach(s1, sq.inst.gems, LAMBDA s2, gem : FreeGemPortID(s2, sq.svc[1], gem)),
                 LAMBDA s3 : FreeAllocID(s3, sq.svc[1], sq.inst.alloc, TRUE))
    IN  IF s.meter[sq.svc][Reverse_(sq.dir)] # None
          THEN Done(s)
          ELSE Anyway(DeleteTechProfileInstance(s, sq.svc),
                      LAMBDA s1 : Anyway(RemoveTechProfileIDForOnu(s1, sq.svc), Release))

-------------------------------------------------------------------------------
(* AddFlow. *)

StoreTcontsGEMPortsIntoKVStore(s, svc) ==
    LET uni  == svc[1]
        gems == FoldLeft(AppendUnique, s.gemIds[uni], s.tp[svc].gems)
        Gems(s1)    == UpdateGEMPortIDs(s1, uni, gems, s.gemIds[uni])
        GemInfo(s1) == Logged(AddGemToOnuGemInfo(s1, gems))
    IN  Anyway(Anyway(UpdateAllocIds(s, uni, AppendUnique(s.allocs[uni], s.tp[svc].alloc), s.allocs[uni]),
                      Gems),
               GemInfo)

CreateTcontGemports(s, f) ==
    LET svc    == SvcOf(f)
        exists == GetTPInstance(s, svc) # None
        Instance ==
            IF exists THEN Done(s)
            ELSE Then(CreateTechProfileInstance(s, svc),
                      LAMBDA s1 : Logged(UpdateTechProfileIDForOnu(s1, svc)))
        Schedulers(s1) ==
            LET sq == SchedQueue(s1, svc, f.dir, f.meter)
            IN  OnError(CreateSchedulerQueues(s1, sq),
                        LAMBDA s2 : RevertTechProfileInstance(s2, sq))
        Store(s1) == IF exists THEN Done(s1) ELSE StoreTcontsGEMPortsIntoKVStore(s1, svc)
    IN  Then(Then(Instance, Schedulers), Store)

\* the gem ports of the flow: the one its priority bits select, or all of them
GemPortsOf(s, f) == {s.tp[SvcOf(f)].gems[i] : i \in f.gems}

\* the ids of a replicated flow are registered in the order of a Go map
RegisterFlow(s, f) ==
    IF f.branch # "subscriber"
      THEN RegisterFlowIDForGem(s, NNI, f.id)
      ELSE UNION {ForEach(s, gems, LAMBDA s1, gem : RegisterFlowIDForGem(s1, gem, f.id)) :
                    gems \in SetToSeqs(GemPortsOf(s, f))}

\* mutant: an error of FlowAdd is logged
AddFlowToDeviceLogged(s, f) ==
    IF f.id \in s.flows
      THEN Done(s)
      ELSE Anyway(Rpc(s, [s EXCEPT !.flows = @ \cup {f.id}]), LAMBDA s1 : RegisterFlow(s1, f))

(* The OLT answers AlreadyExists for a flow it has: success, and the flow is *)
(* not registered.                                                          *)
AddFlowToDevice(s, f) ==
    IF f.id \in s.flows
      THEN Done(s)
      ELSE Then(Rpc(s, [s EXCEPT !.flows = @ \cup {f.id}]), LAMBDA s1 : RegisterFlow(s1, f))

\* What the functions that add a flow have in common; making the classifier, the action and
\* the network interface fails for no flow that gets here.
AddUnlessPresent(s, f) == IF IsFlowOnKvStore(s, f) THEN Done(s) ELSE AddFlowToDevice(s, f)

AddSymmetricDataPathFlow(s, f) == AddUnlessPresent(s, f)
AddDHCPTrapFlow(s, f)          == AddUnlessPresent(s, f)
AddUpstreamTrapFlow(s, f)      == AddUnlessPresent(s, f)
AddEthTypeBasedFlow(s, f)      == AddUnlessPresent(s, f)
AddLLDPFlow(s, f)              == AddUnlessPresent(s, f)
AddTrapFlowOnNNI(s, f)         == AddUnlessPresent(s, f)
AddIgmpTrapFlowOnNNI(s, f)     == AddUnlessPresent(s, f)

RemoveQueues(s, svc, dir) == RemoveTrafficQueues(s, SchedQueue(s, svc, dir, 0))

\* mutant: the alloc id is only taken off the list of the UNI
ReleaseAllocKept(s, sq) ==
    LET Only(s1) ==
            Then(IF s1.meter[sq.svc]["up"] # None THEN Logged(RemoveScheduler(s1, sq)) ELSE Done(s1),
                 LAMBDA s2 : FreeAllocID(s2, sq.svc[1], sq.inst.alloc, FALSE))
    IN  Only(s)

\* mutant: the other UNIs of a shared alloc id are not looked at
ReleaseAllocUnshared(s, sq) ==
    Then(IF s.meter[sq.svc]["up"] # None THEN Logged(RemoveScheduler(s, sq)) ELSE Done(s),
         LAMBDA s1 : FreeAllocID(s1, sq.svc[1], sq.inst.alloc, TRUE))

(* What clearResources does once no other flow uses a gem port of the        *)
(* service.                                                                 *)
ReleaseAlloc(s, sq) ==
    LET uni  == sq.svc[1]
        Only(s1) ==
            Then(IF s1.meter[sq.svc]["up"] # None THEN Logged(RemoveScheduler(s1, sq)) ELSE Done(s1),
                 LAMBDA s2 : FreeAllocID(s2, uni, sq.inst.alloc, TRUE))
        Shared(s1) ==
            Then(RemoveMeterInfoForOnu(s1, sq.svc, "up"),
                 LAMBDA s2 : FreeAllocID(s2, uni, sq.inst.alloc, FALSE))
    IN  IsAllocUsedByAnotherUNI(s, sq, Shared(s), Only(s))

ReleaseDownstream(s, sq) ==
    IF s.meter[sq.svc]["down"] # None
      THEN Logged(RemoveScheduler(s, [sq EXCEPT !.dir = "down"]))
      ELSE Done(s)

ReleaseService(s, svc, sendDeleteGemRequest) ==
    LET sq == SchedQueue(s, svc, "up", 0)
        GemInfo(s1, gem) ==
            Anyway(RemoveGemFromOnuGemInfo(s1, gem), LAMBDA s2 : Logged(DeleteFlowIDsForGem(s2, gem)))
        BothQueues(s1) ==
            Anyway(RemoveQueues(s1, svc, "up"), LAMBDA s2 : Logged(RemoveQueues(s2, svc, "down")))
        Alloc(s1) == ReleaseAlloc(s1, sq)
        Down(s1)  == ReleaseDownstream(s1, sq)
        Gems(s1)  ==
            IF sendDeleteGemRequest
              THEN ForEach(s1, sq.inst.gems, LAMBDA s2, gem : FreeGemPortID(s2, svc[1], gem))
              ELSE Done(s1)
        Instance(s1) ==
            Anyway(DeleteTechProfileInstance(s1, svc),
                   LAMBDA s2 : Logged(RemoveTechProfileIDForOnu(s2, svc)))
    IN  Then(Then(Then(Then(Then(ForEach(s, sq.inst.gems, GemInfo),
                                 BothQueues), Alloc), Down), Gems), Instance)

\* mutant: the flows still registered on the gem ports are not looked at
ClearResourcesAlways(s, f, sendDeleteGemRequest) ==
    IF GetTPInstance(s, SvcOf(f)) = None THEN Done(s)
    ELSE ReleaseService(s, SvcOf(f), sendDeleteGemRequest)

ClearResources(s, f, sendDeleteGemRequest) ==
    LET inst == GetTPInstance(s, SvcOf(f))
        Used(gem) == \E id \in ToSet(s.flowIds[gem]) : id # f.id
        Drop(s1, gem) ==
            IF Used(gem) /\ Contains(s.flowIds[gem], f.id)
              THEN DropFlowIDFromGem(s1, gem, f.id)
              ELSE Done(s1)
    IN  IF inst = None THEN Done(s)
        ELSE Then(ForEach(s, inst.gems, Drop),
                  LAMBDA s1 : IF \E gem \in ToSet(inst.gems) : Used(gem)
                                THEN Done(s1)
                                ELSE ReleaseService(s1, SvcOf(f), sendDeleteGemRequest))

CheckAndAddFlow(s, f) ==
    LET Add == CASE f.rule \in {"up", "down"}    -> AddSymmetricDataPathFlow(s, f)
                 [] f.rule = "dhcp"              -> AddDHCPTrapFlow(s, f)
                 [] f.rule \in {"igmp", "pppoe"} -> AddUpstreamTrapFlow(s, f)
                 [] f.rule = "eap"               -> AddEthTypeBasedFlow(s, f)
    IN  IF f.rule = "invalid" THEN Failed(s)
        ELSE IF f.rule = "nothing" THEN Done(s)
        ELSE OnError(Add, LAMBDA s1 : Logged(ClearResources(s1, f, FALSE)))

ProcessAddFlow(s, f) ==
    IF f.uni = 0 THEN Failed(s)
    ELSE Then(CreateTcontGemports(s, f), LAMBDA s1 : CheckAndAddFlow(s1, f))

AddFlow(s, fl) ==
    LET f == FlowContext(fl)
        Subscriber(s1) ==
            IF f.tp = 0 THEN Failed(s1)
            ELSE Then(ValidateMeter(s1, f), LAMBDA s2 : ProcessAddFlow(s2, f))
    IN  IF f.end # "ok" THEN Ends(s, f.end)
        ELSE CASE f.branch = "lldp"     -> AddLLDPFlow(s, f)
               [] f.branch = "nni"      -> AddTrapFlowOnNNI(s, f)
               [] f.branch = "nni-igmp" -> AddIgmpTrapFlowOnNNI(s, f)
               [] OTHER                 -> Anyway(AddUniPortToOnuInfo(s, f.uni), Subscriber)

-------------------------------------------------------------------------------
(* RemoveFlow, and the clean-up of the ONU. *)

\* mutant: an error of FlowRemove is logged
RemoveFlowFromDeviceLogged(s, id) ==
    IF id \in s.flows THEN Logged(Rpc(s, [s EXCEPT !.flows = @ \ {id}])) ELSE Done(s)

RemoveFlowFromDevice(s, id) ==
    IF id \in s.flows THEN Rpc(s, [s EXCEPT !.flows = @ \ {id}]) ELSE Done(s)

\* mutant: the reference count is left as it is
ClearFlowFromDeviceKeepRefCnt(s, f) ==
    IF f.end # "ok" THEN Failed(s)
    ELSE Then(RemoveFlowFromDevice(s, f.id),
              LAMBDA s1 : IF f.nni THEN Done(s1) ELSE ClearResources(s1, f, TRUE))

ClearFlowFromDeviceAndResourceManager(s, f) ==
    IF f.end # "ok" THEN Failed(s)
    ELSE IF f.nni THEN RemoveFlowFromDevice(s, f.id)
    ELSE Then(Then(RemoveFlowFromDevice(s, f.id), LAMBDA s1 : ClearResources(s1, f, TRUE)),
              LAMBDA s2 : HandleMeterInfoRefCntUpdate(s2, SvcOf(f), f.dir, FALSE))

RemoveFlow(s, fl) == ClearFlowFromDeviceAndResourceManager(s, RemovalContext(fl))

DeleteTechProfileInstances(s, uni) ==
    ForEach(s, s.tpIds[uni], LAMBDA s1, tp :
        LET svc == <<uni, tp>>
            Both == IF s1.tp[svc] = None THEN Done(s1)
                    ELSE Then(ForceRemoveSchedulerQueues(s1, SchedQueue(s1, svc, "up", 0)),
                              LAMBDA s2 : ForceRemoveSchedulerQueues(s2, SchedQueue(s2, svc, "down", 0)))
        IN  Then(Both, LAMBDA s2 : Logged(DeleteTechProfileInstance(s2, svc))))

\* mutant: nothing to do for a UNI without tech profile ids
ClearUNIDataOfProfiles(s, uni) ==
    IF s.tpIds[uni] = <<>> THEN Done(s)
    ELSE Then(DeleteTechProfileInstances(s, uni),
              LAMBDA s1 : Then(FreePONResourcesForONU(s1, uni),
                               LAMBDA s2 : Logged(RemoveTechProfileIDsForOnu(s2, uni))))

ClearUNIData(s, uni) ==
    LET Meters(s1) ==
            ForEach(s1, s1.tpIds[uni], LAMBDA s2, tp :
                Anyway(RemoveMeterInfoForOnu(s2, <<uni, tp>>, "up"),
                       LAMBDA s3 : Logged(RemoveMeterInfoForOnu(s3, <<uni, tp>>, "down"))))
        Resources(s1) == FreePONResourcesForONU(s1, uni)
        TpIds(s1) == Logged(RemoveTechProfileIDsForOnu(s1, uni))
    IN  Then(Then(Then(DeleteTechProfileInstances(s, uni), Meters), Resources), TpIds)

\* flow ids of the i-th gem port of the ONU that no earlier one has
NewFlowIDs(s, i) ==
    SelectSeq(s.flowIds[s.onuGems[i]],
              LAMBDA id : \A j \in 1..(i - 1) : ~Contains(s.flowIds[s.onuGems[j]], id))

ChildDeviceLost(s) ==
    LET GemFlows(s1, i) ==
            Then(ForEach(s1, NewFlowIDs(s, i), LAMBDA s2, id : Logged(RemoveFlowFromDevice(s2, id))),
                 LAMBDA s2 : Logged(DeleteFlowIDsForGem(s2, s.onuGems[i])))
        UniData(s1) == ForEach(s1, s1.uniPorts, ClearUNIData)
        GemInfo(s1) == Logged(DelOnuGemInfo(s1))
    IN  Then(Then(ForEach(s, [i \in 1..Len(s.onuGems) |-> i], GemFlows), UniData), GemInfo)

-------------------------------------------------------------------------------
InitState(scn) ==
    [tp |-> [svc \in Svcs |-> None], tpIds |-> [u \in Unis |-> <<>>],
     meter |-> [svc \in Svcs |-> [dir \in Dirs |-> None]],
     allocs |-> [u \in Unis |-> <<>>], gemIds |-> [u \in Unis |-> <<>>],
     flowIds |-> [gem \in GemIds \cup {NNI} |-> <<>>],
     onuGems |-> <<>>, uniPorts |-> <<>>, mcast |-> FALSE,
     freeAlloc |-> AllocIds, freeGem |-> scn.pool,
     flows |-> {}, scheds |-> {}, queues |-> {}, left |-> scn.left]

Init ==
    \E scn \in Scenarios :
        /\ scenario = scn
        /\ st = InitState(scn)
        /\ core = [id \in {f.id : f \in scn.flows} |-> "none"]
        /\ present = TRUE

(* The faults of the scenario hit some operations only: the others begin    *)
(* with no fault to come, and leave the number as it was.                   *)
Begin(op) == IF op \in scenario.during THEN st ELSE [st EXCEPT !.left = 0]

During(op, outs) ==
    IF op \in scenario.during THEN outs ELSE {[o EXCEPT !.st.left = st.left] : o \in outs}

(* What the core may see of a request: its outcome, or no answer in time.    *)
Answers(outs) ==
    outs \cup UNION {Fault(o.st, {"unanswered"}, "err", o.st) : o \in {x \in outs : x.end = "ok"}}

AddFlowRequest(f) ==
    /\ core[f.id] = "none" /\ (present \/ FlowContext(f).uni = 0)
    /\ \E o \in During("add", Answers(AddFlow(Begin("add"), f))) :
         /\ st' = o.st
         /\ core' = [core EXCEPT ![f.id] = IF o.end = "ok" THEN "held" ELSE "none"]
    /\ UNCHANGED <<present, scenario>>

RemoveFlowRequest(f) ==
    /\ core[f.id] # "none"
    /\ \E o \in During("remove", Answers(RemoveFlow(Begin("remove"), f))) :
         /\ st' = o.st
         /\ core' = [core EXCEPT ![f.id] = IF o.end = "ok" THEN "none" ELSE "removing"]
    /\ UNCHANGED <<present, scenario>>

OnuFlows == {f \in {FlowContext(fl) : fl \in scenario.flows} : f.uni # 0}

(* The core asks for the ONU to be forgotten, and removes its flows. *)
OnuLost ==
    /\ present /\ scenario.lost
    /\ \E o \in During("lost", ChildDeviceLost(Begin("lost"))) : st' = o.st /\ present' = (o.end = "crash")
    /\ core' = [id \in DOMAIN core |->
                  IF core[id] = "held" /\ id \in {f.id : f \in OnuFlows} THEN "removing" ELSE core[id]]
    /\ UNCHANGED scenario

OnuBack ==
    /\ ~present /\ \A f \in OnuFlows : core[f.id] = "none"
    /\ present' = TRUE
    /\ UNCHANGED <<st, core, scenario>>

Next ==
    \/ \E f \in scenario.flows : AddFlowRequest(f)
    \/ \E f \in scenario.flows : RemoveFlowRequest(f)
    \/ OnuLost
    \/ OnuBack

Spec == Init /\ [][Next]_vars

-------------------------------------------------------------------------------
(* Properties. *)

\* The state of the adapter and of the OLT: every entry has its type.
TypeOK ==
    /\ \A svc \in Svcs :
         /\ st.tp[svc] # None =>
              st.tp[svc].alloc \in AllocIds /\ st.tp[svc].gems \in [1..NumGems -> GemIds]
         /\ \A dir \in Dirs : st.meter[svc][dir] # None => st.meter[svc][dir].ref \in 0..255
    /\ \A u \in Unis :
         ToSet(st.tpIds[u]) \subseteq TpIDs /\ ToSet(st.allocs[u]) \subseteq AllocIds
         /\ ToSet(st.gemIds[u]) \subseteq GemIds
    /\ \A gem \in DOMAIN st.flowIds : ToSet(st.flowIds[gem]) \subseteq DOMAIN core
    /\ ToSet(st.onuGems) \subseteq GemIds /\ ToSet(st.uniPorts) \subseteq Unis
    /\ st.freeAlloc \subseteq AllocIds /\ st.freeGem \subseteq GemIds
    /\ st.flows \subseteq DOMAIN core /\ st.left \in 0..scenario.left
    /\ core \in [DOMAIN core -> {"none", "held", "removing"}]

\* no fault yet, and no flow that checkAndAddFlow gives up after its resources are made
Faultless ==
    /\ st.left = scenario.left /\ scenario.values
    /\ \A f \in OnuFlows : f.branch = "subscriber" => f.rule # "invalid"

\* the flows of a service use the same gem ports: otherwise clearResources leaves the id of a
\* removed flow on the gem ports that only it used as long as another one is used
SameGemPorts == \A f, g \in OnuFlows : SvcOf(f) = SvcOf(g) => f.gems = g.gems

\* the process dies only during removals, of one subscriber's flows of one gem port
CrashedRemovals ==
    /\ scenario.kinds = {"crash"} /\ scenario.during = {"remove"} /\ ~scenario.lost
    /\ \A f, g \in OnuFlows : f.uni = g.uni /\ Cardinality(f.gems) = 1

\* all ids are in the pools; an alloc id stays taken when the gem ports run out
IdsFree == st.freeGem = scenario.pool /\ (scenario.pool = GemIds => st.freeAlloc = AllocIds)

\* Once the core holds no flow of the ONU every alloc id, gem port, instance, meter,
\* scheduler and queue made for its flows is gone (clearResources at the removal of the last
\* flow of each service): without faults, and also when the process dies during removals,
\* which the core repeats. Only the upstream scheduler of an alloc id shared by UNIs may stay,
\* when the last UNI to leave never had an upstream meter.
CleanWhenEmpty ==
    ((Faultless \/ CrashedRemovals) /\ SameGemPorts /\ \A f \in OnuFlows : core[f.id] = "none") =>
        /\ IdsFree
        /\ \A svc \in Svcs : st.tp[svc] = None /\ \A dir \in Dirs : st.meter[svc][dir] = None
        /\ st.queues = {} /\ st.onuGems = <<>>
        /\ \A sched \in st.scheds : scenario.profile = "single" /\ sched.dir = "up"
        /\ \A gem \in GemIds : st.flowIds[gem] = <<>>

\* Without faults the reference count of a meter is the number of flows the core holds
\* with it (CreateSchedulerQueues, clearFlowFromDeviceAndResourceManager).
RefCntCountsFlows ==
    (Faultless /\ present) =>
        \A svc \in Svcs, dir \in Dirs :
            LET held == {f \in OnuFlows : core[f.id] = "held" /\ SvcOf(f) = svc /\ f.dir = dir}
            IN  IF st.meter[svc][dir] = None THEN held = {}
                ELSE st.meter[svc][dir].ref = Cardinality(held)

\* the flows of the ONU for which checkAndAddFlow has a branch
Understood == {f \in OnuFlows : f.rule # "nothing"}

\* A flow of a subscriber that the core holds is on the OLT (AddFlow answers nil only for a
\* flow on the OLT), whichever call to the OLT failed before, and, for flows of one gem port,
\* also after the death of the process during removals.
HeldFlowsOnDevice ==
    (SameGemPorts /\ (scenario.kinds \cap {"kv", "crash"} = {} \/ CrashedRemovals)) =>
        \A f \in Understood : core[f.id] = "held" => f.id \in st.flows

\* A flow the core does not hold, because AddFlow failed or RemoveFlow succeeded, is not on
\* the OLT, whichever call to the OLT failed; only a lost answer leaves it there.
UnheldFlowsGone ==
    (/\ scenario.kinds \cap {"lost", "unanswered"} = {}
     /\ "add" \in scenario.during => scenario.kinds \subseteq {"rpc"}) =>
        \A fl \in scenario.flows : core[fl.id] = "none" => fl.id \notin st.flows

\* A flow for which AddFlow has answered success is on the OLT ("AddFlow add flow to
\* device", openolt_flowmgr.go:2379), in every scenario.
AddedFlowOnDevice == \A f \in scenario.flows : core[f.id] = "held" => f.id \in st.flows

NoStoreFaults == scenario.kinds \cap {"kv", "crash"} = {} /\ scenario.values

\* The flows the core holds keep what they use when other requests fail at the OLT: their
\* instance and their registration on each of their gem ports. A flow left on the OLT by a
\* lost answer or by a failed clean-up of the ONU is not registered when it is added again.
HeldFlowsServed ==
    (/\ NoStoreFaults /\ "lost" \notin scenario.kinds \cup scenario.during
     /\ scenario.profile = "multi" /\ SameGemPorts) =>
        \A f \in Understood : core[f.id] = "held" =>
            /\ st.tp[SvcOf(f)] # None
            /\ \A gem \in GemPortsOf(st, f) : Contains(st.flowIds[gem], f.id)

\* The ids of a tech profile instance are not in the pools of free ids.
UsedIdsNotFree ==
    (NoStoreFaults /\ (scenario.profile = "multi" \/ Faultless)) =>
        \A svc \in Svcs : st.tp[svc] # None =>
            st.tp[svc].alloc \notin st.freeAlloc /\ ToSet(st.tp[svc].gems) \cap st.freeGem = {}

\* An ONU that ChildDeviceLost has cleaned up holds no id of the PON port: after one call to
\* the OLT that failed before or during the clean-up, and after any calls and writes that
\* failed, or the death of the process, during it. (A scheduler that could not be removed and
\* then one that could not be created leave an instance whose ids no list holds.)
LostOnuHoldsNothing ==
    (/\ ~present /\ (NoStoreFaults \/ scenario.during = {"lost"})
     /\ scenario.left <= 1 \/ "add" \notin scenario.during) => IdsFree
===============================================================================

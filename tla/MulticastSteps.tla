---------------------------- MODULE MulticastSteps ----------------------------
(***************************************************************************)
(* Proofs about MulticastGroups, for any number of PON ports, groups and   *)
(* faults: the inductive invariant Inv, what each step of a request and of *)
(* the queues does, and why it keeps Inv, but for flows and modifications, *)
(* which MulticastProofs begins with.                                      *)
(***************************************************************************)
EXTENDS MulticastGroups, TLAPS

Members == (SUBSET Pons) \cup {None}

Adder == [at : {"idle", "load", "mark", "put"}, val : SUBSET Pons]

\* a request as the core sent it
Sent == [op : Ops, ports : SUBSET Pons]

Stages == Ops \cup {"cache", "forget", "current", "addmembers", "removemembers", "save",
                    "getcached", "uncache"}

Job == [op : Ops, ports : SUBSET Pons, at : Stages, want : SUBSET Pons,
        new : SUBSET Pons, current : SUBSET Pons, failed : BOOLEAN]

Held == [ports : Members, flow : BOOLEAN, failed : {NoJob} \cup Sent]

QueuesTyped ==
    /\ scenario \in Scenarios
    /\ queueMap \in SUBSET Pons /\ kvQueues \in SUBSET Pons
    /\ local \in [Pons -> SUBSET Pons] /\ loaded \in [Pons -> BOOLEAN]
    /\ adder \in [Pons -> Adder]

GroupsTyped ==
    /\ kv \in [Tables -> [Groups -> Members]] /\ mem \in [Tables -> [Groups -> Members]]
    /\ \A t \in Tables, g \in Groups : mem[t][g] \in {None, kv[t][g]}
    /\ olt \in [Groups -> Members] /\ flows \in SUBSET Groups
    /\ job \in [Groups -> {NoJob} \cup Job]
    /\ core \in [Groups -> Held]

FaultsTyped == left \in Nat /\ left <= scenario.left

Typed == QueuesTyped /\ GroupsTyped /\ FaultsTyped

-------------------------------------------------------------------------------
(* The queues. *)

\* the managers take turns, the KV store does not fail, and no manager has old entries
Turns ==
    /\ scenario.serial /\ "kv" \notin scenario.kinds
    /\ First \notin scenario.more \/ (scenario.queues = {} /\ "crash" \notin scenario.kinds)

\* what the KV store holds, and what the manager of p knows of it, while p is being added
Adding(p) ==
    /\ \A q \in Pons \ {p} : adder[q].at = "idle"
    /\ queueMap = kvQueues \cup {p}
    /\ adder[p].at = "load" => local[p] \subseteq kvQueues
    /\ adder[p].at = "mark" => local[p] = kvQueues
    /\ adder[p].at = "put" => adder[p].val = queueMap

\* a manager whose port has no queue has read nothing
Unread(p) == ~loaded[p] /\ local[p] = {}

TurnsInv ==
    /\ (\A p \in Pons : adder[p].at = "idle") => kvQueues = queueMap
    /\ \A p \in Pons : adder[p].at # "idle" => Adding(p)
    /\ \A p \in scenario.more \ queueMap : Unread(p)

-------------------------------------------------------------------------------
(* Requests. *)

Possible(c, op) ==
    /\ op = "add" => c.ports = None
    /\ op \in {"modify", "delete", "addflow"} => c.ports # None
    /\ op \in {"delete", "addflow"} => ~c.flow
    /\ op = "removeflow" => c.flow
    /\ op = "modify" => c.flow \/ scenario.early

StagesOf(op) ==
    CASE op = "add"        -> {"add", "cache"}
      [] op = "delete"     -> {"delete", "forget"}
      [] op = "removeflow" -> {"removeflow"}
      [] op = "modify"     -> {"modify", "current", "addmembers", "removemembers", "save"}
      [] op = "addflow"    -> {"addflow", "getcached", "modify", "current", "addmembers",
                               "removemembers", "save", "uncache"}

\* a request is at one of its stages, and the core still holds what made it possible
Underway(g) ==
    /\ core[g].flow => core[g].ports # None
    /\ job[g] # NoJob =>
        /\ job[g].at \in StagesOf(job[g].op)
        /\ Possible(core[g], job[g].op)
        /\ job[g].op = "modify" => job[g].want = job[g].ports
        /\ job[g].op \notin {"add", "modify"} => job[g].ports = {}

-------------------------------------------------------------------------------
(* Members are not interrupted. *)

Known == scenario.more = {} \/ "crash" \notin scenario.kinds

Building == {"current", "addmembers", "removemembers", "save"}

\* a member has a queue, and had it when the new group was built
KnownMembers(g) ==
    olt[g] # None =>
        /\ olt[g] \subseteq queueMap
        /\ job[g] # NoJob /\ job[g].at \in Building =>
              job[g].new \subseteq queueMap /\ olt[g] \cap job[g].want \subseteq job[g].new

\* no queue is added any more
Fixed == kvQueues = queueMap /\ \A p \in Pons : adder[p].at = "idle"

KnownInv ==
    /\ scenario.more = {} => Fixed
    /\ \A g \in Groups : KnownMembers(g)

-------------------------------------------------------------------------------
(* Members follow the group. *)

Follows ==
    scenario.repeats /\ ~scenario.early /\ scenario.more = {} /\ "kv" \notin scenario.kinds

\* the request that is handled or will be repeated
Doing(g) == IF job[g] = NoJob THEN core[g].failed
            ELSE [op |-> job[g].op, ports |-> job[g].ports]

Repeated(g) ==
    /\ core[g].failed # NoJob => core[g].failed = Doing(g)
    /\ Doing(g) # NoJob => Possible(core[g], Doing(g).op)

Built(ports) == IF ports = None THEN {} ELSE ports \cap queueMap

\* the group is not there for the core, has no flow, has one
Absent(g) ==
    core[g].ports = None => ~core[g].flow /\ kv["stored"][g] = None /\ olt[g] \in {None, {}}

Flowless(g) ==
    core[g].ports # None /\ ~core[g].flow =>
        /\ kv["stored"][g] \in {None, core[g].ports}
        /\ Doing(g).op # "delete" =>
              /\ kv["cached"][g] \in {None, core[g].ports}
              /\ olt[g] # None /\ olt[g] \subseteq Built(core[g].ports)
              /\ kv["stored"][g] # None => olt[g] = Built(core[g].ports)

Flowing(g) ==
    core[g].flow =>
        /\ kv["stored"][g] = core[g].ports /\ kv["cached"][g] = None
        /\ Doing(g).op # "removeflow" => g \in flows
        /\ olt[g] # None
        /\ Doing(g).op # "modify" => olt[g] = Built(core[g].ports)
        /\ Doing(g).op = "modify" =>
              /\ Built(core[g].ports) \cap Built(Doing(g).ports) \subseteq olt[g]
              /\ olt[g] \subseteq Built(core[g].ports) \cup Built(Doing(g).ports)

\* how far the request has come
Progress(g) ==
    job[g] # NoJob =>
        /\ job[g].at = "cache" => olt[g] = {}
        /\ job[g].at = "forget" => olt[g] = None
        /\ job[g].op = "addflow" /\ job[g].at # "addflow" => g \in flows
        /\ job[g].op = "addflow" /\ job[g].at \in {"modify"} \cup Building =>
              job[g].want = core[g].ports
        /\ job[g].at \in Building => job[g].new = Built(job[g].want)
        /\ job[g].at \in Building \ {"current"} => job[g].current = Built(kv["stored"][g])
        /\ job[g].at = "removemembers" /\ ~job[g].failed => job[g].new \subseteq olt[g]
        /\ job[g].at = "save" /\ ~job[g].failed => olt[g] = job[g].new
        /\ job[g].at = "uncache" => kv["stored"][g] = core[g].ports

FollowInv ==
    /\ Fixed
    /\ \A g \in Groups : Repeated(g) /\ Absent(g) /\ Flowless(g) /\ Flowing(g) /\ Progress(g)

-------------------------------------------------------------------------------
Inv ==
    /\ Typed
    /\ \A g \in Groups : Underway(g)
    /\ Turns => TurnsInv
    /\ Known => KnownInv
    /\ Follows => FollowInv

-------------------------------------------------------------------------------
(* What the definitions the actions are made of do. *)

\* the request is taken further, has failed, has been carried out
GoesTo(g, at, want, new, current, failed) ==
    /\ job'[g] # NoJob /\ job'[g].op = job[g].op /\ job'[g].ports = job[g].ports
    /\ job'[g].at = at /\ job'[g].want = want /\ job'[g].new = new
    /\ job'[g].current = current /\ job'[g].failed = failed
    /\ core'[g] = core[g]

Moves(g, at) == GoesTo(g, at, job[g].want, job[g].new, job[g].current, job[g].failed)

Fails(g) ==
    /\ job'[g] = NoJob /\ core'[g].ports = core[g].ports /\ core'[g].flow = core[g].flow
    /\ core'[g].failed = [op |-> job[g].op, ports |-> job[g].ports]

Succeeds(g) ==
    /\ job'[g] = NoJob /\ core'[g].failed = NoJob
    /\ core'[g].ports = CASE job[g].op \in {"add", "modify"} -> job[g].ports
                          [] job[g].op = "delete" -> None
                          [] OTHER -> core[g].ports
    /\ job[g].op = "addflow" => core'[g].flow
    /\ job[g].op = "removeflow" => ~core'[g].flow
    /\ job[g].op \notin {"addflow", "removeflow"} => core'[g].flow = core[g].flow

JobsTyped == job \in [Groups -> {NoJob} \cup Job] /\ core \in [Groups -> Held]

SameJobs(g) == \A h \in Groups \ {g} : job'[h] = job[h] /\ core'[h] = core[h]

StoreTyped ==
    /\ kv \in [Tables -> [Groups -> Members]] /\ mem \in [Tables -> [Groups -> Members]]
    /\ \A t \in Tables, g \in Groups : mem[t][g] \in {None, kv[t][g]}

SameStore(g) == \A t \in Tables : kv'[t][g] = kv[t][g]

LEMMA NoJobOp == NoJob.op = "none"
BY DEF NoJob

LEMMA JobFields ==
    ASSUME JobsTyped, NEW g \in Groups, job[g] # NoJob
    PROVE  /\ job[g] \in Job /\ job[g].op \in Ops /\ job[g].ports \in SUBSET Pons
           /\ job[g].at \in Stages /\ job[g].want \in SUBSET Pons /\ job[g].new \in SUBSET Pons
           /\ job[g].current \in SUBSET Pons /\ job[g].failed \in BOOLEAN
BY DEF JobsTyped, Job

LEMMA GoOnEffect ==
    ASSUME JobsTyped, NEW g \in Groups, job[g] # NoJob, NEW j \in Job, GoOn(g, j),
           j.op = job[g].op, j.ports = job[g].ports
    PROVE  JobsTyped' /\ SameJobs(g) /\ GoesTo(g, j.at, j.want, j.new, j.current, j.failed)
<1>1. j # NoJob
  BY DEF NoJob, Job, Ops
<1>. QED  BY <1>1 DEF JobsTyped, SameJobs, GoOn, GoesTo

LEMMA GoToEffect ==
    ASSUME JobsTyped, NEW g \in Groups, job[g] # NoJob, NEW at \in Stages, GoTo(g, at)
    PROVE  JobsTyped' /\ SameJobs(g) /\ Moves(g, at)
<1> DEFINE j == [job[g] EXCEPT !.at = at]
<1>1. /\ j \in Job /\ j.at = at /\ j.op = job[g].op /\ j.ports = job[g].ports /\ j.want = job[g].want
      /\ j.new = job[g].new /\ j.current = job[g].current /\ j.failed = job[g].failed
  BY JobFields DEF Job
<1>2. GoOn(g, j)
  BY DEF GoTo
<1> HIDE DEF j
<1>. QED  BY <1>1, <1>2, GoOnEffect DEF Moves

LEMMA AnswerEffect ==
    ASSUME JobsTyped, NEW g \in Groups, job[g] # NoJob, NEW ok \in BOOLEAN, Answer(g, ok)
    PROVE  JobsTyped' /\ SameJobs(g) /\ (ok => Succeeds(g)) /\ (~ok => Fails(g))
<1>1. job[g] \in Job /\ core[g] \in Held
  BY DEF JobsTyped
<1>2. [op |-> job[g].op, ports |-> job[g].ports] \in Sent
  BY <1>1 DEF Job, Sent
<1>3. job' \in [Groups -> {NoJob} \cup Job] /\ job'[g] = NoJob /\ \A h \in Groups \ {g} : job'[h] = job[h]
  BY DEF JobsTyped, Answer
<1>4. CASE ~ok
  <2>1. core' = [core EXCEPT ![g] = [core[g] EXCEPT !.failed = [op |-> job[g].op, ports |-> job[g].ports]]]
    BY <1>4 DEF Answer
  <2>2. [core[g] EXCEPT !.failed = [op |-> job[g].op, ports |-> job[g].ports]] \in Held
    BY <1>1, <1>2 DEF Held
  <2>3. core'[g] = [core[g] EXCEPT !.failed = [op |-> job[g].op, ports |-> job[g].ports]]
    BY <2>1 DEF JobsTyped
  <2>4. Fails(g)
    BY <1>1, <1>3, <2>3 DEF Fails, Held
  <2>. QED  BY <1>3, <1>4, <2>1, <2>2, <2>4 DEF JobsTyped, SameJobs
<1>5. CASE ok
  <2> DEFINE ports == CASE job[g].op \in {"add", "modify"} -> job[g].ports
                        [] job[g].op = "delete" -> None
                        [] OTHER -> core[g].ports
             flow == CASE job[g].op = "addflow" -> TRUE
                       [] job[g].op = "removeflow" -> FALSE
                       [] OTHER -> core[g].flow
             done == [ports |-> ports, flow |-> flow, failed |-> NoJob]
  <2>1. core' = [core EXCEPT ![g] = done]
    BY <1>5 DEF Answer
  <2>2. ports \in Members
    <3>1. job[g].ports \in SUBSET Pons
      BY <1>1 DEF Job
    <3>2. core[g].ports \in Members
      BY <1>1 DEF Held
    <3>3. job[g].ports \in Members /\ None \in Members
      BY <3>1 DEF Members
    <3>. QED  BY <3>2, <3>3
  <2>3. /\ job[g].op = "addflow" => flow = TRUE
        /\ job[g].op = "removeflow" => flow = FALSE
        /\ job[g].op \notin {"addflow", "removeflow"} => flow = core[g].flow
    BY Zenon
  <2>4. flow \in BOOLEAN
    BY <1>1, <2>3, Zenon DEF Held
  <2> HIDE DEF flow
  <2>5. done \in Held /\ done.ports = ports /\ done.flow = flow /\ done.failed = NoJob
    BY <2>2, <2>4 DEF Held
  <2> HIDE DEF done
  <2>6. core'[g] = done /\ core' \in [Groups -> Held] /\ \A h \in Groups \ {g} : core'[h] = core[h]
    BY <2>1, <2>5 DEF JobsTyped
  <2>. QED  BY <1>3, <1>5, <2>3, <2>5, <2>6 DEF JobsTyped, SameJobs, Succeeds
<1>. QED  BY <1>4, <1>5

Puts(g, t, val) ==
    kv' = [kv EXCEPT ![t][g] = val] /\ mem' = [mem EXCEPT ![t][g] = val]

LEMMA StoreEffect ==
    ASSUME StoreTyped, NEW g \in Groups, NEW t \in Tables, NEW val \in Members,
           Puts(g, t, val)
    PROVE  /\ StoreTyped' /\ kv'[t][g] = val
           /\ \A u \in Tables \ {t} : kv'[u] = kv[u]
           /\ \A h \in Groups \ {g} : SameStore(h)
BY DEF StoreTyped, SameStore, Puts

LEMMA FaultEffect ==
    ASSUME Typed, scenario' = scenario,
           Fine \/ (Faulty /\ \E kind \in {"kv", "rpc", "lost", "crash"} : May(kind))
    PROVE  FaultsTyped'
<1>1. left \in Nat /\ left <= scenario.left /\ scenario.left \in Nat
  BY MulticastAssumption DEF Typed, FaultsTyped, QueuesTyped
<1>2. left' = left \/ (left' = left - 1 /\ left > 0)
  BY DEF Fine, Faulty, May
<1>. QED  BY <1>1, <1>2 DEF FaultsTyped

-------------------------------------------------------------------------------
(* The steps of the queues. *)

LEMMA QueueStepTyped ==
    ASSUME Typed, NEW p \in Pons, QueueStep(p)
    PROVE  Typed' /\ UNCHANGED <<groupVars, scenario>>
<1>1. QueuesTyped /\ UNCHANGED <<groupVars, scenario>>
  BY DEF Typed, QueueStep, UpdateInterfaceToMcastQueueMap, GetMcastQueuePerInterfaceMap,
         AddMcastQueueForIntf, PutMcastQueues
<1>2. GroupsTyped'
  BY <1>1 DEF Typed, GroupsTyped, groupVars
<1>3. FaultsTyped'
  BY <1>1, FaultEffect DEF QueueStep, UpdateInterfaceToMcastQueueMap,
     GetMcastQueuePerInterfaceMap, AddMcastQueueForIntf, PutMcastQueues, Fine
<1>4. adder[p] \in Adder /\ local[p] \in SUBSET Pons /\ adder \in [Pons -> Adder]
  BY <1>1 DEF QueuesTyped
<1>5. adder[p].val \in SUBSET Pons
  BY <1>4 DEF Adder
<1>6. \A a \in {"idle", "load", "mark"} : [adder[p] EXCEPT !.at = a] \in Adder
  BY <1>4 DEF Adder
<1>7. CASE UpdateInterfaceToMcastQueueMap(p)
  <2>1. queueMap' = queueMap \cup {p} /\ UNCHANGED <<local, loaded, kvQueues>>
    BY <1>7 DEF UpdateInterfaceToMcastQueueMap
  <2>2. \E a \in {"load", "mark"} : adder' = [adder EXCEPT ![p] = [adder[p] EXCEPT !.at = a]]
    BY <1>7, Zenon DEF UpdateInterfaceToMcastQueueMap
  <2>3. adder' \in [Pons -> Adder]
    BY <1>4, <1>6, <2>2
  <2>. QED  BY <1>1, <1>2, <1>3, <2>1, <2>3 DEF Typed, QueuesTyped
<1>8. CASE GetMcastQueuePerInterfaceMap(p)
  <2>1. queueMap' = queueMap /\ kvQueues' = kvQueues
    BY <1>8 DEF GetMcastQueuePerInterfaceMap
  <2>2. \E a \in {"idle", "mark"} : adder' = [adder EXCEPT ![p] = [adder[p] EXCEPT !.at = a]]
    BY <1>8 DEF GetMcastQueuePerInterfaceMap
  <2>3. adder' \in [Pons -> Adder]
    BY <1>4, <1>6, <2>2
  <2>4. \/ UNCHANGED <<local, loaded>>
        \/ /\ local' = [local EXCEPT ![p] = local[p] \cup kvQueues]
           /\ loaded' = [loaded EXCEPT ![p] = kvQueues # {}]
    BY <1>8 DEF GetMcastQueuePerInterfaceMap
  <2>5. local' \in [Pons -> SUBSET Pons]
    BY <1>1, <2>4 DEF QueuesTyped
  <2>6. loaded' \in [Pons -> BOOLEAN]
    BY <1>1, <2>4, Zenon DEF QueuesTyped
  <2>. QED  BY <1>1, <1>2, <1>3, <2>1, <2>3, <2>5, <2>6 DEF Typed, QueuesTyped
<1>9. CASE AddMcastQueueForIntf(p)
  <2>1. [at |-> "put", val |-> local[p] \cup {p}] \in Adder
    BY <1>4 DEF Adder
  <2>2. adder' \in [Pons -> Adder]
    BY <1>4, <1>9, <2>1 DEF AddMcastQueueForIntf
  <2>3. local' \in [Pons -> SUBSET Pons]
    BY <1>1, <1>9 DEF QueuesTyped, AddMcastQueueForIntf
  <2>. QED  BY <1>1, <1>2, <1>3, <1>9, <2>2, <2>3 DEF Typed, QueuesTyped, AddMcastQueueForIntf
<1>10. CASE PutMcastQueues(p)
  <2>1. [at |-> "idle", val |-> {}] \in Adder
    BY DEF Adder
  <2>2. adder' \in [Pons -> Adder] /\ kvQueues' \in SUBSET Pons
    BY <1>1, <1>4, <1>5, <1>10, <2>1 DEF PutMcastQueues, QueuesTyped
  <2>. QED  BY <1>1, <1>2, <1>3, <1>10, <2>2 DEF Typed, QueuesTyped, PutMcastQueues
<1>. QED  BY <1>7, <1>8, <1>9, <1>10 DEF QueueStep

LEMMA QueueStepTurns ==
    ASSUME Typed, Turns, TurnsInv, NEW p \in Pons, QueueStep(p)
    PROVE  TurnsInv'
<1>1. /\ adder \in [Pons -> Adder] /\ adder[p] \in Adder /\ local \in [Pons -> SUBSET Pons]
      /\ loaded \in [Pons -> BOOLEAN] /\ scenario.serial /\ ~May("kv")
  BY DEF Typed, QueuesTyped, Turns, May
<1>2. scenario' = scenario
  BY DEF QueueStep, UpdateInterfaceToMcastQueueMap, GetMcastQueuePerInterfaceMap,
         AddMcastQueueForIntf, PutMcastQueues
<1>3. \A q \in Pons \ {p} : adder'[q] = adder[q] /\ local'[q] = local[q] /\ loaded'[q] = loaded[q]
  BY <1>1 DEF QueueStep, UpdateInterfaceToMcastQueueMap, GetMcastQueuePerInterfaceMap,
         AddMcastQueueForIntf, PutMcastQueues
<1>4. CASE UpdateInterfaceToMcastQueueMap(p)
  <2>1. /\ p \in scenario.more \ queueMap /\ \A q \in Pons : adder[q].at = "idle"
        /\ queueMap' = queueMap \cup {p} /\ UNCHANGED <<local, loaded, kvQueues>>
        /\ adder' = [adder EXCEPT ![p] = [adder[p] EXCEPT !.at = IF loaded[p] THEN "mark" ELSE "load"]]
    BY <1>1, <1>4 DEF UpdateInterfaceToMcastQueueMap
  <2>2. Unread(p) /\ kvQueues = queueMap
    BY <2>1 DEF TurnsInv
  <2>3. adder'[p].at = "load"
    BY <1>1, <2>1, <2>2 DEF Unread, Adder
  <2>4. Adding(p)' /\ adder'[p].at # "idle"
    BY <1>3, <2>1, <2>2, <2>3 DEF Adding, Unread
  <2>5. \A q \in Pons \ {p} : adder'[q].at = "idle"
    BY <1>3, <2>1
  <2>. QED  BY <1>2, <2>1, <2>4, <2>5 DEF TurnsInv, Unread
<1>5. CASE GetMcastQueuePerInterfaceMap(p)
  <2>1. /\ adder[p].at = "load" /\ UNCHANGED <<queueMap, kvQueues>>
        /\ local' = [local EXCEPT ![p] = @ \cup kvQueues]
        /\ adder' = [adder EXCEPT ![p] = [adder[p] EXCEPT !.at = "mark"]]
    BY <1>1, <1>5 DEF GetMcastQueuePerInterfaceMap
  <2>2. Adding(p)
    BY <2>1 DEF TurnsInv
  <2>3. adder'[p].at = "mark" /\ local'[p] = kvQueues
    BY <1>1, <2>1, <2>2 DEF Adding, Adder
  <2>4. Adding(p)' /\ \A q \in Pons \ {p} : adder'[q].at = "idle"
    BY <1>3, <2>1, <2>2, <2>3 DEF Adding
  <2>5. \A q \in scenario.more \ queueMap : q # p /\ q \in Pons
    BY <2>2, MulticastAssumption DEF Adding, Typed, QueuesTyped
  <2>. QED  BY <1>2, <1>3, <2>1, <2>3, <2>4, <2>5 DEF TurnsInv, Unread
<1>6. CASE AddMcastQueueForIntf(p)
  <2>1. /\ adder[p].at = "mark" /\ UNCHANGED <<queueMap, kvQueues>>
        /\ adder'[p] = [at |-> "put", val |-> local[p] \cup {p}]
    BY <1>1, <1>6 DEF AddMcastQueueForIntf
  <2>2. Adding(p)
    BY <2>1 DEF TurnsInv
  <2>3. adder'[p].at = "put" /\ adder'[p].val = queueMap
    BY <2>1, <2>2 DEF Adding
  <2>4. Adding(p)' /\ \A q \in Pons \ {p} : adder'[q].at = "idle"
    BY <1>3, <2>1, <2>2, <2>3 DEF Adding
  <2>5. \A q \in scenario.more \ queueMap : q # p /\ q \in Pons
    BY <2>2, MulticastAssumption DEF Adding, Typed, QueuesTyped
  <2>. QED  BY <1>2, <1>3, <2>1, <2>3, <2>4, <2>5 DEF TurnsInv, Unread
<1>7. CASE PutMcastQueues(p)
  <2>1. /\ adder[p].at = "put" /\ UNCHANGED <<queueMap, local, loaded>>
        /\ adder'[p].at = "idle" /\ kvQueues' = adder[p].val
    BY <1>1, <1>7 DEF PutMcastQueues
  <2>2. Adding(p)
    BY <2>1 DEF TurnsInv
  <2>3. \A q \in Pons : adder'[q].at = "idle"
    BY <1>3, <2>1, <2>2 DEF Adding
  <2>. QED  BY <1>2, <2>1, <2>2, <2>3 DEF TurnsInv, Unread, Adding
<1>. QED  BY <1>4, <1>5, <1>6, <1>7 DEF QueueStep

-------------------------------------------------------------------------------
(* The steps of a group: what they leave alone, and what they do.          *)

OltTyped == olt \in [Groups -> Members] /\ flows \in SUBSET Groups

SameFlow(h) == h \in flows' <=> h \in flows

\* the other groups, and all but the groups
Others(g) ==
    \A h \in Groups \ {g} : /\ job'[h] = job[h] /\ core'[h] = core[h] /\ olt'[h] = olt[h]
                            /\ SameFlow(h) /\ SameStore(h)

Local(g) == Typed' /\ UNCHANGED <<queueVars, scenario>> /\ Others(g)

LEMMA TypedParts == GroupsTyped <=> JobsTyped /\ StoreTyped /\ OltTyped
BY DEF GroupsTyped, JobsTyped, StoreTyped, OltTyped

LEMMA OltEffect ==
    ASSUME OltTyped, NEW g \in Groups, NEW o \in Members,
           olt' = [olt EXCEPT ![g] = o], flows' \in {flows, flows \cup {g}, flows \ {g}}
    PROVE  OltTyped' /\ olt'[g] = o /\ \A h \in Groups \ {g} : olt'[h] = olt[h] /\ SameFlow(h)
BY DEF OltTyped, SameFlow

LEMMA LocalSuffices ==
    ASSUME Typed, NEW g \in Groups, UNCHANGED <<queueVars, scenario>>,
           JobsTyped', SameJobs(g), StoreTyped', \A h \in Groups \ {g} : SameStore(h),
           OltTyped', \A h \in Groups \ {g} : olt'[h] = olt[h] /\ SameFlow(h), FaultsTyped'
    PROVE  Local(g)
<1>1. QueuesTyped'
  BY DEF Typed, QueuesTyped, queueVars
<1>2. GroupsTyped'
  BY TypedParts DEF GroupsTyped, JobsTyped, StoreTyped, OltTyped
<1>3. Others(g)
  BY DEF Others, SameJobs
<1>. QED  BY <1>1, <1>2, <1>3 DEF Local, Typed

\* a call to the OLT leaves the store alone, an access to the store the OLT
LEMMA CallLocal ==
    ASSUME Typed, NEW g \in Groups, UNCHANGED <<queueVars, mem, kv, scenario>>,
           JobsTyped', SameJobs(g), NEW o \in Members, olt' = olt \/ olt' = [olt EXCEPT ![g] = o],
           flows' \in {flows, flows \cup {g}, flows \ {g}}, FaultsTyped'
    PROVE  Local(g) /\ SameStore(g) /\ (olt' = olt \/ olt'[g] = o)
<1>1. StoreTyped /\ OltTyped
  BY TypedParts DEF Typed
<1>2. StoreTyped' /\ SameStore(g) /\ \A h \in Groups \ {g} : SameStore(h)
  BY <1>1 DEF StoreTyped, SameStore
<1>3. OltTyped' /\ (olt' = olt \/ olt'[g] = o)
      /\ \A h \in Groups \ {g} : olt'[h] = olt[h] /\ SameFlow(h)
  BY <1>1 DEF OltTyped, SameFlow
<1>. QED  BY <1>2, <1>3, LocalSuffices

LEMMA StoreLocal ==
    ASSUME Typed, NEW g \in Groups, UNCHANGED <<queueVars, olt, flows, scenario>>,
           JobsTyped', SameJobs(g), StoreTyped', \A h \in Groups \ {g} : SameStore(h), FaultsTyped'
    PROVE  Local(g) /\ SameFlow(g)
<1>1. OltTyped' /\ SameFlow(g) /\ \A h \in Groups \ {g} : olt'[h] = olt[h] /\ SameFlow(h)
  BY TypedParts DEF Typed, OltTyped, SameFlow
<1>. QED  BY <1>1, LocalSuffices

\* a call to the OLT: the request goes on, or it is answered
LEMMA CallEffect ==
    ASSUME Typed, NEW g \in Groups, job[g] # NoJob, UNCHANGED <<queueVars, mem, kv, scenario>>,
           NEW o \in Members, olt' = olt \/ olt' = [olt EXCEPT ![g] = o],
           flows' \in {flows, flows \cup {g}, flows \ {g}},
           Fine \/ (Faulty /\ \E kind \in {"kv", "rpc", "lost", "crash"} : May(kind)),
           NEW at \in Stages, GoTo(g, at) \/ \E ok \in BOOLEAN : Answer(g, ok)
    PROVE  /\ Local(g) /\ SameStore(g) /\ (olt' = olt \/ olt'[g] = o)
           /\ GoTo(g, at) => Moves(g, at)
           /\ Answer(g, TRUE) => Succeeds(g)
           /\ Answer(g, FALSE) => Fails(g)
<1>1. JobsTyped
  BY TypedParts DEF Typed
<1>2. /\ JobsTyped' /\ SameJobs(g)
      /\ GoTo(g, at) => Moves(g, at)
      /\ Answer(g, TRUE) => Succeeds(g)
      /\ Answer(g, FALSE) => Fails(g)
  BY <1>1, GoToEffect, AnswerEffect, Zenon
<1>3. FaultsTyped'
  BY FaultEffect
<1>. QED  BY <1>2, <1>3, CallLocal, Zenon

\* an access to the store, likewise
LEMMA AccessEffect ==
    ASSUME Typed, NEW g \in Groups, job[g] # NoJob, UNCHANGED <<queueVars, olt, flows, scenario>>,
           StoreTyped', \A h \in Groups \ {g} : SameStore(h),
           Fine \/ (Faulty /\ \E kind \in {"kv", "rpc", "lost", "crash"} : May(kind)),
           NEW at \in Stages, GoTo(g, at) \/ \E ok \in BOOLEAN : Answer(g, ok)
    PROVE  /\ Local(g) /\ SameFlow(g)
           /\ GoTo(g, at) => Moves(g, at)
           /\ Answer(g, TRUE) => Succeeds(g)
           /\ Answer(g, FALSE) => Fails(g)
<1>1. JobsTyped
  BY TypedParts DEF Typed
<1>2. /\ JobsTyped' /\ SameJobs(g)
      /\ GoTo(g, at) => Moves(g, at)
      /\ Answer(g, TRUE) => Succeeds(g)
      /\ Answer(g, FALSE) => Fails(g)
  BY <1>1, GoToEffect, AnswerEffect, Zenon
<1>3. FaultsTyped'
  BY FaultEffect
<1>. QED  BY <1>2, <1>3, StoreLocal, Zenon

LEMMA AddGroupEffect ==
    ASSUME Typed, NEW g \in Groups, AddGroup(g)
    PROVE  /\ Local(g) /\ job[g] # NoJob /\ job[g].at = "add" /\ SameStore(g) /\ SameFlow(g)
           /\ \/ olt'[g] = {} /\ Moves(g, "cache")
              \/ olt'[g] \in {olt[g], {}} /\ Fails(g)
<1>1. job[g] # NoJob /\ job[g].at = "add" /\ UNCHANGED <<queueVars, mem, kv, scenario>>
  BY DEF AddGroup, At
<1>2. {} \in Members /\ "cache" \in Stages
  BY DEF Members, Stages
<1>3. \/ olt' = [olt EXCEPT ![g] = {}] /\ flows' = flows /\ Fine /\ GoTo(g, "cache")
      \/ /\ olt' = olt \/ olt' = [olt EXCEPT ![g] = {}]
         /\ flows' = flows /\ Faulty /\ (May("rpc") \/ May("lost")) /\ Answer(g, FALSE)
  BY Zenon DEF AddGroup, Rpc
<1>4. /\ Local(g) /\ SameStore(g) /\ (GoTo(g, "cache") => Moves(g, "cache"))
      /\ (Answer(g, FALSE) => Fails(g)) /\ (olt' = olt \/ olt'[g] = {})
  BY <1>1, <1>2, <1>3, CallEffect, Zenon
<1>5. olt' = [olt EXCEPT ![g] = {}] => olt'[g] = {}
  BY DEF Typed, GroupsTyped
<1>. QED  BY <1>1, <1>3, <1>4, <1>5, Zenon DEF SameFlow

LEMMA DeleteGroupEffect ==
    ASSUME Typed, NEW g \in Groups, DeleteGroup(g)
    PROVE  /\ Local(g) /\ job[g] # NoJob /\ job[g].at = "delete" /\ SameStore(g) /\ SameFlow(g)
           /\ \/ olt'[g] = None /\ Moves(g, "forget")
              \/ olt'[g] \in {olt[g], None} /\ Fails(g)
<1>1. job[g] # NoJob /\ job[g].at = "delete" /\ UNCHANGED <<queueVars, mem, kv, scenario>>
  BY DEF DeleteGroup, At
<1>2. None \in Members /\ "forget" \in Stages
  BY DEF Members, Stages
<1>3. \/ olt' = [olt EXCEPT ![g] = None] /\ flows' = flows /\ Fine /\ GoTo(g, "forget")
      \/ /\ olt' = olt \/ olt' = [olt EXCEPT ![g] = None]
         /\ flows' = flows /\ Faulty /\ (May("rpc") \/ May("lost")) /\ Answer(g, FALSE)
  BY Zenon DEF DeleteGroup, Rpc
<1>4. /\ Local(g) /\ SameStore(g) /\ (GoTo(g, "forget") => Moves(g, "forget"))
      /\ (Answer(g, FALSE) => Fails(g)) /\ (olt' = olt \/ olt'[g] = None)
  BY <1>1, <1>2, <1>3, CallEffect, Zenon
<1>5. olt' = [olt EXCEPT ![g] = None] => olt'[g] = None
  BY DEF Typed, GroupsTyped
<1>. QED  BY <1>1, <1>3, <1>4, <1>5, Zenon DEF SameFlow

LEMMA HandleFlowWithGroupEffect ==
    ASSUME Typed, NEW g \in Groups, HandleFlowWithGroup(g)
    PROVE  /\ Local(g) /\ job[g] # NoJob /\ job[g].at = "addflow" /\ SameStore(g) /\ olt' = olt
           /\ \/ g \in flows' /\ Moves(g, "getcached")
              \/ (g \in flows => g \in flows') /\ Fails(g)
<1>1. job[g] # NoJob /\ job[g].at = "addflow" /\ UNCHANGED <<queueVars, mem, kv, scenario>>
  BY DEF HandleFlowWithGroup, At
<1>2. {} \in Members /\ "getcached" \in Stages
  BY DEF Members, Stages
<1>3. /\ olt' = olt
      /\ \/ flows' = flows \cup {g} /\ Fine /\ GoTo(g, "getcached")
         \/ /\ flows' \in {flows, flows \cup {g}}
            /\ Faulty /\ (May("rpc") \/ May("lost") \/ May("kv")) /\ Answer(g, FALSE)
  BY Zenon DEF HandleFlowWithGroup, Rpc
<1>4. /\ Local(g) /\ SameStore(g) /\ (GoTo(g, "getcached") => Moves(g, "getcached"))
      /\ (Answer(g, FALSE) => Fails(g))
  BY <1>1, <1>2, <1>3, CallEffect, Zenon
<1>. QED  BY <1>1, <1>3, <1>4, Zenon

LEMMA RemoveFlowEffect ==
    ASSUME Typed, NEW g \in Groups, ClearMulticastFlowFromResourceManager(g)
    PROVE  /\ Local(g) /\ job[g] # NoJob /\ job[g].at = "removeflow" /\ SameStore(g) /\ olt' = olt
           /\ Succeeds(g) \/ Fails(g)
<1>1. job[g] # NoJob /\ job[g].at = "removeflow" /\ UNCHANGED <<queueVars, mem, kv, scenario>>
  BY DEF ClearMulticastFlowFromResourceManager, At
<1>2. {} \in Members /\ "removeflow" \in Stages
  BY DEF Members, Stages, Ops
<1>3. /\ olt' = olt /\ flows' \in {flows, flows \ {g}}
      /\ \/ Fine /\ Answer(g, TRUE)
         \/ Faulty /\ (May("rpc") \/ May("lost")) /\ Answer(g, FALSE)
  BY Zenon DEF ClearMulticastFlowFromResourceManager, Rpc
<1>4. /\ Local(g) /\ SameStore(g) /\ (Answer(g, TRUE) => Succeeds(g))
      /\ (Answer(g, FALSE) => Fails(g))
  BY <1>1, <1>2, <1>3, CallEffect, Zenon
<1>. QED  BY <1>1, <1>3, <1>4, Zenon

\* one entry is written; the other table keeps its own
Writes(g, t, val) == kv'[t][g] = val /\ \A u \in Tables \ {t} : kv'[u][g] = kv[u][g]

LEMMA WriteEffect ==
    ASSUME StoreTyped, NEW g \in Groups, NEW t \in Tables, NEW val \in Members,
           Puts(g, t, val) \/ UNCHANGED <<kv, mem>>
    PROVE  /\ StoreTyped' /\ \A h \in Groups \ {g} : SameStore(h)
           /\ Puts(g, t, val) => Writes(g, t, val)
           /\ UNCHANGED <<kv, mem>> => SameStore(g)
<1>1. CASE Puts(g, t, val)
  <2>1. /\ StoreTyped' /\ kv'[t][g] = val /\ \A u \in Tables \ {t} : kv'[u] = kv[u]
        /\ \A h \in Groups \ {g} : SameStore(h)
    BY <1>1, StoreEffect
  <2>. QED  BY <2>1 DEF Writes, SameStore
<1>2. CASE UNCHANGED <<kv, mem>>
  <2>1. StoreTyped' /\ SameStore(g) /\ \A h \in Groups \ {g} : SameStore(h)
    BY <1>2 DEF StoreTyped, SameStore
  <2>2. Puts(g, t, val) => Writes(g, t, val)
    BY StoreEffect DEF Writes
  <2>. QED  BY <2>1, <2>2
<1>. QED  BY <1>1, <1>2

LEMMA AddGroupToCacheEffect ==
    ASSUME Typed, NEW g \in Groups, AddGroupToCache(g)
    PROVE  /\ Local(g) /\ job[g] # NoJob /\ job[g].at = "cache" /\ olt' = olt /\ SameFlow(g)
           /\ \/ Writes(g, "cached", job[g].ports) /\ Succeeds(g)
              \/ SameStore(g) /\ May("kv") /\ Fails(g)
<1>1. job[g] # NoJob /\ job[g].at = "cache" /\ UNCHANGED <<queueVars, olt, flows, scenario>>
  BY DEF AddGroupToCache, At
<1>2. StoreTyped /\ JobsTyped /\ "cached" \in Tables /\ "cache" \in Stages
  BY TypedParts DEF Typed, Tables, Stages
<1>3. job[g].ports \in Members
  BY <1>1, <1>2, JobFields DEF Members
<1>4. \/ Puts(g, "cached", job[g].ports) /\ Fine /\ Answer(g, TRUE)
      \/ May("kv") /\ Faulty /\ UNCHANGED <<kv, mem>> /\ Answer(g, FALSE)
  BY Zenon DEF AddGroupToCache, AddFlowGroupToKVStore, Store, Puts
<1>5. /\ StoreTyped' /\ \A h \in Groups \ {g} : SameStore(h)
      /\ Puts(g, "cached", job[g].ports) => Writes(g, "cached", job[g].ports)
      /\ UNCHANGED <<kv, mem>> => SameStore(g)
  BY <1>2, <1>3, <1>4, WriteEffect, Zenon
<1>6. /\ Local(g) /\ SameFlow(g) /\ (Answer(g, TRUE) => Succeeds(g)) /\ (Answer(g, FALSE) => Fails(g))
  BY <1>1, <1>2, <1>4, <1>5, AccessEffect, Zenon
<1>. QED  BY <1>1, <1>4, <1>5, <1>6, Zenon

LEMMA DeleteGroupFromStoreEffect ==
    ASSUME Typed, NEW g \in Groups, DeleteGroupFromStore(g)
    PROVE  /\ Local(g) /\ job[g] # NoJob /\ job[g].at = "forget" /\ olt' = olt /\ SameFlow(g)
           /\ \/ Writes(g, "stored", None) /\ Succeeds(g)
              \/ SameStore(g) /\ May("kv") /\ Fails(g)
<1>1. job[g] # NoJob /\ job[g].at = "forget" /\ UNCHANGED <<queueVars, olt, flows, scenario>>
  BY DEF DeleteGroupFromStore, At
<1>2. StoreTyped /\ JobsTyped /\ "stored" \in Tables /\ "forget" \in Stages /\ None \in Members
  BY TypedParts DEF Typed, Tables, Stages, Members
<1>4. \/ Puts(g, "stored", None) /\ Fine /\ Answer(g, TRUE)
      \/ May("kv") /\ Faulty /\ UNCHANGED <<kv, mem>> /\ Answer(g, FALSE)
  BY Zenon DEF DeleteGroupFromStore, RemoveFlowGroupFromKVStore, Store, Puts
<1>5. /\ StoreTyped' /\ \A h \in Groups \ {g} : SameStore(h)
      /\ Puts(g, "stored", None) => Writes(g, "stored", None)
      /\ UNCHANGED <<kv, mem>> => SameStore(g)
  BY <1>2, <1>4, WriteEffect, Zenon
<1>6. /\ Local(g) /\ SameFlow(g) /\ (Answer(g, TRUE) => Succeeds(g)) /\ (Answer(g, FALSE) => Fails(g))
  BY <1>1, <1>2, <1>4, <1>5, AccessEffect, Zenon
<1>. QED  BY <1>1, <1>4, <1>5, <1>6, Zenon

LEMMA RemoveCachedGroupEffect ==
    ASSUME Typed, NEW g \in Groups, RemoveCachedGroup(g)
    PROVE  /\ Local(g) /\ job[g] # NoJob /\ job[g].at = "uncache" /\ olt' = olt /\ SameFlow(g)
           /\ Writes(g, "cached", None) \/ (SameStore(g) /\ May("kv"))
           /\ Succeeds(g)
<1>1. job[g] # NoJob /\ job[g].at = "uncache" /\ UNCHANGED <<queueVars, olt, flows, scenario>>
  BY DEF RemoveCachedGroup, At
<1>2. StoreTyped /\ JobsTyped /\ "cached" \in Tables /\ "uncache" \in Stages /\ None \in Members
  BY TypedParts DEF Typed, Tables, Stages, Members
<1>4. /\ Answer(g, TRUE)
      /\ \/ Puts(g, "cached", None) /\ Fine
         \/ May("kv") /\ Faulty /\ UNCHANGED <<kv, mem>>
  BY Zenon DEF RemoveCachedGroup, RemoveFlowGroupFromKVStore, Store, Puts
<1>5. /\ StoreTyped' /\ \A h \in Groups \ {g} : SameStore(h)
      /\ Puts(g, "cached", None) => Writes(g, "cached", None)
      /\ UNCHANGED <<kv, mem>> => SameStore(g)
  BY <1>2, <1>4, WriteEffect
<1>6. Local(g) /\ SameFlow(g) /\ (Answer(g, TRUE) => Succeeds(g))
  BY <1>1, <1>2, <1>4, <1>5, AccessEffect, Zenon
<1>. QED  BY <1>1, <1>4, <1>5, <1>6

LEMMA SaveGroupEffect ==
    ASSUME Typed, NEW g \in Groups, SaveGroup(g)
    PROVE  /\ Local(g) /\ job[g] # NoJob /\ job[g].at = "save" /\ olt' = olt /\ SameFlow(g)
           /\ \/ SameStore(g) /\ Fails(g)
              \/ /\ ~job[g].failed /\ Writes(g, "stored", job[g].want)
                 /\ \/ job[g].op = "addflow" /\ Moves(g, "uncache")
                    \/ job[g].op # "addflow" /\ Succeeds(g)
<1>1. job[g] # NoJob /\ job[g].at = "save" /\ UNCHANGED <<queueVars, olt, flows, scenario>>
  BY DEF SaveGroup, At
<1>2. StoreTyped /\ JobsTyped /\ "stored" \in Tables /\ "uncache" \in Stages
  BY TypedParts DEF Typed, Tables, Stages
<1>3. job[g].want \in Members /\ job[g].failed \in BOOLEAN
  BY <1>1, <1>2, JobFields DEF Members
<1>4. \/ /\ UNCHANGED <<kv, mem>> /\ (Fine \/ (Faulty /\ May("kv"))) /\ Answer(g, FALSE)
      \/ /\ ~job[g].failed /\ Puts(g, "stored", job[g].want) /\ Fine
         /\ \/ job[g].op = "addflow" /\ GoTo(g, "uncache")
            \/ job[g].op # "addflow" /\ Answer(g, TRUE)
  BY Zenon DEF SaveGroup, AddFlowGroupToKVStore, Store, Puts
<1>5. /\ StoreTyped' /\ \A h \in Groups \ {g} : SameStore(h)
      /\ Puts(g, "stored", job[g].want) => Writes(g, "stored", job[g].want)
      /\ UNCHANGED <<kv, mem>> => SameStore(g)
  BY <1>2, <1>3, <1>4, WriteEffect, Zenon
<1>6. /\ Local(g) /\ SameFlow(g) /\ (Answer(g, TRUE) => Succeeds(g)) /\ (Answer(g, FALSE) => Fails(g))
      /\ (GoTo(g, "uncache") => Moves(g, "uncache"))
  BY <1>1, <1>2, <1>4, <1>5, AccessEffect, Zenon
<1>. QED  BY <1>1, <1>4, <1>5, <1>6, Zenon

LEMMA ModifyGroupEffect ==
    ASSUME Typed, NEW g \in Groups, ModifyGroup(g)
    PROVE  /\ Local(g) /\ job[g] # NoJob /\ job[g].at = "modify"
           /\ olt' = olt /\ SameFlow(g) /\ SameStore(g)
           /\ GoesTo(g, "current", job[g].want, job[g].want \cap queueMap, job[g].current,
                     job[g].failed)
<1>1. /\ job[g] # NoJob /\ job[g].at = "modify" /\ Fine
      /\ UNCHANGED <<queueVars, mem, kv, olt, flows, scenario>>
  BY DEF ModifyGroup, At, Fine
<1>2. JobsTyped /\ StoreTyped /\ FaultsTyped'
  BY <1>1, TypedParts, FaultEffect DEF Typed
<1>3. PICK j : j = [job[g] EXCEPT !.at = "current", !.new = BuildGroup(job[g].want)]
  OBVIOUS
<1>4. /\ j \in Job /\ j.at = "current" /\ j.op = job[g].op /\ j.ports = job[g].ports
      /\ j.want = job[g].want /\ j.new = job[g].want \cap queueMap /\ j.current = job[g].current
      /\ j.failed = job[g].failed
  BY <1>1, <1>2, <1>3, JobFields, Zenon DEF Job, Stages, BuildGroup
<1>5. GoOn(g, j)
  BY <1>3 DEF ModifyGroup
<1>6. /\ JobsTyped' /\ SameJobs(g)
      /\ GoesTo(g, "current", job[g].want, job[g].want \cap queueMap, job[g].current, job[g].failed)
  BY <1>1, <1>2, <1>4, <1>5, GoOnEffect
<1>7. StoreTyped' /\ \A h \in Groups : SameStore(h)
  BY <1>1, <1>2 DEF StoreTyped, SameStore
<1>. QED  BY <1>1, <1>2, <1>6, <1>7, StoreLocal

LEMMA GetCurrentGroupEffect ==
    ASSUME Typed, NEW g \in Groups, GetCurrentGroup(g)
    PROVE  /\ Local(g) /\ job[g] # NoJob /\ job[g].at = "current"
           /\ olt' = olt /\ SameFlow(g) /\ SameStore(g)
           /\ \/ GoesTo(g, "addmembers", job[g].want, job[g].new, Built(kv["stored"][g]),
                        job[g].failed)
              \/ May("kv") /\ Fails(g)
<1>1. /\ job[g] # NoJob /\ job[g].at = "current" /\ UNCHANGED <<queueVars, kv, olt, flows, scenario>>
  BY DEF GetCurrentGroup, At
<1>2. JobsTyped /\ StoreTyped /\ "stored" \in Tables
  BY TypedParts DEF Typed, Tables
<1>3. PICK j : j = [job[g] EXCEPT !.at = "addmembers", !.current = Built(kv["stored"][g])]
  OBVIOUS
<1>4. Built(kv["stored"][g]) \in SUBSET Pons
  BY <1>2 DEF Built, StoreTyped, Members, Typed, QueuesTyped
<1>5. /\ j \in Job /\ j.at = "addmembers" /\ j.op = job[g].op /\ j.ports = job[g].ports
      /\ j.want = job[g].want /\ j.new = job[g].new /\ j.current = Built(kv["stored"][g])
      /\ j.failed = job[g].failed
  BY <1>1, <1>2, <1>3, <1>4, JobFields, Zenon DEF Job, Stages
<1>6. (IF mem["stored"][g] # None THEN mem["stored"][g] ELSE kv["stored"][g]) = kv["stored"][g]
  BY <1>2 DEF StoreTyped
<1>7. \/ /\ GoOn(g, j) /\ Fine
         /\ mem' = [mem EXCEPT !["stored"][g] = IF @ # None THEN @ ELSE kv["stored"][g]]
      \/ May("kv") /\ Faulty /\ UNCHANGED mem /\ Answer(g, FALSE)
  BY <1>3, <1>6, Zenon DEF GetCurrentGroup, GetFlowGroupFromKVStore, FoundGroup, Built, BuildGroup
<1>8. StoreTyped' /\ \A h \in Groups : SameStore(h)
  <2>1. CASE mem' = mem
    BY <1>1, <1>2, <2>1 DEF StoreTyped, SameStore
  <2>2. CASE mem' = [mem EXCEPT !["stored"][g] = IF @ # None THEN @ ELSE kv["stored"][g]]
    BY <1>1, <1>2, <2>2 DEF StoreTyped, SameStore
  <2>. QED  BY <1>7, <2>1, <2>2, Zenon
<1>9. FaultsTyped'
  BY <1>1, <1>7, FaultEffect, Zenon
<1>10. /\ JobsTyped' /\ SameJobs(g) /\ (Answer(g, FALSE) => Fails(g))
       /\ GoOn(g, j) => GoesTo(g, "addmembers", job[g].want, job[g].new, Built(kv["stored"][g]),
                               job[g].failed)
  BY <1>1, <1>2, <1>5, <1>7, GoOnEffect, AnswerEffect, Zenon
<1>. QED  BY <1>1, <1>7, <1>8, <1>9, <1>10, StoreLocal, Zenon

LEMMA SetMembersOfNewFlowEffect ==
    ASSUME Typed, NEW g \in Groups, SetMembersOfNewFlow(g)
    PROVE  /\ Local(g) /\ job[g] # NoJob /\ job[g].at = "getcached"
           /\ olt' = olt /\ SameFlow(g) /\ SameStore(g)
           /\ \/ kv["cached"][g] = None /\ Fails(g)
              \/ /\ kv["cached"][g] # None
                 /\ GoesTo(g, "modify", kv["cached"][g], job[g].new, job[g].current, job[g].failed)
              \/ May("kv") /\ Succeeds(g)
<1>1. /\ job[g] # NoJob /\ job[g].at = "getcached" /\ UNCHANGED <<queueVars, kv, olt, flows, scenario>>
  BY DEF SetMembersOfNewFlow, At
<1>2. JobsTyped /\ StoreTyped /\ "cached" \in Tables
  BY TypedParts DEF Typed, Tables
<1>3. PICK j : j = [job[g] EXCEPT !.at = "modify", !.want = kv["cached"][g]]
  OBVIOUS
<1>4. kv["cached"][g] # None => kv["cached"][g] \in SUBSET Pons
  BY <1>2 DEF StoreTyped, Members
<1>5. kv["cached"][g] # None =>
        /\ j \in Job /\ j.at = "modify" /\ j.op = job[g].op /\ j.ports = job[g].ports
        /\ j.want = kv["cached"][g] /\ j.new = job[g].new /\ j.current = job[g].current
        /\ j.failed = job[g].failed
  BY <1>1, <1>2, <1>3, <1>4, JobFields, Zenon DEF Job, Stages, Ops
<1>6. (IF mem["cached"][g] # None THEN mem["cached"][g] ELSE kv["cached"][g]) = kv["cached"][g]
  BY <1>2 DEF StoreTyped
<1>7. \/ /\ \/ kv["cached"][g] = None /\ Answer(g, FALSE)
            \/ kv["cached"][g] # None /\ GoOn(g, j)
         /\ mem' = [mem EXCEPT !["cached"][g] = IF @ # None THEN @ ELSE kv["cached"][g]] /\ Fine
      \/ May("kv") /\ Faulty /\ UNCHANGED mem /\ Answer(g, TRUE)
  BY <1>3, <1>6, Zenon DEF SetMembersOfNewFlow, GetFlowGroupFromKVStore, FoundGroup
<1>8. StoreTyped' /\ \A h \in Groups : SameStore(h)
  <2>1. CASE mem' = mem
    BY <1>1, <1>2, <2>1 DEF StoreTyped, SameStore
  <2>2. CASE mem' = [mem EXCEPT !["cached"][g] = IF @ # None THEN @ ELSE kv["cached"][g]]
    BY <1>1, <1>2, <2>2 DEF StoreTyped, SameStore
  <2>. QED  BY <1>7, <2>1, <2>2, Zenon
<1>9. FaultsTyped'
  BY <1>1, <1>7, FaultEffect, Zenon
<1>10. /\ JobsTyped' /\ SameJobs(g) /\ (Answer(g, FALSE) => Fails(g)) /\ (Answer(g, TRUE) => Succeeds(g))
       /\ kv["cached"][g] # None /\ GoOn(g, j) =>
             GoesTo(g, "modify", kv["cached"][g], job[g].new, job[g].current, job[g].failed)
  BY <1>1, <1>2, <1>5, <1>7, GoOnEffect, AnswerEffect, Zenon
<1>. QED  BY <1>1, <1>7, <1>8, <1>9, <1>10, StoreLocal, Zenon

\* members are sent, unless there are none: done, or noted as failed
Sends(g, members, result, next) ==
    \/ members = {} /\ olt' = olt /\ Moves(g, next)
    \/ olt[g] # None /\ olt'[g] = result /\ Moves(g, next)
    \/ /\ olt' = olt \/ (olt[g] # None /\ olt'[g] = result)
       /\ GoesTo(g, next, job[g].want, job[g].new, job[g].current, TRUE)

LEMMA CallGroupAddRemoveEffect ==
    ASSUME Typed, NEW g \in Groups, job[g] # NoJob, NEW members, NEW result, NEW next \in Stages,
           olt[g] # None => result \in SUBSET Pons,
           CallGroupAddRemove(g, members, result, next), UNCHANGED <<queueVars, mem, kv, scenario>>
    PROVE  Local(g) /\ SameStore(g) /\ SameFlow(g) /\ Sends(g, members, result, next)
<1>1. JobsTyped /\ OltTyped
  BY TypedParts DEF Typed
<1>2. PICK j : j = [job[g] EXCEPT !.at = next, !.failed = TRUE]
  OBVIOUS
<1>3. /\ j \in Job /\ j.at = next /\ j.op = job[g].op /\ j.ports = job[g].ports
      /\ j.want = job[g].want /\ j.new = job[g].new /\ j.current = job[g].current /\ j.failed = TRUE
  BY <1>1, <1>2, JobFields, Zenon DEF Job
<1>4. \/ members = {} /\ GoTo(g, next) /\ Fine /\ UNCHANGED <<olt, flows>>
      \/ GoOn(g, j) /\ Fine /\ UNCHANGED <<olt, flows>>
      \/ /\ olt[g] # None /\ olt' = [olt EXCEPT ![g] = result] /\ flows' = flows
         /\ Fine /\ GoTo(g, next)
      \/ /\ Faulty /\ (May("rpc") \/ May("lost")) /\ GoOn(g, j) /\ flows' = flows
         /\ olt' = olt \/ (olt[g] # None /\ olt' = [olt EXCEPT ![g] = result])
  BY <1>2 DEF CallGroupAddRemove, Rpc
<1>5. /\ JobsTyped' /\ SameJobs(g) /\ (GoTo(g, next) => Moves(g, next))
      /\ GoOn(g, j) => GoesTo(g, next, job[g].want, job[g].new, job[g].current, TRUE)
  BY <1>1, <1>3, <1>4, GoToEffect, GoOnEffect, Zenon
<1>6. FaultsTyped'
  BY <1>4, FaultEffect
<1>7. PICK o \in Members : olt[g] # None => o = result
  BY DEF Members
<1>8. Local(g) /\ SameStore(g) /\ SameFlow(g)
  <2>1. olt' = olt \/ olt' = [olt EXCEPT ![g] = o]
    BY <1>4, <1>7
  <2>2. flows' = flows
    BY <1>4
  <2>. QED  BY <1>5, <1>6, <2>1, <2>2, CallLocal DEF SameFlow
<1>9. olt' = [olt EXCEPT ![g] = result] => olt'[g] = result
  BY <1>1 DEF OltTyped
<1>. QED  BY <1>4, <1>5, <1>8, <1>9, Zenon DEF Sends

LEMMA AddMembersEffect ==
    ASSUME Typed, NEW g \in Groups, AddMembers(g)
    PROVE  /\ Local(g) /\ SameStore(g) /\ SameFlow(g) /\ job[g] # NoJob /\ job[g].at = "addmembers"
           /\ LET members == job[g].new \ job[g].current
              IN  Sends(g, members, olt[g] \cup members, "removemembers")
<1>1. /\ job[g] # NoJob /\ job[g].at = "addmembers" /\ UNCHANGED <<queueVars, mem, kv, scenario>>
  BY DEF AddMembers, At
<1>2. PICK members : members = job[g].new \ job[g].current
  BY Zenon
<1>3. CallGroupAddRemove(g, members, olt[g] \cup members, "removemembers")
  BY <1>2 DEF AddMembers, FindDiff
<1>4. JobsTyped /\ OltTyped /\ "removemembers" \in Stages
  BY TypedParts DEF Typed, Stages
<1>5. olt[g] # None => olt[g] \cup members \in SUBSET Pons
  BY <1>1, <1>2, <1>4, JobFields DEF OltTyped, Members
<1>. QED  BY <1>1, <1>2, <1>3, <1>4, <1>5, CallGroupAddRemoveEffect

LEMMA RemoveMembersEffect ==
    ASSUME Typed, NEW g \in Groups, RemoveMembers(g)
    PROVE  /\ Local(g) /\ SameStore(g) /\ SameFlow(g) /\ job[g] # NoJob
           /\ job[g].at = "removemembers"
           /\ LET members == job[g].current \ job[g].new
              IN  Sends(g, members, olt[g] \ members, "save")
<1>1. /\ job[g] # NoJob /\ job[g].at = "removemembers" /\ UNCHANGED <<queueVars, mem, kv, scenario>>
  BY DEF RemoveMembers, At
<1>2. PICK members : members = job[g].current \ job[g].new
  BY Zenon
<1>3. CallGroupAddRemove(g, members, olt[g] \ members, "save")
  BY <1>2 DEF RemoveMembers, FindDiff
<1>4. OltTyped /\ "save" \in Stages
  BY TypedParts DEF Typed, Stages
<1>5. olt[g] # None => olt[g] \ members \in SUBSET Pons
  BY <1>4 DEF OltTyped, Members
<1>. QED  BY <1>1, <1>2, <1>3, <1>4, <1>5, CallGroupAddRemoveEffect

\* a request of the core is taken up
Begins(g, op, ports) ==
    /\ job'[g] # NoJob /\ job'[g].op = op /\ job'[g].ports = ports
    /\ job'[g].at = op /\ job'[g].want = ports /\ core'[g] = core[g]

LEMMA RequestEffect ==
    ASSUME Typed, NEW g \in Groups, NEW op \in Ops, NEW ports \in SUBSET Pons,
           Request(g, op, ports)
    PROVE  /\ Local(g) /\ SameStore(g) /\ SameFlow(g) /\ olt' = olt /\ job[g] = NoJob
           /\ Begins(g, op, ports) /\ Possible(core[g], op)
           /\ op \notin {"add", "modify"} => ports = {}
           /\ scenario.repeats /\ core[g].failed # NoJob =>
                 core[g].failed = [op |-> op, ports |-> ports]
<1>1. /\ UNCHANGED <<queueVars, mem, kv, olt, flows, core, scenario>> /\ Fine /\ job[g] = NoJob
      /\ scenario.repeats /\ core[g].failed # NoJob =>
            core[g].failed = [op |-> op, ports |-> ports]
  BY DEF Request, Fine
<1>2. JobsTyped /\ StoreTyped /\ FaultsTyped'
  BY <1>1, TypedParts, FaultEffect DEF Typed
<1>3. Possible(core[g], op) /\ (op \notin {"add", "modify"} => ports = {})
  <2>1. CASE op = "add"
    BY <2>1 DEF Request, Possible
  <2>2. CASE op = "modify"
    BY <2>2 DEF Request, Possible
  <2>3. CASE op = "delete"
    BY <2>3 DEF Request, Possible
  <2>4. CASE op = "addflow"
    BY <2>4 DEF Request, Possible
  <2>5. CASE op = "removeflow"
    BY <2>5 DEF Request, Possible
  <2>. QED  BY <2>1, <2>2, <2>3, <2>4, <2>5 DEF Ops
<1>4. PICK j : j = [op |-> op, ports |-> ports, at |-> op, want |-> ports,
                    new |-> {}, current |-> {}, failed |-> FALSE]
  BY Zenon
<1>5. j \in Job /\ j.op = op /\ j.ports = ports /\ j.at = op /\ j.want = ports
  BY <1>4 DEF Job, Stages
<1>6. j # NoJob
  BY <1>5 DEF NoJob, Ops
<1>7. job' = [job EXCEPT ![g] = j]
  BY <1>4 DEF Request
<1>8. JobsTyped' /\ SameJobs(g) /\ Begins(g, op, ports)
  BY <1>1, <1>2, <1>5, <1>6, <1>7 DEF JobsTyped, SameJobs, Begins
<1>9. StoreTyped' /\ \A h \in Groups : SameStore(h)
  BY <1>1, <1>2 DEF StoreTyped, SameStore
<1>. QED  BY <1>1, <1>2, <1>3, <1>8, <1>9, StoreLocal

-------------------------------------------------------------------------------
(* Requests are underway. *)

LEMMA UnderwayElsewhere ==
    ASSUME NEW g \in Groups, Local(g), \A h \in Groups : Underway(h), Underway(g)'
    PROVE  \A h \in Groups : Underway(h)'
<1>1. SUFFICES ASSUME NEW h \in Groups \ {g}  PROVE Underway(h)'
  OBVIOUS
<1>2. job'[h] = job[h] /\ core'[h] = core[h] /\ scenario' = scenario
  BY DEF Local, Others
<1>. QED  BY <1>2 DEF Underway, Possible

LEMMA FailsUnderway ==
    ASSUME NEW g \in Groups, Underway(g), Fails(g)  PROVE Underway(g)'
BY DEF Underway, Fails

LEMMA SucceedsUnderway ==
    ASSUME NEW g \in Groups, JobsTyped, job[g] # NoJob, Underway(g), Succeeds(g)
    PROVE  Underway(g)'
<1>1. job[g].op \in Ops /\ job[g].ports # None
  BY JobFields, MulticastAssumption
<1>. QED  BY <1>1 DEF Underway, Succeeds, Possible, Ops

LEMMA GoesToUnderway ==
    ASSUME NEW g \in Groups, JobsTyped, job[g] # NoJob, Underway(g), scenario' = scenario,
           NEW at, NEW want, NEW new, NEW current, NEW failed,
           GoesTo(g, at, want, new, current, failed),
           at \in StagesOf(job[g].op), job[g].op = "modify" => want = job[g].want
    PROVE  Underway(g)'
BY DEF Underway, GoesTo, Possible

LEMMA RequestUnderway ==
    ASSUME Inv, NEW g \in Groups, NEW op \in Ops, NEW ports \in SUBSET Pons, Request(g, op, ports)
    PROVE  \A h \in Groups : Underway(h)'
<1>1. /\ Local(g) /\ Begins(g, op, ports) /\ Possible(core[g], op)
      /\ (op \notin {"add", "modify"} => ports = {})
  BY RequestEffect, Zenon DEF Inv
<1>2. scenario' = scenario /\ op \in StagesOf(op)
  BY <1>1 DEF Local, StagesOf, Ops
<1>3. Underway(g)'
  BY <1>1, <1>2 DEF Inv, Underway, Begins, Possible
<1>. QED  BY <1>1, <1>3, UnderwayElsewhere DEF Inv

LEMMA StageFollows ==
    ASSUME NEW g \in Groups, JobsTyped, job[g] # NoJob, Underway(g)
    PROVE  /\ job[g].at = "add" => job[g].op = "add"
           /\ job[g].at = "cache" => job[g].op = "add"
           /\ job[g].at = "delete" => job[g].op = "delete"
           /\ job[g].at = "forget" => job[g].op = "delete"
           /\ job[g].at = "removeflow" => job[g].op = "removeflow"
           /\ job[g].at \in {"addflow", "getcached", "uncache"} => job[g].op = "addflow"
           /\ job[g].at \in {"modify"} \cup Building => job[g].op \in {"modify", "addflow"}
<1>1. job[g].op \in Ops /\ job[g].at \in StagesOf(job[g].op)
  BY JobFields DEF Underway
<1>2. CASE job[g].op = "add"
  BY <1>1, <1>2 DEF StagesOf, Building
<1>3. CASE job[g].op = "delete"
  BY <1>1, <1>3 DEF StagesOf, Building
<1>4. CASE job[g].op = "removeflow"
  BY <1>1, <1>4 DEF StagesOf, Building
<1>5. CASE job[g].op = "modify"
  BY <1>1, <1>5 DEF StagesOf, Building
<1>6. CASE job[g].op = "addflow"
  BY <1>1, <1>6 DEF StagesOf, Building
<1>. QED  BY <1>1, <1>2, <1>3, <1>4, <1>5, <1>6 DEF Ops

LEMMA StagesThere ==
    /\ StagesOf("add") = {"add", "cache"}
    /\ StagesOf("delete") = {"delete", "forget"}
    /\ \A op \in {"modify", "addflow"} : {"modify"} \cup Building \subseteq StagesOf(op)
    /\ {"getcached", "uncache"} \subseteq StagesOf("addflow")
BY DEF StagesOf, Building

LEMMA MovesUnderway ==
    ASSUME NEW g \in Groups, JobsTyped, job[g] # NoJob, Underway(g), scenario' = scenario,
           NEW at \in StagesOf(job[g].op), Moves(g, at)
    PROVE  Underway(g)'
BY GoesToUnderway DEF Moves

LEMMA SendsUnderway ==
    ASSUME NEW g \in Groups, JobsTyped, job[g] # NoJob, Underway(g), scenario' = scenario,
           NEW next \in StagesOf(job[g].op), NEW members, NEW result,
           Sends(g, members, result, next)
    PROVE  Underway(g)'
<1>1. Moves(g, next) \/ GoesTo(g, next, job[g].want, job[g].new, job[g].current, TRUE)
  BY Zenon DEF Sends
<1>. QED  BY <1>1, MovesUnderway, GoesToUnderway, Zenon

LEMMA GroupStepUnderway ==
    ASSUME Inv, NEW g \in Groups, GroupStep(g)
    PROVE  Local(g) /\ \A h \in Groups : Underway(h)'
<1>1. JobsTyped /\ Underway(g) /\ Typed
  BY TypedParts DEF Inv, Typed
<1>2. job[g] # NoJob /\ Local(g)
  BY <1>1, AddGroupEffect, AddGroupToCacheEffect, DeleteGroupEffect, DeleteGroupFromStoreEffect,
     ModifyGroupEffect, GetCurrentGroupEffect, AddMembersEffect, RemoveMembersEffect,
     SaveGroupEffect, HandleFlowWithGroupEffect, SetMembersOfNewFlowEffect,
     RemoveCachedGroupEffect, RemoveFlowEffect, Zenon DEF GroupStep
<1>3. scenario' = scenario
  BY <1>2 DEF Local
<1> SUFFICES Underway(g)'
  BY <1>2, UnderwayElsewhere DEF Inv
<1>4. CASE Fails(g) \/ Succeeds(g)
  BY <1>1, <1>2, <1>4, FailsUnderway, SucceedsUnderway
<1>5. ASSUME NEW at \in StagesOf(job[g].op), Moves(g, at)  PROVE Underway(g)'
  BY <1>1, <1>2, <1>3, <1>5, MovesUnderway
<1>6. CASE AddGroup(g) \/ AddGroupToCache(g)
  BY Zenon, <1>1, <1>2, <1>4, <1>5, <1>6, AddGroupEffect, AddGroupToCacheEffect, StageFollows,
     StagesThere
<1>7. CASE DeleteGroup(g) \/ DeleteGroupFromStore(g)
  BY Zenon, <1>1, <1>2, <1>4, <1>5, <1>7, DeleteGroupEffect, DeleteGroupFromStoreEffect, StageFollows,
     StagesThere
<1>8. CASE HandleFlowWithGroup(g) \/ RemoveCachedGroup(g) \/ ClearMulticastFlowFromResourceManager(g)
  BY <1>1, <1>2, <1>4, <1>5, <1>8, HandleFlowWithGroupEffect, RemoveCachedGroupEffect,
     RemoveFlowEffect, StageFollows, StagesThere
<1>9. CASE SaveGroup(g)
  BY <1>1, <1>2, <1>4, <1>5, <1>9, SaveGroupEffect, StagesThere
<1>10. CASE ModifyGroup(g)
  <2>1. "current" \in StagesOf(job[g].op)
    BY <1>1, <1>2, <1>10, ModifyGroupEffect, StageFollows, StagesThere, Zenon DEF Building
  <2>. QED  BY <1>1, <1>2, <1>3, <1>10, <2>1, ModifyGroupEffect, GoesToUnderway, Zenon
<1>11. CASE GetCurrentGroup(g)
  <2>1. "addmembers" \in StagesOf(job[g].op)
    BY <1>1, <1>2, <1>11, GetCurrentGroupEffect, StageFollows, StagesThere DEF Building
  <2>. QED  BY <1>1, <1>2, <1>3, <1>4, <1>11, <2>1, GetCurrentGroupEffect, GoesToUnderway
<1>12. CASE SetMembersOfNewFlow(g)
  <2>1. "modify" \in StagesOf(job[g].op) /\ job[g].op = "addflow"
    BY <1>1, <1>2, <1>12, SetMembersOfNewFlowEffect, StageFollows, StagesThere DEF Building
  <2>. QED  BY <1>1, <1>2, <1>3, <1>4, <1>12, <2>1, SetMembersOfNewFlowEffect, GoesToUnderway
<1>13. CASE AddMembers(g)
  <2>1. "removemembers" \in StagesOf(job[g].op)
    BY <1>1, <1>2, <1>13, AddMembersEffect, StageFollows, StagesThere, Zenon DEF Building
  <2>. QED  BY <1>1, <1>2, <1>3, <1>13, <2>1, AddMembersEffect, SendsUnderway, Zenon
<1>14. CASE RemoveMembers(g)
  <2>1. "save" \in StagesOf(job[g].op)
    BY <1>1, <1>2, <1>14, RemoveMembersEffect, StageFollows, StagesThere, Zenon DEF Building
  <2>. QED  BY <1>1, <1>2, <1>3, <1>14, <2>1, RemoveMembersEffect, SendsUnderway, Zenon
<1>. QED  BY <1>6, <1>7, <1>8, <1>9, <1>10, <1>11, <1>12, <1>13, <1>14 DEF GroupStep

-------------------------------------------------------------------------------
(* Members are not interrupted. *)

LEMMA KnownElsewhere ==
    ASSUME NEW g \in Groups, Local(g), KnownInv, KnownMembers(g)'
    PROVE  KnownInv'
<1>1. UNCHANGED queueVars /\ scenario' = scenario /\ Others(g)
  BY DEF Local
<1>2. scenario'.more = {} => Fixed'
  BY <1>1 DEF KnownInv, Fixed, queueVars
<1>3. ASSUME NEW h \in Groups \ {g}  PROVE KnownMembers(h)'
  <2>1. job'[h] = job[h] /\ olt'[h] = olt[h] /\ queueMap' = queueMap
    BY <1>1 DEF Others, queueVars
  <2>. QED  BY <2>1 DEF KnownInv, KnownMembers
<1>. QED  BY <1>2, <1>3 DEF KnownInv

\* the request ends or is elsewhere, and no member is added
LEMMA ShrinksKnown ==
    ASSUME NEW g \in Groups, KnownMembers(g), queueMap' = queueMap,
           olt'[g] \in {olt[g], {}, None}, job'[g] = NoJob \/ job'[g].at \notin Building
    PROVE  KnownMembers(g)'
BY DEF KnownMembers

LEMMA SendsKnown ==
    ASSUME NEW g \in Groups, KnownMembers(g), queueMap' = queueMap, job[g] # NoJob,
           job[g].at \in Building, NEW members, NEW result, NEW next,
           Sends(g, members, result, next),
           olt[g] # None => result \subseteq olt[g] \cup job[g].new
    PROVE  KnownMembers(g)'
<1>1. job'[g].want = job[g].want /\ job'[g].new = job[g].new
  BY DEF Sends, Moves, GoesTo
<1>2. olt'[g] = olt[g] \/ (olt[g] # None /\ olt'[g] = result)
  BY Zenon DEF Sends
<1>. QED  BY <1>1, <1>2 DEF KnownMembers

LEMMA GroupStepKnown ==
    ASSUME Inv, KnownInv, NEW g \in Groups, GroupStep(g)
    PROVE  KnownInv'
<1>1. Typed /\ KnownMembers(g) /\ Local(g)
  BY GroupStepUnderway DEF Inv, KnownInv
<1>2. queueMap' = queueMap
  BY <1>1 DEF Local, queueVars
<1> SUFFICES KnownMembers(g)'
  BY <1>1, KnownElsewhere
<1>3. CASE AddGroup(g)
  BY <1>1, <1>2, <1>3, AddGroupEffect, ShrinksKnown, Zenon DEF Moves, GoesTo, Fails, Building
<1>4. CASE AddGroupToCache(g)
  BY <1>1, <1>2, <1>4, AddGroupToCacheEffect, ShrinksKnown, Zenon DEF Succeeds, Fails
<1>5. CASE DeleteGroup(g)
  BY <1>1, <1>2, <1>5, DeleteGroupEffect, ShrinksKnown, Zenon DEF Moves, GoesTo, Fails, Building
<1>6. CASE DeleteGroupFromStore(g)
  BY <1>1, <1>2, <1>6, DeleteGroupFromStoreEffect, ShrinksKnown, Zenon DEF Succeeds, Fails
<1>7. CASE ModifyGroup(g)
  BY <1>1, <1>2, <1>7, ModifyGroupEffect DEF GoesTo, KnownMembers
<1>8. CASE GetCurrentGroup(g)
  BY <1>1, <1>2, <1>8, GetCurrentGroupEffect, Zenon DEF GoesTo, Fails, KnownMembers, Building
<1>9. CASE AddMembers(g)
  <2>1. job[g] # NoJob /\ job[g].at \in Building
    BY <1>1, <1>9, AddMembersEffect, Zenon DEF Building
  <2>. QED  BY <1>1, <1>2, <1>9, <2>1, AddMembersEffect, SendsKnown, Zenon
<1>10. CASE RemoveMembers(g)
  <2>1. job[g] # NoJob /\ job[g].at \in Building
    BY <1>1, <1>10, RemoveMembersEffect, Zenon DEF Building
  <2>. QED  BY <1>1, <1>2, <1>10, <2>1, RemoveMembersEffect, SendsKnown, Zenon
<1>11. CASE SaveGroup(g)
  BY <1>1, <1>2, <1>11, SaveGroupEffect, ShrinksKnown, Zenon
     DEF Moves, GoesTo, Succeeds, Fails, Building
<1>12. CASE HandleFlowWithGroup(g)
  BY <1>1, <1>2, <1>12, HandleFlowWithGroupEffect, ShrinksKnown, Zenon
     DEF Moves, GoesTo, Fails, Building
<1>13. CASE SetMembersOfNewFlow(g)
  BY <1>1, <1>2, <1>13, SetMembersOfNewFlowEffect, ShrinksKnown, Zenon
     DEF GoesTo, Succeeds, Fails, Building
<1>14. CASE RemoveCachedGroup(g)
  BY <1>1, <1>2, <1>14, RemoveCachedGroupEffect, ShrinksKnown DEF Succeeds
<1>15. CASE ClearMulticastFlowFromResourceManager(g)
  BY <1>1, <1>2, <1>15, RemoveFlowEffect, ShrinksKnown, Zenon DEF Succeeds, Fails
<1>. QED
  BY Zenon, <1>3, <1>4, <1>5, <1>6, <1>7, <1>8, <1>9, <1>10, <1>11, <1>12, <1>13, <1>14, <1>15
     DEF GroupStep

LEMMA RequestKnown ==
    ASSUME Inv, KnownInv, NEW g \in Groups, NEW op \in Ops, NEW ports \in SUBSET Pons,
           Request(g, op, ports)
    PROVE  KnownInv'
<1>1. Local(g) /\ olt' = olt /\ Begins(g, op, ports)
  BY RequestEffect, Zenon DEF Inv
<1>2. queueMap' = queueMap /\ op \notin Building
  BY <1>1 DEF Local, queueVars, Ops, Building
<1>3. KnownMembers(g)'
  BY <1>1, <1>2, ShrinksKnown DEF KnownInv, Begins
<1>. QED  BY <1>1, <1>3, KnownElsewhere

\* no queue is added any more
LEMMA QueueStepFixed ==
    ASSUME scenario.more = {}, Fixed, NEW p \in Pons, QueueStep(p)
    PROVE  FALSE
BY DEF Fixed, QueueStep, UpdateInterfaceToMcastQueueMap, GetMcastQueuePerInterfaceMap,
       AddMcastQueueForIntf, PutMcastQueues

LEMMA QueueStepKnown ==
    ASSUME Inv, KnownInv, NEW p \in Pons, QueueStep(p)
    PROVE  KnownInv'
<1>1. UNCHANGED <<groupVars, scenario>>
  BY QueueStepTyped DEF Inv
<1>2. queueMap \subseteq queueMap'
  BY DEF QueueStep, UpdateInterfaceToMcastQueueMap, GetMcastQueuePerInterfaceMap,
         AddMcastQueueForIntf, PutMcastQueues
<1>3. scenario.more # {}
  BY QueueStepFixed DEF KnownInv
<1>4. \A g \in Groups : KnownMembers(g)'
  BY <1>1, <1>2 DEF KnownInv, KnownMembers, groupVars
<1>. QED  BY <1>1, <1>3, <1>4 DEF KnownInv

-------------------------------------------------------------------------------
(* Members follow the group. *)

GroupFollows(g) == Repeated(g) /\ Absent(g) /\ Flowless(g) /\ Flowing(g) /\ Progress(g)

\* what has not changed for the group, but for its members and its flow
SameRequest(g) ==
    /\ Doing(g)' = Doing(g) /\ queueMap' = queueMap /\ SameStore(g)
    /\ core'[g].ports = core[g].ports /\ core'[g].flow = core[g].flow

LEMMA StaysAbsent ==
    ASSUME NEW g \in Groups, SameRequest(g), Absent(g), olt'[g] \in {olt[g], {}}
    PROVE  Absent(g)'
BY DEF Absent, SameRequest, SameStore, Tables

LEMMA StaysFlowless ==
    ASSUME NEW g \in Groups, SameRequest(g), Flowless(g),
           olt'[g] = olt[g] \/ Doing(g).op = "delete"
    PROVE  Flowless(g)'
<1>1. kv'["stored"][g] = kv["stored"][g] /\ kv'["cached"][g] = kv["cached"][g]
  BY DEF SameRequest, SameStore, Tables
<1>. QED  BY <1>1 DEF Flowless, SameRequest, Built

LEMMA StaysFlowing ==
    ASSUME NEW g \in Groups, SameRequest(g), Flowing(g), olt'[g] = olt[g],
           (g \in flows => g \in flows') \/ Doing(g).op = "removeflow"
    PROVE  Flowing(g)'
<1>1. kv'["stored"][g] = kv["stored"][g] /\ kv'["cached"][g] = kv["cached"][g]
  BY DEF SameRequest, SameStore, Tables
<1>. QED  BY Zenon, <1>1 DEF Flowing, SameRequest, Built

LEMMA StaysProgress ==
    ASSUME NEW g \in Groups, SameRequest(g), Progress(g), job'[g] = job[g], olt'[g] = olt[g],
           g \in flows => g \in flows'
    PROVE  Progress(g)'
<1>1. kv'["stored"][g] = kv["stored"][g] /\ core'[g].ports = core[g].ports
  BY DEF SameRequest, SameStore, Tables
<1>2. Built(kv["stored"][g])' = Built(kv["stored"][g]) /\ Built(job[g].want)' = Built(job[g].want)
  BY <1>1 DEF SameRequest, Built
<1>. QED  BY <1>1, <1>2 DEF Progress

LEMMA FollowElsewhere ==
    ASSUME NEW g \in Groups, Local(g), FollowInv, GroupFollows(g)'
    PROVE  FollowInv'
<1>1. UNCHANGED queueVars /\ scenario' = scenario /\ Others(g)
  BY DEF Local
<1>2. Fixed'
  BY <1>1 DEF FollowInv, Fixed, queueVars
<1>3. ASSUME NEW h \in Groups \ {g}  PROVE GroupFollows(h)'
  <2>1. /\ job'[h] = job[h] /\ core'[h] = core[h] /\ olt'[h] = olt[h] /\ SameFlow(h)
        /\ SameStore(h) /\ queueMap' = queueMap
    BY <1>1 DEF Others, queueVars
  <2>2. SameRequest(h)
    BY <2>1 DEF SameRequest, Doing
  <2>3. GroupFollows(h)
    BY DEF FollowInv, GroupFollows
  <2>4. Repeated(h)'
    BY Zenon, <1>1, <2>1, <2>2, <2>3 DEF GroupFollows, Repeated, SameRequest, Possible
  <2>5. Absent(h)' /\ Flowless(h)' /\ Flowing(h)' /\ Progress(h)'
    BY Zenon, <2>1, <2>2, <2>3, StaysAbsent, StaysFlowless, StaysFlowing, StaysProgress
       DEF GroupFollows, SameFlow
  <2>. QED  BY <2>4, <2>5 DEF GroupFollows
<1>. QED  BY <1>2, <1>3 DEF FollowInv, GroupFollows

LEMMA FailsSame ==
    ASSUME NEW g \in Groups, JobsTyped, job[g] # NoJob, Repeated(g), Fails(g), SameStore(g),
           queueMap' = queueMap, scenario' = scenario
    PROVE  SameRequest(g) /\ Repeated(g)' /\ Progress(g)'
<1>1. Doing(g) = [op |-> job[g].op, ports |-> job[g].ports] /\ Doing(g)' = Doing(g)
  BY DEF Doing, Fails
<1>2. core'[g].failed = Doing(g)
  BY <1>1 DEF Fails
<1>3. core'[g].ports = core[g].ports /\ core'[g].flow = core[g].flow /\ job'[g] = NoJob
  BY DEF Fails
<1>4. Repeated(g)'
  BY <1>1, <1>2, <1>3 DEF Repeated, Possible
<1>. QED  BY Zenon, <1>1, <1>3, <1>4 DEF SameRequest, Progress

LEMMA GoesToSame ==
    ASSUME NEW g \in Groups, job[g] # NoJob, Repeated(g), SameStore(g),
           queueMap' = queueMap, scenario' = scenario,
           NEW at, NEW want, NEW new, NEW current, NEW failed,
           GoesTo(g, at, want, new, current, failed)
    PROVE  SameRequest(g) /\ Repeated(g)'
<1>1. Doing(g)' = Doing(g) /\ core'[g] = core[g]
  BY Zenon DEF Doing, GoesTo
<1>2. Repeated(g)'
  BY Zenon, <1>1 DEF Repeated, Possible
<1>. QED  BY <1>1, <1>2 DEF SameRequest

\* a request that fails without an effect on the OLT is to be repeated as it was
LEMMA FailsFollow ==
    ASSUME NEW g \in Groups, JobsTyped, job[g] # NoJob, GroupFollows(g), Fails(g), SameStore(g),
           queueMap' = queueMap, scenario' = scenario, olt'[g] = olt[g],
           (g \in flows => g \in flows') \/ job[g].op = "removeflow"
    PROVE  GroupFollows(g)'
<1>1. SameRequest(g) /\ Repeated(g)' /\ Progress(g)'
  BY FailsSame DEF GroupFollows
<1>2. job[g].op = "removeflow" => Doing(g).op = "removeflow"
  BY DEF Doing
<1>3. Absent(g)' /\ Flowless(g)' /\ Flowing(g)'
  BY Zenon, <1>1, <1>2, StaysAbsent, StaysFlowless, StaysFlowing DEF GroupFollows
<1>. QED  BY Zenon, <1>1, <1>3 DEF GroupFollows

LEMMA FollowContext ==
    ASSUME Inv, Follows, FollowInv, NEW g \in Groups, Local(g)
    PROVE  /\ Typed /\ JobsTyped /\ Underway(g) /\ GroupFollows(g) /\ ~May("kv")
           /\ queueMap' = queueMap /\ scenario' = scenario
           /\ job[g] # NoJob => Doing(g).op = job[g].op /\ Doing(g).ports = job[g].ports
<1>1. Typed /\ JobsTyped /\ Underway(g) /\ GroupFollows(g)
  BY TypedParts DEF Inv, Typed, FollowInv, GroupFollows
<1>2. ~May("kv") /\ queueMap' = queueMap /\ scenario' = scenario
  BY DEF Follows, May, Local, queueVars
<1>. QED  BY <1>1, <1>2 DEF Doing

LEMMA AddGroupFollows ==
    ASSUME Inv, Follows, FollowInv, NEW g \in Groups, AddGroup(g) \/ AddGroupToCache(g)
    PROVE  GroupFollows(g)'
<1>1. Local(g) /\ job[g] # NoJob
  BY AddGroupEffect, AddGroupToCacheEffect DEF Inv
<1>2. /\ Typed /\ JobsTyped /\ Underway(g) /\ GroupFollows(g) /\ ~May("kv")
      /\ queueMap' = queueMap /\ scenario' = scenario /\ Doing(g).op = job[g].op
  BY Zenon, <1>1, FollowContext
<1>3. job[g].op = "add" /\ job[g].ports # None
  BY Zenon, <1>1, <1>2, AddGroupEffect, AddGroupToCacheEffect, StageFollows, JobFields,
     MulticastAssumption
<1>4. core[g].ports = None /\ ~core[g].flow /\ kv["stored"][g] = None
  BY Zenon, <1>1, <1>2, <1>3 DEF Underway, Possible, GroupFollows, Absent
<1>5. CASE AddGroup(g)
  <2>1. SameStore(g) /\ olt'[g] \in {olt[g], {}}
    BY <1>2, <1>5, AddGroupEffect
  <2>2. CASE Fails(g)
    <3>1. SameRequest(g) /\ Repeated(g)' /\ Progress(g)'
      BY Zenon, <1>1, <1>2, <2>1, <2>2, FailsSame DEF GroupFollows
    <3>2. Absent(g)'
      BY Zenon, <1>2, <2>1, <3>1, StaysAbsent DEF GroupFollows
    <3>. QED  BY Zenon, <1>4, <3>1, <3>2 DEF GroupFollows, Flowless, Flowing, SameRequest
  <2>3. CASE olt'[g] = {} /\ Moves(g, "cache")
    <3>1. SameRequest(g) /\ Repeated(g)'
      BY Zenon, <1>1, <1>2, <2>1, <2>3, GoesToSame DEF GroupFollows, Moves
    <3>2. Absent(g)'
      BY Zenon, <1>2, <2>1, <3>1, StaysAbsent DEF GroupFollows
    <3>3. Progress(g)'
      BY Zenon, <1>3, <2>3 DEF Progress, Moves, GoesTo, Building
    <3>. QED  BY Zenon, <1>4, <3>1, <3>2, <3>3 DEF GroupFollows, Flowless, Flowing, SameRequest
  <2>. QED  BY Zenon, <1>2, <1>5, <2>2, <2>3, AddGroupEffect
<1>6. CASE AddGroupToCache(g)
  <2>1. /\ olt'[g] = olt[g] /\ job[g].at = "cache" /\ Writes(g, "cached", job[g].ports) /\ Succeeds(g)
    BY Zenon, <1>2, <1>6, AddGroupToCacheEffect
  <2>2. olt'[g] = {} /\ {} # None
    BY Zenon, <1>1, <1>2, <2>1, MulticastAssumption DEF GroupFollows, Progress
  <2>3. kv'["stored"][g] = None /\ kv'["cached"][g] = job[g].ports
    BY <1>4, <2>1 DEF Writes, Tables
  <2>4. /\ job'[g] = NoJob /\ core'[g].failed = NoJob /\ core'[g].ports = job[g].ports
        /\ ~core'[g].flow
    BY <1>3, <1>4, <2>1 DEF Succeeds
  <2>5. Doing(g)' = NoJob
    BY <2>4 DEF Doing
  <2>. QED  BY Zenon, <1>3, <2>2, <2>3, <2>4, <2>5
            DEF GroupFollows, Repeated, Absent, Flowless, Flowing, Progress
<1>. QED  BY <1>5, <1>6

LEMMA DeleteGroupFollows ==
    ASSUME Inv, Follows, FollowInv, NEW g \in Groups, DeleteGroup(g) \/ DeleteGroupFromStore(g)
    PROVE  GroupFollows(g)'
<1>1. Local(g) /\ job[g] # NoJob
  BY Zenon, DeleteGroupEffect, DeleteGroupFromStoreEffect DEF Inv
<1>2. /\ Typed /\ JobsTyped /\ Underway(g) /\ GroupFollows(g) /\ ~May("kv")
      /\ queueMap' = queueMap /\ scenario' = scenario /\ Doing(g).op = job[g].op
  BY <1>1, FollowContext
<1>3. job[g].op = "delete" /\ Doing(g).op = "delete"
  BY Zenon, <1>1, <1>2, DeleteGroupEffect, DeleteGroupFromStoreEffect, StageFollows
<1>4. core[g].ports # None /\ ~core[g].flow
  BY <1>1, <1>2, <1>3 DEF Underway, Possible
<1>5. CASE DeleteGroup(g)
  <2>1. SameStore(g)
    BY <1>2, <1>5, DeleteGroupEffect
  <2>2. CASE Fails(g)
    <3>1. SameRequest(g) /\ Repeated(g)' /\ Progress(g)'
      BY Zenon, <1>1, <1>2, <2>1, <2>2, FailsSame DEF GroupFollows
    <3>2. Flowless(g)'
      BY Zenon, <1>2, <1>3, <3>1, StaysFlowless DEF GroupFollows
    <3>. QED  BY Zenon, <1>4, <3>1, <3>2 DEF GroupFollows, Absent, Flowing, SameRequest
  <2>3. CASE olt'[g] = None /\ Moves(g, "forget")
    <3>1. SameRequest(g) /\ Repeated(g)'
      BY Zenon, <1>1, <1>2, <2>1, <2>3, GoesToSame DEF GroupFollows, Moves
    <3>2. Flowless(g)'
      BY Zenon, <1>2, <1>3, <3>1, StaysFlowless DEF GroupFollows
    <3>3. Progress(g)'
      BY <1>3, <2>3 DEF Progress, Moves, GoesTo, Building
    <3>. QED  BY Zenon, <1>4, <3>1, <3>2, <3>3 DEF GroupFollows, Absent, Flowing, SameRequest
  <2>. QED  BY Zenon, <1>2, <1>5, <2>2, <2>3, DeleteGroupEffect
<1>6. CASE DeleteGroupFromStore(g)
  <2>1. olt'[g] = olt[g] /\ job[g].at = "forget" /\ Writes(g, "stored", None) /\ Succeeds(g)
    BY Zenon, <1>2, <1>6, DeleteGroupFromStoreEffect
  <2>2. olt'[g] = None /\ kv'["stored"][g] = None
    BY Zenon, <1>1, <1>2, <2>1 DEF GroupFollows, Progress, Writes
  <2>3. /\ job'[g] = NoJob /\ core'[g].failed = NoJob /\ core'[g].ports = None
        /\ ~core'[g].flow
    BY <1>3, <1>4, <2>1 DEF Succeeds
  <2>4. Doing(g)' = NoJob
    BY <2>3 DEF Doing
  <2>. QED  BY Zenon, <2>2, <2>3, <2>4 DEF GroupFollows, Repeated, Absent, Flowless, Flowing, Progress
<1>. QED  BY <1>5, <1>6
===============================================================================

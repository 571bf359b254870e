---------------------------- MODULE MulticastGroups ----------------------------
(***************************************************************************)
(* Multicast groups and flows: openolt_groupmgr.go, the multicast part of  *)
(* the flow manager, and the two tables of the resource manager they rest  *)
(* on: the groups, stored and cached, and the multicast queue of each PON  *)
(* port, which becomes known when a downstream scheduler is made there.    *)
(*                                                                         *)
(* The requests of a group are handled one at a time by its routine (see   *)
(* HandlerRoutines), those of a PON port's subscribers by other routines;  *)
(* a step is a call to the OLT, an access to the KV store or the reading   *)
(* of interfaceToMcastQueueMap, for all buckets of a group at once.  A     *)
(* bucket stands for the PON port of its output port: members are compared *)
(* by it.                                                                  *)
(***************************************************************************)
EXTENDS Naturals, FiniteSets

CONSTANTS
    Pons,       \* PON ports
    First,      \* the PON port whose resource manager serves the groups
    Groups,
    None,       \* no group
    Scenarios   \* records: queues, the PON ports with a queue known at the start; more,
                \* those that may get one later; serial, whether one after the other; kinds
                \* and left, the faults; repeats, whether the core repeats a failed request
                \* before it sends another one; early, whether it modifies a group that has
                \* no flow

ASSUME MulticastAssumption ==
    /\ \A ports \in SUBSET Pons : ports # None
    /\ \A sc \in Scenarios : sc.queues \subseteq Pons /\ sc.more \subseteq Pons /\ sc.left \in Nat

VARIABLES
    queueMap,   \* interfaceToMcastQueueMap of the group manager
    local,      \* mcastQueueForIntf of each resource manager
    loaded,     \* mcastQueueForIntfLoadedFromKvStore of each resource manager
    adder,      \* the routine that adds the queue of each PON port
    kvQueues,   \* mcast_qs_for_int in the KV store
    mem, kv,    \* the groups in the cache and in the KV store, "cached" and "stored"
    olt,        \* the groups on the OLT with their members
    flows,      \* the groups whose flow is on the OLT
    job,        \* the request the routine of each group is at
    core,       \* the groups and flows as the core holds them
    left,       \* faults left
    scenario

queueVars == <<queueMap, local, loaded, adder, kvQueues>>
groupVars == <<mem, kv, olt, flows, job, core>>
vars == <<queueVars, groupVars, left, scenario>>

NoJob  == [op |-> "none"]
Tables == {"cached", "stored"}
Ops    == {"add", "modify", "delete", "addflow", "removeflow"}

May(kind) == kind \in scenario.kinds /\ left > 0
Faulty    == left' = left - 1
Fine      == left' = left

-------------------------------------------------------------------------------
(* The queues of the PON ports. *)

\* The end of pushSchedulerQueuesToDevice: the queue is put into the group manager's map.
UpdateInterfaceToMcastQueueMap(p) ==
    /\ p \in scenario.more \ queueMap /\ adder[p].at = "idle"
    /\ scenario.serial => \A q \in Pons : adder[q].at = "idle"
    /\ queueMap' = queueMap \cup {p}
    /\ adder' = [adder EXCEPT ![p].at = IF loaded[p] THEN "mark" ELSE "load"]
    /\ UNCHANGED <<local, loaded, kvQueues, groupVars, left, scenario>>

\* mutant: what other PON ports have stored is not read
GetMcastQueuePerInterfaceMapSkipped(p) ==
    /\ adder[p].at = "load"
    /\ adder' = [adder EXCEPT ![p].at = "mark"]
    /\ UNCHANGED <<queueMap, local, loaded, kvQueues, groupVars, left, scenario>>

\* An empty KV store does not count as read.
GetMcastQueuePerInterfaceMap(p) ==
    /\ adder[p].at = "load"
    /\ \/ /\ local' = [local EXCEPT ![p] = @ \cup kvQueues]
          /\ loaded' = [loaded EXCEPT ![p] = kvQueues # {}]
          /\ adder' = [adder EXCEPT ![p].at = "mark"]
          /\ Fine
       \/ /\ May("kv") /\ Faulty
          /\ adder' = [adder EXCEPT ![p].at = "idle"]
          /\ UNCHANGED <<local, loaded>>
    /\ UNCHANGED <<queueMap, kvQueues, groupVars, scenario>>

AddMcastQueueForIntf(p) ==
    /\ adder[p].at = "mark"
    /\ local' = [local EXCEPT ![p] = @ \cup {p}]
    /\ adder' = [adder EXCEPT ![p] = [at |-> "put", val |-> local[p] \cup {p}]]
    /\ UNCHANGED <<queueMap, loaded, kvQueues, groupVars, left, scenario>>

PutMcastQueues(p) ==
    /\ adder[p].at = "put"
    /\ adder' = [adder EXCEPT ![p] = [at |-> "idle", val |-> {}]]
    /\ \/ kvQueues' = adder[p].val /\ Fine
       \/ May("kv") /\ Faulty /\ UNCHANGED kvQueues
    /\ UNCHANGED <<queueMap, local, loaded, groupVars, scenario>>

-------------------------------------------------------------------------------
(* The core, and the answers to its requests. *)

Request(g, op, ports) ==
    /\ job[g] = NoJob
    /\ scenario.repeats /\ core[g].failed # NoJob =>
          core[g].failed = [op |-> op, ports |-> ports]
    /\ CASE op = "add"        -> core[g].ports = None
         [] op = "modify"     -> core[g].ports # None /\ (core[g].flow \/ scenario.early)
         [] op = "delete"     -> core[g].ports # None /\ ~core[g].flow /\ ports = {}
         [] op = "addflow"    -> core[g].ports # None /\ ~core[g].flow /\ ports = {}
         [] op = "removeflow" -> core[g].flow /\ ports = {}
    /\ job' = [job EXCEPT ![g] = [op |-> op, ports |-> ports, at |-> op, want |-> ports,
                                  new |-> {}, current |-> {}, failed |-> FALSE]]
    /\ UNCHANGED <<queueVars, mem, kv, olt, flows, core, left, scenario>>

\* The request as the core sent it is answered.
Answer(g, ok) ==
    LET j == job[g] IN
    /\ job' = [job EXCEPT ![g] = NoJob]
    /\ core' = [core EXCEPT ![g] =
         IF ~ok THEN [@ EXCEPT !.failed = [op |-> j.op, ports |-> j.ports]]
         ELSE [ports  |-> CASE j.op \in {"add", "modify"} -> j.ports
                            [] j.op = "delete" -> None
                            [] OTHER -> @.ports,
               flow   |-> CASE j.op = "addflow" -> TRUE
                            [] j.op = "removeflow" -> FALSE
                            [] OTHER -> @.flow,
               failed |-> NoJob]]

GoOn(g, j) == job' = [job EXCEPT ![g] = j] /\ UNCHANGED core

(* A call to the OLT that changes olt to o and flows to f: done, refused, or *)
(* done with the answer lost.                                                *)
Rpc(o, f, Then, Else) ==
    \/ olt' = o /\ flows' = f /\ Fine /\ Then
    \/ May("rpc") /\ Faulty /\ UNCHANGED <<olt, flows>> /\ Else
    \/ May("lost") /\ Faulty /\ olt' = o /\ flows' = f /\ Else

(* A write to the KV store, then to the cache. *)
Store(g, table, val, Then, Else) ==
    \/ /\ kv' = [kv EXCEPT ![table][g] = val]
       /\ mem' = [mem EXCEPT ![table][g] = val]
       /\ Fine /\ Then
    \/ May("kv") /\ Faulty /\ UNCHANGED <<kv, mem>> /\ Else

-------------------------------------------------------------------------------
(* Groups. *)

AddFlowGroupToKVStore(g, table, ports, Then, Else) == Store(g, table, ports, Then, Else)

\* mutant: the cache is not told
RemoveFlowGroupOnlyFromKVStore(g, table, Then, Else) ==
    /\ kv' = [kv EXCEPT ![table][g] = None]
    /\ UNCHANGED mem /\ Fine /\ Then

RemoveFlowGroupFromKVStore(g, table, Then, Else) == Store(g, table, None, Then, Else)

(* The entry found, in the cache or in the KV store, which fills the cache;  *)
(* or an error.                                                              *)
FoundGroup(g, table) == IF mem[table][g] # None THEN mem[table][g] ELSE kv[table][g]

GetFlowGroupFromKVStore(g, table, Found, Error) ==
    \/ /\ mem' = [mem EXCEPT ![table][g] = IF @ # None THEN @ ELSE kv[table][g]]
       /\ Fine /\ Found
    \/ mem[table][g] = None /\ May("kv") /\ Faulty /\ UNCHANGED mem /\ Error

At(g, at) == job[g] # NoJob /\ job[g].at = at
GoTo(g, at) == GoOn(g, [job[g] EXCEPT !.at = at])

\* The group is made without members.
AddGroup(g) ==
    /\ At(g, "add")
    /\ Rpc([olt EXCEPT ![g] = {}], flows, GoTo(g, "cache"), Answer(g, FALSE))
    /\ UNCHANGED <<queueVars, mem, kv, scenario>>

\* "group members not created yet. So let's store the group"
AddGroupToCache(g) ==
    /\ At(g, "cache")
    /\ AddFlowGroupToKVStore(g, "cached", job[g].ports, Answer(g, TRUE), Answer(g, FALSE))
    /\ UNCHANGED <<queueVars, olt, flows, scenario>>

DeleteGroup(g) ==
    /\ At(g, "delete")
    /\ Rpc([olt EXCEPT ![g] = None], flows, GoTo(g, "forget"), Answer(g, FALSE))
    /\ UNCHANGED <<queueVars, mem, kv, scenario>>

DeleteGroupFromStore(g) ==
    /\ At(g, "forget")
    /\ RemoveFlowGroupFromKVStore(g, "stored", Answer(g, TRUE), Answer(g, FALSE))
    /\ UNCHANGED <<queueVars, olt, flows, scenario>>

\* A bucket without a known queue is skipped.
BuildGroup(ports) == ports \cap queueMap

\* mutant: every member of the second group counts as a difference
FindDiffAll(group1, group2) == group2

FindDiff(group1, group2) == group2 \ group1

ModifyGroup(g) ==
    /\ At(g, "modify")
    /\ GoOn(g, [job[g] EXCEPT !.at = "current", !.new = BuildGroup(job[g].want)])
    /\ UNCHANGED <<queueVars, mem, kv, olt, flows, left, scenario>>

GetCurrentGroup(g) ==
    /\ At(g, "current")
    /\ LET ports == FoundGroup(g, "stored") IN
       GetFlowGroupFromKVStore(g, "stored",
         GoOn(g, [job[g] EXCEPT !.at = "addmembers",
                    !.current = IF ports = None THEN {} ELSE BuildGroup(ports)]),
         Answer(g, FALSE))
    /\ UNCHANGED <<queueVars, kv, olt, flows, scenario>>

(* callGroupAddRemove, if there are members: AlreadyExists is no error; the  *)
(* OLT refuses members of a group it does not hold.                          *)
CallGroupAddRemove(g, members, result, next) ==
    LET failed == GoOn(g, [job[g] EXCEPT !.at = next, !.failed = TRUE]) IN
    CASE members = {}    -> GoTo(g, next) /\ Fine /\ UNCHANGED <<olt, flows>>
      [] members # {} /\ olt[g] = None -> failed /\ Fine /\ UNCHANGED <<olt, flows>>
      [] OTHER -> Rpc([olt EXCEPT ![g] = result], flows, GoTo(g, next), failed)

AddMembers(g) ==
    LET members == FindDiff(job[g].current, job[g].new) IN
    /\ At(g, "addmembers")
    /\ CallGroupAddRemove(g, members, olt[g] \cup members, "removemembers")
    /\ UNCHANGED <<queueVars, mem, kv, scenario>>

RemoveMembers(g) ==
    LET members == FindDiff(job[g].new, job[g].current) IN
    /\ At(g, "removemembers")
    /\ CallGroupAddRemove(g, members, olt[g] \ members, "save")
    /\ UNCHANGED <<queueVars, mem, kv, scenario>>

\* mutant: the group is saved although a call failed
SaveGroupAlways(g) ==
    /\ At(g, "save")
    /\ AddFlowGroupToKVStore(g, "stored", job[g].want,
         IF job[g].op = "addflow" /\ ~job[g].failed THEN GoTo(g, "uncache")
         ELSE Answer(g, ~job[g].failed),
         Answer(g, FALSE))
    /\ UNCHANGED <<queueVars, olt, flows, scenario>>

\* "save the modified group", unless one of the calls failed
SaveGroup(g) ==
    /\ At(g, "save")
    /\ IF job[g].failed
         THEN Answer(g, FALSE) /\ Fine /\ UNCHANGED <<mem, kv>>
         ELSE AddFlowGroupToKVStore(g, "stored", job[g].want,
                IF job[g].op = "addflow" THEN GoTo(g, "uncache") ELSE Answer(g, TRUE),
                Answer(g, FALSE))
    /\ UNCHANGED <<queueVars, olt, flows, scenario>>

-------------------------------------------------------------------------------
(* Flows. *)

\* A multicast flow is never registered: once IsFlowOnKvStore has read that, it is sent.
HandleFlowWithGroup(g) ==
    /\ At(g, "addflow")
    /\ \/ Rpc(olt, flows \cup {g}, GoTo(g, "getcached"), Answer(g, FALSE))
       \/ May("kv") /\ Faulty /\ UNCHANGED <<olt, flows>> /\ Answer(g, FALSE)
    /\ UNCHANGED <<queueVars, mem, kv, scenario>>

\* ModifyGroup refuses the nil group of a getter that has found none; a getter that fails
\* ends the request without an error.
SetMembersOfNewFlow(g) ==
    /\ At(g, "getcached")
    /\ LET ports == FoundGroup(g, "cached") IN
       GetFlowGroupFromKVStore(g, "cached",
         IF ports = None THEN Answer(g, FALSE)
         ELSE GoOn(g, [job[g] EXCEPT !.at = "modify", !.want = ports]),
         Answer(g, TRUE))
    /\ UNCHANGED <<queueVars, kv, olt, flows, scenario>>

RemoveCachedGroup(g) ==
    /\ At(g, "uncache")
    /\ RemoveFlowGroupFromKVStore(g, "cached", Answer(g, TRUE), Answer(g, TRUE))
    /\ UNCHANGED <<queueVars, olt, flows, scenario>>

ClearMulticastFlowFromResourceManager(g) ==
    /\ At(g, "removeflow")
    /\ Rpc(olt, flows \ {g}, Answer(g, TRUE), Answer(g, FALSE))
    /\ UNCHANGED <<queueVars, mem, kv, scenario>>

-------------------------------------------------------------------------------
(* A new process: NewFlowManager loads the map of queues; requests that were *)
(* not answered have failed.                                                 *)
Restart ==
    /\ May("crash") /\ Faulty
    /\ queueMap' = kvQueues
    /\ local' = [p \in Pons |-> IF p = First THEN kvQueues ELSE {}]
    /\ loaded' = [p \in Pons |-> p = First /\ kvQueues # {}]
    /\ adder' = [p \in Pons |-> [at |-> "idle", val |-> {}]]
    /\ mem' = [t \in Tables |-> [g \in Groups |-> None]]
    /\ job' = [g \in Groups |-> NoJob]
    /\ core' = [g \in Groups |-> IF job[g] = NoJob THEN core[g]
                  ELSE [core[g] EXCEPT !.failed = [op |-> job[g].op, ports |-> job[g].ports]]]
    /\ UNCHANGED <<kvQueues, kv, olt, flows, scenario>>

Init ==
    /\ scenario \in Scenarios
    /\ queueMap = scenario.queues
    /\ kvQueues = scenario.queues
    /\ local = [p \in Pons |-> IF p = First THEN kvQueues ELSE {}]
    /\ loaded = [p \in Pons |-> p = First /\ kvQueues # {}]
    /\ adder = [p \in Pons |-> [at |-> "idle", val |-> {}]]
    /\ mem = [t \in Tables |-> [g \in Groups |-> None]]
    /\ kv = mem
    /\ olt = [g \in Groups |-> None]
    /\ flows = {}
    /\ job = [g \in Groups |-> NoJob]
    /\ core = [g \in Groups |-> [ports |-> None, flow |-> FALSE, failed |-> NoJob]]
    /\ left = scenario.left

QueueStep(p) ==
    \/ UpdateInterfaceToMcastQueueMap(p) \/ GetMcastQueuePerInterfaceMap(p)
    \/ AddMcastQueueForIntf(p) \/ PutMcastQueues(p)

GroupStep(g) ==
    \/ AddGroup(g) \/ AddGroupToCache(g) \/ DeleteGroup(g) \/ DeleteGroupFromStore(g)
    \/ ModifyGroup(g) \/ GetCurrentGroup(g) \/ AddMembers(g) \/ RemoveMembers(g) \/ SaveGroup(g)
    \/ HandleFlowWithGroup(g) \/ SetMembersOfNewFlow(g) \/ RemoveCachedGroup(g)
    \/ ClearMulticastFlowFromResourceManager(g)

Next ==
    \/ \E p \in Pons : QueueStep(p)
    \/ \E g \in Groups : GroupStep(g)
    \/ \E g \in Groups, op \in Ops, ports \in SUBSET Pons : Request(g, op, ports)
    \/ Restart

Spec == Init /\ [][Next]_vars

-------------------------------------------------------------------------------
\* The types of the variables; an entry of the groups' cache, groupInfo, is the one of the KV
\* store after every step, refused writes and restarts included.
TypeOK ==
    /\ scenario \in Scenarios
    /\ left \in 0..scenario.left
    /\ queueMap \subseteq Pons /\ kvQueues \subseteq Pons
    /\ local \in [Pons -> SUBSET Pons] /\ loaded \in [Pons -> BOOLEAN]
    /\ \A p \in Pons : /\ adder[p].at \in {"idle", "load", "mark", "put"}
                       /\ adder[p].val \subseteq Pons
    /\ \A t \in Tables, g \in Groups : /\ kv[t][g] = None \/ kv[t][g] \subseteq Pons
                                       /\ mem[t][g] \in {None, kv[t][g]}
    /\ \A g \in Groups : olt[g] = None \/ olt[g] \subseteq Pons
    /\ flows \subseteq Groups
    /\ \A g \in Groups : job[g] = NoJob \/ job[g].op \in Ops
    /\ \A g \in Groups : /\ core[g].ports = None \/ core[g].ports \subseteq Pons
                         /\ core[g].flow \in BOOLEAN

\* Nothing is being added, and what a new process will load is the map of this one.
QueuesInStore == (\A p \in Pons : adder[p].at = "idle") => kvQueues = queueMap

\* When queues become known one after the other and the KV store does not fail, what a new
\* process will load is the map of this one, whatever resource managers have stored the
\* queues and wherever the process was stopped in between: AddMcastQueueForIntf writes the
\* entries of all PON ports, of which the own manager may have read none yet.  The manager
\* of the groups reads the entries when the process starts and not again, so that its own
\* port has a queue by then, or nothing is stored at that time.
QueuesStored ==
    (/\ scenario.serial /\ "kv" \notin scenario.kinds
     /\ First \notin scenario.more \/ (scenario.queues = {} /\ "crash" \notin scenario.kinds))
        => QueuesInStore

Settled(g) == job[g] = NoJob /\ core[g].failed = NoJob /\ core[g].flow

\* When the core repeats what failed, modifies a group only once it has a flow, and the
\* queues were known, then the members of the group on the OLT are the ports of the group
\* as the core holds it: ModifyGroup sends differences to a stored group that calls refused,
\* answers lost and a restart between the two calls and the saving have left behind.
MembersFollowGroup ==
    (scenario.repeats /\ ~scenario.early /\ scenario.more = {} /\ "kv" \notin scenario.kinds) =>
        \A g \in Groups : Settled(g) =>
            g \in flows /\ olt[g] = core[g].ports \cap queueMap

\* A modification of a group with a flow does not interrupt those it keeps: RemoveMembers
\* takes away no port that is in the group both as the core holds it and as the request
\* wants it, whatever fails and even if a queue becomes known between the readings that make
\* the new and the current group (a restart may have lost a queue that was in use before).
MembersNotInterrupted ==
    [][\A g \in Groups :
         (/\ scenario.more = {} \/ "crash" \notin scenario.kinds
          /\ core[g].flow /\ At(g, "removemembers") /\ olt[g] # None) =>
                (olt[g] \ olt'[g]) \cap core[g].ports \cap job[g].ports = {}]_vars
===============================================================================

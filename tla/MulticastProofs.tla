---------------------------- MODULE MulticastProofs ----------------------------
(***************************************************************************)
(* Proofs about MulticastGroups: flows and modifications keep the members  *)
(* of groups what the core holds them to be; the invariant; the theorems   *)
(* about types, queues stored and members.                                 *)
(***************************************************************************)
EXTENDS MulticastSteps

\* a step of a request that leaves the members and the store alone
LEMMA GoesToFollow ==
    ASSUME NEW g \in Groups, job[g] # NoJob, GroupFollows(g), SameStore(g), queueMap' = queueMap,
           scenario' = scenario, olt'[g] = olt[g], g \in flows => g \in flows', Progress(g)',
           NEW at, NEW want, NEW new, NEW current, NEW failed,
           GoesTo(g, at, want, new, current, failed)
    PROVE  GroupFollows(g)'
<1>1. SameRequest(g) /\ Repeated(g)'
  BY GoesToSame DEF GroupFollows
<1>2. Absent(g)' /\ Flowless(g)' /\ Flowing(g)'
  BY <1>1, StaysAbsent, StaysFlowless, StaysFlowing DEF GroupFollows
<1>. QED  BY <1>1, <1>2 DEF GroupFollows

LEMMA FlowFollows ==
    ASSUME Inv, Follows, FollowInv, NEW g \in Groups,
           HandleFlowWithGroup(g) \/ SetMembersOfNewFlow(g)
    PROVE  GroupFollows(g)'
<1>1. Local(g) /\ job[g] # NoJob /\ olt'[g] = olt[g] /\ SameStore(g)
  BY HandleFlowWithGroupEffect, SetMembersOfNewFlowEffect DEF Inv
<1>2. /\ Typed /\ JobsTyped /\ Underway(g) /\ GroupFollows(g) /\ ~May("kv")
      /\ queueMap' = queueMap /\ scenario' = scenario /\ Doing(g).op = job[g].op
  BY <1>1, FollowContext
<1>3. job[g].op = "addflow" /\ Doing(g).op = "addflow" /\ (g \in flows => g \in flows')
  BY <1>1, <1>2, HandleFlowWithGroupEffect, SetMembersOfNewFlowEffect, StageFollows DEF SameFlow
<1>4. CASE Fails(g)
  BY <1>1, <1>2, <1>3, <1>4, FailsFollow
<1>5. CASE g \in flows' /\ Moves(g, "getcached")
  <2>1. Progress(g)'
    BY <1>3, <1>5 DEF Progress, Moves, GoesTo, Building
  <2>. QED  BY <1>1, <1>2, <1>3, <1>5, <2>1, GoesToFollow DEF Moves
<1>6. CASE /\ SetMembersOfNewFlow(g) /\ kv["cached"][g] # None
           /\ GoesTo(g, "modify", kv["cached"][g], job[g].new, job[g].current, job[g].failed)
  <2>1. core[g].ports # None /\ ~core[g].flow
    BY <1>1, <1>2, <1>3 DEF Underway, Possible
  <2>2. kv["cached"][g] = core[g].ports
    BY <1>2, <1>3, <1>6, <2>1 DEF GroupFollows, Flowless
  <2>3. g \in flows'
    BY <1>1, <1>2, <1>3, <1>6, SetMembersOfNewFlowEffect DEF GroupFollows, Progress
  <2>4. Progress(g)'
    BY <1>3, <1>6, <2>2, <2>3 DEF Progress, GoesTo, Building
  <2>. QED  BY <1>1, <1>2, <1>3, <1>6, <2>4, GoesToFollow
<1>. QED  BY <1>2, <1>4, <1>5, <1>6, HandleFlowWithGroupEffect, SetMembersOfNewFlowEffect

LEMMA ModifyGroupFollows ==
    ASSUME Inv, Follows, FollowInv, NEW g \in Groups, ModifyGroup(g) \/ GetCurrentGroup(g)
    PROVE  GroupFollows(g)'
<1>1. /\ Local(g) /\ job[g] # NoJob /\ olt'[g] = olt[g] /\ SameStore(g) /\ SameFlow(g)
      /\ job[g].at \in {"modify", "current"}
  BY ModifyGroupEffect, GetCurrentGroupEffect, Zenon DEF Inv
<1>2. /\ Typed /\ JobsTyped /\ GroupFollows(g) /\ ~May("kv")
      /\ queueMap' = queueMap /\ scenario' = scenario
  BY <1>1, FollowContext
<1>3. job[g].want # None /\ kv'["stored"][g] = kv["stored"][g]
  BY <1>1, <1>2, JobFields, MulticastAssumption DEF SameStore, Tables
<1>4. Built(job[g].want) = job[g].want \cap queueMap
  BY <1>3 DEF Built
<1>5. Built(kv["stored"][g])' = Built(kv["stored"][g]) /\ \A ports : Built(ports)' = Built(ports)
  BY <1>2, <1>3 DEF Built
<1>6. CASE ModifyGroup(g)
  <2>1. /\ GoesTo(g, "current", job[g].want, job[g].want \cap queueMap, job[g].current, job[g].failed)
        /\ job[g].at = "modify"
    BY <1>2, <1>6, ModifyGroupEffect
  <2>2. Progress(g)'
    BY <1>1, <1>2, <1>4, <1>5, <2>1 DEF GroupFollows, Progress, GoesTo, Building, SameFlow, Built
  <2>. QED  BY <1>1, <1>2, <2>1, <2>2, GoesToFollow DEF SameFlow
<1>7. CASE GetCurrentGroup(g)
  <2>1. /\ GoesTo(g, "addmembers", job[g].want, job[g].new, Built(kv["stored"][g]), job[g].failed)
        /\ job[g].at = "current"
    BY <1>2, <1>7, GetCurrentGroupEffect
  <2>2. job[g].new = Built(job[g].want)
    BY <1>1, <1>2, <2>1 DEF GroupFollows, Progress, Building
  <2>3. Progress(g)'
    BY <1>1, <1>2, <1>5, <2>1, <2>2 DEF GroupFollows, Progress, GoesTo, Building, SameFlow
  <2>. QED  BY <1>1, <1>2, <2>1, <2>3, GoesToFollow DEF SameFlow
<1>. QED  BY <1>6, <1>7

LEMMA RemoveFlowFollows ==
    ASSUME Inv, Follows, FollowInv, NEW g \in Groups, ClearMulticastFlowFromResourceManager(g)
    PROVE  GroupFollows(g)'
<1>1. Local(g) /\ job[g] # NoJob /\ olt'[g] = olt[g] /\ SameStore(g) /\ job[g].at = "removeflow"
  BY RemoveFlowEffect DEF Inv
<1>2. /\ Typed /\ JobsTyped /\ Underway(g) /\ GroupFollows(g)
      /\ queueMap' = queueMap /\ scenario' = scenario /\ Doing(g).op = job[g].op
  BY <1>1, FollowContext
<1>3. job[g].op = "removeflow" /\ Doing(g).op = "removeflow"
  BY <1>1, <1>2, StageFollows
<1>4. CASE Fails(g)
  BY <1>1, <1>2, <1>3, <1>4, FailsFollow
<1>5. CASE Succeeds(g)
  <2>1. /\ core[g].flow /\ core[g].ports # None
    BY <1>1, <1>2, <1>3 DEF Underway, Possible
  <2>2. /\ kv["stored"][g] = core[g].ports /\ kv["cached"][g] = None /\ olt[g] # None
        /\ olt[g] = Built(core[g].ports)
    BY <1>2, <1>3, <2>1 DEF GroupFollows, Flowing
  <2>3. /\ job'[g] = NoJob /\ core'[g].failed = NoJob /\ core'[g].ports = core[g].ports
        /\ ~core'[g].flow
    BY <1>3, <1>5 DEF Succeeds
  <2>4. Doing(g)' = NoJob /\ Built(core[g].ports)' = Built(core[g].ports)
    BY <1>2, <2>3 DEF Doing, Built
  <2>5. kv'["stored"][g] = core[g].ports /\ kv'["cached"][g] = None
    BY <1>1, <2>2 DEF SameStore, Tables
  <2>. QED  BY <1>1, <2>1, <2>2, <2>3, <2>4, <2>5
            DEF GroupFollows, Repeated, Absent, Flowless, Flowing, Progress
<1>. QED  BY <1>2, <1>4, <1>5, RemoveFlowEffect

(* What the members are while a modification sends its differences: between *)
(* those of the stored group and of the group wanted.                       *)
Between(g) ==
    /\ olt[g] # None /\ olt[g] \subseteq job[g].new \cup job[g].current
    /\ job[g].new \cap job[g].current \subseteq olt[g]
    /\ job[g].op = "addflow" =>
          olt[g] \subseteq job[g].new /\ (job[g].current = {} \/ job[g].current = job[g].new)

LEMMA MembersBetween ==
    ASSUME NEW g \in Groups, JobsTyped, job[g] # NoJob, Underway(g), GroupFollows(g), Follows,
           job[g].at \in {"addmembers", "removemembers", "save"}
    PROVE  Between(g) /\ (job[g].op = "addflow" \/ (job[g].op = "modify" /\ core[g].flow))
<1>1. Doing(g).op = job[g].op /\ Doing(g).ports = job[g].ports
  BY DEF Doing
<1>2. /\ job[g].op \in {"modify", "addflow"} /\ job[g].new = Built(job[g].want)
      /\ job[g].current = Built(kv["stored"][g])
  BY StageFollows DEF Building, GroupFollows, Progress
<1>3. CASE job[g].op = "addflow"
  <2>1. core[g].ports # None /\ ~core[g].flow /\ job[g].want = core[g].ports
    BY <1>3 DEF Underway, Possible, GroupFollows, Progress, Building
  <2>2. /\ olt[g] # None /\ olt[g] \subseteq Built(core[g].ports)
        /\ kv["stored"][g] \in {None, core[g].ports}
        /\ kv["stored"][g] # None => olt[g] = Built(core[g].ports)
    BY <1>1, <1>3, <2>1 DEF GroupFollows, Flowless
  <2>3. kv["stored"][g] = None => job[g].current = {}
    BY <1>2 DEF Built
  <2>. QED  BY <1>2, <1>3, <2>1, <2>2, <2>3 DEF Between
<1>4. CASE job[g].op = "modify"
  <2>1. core[g].flow /\ job[g].want = job[g].ports
    BY <1>4 DEF Underway, Possible, Follows
  <2>2. /\ kv["stored"][g] = core[g].ports /\ olt[g] # None
        /\ Built(core[g].ports) \cap Built(job[g].ports) \subseteq olt[g]
        /\ olt[g] \subseteq Built(core[g].ports) \cup Built(job[g].ports)
    BY <1>1, <1>4, <2>1 DEF GroupFollows, Flowing
  <2>. QED  BY <1>2, <1>4, <2>1, <2>2 DEF Between
<1>. QED  BY <1>2, <1>3, <1>4

(* If they are so afterwards, the group is followed as far as before.       *)
LEMMA SendsFollow ==
    ASSUME NEW g \in Groups, JobsTyped, job[g] # NoJob, Underway(g), GroupFollows(g), Follows,
           job[g].at \in {"addmembers", "removemembers"}, Between(g)', SameStore(g), SameFlow(g),
           queueMap' = queueMap, scenario' = scenario,
           job[g].op = "addflow" /\ kv["stored"][g] # None => olt'[g] = olt[g],
           NEW next \in {"removemembers", "save"}, NEW failed,
           GoesTo(g, next, job[g].want, job[g].new, job[g].current, failed),
           next = "removemembers" /\ ~failed => job[g].new \subseteq olt'[g],
           next = "save" /\ ~failed => olt'[g] = job[g].new
    PROVE  GroupFollows(g)'
<1>1. SameRequest(g) /\ Repeated(g)'
  BY GoesToSame DEF GroupFollows
<1>2. Doing(g).op = job[g].op /\ Doing(g).ports = job[g].ports
  BY DEF Doing
<1>3. /\ job[g].op \in {"modify", "addflow"} /\ job[g].new = Built(job[g].want)
      /\ job[g].current = Built(kv["stored"][g])
  BY StageFollows DEF Building, GroupFollows, Progress
<1>4. \A ports : Built(ports)' = Built(ports)
  BY DEF Built
<1>5. kv'["stored"][g] = kv["stored"][g] /\ kv'["cached"][g] = kv["cached"][g] /\ core'[g] = core[g]
  BY DEF SameStore, Tables, GoesTo
<1>6. /\ olt'[g] # None /\ olt'[g] \subseteq job[g].new \cup job[g].current
      /\ job[g].new \cap job[g].current \subseteq olt'[g]
      /\ job[g].op = "addflow" => olt'[g] \subseteq job[g].new
  BY DEF Between, GoesTo
<1>7. Progress(g)'
  <2>1. /\ Built(job[g].want)' = Built(job[g].want)
        /\ Built(kv["stored"][g])' = Built(kv["stored"][g])
    BY Zenon, <1>5 DEF Built, GoesTo
  <2>2. job[g].op = "addflow" => g \in flows' /\ job[g].want = core[g].ports
    BY DEF GroupFollows, Progress, Building, SameFlow
  <2>. QED  BY <1>3, <1>5, <2>1, <2>2 DEF Progress, GoesTo, Building
<1>8. core[g].ports # None
  BY <1>3 DEF Underway, Possible
<1>9. Flowless(g)'
  <2>1. CASE job[g].op = "addflow"
    <3>1. job[g].want = core[g].ports /\ ~core[g].flow
      BY <2>1 DEF GroupFollows, Progress, Building, Underway, Possible
    <3>2. Built(core[g].ports)' = Built(core[g].ports) /\ Doing(g)' = Doing(g)
      BY Zenon, <1>1, <1>5 DEF Built, SameRequest
    <3>. QED  BY Zenon, <1>2, <1>3, <1>5, <1>6, <1>8, <2>1, <3>1, <3>2 DEF GroupFollows, Flowless
  <2>2. CASE job[g].op = "modify"
    BY <1>5, <2>2 DEF Flowless, Underway, Possible, Follows
  <2>. QED  BY Zenon, <1>3, <2>1, <2>2
<1>10. Flowing(g)'
  <2>1. CASE job[g].op = "addflow"
    BY <1>5, <2>1 DEF Flowing, Underway, Possible
  <2>2. CASE job[g].op = "modify"
    <3>1. core[g].flow /\ job[g].want = job[g].ports
      BY <2>2 DEF Underway, Possible, Follows
    <3>2. kv["stored"][g] = core[g].ports /\ kv["cached"][g] = None /\ g \in flows
      BY <1>2, <2>2, <3>1 DEF GroupFollows, Flowing
    <3>3. /\ Built(core[g].ports)' = Built(core[g].ports) /\ Doing(g)' = Doing(g)
          /\ Built(Doing(g).ports)' = Built(job[g].ports)
      BY <1>1, <1>2, <1>5 DEF Built, SameRequest
    <3>. QED  BY Zenon, <1>2, <1>3, <1>5, <1>6, <2>2, <3>1, <3>2, <3>3 DEF Flowing, SameFlow
  <2>. QED  BY <1>3, <2>1, <2>2
<1>. QED  BY <1>1, <1>5, <1>7, <1>8, <1>9, <1>10 DEF GroupFollows, Absent

LEMMA AddMembersFollows ==
    ASSUME Inv, Follows, FollowInv, NEW g \in Groups, AddMembers(g)
    PROVE  GroupFollows(g)'
<1>1. Local(g) /\ job[g] # NoJob /\ job[g].at = "addmembers" /\ SameStore(g) /\ SameFlow(g)
  BY AddMembersEffect, Zenon DEF Inv
<1>2. /\ Typed /\ JobsTyped /\ Underway(g) /\ GroupFollows(g)
      /\ queueMap' = queueMap /\ scenario' = scenario
  BY <1>1, FollowContext
<1>3. Between(g) /\ (job[g].op = "addflow" => job[g].want = core[g].ports)
      /\ job[g].new = Built(job[g].want)
  BY <1>1, <1>2, MembersBetween DEF GroupFollows, Progress, Building
<1>4. job[g].op = "addflow" /\ kv["stored"][g] # None =>
         job[g].current = job[g].new /\ olt[g] = job[g].new
  <2>1. SUFFICES ASSUME job[g].op = "addflow", kv["stored"][g] # None
                 PROVE  job[g].current = job[g].new /\ olt[g] = job[g].new
    OBVIOUS
  <2>2. core[g].ports # None /\ ~core[g].flow /\ Doing(g).op = "addflow"
    BY <1>1, <1>2, <2>1 DEF Underway, Possible, Doing
  <2>3. kv["stored"][g] = core[g].ports /\ olt[g] = Built(core[g].ports)
    BY <1>2, <2>1, <2>2 DEF GroupFollows, Flowless
  <2>4. job[g].current = Built(kv["stored"][g])
    BY <1>1, <1>2 DEF GroupFollows, Progress, Building
  <2>. QED  BY <1>3, <2>1, <2>3, <2>4
<1>5. PICK members : members = job[g].new \ job[g].current
  BY Zenon
<1>6. Sends(g, members, olt[g] \cup members, "removemembers")
  BY <1>2, <1>5, AddMembersEffect
<1>7. /\ olt'[g] = olt[g] \/ olt'[g] = olt[g] \cup members
      /\ \E failed \in {job[g].failed, TRUE} :
           /\ GoesTo(g, "removemembers", job[g].want, job[g].new, job[g].current, failed)
           /\ ~failed => olt'[g] = olt[g] \cup members
  BY <1>6, Zenon DEF Sends, Moves
<1>8. olt[g] \in SUBSET Pons /\ job[g].new \in SUBSET Pons
  BY <1>1, <1>2, <1>3, JobFields DEF Between, Typed, GroupsTyped, Members
<1>9. olt'[g] \in SUBSET Pons /\ olt'[g] # None
  BY Zenon, <1>5, <1>7, <1>8, MulticastAssumption
<1>10. Between(g)'
  BY <1>3, <1>5, <1>7, <1>9 DEF Between, GoesTo
<1>11. job[g].op = "addflow" /\ kv["stored"][g] # None => olt'[g] = olt[g]
  BY <1>4, <1>5, <1>7
<1>12. job[g].new \subseteq olt[g] \cup members
  BY <1>3, <1>5 DEF Between
<1>. QED  BY <1>1, <1>2, <1>7, <1>10, <1>11, <1>12, SendsFollow, Zenon

LEMMA RemoveMembersFollows ==
    ASSUME Inv, Follows, FollowInv, NEW g \in Groups, RemoveMembers(g)
    PROVE  GroupFollows(g)'
<1>1. Local(g) /\ job[g] # NoJob /\ job[g].at = "removemembers" /\ SameStore(g) /\ SameFlow(g)
  BY RemoveMembersEffect, Zenon DEF Inv
<1>2. /\ Typed /\ JobsTyped /\ Underway(g) /\ GroupFollows(g)
      /\ queueMap' = queueMap /\ scenario' = scenario
  BY Zenon, <1>1, FollowContext
<1>3. Between(g) /\ (~job[g].failed => job[g].new \subseteq olt[g])
  BY <1>1, <1>2, MembersBetween DEF GroupFollows, Progress
<1>4. PICK members : members = job[g].current \ job[g].new
  BY Zenon
<1>5. Sends(g, members, olt[g] \ members, "save")
  BY <1>2, <1>4, RemoveMembersEffect
<1>6. /\ olt'[g] = olt[g] \/ olt'[g] = olt[g] \ members
      /\ \E failed \in {job[g].failed, TRUE} :
           /\ GoesTo(g, "save", job[g].want, job[g].new, job[g].current, failed)
           /\ ~failed => ~job[g].failed /\ olt'[g] = olt[g] \ members
  BY <1>5, Zenon DEF Sends, Moves
<1>7. olt[g] \in SUBSET Pons
  BY <1>2, <1>3 DEF Between, Typed, GroupsTyped, Members
<1>8. olt'[g] \in SUBSET Pons /\ olt'[g] # None
  BY <1>6, <1>7, MulticastAssumption
<1>9. job[g].op = "addflow" => olt'[g] = olt[g]
  BY <1>3, <1>4, <1>6 DEF Between
<1>10. Between(g)'
  BY <1>3, <1>4, <1>6, <1>8 DEF Between, GoesTo
<1>11. ~job[g].failed => olt[g] \ members = job[g].new
  BY <1>3, <1>4 DEF Between
<1>. QED  BY <1>1, <1>2, <1>6, <1>9, <1>10, <1>11, SendsFollow, Zenon

LEMMA SaveGroupFollows ==
    ASSUME Inv, Follows, FollowInv, NEW g \in Groups, SaveGroup(g)
    PROVE  GroupFollows(g)'
<1>1. /\ Local(g) /\ job[g] # NoJob /\ job[g].at = "save" /\ olt'[g] = olt[g] /\ SameFlow(g)
  BY SaveGroupEffect DEF Inv
<1>2. /\ Typed /\ JobsTyped /\ Underway(g) /\ GroupFollows(g)
      /\ queueMap' = queueMap /\ scenario' = scenario
      /\ Doing(g).op = job[g].op /\ Doing(g).ports = job[g].ports
  BY <1>1, FollowContext
<1>3. CASE SameStore(g) /\ Fails(g)
  BY <1>1, <1>2, <1>3, FailsFollow DEF SameFlow
<1>4. ASSUME ~job[g].failed, Writes(g, "stored", job[g].want)
      PROVE  /\ olt'[g] = Built(job[g].want) /\ job[g].want # None /\ olt'[g] # None
             /\ kv'["stored"][g] = job[g].want /\ kv'["cached"][g] = kv["cached"][g]
             /\ \A ports : Built(ports)' = Built(ports)
  <2>1. olt'[g] = Built(job[g].want)
    BY Zenon, <1>1, <1>2, <1>4 DEF GroupFollows, Progress, Building
  <2>2. job[g].want # None /\ olt'[g] # None
    BY <1>1, <1>2, JobFields, MembersBetween, MulticastAssumption DEF Between
  <2>. QED  BY Zenon, <1>2, <1>4, <2>1, <2>2 DEF Writes, Tables, Built
<1>5. CASE /\ ~job[g].failed /\ Writes(g, "stored", job[g].want)
           /\ job[g].op = "addflow" /\ Moves(g, "uncache")
  <2>1. /\ core[g].ports # None /\ ~core[g].flow /\ g \in flows /\ job[g].want = core[g].ports
    BY Zenon, <1>1, <1>2, <1>5 DEF Underway, Possible, GroupFollows, Progress, Building
  <2>2. kv["cached"][g] \in {None, core[g].ports}
    BY Zenon, <1>2, <1>5, <2>1 DEF GroupFollows, Flowless
  <2>3. core'[g] = core[g] /\ Doing(g)' = Doing(g)
    BY <1>1, <1>5 DEF Moves, GoesTo, Doing
  <2>4. Built(core[g].ports)' = Built(core[g].ports)
    BY <1>2, <2>3 DEF Built
  <2>5. Progress(g)'
    BY Zenon, <1>1, <1>4, <1>5, <2>1, <2>3 DEF Progress, Moves, GoesTo, Building, SameFlow
  <2>6. Repeated(g)'
    BY Zenon, <1>2, <2>3 DEF GroupFollows, Repeated, Possible
  <2>7. Absent(g)' /\ Flowing(g)'
    BY <2>1, <2>3 DEF Absent, Flowing
  <2>8. Flowless(g)'
    BY <1>4, <1>5, <2>1, <2>2, <2>3, <2>4 DEF Flowless
  <2>. QED  BY Zenon, <2>5, <2>6, <2>7, <2>8 DEF GroupFollows
<1>6. CASE /\ ~job[g].failed /\ Writes(g, "stored", job[g].want)
           /\ job[g].op # "addflow" /\ Succeeds(g)
  <2>1. job[g].op = "modify"
    BY <1>1, <1>2, <1>6, StageFollows DEF Building
  <2>2. core[g].flow /\ job[g].want = job[g].ports
    BY Zenon, <1>1, <1>2, <2>1 DEF Underway, Possible, Follows
  <2>3. kv["cached"][g] = None /\ g \in flows
    BY <1>2, <2>1, <2>2 DEF GroupFollows, Flowing
  <2>4. /\ job'[g] = NoJob /\ core'[g].failed = NoJob /\ core'[g].ports = job[g].ports
        /\ core'[g].flow
    BY <1>6, <2>1, <2>2, Zenon DEF Succeeds
  <2>5. Doing(g)' = NoJob /\ Built(core[g].ports)' = Built(job[g].ports)
    BY <1>2, <2>4 DEF Doing, Built
  <2>. QED  BY Zenon, <1>1, <1>4, <1>6, <2>2, <2>3, <2>4, <2>5
            DEF GroupFollows, Repeated, Absent, Flowless, Flowing, Progress, SameFlow
<1>. QED  BY <1>2, <1>3, <1>5, <1>6, SaveGroupEffect

LEMMA RemoveCachedGroupFollows ==
    ASSUME Inv, Follows, FollowInv, NEW g \in Groups, RemoveCachedGroup(g)
    PROVE  GroupFollows(g)'
<1>1. /\ Local(g) /\ job[g] # NoJob /\ job[g].at = "uncache" /\ olt'[g] = olt[g] /\ SameFlow(g)
  BY RemoveCachedGroupEffect DEF Inv
<1>2. /\ Typed /\ JobsTyped /\ Underway(g) /\ GroupFollows(g) /\ ~May("kv")
      /\ queueMap' = queueMap /\ scenario' = scenario /\ Doing(g).op = job[g].op
  BY <1>1, FollowContext
<1>3. Writes(g, "cached", None) /\ Succeeds(g)
  BY <1>2, RemoveCachedGroupEffect
<1>4. job[g].op = "addflow"
  BY Zenon, <1>1, <1>2, StageFollows
<1>5. /\ core[g].ports # None /\ ~core[g].flow /\ g \in flows /\ kv["stored"][g] = core[g].ports
  BY Zenon, <1>1, <1>2, <1>4 DEF Underway, Possible, GroupFollows, Progress
<1>6. olt[g] # None /\ olt[g] = Built(core[g].ports)
  BY <1>2, <1>4, <1>5 DEF GroupFollows, Flowless
<1>7. kv'["stored"][g] = core[g].ports /\ kv'["cached"][g] = None
  BY <1>3, <1>5 DEF Writes, Tables
<1>8. /\ job'[g] = NoJob /\ core'[g].failed = NoJob /\ core'[g].ports = core[g].ports
      /\ core'[g].flow
  BY <1>3, <1>4 DEF Succeeds
<1>9. Doing(g)' = NoJob /\ Built(core[g].ports)' = Built(core[g].ports)
  BY <1>2, <1>8 DEF Doing, Built
<1>. QED  BY Zenon, <1>1, <1>5, <1>6, <1>7, <1>8, <1>9
          DEF GroupFollows, Repeated, Absent, Flowless, Flowing, Progress, SameFlow

LEMMA RequestFollows ==
    ASSUME Inv, Follows, FollowInv, NEW g \in Groups, NEW op \in Ops, NEW ports \in SUBSET Pons,
           Request(g, op, ports)
    PROVE  GroupFollows(g)'
<1>1. /\ Local(g) /\ SameStore(g) /\ SameFlow(g) /\ olt' = olt /\ job[g] = NoJob
      /\ Begins(g, op, ports) /\ Possible(core[g], op)
      /\ core[g].failed # NoJob => core[g].failed = [op |-> op, ports |-> ports]
  BY Zenon, RequestEffect DEF Inv, Follows
<1>2. GroupFollows(g) /\ queueMap' = queueMap /\ scenario' = scenario
  BY <1>1, FollowContext
<1>3. /\ Doing(g) = core[g].failed /\ Doing(g)' = [op |-> op, ports |-> ports]
      /\ core'[g] = core[g]
  BY Zenon, <1>1 DEF Doing, Begins
<1>4. Repeated(g)'
  <2>1. Doing(g)'.op = op /\ Possible(core[g], op)'
    BY <1>1, <1>2, <1>3 DEF Possible
  <2>. QED  BY <1>1, <1>3, <2>1 DEF Repeated
<1>5. Progress(g)'
  BY <1>1 DEF Progress, Begins, Ops, Building
<1>6. CASE core[g].failed # NoJob
  <2>1. SameRequest(g)
    BY <1>1, <1>2, <1>3, <1>6 DEF SameRequest
  <2>. QED  BY Zenon, <1>1, <1>2, <1>4, <1>5, <2>1, StaysAbsent, StaysFlowless, StaysFlowing
            DEF GroupFollows, SameFlow
<1>7. CASE core[g].failed = NoJob
  <2>1. /\ Doing(g).op = "none"
        /\ kv'["stored"][g] = kv["stored"][g] /\ kv'["cached"][g] = kv["cached"][g]
    BY <1>1, <1>3, <1>7, NoJobOp DEF SameStore, Tables
  <2>2. Built(core[g].ports)' = Built(core[g].ports)
    BY Zenon, <1>2, <1>3 DEF Built
  <2>3. Absent(g)'
    BY <1>1, <1>2, <1>3, <2>1 DEF GroupFollows, Absent
  <2>4. Flowless(g)'
    BY Zenon, <1>1, <1>2, <1>3, <2>1, <2>2 DEF GroupFollows, Flowless
  <2>5. Flowing(g)'
    BY Zenon, <1>1, <1>2, <1>3, <2>1, <2>2 DEF GroupFollows, Flowing, SameFlow
  <2>. QED  BY Zenon, <1>4, <1>5, <2>3, <2>4, <2>5 DEF GroupFollows
<1>. QED  BY <1>6, <1>7

LEMMA GroupStepFollows ==
    ASSUME Inv, Follows, FollowInv, NEW g \in Groups, GroupStep(g)
    PROVE  FollowInv'
<1>1. GroupFollows(g)'
  BY AddGroupFollows, DeleteGroupFollows, FlowFollows, ModifyGroupFollows, RemoveFlowFollows,
     AddMembersFollows, RemoveMembersFollows, SaveGroupFollows, RemoveCachedGroupFollows
     DEF GroupStep
<1>. QED  BY <1>1, GroupStepUnderway, FollowElsewhere

-------------------------------------------------------------------------------
(* A new process. *)

LEMMA RestartTyped ==
    ASSUME Typed, Restart
    PROVE  Typed' /\ scenario' = scenario
<1>1. scenario' = scenario /\ FaultsTyped'
  BY FaultEffect DEF Restart
<1>2. [at |-> "idle", val |-> {}] \in Adder
  BY DEF Adder
<1>3. QueuesTyped'
  BY <1>2 DEF Typed, QueuesTyped, Restart
<1>4. StoreTyped'
  <2>1. mem' = [t \in Tables |-> [g \in Groups |-> None]] /\ kv' = kv
    BY DEF Restart
  <2>2. None \in Members
    BY DEF Members
  <2>3. mem' \in [Tables -> [Groups -> Members]] /\ \A t \in Tables, g \in Groups : mem'[t][g] = None
    BY <2>1, <2>2
  <2>. QED  BY <2>1, <2>3, TypedParts DEF StoreTyped, Typed
<1>5. ASSUME NEW g \in Groups, job[g] # NoJob
      PROVE  [core[g] EXCEPT !.failed = [op |-> job[g].op, ports |-> job[g].ports]] \in Held
  <2>1. [op |-> job[g].op, ports |-> job[g].ports] \in Sent /\ core[g] \in Held
    BY <1>5, TypedParts, JobFields DEF Typed, Sent, JobsTyped
  <2>. QED  BY <2>1 DEF Held
<1>6. JobsTyped'
  <2>1. job' \in [Groups -> {NoJob} \cup Job]
    BY DEF Restart
  <2>2. \A g \in Groups : core[g] \in Held
    BY TypedParts DEF Typed, JobsTyped
  <2>3. core' \in [Groups -> Held]
    BY <1>5, <2>2 DEF Restart
  <2>. QED  BY <2>1, <2>3 DEF JobsTyped
<1>7. OltTyped'
  BY TypedParts DEF Typed, OltTyped, Restart
<1>8. GroupsTyped'
  BY <1>4, <1>6, <1>7, TypedParts DEF GroupsTyped, JobsTyped, StoreTyped, OltTyped
<1>. QED  BY <1>1, <1>3, <1>8 DEF Typed

LEMMA RestartFails ==
    ASSUME Typed, Restart, NEW g \in Groups
    PROVE  /\ SameStore(g) /\ SameFlow(g) /\ olt' = olt /\ scenario' = scenario /\ job'[g] = NoJob
           /\ core'[g].ports = core[g].ports /\ core'[g].flow = core[g].flow
           /\ core'[g].failed = Doing(g) /\ Doing(g)' = Doing(g)
<1>1. SameStore(g) /\ SameFlow(g) /\ olt' = olt /\ scenario' = scenario /\ job'[g] = NoJob
  BY DEF Restart, SameStore, SameFlow
<1>2. core'[g] = IF job[g] = NoJob THEN core[g]
                 ELSE [core[g] EXCEPT !.failed = [op |-> job[g].op, ports |-> job[g].ports]]
  BY DEF Restart
<1>3. core[g] \in Held
  BY TypedParts DEF Typed, JobsTyped
<1>4. /\ core'[g].ports = core[g].ports /\ core'[g].flow = core[g].flow
      /\ core'[g].failed = Doing(g)
  BY <1>2, <1>3 DEF Held, Doing
<1>. QED  BY <1>1, <1>4 DEF Doing

LEMMA RestartInv ==
    ASSUME Inv, Restart
    PROVE  Inv'
<1>1. Typed /\ Typed' /\ scenario' = scenario
  BY RestartTyped DEF Inv
<1>2. /\ "crash" \in scenario.kinds /\ queueMap' = kvQueues /\ kvQueues' = kvQueues
      /\ \A p \in Pons : adder'[p].at = "idle"
      /\ \A p \in Pons \ {First} : local'[p] = {} /\ ~loaded'[p]
  BY Zenon DEF Restart, May
<1>3. \A g \in Groups : Underway(g)'
  BY <1>1, RestartFails DEF Inv, Underway
<1>4. Turns' => TurnsInv'
  <2>1. SUFFICES ASSUME Turns'  PROVE TurnsInv'
    OBVIOUS
  <2>2. First \notin scenario.more /\ scenario.more \subseteq Pons
    BY <1>1, <1>2, <2>1, MulticastAssumption DEF Turns, Typed, QueuesTyped
  <2>3. \A p \in scenario.more : p \in Pons \ {First}
    BY <2>2
  <2>4. \A p \in scenario'.more \ queueMap' : Unread(p)'
    BY <1>1, <1>2, <2>3 DEF Unread
  <2>. QED  BY <1>2, <2>4 DEF TurnsInv
<1>5. ASSUME scenario.more = {}, Fixed  PROVE Fixed' /\ queueMap' = queueMap
  BY <1>2, <1>5 DEF Fixed
<1>6. Known' => KnownInv'
  <2>1. SUFFICES ASSUME Known'  PROVE KnownInv'
    OBVIOUS
  <2>2. scenario.more = {} /\ KnownInv
    BY <1>1, <1>2, <2>1 DEF Known, Inv
  <2>3. Fixed' /\ queueMap' = queueMap
    BY <1>5, <2>2 DEF KnownInv
  <2>4. \A g \in Groups : KnownMembers(g)'
    BY <1>1, <2>2, <2>3, RestartFails DEF KnownInv, KnownMembers
  <2>. QED  BY <2>3, <2>4 DEF KnownInv
<1>7. Follows' => FollowInv'
  <2>1. SUFFICES ASSUME Follows'  PROVE FollowInv'
    OBVIOUS
  <2>2. Follows /\ FollowInv /\ Fixed' /\ queueMap' = queueMap
    BY <1>1, <1>5, <2>1 DEF Follows, Inv, FollowInv
  <2>3. ASSUME NEW g \in Groups  PROVE GroupFollows(g)'
    <3>1. GroupFollows(g) /\ SameRequest(g)
      BY Zenon, <1>1, <2>2, RestartFails DEF FollowInv, GroupFollows, SameRequest
    <3>2. Repeated(g)' /\ Progress(g)'
      BY Zenon, <1>1, <3>1, RestartFails DEF GroupFollows, Repeated, Progress, Possible
    <3>3. Absent(g)' /\ Flowless(g)' /\ Flowing(g)'
      BY <1>1, <3>1, RestartFails, StaysAbsent, StaysFlowless, StaysFlowing
         DEF GroupFollows, SameFlow
    <3>. QED  BY <3>2, <3>3 DEF GroupFollows
  <2>. QED  BY <2>2, <2>3 DEF FollowInv, GroupFollows
<1>. QED  BY <1>1, <1>3, <1>4, <1>6, <1>7 DEF Inv

-------------------------------------------------------------------------------
(* The invariant. *)

LEMMA InitInv == Init => Inv
<1>1. SUFFICES ASSUME Init  PROVE Inv
  OBVIOUS
<1>2. /\ scenario \in Scenarios /\ scenario.queues \in SUBSET Pons
      /\ scenario.more \in SUBSET Pons /\ scenario.left \in Nat
  BY <1>1, MulticastAssumption DEF Init
<1>3. [at |-> "idle", val |-> {}] \in Adder
  BY DEF Adder
<1>4. QueuesTyped
  BY <1>1, <1>2, <1>3 DEF QueuesTyped, Init
<1>5. None \in Members /\ NoJob \in {NoJob} \cup Sent
  BY DEF Members
<1>6. [ports |-> None, flow |-> FALSE, failed |-> NoJob] \in Held
  BY <1>5 DEF Held
<1>7. GroupsTyped
  BY <1>1, <1>5, <1>6 DEF GroupsTyped, Init
<1>8. Typed
  <2>1. left = scenario.left
    BY <1>1 DEF Init
  <2>2. FaultsTyped
    BY <1>2, <2>1 DEF FaultsTyped
  <2>. QED  BY Zenon, <1>4, <1>7, <2>2 DEF Typed
<1>9. \A g \in Groups : /\ job[g] = NoJob /\ core[g].ports = None /\ ~core[g].flow
                        /\ core[g].failed = NoJob /\ olt[g] = None
                        /\ kv["stored"][g] = None
  BY <1>1 DEF Init, Tables
<1>10. \A g \in Groups : Underway(g)
  BY <1>9 DEF Underway
<1>11. Fixed
  BY <1>1 DEF Init, Fixed
<1>12. Turns => TurnsInv
  <2>1. SUFFICES ASSUME Turns, NEW p \in scenario.more \ queueMap  PROVE Unread(p)
    BY <1>11 DEF TurnsInv, Fixed
  <2>2. p \in Pons /\ (p = First => scenario.queues = {})
    BY <1>2, <2>1 DEF Turns
  <2>. QED  BY <1>1, <2>2, Zenon DEF Unread, Init
<1>13. KnownInv
  BY Zenon, <1>9, <1>11 DEF KnownInv, KnownMembers
<1>14. FollowInv
  BY Zenon, <1>9, <1>11 DEF FollowInv, Repeated, Absent, Flowless, Flowing, Progress, Doing
<1>. QED  BY <1>8, <1>10, <1>12, <1>13, <1>14 DEF Inv

\* what the conditions on the scenario and the queues rest on
LEMMA SameConditions ==
    ASSUME scenario' = scenario
    PROVE  (Turns' <=> Turns) /\ (Known' <=> Known) /\ (Follows' <=> Follows)
BY DEF Turns, Known, Follows

LEMMA SameQueues ==
    ASSUME UNCHANGED <<queueVars, scenario>>, TurnsInv
    PROVE  TurnsInv'
BY DEF queueVars, TurnsInv, Adding, Unread

LEMMA QueueStepInv ==
    ASSUME Inv, NEW p \in Pons, QueueStep(p)
    PROVE  Inv'
<1>1. Typed /\ Typed' /\ UNCHANGED <<groupVars, scenario>>
  BY QueueStepTyped DEF Inv
<1>2. \A g \in Groups : Underway(g)'
  BY <1>1 DEF Inv, Underway, Possible, groupVars
<1>3. Turns' => TurnsInv'
  BY <1>1, SameConditions, QueueStepTurns DEF Inv
<1>4. Known' => KnownInv'
  BY Zenon, <1>1, SameConditions, QueueStepKnown DEF Inv
<1>5. ~Follows'
  BY <1>1, SameConditions, QueueStepFixed DEF Inv, Follows, FollowInv
<1>. QED  BY <1>1, <1>2, <1>3, <1>4, <1>5 DEF Inv

LEMMA GroupStepInv ==
    ASSUME Inv, NEW g \in Groups, GroupStep(g)
    PROVE  Inv'
<1>1. Local(g) /\ \A h \in Groups : Underway(h)'
  BY GroupStepUnderway
<1>2. Typed' /\ UNCHANGED <<queueVars, scenario>>
  BY <1>1 DEF Local
<1>3. Turns' => TurnsInv'
  BY <1>2, SameConditions, SameQueues DEF Inv
<1>4. (Known' => KnownInv') /\ (Follows' => FollowInv')
  BY <1>2, SameConditions, GroupStepKnown, GroupStepFollows DEF Inv
<1>. QED  BY <1>1, <1>2, <1>3, <1>4 DEF Inv

LEMMA RequestInv ==
    ASSUME Inv, NEW g \in Groups, NEW op \in Ops, NEW ports \in SUBSET Pons, Request(g, op, ports)
    PROVE  Inv'
<1>1. Local(g) /\ \A h \in Groups : Underway(h)'
  BY RequestEffect, RequestUnderway, Zenon DEF Inv
<1>2. Typed' /\ UNCHANGED <<queueVars, scenario>>
  BY <1>1 DEF Local
<1>3. Turns' => TurnsInv'
  BY <1>2, SameConditions, SameQueues DEF Inv
<1>4. Known' => KnownInv'
  BY <1>2, SameConditions, RequestKnown DEF Inv
<1>5. Follows' => FollowInv'
  BY <1>1, <1>2, SameConditions, RequestFollows, FollowElsewhere DEF Inv
<1>. QED  BY <1>1, <1>2, <1>3, <1>4, <1>5 DEF Inv

LEMMA StutterInv ==
    ASSUME Inv, UNCHANGED vars
    PROVE  Inv'
<1>1. /\ UNCHANGED <<queueMap, local, loaded, adder, kvQueues>>
      /\ UNCHANGED <<mem, kv, olt, flows, job, core, left, scenario>>
  BY DEF vars, queueVars, groupVars
<1>2. Typed'
  BY <1>1 DEF Inv, Typed, QueuesTyped, GroupsTyped, FaultsTyped
<1>3. \A g \in Groups : Underway(g)'
  BY <1>1 DEF Inv, Underway, Possible
<1>4. Turns' => TurnsInv'
  BY <1>1, SameConditions, SameQueues DEF Inv, queueVars
<1>5. Known' => KnownInv'
  BY Zenon, <1>1, SameConditions DEF Inv, KnownInv, KnownMembers, Fixed
<1>6. Follows' => FollowInv'
  <2>1. SUFFICES ASSUME Follows, FollowInv  PROVE FollowInv'
    BY Zenon, <1>1, SameConditions DEF Inv
  <2>2. ASSUME NEW g \in Groups  PROVE GroupFollows(g)'
    <3>1. GroupFollows(g) /\ SameRequest(g)
      BY Zenon, <1>1, <2>1 DEF FollowInv, GroupFollows, SameRequest, SameStore, Doing
    <3>2. Repeated(g)'
      BY <1>1, <3>1 DEF GroupFollows, Repeated, SameRequest, Possible
    <3>. QED  BY Zenon, <1>1, <3>1, <3>2, StaysAbsent, StaysFlowless, StaysFlowing, StaysProgress
              DEF GroupFollows
  <2>. QED  BY <1>1, <2>1, <2>2 DEF FollowInv, GroupFollows, Fixed
<1>. QED  BY <1>2, <1>3, <1>4, <1>5, <1>6 DEF Inv

LEMMA NextInv == Inv /\ [Next]_vars => Inv'
<1>1. SUFFICES ASSUME Inv, [Next]_vars  PROVE Inv'
  OBVIOUS
<1>. QED  BY <1>1, QueueStepInv, GroupStepInv, RequestInv, RestartInv, StutterInv DEF Next

\* The invariant that the properties of the groups and of their queues follow from.
LEMMA GroupsInv == Spec => []Inv
BY InitInv, NextInv, PTL DEF Spec

-------------------------------------------------------------------------------
\* The variables have their types, and an entry of the groups' cache is that of the KV store:
\* AddFlowGroupToKVStore, RemoveFlowGroupFromKVStore and GetFlowGroupFromKVStore keep the two
\* together whatever is refused and wherever the process is stopped.
THEOREM MulticastTypeCorrect == Spec => []TypeOK
<1>1. Inv => TypeOK
  <2>1. SUFFICES ASSUME Inv  PROVE TypeOK
    OBVIOUS
  <2>2. QueuesTyped /\ GroupsTyped /\ FaultsTyped /\ JobsTyped
    BY <2>1, TypedParts DEF Inv, Typed
  <2>3. left \in 0..scenario.left
    <3>1. left \in Nat /\ left <= scenario.left /\ scenario.left \in Nat
      BY <2>2, MulticastAssumption DEF FaultsTyped, QueuesTyped
    <3>. QED  BY <3>1
  <2>4. \A p \in Pons : /\ adder[p].at \in {"idle", "load", "mark", "put"}
                        /\ adder[p].val \subseteq Pons
    BY <2>2 DEF QueuesTyped, Adder
  <2>5. \A t \in Tables, g \in Groups : /\ kv[t][g] = None \/ kv[t][g] \subseteq Pons
                                        /\ mem[t][g] \in {None, kv[t][g]}
    <3>1. \A t \in Tables, g \in Groups : kv[t][g] \in Members
      BY <2>2 DEF GroupsTyped
    <3>. QED  BY <2>2, <3>1 DEF GroupsTyped, Members
  <2>6. \A g \in Groups : olt[g] = None \/ olt[g] \subseteq Pons
    BY <2>2 DEF GroupsTyped, Members
  <2>7. \A g \in Groups : job[g] = NoJob \/ job[g].op \in Ops
    BY <2>2, JobFields
  <2>8. \A g \in Groups : /\ core[g].ports = None \/ core[g].ports \subseteq Pons
                          /\ core[g].flow \in BOOLEAN
    <3>1. \A g \in Groups : core[g].ports \in Members /\ core[g].flow \in BOOLEAN
      BY <2>2 DEF GroupsTyped, Held
    <3>. QED  BY <3>1 DEF Members
  <2>. QED  BY <2>2, <2>3, <2>4, <2>5, <2>6, <2>7, <2>8 DEF TypeOK, QueuesTyped, GroupsTyped
<1>. QED  BY <1>1, GroupsInv, PTL

\* The queues that pushSchedulerQueuesToDevice has made known are those that a new
\* process loads (LoadInterfaceToMulticastQueueMap), however many PON ports share the entry
\* that AddMcastQueueForIntf overwrites, if they take turns and the manager of the groups has
\* no old copy of it.
THEOREM QueuesAreStored == Spec => []QueuesStored
<1>1. Inv => QueuesStored
  BY DEF Inv, Turns, TurnsInv, QueuesStored, QueuesInStore
<1>. QED  BY <1>1, GroupsInv, PTL

\* Once the requests of a group are answered, the members that ModifyGroup has set on the OLT
\* are those of the group as the core holds it: calls refused, answers lost and restarts
\* between the two calls and the saving of the group are made good by repeating the request.
THEOREM MembersFollow == Spec => []MembersFollowGroup
<1>1. Inv => MembersFollowGroup
  <2>1. SUFFICES ASSUME Inv, Follows, NEW g \in Groups, Settled(g)
                 PROVE  g \in flows /\ olt[g] = core[g].ports \cap queueMap
    BY Zenon DEF MembersFollowGroup, Follows
  <2>2. Flowing(g) /\ core[g].flow /\ Doing(g).op = "none" /\ core[g].ports # None
    BY Zenon, <2>1, NoJobOp DEF Inv, FollowInv, Settled, Doing, Underway
  <2>. QED  BY <2>2 DEF Flowing, Built
<1>. QED  BY <1>1, GroupsInv, PTL

\* Of a group only the removal of its members, once a request is that far, changes the OLT.
LEMMA OnlyRemoval ==
    ASSUME Inv, [Next]_vars, NEW g \in Groups, At(g, "removemembers")
    PROVE  olt'[g] = olt[g] \/ RemoveMembers(g)
<1>1. CASE UNCHANGED vars
  BY <1>1 DEF vars, groupVars
<1>2. ASSUME NEW p \in Pons, QueueStep(p)  PROVE olt'[g] = olt[g]
  BY <1>2, QueueStepTyped DEF Inv, groupVars
<1>3. ASSUME NEW h \in Groups \ {g}, GroupStep(h)  PROVE olt'[g] = olt[g]
  BY <1>3, GroupStepUnderway DEF Local, Others
<1>4. CASE GroupStep(g)
  BY <1>4 DEF GroupStep, At, AddGroup, AddGroupToCache, DeleteGroup, DeleteGroupFromStore,
     ModifyGroup, GetCurrentGroup, AddMembers, SaveGroup, HandleFlowWithGroup,
     SetMembersOfNewFlow, RemoveCachedGroup, ClearMulticastFlowFromResourceManager
<1>5. ASSUME NEW h \in Groups, NEW op \in Ops, NEW ports \in SUBSET Pons, Request(h, op, ports)
      PROVE  olt'[g] = olt[g]
  BY <1>5 DEF Request
<1>6. CASE Restart
  BY <1>6 DEF Restart
<1>. QED  BY <1>1, <1>2, <1>3, <1>4, <1>5, <1>6 DEF Next

\* RemoveMembers takes away no port that a modified group keeps, whatever fails, and whatever
\* queues of other PON ports become known between the readings of interfaceToMcastQueueMap.
THEOREM KeptMembersServed == Spec => MembersNotInterrupted
<1> DEFINE Kept(g) ==
      (/\ scenario.more = {} \/ "crash" \notin scenario.kinds
       /\ core[g].flow /\ At(g, "removemembers") /\ olt[g] # None) =>
             (olt[g] \ olt'[g]) \cap core[g].ports \cap job[g].ports = {}
<1>1. ASSUME Inv, [Next]_vars, NEW g \in Groups  PROVE Kept(g)
  <2>1. SUFFICES ASSUME Known, core[g].flow, At(g, "removemembers"), olt[g] # None,
                        RemoveMembers(g)
                 PROVE  (olt[g] \ olt'[g]) \cap core[g].ports \cap job[g].ports = {}
    BY <1>1, OnlyRemoval DEF Known
  <2>2. /\ Typed /\ JobsTyped /\ Underway(g) /\ KnownMembers(g)
        /\ job[g] # NoJob /\ job[g].at = "removemembers"
    BY <1>1, <2>1, TypedParts DEF Inv, Typed, KnownInv, At
  <2>3. job[g].op \in {"modify", "addflow"}
    BY <2>2, StageFollows DEF Building
  <2>4. job[g].want = job[g].ports
    BY Zenon, <2>1, <2>2, <2>3 DEF Underway, Possible
  <2>5. olt[g] \cap job[g].ports \subseteq job[g].new
    BY <2>1, <2>2, <2>4 DEF KnownMembers, Building
  <2>6. PICK members : members = job[g].current \ job[g].new
    BY Zenon
  <2>7. Sends(g, members, olt[g] \ members, "save")
    BY <2>1, <2>2, <2>6, RemoveMembersEffect
  <2>8. olt'[g] = olt[g] \/ olt'[g] = olt[g] \ members
    BY <2>7, Zenon DEF Sends
  <2>. QED  BY Zenon, <2>5, <2>6, <2>8
<1>2. Inv /\ [Next]_vars => [\A g \in Groups : Kept(g)]_vars
  BY <1>1
<1>. QED  BY <1>2, GroupsInv, PTL DEF Spec, MembersNotInterrupted
===============================================================================

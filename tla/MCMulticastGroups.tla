--------------------------- MODULE MCMulticastGroups ---------------------------
(***************************************************************************)
(* Two PON ports and one group: queues that become known one by one, while *)
(* processes are stopped, or at once; a core that repeats what failed, or  *)
(* does not; modifications before the flow.  And three PON ports without a *)
(* group, the queue of one of which was known before the process started.  *)
(***************************************************************************)
EXTENDS MulticastGroups

Scenario(queues, serial, kinds, n, repeats, early) ==
    [queues |-> queues, more |-> Pons \ queues, serial |-> serial, kinds |-> kinds,
     left |-> n, repeats |-> repeats, early |-> early]

MCScenarios ==
    { Scenario(Pons, TRUE, {"rpc", "lost", "crash"}, 3, TRUE, FALSE),
      Scenario({}, TRUE, {}, 0, TRUE, FALSE),
      Scenario({First}, TRUE, {"crash"}, 2, TRUE, FALSE),
      Scenario({}, FALSE, {"rpc", "lost", "kv"}, 1, FALSE, FALSE),
      Scenario({First}, FALSE, {"crash", "kv"}, 1, TRUE, TRUE),
      Scenario({First}, FALSE, {"rpc", "lost", "kv"}, 1, FALSE, TRUE) }

MCLateQueues == { Scenario({p}, TRUE, {}, 0, TRUE, FALSE) : p \in Pons \ {First} }
===============================================================================

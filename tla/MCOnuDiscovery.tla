---------------------------- MODULE MCOnuDiscovery ----------------------------
(***************************************************************************)
(* Instances of OnuDiscovery: two ONUs and two PON ports.                  *)
(***************************************************************************)
EXTENDS OnuDiscovery

CONSTANTS s1, s2, p1, p2

OnPort1 == [s \in Sns |-> p1]

(* Errors of every step; deletions of devices; one ONU that is moved       *)
(* between two ports; and the two checks made before a discovery.          *)
AllScenarios ==
    {[attach |-> OnPort1, check |-> "off", faults |-> 3,
      kinds  |-> {"get", "id", "detect", "event", "child", "state", "gem", "activate", "ind",
                  "send", "admin", "disable"}],
     [attach |-> OnPort1, check |-> "off", faults |-> 2,
      kinds  |-> {"delete", "remove", "event", "gem", "restart", "info"}],
     [attach |-> [OnPort1 EXCEPT ![s2] = None], check |-> "off", faults |-> 3,
      kinds  |-> {"replug", "get", "id", "detect"}],
     [attach |-> OnPort1, check |-> "techprofile", faults |-> 3,
      kinds  |-> {"flow", "restart", "disable", "admin", "gem"}],
     [attach |-> OnPort1, check |-> "device", faults |-> 2,
      kinds  |-> {"admin", "restart", "event", "activate"}]}

ComingUp == {[attach |-> OnPort1, check |-> "off", faults |-> 2,
              kinds  |-> {"get", "id", "detect", "restart"}]}
===============================================================================

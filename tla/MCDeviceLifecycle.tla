--------------------------- MODULE MCDeviceLifecycle ---------------------------
(***************************************************************************)
(* Instances of DeviceLifecycle, and what a comment of the repository says *)
(* of the device's life, to be compared with what the code does.           *)
(***************************************************************************)
EXTENDS DeviceLifecycle

Adopted(faults, kinds) ==
    [origin |-> "adopt", rebooted |-> FALSE, faults |-> faults, kinds |-> kinds]

Restarted(origin, rebooted) ==
    [origin |-> origin, rebooted |-> rebooted, faults |-> 0, kinds |-> {}]

(* An adopted device with one disturbance of any kind or two failed RPCs,  *)
(* and restarts of the adapter for a device the core knows to be rebooted  *)
(* or disabled.                                                            *)
AnyStart == {Adopted(1, {"rpc", "core", "kv", "down", "reboot", "admin", "delete", "update"}),
             Adopted(2, {"rpc"}),
             Restarted("reconcile_rebooted", TRUE), Restarted("reconcile_rebooted", FALSE),
             Restarted("reconcile_disabled", FALSE)}

RecoveryStart == {Adopted(1, {"rpc", "down", "reboot"}),
                  Restarted("reconcile", TRUE), Restarted("reconcile", FALSE)}

RpcFailsOnce == {Adopted(1, {"rpc"})}

(* "If collector go routine is active, wait for it to stop": Handle, which *)
(* holds the transition mutex during that wait, returns.                   *)
HandleReturns == []<>(cs = Idle)
===============================================================================

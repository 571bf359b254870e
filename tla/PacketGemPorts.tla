---------------------------- MODULE PacketGemPorts ----------------------------
(***************************************************************************)
(* Packet-in and packet-out on UNI ports (device_handler.go, the flow      *)
(* manager and the resource manager): the gem port a packet came through   *)
(* is remembered under the port and the inner tag of the packet, in a map  *)
(* of the flow manager, in one of the resource manager and in the KV       *)
(* store, for the packets the controller sends to the port.                *)
(*                                                                         *)
(* Packets in are handled each by a goroutine of its own, packets out each *)
(* by a call of the core; a step is an access to one of the maps under its *)
(* lock, an access to the KV store or the call to the OLT.  A packet is    *)
(* the sequence of its tags, the outer one first.  Packets of NNI ports    *)
(* and LLDP packets, which are dropped, touch no state and are left out.   *)
(***************************************************************************)
EXTENDS Naturals, Sequences

CONSTANTS
    Ports,      \* UNI ports
    GemPorts,   \* a set of positive numbers
    Packets,    \* sequences of records [tpid, vlan]
    Procs,      \* goroutines and calls that handle packets
    Kinds,      \* what happens besides packets: "lost", the device of an ONU is deleted;
                \* "restart"; "kv", an access to the KV store fails
    MaxEvents   \* bound on these

VARIABLES
    packetInGemPort,         \* of the flow manager
    gemPortForPacketInInfo,  \* of the resource manager
    kv,                      \* the packet-in gem ports in the KV store
    proc,                    \* what each goroutine is at
    last,                    \* the gem port of the last packet in of a port and kind, 0 if none
    left

caches == <<packetInGemPort, gemPortForPacketInInfo, kv>>
vars == <<caches, proc, last, left>>

Idle == [at |-> "idle"]

\* getCTagFromPacket; 0 stands for "no vlanId found" (with priority 0)
GetCTagFromPacket(pkt) ==
    IF pkt = <<>> \/ Head(pkt).tpid # "0x8100" THEN 0
    ELSE IF Len(pkt) > 1 /\ pkt[2].tpid = "0x8100" THEN pkt[2].vlan
    ELSE pkt[1].vlan

\* PacketOutUNI slices out the outer one of two tags.
SliceOuterTag(pkt) ==
    IF /\ Len(pkt) > 1 /\ pkt[2].tpid = "0x8100"
       /\ Head(pkt).tpid \in {"0x88a8", "0x8100"}
      THEN Tail(pkt) ELSE pkt

Keys == Ports \X ({0} \cup {t.vlan : t \in UNION {{pkt[i] : i \in DOMAIN pkt} : pkt \in Packets}})
PktInKey(port, pkt) == <<port, GetCTagFromPacket(pkt)>>

Goto(i, p) == proc' = [proc EXCEPT ![i] = p]

\* Packets out of the port that are being handled now may use the old or the new gem port.
NothingDue(port) ==
    [j \in Procs |-> IF proc[j] # Idle /\ proc[j].port = port THEN [proc[j] EXCEPT !.due = 0]
                     ELSE proc[j]]
KvFails == "kv" \in Kinds /\ left > 0 /\ left' = left - 1
KvWorks == UNCHANGED left

-------------------------------------------------------------------------------
(* Packets in: handlePacketIndication, which then sends the packet to the    *)
(* core.                                                                     *)

UpdateGemPortForPktIn(i, port, pkt, gem) ==
    LET key == PktInKey(port, pkt) IN
    /\ proc[i] = Idle
    /\ proc' = [NothingDue(port) EXCEPT ![i] =
                  IF packetInGemPort[key] = gem THEN Idle
                  ELSE [at |-> "set", port |-> port, key |-> key, gem |-> gem, due |-> 0]]
    /\ last' = [last EXCEPT ![<<port, pkt>>] = gem]
    /\ UNCHANGED <<caches, left>>

SetPacketInGemPort(i) ==
    /\ proc[i].at = "set"
    /\ packetInGemPort' = [packetInGemPort EXCEPT ![proc[i].key] = proc[i].gem]
    /\ Goto(i, [proc[i] EXCEPT !.at = "put"])
    /\ UNCHANGED <<gemPortForPacketInInfo, kv, last, left>>

PutGemPortForPktIn(i) ==
    /\ proc[i].at = "put"
    /\ \/ /\ kv' = [kv EXCEPT ![proc[i].key] = proc[i].gem]
          /\ Goto(i, [proc[i] EXCEPT !.at = "cache"]) /\ KvWorks
       \/ Goto(i, Idle) /\ KvFails /\ UNCHANGED kv
    /\ UNCHANGED <<packetInGemPort, gemPortForPacketInInfo, last>>

CacheGemPortForPktIn(i) ==
    /\ proc[i].at = "cache"
    /\ gemPortForPacketInInfo' = [gemPortForPacketInInfo EXCEPT ![proc[i].key] = proc[i].gem]
    /\ Goto(i, Idle)
    /\ UNCHANGED <<packetInGemPort, kv, last, left>>

-------------------------------------------------------------------------------
(* Packets out. *)

\* due: the gem port of the last packet in of this kind, if its handling and that of the
\* others of the port is over
PacketOutUNI(i, port, pkt) ==
    LET key  == PktInKey(port, SliceOuterTag(pkt))
        due  == IF \E j \in Procs : proc[j] # Idle /\ proc[j].port = port
                  THEN 0 ELSE last[<<port, pkt>>]
        here == packetInGemPort[key] IN
    /\ proc[i] = Idle
    /\ Goto(i, [at |-> IF here # 0 THEN "send" ELSE "lookup",
                port |-> port, key |-> key, gem |-> here, due |-> due])
    /\ UNCHANGED <<caches, last, left>>

\* GetGemPortFromOnuPktIn
LookupGemPort(i) ==
    LET here == gemPortForPacketInInfo[proc[i].key] IN
    /\ proc[i].at = "lookup"
    /\ Goto(i, [proc[i] EXCEPT !.at = IF here # 0 THEN "fill" ELSE "get", !.gem = here])
    /\ UNCHANGED <<caches, last, left>>

GetGemPortFromOnuPktIn(i) ==
    LET stored == kv[proc[i].key] IN
    /\ proc[i].at = "get"
    /\ \/ /\ Goto(i, [proc[i] EXCEPT !.at = IF stored # 0 THEN "keep" ELSE "send",
                                     !.gem = stored])
          /\ KvWorks
       \/ Goto(i, [proc[i] EXCEPT !.at = "send"]) /\ KvFails
    /\ UNCHANGED <<caches, last>>

KeepGemPort(i) ==
    /\ proc[i].at = "keep"
    /\ gemPortForPacketInInfo' = [gemPortForPacketInInfo EXCEPT ![proc[i].key] = proc[i].gem]
    /\ Goto(i, [proc[i] EXCEPT !.at = "fill"])
    /\ UNCHANGED <<packetInGemPort, kv, last, left>>

GetPacketOutGemPortID(i) ==
    /\ proc[i].at = "fill"
    /\ packetInGemPort' = [packetInGemPort EXCEPT ![proc[i].key] = proc[i].gem]
    /\ Goto(i, [proc[i] EXCEPT !.at = "send"])
    /\ UNCHANGED <<gemPortForPacketInInfo, kv, last, left>>

\* With gem port 0 the agent looks for a gem port itself.
OnuPacketOut(i) ==
    /\ proc[i].at = "send"
    /\ Goto(i, Idle)
    /\ UNCHANGED <<caches, last, left>>

-------------------------------------------------------------------------------
(* The clean-up of an ONU's data, and a new process. *)

\* clearUNIData: the entries listed in the KV store are deleted there and from the resource
\* manager's map, here in one step.
DeletePacketInGemPortForOnu(port) ==
    /\ "lost" \in Kinds /\ left > 0 /\ left' = left - 1
    /\ kv' = [k \in Keys |-> IF k[1] = port THEN 0 ELSE kv[k]]
    /\ gemPortForPacketInInfo' = [k \in Keys |-> IF k[1] = port /\ kv[k] # 0 THEN 0
                                                 ELSE gemPortForPacketInInfo[k]]
    /\ last' = [f \in DOMAIN last |-> IF f[1] = port THEN 0 ELSE last[f]]
    /\ proc' = NothingDue(port)
    /\ UNCHANGED packetInGemPort

Restart ==
    /\ "restart" \in Kinds /\ left > 0 /\ left' = left - 1
    /\ packetInGemPort' = [k \in Keys |-> 0]
    /\ gemPortForPacketInInfo' = [k \in Keys |-> 0]
    /\ last' = [f \in DOMAIN last |->
                  IF \E i \in Procs : proc[i] # Idle /\ proc[i].port = f[1] THEN 0 ELSE last[f]]
    /\ proc' = [i \in Procs |-> Idle]
    /\ UNCHANGED kv

Init ==
    /\ packetInGemPort = [k \in Keys |-> 0]
    /\ gemPortForPacketInInfo = [k \in Keys |-> 0]
    /\ kv = [k \in Keys |-> 0]
    /\ proc = [i \in Procs |-> Idle]
    /\ last = [f \in Ports \X Packets |-> 0]
    /\ left = MaxEvents

Next ==
    \/ \E i \in Procs :
         \/ \E port \in Ports, pkt \in Packets :
              \/ \E gem \in GemPorts : UpdateGemPortForPktIn(i, port, pkt, gem)
              \/ PacketOutUNI(i, port, pkt)
         \/ SetPacketInGemPort(i) \/ PutGemPortForPktIn(i) \/ CacheGemPortForPktIn(i)
         \/ LookupGemPort(i) \/ GetGemPortFromOnuPktIn(i) \/ KeepGemPort(i)
         \/ GetPacketOutGemPortID(i) \/ OnuPacketOut(i)
    \/ \E port \in Ports : DeletePacketInGemPortForOnu(port)
    \/ Restart

Spec == Init /\ [][Next]_vars

-------------------------------------------------------------------------------
\* "Use the same gem port for packet_out" (GetLogicalPortFromPacketIn): a packet sent to a
\* port, with the tags of a packet that came from there, leaves through the gem port that
\* packet came through, when no other packet of the port is being handled.
SameGemPort ==
    \A i \in Procs : (proc[i].at = "send" /\ proc[i].due # 0) => proc[i].gem = proc[i].due
===============================================================================

------------------------------- MODULE FlowRules -------------------------------
(***************************************************************************)
(* What the flow manager makes of a flow of the core: which function adds  *)
(* it, for which UNI, tech profile and gem ports, and how its removal      *)
(* recognises it again (openolt_flowmgr.go).                               *)
(*                                                                         *)
(* A flow is a record: id; fields, the sequence of its match fields, and   *)
(* actions, the sequence of its actions, both of records [type, value];    *)
(* meter, the meter id, never 0; metadata, the tech profile id in the      *)
(* write-metadata instruction, 0 if there is none. A port is a record:     *)
(* type, "uni", "pon", "nni" or "controller", and uni, the UNI it is of    *)
(* (0 for none).                                                           *)
(***************************************************************************)
EXTENDS Naturals, FiniteSetsExt, Sequences

CONSTANTS
    NumGems,   \* gem ports of a tech profile
    PbitMap    \* the priority bits of each of them

NoPort == [type |-> "none", uni |-> 0]

Positions(l, type) == {i \in DOMAIN l : l[i].type = type}
FirstOf(l, type) == IF Positions(l, type) = {} THEN NoPort ELSE l[Min(Positions(l, type))].value
LastOf(l, type) == IF Positions(l, type) = {} THEN NoPort ELSE l[Max(Positions(l, type))].value

FieldTypes ==
    {"ETH_TYPE", "ETH_DST", "ETH_SRC", "IP_PROTO", "IN_PORT", "VLAN_VID", "VLAN_PCP", "UDP_DST",
     "UDP_SRC", "IPV4_DST", "IPV4_SRC", "METADATA", "TUNNEL_ID"}

(* The fields before the first of another type. *)
FormulateClassifierInfoFromFlow(fl) ==
    LET stop == Min({i \in DOMAIN fl.fields : fl.fields[i].type \notin FieldTypes}
                      \cup {Len(fl.fields) + 1})
        known == SubSeq(fl.fields, 1, stop - 1)
    IN  [type \in {known[i].type : i \in DOMAIN known} |-> LastOf(known, type)]

(* An action the manager does not know is an error; a tag of another type    *)
(* than 0x8100 to push panics in the message about it.                       *)
FormulateActionInfoFromFlow(fl) ==
    LET bad == {i \in DOMAIN fl.actions :
                  \/ fl.actions[i].type \notin {"OUTPUT", "POP_VLAN", "PUSH_VLAN", "SET_FIELD", "GROUP"}
                  \/ fl.actions[i].type = "PUSH_VLAN" /\ fl.actions[i].value # 33024}
    IN  IF bad = {} THEN "ok"
        ELSE IF fl.actions[Min(bad)].type = "PUSH_VLAN" THEN "crash" ELSE "err"

IsUpstream(port) == port.type \in {"nni", "controller"}

(* The PON port of the flow is replaced by the UNI port in its tunnel id; a  *)
(* classifier without an in-port panics.                                     *)
FormulateControllerBoundTrapFlowInfo(fl, cls) ==
    LET out    == LastOf(fl.actions, "OUTPUT")
        in     == IF "IN_PORT" \in DOMAIN cls THEN cls["IN_PORT"] ELSE NoPort
        tunnel == FirstOf(fl.fields, "TUNNEL_ID")
        outPon == out.type = "pon"
        inPon  == ~outPon /\ in.type = "pon"
    IN  [in |-> IF inPon THEN tunnel ELSE in,
         out |-> IF outPon THEN tunnel ELSE out,
         end |-> IF in = NoPort THEN "crash"
                 ELSE IF (outPon \/ inPon) /\ tunnel = NoPort THEN "err" ELSE "ok"]

Has(cls, type, values) == type \in DOMAIN cls /\ cls[type] \in values

IsIgmpTrapDownstreamFlow(cls, in) ==
    in.type = "nni" /\ Has(cls, "ETH_TYPE", {"ipv4"}) /\ Has(cls, "IP_PROTO", {"igmp"})

(* The branch AddFlow takes. *)
AddBranch(cls, in) ==
    IF Has(cls, "ETH_TYPE", {"lldp"}) THEN "lldp"
    ELSE IF (Has(cls, "ETH_TYPE", {"pppoe"}) /\ in.type = "nni")
              \/ (Has(cls, "IP_PROTO", {"dhcp"}) /\ Has(cls, "UDP_SRC", {67, 546})) THEN "nni"
    ELSE IF IsIgmpTrapDownstreamFlow(cls, in) THEN "nni-igmp"
    ELSE "subscriber"

(* The branch checkAndAddFlow takes for a flow of a subscriber; a flow that  *)
(* matches another Ethernet type is in none of them.                         *)
CheckAndAddBranch(cls, dir) ==
    IF "IP_PROTO" \in DOMAIN cls
      THEN IF cls["IP_PROTO"] \in {"dhcp", "igmp"} THEN cls["IP_PROTO"] ELSE "invalid"
    ELSE IF "ETH_TYPE" \in DOMAIN cls
      THEN IF cls["ETH_TYPE"] \in {"eap", "pppoe"} THEN cls["ETH_TYPE"] ELSE "nothing"
    ELSE dir

(* The gem ports of a flow: the only one, the one its priority selects (none *)
(* if the profile has none for it), or all that have a priority.             *)
GemPortIndexes(cls) ==
    LET all == {i \in 1..NumGems : PbitMap[i] # {}}
        one == {i \in all : cls["VLAN_PCP"] \in PbitMap[i]}
    IN  IF NumGems = 1 THEN {1}
        ELSE IF "VLAN_PCP" \notin DOMAIN cls THEN all
        ELSE IF one = {} THEN {} ELSE {Min(one)}

(* What AddFlow derives from the flow. *)
FlowContext(fl) ==
    LET cls   == FormulateClassifierInfoFromFlow(fl)
        ports == FormulateControllerBoundTrapFlowInfo(fl, cls)
        dir   == IF IsUpstream(ports.out) THEN "up" ELSE "down"
        acts  == FormulateActionInfoFromFlow(fl)
    IN  [id |-> fl.id, meter |-> fl.meter, tp |-> fl.metadata, dir |-> dir,
         uni |-> IF dir = "up" THEN ports.in.uni ELSE ports.out.uni,
         end |-> IF acts # "ok" THEN acts ELSE ports.end,
         branch |-> AddBranch(cls, ports.in), rule |-> CheckAndAddBranch(cls, dir),
         gems |-> GemPortIndexes(cls)]

(* A trap flow on the NNI, as its removal recognises it: by all its fields.  *)
IsNniTrap(fl) ==
    /\ \E i \in DOMAIN fl.fields :
         \/ fl.fields[i].type = "ETH_TYPE" /\ fl.fields[i].value = "lldp"
         \/ fl.fields[i].type = "IP_PROTO" /\ fl.fields[i].value \in {"dhcp", "igmp"}
    /\ LastOf(fl.fields, "IN_PORT").type = "nni"

(* The port FlowExtractInfo finds. *)
FlowExtractInfo(fl, dir) ==
    LET tunnel == FirstOf(fl.fields, "TUNNEL_ID")
    IN  IF tunnel # NoPort THEN tunnel
        ELSE IF dir = "up" THEN FirstOf(fl.fields, "IN_PORT")
        ELSE IF Positions(fl.fields, "METADATA") # {} THEN FirstOf(fl.actions, "OUTPUT")
        ELSE NoPort

(* What RemoveFlow derives from the flow. *)
RemovalContext(fl) ==
    LET dir  == IF IsUpstream(LastOf(fl.actions, "OUTPUT")) THEN "up" ELSE "down"
        port == FlowExtractInfo(fl, dir)
    IN  [id |-> fl.id, tp |-> fl.metadata, dir |-> dir, uni |-> port.uni, nni |-> IsNniTrap(fl),
         end |-> IF ~IsNniTrap(fl) /\ (port = NoPort \/ fl.metadata = 0) THEN "err" ELSE "ok"]
===============================================================================

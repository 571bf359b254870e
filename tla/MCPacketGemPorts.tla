--------------------------- MODULE MCPacketGemPorts ---------------------------
(***************************************************************************)
(* One UNI port; packets with one and with two tags.                       *)
(***************************************************************************)
EXTENDS PacketGemPorts

Tag(tpid, vlan) == [tpid |-> tpid, vlan |-> vlan]

SingleTagged == <<Tag("0x8100", 1)>>
QinQ         == <<Tag("0x8100", 3), Tag("0x8100", 2)>>
QinQ8021ad   == <<Tag("0x88a8", 3), Tag("0x8100", 2)>>

MCPackets == {SingleTagged, QinQ, QinQ8021ad}
===============================================================================

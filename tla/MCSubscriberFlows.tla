--------------------------- MODULE MCSubscriberFlows ---------------------------
(* Instances of SubscriberFlows for TLC. *)
EXTENDS SubscriberFlows

\* two gem ports, each for one priority
MCPbitMap == <<{1}, {2}>>

Is(type, value) == [type |-> type, value |-> value]

Nni        == [type |-> "nni", uni |-> 0]
Pon        == [type |-> "pon", uni |-> 0]
Controller == [type |-> "controller", uni |-> 0]
UniPort(u) == [type |-> "uni", uni |-> u]

Flow(id, in, out, uni, tp, meter, match) ==
    [id |-> id, meter |-> meter, metadata |-> tp, actions |-> <<Is("OUTPUT", out)>>,
     fields |-> <<Is("IN_PORT", in)>> \o match
                  \o (IF uni = 0 THEN <<>> ELSE <<Is("TUNNEL_ID", UniPort(uni))>>)]

\* One subscriber: upstream flows, one with another meter and one of a single priority, and
\* a downstream flow; another subscriber behind the same ONU.
Up1   == Flow("up1", Pon, Nni, 1, 64, 1, <<>>)
Up2   == Flow("up2", Pon, Nni, 1, 64, 1, <<>>)
Up3   == Flow("up3", Pon, Nni, 1, 64, 2, <<>>)
Pbit  == Flow("pbit", Pon, Nni, 1, 64, 1, <<Is("VLAN_PCP", 2)>>)
Down1 == Flow("down1", Nni, Pon, 1, 64, 1, <<>>)
Other == Flow("other", Pon, Nni, 2, 64, 1, <<Is("VLAN_PCP", 1)>>)

OneGem(fl) == [fl EXCEPT !.fields = Append(@, Is("VLAN_PCP", 1))]

\* Trap flows of a subscriber and of the NNI, and flows the manager does not understand.
TrapFlows ==
    {Flow("trap", Pon, Controller, 1, 64, 1, match) : match \in
       {<<Is("IP_PROTO", "dhcp"), Is("UDP_SRC", 68)>>, <<Is("ETH_TYPE", "ipv4"), Is("IP_PROTO", "igmp")>>,
        <<Is("ETH_TYPE", "eap")>>, <<Is("ETH_TYPE", "pppoe")>>, <<Is("VLAN_PCP", 7), Is("ETH_TYPE", "eap")>>}}
      \cup
    {Flow("trap", Nni, Controller, 0, 0, 1, match) : match \in
       {<<Is("ETH_TYPE", "lldp")>>, <<Is("IP_PROTO", "dhcp"), Is("UDP_SRC", 67)>>,
        <<Is("ETH_TYPE", "ipv4"), Is("IP_PROTO", "igmp")>>, <<Is("ETH_TYPE", "pppoe")>>}}

OddFlows ==
    {Flow("odd", Pon, Nni, 1, 64, 1, <<Is("ETH_TYPE", "arp")>>),
     Flow("odd", Pon, Nni, 1, 64, 1, <<Is("IP_PROTO", "tcp")>>),
     Flow("odd", Pon, Nni, 1, 0, 1, <<>>), Flow("odd", Pon, Nni, 0, 64, 1, <<>>),
     Flow("odd", Nni, Controller, 0, 0, 1, <<Is("IP_PROTO", "dhcp")>>),
     [Up1 EXCEPT !.actions = <<Is("DEC_TTL", 0)>> \o @],
     [Up1 EXCEPT !.actions = <<Is("PUSH_VLAN", 34984)>> \o @],
     [Up1 EXCEPT !.fields = <<Is("ARP_OP", 1)>> \o @]}

Scn(flows, profile, values, kinds, left, during) ==
    [flows |-> flows, profile |-> profile, values |-> values,
     kinds |-> kinds, left |-> left, during |-> during, lost |-> during # {"remove"},
     pool |-> GemIds]

AnyTime == {"add", "remove", "lost"}

AllScenarios ==
    {Scn({Up1, Up2, Up3, Down1, Other}, "multi", TRUE, {}, 0, {}),
     [Scn({Up1, Down1, Other}, "multi", TRUE, {}, 0, {}) EXCEPT !.pool = {1, 2, 3}],
     Scn({Up1, Pbit, Down1, Other}, "multi", TRUE, {}, 0, {}),
     Scn({Up1, Up2, Down1, Other}, "single", TRUE, {}, 0, {}),
     Scn({Up1, Down1, Other}, "single", FALSE, {}, 0, {}),
     Scn({Up1, Down1, Other}, "multi", TRUE, {"rpc", "unanswered"}, 2, {"add", "remove"}),
     Scn({Up1, Up2}, "multi", TRUE, {"unanswered"}, 2, {"add", "remove"}),
     Scn({Up1, Up2, Down1, Other}, "multi", TRUE, {"lost"}, 1, AnyTime),
     Scn({Up1, Down1, Other}, "multi", TRUE, {"rpc"}, 2, {"remove", "lost"}),
     Scn({Up1, Down1, Other}, "multi", TRUE, {"rpc"}, 1, AnyTime),
     Scn({Up1, Down1, Other}, "multi", TRUE, {"kv"}, 2, {"lost"}),
     Scn({Up1, Down1, Other}, "multi", TRUE, {"crash"}, 2, {"lost"}),
     Scn({OneGem(Up1), OneGem(Up2), OneGem(Down1)}, "multi", TRUE, {"crash"}, 2, {"remove"}),
     Scn({Up1, Down1, Other}, "single", TRUE, {"rpc"}, 1, AnyTime)}
      \cup {Scn({fl}, "multi", TRUE, {"rpc"}, 1, {"add", "remove"}) : fl \in TrapFlows \cup OddFlows}

\* a flow of all gem ports and one of a single priority, without faults
MixedGemPorts == {Scn({Up1, Pbit}, "multi", TRUE, {}, 0, {})}
===============================================================================

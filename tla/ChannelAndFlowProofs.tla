------------------------- MODULE ChannelAndFlowProofs -------------------------
(***************************************************************************)
(* Proofs about two small modules.                                         *)
(*                                                                         *)
(* OnuIndicationChannels: the channel that putOnuIndicationToChannel gets  *)
(* from the map has a goroutine.  The proof rests on one fact: a goroutine *)
(* returns only after its stop channel is closed, and                      *)
(* removeOnuIndicationChannels closes it in the section that takes the     *)
(* channel out of the map.                                                 *)
(*                                                                         *)
(* FlowRules: RemoveFlow, which looks at the fields of a flow directly,    *)
(* finds the service that AddFlow, which goes through the classifier,      *)
(* added the flow for.                                                     *)
(***************************************************************************)
EXTENDS OnuIndicationChannels, FlowRules, TLAPS

Channel == [pon : Pons, buf : Seq(Nat), stop : BOOLEAN, closed : BOOLEAN,
            running : BOOLEAN, handling : Nat]

Typed ==
    /\ chan \in Seq(Channel)
    /\ perPonOnuIndicationChannel \in [Pons -> 0..Len(chan)]
    /\ put \in [Senders -> [ch : 0..Len(chan), ind : Nat]]
    /\ sent \in [Pons -> Nat]

(* A step on channel c that changes neither its port nor its stop channel, *)
(* and ends its goroutine only if that one is closed.                      *)
KeepsServing(c) ==
    \E ch \in Channel :
        /\ chan' = [chan EXCEPT ![c] = ch]
        /\ ch.pon = chan[c].pon /\ ch.stop = chan[c].stop
        /\ \/ ch.running = chan[c].running /\ ch.closed = chan[c].closed
           \/ chan[c].stop

LEMMA KeepsServingSuffices ==
    ASSUME Typed, ChannelServed, NEW c \in Chans, KeepsServing(c),
           UNCHANGED perPonOnuIndicationChannel
    PROVE  ChannelServed' /\ chan' \in Seq(Channel) /\ Len(chan') = Len(chan)
<1>1. PICK ch \in Channel :
        /\ chan' = [chan EXCEPT ![c] = ch]
        /\ ch.pon = chan[c].pon /\ ch.stop = chan[c].stop
        /\ \/ ch.running = chan[c].running /\ ch.closed = chan[c].closed
           \/ chan[c].stop
  BY Zenon DEF KeepsServing
<1>2. chan \in Seq(Channel) /\ c \in 1..Len(chan)
  BY DEF Typed, Chans
<1>3. /\ chan' \in Seq(Channel) /\ Len(chan') = Len(chan)
      /\ \A d \in 1..Len(chan) : chan'[d] = IF d = c THEN ch ELSE chan[d]
  BY <1>1, <1>2
<1>4. ASSUME NEW p \in Pons, perPonOnuIndicationChannel[p] # 0
      PROVE  LET d == perPonOnuIndicationChannel[p]
             IN  /\ chan'[d].pon = p /\ chan'[d].running
                 /\ ~chan'[d].stop /\ ~chan'[d].closed
  <2>1. perPonOnuIndicationChannel[p] \in 1..Len(chan)
    BY <1>4 DEF Typed
  <2>2. LET d == perPonOnuIndicationChannel[p]
        IN  chan[d].pon = p /\ chan[d].running /\ ~chan[d].stop /\ ~chan[d].closed
    BY <1>4 DEF ChannelServed
  <2>. QED  BY <1>1, <1>3, <2>1, <2>2
<1>. QED  BY <1>3, <1>4 DEF ChannelServed

LEMMA ChannelTyped ==
    ASSUME Typed, NEW c \in Chans
    PROVE  chan[c] \in Channel
BY DEF Typed, Chans

LEMMA GetServes ==
    ASSUME Typed, ChannelServed, NEW s \in Senders, NEW p \in Pons, GetOnuIndicationChannel(s, p)
    PROVE  Typed' /\ ChannelServed'
<1>1. sent' \in [Pons -> Nat] /\ sent'[p] \in Nat
  BY DEF Typed, GetOnuIndicationChannel
<1>2. CASE perPonOnuIndicationChannel[p] # 0
  <2>1. UNCHANGED <<perPonOnuIndicationChannel, chan>>
    BY <1>2 DEF GetOnuIndicationChannel
  <2>2. perPonOnuIndicationChannel'[p] \in 0..Len(chan')
    BY <2>1 DEF Typed
  <2>3. put' \in [Senders -> [ch : 0..Len(chan'), ind : Nat]]
    BY <1>1, <2>1, <2>2 DEF Typed, GetOnuIndicationChannel
  <2>. QED  BY <1>1, <2>1, <2>3 DEF Typed, ChannelServed
<1>3. CASE perPonOnuIndicationChannel[p] = 0
  <2>1. NewChannels(p) \in Channel
    BY DEF NewChannels, Channel
  <2>2. /\ chan' = Append(chan, NewChannels(p))
        /\ perPonOnuIndicationChannel' = [perPonOnuIndicationChannel EXCEPT ![p] = Len(chan')]
    BY <1>3 DEF GetOnuIndicationChannel
  <2>3. /\ chan' \in Seq(Channel) /\ Len(chan') = Len(chan) + 1
        /\ chan'[Len(chan')] = NewChannels(p)
        /\ \A d \in 1..Len(chan) : chan'[d] = chan[d]
    BY <2>1, <2>2 DEF Typed
  <2>4. Len(chan) \in Nat /\ 0..Len(chan) \subseteq 0..Len(chan')
    BY <2>3 DEF Typed
  <2>5. perPonOnuIndicationChannel' \in [Pons -> 0..Len(chan')]
    BY <2>2, <2>3, <2>4 DEF Typed
  <2>6. put' \in [Senders -> [ch : 0..Len(chan'), ind : Nat]]
    <3>1. put \in [Senders -> [ch : 0..Len(chan'), ind : Nat]]
      BY <2>4 DEF Typed
    <3>2. [ch |-> perPonOnuIndicationChannel'[p], ind |-> sent'[p]] \in [ch : 0..Len(chan'), ind : Nat]
      BY <1>1, <2>5
    <3>. QED  BY <3>1, <3>2 DEF GetOnuIndicationChannel
  <2>7. ASSUME NEW q \in Pons, perPonOnuIndicationChannel'[q] # 0
        PROVE  LET d == perPonOnuIndicationChannel'[q]
               IN  /\ chan'[d].pon = q /\ chan'[d].running
                   /\ ~chan'[d].stop /\ ~chan'[d].closed
    <3>1. CASE q = p
      BY <2>2, <2>3, <3>1 DEF NewChannels, Typed
    <3>2. CASE q # p
      <4>1. /\ perPonOnuIndicationChannel'[q] = perPonOnuIndicationChannel[q]
            /\ perPonOnuIndicationChannel[q] \in 1..Len(chan)
        BY <2>2, <2>7, <3>2 DEF Typed
      <4>. QED  BY <2>3, <2>7, <4>1 DEF ChannelServed
    <3>. QED  BY <3>1, <3>2
  <2>. QED  BY <1>1, <2>3, <2>5, <2>6, <2>7 DEF Typed, ChannelServed
<1>. QED  BY <1>2, <1>3

LEMMA SendServes ==
    ASSUME Typed, ChannelServed, NEW s \in Senders, SendOnuIndication(s)
    PROVE  Typed' /\ ChannelServed'
<1>1. PICK c \in Chans : c = put[s].ch
  BY DEF SendOnuIndication, Typed, Chans
<1>2. chan[c] \in Channel /\ put[s].ind \in Nat
  BY ChannelTyped DEF Typed
<1>3. [chan[c] EXCEPT !.buf = Append(@, put[s].ind)] \in Channel
  <2>1. chan[c].buf \in Seq(Nat)
    BY <1>2 DEF Channel
  <2>2. Append(chan[c].buf, put[s].ind) \in Seq(Nat)
    BY <1>2, <2>1
  <2>. QED  BY Zenon, <1>2, <2>2 DEF Channel
<1>4. KeepsServing(c)
  <2>1. chan' = [chan EXCEPT ![c] = [chan[c] EXCEPT !.buf = Append(@, put[s].ind)]]
    BY <1>1 DEF SendOnuIndication
  <2>. QED  BY Zenon, <1>2, <1>3, <2>1 DEF KeepsServing, Channel
<1>5. put' \in [Senders -> [ch : 0..Len(chan), ind : Nat]]
  BY DEF SendOnuIndication, NotPutting, Typed
<1>. QED  BY Zenon, <1>4, <1>5, KeepsServingSuffices DEF SendOnuIndication, Typed

LEMMA RoutineServes ==
    ASSUME Typed, ChannelServed, NEW c \in Chans,
           TakeIndication(c) \/ HandleIndication(c) \/ StopRoutine(c)
    PROVE  Typed' /\ ChannelServed'
<1>1. chan[c] \in Channel
  BY ChannelTyped
<1>2. UNCHANGED <<perPonOnuIndicationChannel, put, sent>>
  BY DEF TakeIndication, HandleIndication, StopRoutine
<1>3. ASSUME TakeIndication(c) PROVE KeepsServing(c)
  <2>1. [chan[c] EXCEPT !.handling = Head(chan[c].buf), !.buf = Tail(@)] \in Channel
    <3>1. chan[c].buf \in Seq(Nat) /\ chan[c].buf # <<>>
      BY <1>1, <1>3 DEF Channel, TakeIndication
    <3>2. Head(chan[c].buf) \in Nat /\ Tail(chan[c].buf) \in Seq(Nat)
      BY <3>1
    <3>. QED  BY Zenon, <1>1, <3>2 DEF Channel
  <2>2. chan' = [chan EXCEPT ![c] = [chan[c] EXCEPT !.handling = Head(chan[c].buf), !.buf = Tail(@)]]
    BY Zenon, <1>1, <1>3 DEF TakeIndication, Typed, Channel
  <2>. QED  BY Zenon, <1>1, <2>1, <2>2 DEF KeepsServing, Channel
<1>4. ASSUME HandleIndication(c) PROVE KeepsServing(c)
  <2>1. [chan[c] EXCEPT !.handling = 0] \in Channel
    BY <1>1 DEF Channel
  <2>2. chan' = [chan EXCEPT ![c] = [chan[c] EXCEPT !.handling = 0]]
    BY <1>4 DEF HandleIndication
  <2>. QED  BY Zenon, <1>1, <2>1, <2>2 DEF KeepsServing, Channel
<1>5. ASSUME StopRoutine(c) PROVE KeepsServing(c)
  <2>1. [chan[c] EXCEPT !.running = FALSE, !.closed = TRUE] \in Channel
    BY Zenon, <1>1 DEF Channel
  <2>2. chan' = [chan EXCEPT ![c] = [chan[c] EXCEPT !.running = FALSE, !.closed = TRUE]]
    BY Zenon, <1>1, <1>5 DEF StopRoutine, Typed, Channel
  <2>. QED  BY Zenon, <1>1, <1>5, <2>1, <2>2 DEF StopRoutine, KeepsServing, Channel
<1>6. KeepsServing(c)
  BY <1>3, <1>4, <1>5
<1>. QED  BY <1>2, <1>6, KeepsServingSuffices DEF Typed

LEMMA RemoveServes ==
    ASSUME Typed, ChannelServed, RemoveOnuIndicationChannels
    PROVE  Typed' /\ ChannelServed'
<1>1. /\ chan' = [c \in Chans |-> [chan[c] EXCEPT
                    !.stop = @ \/ perPonOnuIndicationChannel[chan[c].pon] = c]]
      /\ perPonOnuIndicationChannel' = [p \in Pons |-> 0]
      /\ UNCHANGED <<put, sent>>
  BY DEF RemoveOnuIndicationChannels
<1>2. chan \in Seq(Channel) /\ Len(chan) \in Nat
  BY DEF Typed
<1>3. \A c \in Chans : [chan[c] EXCEPT
            !.stop = @ \/ perPonOnuIndicationChannel[chan[c].pon] = c] \in Channel
  BY Zenon, ChannelTyped DEF Channel
<1>4. chan' \in Seq(Channel) /\ Len(chan') = Len(chan)
  BY <1>1, <1>2, <1>3 DEF Chans
<1>5. perPonOnuIndicationChannel' \in [Pons -> 0..Len(chan')]
  <2>1. 0 \in 0..Len(chan')
    BY <1>2, <1>4
  <2>. QED  BY <1>1, <2>1
<1>. QED  BY Zenon, <1>1, <1>4, <1>5 DEF Typed, ChannelServed

(* For every set of ports and senders and every bound, the channel that    *)
(* getOnuIndicationChannel finds in the map is that of its port, is open   *)
(* and has a goroutine that nobody has told to stop, however puts,         *)
(* removals and the ends of goroutines interleave.                         *)
THEOREM ChannelsServed == Spec => []ChannelServed
<1>1. ASSUME Init PROVE Typed /\ ChannelServed
  BY <1>1 DEF Init, Typed, ChannelServed, NotPutting
<1>2. ASSUME Typed, ChannelServed, [Next]_vars PROVE Typed' /\ ChannelServed'
  <2>1. ASSUME NEW s \in Senders, SendPanics(s) PROVE Typed' /\ ChannelServed'
    BY <1>2, <2>1 DEF SendPanics, Typed, ChannelServed
  <2>2. ASSUME UNCHANGED vars PROVE Typed' /\ ChannelServed'
    BY <1>2, <2>2 DEF vars, Typed, ChannelServed
  <2>. QED
    BY <1>2, <2>1, <2>2, GetServes, SendServes, RoutineServes, RemoveServes DEF Next
<1>. QED  BY <1>1, <1>2, PTL DEF Spec

-------------------------------------------------------------------------------
(* What a removal makes of a flow. *)

Once(l, type) == \E i \in DOMAIN l : Positions(l, type) = {i}

(* The flows of a subscriber that AddFlow and RemoveFlow are written for:  *)
(* the manager knows every match field, there is one in-port and one       *)
(* out-port, a flow goes upstream from the subscriber or downstream from   *)
(* the NNI, a PON port comes with the UNI in the tunnel id, and nothing    *)
(* else does; a downstream flow traps nothing, and has metadata to match   *)
(* if it names the UNI as its out-port.                                    *)
SubscriberFlow(fl) ==
    LET in     == FirstOf(fl.fields, "IN_PORT")
        out    == FirstOf(fl.actions, "OUTPUT")
        tunnel == FirstOf(fl.fields, "TUNNEL_ID")
    IN  /\ \A i \in DOMAIN fl.fields : fl.fields[i].type \in FieldTypes
        /\ Once(fl.fields, "IN_PORT") /\ Once(fl.actions, "OUTPUT")
        /\ \/ in.type \in {"uni", "pon"} /\ IsUpstream(out)
           \/ /\ in.type = "nni" /\ out.type \in {"uni", "pon"}
              /\ \A i \in DOMAIN fl.fields :
                    /\ fl.fields[i].type = "ETH_TYPE" => fl.fields[i].value # "lldp"
                    /\ fl.fields[i].type = "IP_PROTO" => fl.fields[i].value \notin {"dhcp", "igmp"}
              /\ out.type = "uni" => Positions(fl.fields, "METADATA") # {}
        /\ IF "pon" \in {in.type, out.type} THEN tunnel.type = "uni" ELSE tunnel = NoPort
        /\ fl.metadata # 0

LEMMA OnceIsFirstAndLast ==
    ASSUME NEW Item, NEW l \in Seq(Item), NEW type, Once(l, type)
    PROVE  FirstOf(l, type) = LastOf(l, type)
<1>1. PICK i \in DOMAIN l : Positions(l, type) = {i}
  BY DEF Once
<1>2. i \in Int
  BY <1>1
<1>3. Min({i}) = i /\ Max({i}) = i
  BY <1>2 DEF Min, Max
<1>. QED  BY <1>1, <1>3 DEF FirstOf, LastOf

(* Every field of the flow goes into the classifier. *)
LEMMA WholeClassifier ==
    ASSUME NEW Item, NEW fl, fl.fields \in Seq(Item),
           \A i \in DOMAIN fl.fields : fl.fields[i].type \in FieldTypes
    PROVE  FormulateClassifierInfoFromFlow(fl) =
              [type \in {fl.fields[i].type : i \in DOMAIN fl.fields} |-> LastOf(fl.fields, type)]
<1>. DEFINE n == Len(fl.fields)
<1>1. {i \in DOMAIN fl.fields : fl.fields[i].type \notin FieldTypes} \cup {n + 1} = {n + 1}
  OBVIOUS
<1>2. n \in Nat /\ Min({n + 1}) = n + 1
  BY DEF Min
<1>3. SubSeq(fl.fields, 1, (n + 1) - 1) = fl.fields
  BY <1>2
<1>. QED  BY Zenon, <1>1, <1>2, <1>3 DEF FormulateClassifierInfoFromFlow

(* RemoveFlow finds the subscriber's service a flow was added for: from    *)
(* the fields and actions of any flow as above, in any order and of any    *)
(* number, it derives the direction, the UNI and the tech profile AddFlow  *)
(* derived through the classifier and the tunnel id, and never takes it    *)
(* for a trap flow on the NNI.                                             *)
THEOREM RemovalFindsService ==
    ASSUME NEW Item, NEW fl, fl.fields \in Seq(Item), fl.actions \in Seq(Item),
           SubscriberFlow(fl)
    PROVE  LET added   == FlowContext(fl)
               removed == RemovalContext(fl)
           IN  /\ removed.id = added.id /\ removed.tp = added.tp
               /\ removed.dir = added.dir /\ removed.uni = added.uni
               /\ ~removed.nni /\ removed.end = "ok"
<1>. DEFINE in     == FirstOf(fl.fields, "IN_PORT")
            out    == FirstOf(fl.actions, "OUTPUT")
            tunnel == FirstOf(fl.fields, "TUNNEL_ID")
            cls    == FormulateClassifierInfoFromFlow(fl)
            ports  == FormulateControllerBoundTrapFlowInfo(fl, cls)
            dir    == IF IsUpstream(out) THEN "up" ELSE "down"
<1>1. LastOf(fl.fields, "IN_PORT") = in /\ LastOf(fl.actions, "OUTPUT") = out
  BY OnceIsFirstAndLast DEF SubscriberFlow
<1>2. "IN_PORT" \in DOMAIN cls /\ cls["IN_PORT"] = in
  <2>1. PICK i \in DOMAIN fl.fields : fl.fields[i].type = "IN_PORT"
    BY DEF SubscriberFlow, Once, Positions
  <2>2. \A j \in DOMAIN fl.fields : fl.fields[j].type \in FieldTypes
    BY DEF SubscriberFlow
  <2>3. cls = [type \in {fl.fields[j].type : j \in DOMAIN fl.fields} |-> LastOf(fl.fields, type)]
    BY Zenon, <2>2, WholeClassifier
  <2>. QED  BY <1>1, <2>1, <2>3
<1>3. /\ "pon" \in {in.type, out.type} => tunnel.type = "uni"
      /\ "pon" \notin {in.type, out.type} => tunnel = NoPort
      /\ \/ in.type \in {"uni", "pon"} /\ IsUpstream(out)
         \/ /\ in.type = "nni" /\ out.type \in {"uni", "pon"}
            /\ out.type = "uni" => Positions(fl.fields, "METADATA") # {}
      /\ fl.metadata # 0
  BY DEF SubscriberFlow
<1>4. ~IsNniTrap(fl)
  BY <1>1, Zenon DEF SubscriberFlow, IsNniTrap
<1>5. NoPort.type = "none"
  BY DEF NoPort
<1>. HIDE DEF in, out, tunnel, cls
<1>6. /\ ports.in = IF out.type # "pon" /\ in.type = "pon" THEN tunnel ELSE in
      /\ ports.out = IF out.type = "pon" THEN tunnel ELSE out
  BY <1>1, <1>2 DEF FormulateControllerBoundTrapFlowInfo, tunnel
<1>. HIDE DEF ports
<1>7. IsUpstream(ports.out) <=> IsUpstream(out)
  BY <1>3, <1>6 DEF IsUpstream
<1>8. /\ FlowExtractInfo(fl, dir) = IF dir = "up" THEN ports.in ELSE ports.out
      /\ FlowExtractInfo(fl, dir) # NoPort
  <2>1. CASE dir = "up"
    BY <2>1, <1>3, <1>5, <1>6 DEF FlowExtractInfo, IsUpstream, in, tunnel
  <2>2. CASE dir = "down"
    BY <2>2, <1>3, <1>5, <1>6 DEF FlowExtractInfo, IsUpstream, out, tunnel
  <2>. QED  BY <2>1, <2>2
<1>9. /\ FlowContext(fl).id = fl.id /\ FlowContext(fl).tp = fl.metadata
      /\ FlowContext(fl).dir = dir
      /\ FlowContext(fl).uni = IF dir = "up" THEN ports.in.uni ELSE ports.out.uni
  BY <1>7 DEF FlowContext, ports, cls
<1>10. /\ RemovalContext(fl).id = fl.id /\ RemovalContext(fl).tp = fl.metadata
       /\ RemovalContext(fl).dir = dir
       /\ RemovalContext(fl).uni = FlowExtractInfo(fl, dir).uni
       /\ RemovalContext(fl).nni = FALSE /\ RemovalContext(fl).end = "ok"
  BY <1>1, <1>3, <1>4, <1>8 DEF RemovalContext
<1>. QED  BY <1>8, <1>9, <1>10
===============================================================================

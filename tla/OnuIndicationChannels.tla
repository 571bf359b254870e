------------------------- MODULE OnuIndicationChannels -------------------------
(***************************************************************************)
(* The channels that carry ONU indications from the goroutines that        *)
(* receive them (readIndications and reconcileOnus) to one                 *)
(* onuIndicationsRoutine per PON port, and their removal while both sides  *)
(* run (DeleteDevice, updateStateUnreachable, updateStateRebooted).        *)
(*                                                                         *)
(* A step is one section under perPonOnuIndicationChannelLock or one       *)
(* channel operation.  An indication is a number.                          *)
(***************************************************************************)
EXTENDS Integers, Sequences, FiniteSets

CONSTANTS
    Pons,         \* PON ports
    Senders,      \* the goroutines that put indications
    BufferSize,   \* capacity of indicationChannel (500 in the code)
    MaxInds,      \* bound: indications per PON port
    MaxRemovals   \* bound: calls of removeOnuIndicationChannels

VARIABLES
    perPonOnuIndicationChannel, \* channel number of each PON port, 0 when none
    chan,         \* all channels ever made: buffer, stop and closed flags, routine
    put,          \* where each sender is in putOnuIndicationToChannel
    sent,         \* indications put so far, per PON port
    removals,     \* calls of removeOnuIndicationChannels so far
    panicked      \* a send on a closed channel has ended the process

vars == <<perPonOnuIndicationChannel, chan, put, sent, removals, panicked>>

Chans == 1..Len(chan)

(* A new pair of channels with its goroutine in its select; handling is    *)
(* the indication the goroutine handles, 0 when there is none.             *)
NewChannels(p) == [pon |-> p, buf |-> <<>>, stop |-> FALSE, closed |-> FALSE,
                   running |-> TRUE, handling |-> 0]

NotPutting == [ch |-> 0, ind |-> 0]

Init ==
    /\ perPonOnuIndicationChannel = [p \in Pons |-> 0]
    /\ chan = <<>>
    /\ put = [s \in Senders |-> NotPutting]
    /\ sent = [p \in Pons |-> 0]
    /\ removals = 0
    /\ panicked = FALSE

-------------------------------------------------------------------------------
(* getOnuIndicationChannel, called by putOnuIndicationToChannel: the       *)
(* channel of the port or a new one, with its goroutine.                   *)
GetOnuIndicationChannel(s, p) ==
    /\ put[s] = NotPutting /\ sent[p] < MaxInds
    /\ IF perPonOnuIndicationChannel[p] # 0
       THEN UNCHANGED <<perPonOnuIndicationChannel, chan>>
       ELSE /\ chan' = Append(chan, NewChannels(p))
            /\ perPonOnuIndicationChannel' = [perPonOnuIndicationChannel EXCEPT ![p] = Len(chan')]
    /\ sent' = [sent EXCEPT ![p] = @ + 1]
    /\ put' = [put EXCEPT ![s] = [ch |-> perPonOnuIndicationChannel'[p], ind |-> sent'[p]]]
    /\ UNCHANGED <<removals, panicked>>

(* The send of putOnuIndicationToChannel, made without the lock. *)
SendOnuIndication(s) ==
    LET c == put[s].ch
    IN  /\ c # 0 /\ ~chan[c].closed /\ Len(chan[c].buf) < BufferSize
        /\ chan' = [chan EXCEPT ![c].buf = Append(@, put[s].ind)]
        /\ put' = [put EXCEPT ![s] = NotPutting]
        /\ UNCHANGED <<perPonOnuIndicationChannel, sent, removals, panicked>>

(* Go panics on a send on a closed channel, also one that was waiting. *)
SendPanics(s) ==
    /\ put[s].ch # 0 /\ chan[put[s].ch].closed
    /\ panicked' = TRUE
    /\ UNCHANGED <<perPonOnuIndicationChannel, chan, put, sent, removals>>

-------------------------------------------------------------------------------
(* onuIndicationsRoutine.  With both cases of the select ready, Go takes   *)
(* either of them.                                                         *)

TakeIndication(c) ==
    /\ chan[c].running /\ chan[c].handling = 0 /\ chan[c].buf # <<>>
    /\ chan' = [chan EXCEPT ![c].handling = Head(chan[c].buf), ![c].buf = Tail(@)]
    /\ UNCHANGED <<perPonOnuIndicationChannel, put, sent, removals, panicked>>

(* Mutant: the goroutine ends after one indication. *)
HandleIndicationOnce(c) ==
    /\ chan[c].handling # 0
    /\ chan' = [chan EXCEPT ![c].handling = 0, ![c].running = FALSE]
    /\ UNCHANGED <<perPonOnuIndicationChannel, put, sent, removals, panicked>>

HandleIndication(c) ==
    /\ chan[c].handling # 0
    /\ chan' = [chan EXCEPT ![c].handling = 0]
    /\ UNCHANGED <<perPonOnuIndicationChannel, put, sent, removals, panicked>>

StopRoutine(c) ==
    /\ chan[c].running /\ chan[c].handling = 0 /\ chan[c].stop
    /\ chan' = [chan EXCEPT ![c].running = FALSE, ![c].closed = TRUE]
    /\ UNCHANGED <<perPonOnuIndicationChannel, put, sent, removals, panicked>>

(* Mutant: the channels stay in the map. *)
RemoveOnuIndicationChannelsInPlace ==
    /\ removals < MaxRemovals
    /\ chan' = [c \in Chans |-> [chan[c] EXCEPT !.stop = TRUE]]
    /\ removals' = removals + 1
    /\ UNCHANGED <<perPonOnuIndicationChannel, put, sent, panicked>>

(* Mutant: the stop channels are not closed. *)
RemoveOnuIndicationChannelsMapOnly ==
    /\ removals < MaxRemovals
    /\ perPonOnuIndicationChannel' = [p \in Pons |-> 0]
    /\ removals' = removals + 1
    /\ UNCHANGED <<chan, put, sent, panicked>>

(* removeOnuIndicationChannels closes the stop channels of the ports in    *)
(* the map and replaces the map.                                           *)
RemoveOnuIndicationChannels ==
    /\ removals < MaxRemovals
    /\ chan' = [c \in Chans |-> [chan[c] EXCEPT
                    !.stop = @ \/ perPonOnuIndicationChannel[chan[c].pon] = c]]
    /\ perPonOnuIndicationChannel' = [p \in Pons |-> 0]
    /\ removals' = removals + 1
    /\ UNCHANGED <<put, sent, panicked>>

Next ==
    /\ ~panicked
    /\ \/ \E s \in Senders, p \in Pons : GetOnuIndicationChannel(s, p)
       \/ \E s \in Senders : SendOnuIndication(s) \/ SendPanics(s)
       \/ \E c \in Chans : TakeIndication(c) \/ HandleIndication(c) \/ StopRoutine(c)
       \/ RemoveOnuIndicationChannels

Spec == Init /\ [][Next]_vars

(* Bound on channels: one per port at first and after every removal. *)
MaxChans == (MaxRemovals + 1) * Cardinality(Pons)

(* Senders and routines run.  A select whose cases stay ready takes each   *)
(* of them at some time, hence strong fairness for the stop case.          *)
FairSpec ==
    /\ Spec
    /\ \A s \in Senders :
          WF_vars(~panicked /\ (SendOnuIndication(s) \/ SendPanics(s)))
    /\ \A c \in 1..MaxChans :
          /\ WF_vars(~panicked /\ c \in Chans /\ HandleIndication(c))
          /\ SF_vars(~panicked /\ c \in Chans /\ TakeIndication(c))
          /\ SF_vars(~panicked /\ c \in Chans /\ StopRoutine(c))

-------------------------------------------------------------------------------
(* The channel in the map has a goroutine that will take what is put into  *)
(* it: it is neither closed nor told to stop, and there is one per port.   *)
(* removeOnuIndicationChannels replaces the map in the section in which it *)
(* closes the stop channels.                                               *)
ChannelServed ==
    \A p \in Pons : perPonOnuIndicationChannel[p] # 0 =>
        LET ch == chan[perPonOnuIndicationChannel[p]]
        IN  ch.pon = p /\ ch.running /\ ~ch.stop /\ ~ch.closed

(* An indication that lies in a channel is taken, or the channel is        *)
(* removed: putOnuIndicationToChannel loses nothing by itself.             *)
IndicationsTaken ==
    \A c \in 1..MaxChans :
        (c \in Chans /\ chan[c].buf # <<>>)
            ~> (panicked \/ (c \in Chans /\ (chan[c].buf = <<>> \/ chan[c].stop)))

(* A sender that waits for room in a channel does not wait for ever: its   *)
(* send succeeds, or the channel is closed under it.                       *)
SendersReturn ==
    \A s \in Senders : (put[s] # NotPutting) ~> (panicked \/ put[s] = NotPutting)

(* A goroutine whose channel a removal has taken out of the map ends: no  *)
(* removal leaves a goroutine behind.                                      *)
RemovedRoutinesEnd ==
    \A c \in 1..MaxChans :
        (c \in Chans /\ perPonOnuIndicationChannel[chan[c].pon] # c)
            ~> (panicked \/ (c \in Chans /\ ~chan[c].running))

===============================================================================

---------------------------- MODULE HandlerRoutines ----------------------------
(***************************************************************************)
(* The routines that handle flows, one per ONU of a PON port               *)
(* (perOnuFlowHandlerRoutine), or multicast flows and groups, one per      *)
(* group number modulo 256 (mcastFlowOrGroupChannelHandlerRoutine); the    *)
(* callers of UpdateFlowsIncrementally that send requests to them and wait *)
(* for the answer; and the tear-downs that stop all routines: after a      *)
(* reboot of the OLT, at a reconnection and in DeleteDevice.               *)
(*                                                                         *)
(* Everything is read and written without a lock; a step is one channel    *)
(* operation or one access to a table.  Routines live in tables: the flow  *)
(* manager, made again by every initializeDeviceHandlerModules, or the     *)
(* DeviceHandler itself, for groups.                                       *)
(***************************************************************************)
EXTENDS Integers, Sequences, FiniteSets

CONSTANTS
    Kinds,      \* subset of {"flow", "mcast"}: what the requests are for
    Callers,    \* goroutines in UpdateFlowsIncrementally
    Idx,        \* routines of a table: ONU ids, or group numbers modulo 256
    ChanSize,   \* capacity of the request channels (20 and 256 in the code)
    Events,     \* subset of {"reboot", "reconnect", "delete"}
    MaxEvents,  \* bound: tear-downs
    MaxReqs     \* bound: requests per caller

VARIABLES
    up,         \* currentDeviceState = deviceStateUp
    deleting,   \* isDeviceDeletionInProgress
    table,      \* all tables; the last one is in use
    caller,     \* where each caller is
    teardown,   \* the step of the tear-down in progress
    events,     \* tear-downs so far
    kind        \* what the requests of this behaviour are for

vars == <<up, deleting, table, caller, teardown, events, kind>>

Tables == 1..Len(table)
Current == Len(table)

(* A routine is in its select, has taken the request of a caller, or is    *)
(* gone.                                                                   *)
InSelect == "select"
Gone     == "gone"
NoCall   == [at |-> "idle", t |-> 0, i |-> 0, reqs |-> 0, result |-> "none"]

ASSUME CallersAssumption == InSelect \notin Callers /\ Gone \notin Callers

(* NewFlowManager, and NewDeviceHandler for groups: a channel and an       *)
(* active routine for every index.                                         *)
NewTable ==
    [slice   |-> TRUE,                          \* the slice of channels is not nil
     nonNil  |-> Idx,                           \* the channels in it that are not nil
     active  |-> Idx,
     chan    |-> [i \in Idx |-> <<>>],
     routine |-> [i \in Idx |-> InSelect]]

(* A tear-down for event e has ended, or there was none yet. *)
Ended(e) == [step |-> "none", event |-> e, left |-> {}]
Quiet    == teardown.step = "none"

Init ==
    /\ up = TRUE
    /\ deleting = FALSE
    /\ table = <<NewTable>>
    /\ caller = [c \in Callers |-> NoCall]
    /\ teardown = Ended("none")
    /\ events = 0
    /\ kind \in Kinds

-------------------------------------------------------------------------------
(* Callers. *)

Goto(c, l) == caller' = [caller EXCEPT ![c].at = l]

Returns(c, result) == caller' = [caller EXCEPT ![c].at = "idle", ![c].result = result]

(* The tests at the head of UpdateFlowsIncrementally, for one request. *)
UpdateFlowsIncrementally(c, i) ==
    /\ caller[c].at = "idle" /\ caller[c].reqs < MaxReqs
    /\ caller' = [caller EXCEPT ![c] =
            [at     |-> IF deleting \/ ~up THEN "idle" ELSE "handle",
             t      |-> 0, i |-> i, reqs |-> @.reqs + 1,
             result |-> IF deleting THEN "dropped" ELSE IF ~up THEN "refused" ELSE "none"]]
    /\ UNCHANGED <<up, deleting, table, teardown, events, kind>>

(* handleFlows and handleGroups: the test of the flag, and the lookup of   *)
(* the flow manager, which is nil while the managers are made again.       *)
Lookup(c) == caller' = [caller EXCEPT ![c].at = "route", ![c].t = Current]

HandleFlows(c) ==
    /\ kind = "flow" /\ caller[c].at = "handle"
    /\ CASE deleting -> Returns(c, "dropped")
         [] ~deleting /\ teardown.step = "rebuild" -> Lookup(c) \/ Returns(c, "refused")
         [] OTHER -> Lookup(c)
    /\ UNCHANGED <<up, deleting, table, teardown, events, kind>>

HandleGroups(c) ==
    /\ kind = "mcast" /\ caller[c].at = "handle"
    /\ IF deleting THEN Returns(c, "dropped") ELSE Lookup(c)
    /\ UNCHANGED <<up, deleting, table, teardown, events, kind>>

(* The tests of a routing function: a deletion drops the request without   *)
(* an error, an inactive routine refuses it.                               *)
Route(c) ==
    /\ caller[c].at = "route"
    /\ CASE deleting -> Returns(c, "dropped")
         [] ~deleting /\ caller[c].i \in table[caller[c].t].active -> Goto(c, "pick")
         [] OTHER -> Returns(c, "refused")
    /\ UNCHANGED <<up, deleting, table, teardown, events, kind>>

RouteFlowToOnuChannel(c)             == kind = "flow" /\ Route(c)
RouteMcastFlowOrGroupMsgToChannel(c) == kind = "mcast" /\ Route(c)

(* The channel operand of the send: an index into a nil slice panics, a    *)
(* nil channel blocks for ever.                                            *)
PickChannel(c) ==
    /\ caller[c].at = "pick"
    /\ LET tb == table[caller[c].t]
       IN  Goto(c, IF ~tb.slice THEN "panic"
                   ELSE IF caller[c].i \notin tb.nonNil THEN "stuck"
                   ELSE "send")
    /\ UNCHANGED <<up, deleting, table, teardown, events, kind>>

(* Mutant: the caller does not wait for the answer. *)
SendAndForget(c) ==
    LET t == caller[c].t
        i == caller[c].i
    IN  /\ caller[c].at = "send" /\ Len(table[t].chan[i]) < ChanSize
        /\ table' = [table EXCEPT ![t].chan[i] = Append(@, c)]
        /\ Goto(c, "idle")
        /\ UNCHANGED <<up, deleting, teardown, events, kind>>

(* The send on the buffered channel; the caller then waits on its errChan. *)
SendRequest(c) ==
    LET t == caller[c].t
        i == caller[c].i
    IN  /\ caller[c].at = "send" /\ Len(table[t].chan[i]) < ChanSize
        /\ table' = [table EXCEPT ![t].chan[i] = Append(@, c)]
        /\ Goto(c, "wait")
        /\ UNCHANGED <<up, deleting, teardown, events, kind>>

-------------------------------------------------------------------------------
(* Routines. *)

TakeRequest(t, i) ==
    /\ table[t].routine[i] = InSelect /\ table[t].chan[i] # <<>>
    /\ table' = [table EXCEPT ![t].routine[i] = Head(table[t].chan[i]), ![t].chan[i] = Tail(@)]
    /\ UNCHANGED <<up, deleting, caller, teardown, events, kind>>

(* Mutant: a routine ends after its first request. *)
AnswerRequestOnce(t, i) ==
    LET c == table[t].routine[i]
    IN  /\ c \in Callers /\ caller[c].at = "wait"
        /\ table' = [table EXCEPT ![t].routine[i] = Gone]
        /\ Returns(c, "answered")
        /\ UNCHANGED <<up, deleting, teardown, events, kind>>

(* The request is handled; the answer is passed on an unbuffered channel   *)
(* when the caller waits there.                                            *)
AnswerRequest(t, i) ==
    LET c == table[t].routine[i]
    IN  /\ c \in Callers /\ caller[c].at = "wait"
        /\ table' = [table EXCEPT ![t].routine[i] = InSelect]
        /\ Returns(c, "answered")
        /\ UNCHANGED <<up, deleting, teardown, events, kind>>

PerOnuFlowHandlerRoutine(t, i) ==
    kind = "flow" /\ (TakeRequest(t, i) \/ AnswerRequest(t, i))

McastFlowOrGroupChannelHandlerRoutine(t, i) ==
    kind = "mcast" /\ (TakeRequest(t, i) \/ AnswerRequest(t, i))

-------------------------------------------------------------------------------
(* Tear-downs.  One runs at a time: deletion, reboot and reconnection      *)
(* follow each other.                                                      *)

(* Mutant: StopAll does not wait for the routines. *)
StopAllNoWait(e) == [step |-> "stop", event |-> e, left |-> {}]

(* StopAllFlowRoutines begins: the slice of the stop channels of a flow    *)
(* manager is nil when it was stopped before, that of the group routines   *)
(* is kept.                                                                *)
StopAll(e) ==
    [step |-> "stop", event |-> e,
     left |-> IF kind = "flow" /\ ~table[Current].slice THEN {} ELSE Idx]

(* updateStateRebooted and DeleteDevice raise the deletion flag while the  *)
(* device is Up; a lost connection takes it out of Up.                     *)
BeginTeardown(e) ==
    /\ Quiet /\ ~deleting /\ events < MaxEvents
    /\ events' = events + 1
    /\ deleting' = (e \in {"reboot", "delete"})
    /\ up' = (e # "reconnect")
    /\ teardown' = StopAll(e)
    /\ UNCHANGED <<table, caller, kind>>

(* One turn of the loop of StopAll: the routine takes the stop value in    *)
(* its select, clears its flag and returns; or it was not active.          *)
StopRoutine(i) ==
    LET tb == table[Current]
    IN  /\ teardown.step = "stop" /\ i \in teardown.left
        /\ \A j \in teardown.left : i <= j
        /\ \/ i \notin tb.active /\ UNCHANGED table
           \/ /\ i \in tb.active /\ tb.routine[i] = InSelect
              /\ table' = [table EXCEPT ![Current].active = @ \ {i},
                                        ![Current].routine[i] = Gone]
        /\ teardown' = [teardown EXCEPT !.left = @ \ {i}]
        /\ UNCHANGED <<up, deleting, caller, events, kind>>

(* The loops end: the channels in the slice are set to nil one by one,     *)
(* then the slice itself.                                                  *)
ClearChannels ==
    /\ teardown.step = "stop" /\ teardown.left = {}
    /\ teardown' = [teardown EXCEPT !.step = "drop"]
    /\ table' = [table EXCEPT ![Current].nonNil = {}]
    /\ UNCHANGED <<up, deleting, caller, events, kind>>

(* wg.Done: StopAllFlowRoutines returns to its caller.  A failed deletion  *)
(* lowers the flag and leaves the device as it is; the clean-up after a    *)
(* reboot lowers it and goes on with the initialisation.                   *)
StopAllDone ==
    /\ teardown.step = "drop"
    /\ table' = [table EXCEPT ![Current].slice = FALSE]
    /\ CASE teardown.event = "delete" ->
              /\ teardown' = Ended("delete")
              /\ deleting' \in BOOLEAN
         [] teardown.event = "reboot" ->
              /\ teardown' = [teardown EXCEPT !.step = "reinit"]
              /\ deleting' = FALSE
         [] OTHER ->
              /\ teardown' = [teardown EXCEPT !.step = "rebuild"]
              /\ UNCHANGED deleting
    /\ UNCHANGED <<up, caller, events, kind>>

(* The state machine leaves Up, and initializeDeviceHandlerModules begins  *)
(* with StopAllFlowRoutines.                                               *)
Reinitialize ==
    /\ teardown.step = "reinit"
    /\ up' = FALSE
    /\ teardown' = StopAll("reconnect")
    /\ UNCHANGED <<deleting, table, caller, events, kind>>

(* initializeDeviceHandlerModules makes new flow managers; doStateUp       *)
(* starts the group routines that are not active, for the indices of the   *)
(* slice of channels.                                                      *)
RestartMcast(tb) ==
    IF tb.slice
    THEN [tb EXCEPT !.active  = Idx,
                    !.routine = [i \in Idx |-> IF i \in tb.active THEN tb.routine[i] ELSE InSelect]]
    ELSE tb

(* Mutant: the flow managers are not made again. *)
RebuiltKept == [table EXCEPT ![Current] = RestartMcast(@)]

Rebuilt ==
    IF kind = "flow" THEN Append(table, NewTable)
    ELSE [table EXCEPT ![Current] = RestartMcast(@)]

Rebuild ==
    /\ teardown.step = "rebuild"
    /\ table' = Rebuilt
    /\ up' = TRUE
    /\ teardown' = Ended("reconnect")
    /\ UNCHANGED <<deleting, caller, events, kind>>

Panicked == \E c \in Callers : caller[c].at = "panic"

Next ==
    /\ ~Panicked
    /\ \/ \E c \in Callers, i \in Idx : UpdateFlowsIncrementally(c, i)
       \/ \E c \in Callers : \/ HandleFlows(c)
                             \/ HandleGroups(c)
                             \/ RouteFlowToOnuChannel(c)
                             \/ RouteMcastFlowOrGroupMsgToChannel(c)
                             \/ PickChannel(c)
                             \/ SendRequest(c)
       \/ \E t \in Tables, i \in Idx : \/ PerOnuFlowHandlerRoutine(t, i)
                                       \/ McastFlowOrGroupChannelHandlerRoutine(t, i)
       \/ \E e \in Events : BeginTeardown(e)
       \/ \E i \in Idx : StopRoutine(i)
       \/ ClearChannels \/ StopAllDone \/ Reinitialize \/ Rebuild

Spec == Init /\ [][Next]_vars

(* Callers, routines and the tear-down run.  The channels serve waiting    *)
(* goroutines in order, and a select whose cases stay ready takes each of  *)
(* them at some time, hence strong fairness.                               *)
FairSpec ==
    /\ Spec
    /\ \A c \in Callers :
          /\ WF_vars(~Panicked /\ (HandleFlows(c) \/ HandleGroups(c)))
          /\ WF_vars(~Panicked /\ (RouteFlowToOnuChannel(c) \/ RouteMcastFlowOrGroupMsgToChannel(c)))
          /\ WF_vars(~Panicked /\ PickChannel(c))
          /\ SF_vars(~Panicked /\ SendRequest(c))
    /\ \A t \in 1..(MaxEvents + 1), i \in Idx :
          SF_vars(~Panicked /\ t \in Tables /\ (PerOnuFlowHandlerRoutine(t, i)
                                  \/ McastFlowOrGroupChannelHandlerRoutine(t, i)))
    /\ \A i \in Idx : SF_vars(~Panicked /\ StopRoutine(i))
    /\ WF_vars(~Panicked /\ (ClearChannels \/ StopAllDone \/ Reinitialize \/ Rebuild))

-------------------------------------------------------------------------------
(* The refinement: a caller between its first test and its return has an   *)
(* open request, and a routine of any table that holds a request serves it.*)

RequestOf(c) ==
    CASE caller[c].at # "idle"                       -> "open"
      [] caller[c].at = "idle" /\ caller[c].result \in {"dropped", "refused"} -> "refused"
      [] OTHER                                       -> caller[c].result

ServingNow == {x \in Idx \X Callers : \E t \in Tables : table[t].routine[x[1]] = x[2]}

Service == INSTANCE SerialService
    WITH request <- [c \in Callers |-> RequestOf(c)], serving <- ServingNow

(* The routines implement the abstract service: the requests for one ONU,  *)
(* or for the groups of one index, are served one at a time, also across   *)
(* the flow managers that follow each other in tear-downs, each at most    *)
(* once, and who waits for an answer gets that of its own request.  That   *)
(* the tables do not overlap in time rests on StopAll, which waits until   *)
(* the routines have taken the stop value.                                 *)
ServesSerially == Service!SSpec

(* Unless a tear-down begins, a caller of UpdateFlowsIncrementally         *)
(* returns: it does not wait for ever for room in a channel, for the       *)
(* routine or for the answer.                                              *)
RequestsReturn ==
    \A c \in Callers : (caller[c].at # "idle") ~> (caller[c].at = "idle" \/ events > 0)

(* A tear-down comes to its end: StopAll does not wait for ever for a      *)
(* routine that waits for its caller.                                      *)
TeardownEnds == ~Quiet ~> (Quiet \/ Panicked)

(* A device that is Up after a reboot or a reconnection has an active      *)
(* routine for the flows of every ONU, whatever tear-downs came before.    *)
ActiveWhenUp ==
    kind = "flow" /\ up /\ Quiet /\ ~deleting /\ teardown.event # "delete"
        => table[Current].active = Idx
===============================================================================

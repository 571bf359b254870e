----------------------------- MODULE HandlerProofs -----------------------------
(***************************************************************************)
(* The handler routines implement SerialService.  Two invariants carry the *)
(* proof.  Located: a request is in one place, so that a routine never     *)
(* takes the request of a caller that another one serves.  Stopped: a      *)
(* routine that is not active is gone, and tables that are replaced have   *)
(* no active routine, so that routines of two tables never serve at once.  *)
(***************************************************************************)
EXTENDS HandlerRoutines, TLAPS

Table == [slice : BOOLEAN, nonNil : SUBSET Idx, active : SUBSET Idx,
          chan : [Idx -> Seq(Callers)], routine : [Idx -> Callers \cup {InSelect, Gone}]]

Call == [at : {"idle", "handle", "route", "pick", "send", "wait", "stuck", "panic"},
         t : Nat, i : Idx \cup {0}, reqs : Int,
         result : {"none", "dropped", "refused", "answered"}]

(* The call is for a routine, and from the lookup on for a table. *)
Aims(r) ==
    /\ r.at \notin {"idle"} => r.i \in Idx
    /\ r.at \in {"route", "pick", "send", "wait"} => r.t \in Tables

Typed ==
    /\ table \in Seq(Table) /\ Len(table) > 0
    /\ caller \in [Callers -> Call]
    /\ \A c \in Callers : Aims(caller[c])
    /\ teardown \in [step : {"none", "stop", "drop", "reinit", "rebuild"},
                     event : {"none"} \cup Events \cup {"delete", "reconnect"}, left : SUBSET Idx]

Waits(c, t, i) == caller[c].at = "wait" /\ caller[c].t = t /\ caller[c].i = i

LocatedAt(t, i) ==
    /\ \A k \in 1..Len(table[t].chan[i]) :
          /\ Waits(table[t].chan[i][k], t, i)
          /\ table[t].routine[i] # table[t].chan[i][k]
          /\ \A l \in 1..Len(table[t].chan[i]) : table[t].chan[i][k] = table[t].chan[i][l] => k = l
    /\ table[t].routine[i] \in Callers => Waits(table[t].routine[i], t, i)

Located == \A t \in Tables, i \in Idx : LocatedAt(t, i)

Stopped ==
    /\ \A t \in Tables, i \in Idx : i \notin table[t].active => table[t].routine[i] = Gone
    /\ \A t \in Tables : t # Current \/ ~table[t].slice => table[t].active = {}
    /\ teardown.step = "stop" => table[Current].active \subseteq teardown.left
    /\ teardown.step \in {"drop", "reinit", "rebuild"} => table[Current].active = {}

-------------------------------------------------------------------------------
(* What the steps of callers do to the call of c: the new call is r. *)
CallerMove(c, r) ==
    /\ caller' = [caller EXCEPT ![c] = r]
    /\ UNCHANGED <<table, teardown>>
    /\ caller[c].at # "wait" /\ r.at # "wait"
    /\ Aims(r)
    /\ r.at = "idle" => r.result \in {"dropped", "refused"}

LEMMA CallerSteps ==
    ASSUME Typed, NEW c \in Callers,
           \/ \E i \in Idx : UpdateFlowsIncrementally(c, i)
           \/ HandleFlows(c) \/ HandleGroups(c)
           \/ RouteFlowToOnuChannel(c) \/ RouteMcastFlowOrGroupMsgToChannel(c)
           \/ PickChannel(c)
    PROVE  \E r \in Call : CallerMove(c, r)
<1>1. /\ caller[c] \in Call /\ Aims(caller[c]) /\ caller \in [Callers -> Call]
      /\ Current \in Tables /\ Current \in Nat
  BY DEF Typed, Tables, Current
<1>2. ASSUME NEW l \in {"route", "pick", "send", "stuck", "panic"}, Goto(c, l),
             caller[c].at \in {"route", "pick"}, UNCHANGED <<table, teardown>>
      PROVE  \E r \in Call : CallerMove(c, r)
  <2>1. [caller[c] EXCEPT !.at = l] \in Call
    BY <1>1 DEF Call
  <2>2. caller' = [caller EXCEPT ![c] = [caller[c] EXCEPT !.at = l]]
    BY <1>2 DEF Goto
  <2>3. CallerMove(c, [caller[c] EXCEPT !.at = l])
    BY <1>1, <1>2, <2>1, <2>2 DEF CallerMove, Aims, Call
  <2>. QED  BY <2>1, <2>3
<1>3. ASSUME NEW res \in {"dropped", "refused"}, Returns(c, res),
             caller[c].at \in {"handle", "route"}, UNCHANGED <<table, teardown>>
      PROVE  \E r \in Call : CallerMove(c, r)
  <2>1. [caller[c] EXCEPT !.at = "idle", !.result = res] \in Call
    BY Zenon, <1>1 DEF Call
  <2>2. caller' = [caller EXCEPT ![c] = [caller[c] EXCEPT !.at = "idle", !.result = res]]
    BY Zenon, <1>1, <1>3 DEF Returns, Call
  <2>3. CallerMove(c, [caller[c] EXCEPT !.at = "idle", !.result = res])
    BY <1>1, <1>3, <2>1, <2>2 DEF CallerMove, Aims, Call
  <2>. QED  BY <2>1, <2>3
<1>4. ASSUME Lookup(c), caller[c].at = "handle", UNCHANGED <<table, teardown>>
      PROVE  \E r \in Call : CallerMove(c, r)
  <2>1. [caller[c] EXCEPT !.at = "route", !.t = Current] \in Call
    BY Zenon, <1>1 DEF Call
  <2>2. caller' = [caller EXCEPT ![c] = [caller[c] EXCEPT !.at = "route", !.t = Current]]
    BY Zenon, <1>1, <1>4 DEF Lookup, Call
  <2>3. CallerMove(c, [caller[c] EXCEPT !.at = "route", !.t = Current])
    BY <1>1, <1>4, <2>1, <2>2 DEF CallerMove, Aims, Call
  <2>. QED  BY <2>1, <2>3
<1>5. ASSUME NEW i \in Idx, UpdateFlowsIncrementally(c, i)
      PROVE  \E r \in Call : CallerMove(c, r)
  <2>1. PICK a \in {"idle", "handle"}, res \in {"none", "dropped", "refused"} :
          /\ caller' = [caller EXCEPT ![c] =
                          [at |-> a, t |-> 0, i |-> i, reqs |-> caller[c].reqs + 1, result |-> res]]
          /\ a = "idle" => res \in {"dropped", "refused"}
    BY Zenon, <1>5 DEF UpdateFlowsIncrementally
  <2>2. [at |-> a, t |-> 0, i |-> i, reqs |-> caller[c].reqs + 1, result |-> res] \in Call
    BY <1>1 DEF Call
  <2>3. CallerMove(c, [at |-> a, t |-> 0, i |-> i, reqs |-> caller[c].reqs + 1, result |-> res])
    BY Zenon, <1>5, <2>1 DEF CallerMove, Aims, UpdateFlowsIncrementally
  <2>. QED  BY <2>2, <2>3
<1>6. ASSUME HandleFlows(c) \/ HandleGroups(c) PROVE \E r \in Call : CallerMove(c, r)
  BY <1>3, <1>4, <1>6 DEF HandleFlows, HandleGroups
<1>7. ASSUME Route(c) PROVE \E r \in Call : CallerMove(c, r)
  BY <1>2, <1>3, <1>7 DEF Route
<1>8. ASSUME PickChannel(c) PROVE \E r \in Call : CallerMove(c, r)
  <2>1. PICK l \in {"panic", "stuck", "send"} : Goto(c, l)
    BY <1>8 DEF PickChannel
  <2>. QED  BY <1>2, <1>8, <2>1 DEF PickChannel
<1>. QED
  BY <1>5, <1>6, <1>7, <1>8 DEF RouteFlowToOnuChannel, RouteMcastFlowOrGroupMsgToChannel

-------------------------------------------------------------------------------
(* What the other steps do to a table t: the new table is tb. *)

LEMMA TableMove ==
    ASSUME Typed, NEW t \in Tables, NEW tb \in Table, table' = [table EXCEPT ![t] = tb]
    PROVE  /\ table' \in Seq(Table) /\ Len(table') > 0
           /\ Tables' = Tables /\ Current' = Current
           /\ \A u \in Tables : table'[u] = IF u = t THEN tb ELSE table[u]
BY DEF Typed, Tables, Current

LEMMA TableTyped ==
    ASSUME Typed
    PROVE  /\ Current \in Tables
           /\ \A t \in Tables : table[t] \in Table
BY DEF Typed, Tables, Current

Sends(c, t, i, tb, r) ==
    /\ table' = [table EXCEPT ![t] = tb] /\ caller' = [caller EXCEPT ![c] = r]
    /\ UNCHANGED teardown
    /\ caller[c].at = "send" /\ r.at = "wait" /\ r.t = t /\ r.i = i
    /\ tb.slice = table[t].slice /\ tb.active = table[t].active
    /\ tb.routine = table[t].routine
    /\ tb.chan = [table[t].chan EXCEPT ![i] = Append(@, c)]

LEMMA SendFacts ==
    ASSUME Typed, NEW c \in Callers, SendRequest(c)
    PROVE  \E t \in Tables, i \in Idx, tb \in Table, r \in Call : Sends(c, t, i, tb, r)
<1>1. PICK t \in Tables, i \in Idx : t = caller[c].t /\ i = caller[c].i
  BY DEF Typed, Aims, SendRequest
<1>2. table[t] \in Table /\ caller[c] \in Call
  BY TableTyped DEF Typed
<1>3. table[t].chan[i] \in Seq(Callers) /\ table[t].chan \in [Idx -> Seq(Callers)]
  BY <1>2 DEF Table
<1>4. Append(table[t].chan[i], c) \in Seq(Callers)
  BY <1>3
<1>5. [table[t].chan EXCEPT ![i] = Append(@, c)] \in [Idx -> Seq(Callers)]
  BY <1>3, <1>4
<1>6. [table[t] EXCEPT !.chan[i] = Append(@, c)] \in Table
  BY Zenon, <1>2, <1>5 DEF Table
<1>7. [caller[c] EXCEPT !.at = "wait"] \in Call
  BY <1>2 DEF Call
<1>8. /\ table' = [table EXCEPT ![t] = [table[t] EXCEPT !.chan[i] = Append(@, c)]]
      /\ caller' = [caller EXCEPT ![c] = [caller[c] EXCEPT !.at = "wait"]]
      /\ UNCHANGED teardown /\ caller[c].at = "send"
  BY Zenon, <1>1 DEF SendRequest, Goto
<1>9. PICK tb \in Table : tb = [table[t] EXCEPT !.chan[i] = Append(@, c)]
  BY <1>6
<1>10. /\ tb.slice = table[t].slice /\ tb.active = table[t].active
       /\ tb.routine = table[t].routine
       /\ tb.chan = [table[t].chan EXCEPT ![i] = Append(@, c)]
  BY <1>2, <1>9 DEF Table
<1>11. PICK r \in Call : r = [caller[c] EXCEPT !.at = "wait"]
  BY <1>7
<1>12. r.at = "wait" /\ r.t = t /\ r.i = i
  BY <1>1, <1>2, <1>11 DEF Call
<1>13. /\ table' = [table EXCEPT ![t] = tb] /\ caller' = [caller EXCEPT ![c] = r]
       /\ UNCHANGED teardown /\ caller[c].at = "send"
  BY <1>8, <1>9, <1>11
<1>14. Sends(c, t, i, tb, r)
  BY <1>10, <1>12, <1>13 DEF Sends
<1>. QED  BY <1>14

Takes(t, i, tb) ==
    /\ table' = [table EXCEPT ![t] = tb]
    /\ UNCHANGED <<caller, teardown>>
    /\ tb.slice = table[t].slice /\ tb.active = table[t].active
    /\ table[t].routine[i] = InSelect /\ table[t].chan[i] # <<>>
    /\ tb.routine = [table[t].routine EXCEPT ![i] = Head(table[t].chan[i])]
    /\ tb.chan = [table[t].chan EXCEPT ![i] = Tail(@)]

LEMMA TakeFacts ==
    ASSUME Typed, NEW t \in Tables, NEW i \in Idx, TakeRequest(t, i)
    PROVE  \E tb \in Table : Takes(t, i, tb)
<1>2. table[t] \in Table
  BY TableTyped
<1>3. /\ table[t].chan[i] \in Seq(Callers) /\ table[t].chan \in [Idx -> Seq(Callers)]
      /\ table[t].routine \in [Idx -> Callers \cup {InSelect, Gone}]
      /\ table[t].chan[i] # <<>>
  BY <1>2 DEF Table, TakeRequest
<1>4. Head(table[t].chan[i]) \in Callers /\ Tail(table[t].chan[i]) \in Seq(Callers)
  BY <1>3
<1>5. /\ [table[t].chan EXCEPT ![i] = Tail(@)] \in [Idx -> Seq(Callers)]
      /\ [table[t].routine EXCEPT ![i] = Head(table[t].chan[i])]
            \in [Idx -> Callers \cup {InSelect, Gone}]
  BY <1>3, <1>4
<1>6. [table[t] EXCEPT !.routine[i] = Head(table[t].chan[i]), !.chan[i] = Tail(@)] \in Table
  BY Zenon, <1>2, <1>5 DEF Table
<1>7. table' = [table EXCEPT ![t] =
                  [table[t] EXCEPT !.routine[i] = Head(table[t].chan[i]), !.chan[i] = Tail(@)]]
  BY Zenon, <1>2 DEF TakeRequest, Table, Typed
<1>. QED  BY Zenon, <1>2, <1>6, <1>7 DEF Table, TakeRequest, Takes

Answers(t, i, tb, c, r) ==
    /\ table' = [table EXCEPT ![t] = tb] /\ caller' = [caller EXCEPT ![c] = r]
    /\ UNCHANGED teardown
    /\ c = table[t].routine[i]
    /\ r.at = "idle" /\ r.result = "answered"
    /\ tb.slice = table[t].slice /\ tb.active = table[t].active
    /\ tb.routine = [table[t].routine EXCEPT ![i] = InSelect]
    /\ tb.chan = table[t].chan

LEMMA AnswerFacts ==
    ASSUME Typed, NEW t \in Tables, NEW i \in Idx, AnswerRequest(t, i)
    PROVE  \E tb \in Table, c \in Callers, r \in Call : Answers(t, i, tb, c, r)
<1>1. PICK c \in Callers : c = table[t].routine[i]
  BY DEF AnswerRequest
<1>2. table[t] \in Table /\ caller[c] \in Call
  BY TableTyped DEF Typed
<1>3. [table[t].routine EXCEPT ![i] = InSelect] \in [Idx -> Callers \cup {InSelect, Gone}]
  BY <1>2 DEF Table
<1>4. [table[t] EXCEPT !.routine[i] = InSelect] \in Table
  BY Zenon, <1>2, <1>3 DEF Table
<1>5. [caller[c] EXCEPT !.at = "idle", !.result = "answered"] \in Call
  BY Zenon, <1>2 DEF Call
<1>6. table' = [table EXCEPT ![t] = [table[t] EXCEPT !.routine[i] = InSelect]] /\ UNCHANGED teardown
  BY DEF AnswerRequest
<1>7. caller' = [caller EXCEPT ![c] = [caller[c] EXCEPT !.at = "idle", !.result = "answered"]]
  BY Zenon, <1>1, <1>2 DEF AnswerRequest, Returns, Typed, Call
<1>8. PICK tb \in Table : tb = [table[t] EXCEPT !.routine[i] = InSelect]
  BY <1>4
<1>9. PICK r \in Call : r = [caller[c] EXCEPT !.at = "idle", !.result = "answered"]
  BY <1>5
<1>10. r.at = "idle" /\ r.result = "answered"
  BY <1>2, <1>9 DEF Call
<1>11. /\ tb.slice = table[t].slice /\ tb.active = table[t].active
       /\ tb.routine = [table[t].routine EXCEPT ![i] = InSelect]
       /\ tb.chan = table[t].chan
  BY <1>2, <1>8 DEF Table
<1>12. Answers(t, i, tb, c, r)
  BY <1>1, <1>6, <1>7, <1>8, <1>9, <1>10, <1>11 DEF Answers
<1>. QED  BY <1>12

(* The steps of tear-downs: a routine is stopped, or a table keeps its     *)
(* active routines, or one without slice is started again.                 *)
LEMMA StopFacts ==
    ASSUME Typed, NEW i \in Idx, StopRoutine(i)
    PROVE  /\ UNCHANGED caller
           /\ teardown.step = "stop" /\ teardown' = [teardown EXCEPT !.left = @ \ {i}]
           /\ \/ i \notin table[Current].active /\ UNCHANGED table
              \/ \E tb \in Table :
                   /\ table' = [table EXCEPT ![Current] = tb]
                   /\ table[Current].routine[i] = InSelect
                   /\ tb.slice = table[Current].slice
                   /\ tb.active = table[Current].active \ {i}
                   /\ tb.routine = [table[Current].routine EXCEPT ![i] = Gone]
                   /\ tb.chan = table[Current].chan
<1>1. table[Current] \in Table
  BY TableTyped
<1>2. /\ [table[Current].routine EXCEPT ![i] = Gone] \in [Idx -> Callers \cup {InSelect, Gone}]
      /\ table[Current].active \ {i} \in SUBSET Idx
  BY <1>1 DEF Table
<1>3. ASSUME table' = [table EXCEPT ![Current].active = @ \ {i}, ![Current].routine[i] = Gone],
             table[Current].routine[i] = InSelect
      PROVE  \E tb \in Table :
                   /\ table' = [table EXCEPT ![Current] = tb]
                   /\ table[Current].routine[i] = InSelect
                   /\ tb.slice = table[Current].slice
                   /\ tb.active = table[Current].active \ {i}
                   /\ tb.routine = [table[Current].routine EXCEPT ![i] = Gone]
                   /\ tb.chan = table[Current].chan
  <2>1. [table[Current] EXCEPT !.active = @ \ {i}, !.routine[i] = Gone] \in Table
    BY Zenon, <1>1, <1>2 DEF Table
  <2>2. PICK tb \in Table : tb = [table[Current] EXCEPT !.active = @ \ {i}, !.routine[i] = Gone]
    BY <2>1
  <2>3. table' = [table EXCEPT ![Current] = tb]
    <3>1. table \in Seq(Table) /\ Current \in 1..Len(table)
      BY TableTyped DEF Typed, Tables
    <3>2. {"active", "routine"} \subseteq DOMAIN table[Current]
      BY <1>1 DEF Table
    <3>. QED  BY Zenon, <1>3, <2>2, <3>1, <3>2
  <2>. QED  BY Zenon, <1>1, <1>3, <2>2, <2>3 DEF Table
<1>. QED  BY Zenon, <1>3 DEF StopRoutine

LEMMA ClearFacts ==
    ASSUME Typed, ClearChannels \/ StopAllDone
    PROVE  /\ UNCHANGED caller
           /\ \E tb \in Table :
                /\ table' = [table EXCEPT ![Current] = tb]
                /\ tb.active = table[Current].active
                /\ tb.routine = table[Current].routine
                /\ tb.chan = table[Current].chan
<1>1. table[Current] \in Table
  BY TableTyped
<1>2. /\ [table[Current] EXCEPT !.nonNil = {}] \in Table
      /\ [table[Current] EXCEPT !.slice = FALSE] \in Table
  BY Zenon, <1>1 DEF Table
<1>3. CASE ClearChannels
  <2>1. PICK tb \in Table : tb = [table[Current] EXCEPT !.nonNil = {}]
    BY <1>2
  <2>2. table' = [table EXCEPT ![Current] = tb] /\ UNCHANGED caller
    BY <1>3, <2>1 DEF ClearChannels
  <2>. QED  BY Zenon, <1>1, <2>1, <2>2 DEF Table
<1>4. CASE StopAllDone
  <2>1. PICK tb \in Table : tb = [table[Current] EXCEPT !.slice = FALSE]
    BY <1>2
  <2>2. table' = [table EXCEPT ![Current] = tb] /\ UNCHANGED caller
    BY <1>4, <2>1 DEF StopAllDone
  <2>. QED  BY Zenon, <1>1, <2>1, <2>2 DEF Table
<1>. QED  BY <1>3, <1>4

LEMMA RebuildFacts ==
    ASSUME Typed, Rebuild
    PROVE  /\ UNCHANGED caller
           /\ \/ table' = Append(table, NewTable)
              \/ \E tb \in Table :
                   /\ table' = [table EXCEPT ![Current] = tb]
                   /\ tb.slice = table[Current].slice
                   /\ tb.chan = table[Current].chan
                   /\ \/ /\ tb.active = table[Current].active
                         /\ tb.routine = table[Current].routine
                      \/ /\ tb.slice /\ tb.active = Idx
                         /\ \A i \in Idx : tb.routine[i] \in {table[Current].routine[i], InSelect}
<1>1. table[Current] \in Table
  BY TableTyped
<1>2. CASE kind = "flow"
  BY <1>2 DEF Rebuild, Rebuilt
<1>3. CASE kind # "flow" /\ ~table[Current].slice
  <2>1. table' = [table EXCEPT ![Current] = table[Current]] /\ UNCHANGED caller
    BY <1>3 DEF Rebuild, Rebuilt, RestartMcast
  <2>. QED  BY Zenon, <1>1, <2>1
<1>4. CASE kind # "flow" /\ table[Current].slice
  <2>1. [i \in Idx |-> IF i \in table[Current].active THEN table[Current].routine[i] ELSE InSelect]
           \in [Idx -> Callers \cup {InSelect, Gone}]
    BY <1>1 DEF Table
  <2>2. PICK f \in [Idx -> Callers \cup {InSelect, Gone}] :
          f = [i \in Idx |-> IF i \in table[Current].active THEN table[Current].routine[i] ELSE InSelect]
    BY Zenon, <2>1
  <2>3. PICK tb \in Table : tb = [table[Current] EXCEPT !.active = Idx, !.routine = f]
    BY Zenon, <1>1 DEF Table
  <2>4. table' = [table EXCEPT ![Current] = tb] /\ UNCHANGED caller
    BY <1>4, <2>2, <2>3 DEF Rebuild, Rebuilt, RestartMcast
  <2>5. /\ tb.slice = table[Current].slice /\ tb.chan = table[Current].chan
        /\ tb.active = Idx /\ tb.routine = f
    BY <1>1, <2>3 DEF Table
  <2>6. \A i \in Idx : tb.routine[i] \in {table[Current].routine[i], InSelect}
    BY <2>2, <2>5
  <2>. QED  BY Zenon, <1>4, <2>4, <2>5, <2>6
<1>. QED  BY <1>2, <1>3, <1>4

-------------------------------------------------------------------------------
(* The invariants are preserved. *)

LEMMA BeginFacts ==
    ASSUME Typed, (\E e \in Events : BeginTeardown(e)) \/ Reinitialize
    PROVE  /\ UNCHANGED <<table, caller>>
           /\ \E e \in Events \cup {"reconnect"} : teardown' = StopAll(e)
BY DEF BeginTeardown, Reinitialize

LEMMA AimsKept ==
    ASSUME Typed, UNCHANGED caller, Tables \subseteq Tables'
    PROVE  \A c \in Callers : Aims(caller[c])'
BY DEF Typed, Aims

LEMMA TypedStep == ASSUME Typed, [Next]_vars PROVE Typed'
<1>1. ASSUME NEW c \in Callers, NEW r \in Call, CallerMove(c, r) PROVE Typed'
  <2>1. Tables' = Tables
    BY <1>1 DEF CallerMove, Tables
  <2>2. \A d \in Callers : Aims(caller[d])'
    BY <1>1, <2>1 DEF CallerMove, Typed, Aims
  <2>. QED  BY <1>1, <2>2 DEF CallerMove, Typed
<1>2. ASSUME NEW c \in Callers, SendRequest(c) PROVE Typed'
  <2>1. PICK t \in Tables, i \in Idx, tb \in Table, r \in Call : Sends(c, t, i, tb, r)
    BY <1>2, SendFacts
  <2>2. table' \in Seq(Table) /\ Len(table') > 0 /\ Tables' = Tables
    BY Zenon, <2>1, TableMove DEF Sends
  <2>3. \A d \in Callers : Aims(caller[d])'
    BY <2>1, <2>2 DEF Typed, Aims, Sends
  <2>. QED  BY <2>1, <2>2, <2>3 DEF Typed, Sends
<1>3. ASSUME NEW t \in Tables, NEW i \in Idx, TakeRequest(t, i) PROVE Typed'
  <2>1. PICK tb \in Table : Takes(t, i, tb)
    BY <1>3, TakeFacts
  <2>2. table' \in Seq(Table) /\ Len(table') > 0 /\ Tables' = Tables
    BY Zenon, <2>1, TableMove DEF Takes
  <2>. QED  BY <2>1, <2>2, AimsKept DEF Typed, Takes
<1>4. ASSUME NEW t \in Tables, NEW i \in Idx, AnswerRequest(t, i) PROVE Typed'
  <2>1. PICK tb \in Table, c \in Callers, r \in Call : Answers(t, i, tb, c, r)
    BY <1>4, AnswerFacts
  <2>2. table' \in Seq(Table) /\ Len(table') > 0 /\ Tables' = Tables
    BY Zenon, <2>1, TableMove DEF Answers
  <2>3. \A d \in Callers : Aims(caller[d])'
    BY <2>1, <2>2 DEF Typed, Aims, Answers
  <2>. QED  BY <2>1, <2>2, <2>3 DEF Typed, Answers
<1>5. ASSUME NEW i \in Idx, StopRoutine(i) PROVE Typed'
  <2>1. UNCHANGED caller /\ teardown' = [teardown EXCEPT !.left = @ \ {i}]
    BY Zenon, <1>5, StopFacts
  <2>2. table' \in Seq(Table) /\ Len(table') > 0 /\ Tables' = Tables
    <3>1. UNCHANGED table \/ \E tb \in Table : table' = [table EXCEPT ![Current] = tb]
      BY Zenon, <1>5, StopFacts
    <3>. QED  BY <3>1, TableMove, TableTyped DEF Typed, Tables
  <2>. QED  BY Zenon, <2>1, <2>2, AimsKept DEF Typed
<1>6. ASSUME (\E e \in Events : BeginTeardown(e)) \/ Reinitialize PROVE Typed'
  <2>1. PICK e \in Events \cup {"reconnect"} : UNCHANGED <<table, caller>> /\ teardown' = StopAll(e)
    BY <1>6, BeginFacts
  <2>2. Tables' = Tables
    BY <2>1 DEF Tables
  <2>3. teardown' \in [step : {"none", "stop", "drop", "reinit", "rebuild"},
                       event : {"none"} \cup Events \cup {"delete", "reconnect"}, left : SUBSET Idx]
    BY <2>1 DEF StopAll
  <2>. QED  BY <2>1, <2>2, <2>3, AimsKept DEF Typed
<1>7. ASSUME ClearChannels \/ StopAllDone PROVE Typed'
  <2>1. PICK tb \in Table : table' = [table EXCEPT ![Current] = tb] /\ UNCHANGED caller
    BY <1>7, ClearFacts
  <2>2. table' \in Seq(Table) /\ Len(table') > 0 /\ Tables' = Tables
    BY Zenon, <2>1, TableMove, TableTyped
  <2>3. teardown' \in [step : {"none", "stop", "drop", "reinit", "rebuild"},
                       event : {"none"} \cup Events \cup {"delete", "reconnect"}, left : SUBSET Idx]
    BY <1>7 DEF ClearChannels, StopAllDone, Ended, Typed
  <2>. QED  BY <2>1, <2>2, <2>3, AimsKept DEF Typed
<1>8. ASSUME Rebuild PROVE Typed'
  <2>1. /\ UNCHANGED caller
        /\ table' = Append(table, NewTable) \/ \E tb \in Table : table' = [table EXCEPT ![Current] = tb]
    BY <1>8, RebuildFacts
  <2>2. NewTable \in Table
    BY DEF NewTable, Table
  <2>3. table' \in Seq(Table) /\ Len(table') > 0 /\ Tables \subseteq Tables'
    <3>1. CASE table' = Append(table, NewTable)
      BY <2>2, <3>1 DEF Typed, Tables
    <3>2. CASE \E tb \in Table : table' = [table EXCEPT ![Current] = tb]
      BY Zenon, <3>2, TableMove, TableTyped
    <3>. QED  BY <2>1, <3>1, <3>2
  <2>4. teardown' \in [step : {"none", "stop", "drop", "reinit", "rebuild"},
                       event : {"none"} \cup Events \cup {"delete", "reconnect"}, left : SUBSET Idx]
    BY <1>8 DEF Rebuild, Ended
  <2>. QED  BY <2>1, <2>3, <2>4, AimsKept DEF Typed
<1>9. ASSUME UNCHANGED vars PROVE Typed'
  BY <1>9 DEF vars, Typed, Aims, Tables
<1>10. ASSUME NEW c \in Callers,
             \/ \E i \in Idx : UpdateFlowsIncrementally(c, i)
             \/ HandleFlows(c) \/ HandleGroups(c)
             \/ RouteFlowToOnuChannel(c) \/ RouteMcastFlowOrGroupMsgToChannel(c)
             \/ PickChannel(c)
       PROVE Typed'
  BY <1>1, <1>10, CallerSteps
<1>. QED
  BY <1>2, <1>3, <1>4, <1>5, <1>6, <1>7, <1>8, <1>9, <1>10
  DEF Next, PerOnuFlowHandlerRoutine, McastFlowOrGroupChannelHandlerRoutine

LEMMA StoppedKept ==
    ASSUME Stopped, UNCHANGED <<table, teardown>>
    PROVE  Stopped'
BY DEF Stopped, Tables, Current

(* A step that changes one table but not its active routines, of which the *)
(* ones that are not active stay gone.                                     *)
LEMMA StoppedMove ==
    ASSUME Typed, Stopped, NEW t \in Tables, NEW tb \in Table, table' = [table EXCEPT ![t] = tb],
           UNCHANGED teardown, tb.slice = table[t].slice, tb.active = table[t].active,
           \A i \in Idx : tb.routine[i] # table[t].routine[i] => table[t].routine[i] # Gone
    PROVE  Stopped'
<1>1. /\ Tables' = Tables /\ Current' = Current
      /\ \A u \in Tables : table'[u] = IF u = t THEN tb ELSE table[u]
  BY Zenon, TableMove
<1>2. \A u \in Tables : table'[u].active = table[u].active /\ table'[u].slice = table[u].slice
  BY <1>1
<1>3. \A u \in Tables, i \in Idx :
         table'[u].routine[i] # table[u].routine[i] => table[u].routine[i] # Gone
  BY <1>1
<1>4. Current \in Tables
  BY TableTyped
<1>. QED  BY <1>1, <1>2, <1>3, <1>4 DEF Stopped

LEMMA StoppedStep == ASSUME Typed, Stopped, [Next]_vars PROVE Stopped'
<1>0. /\ InSelect # Gone /\ \A c \in Callers : c # Gone
      /\ Current \in Tables /\ \A t \in Tables : table[t] \in Table
  BY CallersAssumption, TableTyped DEF InSelect, Gone
<1>1. ASSUME NEW c \in Callers, SendRequest(c) PROVE Stopped'
  <2>1. PICK t \in Tables, i \in Idx, tb \in Table, r \in Call : Sends(c, t, i, tb, r)
    BY <1>1, SendFacts
  <2>. QED  BY Zenon, <2>1, StoppedMove DEF Sends
<1>2. ASSUME NEW t \in Tables, NEW i \in Idx, TakeRequest(t, i) PROVE Stopped'
  <2>1. PICK tb \in Table : Takes(t, i, tb)
    BY <1>2, TakeFacts
  <2>2. \A j \in Idx : tb.routine[j] # table[t].routine[j] => table[t].routine[j] # Gone
    BY <1>0, <2>1 DEF Takes, Table
  <2>. QED  BY Zenon, <2>1, <2>2, StoppedMove DEF Takes
<1>3. ASSUME NEW t \in Tables, NEW i \in Idx, AnswerRequest(t, i) PROVE Stopped'
  <2>1. PICK tb \in Table, c \in Callers, r \in Call : Answers(t, i, tb, c, r)
    BY <1>3, AnswerFacts
  <2>2. \A j \in Idx : tb.routine[j] # table[t].routine[j] => table[t].routine[j] # Gone
    BY <1>0, <2>1 DEF Answers, Table
  <2>. QED  BY Zenon, <2>1, <2>2, StoppedMove DEF Answers
<1>4. ASSUME NEW i \in Idx, StopRoutine(i) PROVE Stopped'
  <2>1. /\ teardown.step = "stop" /\ teardown'.step = "stop"
        /\ teardown'.left = teardown.left \ {i}
    BY Zenon, <1>4, StopFacts DEF Typed
  <2>2. CASE i \notin table[Current].active /\ UNCHANGED table
    BY <2>1, <2>2 DEF Stopped, Tables, Current
  <2>3. ASSUME NEW tb \in Table,
               table' = [table EXCEPT ![Current] = tb], tb.slice = table[Current].slice,
               tb.active = table[Current].active \ {i},
               tb.routine = [table[Current].routine EXCEPT ![i] = Gone]
        PROVE  Stopped'
    <3>1. /\ Tables' = Tables /\ Current' = Current
          /\ \A u \in Tables : table'[u] = IF u = Current THEN tb ELSE table[u]
      BY Zenon, <1>0, <2>3, TableMove
    <3>2. \A u \in Tables, j \in Idx :
             j \notin table'[u].active => table'[u].routine[j] = Gone
      BY <1>0, <2>3, <3>1 DEF Stopped, Table
    <3>3. \A u \in Tables : u # Current \/ ~table'[u].slice => table'[u].active = {}
      BY <2>3, <3>1 DEF Stopped
    <3>4. table'[Current].active \subseteq teardown'.left
      BY <1>0, <2>1, <2>3, <3>1 DEF Stopped
    <3>. QED  BY <2>1, <3>1, <3>2, <3>3, <3>4 DEF Stopped
  <2>. QED  BY <1>4, <2>2, <2>3, StopFacts
<1>5. ASSUME (\E e \in Events : BeginTeardown(e)) \/ Reinitialize PROVE Stopped'
  <2>1. PICK e \in Events \cup {"reconnect"} : UNCHANGED <<table, caller>> /\ teardown' = StopAll(e)
    BY <1>5, BeginFacts
  <2>2. /\ teardown'.step = "stop"
        /\ teardown'.left = IF kind = "flow" /\ ~table[Current].slice THEN {} ELSE Idx
    BY <2>1 DEF StopAll
  <2>3. table[Current].active \subseteq teardown'.left
    BY <1>0, <2>2 DEF Stopped, Table
  <2>. QED  BY <2>1, <2>2, <2>3 DEF Stopped, Tables, Current
<1>6. ASSUME ClearChannels \/ StopAllDone PROVE Stopped'
  <2>1. PICK tb \in Table : /\ table' = [table EXCEPT ![Current] = tb]
                            /\ tb.active = table[Current].active
                            /\ tb.routine = table[Current].routine
    BY <1>6, ClearFacts
  <2>2. /\ Tables' = Tables /\ Current' = Current
        /\ \A u \in Tables : table'[u] = IF u = Current THEN tb ELSE table[u]
    BY Zenon, <1>0, <2>1, TableMove
  <2>3. table[Current].active = {} /\ teardown'.step # "stop"
    BY <1>0, <1>6 DEF Stopped, ClearChannels, StopAllDone, Ended, Typed, Table
  <2>. QED  BY <1>0, <2>1, <2>2, <2>3 DEF Stopped
<1>7. ASSUME Rebuild PROVE Stopped'
  <2>1. table[Current].active = {} /\ teardown'.step = "none"
    BY <1>7 DEF Rebuild, Ended, Stopped
  <2>2. CASE table' = Append(table, NewTable)
    <3>1. /\ Len(table) \in Nat /\ Len(table') = Len(table) + 1
          /\ table'[Len(table) + 1] = NewTable
          /\ \A u \in Tables : table'[u] = table[u]
      BY <2>2 DEF Typed, Tables
    <3>2. /\ Current' = Len(table) + 1
          /\ \A u \in Tables' : (u \in Tables /\ u # Current') \/ u = Current'
      BY <3>1 DEF Tables, Current
    <3>3. NewTable.active = Idx /\ NewTable.slice
      BY DEF NewTable
    <3>4. \A u \in Tables : table[u].active = {}
      BY <2>1 DEF Stopped
    <3>. QED  BY <2>1, <3>1, <3>2, <3>3, <3>4 DEF Stopped
  <2>3. ASSUME NEW tb \in Table, table' = [table EXCEPT ![Current] = tb],
               tb.slice = table[Current].slice,
               \/ /\ tb.active = table[Current].active
                  /\ tb.routine = table[Current].routine
               \/ /\ tb.slice /\ tb.active = Idx
                  /\ \A i \in Idx : tb.routine[i] \in {table[Current].routine[i], InSelect}
        PROVE  Stopped'
    <3>1. /\ Tables' = Tables /\ Current' = Current
          /\ \A u \in Tables : table'[u] = IF u = Current THEN tb ELSE table[u]
      BY Zenon, <1>0, <2>3, TableMove
    <3>. QED  BY <1>0, <2>1, <2>3, <3>1 DEF Stopped
  <2>. QED  BY <1>7, <2>2, <2>3, RebuildFacts
<1>8. ASSUME NEW c \in Callers,
             \/ \E i \in Idx : UpdateFlowsIncrementally(c, i)
             \/ HandleFlows(c) \/ HandleGroups(c)
             \/ RouteFlowToOnuChannel(c) \/ RouteMcastFlowOrGroupMsgToChannel(c)
             \/ PickChannel(c)
       PROVE Stopped'
  BY <1>8, CallerSteps, StoppedKept DEF CallerMove
<1>9. ASSUME UNCHANGED vars PROVE Stopped'
  BY Zenon, <1>9, StoppedKept DEF vars
<1>. QED
  BY <1>1, <1>2, <1>3, <1>4, <1>5, <1>6, <1>7, <1>8, <1>9
  DEF Next, PerOnuFlowHandlerRoutine, McastFlowOrGroupChannelHandlerRoutine

(* Requests stay where they are when neither the call of the caller nor    *)
(* the table changes for them.                                             *)
LEMMA LocatedKept ==
    ASSUME NEW t, NEW i, LocatedAt(t, i),
           table'[t].chan[i] = table[t].chan[i],
           table'[t].routine[i] \in {table[t].routine[i], InSelect, Gone},
           \A k \in 1..Len(table[t].chan[i]) : table[t].chan[i][k] \in Callers,
           \A c \in Callers : Waits(c, t, i) /\ c # table[t].routine[i] => UNCHANGED caller[c],
           table'[t].routine[i] \in Callers => caller'[table[t].routine[i]] = caller[table[t].routine[i]]
    PROVE  LocatedAt(t, i)'
<1>1. PICK q, x : q = table[t].chan[i] /\ q = table'[t].chan[i] /\ x = table'[t].routine[i]
  OBVIOUS
<1>2. \A k \in 1..Len(q) :
         /\ q[k] \in Callers /\ Waits(q[k], t, i) /\ q[k] # table[t].routine[i]
         /\ \A l \in 1..Len(q) : q[k] = q[l] => k = l
  BY <1>1 DEF LocatedAt
<1>3. \A c : Waits(c, t, i) /\ caller'[c] = caller[c] => Waits(c, t, i)'
  BY DEF Waits
<1>4. \A k \in 1..Len(q) : Waits(q[k], t, i)' /\ x # q[k]
  BY <1>1, <1>2, <1>3, CallersAssumption
<1>5. x \in Callers => Waits(x, t, i)'
  BY <1>1, <1>3, CallersAssumption DEF LocatedAt
<1>. QED  BY <1>1, <1>2, <1>4, <1>5 DEF LocatedAt

LEMMA LocatedSame == ASSUME Located, UNCHANGED <<table, caller>> PROVE Located'
<1>1. \A c, t, i : Waits(c, t, i)' = Waits(c, t, i)
  BY DEF Waits
<1>. QED  BY <1>1 DEF Located, LocatedAt, Tables

LEMMA ChanTyped ==
    ASSUME Typed, NEW t \in Tables, NEW i \in Idx
    PROVE  /\ table[t].chan[i] \in Seq(Callers)
           /\ \A k \in 1..Len(table[t].chan[i]) : table[t].chan[i][k] \in Callers
           /\ table[t].routine[i] \in Callers \cup {InSelect, Gone}
<1>1. table[t] \in Table
  BY TableTyped
<1>2. table[t].chan[i] \in Seq(Callers) /\ table[t].routine[i] \in Callers \cup {InSelect, Gone}
  BY <1>1 DEF Table
<1>. QED  BY <1>2

LEMMA CallerLocated ==
    ASSUME Typed, Located, NEW c \in Callers, NEW r \in Call, CallerMove(c, r)
    PROVE  Located'
<1>1. Tables' = Tables
  BY DEF CallerMove, Tables
<1>2. ASSUME NEW t \in Tables, NEW i \in Idx PROVE LocatedAt(t, i)'
  <2>1. LocatedAt(t, i)
    BY DEF Located
  <2>2. \A d \in Callers : Waits(d, t, i) => UNCHANGED caller[d]
    BY DEF CallerMove, Waits, Typed
  <2>3. table[t].routine[i] \in Callers => caller'[table[t].routine[i]] = caller[table[t].routine[i]]
    BY <2>1, <2>2 DEF LocatedAt
  <2>4. UNCHANGED table
    BY DEF CallerMove
  <2>. QED  BY <2>1, <2>2, <2>3, <2>4, ChanTyped, LocatedKept
<1>. QED  BY <1>1, <1>2 DEF Located

(* What a send on a channel does to the requests that wait in it. *)
LEMMA AppendFacts ==
    ASSUME NEW S, NEW q \in Seq(S), NEW e \in S
    PROVE  /\ Len(Append(q, e)) = Len(q) + 1 /\ Append(q, e)[Len(q) + 1] = e
           /\ \A k \in 1..Len(q) : Append(q, e)[k] = q[k] /\ q[k] \in S
           /\ Len(q) \in Nat
<1>1. Len(q) \in Nat
  OBVIOUS
<1>2. \A k \in 1..Len(q) : q[k] \in S
  OBVIOUS
<1>3. Len(Append(q, e)) = Len(q) + 1
  OBVIOUS
<1>4. Append(q, e)[Len(q) + 1] = e
  BY <1>1
<1>5. \A k \in 1..Len(q) : Append(q, e)[k] = q[k]
  BY <1>1
<1>. QED  BY <1>1, <1>2, <1>3, <1>4, <1>5, Zenon

LEMMA SendLocated ==
    ASSUME Typed, Located, NEW c \in Callers, SendRequest(c)
    PROVE  Located'
<1>1. PICK t \in Tables, i \in Idx, tb \in Table, r \in Call : Sends(c, t, i, tb, r)
  BY SendFacts
<1>2. /\ Tables' = Tables
      /\ \A u \in Tables : table'[u] = IF u = t THEN tb ELSE table[u]
  BY Zenon, <1>1, TableMove DEF Sends
<1>3. \A d \in Callers, u \in Tables, j \in Idx : Waits(d, u, j) => d # c /\ UNCHANGED caller[d]
  BY <1>1 DEF Sends, Waits, Typed
<1>4. caller'[c] = r
  BY <1>1 DEF Sends, Typed
<1>5. ASSUME NEW u \in Tables, NEW j \in Idx, u # t \/ j # i PROVE LocatedAt(u, j)'
  <2>1. LocatedAt(u, j)
    BY DEF Located
  <2>2. table'[u].chan[j] = table[u].chan[j] /\ table'[u].routine[j] = table[u].routine[j]
    BY <1>1, <1>2, <1>5, TableTyped DEF Sends, Table
  <2>3. table[u].routine[j] \in Callers => caller'[table[u].routine[j]] = caller[table[u].routine[j]]
    BY <1>3, <2>1 DEF LocatedAt
  <2>. QED  BY <1>3, <2>1, <2>2, <2>3, ChanTyped, LocatedKept
<1>6. LocatedAt(t, i)'
  <2>1. LocatedAt(t, i)
    BY DEF Located
  <2>2. PICK q \in Seq(Callers) : q = table[t].chan[i]
    BY ChanTyped
  <2>3. /\ table'[t].chan[i] = Append(q, c)
        /\ table'[t].routine[i] = table[t].routine[i]
    BY <1>1, <1>2, <2>2, TableTyped DEF Sends, Table
  <2>4. /\ Len(Append(q, c)) = Len(q) + 1 /\ Append(q, c)[Len(q) + 1] = c
        /\ \A k \in 1..Len(q) : Append(q, c)[k] = q[k] /\ q[k] \in Callers
        /\ Len(q) \in Nat
    BY AppendFacts, Zenon
  <2>5. \A k \in 1..Len(q) : Waits(q[k], t, i) /\ q[k] # c /\ table[t].routine[i] # q[k]
    BY <1>3, <2>1, <2>2, <2>4 DEF LocatedAt
  <2>6. table[t].routine[i] # c
    BY <1>3, <2>1 DEF LocatedAt
  <2>7. Waits(c, t, i)'
    BY <1>1, <1>4 DEF Sends, Waits
  <2>8. \A k \in 1..Len(q) : Waits(q[k], t, i)'
    BY <1>3, <2>4, <2>5, Zenon DEF Waits
  <2>9. table'[t].routine[i] \in Callers => Waits(table[t].routine[i], t, i)'
    BY Zenon, <1>3, <2>1, <2>3 DEF LocatedAt, Waits
  <2>10. \A k, l \in 1..Len(q) : q[k] = q[l] => k = l
    BY <2>1, <2>2 DEF LocatedAt
  <2>11. ASSUME NEW k \in 1..(Len(q) + 1)
         PROVE  /\ Waits(Append(q, c)[k], t, i)'
                /\ table[t].routine[i] # Append(q, c)[k]
                /\ \A l \in 1..(Len(q) + 1) : Append(q, c)[k] = Append(q, c)[l] => k = l
    <3>1. k \in 1..Len(q) \/ k = Len(q) + 1
      BY <2>4
    <3>2. \A l \in 1..(Len(q) + 1) : l \in 1..Len(q) \/ l = Len(q) + 1
      BY <2>4
    <3>. QED  BY <2>4, <2>5, <2>6, <2>7, <2>8, <2>10, <3>1, <3>2
  <2>. QED  BY <2>3, <2>4, <2>9, <2>11 DEF LocatedAt, Waits
<1>. QED  BY <1>2, <1>5, <1>6 DEF Located

(* What a receive on a channel leaves in it. *)
LEMMA TailFacts ==
    ASSUME NEW S, NEW q \in Seq(S), q # <<>>
    PROVE  /\ Len(q) \in Nat /\ Len(q) > 0 /\ Len(Tail(q)) = Len(q) - 1
           /\ \A k \in 1..(Len(q) - 1) : Tail(q)[k] = q[k + 1]
<1>1. Len(q) \in Nat /\ Len(q) > 0
  OBVIOUS
<1>2. Len(Tail(q)) = Len(q) - 1
  OBVIOUS
<1>3. \A k \in 1..(Len(q) - 1) : Tail(q)[k] = q[k + 1]
  BY <1>1, <1>2
<1>. QED  BY <1>1, <1>2, <1>3, Zenon

LEMMA TakeLocated ==
    ASSUME Typed, Located, NEW t \in Tables, NEW i \in Idx, TakeRequest(t, i)
    PROVE  Located'
<1>1. PICK tb \in Table : Takes(t, i, tb)
  BY TakeFacts
<1>2. /\ Tables' = Tables /\ UNCHANGED caller
      /\ \A u \in Tables : table'[u] = IF u = t THEN tb ELSE table[u]
  BY Zenon, <1>1, TableMove DEF Takes
<1>3. ASSUME NEW u \in Tables, NEW j \in Idx, u # t \/ j # i PROVE LocatedAt(u, j)'
  <2>1. LocatedAt(u, j)
    BY DEF Located
  <2>2. table'[u].chan[j] = table[u].chan[j] /\ table'[u].routine[j] = table[u].routine[j]
    BY <1>1, <1>2, <1>3, TableTyped DEF Takes, Table
  <2>. QED  BY <1>2, <2>1, <2>2, ChanTyped, LocatedKept
<1>4. LocatedAt(t, i)'
  <2>1. LocatedAt(t, i)
    BY DEF Located
  <2>2. PICK q \in Seq(Callers) : q = table[t].chan[i] /\ q # <<>>
    BY <1>1, ChanTyped DEF Takes
  <2>3. table'[t].chan[i] = Tail(q) /\ table'[t].routine[i] = q[1]
    <3>1. table'[t].chan[i] = Tail(q) /\ table'[t].routine[i] = Head(q)
      <4>1. table'[t] = tb /\ table[t] \in Table
        BY <1>2, TableTyped
      <4>2. DOMAIN table[t].chan = Idx /\ DOMAIN table[t].routine = Idx
        BY <4>1 DEF Table
      <4>. QED  BY Zenon, <1>1, <2>2, <4>1, <4>2 DEF Takes
    <3>2. Head(q) = q[1]
      BY <2>2
    <3>. QED  BY <3>1, <3>2
  <2>4. /\ Len(q) \in Nat /\ Len(q) > 0 /\ Len(Tail(q)) = Len(q) - 1
        /\ \A k \in 1..(Len(q) - 1) : Tail(q)[k] = q[k + 1]
    BY <2>2, TailFacts, Zenon
  <2>5. \A k \in 1..Len(q) : Waits(q[k], t, i)'
    BY <1>2, <2>1, <2>2 DEF LocatedAt, Waits
  <2>6. \A k, l \in 1..Len(q) : q[k] = q[l] => k = l
    BY <2>1, <2>2 DEF LocatedAt
  <2>7. ASSUME NEW k \in 1..(Len(q) - 1)
        PROVE  /\ Waits(Tail(q)[k], t, i)'
               /\ q[1] # Tail(q)[k]
               /\ \A l \in 1..(Len(q) - 1) : Tail(q)[k] = Tail(q)[l] => k = l
    <3>1. k + 1 \in 1..Len(q) /\ 1 \in 1..Len(q) /\ k + 1 # 1
      BY <2>4
    <3>2. Tail(q)[k] = q[k + 1]
      BY <2>4
    <3>3. ASSUME NEW l \in 1..(Len(q) - 1), Tail(q)[k] = Tail(q)[l] PROVE k = l
      <4>1. l + 1 \in 1..Len(q) /\ Tail(q)[l] = q[l + 1]
        BY <2>4
      <4>2. k + 1 = l + 1
        BY <2>6, <3>1, <3>2, <3>3, <4>1
      <4>. QED  BY <4>2
    <3>. QED  BY <2>5, <2>6, <3>1, <3>2, <3>3
  <2>8. Waits(q[1], t, i)'
    BY <2>4, <2>5
  <2>. QED  BY <2>3, <2>4, <2>7, <2>8 DEF LocatedAt, Waits
<1>. QED  BY <1>2, <1>3, <1>4 DEF Located

LEMMA AnswerLocated ==
    ASSUME Typed, Located, NEW t \in Tables, NEW i \in Idx, AnswerRequest(t, i)
    PROVE  Located'
<1>1. PICK tb \in Table, c \in Callers, r \in Call : Answers(t, i, tb, c, r)
  BY AnswerFacts
<1>2. /\ Tables' = Tables
      /\ \A u \in Tables : table'[u] = IF u = t THEN tb ELSE table[u]
  BY Zenon, <1>1, TableMove DEF Answers
<1>3. c = table[t].routine[i] /\ Waits(c, t, i)
  BY <1>1 DEF Answers, Located, LocatedAt
<1>4. \A d \in Callers : d # c => caller'[d] = caller[d]
  BY <1>1 DEF Answers, Typed
<1>5. ASSUME NEW u \in Tables, NEW j \in Idx PROVE LocatedAt(u, j)'
  <2>1. LocatedAt(u, j)
    BY Zenon DEF Located
  <2>2. CASE u # t \/ j # i
    <3>1. table'[u].chan[j] = table[u].chan[j] /\ table'[u].routine[j] = table[u].routine[j]
      BY <1>1, <1>2, <2>2, TableTyped DEF Answers, Table
    <3>2. \A d \in Callers : Waits(d, u, j) => d # c
      BY <1>3, <2>2 DEF Waits
    <3>3. table[u].routine[j] \in Callers =>
             caller'[table[u].routine[j]] = caller[table[u].routine[j]]
      BY Zenon, <1>4, <2>1, <3>2 DEF LocatedAt
    <3>. QED  BY <1>4, <2>1, <3>1, <3>2, <3>3, ChanTyped, LocatedKept
  <2>3. CASE u = t /\ j = i
    <3>1. table'[u].chan[j] = table[u].chan[j] /\ table'[u].routine[j] = InSelect
      BY <1>1, <1>2, <2>3, TableTyped DEF Answers, Table
    <3>2. \A d \in Callers : d # table[u].routine[j] => caller'[d] = caller[d]
      BY <1>3, <1>4, <2>3
    <3>. QED  BY <2>1, <3>1, <3>2, ChanTyped, LocatedKept, CallersAssumption
  <2>. QED  BY <2>2, <2>3
<1>. QED  BY <1>2, <1>5 DEF Located

(* A step of a tear-down that changes the current table. *)
LEMMA TeardownLocated ==
    ASSUME Typed, Located, UNCHANGED caller, NEW tb \in Table,
           table' = [table EXCEPT ![Current] = tb], tb.chan = table[Current].chan,
           \A i \in Idx : tb.routine[i] \in {table[Current].routine[i], InSelect, Gone}
    PROVE  Located'
<1>1. /\ Tables' = Tables
      /\ \A u \in Tables : table'[u] = IF u = Current THEN tb ELSE table[u]
  BY Zenon, TableMove, TableTyped
<1>2. ASSUME NEW u \in Tables, NEW j \in Idx PROVE LocatedAt(u, j)'
  <2>1. LocatedAt(u, j)
    BY DEF Located
  <2>2. /\ table'[u].chan[j] = table[u].chan[j]
        /\ table'[u].routine[j] \in {table[u].routine[j], InSelect, Gone}
    BY <1>1
  <2>. QED  BY <2>1, <2>2, ChanTyped, LocatedKept
<1>. QED  BY <1>1, <1>2 DEF Located

LEMMA RebuildLocated == ASSUME Typed, Located, Rebuild PROVE Located'
<1>1. CASE table' = Append(table, NewTable)
  <2>1. PICK n \in Nat : n = Len(table) + 1
    BY DEF Typed
  <2>2. /\ table'[n] = NewTable
        /\ \A u \in Tables : table'[u] = table[u]
        /\ \A u \in Tables' : u \in Tables \/ u = n
    BY <1>1, <2>1 DEF Typed, Tables
  <2>3. UNCHANGED caller
    BY DEF Rebuild
  <2>4. ASSUME NEW u \in Tables, NEW j \in Idx PROVE LocatedAt(u, j)'
    <3>1. LocatedAt(u, j) /\ table'[u] = table[u]
      BY <2>2 DEF Located
    <3>. QED  BY <2>3, <3>1, ChanTyped, LocatedKept
  <2>5. ASSUME NEW j \in Idx PROVE LocatedAt(n, j)'
    <3>1. table'[n].chan[j] = <<>> /\ table'[n].routine[j] = InSelect
      BY <2>2 DEF NewTable
    <3>2. Len(<<>>) = 0 /\ 1..0 = {}
      OBVIOUS
    <3>. QED  BY <3>1, <3>2, CallersAssumption DEF LocatedAt
  <2>. QED  BY <2>2, <2>4, <2>5 DEF Located
<1>2. ASSUME NEW tb \in Table, table' = [table EXCEPT ![Current] = tb], UNCHANGED caller,
             tb.chan = table[Current].chan,
             \/ tb.routine = table[Current].routine
             \/ \A i \in Idx : tb.routine[i] \in {table[Current].routine[i], InSelect}
      PROVE  Located'
  BY Zenon, <1>2, TeardownLocated
<1>. QED  BY <1>1, <1>2, RebuildFacts

LEMMA LocatedStep == ASSUME Typed, Located, [Next]_vars PROVE Located'
<1>1. ASSUME NEW c \in Callers,
             \/ \E i \in Idx : UpdateFlowsIncrementally(c, i)
             \/ HandleFlows(c) \/ HandleGroups(c)
             \/ RouteFlowToOnuChannel(c) \/ RouteMcastFlowOrGroupMsgToChannel(c)
             \/ PickChannel(c)
      PROVE  Located'
  BY <1>1, CallerSteps, CallerLocated
<1>2. ASSUME NEW i \in Idx, StopRoutine(i) PROVE Located'
  <2>1. ASSUME UNCHANGED <<table, caller>> PROVE Located'
    BY <2>1, LocatedSame
  <2>2. ASSUME NEW tb \in Table, table' = [table EXCEPT ![Current] = tb], UNCHANGED caller,
               tb.routine = [table[Current].routine EXCEPT ![i] = Gone],
               tb.chan = table[Current].chan
        PROVE  Located'
    <3>1. \A j \in Idx : tb.routine[j] \in {table[Current].routine[j], InSelect, Gone}
      BY <2>2, TableTyped DEF Table
    <3>. QED  BY Zenon, <2>2, <3>1, TeardownLocated
  <2>. QED  BY <1>2, <2>1, <2>2, StopFacts
<1>3. ASSUME ClearChannels \/ StopAllDone PROVE Located'
  BY <1>3, ClearFacts, TeardownLocated
<1>4. ASSUME UNCHANGED <<table, caller>> PROVE Located'
  BY <1>4, LocatedSame
<1>. QED
  BY <1>1, <1>2, <1>3, <1>4, SendLocated, TakeLocated, AnswerLocated, RebuildLocated, BeginFacts
  DEF Next, PerOnuFlowHandlerRoutine, McastFlowOrGroupChannelHandlerRoutine, vars

LEMMA InitInvariants == ASSUME Init PROVE Typed /\ Stopped /\ Located
<1>1. NewTable \in Table /\ NoCall \in Call
  BY DEF NewTable, Table, NoCall, Call
<1>2. /\ table = <<NewTable>> /\ table \in Seq(Table) /\ Len(table) = 1
      /\ Tables = {1} /\ Current = 1 /\ table[1] = NewTable
  BY <1>1 DEF Init, Tables, Current
<1>3. Typed
  BY <1>1, <1>2 DEF Init, Typed, Ended, NoCall, Aims
<1>4. Stopped
  BY <1>2 DEF Init, Stopped, Ended, NewTable
<1>5. ASSUME NEW i \in Idx PROVE LocatedAt(1, i)
  <2>1. table[1].chan[i] = <<>> /\ table[1].routine[i] = InSelect
    BY <1>2 DEF NewTable
  <2>2. Len(<<>>) = 0 /\ 1..0 = {}
    OBVIOUS
  <2>. QED  BY <2>1, <2>2, CallersAssumption DEF LocatedAt
<1>. QED  BY <1>2, <1>3, <1>4, <1>5 DEF Located

-------------------------------------------------------------------------------
(* Every step is a step of SerialService or leaves its variables alone. *)

Requests == [c \in Callers |-> RequestOf(c)]

Serves(i, c) == \E t \in Tables : table[t].routine[i] = c

LEMMA ServingMember ==
    \A i \in Idx, c \in Callers : <<i, c>> \in ServingNow <=> Serves(i, c)
BY DEF ServingNow, Serves

LEMMA ServingKept ==
    ASSUME \A i \in Idx, c \in Callers : Serves(i, c)' <=> Serves(i, c)
    PROVE  ServingNow' = ServingNow
BY DEF ServingNow, Serves

(* A caller that is served waits, and the routine that serves it is one of *)
(* the current table.                                                      *)
LEMMA ServedWaits ==
    ASSUME Typed, Stopped, Located, NEW t \in Tables, NEW i \in Idx, NEW c \in Callers,
           table[t].routine[i] = c
    PROVE  t = Current /\ Waits(c, t, i)
BY CallersAssumption DEF Stopped, Located, LocatedAt

LEMMA CallerServes ==
    ASSUME Typed, Stopped, Located, NEW c \in Callers, NEW r \in Call, CallerMove(c, r)
    PROVE  [Service!SNext]_(Service!svars)
<1>1. ServingNow' = ServingNow
  BY DEF CallerMove, ServingNow, Tables
<1>2. /\ caller[c] \in Call /\ caller'[c] = r
      /\ \A d \in Callers : d # c => caller'[d] = caller[d]
  BY DEF CallerMove, Typed
<1>3. \A d \in Callers : d # c => RequestOf(d)' = RequestOf(d)
  BY <1>2 DEF RequestOf
<1>4. Requests' = [Requests EXCEPT ![c] = RequestOf(c)']
  BY Zenon, <1>3 DEF Requests
<1>5. RequestOf(c)' \in {"open", "refused"} /\ (r.at # "idle" => RequestOf(c)' = "open")
  BY <1>2 DEF RequestOf, CallerMove
<1>6. CASE caller[c].at = "idle"
  <2>1. RequestOf(c) \in {"none", "answered", "refused"}
    BY <1>2, <1>6 DEF RequestOf, Call
  <2>2. Service!Open(c)
    BY Zenon, <1>1, <1>4, <1>5, <2>1 DEF Service!Open, Requests
  <2>. QED  BY <2>2 DEF Service!SNext
<1>7. CASE caller[c].at # "idle"
  <2>1. RequestOf(c) = "open"
    BY <1>7 DEF RequestOf
  <2>2. \A i \in Idx : <<i, c>> \notin ServingNow
    BY ServingMember, ServedWaits DEF Serves, Waits, CallerMove
  <2>3. CASE RequestOf(c)' = "open"
    BY Zenon, <1>1, <1>4, <2>1, <2>3 DEF Service!svars, Requests
  <2>4. CASE RequestOf(c)' = "refused"
    <3>1. Service!Refuse(c)
      BY <1>1, <1>4, <2>1, <2>2, <2>4 DEF Service!Refuse, Requests
    <3>. QED  BY <3>1 DEF Service!SNext
  <2>. QED  BY <1>5, <2>3, <2>4
<1>. QED  BY <1>6, <1>7

LEMMA SendServes ==
    ASSUME Typed, Stopped, Located, NEW c \in Callers, SendRequest(c)
    PROVE  UNCHANGED Service!svars
<1>1. PICK t \in Tables, i \in Idx, tb \in Table, r \in Call : Sends(c, t, i, tb, r)
  BY SendFacts
<1>2. /\ Tables' = Tables
      /\ \A u \in Tables : table'[u] = IF u = t THEN tb ELSE table[u]
  BY Zenon, <1>1, TableMove DEF Sends
<1>3. \A u \in Tables : table'[u].routine = table[u].routine
  BY <1>1, <1>2 DEF Sends
<1>4. ServingNow' = ServingNow
  BY <1>2, <1>3 DEF ServingNow
<1>5. /\ caller[c].at = "send" /\ caller'[c].at = "wait"
      /\ \A d \in Callers : d # c => caller'[d] = caller[d]
  BY <1>1 DEF Sends, Typed
<1>6. \A d \in Callers : RequestOf(d)' = RequestOf(d)
  BY <1>5 DEF RequestOf
<1>. QED  BY <1>4, <1>6 DEF Service!svars

LEMMA TakeServes ==
    ASSUME Typed, Stopped, Located, NEW t \in Tables, NEW i \in Idx, TakeRequest(t, i)
    PROVE  Service!SNext
<1>1. PICK tb \in Table : Takes(t, i, tb)
  BY TakeFacts
<1>2. /\ Tables' = Tables /\ UNCHANGED caller
      /\ \A u \in Tables : table'[u] = IF u = t THEN tb ELSE table[u]
  BY Zenon, <1>1, TableMove DEF Takes
<1>3. PICK c \in Callers : /\ c = Head(table[t].chan[i])
                           /\ Waits(c, t, i) /\ table[t].routine[i] # c
  <2>1. PICK q \in Seq(Callers) : q = table[t].chan[i] /\ q # <<>>
    BY <1>1, ChanTyped DEF Takes
  <2>2. Head(q) = q[1] /\ 1 \in 1..Len(q) /\ q[1] \in Callers
    BY <2>1
  <2>3. Waits(q[1], t, i) /\ table[t].routine[i] # q[1]
    BY <2>1, <2>2 DEF Located, LocatedAt
  <2>. QED  BY <2>1, <2>2, <2>3
<1>4. \A u \in Tables, j \in Idx :
         table'[u].routine[j] = IF u = t /\ j = i THEN c ELSE table[u].routine[j]
  <2>1. tb.routine = [table[t].routine EXCEPT ![i] = c] /\ DOMAIN table[t].routine = Idx
    BY <1>1, <1>3, TableTyped DEF Takes, Table
  <2>. QED  BY <1>2, <2>1
<1>5. \A d \in Callers, j \in Idx : Serves(j, d)' <=> Serves(j, d) \/ (j = i /\ d = c)
  <2>1. table[t].routine[i] = InSelect
    BY <1>1 DEF Takes
  <2>. QED  BY <1>2, <1>4, <2>1, CallersAssumption DEF Serves
<1>6. ServingNow' = ServingNow \cup {<<i, c>>}
  <2>1. ServingNow' \subseteq Idx \X Callers /\ ServingNow \subseteq Idx \X Callers
    BY DEF ServingNow
  <2>2. \A d \in Callers, j \in Idx : <<j, d>> \in ServingNow' <=> Serves(j, d)'
    BY DEF ServingNow, Serves
  <2>. QED  BY <1>5, <2>1, <2>2, ServingMember
<1>7. RequestOf(c) = "open"
  BY <1>3 DEF RequestOf, Waits
<1>8. \A d \in Callers : <<i, d>> \notin ServingNow
  <2>1. ASSUME NEW d \in Callers, NEW u \in Tables, table[u].routine[i] = d PROVE FALSE
    <3>1. u = Current
      BY <2>1, ServedWaits
    <3>2. t = Current
      <4>1. table[t].routine[i] = InSelect /\ InSelect # Gone
        BY <1>1 DEF Takes, InSelect, Gone
      <4>. QED  BY <4>1 DEF Stopped
    <3>. QED  BY <1>1, <2>1, <3>1, <3>2, CallersAssumption DEF Takes
  <2>. QED  BY <2>1, ServingMember DEF Serves
<1>9. \A j \in Idx : <<j, c>> \notin ServingNow
  <2>1. ASSUME NEW j \in Idx, NEW u \in Tables, table[u].routine[j] = c PROVE FALSE
    BY <1>3, <2>1, ServedWaits DEF Waits
  <2>. QED  BY <2>1, ServingMember DEF Serves
<1>10. Requests' = Requests
  BY <1>2 DEF Requests, RequestOf
<1>11. Service!Begin(i, c)
  BY <1>6, <1>7, <1>8, <1>9, <1>10 DEF Service!Begin, Requests
<1>. QED  BY <1>11 DEF Service!SNext

LEMMA AnswerServes ==
    ASSUME Typed, Stopped, Located, NEW t \in Tables, NEW i \in Idx, AnswerRequest(t, i)
    PROVE  Service!SNext
<1>1. PICK tb \in Table, c \in Callers, r \in Call : Answers(t, i, tb, c, r)
  BY AnswerFacts
<1>2. /\ Tables' = Tables
      /\ \A u \in Tables : table'[u] = IF u = t THEN tb ELSE table[u]
  BY Zenon, <1>1, TableMove DEF Answers
<1>3. /\ c = table[t].routine[i] /\ caller'[c] = r
      /\ \A d \in Callers : d # c => caller'[d] = caller[d]
  BY <1>1 DEF Answers, Typed
<1>4. \A u \in Tables, j \in Idx :
         table'[u].routine[j] = IF u = t /\ j = i THEN InSelect ELSE table[u].routine[j]
  BY <1>1, <1>2, TableTyped DEF Answers, Table
<1>5. \A u \in Tables : table[u].routine[i] = c => u = t
  BY <1>3, ServedWaits
<1>6. \A d \in Callers, j \in Idx : Serves(j, d)' <=> Serves(j, d) /\ ~(j = i /\ d = c)
  BY <1>2, <1>3, <1>4, <1>5, CallersAssumption DEF Serves
<1>7. ServingNow' = ServingNow \ {<<i, c>>} /\ <<i, c>> \in ServingNow
  <2>1. ServingNow' \subseteq Idx \X Callers /\ ServingNow \subseteq Idx \X Callers
    BY DEF ServingNow
  <2>2. \A d \in Callers, j \in Idx : <<j, d>> \in ServingNow' <=> Serves(j, d)'
    BY DEF ServingNow, Serves
  <2>3. Serves(i, c)
    BY <1>3 DEF Serves
  <2>. QED  BY <1>6, <2>1, <2>2, <2>3, ServingMember
<1>8. RequestOf(c)' = "answered" /\ \A d \in Callers : d # c => RequestOf(d)' = RequestOf(d)
  BY <1>1, <1>3 DEF RequestOf, Answers
<1>9. Requests' = [Requests EXCEPT ![c] = "answered"]
  BY Zenon, <1>8 DEF Requests
<1>10. Service!Answer(i, c)
  BY <1>7, <1>9 DEF Service!Answer, Requests
<1>. QED  BY <1>10 DEF Service!SNext

(* The other steps are none of the service. *)
LEMMA TeardownServes ==
    ASSUME Typed, Stopped, UNCHANGED caller,
           \/ UNCHANGED table
           \/ \E i \in Idx : StopRoutine(i)
           \/ ClearChannels \/ StopAllDone \/ Rebuild
    PROVE  UNCHANGED Service!svars
<1>1. Requests' = Requests
  BY DEF Requests, RequestOf
<1>2. SUFFICES ServingNow' = ServingNow
  BY <1>1 DEF Service!svars, Requests
<1>3. ASSUME NEW tb \in Table, table' = [table EXCEPT ![Current] = tb],
             \A i \in Idx : tb.routine[i] # table[Current].routine[i] =>
                tb.routine[i] \notin Callers /\ table[Current].routine[i] \notin Callers
      PROVE  ServingNow' = ServingNow
  <2>1. /\ Tables' = Tables
        /\ \A u \in Tables : table'[u] = IF u = Current THEN tb ELSE table[u]
    BY Zenon, <1>3, TableMove, TableTyped
  <2>2. \A i \in Idx, c \in Callers : Serves(i, c)' <=> Serves(i, c)
    BY <1>3, <2>1 DEF Serves
  <2>. QED  BY <2>2, ServingKept
<1>4. CASE UNCHANGED table
  BY <1>4 DEF ServingNow, Tables
<1>5. ASSUME NEW i \in Idx, StopRoutine(i) PROVE ServingNow' = ServingNow
  <2>1. ASSUME NEW tb \in Table, table' = [table EXCEPT ![Current] = tb],
               table[Current].routine[i] = InSelect,
               tb.routine = [table[Current].routine EXCEPT ![i] = Gone]
        PROVE  ServingNow' = ServingNow
    <3>1. \A j \in Idx : tb.routine[j] # table[Current].routine[j] =>
                tb.routine[j] \notin Callers /\ table[Current].routine[j] \notin Callers
      BY <2>1, CallersAssumption, TableTyped DEF Table
    <3>. QED  BY Zenon, <1>3, <2>1, <3>1
  <2>. QED  BY <1>4, <1>5, <2>1, StopFacts
<1>6. CASE ClearChannels \/ StopAllDone
  BY <1>3, <1>6, ClearFacts
<1>7. CASE Rebuild
  <2>1. table[Current].active = {}
    BY <1>7 DEF Rebuild, Stopped
  <2>2. \A i \in Idx : table[Current].routine[i] = Gone
    BY <2>1, TableTyped DEF Stopped
  <2>3. CASE table' = Append(table, NewTable)
    <3>1. PICK n \in Nat : n = Len(table) + 1
      BY DEF Typed
    <3>2. /\ table'[n] = NewTable /\ n \in Tables' /\ Tables \subseteq Tables'
          /\ \A u \in Tables : table'[u] = table[u]
          /\ \A u \in Tables' : u \in Tables \/ u = n
      BY <2>3, <3>1 DEF Typed, Tables
    <3>3. \A i \in Idx : table'[n].routine[i] = InSelect
      BY <3>2 DEF NewTable
    <3>4. \A i \in Idx, c \in Callers : Serves(i, c)' <=> Serves(i, c)
      BY <3>2, <3>3, CallersAssumption DEF Serves
    <3>. QED  BY <3>4, ServingKept
  <2>4. ASSUME NEW tb \in Table, table' = [table EXCEPT ![Current] = tb],
               \/ tb.routine = table[Current].routine
               \/ \A i \in Idx : tb.routine[i] \in {table[Current].routine[i], InSelect}
        PROVE  ServingNow' = ServingNow
    <3>1. \A i \in Idx : tb.routine[i] # table[Current].routine[i] =>
                tb.routine[i] \notin Callers /\ table[Current].routine[i] \notin Callers
      BY <2>2, <2>4, CallersAssumption
    <3>. QED  BY Zenon, <1>3, <2>4, <3>1
  <2>. QED  BY <1>7, <2>3, <2>4, RebuildFacts
<1>. QED  BY <1>4, <1>5, <1>6, <1>7

LEMMA ServiceStep ==
    ASSUME Typed, Stopped, Located, [Next]_vars
    PROVE  [Service!SNext]_(Service!svars)
<1>1. ASSUME NEW c \in Callers,
             \/ \E i \in Idx : UpdateFlowsIncrementally(c, i)
             \/ HandleFlows(c) \/ HandleGroups(c)
             \/ RouteFlowToOnuChannel(c) \/ RouteMcastFlowOrGroupMsgToChannel(c)
             \/ PickChannel(c)
      PROVE  [Service!SNext]_(Service!svars)
  BY <1>1, CallerSteps, CallerServes
<1>2. ASSUME NEW t \in Tables, NEW i \in Idx,
             PerOnuFlowHandlerRoutine(t, i) \/ McastFlowOrGroupChannelHandlerRoutine(t, i)
      PROVE  Service!SNext
  BY <1>2, TakeServes, AnswerServes
  DEF PerOnuFlowHandlerRoutine, McastFlowOrGroupChannelHandlerRoutine
<1>3. ASSUME \/ \E e \in Events : BeginTeardown(e)
             \/ \E i \in Idx : StopRoutine(i)
             \/ ClearChannels \/ StopAllDone \/ Reinitialize \/ Rebuild
             \/ UNCHANGED vars
      PROVE  UNCHANGED Service!svars
  <2>1. UNCHANGED caller
    BY Zenon, <1>3 DEF BeginTeardown, StopRoutine, ClearChannels, StopAllDone, Reinitialize, Rebuild, vars
  <2>2. \/ UNCHANGED table
        \/ \E i \in Idx : StopRoutine(i)
        \/ ClearChannels \/ StopAllDone \/ Rebuild
    BY <1>3 DEF BeginTeardown, Reinitialize, vars
  <2>. QED  BY <2>1, <2>2, TeardownServes
<1>. QED  BY <1>1, <1>2, <1>3, SendServes DEF Next

(* For every set of callers and indices, every capacity of the channels    *)
(* and every number of tear-downs, the handler routines implement          *)
(* SerialService: the requests for one ONU, or for the groups of one       *)
(* index, are served one at a time, each at most once, and a caller gets   *)
(* the answer to its own request.                                          *)
THEOREM HandlersServeSerially == Spec => ServesSerially
<1>1. ASSUME Init PROVE Service!SInit
  <2>1. \A c \in Callers : RequestOf(c) = "none"
    BY <1>1 DEF Init, NoCall, RequestOf
  <2>2. Tables = {1} /\ table[1] = NewTable
    BY <1>1 DEF Init, Tables
  <2>3. \A i \in Idx, c \in Callers : ~Serves(i, c)
    BY <2>2, CallersAssumption DEF Serves, NewTable
  <2>4. ServingNow = {}
    <3>1. ServingNow \subseteq Idx \X Callers
      BY DEF ServingNow
    <3>. QED  BY <2>3, <3>1, ServingMember
  <2>. QED  BY <2>1, <2>4 DEF Service!SInit
<1>. QED
  BY <1>1, InitInvariants, TypedStep, StoppedStep, LocatedStep, ServiceStep, PTL
  DEF Spec, ServesSerially, Service!SSpec

-------------------------------------------------------------------------------
(* Without a deletion, the end of a tear-down leaves a new flow manager, of *)
(* which every routine is active.                                          *)
Rebuilds ==
    kind = "flow" /\ Quiet /\ teardown.event # "delete" => table[Current].active = Idx

LEMMA RebuildsStep == ASSUME Typed, Rebuilds, [Next]_vars PROVE Rebuilds'
<1>1. UNCHANGED kind
  BY Zenon DEF Next, UpdateFlowsIncrementally, HandleFlows, HandleGroups, RouteFlowToOnuChannel,
         RouteMcastFlowOrGroupMsgToChannel, Route, PickChannel, SendRequest,
         PerOnuFlowHandlerRoutine, McastFlowOrGroupChannelHandlerRoutine, TakeRequest,
         AnswerRequest, BeginTeardown, StopRoutine, ClearChannels, StopAllDone, Reinitialize,
         Rebuild, vars
<1>2. ASSUME NEW t \in Tables, NEW tb \in Table, table' = [table EXCEPT ![t] = tb],
             UNCHANGED teardown, tb.active = table[t].active
      PROVE  Rebuilds'
  <2>1. /\ Current' = Current /\ Current \in Tables
        /\ \A u \in Tables : table'[u] = IF u = t THEN tb ELSE table[u]
    BY Zenon, <1>2, TableMove, TableTyped
  <2>2. table'[Current'].active = table[Current].active
    BY <1>2, <2>1
  <2>. QED  BY <1>1, <1>2, <2>2 DEF Rebuilds, Quiet
<1>3. ASSUME UNCHANGED <<table, teardown>> PROVE Rebuilds'
  BY <1>1, <1>3 DEF Rebuilds, Quiet, Current
<1>4. ASSUME \/ \E e \in Events : BeginTeardown(e)
             \/ \E i \in Idx : StopRoutine(i)
             \/ ClearChannels \/ StopAllDone \/ Reinitialize
      PROVE  Rebuilds'
  <2>1. teardown'.step # "none" \/ teardown'.event = "delete"
    <3>1. CASE (\E e \in Events : BeginTeardown(e)) \/ Reinitialize
      BY <3>1, BeginFacts DEF StopAll
    <3>2. CASE \E i \in Idx : StopRoutine(i)
      <4>1. PICK i \in Idx : StopRoutine(i)
        BY <3>2
      <4>. QED  BY Zenon, <4>1, StopFacts DEF Typed
    <3>3. CASE ClearChannels \/ StopAllDone
      BY <3>3 DEF ClearChannels, StopAllDone, Ended, Typed
    <3>. QED  BY <1>4, <3>1, <3>2, <3>3
  <2>. QED  BY <2>1 DEF Rebuilds, Quiet
<1>5. ASSUME Rebuild PROVE Rebuilds'
  <2>1. CASE kind = "flow"
    <3>1. table' = Append(table, NewTable)
      BY <1>5, <2>1 DEF Rebuild, Rebuilt
    <3>2. table'[Current'] = NewTable
      BY <3>1 DEF Typed, Current
    <3>. QED  BY <3>2 DEF Rebuilds, NewTable
  <2>2. CASE kind # "flow"
    BY <1>1, <2>2 DEF Rebuilds
  <2>. QED  BY <2>1, <2>2
<1>6. ASSUME NEW c \in Callers,
             \/ \E i \in Idx : UpdateFlowsIncrementally(c, i)
             \/ HandleFlows(c) \/ HandleGroups(c)
             \/ RouteFlowToOnuChannel(c) \/ RouteMcastFlowOrGroupMsgToChannel(c)
             \/ PickChannel(c)
      PROVE  Rebuilds'
  BY <1>3, <1>6, CallerSteps DEF CallerMove
<1>7. ASSUME NEW c \in Callers, SendRequest(c) PROVE Rebuilds'
  <2>1. PICK t \in Tables, i \in Idx, tb \in Table, r \in Call : Sends(c, t, i, tb, r)
    BY <1>7, SendFacts
  <2>. QED  BY Zenon, <1>2, <2>1 DEF Sends
<1>8. ASSUME NEW t \in Tables, NEW i \in Idx, TakeRequest(t, i) \/ AnswerRequest(t, i)
      PROVE  Rebuilds'
  <2>1. CASE TakeRequest(t, i)
    <3>1. PICK tb \in Table : Takes(t, i, tb)
      BY <2>1, TakeFacts
    <3>. QED  BY Zenon, <1>2, <3>1 DEF Takes
  <2>2. CASE AnswerRequest(t, i)
    <3>1. PICK tb \in Table, c \in Callers, r \in Call : Answers(t, i, tb, c, r)
      BY <2>2, AnswerFacts
    <3>. QED  BY Zenon, <1>2, <3>1 DEF Answers
  <2>. QED  BY <1>8, <2>1, <2>2
<1>. QED
  BY <1>3, <1>4, <1>5, <1>6, <1>7, <1>8
  DEF Next, PerOnuFlowHandlerRoutine, McastFlowOrGroupChannelHandlerRoutine, vars

(* For every set of ONUs and every number of tear-downs, a device that is  *)
(* Up after a reboot or a reconnection has an active routine for the flows *)
(* of every ONU.                                                           *)
THEOREM RoutinesActive == Spec => []ActiveWhenUp
<1>1. ASSUME Init PROVE Rebuilds
  BY <1>1 DEF Init, Rebuilds, NewTable, Current
<1>2. ASSUME Rebuilds PROVE ActiveWhenUp
  BY <1>2 DEF Rebuilds, ActiveWhenUp
<1>. QED  BY <1>1, <1>2, InitInvariants, TypedStep, RebuildsStep, PTL DEF Spec
===============================================================================

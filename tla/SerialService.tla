----------------------------- MODULE SerialService -----------------------------
(***************************************************************************)
(* What the handler routines of flows and groups promise to the callers of *)
(* UpdateFlowsIncrementally: the requests for one ONU, or for the groups   *)
(* of one routine, are served one at a time; a request is served at most   *)
(* once; a caller gets the answer to its own request, after it was served, *)
(* or its request is refused and never served.                             *)
(***************************************************************************)
CONSTANTS
    Callers,  \* goroutines that make requests
    Idx       \* the routines requests are for

VARIABLES
    request,  \* the state of the request of each caller
    serving   \* the routines that are serving, with the caller they serve

svars == <<request, serving>>

SInit ==
    /\ request = [c \in Callers |-> "none"]
    /\ serving = {}

(* A request may be refused at once. *)
Open(c) ==
    /\ request[c] \in {"none", "answered", "refused"}
    /\ \E r \in {"open", "refused"} : request' = [request EXCEPT ![c] = r]
    /\ UNCHANGED serving

Refuse(c) ==
    /\ request[c] = "open"
    /\ \A i \in Idx : <<i, c>> \notin serving
    /\ request' = [request EXCEPT ![c] = "refused"]
    /\ UNCHANGED serving

(* A routine that is not serving begins with an open request. *)
Begin(i, c) ==
    /\ request[c] = "open"
    /\ \A d \in Callers : <<i, d>> \notin serving
    /\ \A j \in Idx : <<j, c>> \notin serving
    /\ serving' = serving \cup {<<i, c>>}
    /\ UNCHANGED request

(* The routine has served the request and hands over its answer. *)
Answer(i, c) ==
    /\ <<i, c>> \in serving
    /\ serving' = serving \ {<<i, c>>}
    /\ request' = [request EXCEPT ![c] = "answered"]

SNext == \E c \in Callers :
    \/ Open(c)
    \/ Refuse(c)
    \/ \E i \in Idx : Begin(i, c) \/ Answer(i, c)

SSpec == SInit /\ [][SNext]_svars
===============================================================================

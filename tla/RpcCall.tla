------------------------------- MODULE RpcCall -------------------------------
(***************************************************************************)
(* What Inner::call promises the tasks that invoke it, and nothing of how  *)
(* it is kept: no channel, no stream, no resolver, no background task.     *)
(*                                                                         *)
(* A call is queued for the request channel, then waits for its outcome,   *)
(* then returns it.  The outcome is decided once, while the call is in     *)
(* progress: the response to the call's own request when the session       *)
(* correlates by message id, a response of the call's operation when it    *)
(* does not, or a timeout.  A call that is never admitted to the channel   *)
(* returns an error instead.                                               *)
(***************************************************************************)
CONSTANTS
    Callers,    \* the tasks that invoke call
    Ops,        \* the operations
    Serials     \* the numbers that name requests and the responses to them

VARIABLES
    ready,      \* the handshake is over
    correlated, \* the session matches responses by message id
    phase,      \* where each caller's call stands
    request,    \* the request each caller's call is about
    result      \* the outcome decided for each caller's call

vars == <<ready, correlated, phase, request, result>>

NoCall    == [op |-> "none", req |-> 0]
Undecided == [tag |-> "Empty"]
TimedOut  == [tag |-> "Timeout"]
Answered(op, r) == [tag |-> "Ok", op |-> op, req |-> r]

InProgress(c) == phase[c] # "idle"
Open(c)       == InProgress(c) /\ result[c] = Undecided

Init ==
    /\ ready = FALSE
    /\ correlated = FALSE
    /\ phase = [c \in Callers |-> "idle"]
    /\ request = [c \in Callers |-> NoCall]
    /\ result = [c \in Callers |-> Undecided]

\* The handshake fixes how the session correlates, before any call.
Handshake ==
    /\ ~ready
    /\ ready' = TRUE
    /\ correlated' \in BOOLEAN
    /\ UNCHANGED <<phase, request, result>>

\* A call begins, about a request no other call in progress is about.
Start(c) ==
    /\ ready
    /\ ~InProgress(c)
    /\ \E op \in Ops, r \in Serials \ {NoCall.req} :
          /\ \A d \in Callers : request[d].req # r
          /\ request' = [request EXCEPT ![c] = [op |-> op, req |-> r]]
    /\ phase' = [phase EXCEPT ![c] = "queued"]
    /\ UNCHANGED <<ready, correlated, result>>

\* The request is admitted to the channel.
Admit(c) ==
    /\ phase[c] = "queued"
    /\ phase' = [phase EXCEPT ![c] = "waiting"]
    /\ UNCHANGED <<ready, correlated, request, result>>

\* The outcome of an open call is decided by a response.
Answer(c) ==
    /\ Open(c)
    /\ \E r \in Serials :
          /\ correlated => r = request[c].req
          /\ result' = [result EXCEPT ![c] = Answered(request[c].op, r)]
    /\ UNCHANGED <<ready, correlated, phase, request>>

\* The outcomes of some open calls are decided by the timeout, all at once.
Expire(cs) ==
    /\ cs # {}
    /\ \A c \in cs : Open(c)
    /\ result' = [c \in Callers |-> IF c \in cs THEN TimedOut ELSE result[c]]
    /\ UNCHANGED <<ready, correlated, phase, request>>

Leave(c) ==
    /\ phase' = [phase EXCEPT ![c] = "idle"]
    /\ request' = [request EXCEPT ![c] = NoCall]
    /\ result' = [result EXCEPT ![c] = Undecided]
    /\ UNCHANGED <<ready, correlated>>

\* A call that cannot be admitted returns an error.
Refuse(c) == phase[c] = "queued" /\ Leave(c)

\* A waiting call returns once its outcome is decided, and not before.
Return(c) == phase[c] = "waiting" /\ result[c] # Undecided /\ Leave(c)

Next ==
    \/ Handshake
    \/ \E c \in Callers : Start(c) \/ Admit(c) \/ Answer(c) \/ Refuse(c) \/ Return(c)
    \/ \E cs \in SUBSET Callers : Expire(cs)

Spec == Init /\ [][Next]_vars
=============================================================================

------------------------------ MODULE Resolver ------------------------------
(***************************************************************************)
(* The resolver of the gRPC client: the list of pending requests and the   *)
(* three operations the client performs on it (register_request,           *)
(* handle_response, remove_expired_requests).                              *)
(*                                                                         *)
(* Both variants, IdResolver and QueueResolver, keep their pendings in     *)
(* registration order; they differ in how a response finds its pending.    *)
(* The operators are pure: they take the list and give the new list, and   *)
(* the client module owns the variable.  The client serialises the three   *)
(* operations (one critical section per call), which is why each of them   *)
(* is one function application here.                                       *)
(*                                                                         *)
(* A pending is [op, id, req, age]:                                        *)
(*   op   the operation (and, for keyed operations, the distinguishing     *)
(*        key) the queue variant matches on;                               *)
(*   id   the correlation id the request carries on the wire;              *)
(*   req  the serial number of the call, a history value that names the    *)
(*        one-shot completion handle the pending owns;                     *)
(*   age  the time since registration, in ticks, capped at the timeout.    *)
(***************************************************************************)
EXTENDS Naturals, Sequences, SequencesExt

\* The variant chosen for a session: by id when the server handles message ids.
ById    == "id"
ByQueue == "queue"

\* A response resolves a pending of the id variant when the ids agree, and a
\* pending of the queue variant when the operations agree.
Matches(variant, pending, response) ==
    \/ variant = ById    /\ pending.id = response.id
    \/ variant = ByQueue /\ pending.op = response.op

\* The position of the pending a response resolves: the oldest one that matches,
\* 0 when none does.
MatchIndex(variant, pendings, response) ==
    SelectInSeq(pendings, LAMBDA p : Matches(variant, p, response))

\* In keyed mode there is at most one pending per id: a request whose id a live
\* pending already has collides with it.
Collides(variant, pendings, request) ==
    variant = ById /\ \E p \in ToSet(pendings) : p.id = request.id

\* register_request: a new pending at the end of the list, its clock at zero.
\* A colliding registration is reported and dropped.
RegisterRequest(variant, pendings, request) ==
    IF Collides(variant, pendings, request) THEN pendings
    ELSE Append(pendings, [op |-> request.op, id |-> request.id,
                           req |-> request.req, age |-> 0])

\* handle_response: the list without the pending the response resolves.
WithoutMatch(variant, pendings, response) ==
    LET i == MatchIndex(variant, pendings, response)
    IN  IF i = 0 THEN pendings ELSE RemoveAt(pendings, i)

\* A pending has expired once it has waited for the whole timeout.
Expired(pending, timeout) == pending.age >= timeout

\* remove_expired_requests: the calls whose pendings are removed, and what is left.
ExpiredReqs(pendings, timeout) ==
    { p.req : p \in { q \in ToSet(pendings) : Expired(q, timeout) } }

Unexpired(pendings, timeout) ==
    SelectSeq(pendings, LAMBDA p : ~Expired(p, timeout))

\* One tick of time: every pending is a tick older.  Ages stop at the timeout,
\* past which the resolver treats all pendings alike.
Aged(pendings, timeout) ==
    [i \in DOMAIN pendings |->
        [pendings[i] EXCEPT !.age = IF @ < timeout THEN @ + 1 ELSE @]]

\* The calls that have a pending.
PendingReqs(pendings) == { p.req : p \in ToSet(pendings) }
=============================================================================

---------------------------- MODULE MCGrpcClient ----------------------------
(***************************************************************************)
(* GrpcClient instantiated for TLC: the servers a run connects to and the  *)
(* symmetry of the callers.                                                *)
(***************************************************************************)
EXTENDS GrpcClient, TLC

\* A server that handles message ids and notify commands (a rusty-kaspa node).
FullServer == [has_notify_command |-> TRUE, has_message_id |-> TRUE]

\* A server that handles neither (the go node the queue resolver exists for).
PlainServer == [has_notify_command |-> FALSE, has_message_id |-> FALSE]

AnyServer  == {FullServer, PlainServer}
IdServer   == {FullServer}
QueueServer == {PlainServer}

\* Ids that never repeat: what 64 random bits give in practice.
FreshIds(n) == {n + 1}

\* An id space of one id: the second draw repeats the first.
CollidingIds(n) == {1}

\* Callers differ in name only.
CallerSymmetry == Permutations(Callers)
=============================================================================

------------------------------ MODULE MCClient ------------------------------
(***************************************************************************)
(* Client instantiated for TLC: the servers a run connects to.             *)
(***************************************************************************)
EXTENDS Client

\* A server that handles message ids and notify commands (a rusty-kaspa node).
FullServer == [has_notify_command |-> TRUE, has_message_id |-> TRUE]

\* A server that handles neither (the go node the queue resolver exists for).
PlainServer == [has_notify_command |-> FALSE, has_message_id |-> FALSE]

\* A server that handles notify commands and no message ids: the two flags of
\* GetInfoResponse are read one by one.
NotifyOnlyServer == [has_notify_command |-> TRUE, has_message_id |-> FALSE]

AnyServer == {FullServer, NotifyOnlyServer, PlainServer}

\* Ids that never repeat: what 64 random bits give in practice.
FreshIds(n) == {n + 1}
=============================================================================

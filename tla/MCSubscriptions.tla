--------------------------- MODULE MCSubscriptions ---------------------------
(***************************************************************************)
(* Subscriptions instantiated for TLC: the servers a run connects to.      *)
(***************************************************************************)
EXTENDS Subscriptions

\* A server that handles notify commands (start and stop) and message ids.
FullServer == [has_notify_command |-> TRUE, has_message_id |-> TRUE]

\* A server that handles neither: subscriptions can be started, never stopped.
PlainServer == [has_notify_command |-> FALSE, has_message_id |-> FALSE]

AnyServer   == {FullServer, PlainServer}
FullOnly    == {FullServer}
PlainOnly   == {PlainServer}
=============================================================================

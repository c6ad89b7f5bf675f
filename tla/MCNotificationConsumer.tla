----------------------- MODULE MCNotificationConsumer -----------------------
(* NotificationConsumer on small instances.                                *)
EXTENDS NotificationConsumer, TLC

\* Executions are interchangeable; commands are not, since some are malformed
\* and some have a saga to reply to.
Symmetry == Permutations(Worker)
=============================================================================

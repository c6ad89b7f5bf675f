--------------------------- MODULE MCSagaReplies ---------------------------
(* SagaReplies on small instances.                                         *)
EXTENDS SagaReplies

CONSTANTS g1

\* All replies are about one saga: a success and failures that contradict it.
OneSaga == [m \in Reply |-> g1]
=============================================================================

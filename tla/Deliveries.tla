----------------------------- MODULE Deliveries -----------------------------
(***************************************************************************)
(* What the two consumers of the system share: a message on its way        *)
(* through a queue, its retry queue and the executions of handleMessage    *)
(* that it is delivered to.                                                *)
(*                                                                         *)
(* A worker is one execution.  It starts with a message on an open         *)
(* channel, which may close under it: the broker then gives the message    *)
(* back to the queue, while the execution goes on.  An ack or nack takes   *)
(* effect in the step that decides it; one on a closed channel throws,     *)
(* which ends the execution without effect.                                *)
(***************************************************************************)
EXTENDS Naturals

CONSTANTS
    MaxAttempts,  \* topology.maxAttempts
    None

VARIABLES
    place,        \* where each message is
    deaths,       \* its x-death count for the main queue
    pc,           \* where each execution is
    job,          \* the message it handles
    open          \* the executions whose channel is still open

Goto(w, point) == pc' = [pc EXCEPT ![w] = point] /\ UNCHANGED <<job, open>>

End(w) ==
    /\ pc' = [pc EXCEPT ![w] = "idle"]
    /\ job' = [job EXCEPT ![w] = None]
    /\ open' = open \ {w}

\* The execution ends with its message put to a place, if the channel still
\* knows the message.
Settle(w, to) ==
    /\ End(w)
    /\ place' = IF w \in open THEN [place EXCEPT ![job[w]] = to] ELSE place

Ack(w) == Settle(w, "acked") /\ UNCHANGED deaths

\* nack without requeue: the queue dead-letters to the retry exchange.
Retry(w) ==
    /\ Settle(w, "retry")
    /\ deaths' = IF w \in open THEN [deaths EXCEPT ![job[w]] = @ + 1] ELSE deaths

Requeue(w) == Settle(w, "queue") /\ UNCHANGED deaths

\* getDeadLetterAttemptCount(message, queue) >= topology.maxAttempts
mutant_ExhaustedLate(m) == deaths[m] >= MaxAttempts
Exhausted(m) == deaths[m] + 1 >= MaxAttempts

\* What the broker does with the message of a channel that is gone.
Return(w) == place' = IF w \in open THEN [place EXCEPT ![job[w]] = "queue"] ELSE place
=============================================================================

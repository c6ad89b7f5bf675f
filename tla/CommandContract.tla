-------------------------- MODULE CommandContract --------------------------
(***************************************************************************)
(* What the consumer of notification commands promises: to whoever         *)
(* published a command that it is dealt with before it leaves the queues,  *)
(* and to the saga that waits for a reply that the reply is true.          *)
(*                                                                         *)
(* No queue, claim or execution appears here.  Which promises are good     *)
(* depends on what has failed so far; NotificationConsumer implements this *)
(* specification one statement at a time, and is shown to do so.           *)
(***************************************************************************)
EXTENDS Naturals

CONSTANTS Command, Malformed, Replied, Faults

VARIABLES
    mails,         \* how many times the mail of a command was sent
    replies,       \* the replies published for it
    deadLettered,  \* commands in the dead-letter queue
    settled,       \* commands the broker has forgotten
    struck         \* the kinds of fault that have occurred

contract == <<mails, replies, deadLettered, settled, struck>>

Spared(kinds) == struck \cap kinds = {}

\* What may part a mail from its record, and an execution from its command.
Parting == {"stale", "db", "smtp"}
Losing == {"crash", "channel", "db"}

ContractInit ==
    /\ mails = [m \in Command |-> 0]
    /\ replies = [m \in Command |-> {}]
    /\ deadLettered = {}
    /\ settled = {}
    /\ struck = {}

\* One mail for a command, however often it is delivered, unless a mail and its
\* record have parted.  An execution that lost its command may mail it even
\* after it is settled; the mail server may fail after it took the mail.
Send(m) ==
    /\ m \notin Malformed
    /\ Spared(Parting) => mails[m] = 0
    /\ mails' = [mails EXCEPT ![m] = @ + 1]
    /\ struck' = struck \/ struck' = struck \cup ({"smtp"} \cap Faults)
    /\ UNCHANGED <<replies, deadLettered, settled>>

Tell(m, event) ==
    /\ m \in Replied \ Malformed /\ m \notin settled
    /\ replies' = [replies EXCEPT ![m] = @ \cup {event}]
    /\ UNCHANGED <<mails, deadLettered, settled, struck>>

\* Success is told only after the mail, whatever has failed.
Succeed(m) == mails[m] > 0 /\ Tell(m, "succeeded")

\* A saga that is told of a failure may undo its subscription: the mail has
\* not been sent, unless executions of the command overlapped or a mail and
\* its record parted.
Unsent(m) == Spared(Parting \cup {"channel"}) => mails[m] = 0

Fail(m) == Unsent(m) /\ Tell(m, "failed")

\* Nobody gives up on a command silently: its saga was told, or was mailed.
Discard(m) ==
    /\ m \notin settled
    /\ \/ m \in Malformed
       \/ m \in Replied /\ ("failed" \in replies[m] \/ mails[m] > 0)
       \/ m \notin Replied /\ Unsent(m)
    /\ deadLettered' = deadLettered \cup {m}
    /\ UNCHANGED <<mails, replies, settled, struck>>

\* A command is forgotten once, after it was dealt with, unless an execution
\* was cut off from it or a statement failed.
DealtWith(m) ==
    \/ m \in deadLettered
    \/ mails[m] > 0 /\ (m \in Replied => "succeeded" \in replies[m])

Settle(m) ==
    /\ m \notin settled
    /\ Spared(Losing) => DealtWith(m)
    /\ settled' = settled \cup {m}
    /\ UNCHANGED <<mails, replies, deadLettered, struck>>

Strike(kind) ==
    /\ struck' = struck \cup {kind}
    /\ UNCHANGED <<mails, replies, deadLettered, settled>>

ContractNext ==
    \/ \E m \in Command : Send(m) \/ Succeed(m) \/ Fail(m) \/ Discard(m) \/ Settle(m)
    \/ \E kind \in Faults : Strike(kind)

ContractSpec == ContractInit /\ [][ContractNext]_contract
=============================================================================

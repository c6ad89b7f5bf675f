------------------------ MODULE NotificationConsumer ------------------------
(***************************************************************************)
(* The consumer of notification commands in the notification service: the  *)
(* claim on a message id in processed_messages, the mail, the reply to the *)
(* saga, and the retry and dead-letter queues of the broker.               *)
(*                                                                         *)
(* A worker is one execution of handleMessage.  A channel delivers one     *)
(* message at a time (prefetch(1)), yet several executions overlap: other  *)
(* instances compete for the queue, and a channel that closes gives its    *)
(* message back to the queue while the execution it started goes on.       *)
(*                                                                         *)
(* Grain: one step per database statement, mail and confirmed publication. *)
(***************************************************************************)
EXTENDS Naturals, Deliveries

CONSTANTS
    Command,      \* the commands published to the queue
    Malformed,    \* those that do not parse or lack a field
    Replied,      \* confirmations that carry a sagaId
    Worker,       \* executions of handleMessage that may overlap
    Faults,       \* the kinds of fault that may occur
    MaxFaults     \* bound: how many of them in one behaviour

ASSUME ConsumerAssumption ==
    /\ Malformed \subseteq Command
    /\ Replied \subseteq Command
    /\ None \notin Command
    /\ MaxAttempts \in Nat \ {0}
    /\ Faults \subseteq {"crash", "channel", "db", "broker", "smtp", "stale"}
    /\ MaxFaults \in Nat

VARIABLES
    \* the broker, besides place and deaths of Deliveries
    deadLettered,  \* commands in the dead-letter queue
    replies,       \* the replies published for it
    \* table processed_messages
    record,        \* the status of each message id
    stale,         \* pending records older than STALE_CLAIM_MS
    \* the mail server
    mails,         \* how many times the mail of a command was sent
    \* observed from outside
    faults,        \* faults so far
    struck         \* the kinds they were of

broker == <<place, deaths, deadLettered, replies>>
table == <<record, stale>>
vars == <<place, deaths, deadLettered, replies, record, stale, mails, pc, job, open, faults, struck>>

Point == {"idle", "look", "claim", "send", "mark", "unclaim", "failed", "reply",
          "replyFailed", "deadLetter", "ack"}

\* Values of the queues, the table and the executions; a command is unacked
\* exactly while one execution holds it on an open channel.
TypeOK ==
    /\ place \in [Command -> {"queue", "taken", "retry", "acked"}]
    /\ deaths \in [Command -> Nat]
    /\ deadLettered \subseteq Command
    /\ replies \in [Command -> SUBSET {"succeeded", "failed"}]
    /\ record \in [Command -> {"none", "pending", "sent"}]
    /\ stale \subseteq Command
    /\ mails \in [Command -> Nat]
    /\ pc \in [Worker -> Point]
    /\ job \in [Worker -> Command \cup {None}]
    /\ open \subseteq Worker
    /\ faults \in 0..MaxFaults
    /\ struck \subseteq Faults
    /\ \A w \in Worker : pc[w] # "idle" => job[w] \in Command
    /\ \A w \in open : pc[w] # "idle" /\ place[job[w]] = "taken"
    /\ \A v, w \in open : job[v] = job[w] => v = w

Init ==
    /\ place = [m \in Command |-> "queue"]
    /\ deaths = [m \in Command |-> 0]
    /\ deadLettered = {}
    /\ replies = [m \in Command |-> {}]
    /\ record = [m \in Command |-> "none"]
    /\ stale = {}
    /\ mails = [m \in Command |-> 0]
    /\ pc = [w \in Worker |-> "idle"]
    /\ job = [w \in Worker |-> None]
    /\ open = {}
    /\ faults = 0
    /\ struck = {}

Spend(kind) ==
    /\ kind \in Faults /\ faults < MaxFaults
    /\ faults' = faults + 1
    /\ struck' = struck \cup {kind}

-----------------------------------------------------------------------------
(* handleMessage.                                                          *)

\* A publication that needs the channel: refused when it is closed, and with
\* it the nack that follows.
Publish(w, point, effect) ==
    IF w \in open
    THEN effect /\ Goto(w, point) /\ UNCHANGED place
    ELSE End(w) /\ UNCHANGED <<place, deadLettered, replies>>

Deliver(w) ==
    /\ pc[w] = "idle"
    /\ \E m \in Command :
          /\ place[m] = "queue"
          /\ place' = [place EXCEPT ![m] = "taken"]
          /\ job' = [job EXCEPT ![w] = m]
          /\ pc' = [pc EXCEPT ![w] = IF m \in Malformed THEN "deadLetter" ELSE "look"]
    /\ open' = open \cup {w}
    /\ UNCHANGED <<deaths, deadLettered, replies, table, mails, faults, struck>>

\* hasProcessedMessage
LookUp(w) ==
    /\ pc[w] = "look"
    /\ Goto(w, IF record[job[w]] = "sent" THEN "reply" ELSE "claim")
    /\ UNCHANGED <<broker, table, mails, faults, struck>>

\* The insertion, or the take-over of a pending record that is old enough.
mutant_Claimable(m) == record[m] # "sent"
Claimable(m) == record[m] = "none" \/ (record[m] = "pending" /\ m \in stale)

recordProcessedMessage(m) ==
    /\ Claimable(m)
    /\ record' = [record EXCEPT ![m] = "pending"]
    /\ stale' = stale \ {m}

\* A message someone else has claimed is acknowledged on their behalf.
mutant_ClaimForgetsAck(w) ==
    /\ pc[w] = "claim"
    /\ \/ recordProcessedMessage(job[w]) /\ Goto(w, "send")
       \/ ~ Claimable(job[w]) /\ End(w) /\ UNCHANGED table
    /\ UNCHANGED <<broker, mails, faults, struck>>
Claim(w) ==
    /\ pc[w] = "claim"
    /\ \/ recordProcessedMessage(job[w]) /\ Goto(w, "send") /\ UNCHANGED <<place, deaths>>
       \/ ~ Claimable(job[w]) /\ Ack(w) /\ UNCHANGED table
    /\ UNCHANGED <<deadLettered, replies, mails, faults, struck>>

\* The mail goes out, or it does not and sendMail throws.
Send(w) ==
    /\ pc[w] = "send"
    /\ \/ mails' = [mails EXCEPT ![job[w]] = @ + 1] /\ Goto(w, "mark")
       \/ Goto(w, "unclaim") /\ UNCHANGED mails
    /\ UNCHANGED <<broker, table, faults, struck>>

\* An update by id: whoever claimed the record, and none if it is gone.
markProcessedMessageSent(m) ==
    /\ record' = [record EXCEPT ![m] = IF @ = "none" THEN "none" ELSE "sent"]
    /\ stale' = stale \ {m}

Mark(w) ==
    /\ pc[w] = "mark"
    /\ markProcessedMessageSent(job[w])
    /\ Goto(w, "reply")
    /\ UNCHANGED <<broker, mails, faults, struck>>

\* A delete by id, whatever the status and whoever claimed the record.
deleteProcessedMessage(m) ==
    /\ record' = [record EXCEPT ![m] = "none"]
    /\ stale' = stale \ {m}

mutant_UnclaimSwallows(w) ==
    /\ pc[w] = "unclaim"
    /\ deleteProcessedMessage(job[w])
    /\ Goto(w, "reply")
    /\ UNCHANGED <<broker, mails, faults, struck>>
Unclaim(w) ==
    /\ pc[w] = "unclaim"
    /\ deleteProcessedMessage(job[w])
    /\ Goto(w, "failed")
    /\ UNCHANGED <<broker, mails, faults, struck>>

\* The handling failed: another attempt, or the end of the attempts.
mutant_AckFailed(w) ==
    /\ pc[w] = "failed"
    /\ IF Exhausted(job[w])
       THEN /\ Goto(w, IF job[w] \in Replied THEN "replyFailed" ELSE "ack")
            /\ UNCHANGED <<place, deaths>>
       ELSE Retry(w)
    /\ UNCHANGED <<deadLettered, replies, table, mails, faults, struck>>
mutant_FailUntold(w) ==
    /\ pc[w] = "failed"
    /\ IF Exhausted(job[w])
       THEN Goto(w, "deadLetter") /\ UNCHANGED <<place, deaths>>
       ELSE Retry(w)
    /\ UNCHANGED <<deadLettered, replies, table, mails, faults, struck>>
Failed(w) ==
    /\ pc[w] = "failed"
    /\ IF Exhausted(job[w])
       THEN /\ Goto(w, IF job[w] \in Replied THEN "replyFailed" ELSE "deadLetter")
            /\ UNCHANGED <<place, deaths>>
       ELSE Retry(w)
    /\ UNCHANGED <<deadLettered, replies, table, mails, faults, struck>>

publishSagaReply(w, event) ==
    /\ replies' = [replies EXCEPT ![job[w]] = @ \cup {event}]
    /\ UNCHANGED deadLettered

ReplyFailed(w) ==
    /\ pc[w] = "replyFailed"
    /\ Publish(w, "deadLetter", publishSagaReply(w, "failed"))
    /\ UNCHANGED <<deaths, table, mails, faults, struck>>

\* moveToDeadLetter: publish and wait for the confirm, then acknowledge.
DeadLetter(w) ==
    /\ pc[w] = "deadLetter"
    /\ Publish(w, "ack", deadLettered' = deadLettered \cup {job[w]} /\ UNCHANGED replies)
    /\ UNCHANGED <<deaths, table, mails, faults, struck>>

\* Success: a saga is told first, any other command is acknowledged at once.
Reply(w) ==
    /\ pc[w] = "reply"
    /\ \/ /\ job[w] \in Replied
          /\ Publish(w, "ack", publishSagaReply(w, "succeeded"))
          /\ UNCHANGED deaths
       \/ job[w] \notin Replied /\ Ack(w) /\ UNCHANGED <<deadLettered, replies>>
    /\ UNCHANGED <<table, mails, faults, struck>>

Acknowledge(w) ==
    /\ pc[w] = "ack"
    /\ Ack(w)
    /\ UNCHANGED <<deadLettered, replies, table, mails, faults, struck>>

\* The TTL of the retry queue passes: back through the main exchange.
Expire(m) ==
    /\ place[m] = "retry"
    /\ place' = [place EXCEPT ![m] = "queue"]
    /\ UNCHANGED <<deaths, deadLettered, replies, table, mails, pc, job, open, faults, struck>>

-----------------------------------------------------------------------------
(* Faults.                                                                 *)

\* The mail server took the mail, and sendMail throws all the same.
MailError(w) ==
    /\ pc[w] = "send"
    /\ Spend("smtp")
    /\ mails' = [mails EXCEPT ![job[w]] = @ + 1]
    /\ Goto(w, "unclaim")
    /\ UNCHANGED <<broker, table>>

\* A statement fails, carried out or not.  What follows the failed mark is
\* the delete; everything else is an error of the handling.
DatabaseError(w) ==
    /\ Spend("db")
    /\ \/ pc[w] = "look" /\ UNCHANGED table
       \/ pc[w] = "claim" /\ (recordProcessedMessage(job[w]) \/ UNCHANGED table)
       \/ pc[w] = "mark" /\ (markProcessedMessageSent(job[w]) \/ UNCHANGED table)
       \/ pc[w] = "unclaim" /\ (deleteProcessedMessage(job[w]) \/ UNCHANGED table)
    /\ Goto(w, IF pc[w] = "mark" THEN "unclaim" ELSE "failed")
    /\ UNCHANGED <<broker, mails>>

\* The broker does not confirm a publication.
BrokerError(w) ==
    /\ Spend("broker")
    /\ w \in open
    /\ \/ pc[w] = "replyFailed" /\ Retry(w)
       \/ /\ pc[w] = "deadLetter"
          /\ IF job[w] \in Malformed THEN Requeue(w) ELSE Retry(w)
       \/ /\ pc[w] = "reply" /\ job[w] \in Replied
          /\ IF Exhausted(job[w])
             THEN Goto(w, "deadLetter") /\ UNCHANGED <<place, deaths>>
             ELSE Retry(w)
    /\ UNCHANGED <<deadLettered, replies, table, mails>>

LoseChannel(w) ==
    /\ w \in open
    /\ Spend("channel")
    /\ Return(w)
    /\ open' = open \ {w}
    /\ UNCHANGED <<deaths, deadLettered, replies, table, mails, pc, job>>

Crash(w) ==
    /\ pc[w] # "idle"
    /\ Spend("crash")
    /\ Return(w)
    /\ End(w)
    /\ UNCHANGED <<deaths, deadLettered, replies, table, mails>>

\* A claim gets older than STALE_CLAIM_MS, whether its owner died or is slow.
Age(m) ==
    /\ record[m] = "pending"
    /\ m \notin stale
    /\ Spend("stale")
    /\ stale' = stale \cup {m}
    /\ UNCHANGED <<broker, record, mails, pc, job, open>>

-----------------------------------------------------------------------------
Handle(w) ==
    \/ LookUp(w) \/ Claim(w) \/ Send(w) \/ Mark(w) \/ Unclaim(w) \/ Failed(w)
    \/ ReplyFailed(w) \/ DeadLetter(w) \/ Reply(w) \/ Acknowledge(w)

Next ==
    \/ \E w \in Worker : Deliver(w) \/ Handle(w)
    \/ \E m \in Command : Expire(m) \/ Age(m)
    \/ \E w \in Worker : MailError(w) \/ DatabaseError(w) \/ BrokerError(w)
                         \/ LoseChannel(w) \/ Crash(w)

Spec == Init /\ [][Next]_vars

\* Node continues an execution whose query, mail or confirm is answered, a
\* consumer with a free channel is given a waiting message, and a TTL passes.
Fairness ==
    /\ \A w \in Worker : WF_vars(Deliver(w)) /\ WF_vars(Handle(w))
    /\ \A m \in Command : WF_vars(Expire(m))

FairSpec == Spec /\ Fairness

-----------------------------------------------------------------------------
(* Properties.                                                             *)

Working == {"send", "mark", "unclaim"}

\* The claim excludes: of all executions of a command, on whatever instance
\* and with whatever channel, one at a time is between its claim and the end
\* of it, until a claim is taken over (recordProcessedMessage).
OneConsumer ==
    "stale" \notin struck =>
        \A v, w \in Worker :
            pc[v] \in Working /\ pc[w] \in Working /\ job[v] = job[w] => v = w

\* What is recorded, and what a saga is told, is true: neither a sent record
\* nor a reply of success exists for a mail that was not sent, even after
\* records were taken over, deleted by another or written in vain.
SuccessIsTrue ==
    \A m \in Command : record[m] = "sent" \/ "succeeded" \in replies[m] => mails[m] > 0

\* Redelivery sends nothing twice: channels lost, processes killed and
\* publications refused at any point leave at most one mail, until a mail and
\* its record part (a failed statement, a wrong mail error, a take-over).
MailedOnce ==
    struck \cap {"stale", "db", "smtp"} = {} => \A m \in Command : mails[m] <= 1

\* What a subscriber and a saga may expect of a command.
DealtWith(m) ==
    \/ m \in deadLettered
    \/ mails[m] > 0 /\ (m \in Replied => "succeeded" \in replies[m])

\* An acknowledged command waits in the dead-letter queue, or it was mailed
\* and the saga that waits for it was told so, as long as executions keep
\* their channels and statements do not fail: an acknowledgement on behalf of
\* another (handleMessage) then has another who deserves it.
Accounted ==
    struck \cap {"crash", "channel", "db"} = {} =>
        \A m \in Command : place[m] = "acked" => DealtWith(m)

\* The same without the proviso, as the documentation has it.
AcknowledgedIsMailed == \A m \in Command : place[m] = "acked" => DealtWith(m)

\* A command circulates through the retry queue at most as often as it has
\* attempts, and once more for each failure of what should end them.
RetriesAreBounded == \A m \in Command : deaths[m] < MaxAttempts + faults

\* Everything together, and more than the states tell: when a reply, a dead
\* letter or an acknowledgement is made, it may be made.
Contract == INSTANCE CommandContract WITH settled <- {m \in Command : place[m] = "acked"}

KeepsContract == Contract!ContractSpec

\* Every command leaves the queues in the end, whatever failed on the way.
CommandEnds == \A m \in Command : <>[](place[m] = "acked")
=============================================================================

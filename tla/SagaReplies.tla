----------------------------- MODULE SagaReplies -----------------------------
(***************************************************************************)
(* The consumer of saga replies in the notifier, between the broker and    *)
(* the tables sagas, subscriptions and processed_saga_replies.             *)
(*                                                                         *)
(* It meets sagas that requests and recovery sweeps advance at the same    *)
(* time.  Of those nothing is assumed but the contract SagaLifecycle,      *)
(* which SubscriptionSaga implements; that the consumer keeps to it as     *)
(* well is what is to be shown.                                            *)
(*                                                                         *)
(* Grain: one step per database statement and confirmed publication.       *)
(***************************************************************************)
EXTENDS Naturals, Deliveries

CONSTANTS
    Saga,
    Reply,        \* the replies that may be published, each with an id
    Useless,      \* those that do not parse, lack a field, have no handler
                  \* or are about a saga that is not in the table
    Succeeded,    \* those that report a success, the others a failure
    SagaOf,       \* the saga a reply is about
    Worker,       \* executions of handleMessage that may overlap
    Faults,       \* the kinds of fault that may occur
    MaxFaults     \* bound: how many of them in one behaviour

ASSUME RepliesAssumption ==
    /\ Useless \subseteq Reply
    /\ Succeeded \subseteq Reply
    /\ SagaOf \in [Reply -> Saga]
    /\ None \notin Reply
    /\ MaxAttempts \in Nat \ {0}
    /\ Faults \subseteq {"crash", "channel", "db", "broker"}
    /\ MaxFaults \in Nat

VARIABLES
    \* the sagas, as in SagaLifecycle
    row, state, mailed,
    \* the rest of the broker and of the database
    deadLettered,  \* replies in the dead-letter queue
    processed,     \* table processed_saga_replies
    faults         \* faults so far

Lifecycle == INSTANCE SagaLifecycle

sagas == <<row, state, mailed>>
delivery == <<place, deaths, pc, job, open>>
vars == <<row, state, mailed, place, deaths, pc, job, open, deadLettered, processed, faults>>

Point == {"idle", "look", "find", "complete", "claim", "delete", "markCompensated",
          "markFailed", "record", "ack", "deadLetter"}

\* Values of the tables, queues and executions; a reply is unacked exactly
\* while one execution holds it on an open channel.
TypeOK ==
    /\ Lifecycle!LifecycleTypeOK
    /\ place \in [Reply -> {"unpublished", "queue", "taken", "retry", "acked"}]
    /\ deaths \in [Reply -> Nat]
    /\ pc \in [Worker -> Point]
    /\ job \in [Worker -> Reply \cup {None}]
    /\ open \subseteq Worker
    /\ deadLettered \subseteq Reply
    /\ processed \subseteq Reply \ Useless
    /\ faults \in 0..MaxFaults
    /\ \A w \in Worker : pc[w] # "idle" => job[w] \in Reply
    /\ \A w \in open : pc[w] # "idle" /\ place[job[w]] = "taken"
    /\ \A v, w \in open : job[v] = job[w] => v = w

Init ==
    /\ Lifecycle!LifecycleInit
    /\ place = [m \in Reply |-> IF m \in Useless THEN "queue" ELSE "unpublished"]
    /\ deaths = [m \in Reply |-> 0]
    /\ pc = [w \in Worker |-> "idle"]
    /\ job = [w \in Worker |-> None]
    /\ open = {}
    /\ deadLettered = {}
    /\ processed = {}
    /\ faults = 0

Spend(kind) == kind \in Faults /\ faults < MaxFaults /\ faults' = faults + 1

-----------------------------------------------------------------------------
(* The others.                                                             *)

\* Requests, sweeps, subscribers and the mail, as their contract allows.
Others ==
    /\ Lifecycle!LifecycleNext
    /\ UNCHANGED <<delivery, deadLettered, processed, faults>>

\* The notification service publishes a reply to a command it was sent, and
\* one of success only after the mail (publishSagaReply of its consumer).  A
\* useless reply waits in the queue from the beginning.
Publish(m) ==
    /\ place[m] = "unpublished"
    /\ state[SagaOf[m]] \notin {"NONE", "STARTED"}
    /\ m \in Succeeded => SagaOf[m] \in mailed
    /\ place' = [place EXCEPT ![m] = "queue"]
    /\ UNCHANGED <<sagas, deaths, pc, job, open, deadLettered, processed, faults>>

\* The TTL of the retry queue passes: back through the reply exchange.
Expire(m) ==
    /\ place[m] = "retry"
    /\ place' = [place EXCEPT ![m] = "queue"]
    /\ UNCHANGED <<sagas, deaths, pc, job, open, deadLettered, processed, faults>>

-----------------------------------------------------------------------------
(* handleMessage.                                                          *)

\* A reply that makes no sense is acknowledged at once; one about no saga is
\* found out by a query.
Deliver(w) ==
    /\ pc[w] = "idle"
    /\ \E m \in Reply :
          /\ place[m] = "queue"
          /\ \/ /\ m \in Useless
                /\ place' = [place EXCEPT ![m] = "acked"]
                /\ UNCHANGED <<pc, job, open>>
             \/ /\ place' = [place EXCEPT ![m] = "taken"]
                /\ job' = [job EXCEPT ![w] = m]
                /\ pc' = [pc EXCEPT ![w] = "look"]
                /\ open' = open \cup {w}
    /\ UNCHANGED <<sagas, deaths, deadLettered, processed, faults>>

\* A step to another point, with the message kept.
Step(w, from, to) == pc[w] = from /\ Goto(w, to) /\ UNCHANGED <<place, deaths>>

\* hasProcessedSagaReply
LookUp(w) ==
    /\ \/ job[w] \in processed /\ pc[w] = "look" /\ Ack(w)
       \/ job[w] \notin processed /\ Step(w, "look", "find")
    /\ UNCHANGED <<sagas, deadLettered, processed, faults>>

\* findSagaById: a saga that is not pending needs nothing done, and a reply
\* about none is not recorded.
Find(w) ==
    /\ \/ job[w] \in Useless /\ pc[w] = "find" /\ Ack(w)
       \/ /\ job[w] \notin Useless
          /\ Step(w, "find",
                  IF state[SagaOf[job[w]]] # "NOTIFICATION_PENDING" THEN "record"
                  ELSE IF job[w] \in Succeeded THEN "complete" ELSE "claim")
    /\ UNCHANGED <<sagas, deadLettered, processed, faults>>

\* updateSagaState: an update of a saga in another state changes no row.
mutant_ExpectNothing(w, from) == TRUE
Expecting(w, from) == state[SagaOf[job[w]]] = from

mutant_SetAnyState(w, from, to) ==
    /\ state' = [state EXCEPT ![SagaOf[job[w]]] = to]
    /\ UNCHANGED <<row, mailed>>
SetState(w, from, to) ==
    /\ state' = IF Expecting(w, from) THEN [state EXCEPT ![SagaOf[job[w]]] = to] ELSE state
    /\ UNCHANGED <<row, mailed>>

\* The effect on the tables of the statement w is about to run.
Completed(w) == SetState(w, "NOTIFICATION_PENDING", "COMPLETED")

Claimed(w) == SetState(w, "NOTIFICATION_PENDING", "COMPENSATING")

Removed(w) ==
    LET g == SagaOf[job[w]] IN
    /\ row' = IF row[g] = "pending" THEN [row EXCEPT ![g] = "deleted"] ELSE row
    /\ UNCHANGED <<state, mailed>>

Ended(w) ==
    SetState(w, "COMPENSATING", IF pc[w] = "markCompensated" THEN "COMPENSATED" ELSE "FAILED")

Complete(w) ==
    /\ Step(w, "complete", "record")
    /\ Completed(w)
    /\ UNCHANGED <<deadLettered, processed, faults>>

\* compensateLoadedSubscriptionConfirmationSaga; row is "none" for a saga
\* that was not created with its subscription.
Claim(w) ==
    /\ Step(w, "claim",
            IF ~ Expecting(w, "NOTIFICATION_PENDING") THEN "record"
            ELSE IF row[SagaOf[job[w]]] # "none" THEN "delete" ELSE "markFailed")
    /\ Claimed(w)
    /\ UNCHANGED <<deadLettered, processed, faults>>

Delete(w) ==
    /\ Step(w, "delete", "markCompensated")
    /\ Removed(w)
    /\ UNCHANGED <<deadLettered, processed, faults>>

Finish(w) ==
    /\ pc[w] \in {"markCompensated", "markFailed"}
    /\ Step(w, pc[w], "record")
    /\ Ended(w)
    /\ UNCHANGED <<deadLettered, processed, faults>>

recordProcessedSagaReply(m) == processed' = processed \cup {m}

Record(w) ==
    /\ Step(w, "record", "ack")
    /\ recordProcessedSagaReply(job[w])
    /\ UNCHANGED <<sagas, deadLettered, faults>>

Acknowledge(w) ==
    /\ pc[w] = "ack"
    /\ Ack(w)
    /\ UNCHANGED <<sagas, deadLettered, processed, faults>>

\* moveToDeadLetter: publish and wait for the confirm, then acknowledge.
mutant_DeadLetterForgetsAck(w) ==
    /\ pc[w] = "deadLetter"
    /\ deadLettered' = IF w \in open THEN deadLettered \cup {job[w]} ELSE deadLettered
    /\ End(w)
    /\ UNCHANGED <<sagas, place, deaths, processed, faults>>
DeadLetter(w) ==
    /\ pc[w] = "deadLetter"
    /\ IF w \in open
       THEN /\ deadLettered' = deadLettered \cup {job[w]}
            /\ Step(w, "deadLetter", "ack")
       ELSE End(w) /\ UNCHANGED <<place, deaths, deadLettered>>
    /\ UNCHANGED <<sagas, processed, faults>>

-----------------------------------------------------------------------------
(* Faults.                                                                 *)

\* The handling failed: another attempt, or the end of the attempts.
mutant_AckFailed(w) == Ack(w)
Failed(w) ==
    IF Exhausted(job[w]) THEN Goto(w, "deadLetter") /\ UNCHANGED <<place, deaths>> ELSE Retry(w)

\* A statement fails, carried out or not.  That of the delete is caught and
\* fails the saga, everything else ends the handling.
DatabaseError(w) ==
    /\ Spend("db")
    /\ \/ pc[w] \in {"look", "find"} /\ UNCHANGED <<sagas, processed>>
       \/ pc[w] = "complete" /\ (Completed(w) \/ UNCHANGED sagas) /\ UNCHANGED processed
       \/ pc[w] = "claim" /\ (Claimed(w) \/ UNCHANGED sagas) /\ UNCHANGED processed
       \/ pc[w] = "delete" /\ (Removed(w) \/ UNCHANGED sagas) /\ UNCHANGED processed
       \/ /\ pc[w] \in {"markCompensated", "markFailed"}
          /\ Ended(w) \/ UNCHANGED sagas
          /\ UNCHANGED processed
       \/ /\ pc[w] = "record"
          /\ recordProcessedSagaReply(job[w]) \/ UNCHANGED processed
          /\ UNCHANGED sagas
    /\ IF pc[w] = "delete" THEN Step(w, "delete", "markFailed") ELSE Failed(w)
    /\ UNCHANGED deadLettered

\* The broker does not confirm the dead letter, which it may have taken.
BrokerError(w) ==
    /\ pc[w] = "deadLetter" /\ w \in open
    /\ Spend("broker")
    /\ deadLettered' \in {deadLettered, deadLettered \cup {job[w]}}
    /\ Retry(w)
    /\ UNCHANGED <<sagas, processed>>

LoseChannel(w) ==
    /\ w \in open
    /\ Spend("channel")
    /\ Return(w)
    /\ open' = open \ {w}
    /\ UNCHANGED <<sagas, deaths, pc, job, deadLettered, processed>>

Crash(w) ==
    /\ pc[w] # "idle"
    /\ Spend("crash")
    /\ Return(w)
    /\ End(w)
    /\ UNCHANGED <<sagas, deaths, deadLettered, processed>>

-----------------------------------------------------------------------------
Handle(w) ==
    \/ LookUp(w) \/ Find(w) \/ Complete(w) \/ Claim(w) \/ Delete(w) \/ Finish(w)
    \/ Record(w) \/ Acknowledge(w) \/ DeadLetter(w)

Next ==
    \/ Others
    \/ \E m \in Reply : Publish(m) \/ Expire(m)
    \/ \E w \in Worker : Deliver(w) \/ Handle(w)
    \/ \E w \in Worker : DatabaseError(w) \/ BrokerError(w) \/ LoseChannel(w) \/ Crash(w)

Spec == Init /\ [][Next]_vars

\* Node continues an execution whose query or confirm is answered, the broker
\* gives a waiting reply to a consumer with a free channel, a TTL passes.
Fairness ==
    /\ \A w \in Worker : WF_vars(Deliver(w)) /\ WF_vars(Handle(w))
    /\ \A m \in Reply : WF_vars(Expire(m))

FairSpec == Spec /\ Fairness

-----------------------------------------------------------------------------
(* Properties.                                                             *)

\* Replies, duplicated, late and interrupted at any point, do nothing to a
\* saga that requests and sweeps could not do: none completes without a mail,
\* leaves a terminal state or claims to have removed a row that is there.
ImplementsLifecycle == Lifecycle!LifecycleSpec

\* Of the executions of one failure, of its redeliveries and of a second
\* failure reported for the same saga, one at a time undoes it: here, where
\* every claim expects NOTIFICATION_PENDING, the claim is a lock.
OneCompensator ==
    \A v, w \in Worker :
        /\ {pc[v], pc[w]} \subseteq {"delete", "markCompensated", "markFailed"}
        /\ SagaOf[job[v]] = SagaOf[job[w]]
        => v = w

\* A reply is recorded or acknowledged after it took effect and not before:
\* unless it went to the dead-letter queue, its saga is no longer pending.
TookEffect(m) == state[SagaOf[m]] \notin {"NONE", "STARTED", "NOTIFICATION_PENDING"}

DoneMeansEffect ==
    \A m \in Reply \ Useless :
        m \in processed \/ (place[m] = "acked" /\ m \notin deadLettered) => TookEffect(m)

\* The queues run empty again and again: whatever failed on the way, each
\* reply that was published is acknowledged in the end.
RepliesEnd == []<>(\A m \in Reply : place[m] \in {"unpublished", "acked"})
=============================================================================

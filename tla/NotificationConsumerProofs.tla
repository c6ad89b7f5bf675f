--------------------- MODULE NotificationConsumerProofs ---------------------
(***************************************************************************)
(* Proofs about NotificationConsumer, for any commands, executions and     *)
(* numbers of attempts and faults.  What depends on the kinds of fault     *)
(* that occurred has them in the antecedent of its property.               *)
(***************************************************************************)
EXTENDS NotificationConsumer, TLAPS

(* Type correctness.                                                       *)

\* The values of the variables, without what ties executions to the broker.
Values ==
    /\ place \in [Command -> {"queue", "taken", "retry", "acked"}]
    /\ deaths \in [Command -> Nat]
    /\ deadLettered \subseteq Command
    /\ replies \in [Command -> SUBSET {"succeeded", "failed"}]
    /\ record \in [Command -> {"none", "pending", "sent"}]
    /\ stale \subseteq Command
    /\ mails \in [Command -> Nat]
    /\ pc \in [Worker -> Point]
    /\ job \in [Worker -> Command \cup {None}]
    /\ open \subseteq Worker
    /\ faults \in 0..MaxFaults
    /\ struck \subseteq Faults

Holding ==
    /\ \A w \in Worker : pc[w] # "idle" => job[w] \in Command
    /\ \A w \in open : pc[w] # "idle" /\ place[job[w]] = "taken"
    /\ \A v, w \in open : job[v] = job[w] => v = w

\* TypeOK is the conjunction of the two.
LEMMA TypeParts == (TypeOK <=> Values /\ Holding) /\ (TypeOK' <=> Values' /\ Holding')
BY DEF TypeOK, Values, Holding

\* An execution that goes on keeps its command and its channel.
LEMMA GotoTyped ==
    ASSUME TypeOK, NEW w \in Worker, pc[w] # "idle", NEW p \in Point \ {"idle"},
           Goto(w, p), UNCHANGED place
    PROVE  /\ pc' \in [Worker -> Point] /\ job' \in [Worker -> Command \cup {None}]
           /\ open' \subseteq Worker /\ Holding'
BY DEF TypeOK, Goto, Holding

\* An execution that ends leaves its message where the broker puts it.
LEMMA SettleTyped ==
    ASSUME TypeOK, NEW w \in Worker, pc[w] # "idle",
           NEW to \in {"queue", "retry", "acked"}, Settle(w, to)
    PROVE  /\ place' \in [Command -> {"queue", "taken", "retry", "acked"}]
           /\ pc' \in [Worker -> Point] /\ job' \in [Worker -> Command \cup {None}]
           /\ open' \subseteq Worker /\ Holding'
<1>1. job[w] \in Command
    BY DEF TypeOK
<1>2. /\ place' \in [Command -> {"queue", "taken", "retry", "acked"}]
      /\ pc' \in [Worker -> Point] /\ job' \in [Worker -> Command \cup {None}]
      /\ open' \subseteq Worker
    BY <1>1 DEF TypeOK, Settle, End, Point
<1>3. ASSUME NEW v \in Worker, v # w PROVE pc'[v] = pc[v] /\ job'[v] = job[v]
    BY <1>3 DEF TypeOK, Settle, End
<1>4. pc'[w] = "idle" /\ open' = open \ {w}
    BY DEF TypeOK, Settle, End
<1>5. ASSUME NEW v \in open' PROVE place'[job'[v]] = "taken"
    <2>1. v # w /\ v \in open /\ v \in Worker
        BY <1>4, <1>5, <1>2
    <2>2. job'[v] = job[v] /\ job[v] \in Command /\ place[job[v]] = "taken"
        BY <1>3, <2>1 DEF TypeOK
    <2>3. w \in open => job[v] # job[w]
        BY <2>1 DEF TypeOK
    <2>4. QED BY <1>1, <2>2, <2>3 DEF Settle, TypeOK
<1>6. Holding'
    BY <1>2, <1>3, <1>4, <1>5 DEF TypeOK, Holding
<1>7. QED BY <1>2, <1>6

\* The empty queues and idle executions are well-typed.
LEMMA InitTyped == Init => TypeOK
BY ConsumerAssumption DEF Init, TypeOK, Point

\* Type correctness is inductive by itself: one case per action.
LEMMA NextTyped == TypeOK /\ [Next]_vars => TypeOK'
<1> SUFFICES ASSUME TypeOK, [Next]_vars PROVE TypeOK'
    OBVIOUS
<1> USE ConsumerAssumption
<1>a. ASSUME NEW w \in Worker, pc[w] # "idle" PROVE job[w] \in Command
    BY <1>a DEF TypeOK
<1>b. faults' = faults \/ faults' \in 0..MaxFaults => faults' \in 0..MaxFaults
    BY DEF TypeOK
<1>1. ASSUME NEW w \in Worker, Deliver(w) PROVE TypeOK'
    <2> PICK m \in Command : /\ place[m] = "queue"
                             /\ place' = [place EXCEPT ![m] = "taken"]
                             /\ job' = [job EXCEPT ![w] = m]
                             /\ pc' = [pc EXCEPT ![w] = IF m \in Malformed THEN "deadLetter" ELSE "look"]
        BY <1>1 DEF Deliver
    <2>1. Values'
        BY <1>1 DEF Deliver, TypeOK, Values, table, Point
    <2>2. \A v \in open : job[v] # m /\ v # w /\ v \in Worker
        BY <1>1 DEF Deliver, TypeOK
    <2>3. pc'[w] # "idle" /\ job'[w] = m /\ place'[m] = "taken"
        BY DEF TypeOK
    <2>4. \A v \in Worker : v # w => pc'[v] = pc[v] /\ job'[v] = job[v]
        BY DEF TypeOK
    <2>5. open' = open \cup {w}
        BY <1>1 DEF Deliver
    <2>6. \A v \in Worker : pc'[v] # "idle" => job'[v] \in Command
        BY <2>3, <2>4 DEF TypeOK
    <2>7. ASSUME NEW v \in open' PROVE pc'[v] # "idle" /\ place'[job'[v]] = "taken"
        <3>1. CASE v = w
            BY <3>1, <2>3
        <3>2. CASE v # w
            <4>1. v \in open /\ v \in Worker /\ job'[v] = job[v] /\ pc'[v] = pc[v]
                BY <3>2, <2>2, <2>4, <2>5
            <4>2. QED BY <4>1 DEF TypeOK
        <3>3. QED BY <3>1, <3>2
    <2>8. \A u, v \in open' : job'[u] = job'[v] => u = v
        BY <2>2, <2>3, <2>4, <2>5 DEF TypeOK
    <2>9. QED BY <2>1, <2>6, <2>7, <2>8, TypeParts DEF Holding
<1>2. ASSUME NEW w \in Worker, LookUp(w) \/ Send(w) \/ Mark(w) \/ Unclaim(w) PROVE TypeOK'
    <2>1. PICK p \in Point \ {"idle"} : Goto(w, p)
        BY <1>2 DEF LookUp, Send, Mark, Unclaim, Point
    <2>2. pc[w] # "idle" /\ UNCHANGED place
        BY <1>2 DEF LookUp, Send, Mark, Unclaim, broker
    <2>3. Holding' /\ pc' \in [Worker -> Point] /\ job' \in [Worker -> Command \cup {None}]
          /\ open' \subseteq Worker
        BY <2>1, <2>2, GotoTyped
    <2>4. record' \in [Command -> {"none", "pending", "sent"}] /\ stale' \subseteq Command
        BY <1>2 DEF LookUp, Send, Mark, Unclaim, markProcessedMessageSent,
                    deleteProcessedMessage, table, TypeOK
    <2>5. mails' \in [Command -> Nat]
        BY <1>2 DEF LookUp, Send, Mark, Unclaim, TypeOK
    <2>6. UNCHANGED <<deaths, deadLettered, replies, faults, struck>>
        BY <1>2 DEF LookUp, Send, Mark, Unclaim, broker
    <2>7. QED BY <2>2, <2>3, <2>4, <2>5, <2>6, TypeParts DEF Values, TypeOK
<1>3. ASSUME NEW w \in Worker, Claim(w) PROVE TypeOK'
    <2>0. pc[w] # "idle"
        BY <1>3 DEF Claim
    <2>1. CASE recordProcessedMessage(job[w]) /\ Goto(w, "send") /\ UNCHANGED <<place, deaths>>
        <3>1. Holding' /\ pc' \in [Worker -> Point] /\ job' \in [Worker -> Command \cup {None}]
              /\ open' \subseteq Worker
            BY <2>0, <2>1, GotoTyped DEF Point
        <3>2. QED BY <1>3, <2>1, <3>1, TypeParts
                  DEF Values, TypeOK, Claim, recordProcessedMessage
    <2>2. CASE Ack(w) /\ UNCHANGED table
        <3>1. /\ place' \in [Command -> {"queue", "taken", "retry", "acked"}]
              /\ Holding' /\ pc' \in [Worker -> Point]
              /\ job' \in [Worker -> Command \cup {None}] /\ open' \subseteq Worker
            BY <2>0, <2>2, SettleTyped DEF Ack
        <3>2. QED BY <1>3, <2>2, <3>1, TypeParts DEF Values, TypeOK, Claim, Ack, table
    <2>3. QED BY <1>3, <2>1, <2>2 DEF Claim
<1>4. ASSUME NEW w \in Worker, pc[w] # "idle", Retry(w) \/ Ack(w) \/ Requeue(w),
             UNCHANGED <<deadLettered, replies, table, mails>>, faults' \in 0..MaxFaults,
             struck' \subseteq Faults
      PROVE  TypeOK'
    <2>1. /\ place' \in [Command -> {"queue", "taken", "retry", "acked"}]
          /\ Holding' /\ pc' \in [Worker -> Point]
          /\ job' \in [Worker -> Command \cup {None}] /\ open' \subseteq Worker
        BY <1>4, SettleTyped DEF Retry, Ack, Requeue
    <2>2. deaths' \in [Command -> Nat]
        BY <1>4, <1>a DEF Retry, Ack, Requeue, TypeOK
    <2>3. QED BY <1>4, <2>1, <2>2, TypeParts DEF Values, TypeOK, table
<1>5. ASSUME NEW w \in Worker, pc[w] # "idle", NEW p \in Point \ {"idle"}, Goto(w, p),
             UNCHANGED <<place, deaths, mails>>, faults' \in 0..MaxFaults, struck' \subseteq Faults,
             record' \in [Command -> {"none", "pending", "sent"}], stale' \subseteq Command,
             deadLettered' \subseteq Command,
             replies' \in [Command -> SUBSET {"succeeded", "failed"}]
      PROVE  TypeOK'
    <2>1. Holding' /\ pc' \in [Worker -> Point] /\ job' \in [Worker -> Command \cup {None}]
          /\ open' \subseteq Worker
        BY <1>5, GotoTyped
    <2>2. QED BY <1>5, <2>1, TypeParts DEF Values, TypeOK
<1>6. ASSUME NEW w \in Worker, Failed(w) PROVE TypeOK'
    <2>1. CASE Retry(w)
        BY <1>4, <1>6, <2>1 DEF Failed, TypeOK
    <2>2. CASE Exhausted(job[w])
        BY <1>5, <1>6, <2>2 DEF Failed, TypeOK, Point, table
    <2>3. QED BY <1>6, <2>1, <2>2 DEF Failed
<1>7. ASSUME NEW w \in Worker, ReplyFailed(w) \/ DeadLetter(w) \/ Reply(w) PROVE TypeOK'
    <2>0. pc[w] # "idle" /\ UNCHANGED <<table, mails, faults, struck, deaths>>
        BY <1>7 DEF ReplyFailed, DeadLetter, Reply, Ack
    <2>1. CASE w \in open /\ ~ Ack(w)
        <3>1. PICK p \in Point \ {"idle"} : Goto(w, p) /\ UNCHANGED place
            BY <1>7, <2>1 DEF ReplyFailed, DeadLetter, Reply, Publish, Point
        <3>2. replies' \in [Command -> SUBSET {"succeeded", "failed"}]
            BY <1>7, <2>0, <2>1, <1>a
               DEF ReplyFailed, DeadLetter, Reply, Publish, publishSagaReply, TypeOK
        <3>3. deadLettered' \subseteq Command
            BY <1>7, <2>0, <2>1, <1>a
               DEF ReplyFailed, DeadLetter, Reply, Publish, publishSagaReply, TypeOK
        <3>4. QED BY <1>5, <2>0, <3>1, <3>2, <3>3 DEF TypeOK, table
    <2>2. CASE Ack(w) /\ Reply(w)
        <3>1. CASE job[w] \notin Replied /\ UNCHANGED <<deadLettered, replies>>
            BY <1>4, <2>0, <2>2, <3>1 DEF TypeOK, Ack
        <3>2. CASE Publish(w, "ack", publishSagaReply(w, "succeeded"))
            <4>1. w \notin open
                BY <2>2, <3>2, <2>0 DEF Ack, Settle, End, Publish, Goto, TypeOK
            <4>2. UNCHANGED <<deadLettered, replies>>
                BY <3>2, <4>1 DEF Publish
            <4>3. QED BY <1>4, <2>0, <2>2, <4>2 DEF TypeOK
        <3>3. QED BY <2>2, <3>1, <3>2 DEF Reply
    <2>3. CASE w \notin open /\ ~ Ack(w)
        BY <1>7, <2>0, <2>3 DEF ReplyFailed, DeadLetter, Reply, Publish, Ack, Settle
    <2>4. CASE Ack(w) /\ (ReplyFailed(w) \/ DeadLetter(w))
        <3>1. UNCHANGED <<deadLettered, replies>>
            BY <2>0, <2>4 DEF ReplyFailed, DeadLetter, Publish, Ack, Settle, End, Goto, TypeOK, Point
        <3>2. QED BY <1>4, <2>0, <2>4, <3>1 DEF TypeOK
    <2>5. QED BY <1>7, <2>1, <2>2, <2>3, <2>4
<1>8. ASSUME NEW w \in Worker, Acknowledge(w) PROVE TypeOK'
    BY <1>4, <1>8 DEF Acknowledge, TypeOK
<1>9. ASSUME NEW m \in Command, Expire(m) PROVE TypeOK'
    <2>1. Values'
        BY <1>9 DEF Expire, Values, TypeOK, table
    <2>2. \A w \in open : job[w] # m
        BY <1>9 DEF Expire, TypeOK
    <2>3. Holding'
        BY <1>9, <2>2 DEF Expire, Holding, TypeOK
    <2>4. QED BY <2>1, <2>3, TypeParts
<1>10. ASSUME NEW m \in Command, Age(m) PROVE TypeOK'
    BY <1>10 DEF Age, Spend, TypeOK, broker
<1>11. ASSUME NEW w \in Worker, MailError(w) PROVE TypeOK'
    <2>1. Holding' /\ pc' \in [Worker -> Point] /\ job' \in [Worker -> Command \cup {None}]
          /\ open' \subseteq Worker
        BY <1>11, GotoTyped DEF MailError, broker, Point
    <2>2. faults' \in 0..MaxFaults /\ struck' \subseteq Faults /\ mails' \in [Command -> Nat]
        BY <1>11 DEF MailError, Spend, TypeOK
    <2>3. QED BY <1>11, <2>1, <2>2, TypeParts DEF MailError, Values, TypeOK, broker, table
<1>12. ASSUME NEW w \in Worker, DatabaseError(w) PROVE TypeOK'
    <2>1. pc[w] # "idle" /\ UNCHANGED <<broker, mails>> /\ faults' \in 0..MaxFaults /\ struck' \subseteq Faults
        BY <1>12 DEF DatabaseError, Spend, TypeOK
    <2>2. record' \in [Command -> {"none", "pending", "sent"}] /\ stale' \subseteq Command
        BY <1>12 DEF DatabaseError, recordProcessedMessage, markProcessedMessageSent,
                     deleteProcessedMessage, table, TypeOK
    <2>3. PICK p \in Point \ {"idle"} : Goto(w, p)
        BY <1>12 DEF DatabaseError, Point
    <2>4. QED BY <1>5, <2>1, <2>2, <2>3 DEF broker, TypeOK
<1>13. ASSUME NEW w \in Worker, BrokerError(w) PROVE TypeOK'
    <2>1. pc[w] # "idle" /\ UNCHANGED <<deadLettered, replies, table, mails>>
          /\ faults' \in 0..MaxFaults /\ struck' \subseteq Faults
        BY <1>13 DEF BrokerError, Spend, TypeOK
    <2>2. CASE Retry(w) \/ Requeue(w)
        BY <1>4, <2>1, <2>2
    <2>3. CASE Goto(w, "deadLetter") /\ UNCHANGED <<place, deaths>>
        BY <1>5, <2>1, <2>3 DEF Point, table, TypeOK
    <2>4. QED BY <1>13, <2>2, <2>3 DEF BrokerError
<1>14. ASSUME NEW w \in Worker, LoseChannel(w) PROVE TypeOK'
    <2>1. job[w] \in Command /\ place' = [place EXCEPT ![job[w]] = "queue"]
        BY <1>14 DEF LoseChannel, Return, TypeOK
    <2>2. Values'
        BY <1>14, <2>1 DEF LoseChannel, Spend, Values, TypeOK, table
    <2>3. ASSUME NEW v \in open' PROVE v \in open /\ place'[job[v]] = "taken"
        BY <1>14, <2>1, <2>3 DEF LoseChannel, TypeOK
    <2>4. Holding'
        BY <1>14, <2>3 DEF LoseChannel, Holding, TypeOK
    <2>5. QED BY <2>2, <2>4, TypeParts
<1>15. ASSUME NEW w \in Worker, Crash(w) PROVE TypeOK'
    <2>1. Settle(w, "queue") /\ pc[w] # "idle"
        BY <1>15 DEF Crash, Return, Settle
    <2>2. QED BY <1>15, <2>1, <1>4 DEF Crash, Requeue, Spend, TypeOK
<1>16. CASE UNCHANGED vars
    BY <1>16 DEF vars, TypeOK
<1>17. QED
    BY <1>1, <1>2, <1>3, <1>6, <1>7, <1>8, <1>9, <1>10, <1>11, <1>12, <1>13, <1>14, <1>15,
       <1>16 DEF Next, Handle

\* Every value stays in its type, and a command is unacked exactly while one
\* execution holds it on an open channel.
THEOREM ConsumerTypeCorrect == Spec => []TypeOK
BY InitTyped, NextTyped, PTL DEF Spec

-----------------------------------------------------------------------------
(* The inductive invariant.                                                *)

\* A mail was sent where it is about to be recorded or reported.
Truth ==
    /\ SuccessIsTrue
    /\ \A w \in Worker : pc[w] \in {"mark", "reply"} => mails[job[w]] > 0

\* Until a take-over, whoever works on a command owns its record alone.
OneWorks ==
    \A v, w \in Worker :
        pc[v] \in Working /\ pc[w] \in Working /\ job[v] = job[w] => v = w

Exclusive ==
    "stale" \notin struck =>
        /\ stale = {}
        /\ \A w \in Worker : pc[w] \in Working => record[job[w]] # "none"
        /\ OneWorks

\* As long as no statement failed and no mail error was a mistake, the record
\* is there from before the mail on, and goes only if there is no mail.
AtMostOneMail == \A m \in Command : mails[m] <= 1

Once ==
    struck \cap {"stale", "db", "smtp"} = {} =>
        /\ AtMostOneMail
        /\ \A m \in Command : record[m] = "none" => mails[m] = 0
        /\ \A w \in Worker : pc[w] \in {"send", "unclaim"} => mails[job[w]] = 0

\* As long as no execution was cut off from its message and no statement
\* failed, each pending record has an execution at work, and nothing is
\* acknowledged in the belief that there is another.
Attended ==
    struck \cap {"crash", "channel", "db"} = {} =>
        /\ \A w \in Worker : pc[w] # "idle" => w \in open
        /\ \A m \in Command : record[m] = "pending" =>
              \E w \in Worker : job[w] = m /\ pc[w] \in Working
        /\ \A w \in Worker : pc[w] = "claim" => record[job[w]] # "sent"
        /\ \A w \in Worker : pc[w] = "ack" => DealtWith(job[w])
        /\ AcknowledgedIsMailed

\* Retries are limited by the attempts and by what failed to end them.
ConsumerInv == TypeOK /\ Truth /\ Exclusive /\ Once /\ Attended /\ RetriesAreBounded

\* What has occurred stays so: a proviso that holds after a step held before.
LEMMA StruckGrows == [Next]_vars => struck \subseteq struck'
BY DEF Next, Deliver, Handle, LookUp, Claim, Send, Mark, Unclaim, Failed, ReplyFailed, DeadLetter,
   Reply, Acknowledge, Expire, MailError, DatabaseError, BrokerError, LoseChannel, Crash, Age,
   Spend, vars

\* What the proofs need of an execution that takes a step: the others stay
\* where they are.
LEMMA OthersStay ==
    ASSUME TypeOK, NEW w \in Worker,
           \/ Deliver(w) \/ Handle(w) \/ MailError(w) \/ DatabaseError(w)
           \/ BrokerError(w) \/ LoseChannel(w) \/ Crash(w)
    PROVE  \A v \in Worker : v # w => pc'[v] = pc[v] /\ job'[v] = job[v] /\ (v \in open' <=> v \in open)
<1>1. CASE \E p \in Point : Goto(w, p)
    BY <1>1 DEF Goto, TypeOK
<1>2. CASE End(w)
    BY <1>2 DEF End, TypeOK
<1>3. CASE Deliver(w) \/ LoseChannel(w)
    BY <1>3 DEF Deliver, LoseChannel, TypeOK
<1>4. CASE Handle(w)
    BY <1>1, <1>2, <1>4 DEF Handle, LookUp, Claim, Send, Mark, Unclaim, Failed, ReplyFailed,
       DeadLetter, Reply, Acknowledge, Publish, Ack, Retry, Settle, Point
<1>5. CASE MailError(w) \/ DatabaseError(w) \/ BrokerError(w) \/ Crash(w)
    BY <1>1, <1>2, <1>5 DEF MailError, DatabaseError, BrokerError, Crash, Retry, Requeue,
       Settle, Point
<1>6. QED BY <1>3, <1>4, <1>5

\* The step of an execution: to another point with the same command and
\* channel, or to its end.
LEMMA OwnStep ==
    ASSUME TypeOK, NEW w \in Worker,
           Handle(w) \/ MailError(w) \/ DatabaseError(w) \/ BrokerError(w) \/ Crash(w)
    PROVE  \/ job'[w] = job[w] /\ open' = open /\ \E p \in Point \ {"idle"} : Goto(w, p) /\ pc'[w] = p
           \/ pc'[w] = "idle" /\ job'[w] = None /\ w \notin open' /\ End(w)
<1>1. ASSUME NEW p \in Point \ {"idle"}, Goto(w, p)
      PROVE  job'[w] = job[w] /\ open' = open /\ pc'[w] = p
    BY <1>1 DEF Goto, TypeOK
<1>2. CASE End(w)
    BY <1>2 DEF End, TypeOK
<1>3. CASE Handle(w)
    BY <1>1, <1>2, <1>3 DEF Handle, LookUp, Claim, Send, Mark, Unclaim, Failed, ReplyFailed,
       DeadLetter, Reply, Acknowledge, Publish, Ack, Retry, Settle, Point
<1>4. CASE MailError(w) \/ DatabaseError(w) \/ BrokerError(w) \/ Crash(w)
    BY <1>1, <1>2, <1>4 DEF MailError, DatabaseError, BrokerError, Crash, Retry, Requeue,
       Settle, Point
<1>5. QED BY <1>3, <1>4

\* The number of retries: an attempt that is not the last, or a fault.
LEMMA RetriesKept == TypeOK /\ RetriesAreBounded /\ [Next]_vars => RetriesAreBounded'
<1> SUFFICES ASSUME TypeOK, RetriesAreBounded, [Next]_vars PROVE RetriesAreBounded'
    OBVIOUS
<1> USE ConsumerAssumption
<1>1. faults' \in {faults, faults + 1} /\ faults \in Nat
    BY DEF Next, Deliver, Handle, LookUp, Claim, Send, Mark, Unclaim, Failed, ReplyFailed, DeadLetter,
       Reply, Acknowledge, Expire, Age, MailError, DatabaseError, BrokerError, LoseChannel,
       Crash, Spend, vars, TypeOK
<1>2. CASE UNCHANGED deaths
    BY <1>1, <1>2 DEF RetriesAreBounded, TypeOK
<1>3. ASSUME NEW w \in Worker, pc[w] # "idle", Retry(w), ~ Exhausted(job[w]) PROVE RetriesAreBounded'
    BY <1>1, <1>3 DEF RetriesAreBounded, Retry, Exhausted, TypeOK
<1>4. ASSUME NEW w \in Worker, pc[w] # "idle", Retry(w), faults' = faults + 1 PROVE RetriesAreBounded'
    BY <1>1, <1>4 DEF RetriesAreBounded, Retry, TypeOK
<1>5. ASSUME NEW w \in Worker, Handle(w) PROVE RetriesAreBounded'
    BY <1>2, <1>3, <1>5 DEF Handle, LookUp, Claim, Send, Mark, Unclaim, Failed, ReplyFailed,
       DeadLetter, Reply, Acknowledge, Ack, broker
<1>6. ASSUME NEW w \in Worker, BrokerError(w) PROVE RetriesAreBounded'
    BY <1>2, <1>4, <1>6 DEF BrokerError, Requeue, Spend
<1>7. QED
    BY <1>2, <1>5, <1>6 DEF Next, Deliver, Expire, Age, MailError, DatabaseError, LoseChannel,
       Crash, vars, broker

\* A mail is never unsent, and only the worker at "send" sends.
LEMMA MailsGrow ==
    ASSUME TypeOK, [Next]_vars, NEW m \in Command
    PROVE  mails'[m] \in Nat /\ mails'[m] >= mails[m]
<1>1. CASE UNCHANGED mails
    BY <1>1 DEF TypeOK
<1>2. ASSUME NEW w \in Worker, mails' = [mails EXCEPT ![job[w]] = @ + 1]
      PROVE  mails'[m] \in Nat /\ mails'[m] >= mails[m]
    BY <1>2 DEF TypeOK
<1>3. QED
    BY <1>1, <1>2 DEF Next, Deliver, Handle, LookUp, Claim, Send, Mark, Unclaim, Failed,
       ReplyFailed, DeadLetter, Reply, Acknowledge, Expire, Age, MailError, DatabaseError,
       BrokerError, LoseChannel, Crash, vars

\* What is recorded and reported stays true.
LEMMA TruthKept == TypeOK /\ Truth /\ [Next]_vars => Truth'
<1> SUFFICES ASSUME TypeOK, Truth, [Next]_vars PROVE Truth'
    OBVIOUS
<1>1. \A m \in Command : mails[m] > 0 => mails'[m] > 0
    BY MailsGrow DEF TypeOK
<1>2. ASSUME NEW w \in Worker, pc[w] # "idle",
             UNCHANGED replies \/ (publishSagaReply(w, "succeeded") /\ pc[w] = "reply")
                \/ publishSagaReply(w, "failed"),
             UNCHANGED record \/ (markProcessedMessageSent(job[w]) /\ pc[w] = "mark")
                \/ deleteProcessedMessage(job[w]) \/ recordProcessedMessage(job[w])
      PROVE  SuccessIsTrue'
    <2>1. job[w] \in Command /\ (pc[w] \in {"mark", "reply"} => mails[job[w]] > 0)
        BY <1>2 DEF TypeOK, Truth
    <2>2. ASSUME NEW m \in Command, record'[m] = "sent" PROVE mails[m] > 0
        BY <1>2, <2>1, <2>2 DEF Truth, SuccessIsTrue, TypeOK, markProcessedMessageSent,
           deleteProcessedMessage, recordProcessedMessage
    <2>3. ASSUME NEW m \in Command, "succeeded" \in replies'[m] PROVE mails[m] > 0
        BY <1>2, <2>1, <2>3 DEF Truth, SuccessIsTrue, TypeOK, publishSagaReply
    <2>4. QED BY <1>1, <2>2, <2>3 DEF SuccessIsTrue
<1>3. ASSUME UNCHANGED <<replies, record>> PROVE SuccessIsTrue'
    BY <1>1, <1>3 DEF Truth, SuccessIsTrue
<1>4. ASSUME NEW w \in Worker, \A v \in Worker : v # w => pc'[v] = pc[v] /\ job'[v] = job[v],
             pc'[w] \in {"mark", "reply"} => job'[w] \in Command /\ mails'[job'[w]] > 0
      PROVE  \A v \in Worker : pc'[v] \in {"mark", "reply"} => mails'[job'[v]] > 0
    <2>1. ASSUME NEW v \in Worker, v # w, pc'[v] \in {"mark", "reply"} PROVE mails'[job'[v]] > 0
        <3>1. job[v] \in Command /\ mails[job[v]] > 0
            BY <1>4, <2>1 DEF TypeOK, Truth
        <3>2. QED BY <1>1, <1>4, <2>1, <3>1
    <2>2. QED BY <1>4, <2>1
<1>5. ASSUME NEW w \in Worker, Handle(w) PROVE Truth'
    <2>1. SuccessIsTrue'
        BY <1>2, <1>5 DEF Handle, LookUp, Claim, Send, Mark, Unclaim, Failed, ReplyFailed,
           DeadLetter, Reply, Acknowledge, Publish, broker, table
    <2>2. pc'[w] \in {"mark", "reply"} => job'[w] \in Command /\ mails'[job'[w]] > 0
        <3>1. CASE LookUp(w)
            BY <3>1, <1>1 DEF LookUp, Goto, Truth, SuccessIsTrue, TypeOK
        <3>2. CASE Send(w)
            BY <3>2 DEF Send, Goto, TypeOK
        <3>3. CASE Mark(w)
            BY <3>3 DEF Mark, Goto, TypeOK, Truth
        <3>4. CASE ~ (LookUp(w) \/ Send(w) \/ Mark(w))
            BY <1>5, <3>4 DEF Handle, Claim, Unclaim, Failed, ReplyFailed, DeadLetter, Reply,
               Acknowledge, Publish, Ack, Retry, Settle, End, Goto, TypeOK
        <3>5. QED BY <3>1, <3>2, <3>3, <3>4
    <2>3. QED BY <1>4, <1>5, <2>1, <2>2, OthersStay DEF Truth
<1>6. ASSUME NEW w \in Worker,
             MailError(w) \/ DatabaseError(w) \/ BrokerError(w) \/ LoseChannel(w) \/ Crash(w)
      PROVE  Truth'
    <2>1. SuccessIsTrue'
        BY <1>2, <1>3, <1>6 DEF MailError, DatabaseError, BrokerError, LoseChannel, Crash, broker, table
    <2>2. pc'[w] \in {"mark", "reply"} => job'[w] \in Command /\ mails'[job'[w]] > 0
        BY <1>1, <1>6 DEF MailError, DatabaseError, BrokerError, LoseChannel, Crash, Retry, Requeue,
           Settle, End, Goto, TypeOK, Truth
    <2>3. QED BY <1>4, <1>6, <2>1, <2>2, OthersStay DEF Truth
<1>7. ASSUME NEW w \in Worker, Deliver(w) PROVE Truth'
    <2>1. pc'[w] \notin {"mark", "reply"} /\ SuccessIsTrue'
        BY <1>3, <1>7 DEF Deliver, TypeOK, table
    <2>2. QED BY <1>4, <1>7, <2>1, OthersStay DEF Truth
<1>8. ASSUME UNCHANGED <<replies, record, pc, job, mails>> PROVE Truth'
    BY <1>8 DEF Truth, SuccessIsTrue
<1>9. QED
    BY <1>5, <1>6, <1>7, <1>8 DEF Next, Expire, Age, vars, table, broker

\* A claim is exclusive while it is worked on.
LEMMA ExclusiveKept == TypeOK /\ Exclusive /\ [Next]_vars => Exclusive'
<1> SUFFICES ASSUME TypeOK, Exclusive, [Next]_vars, "stale" \notin struck'
             PROVE  stale' = {} /\ OneWorks'
                    /\ \A w \in Worker : pc'[w] \in Working => record'[job'[w]] # "none"
    BY DEF Exclusive
<1>0. /\ stale = {} /\ OneWorks
      /\ \A w \in Worker : pc[w] \in Working => job[w] \in Command /\ record[job[w]] # "none"
    BY StruckGrows DEF Exclusive, TypeOK, Working
<1>1. stale' = {}
    <2>1. ASSUME NEW m \in Command, Age(m) PROVE FALSE
        BY <2>1 DEF Age, Spend
    <2>2. QED
        BY <1>0, <2>1 DEF Next, Deliver, Handle, LookUp, Claim, Send, Mark, Unclaim, Failed,
           ReplyFailed, DeadLetter, Reply, Acknowledge, Expire, MailError, DatabaseError,
           BrokerError, LoseChannel, Crash, vars, table, recordProcessedMessage,
           markProcessedMessageSent, deleteProcessedMessage
\* A step that leaves w outside keeps the rest, if it removes no other's record.
<1>2. ASSUME NEW w \in Worker, pc'[w] \notin Working,
             \A v \in Worker : v # w => pc'[v] = pc[v] /\ job'[v] = job[v],
             \A m \in Command : record[m] # "none" =>
                 record'[m] # "none" \/ (m = job[w] /\ pc[w] \in Working)
      PROVE  OneWorks' /\ \A v \in Worker : pc'[v] \in Working => record'[job'[v]] # "none"
    <2>1. ASSUME NEW v \in Worker, pc'[v] \in Working
          PROVE  v # w /\ pc[v] \in Working /\ job'[v] = job[v] /\ record'[job[v]] # "none"
        <3>1. v # w /\ pc[v] \in Working /\ job'[v] = job[v]
            BY <1>2, <2>1
        <3>2. job[v] \in Command /\ record[job[v]] # "none"
            BY <1>0, <3>1
        <3>3. ~ (job[v] = job[w] /\ pc[w] \in Working)
            BY <1>0, <3>1 DEF OneWorks
        <3>4. QED BY <1>2, <3>1, <3>2, <3>3
    <2>2. QED BY <1>0, <2>1 DEF OneWorks
\* So does a step within the claim that keeps the record.
<1>3. ASSUME NEW w \in Worker, pc[w] \in Working, job'[w] = job[w],
             \A v \in Worker : v # w => pc'[v] = pc[v] /\ job'[v] = job[v],
             \A m \in Command : record[m] # "none" => record'[m] # "none"
      PROVE  OneWorks' /\ \A v \in Worker : pc'[v] \in Working => record'[job'[v]] # "none"
    <2>1. ASSUME NEW v \in Worker, pc'[v] \in Working
          PROVE  pc[v] \in Working /\ job'[v] = job[v] /\ record'[job[v]] # "none"
        <3>1. pc[v] \in Working /\ job'[v] = job[v]
            BY <1>3, <2>1
        <3>2. QED BY <1>0, <1>3, <3>1
    <2>2. QED BY <1>0, <2>1 DEF OneWorks
<1>4. ASSUME NEW w \in Worker, Claim(w) PROVE OneWorks' /\
             \A v \in Worker : pc'[v] \in Working => record'[job'[v]] # "none"
    <2>1. CASE Ack(w) /\ UNCHANGED table
        <3>1. pc'[w] \notin Working
            BY <2>1 DEF Ack, Settle, End, TypeOK, Working
        <3>2. QED BY <1>2, <1>4, <2>1, <3>1, OthersStay DEF Handle, table
    <2>2. CASE recordProcessedMessage(job[w]) /\ Goto(w, "send")
        <3>1. job[w] \in Command /\ record[job[w]] = "none" /\ pc'[w] = "send" /\ job'[w] = job[w]
              /\ record' = [record EXCEPT ![job[w]] = "pending"]
            BY <1>0, <1>4, <2>2 DEF Claim, recordProcessedMessage, Claimable, Goto, TypeOK
        <3>2. \A v \in Worker : v # w => pc'[v] = pc[v] /\ job'[v] = job[v]
            BY <1>4, OthersStay DEF Handle
        <3>3. ASSUME NEW v \in Worker, v # w, pc'[v] \in Working
              PROVE  job'[v] # job'[w] /\ record'[job'[v]] # "none"
            BY <1>0, <3>1, <3>2, <3>3 DEF TypeOK
        <3>4. record'[job'[w]] # "none"
            BY <3>1 DEF TypeOK
        <3>5. OneWorks'
            <4>1. ASSUME NEW u \in Worker, NEW v \in Worker, u # w, v # w,
                         pc'[u] \in Working, pc'[v] \in Working, job'[u] = job'[v]
                  PROVE  u = v
                BY <1>0, <3>2, <4>1 DEF OneWorks
            <4>2. QED BY <3>3, <4>1 DEF OneWorks
        <3>6. QED BY <3>3, <3>4, <3>5
    <2>3. QED BY <1>4, <2>1, <2>2 DEF Claim
<1>5. ASSUME NEW w \in Worker, Handle(w), ~ Claim(w) PROVE OneWorks' /\
             \A v \in Worker : pc'[v] \in Working => record'[job'[v]] # "none"
    <2>0. \A v \in Worker : v # w => pc'[v] = pc[v] /\ job'[v] = job[v]
        BY <1>5, OthersStay
    <2>1. CASE Send(w)
        BY <1>3, <2>0, <2>1 DEF Send, Goto, Working, table
    <2>2. CASE Mark(w) \/ Unclaim(w)
        <3>1. pc'[w] \notin Working /\ pc[w] \in Working
            BY <2>2 DEF Mark, Unclaim, Goto, TypeOK, Working
        <3>2. job[w] \in Command
            BY <1>0, <3>1
        <3>3. \A m \in Command : record[m] # "none" => record'[m] # "none" \/ m = job[w]
            BY <2>2, <3>2 DEF Mark, Unclaim, markProcessedMessageSent, deleteProcessedMessage, TypeOK
        <3>4. QED BY <1>2, <2>0, <3>1, <3>3
    <2>3. CASE LookUp(w) \/ Failed(w) \/ ReplyFailed(w) \/ DeadLetter(w) \/ Reply(w) \/ Acknowledge(w)
        <3>1. pc'[w] \notin Working
            BY <2>3 DEF LookUp, Failed, ReplyFailed, DeadLetter, Reply, Acknowledge, Publish, Ack,
               Retry, Settle, End, Goto, TypeOK, Working
        <3>2. UNCHANGED record
            BY <2>3 DEF LookUp, Failed, ReplyFailed, DeadLetter, Reply, Acknowledge, table
        <3>3. QED BY <1>2, <2>0, <3>1, <3>2
    <2>4. QED BY <1>5, <2>1, <2>2, <2>3 DEF Handle
<1>6. ASSUME NEW w \in Worker, DatabaseError(w) PROVE OneWorks' /\
             \A v \in Worker : pc'[v] \in Working => record'[job'[v]] # "none"
    <2>0. \A v \in Worker : v # w => pc'[v] = pc[v] /\ job'[v] = job[v]
        BY <1>6, OthersStay
    <2>1. job[w] \in Command
        BY <1>6 DEF DatabaseError, TypeOK
    <2>2. CASE pc[w] = "mark"
        <3>1. job'[w] = job[w] /\ \A m \in Command : record[m] # "none" => record'[m] # "none"
            BY <1>6, <2>1, <2>2 DEF DatabaseError, Goto, markProcessedMessageSent, TypeOK, table
        <3>2. QED BY <1>3, <2>0, <2>2, <3>1 DEF Working
    <2>3. CASE pc[w] # "mark"
        <3>1. pc'[w] \notin Working
            BY <1>6, <2>3 DEF DatabaseError, Goto, TypeOK, Working
        <3>2. \A m \in Command : record[m] # "none" =>
                  record'[m] # "none" \/ (m = job[w] /\ pc[w] \in Working)
            BY <1>6, <2>1, <2>3 DEF DatabaseError, recordProcessedMessage, deleteProcessedMessage,
               TypeOK, table, Working
        <3>3. QED BY <1>2, <2>0, <3>1, <3>2
    <2>4. QED BY <2>2, <2>3
<1>7. ASSUME NEW w \in Worker, Deliver(w) \/ BrokerError(w) \/ Crash(w) PROVE OneWorks' /\
             \A v \in Worker : pc'[v] \in Working => record'[job'[v]] # "none"
    <2>1. pc'[w] \notin Working /\ UNCHANGED record
        BY <1>7 DEF Deliver, BrokerError, Crash, Retry, Requeue, Settle, End, Goto, TypeOK,
           Working, table
    <2>2. QED BY <1>2, <1>7, <2>1, OthersStay
<1>8. ASSUME NEW w \in Worker, MailError(w) PROVE OneWorks' /\
             \A v \in Worker : pc'[v] \in Working => record'[job'[v]] # "none"
    BY <1>3, <1>8, OthersStay DEF MailError, Goto, Working, table
<1>9. ASSUME UNCHANGED <<pc, job, record>> PROVE OneWorks' /\
             \A v \in Worker : pc'[v] \in Working => record'[job'[v]] # "none"
    BY <1>0, <1>9 DEF OneWorks
<1>10. QED
    BY <1>1, <1>4, <1>5, <1>6, <1>7, <1>8, <1>9
       DEF Next, Expire, Age, LoseChannel, vars, table, broker

\* The mail of a command is sent once where its record can be trusted.
LEMMA OnceKept == TypeOK /\ Exclusive /\ Once /\ [Next]_vars => Once'
<1> SUFFICES ASSUME TypeOK, Exclusive, Once, [Next]_vars,
                    struck' \cap {"stale", "db", "smtp"} = {}
             PROVE  /\ AtMostOneMail'
                    /\ \A m \in Command : record'[m] = "none" => mails'[m] = 0
                    /\ \A w \in Worker : pc'[w] \in {"send", "unclaim"} => mails'[job'[w]] = 0
    BY DEF Once
<1> DEFINE Kept == /\ AtMostOneMail'
                   /\ \A m \in Command : record'[m] = "none" => mails'[m] = 0
                   /\ \A w \in Worker : pc'[w] \in {"send", "unclaim"} => mails'[job'[w]] = 0
<1>0. /\ stale = {} /\ OneWorks
      /\ \A w \in Worker : pc[w] \in Working => job[w] \in Command /\ record[job[w]] # "none"
      /\ \A m \in Command : mails[m] \in Nat /\ mails[m] <= 1 /\ (record[m] = "none" => mails[m] = 0)
      /\ \A w \in Worker : pc[w] \in {"send", "unclaim"} => mails[job[w]] = 0
    BY StruckGrows DEF Exclusive, Once, AtMostOneMail, TypeOK, Working
\* A step that sends nothing and leads w only to commands not mailed.
<1>1. ASSUME NEW w \in Worker, UNCHANGED mails,
             \A v \in Worker : v # w => pc'[v] = pc[v] /\ job'[v] = job[v],
             pc'[w] \in {"send", "unclaim"} => job'[w] \in Command /\ mails[job'[w]] = 0,
             \A m \in Command : record'[m] = "none" => record[m] = "none" \/ mails[m] = 0
      PROVE  Kept
    BY <1>0, <1>1 DEF AtMostOneMail
<1>2. ASSUME NEW w \in Worker, Send(w) PROVE Kept
    <2>0. \A v \in Worker : v # w => pc'[v] = pc[v] /\ job'[v] = job[v]
        BY <1>2, OthersStay DEF Handle
    <2>1. job[w] \in Command /\ mails[job[w]] = 0 /\ record[job[w]] # "none"
        BY <1>0, <1>2 DEF Send, Working
    <2>2. CASE Goto(w, "unclaim") /\ UNCHANGED mails
        BY <1>1, <1>2, <2>0, <2>1, <2>2 DEF Goto, Send, table
    <2>3. CASE mails' = [mails EXCEPT ![job[w]] = @ + 1] /\ Goto(w, "mark")
        <3>1. mails'[job[w]] = 1 /\ \A m \in Command : m # job[w] => mails'[m] = mails[m]
            BY <2>1, <2>3 DEF TypeOK
        <3>2. AtMostOneMail' /\ \A m \in Command : record'[m] = "none" => mails'[m] = 0
            BY <1>0, <1>2, <2>1, <3>1 DEF AtMostOneMail, Send, table
        <3>3. ASSUME NEW v \in Worker, pc'[v] \in {"send", "unclaim"} PROVE mails'[job'[v]] = 0
            <4>1. v # w
                BY <2>3, <3>3 DEF Goto, TypeOK
            <4>2. pc[v] \in Working /\ pc[v] \in {"send", "unclaim"} /\ job'[v] = job[v] /\ job[v] \in Command
                BY <1>0, <2>0, <3>3, <4>1 DEF Working
            <4>3. job[v] # job[w]
                BY <1>0, <1>2, <4>1, <4>2 DEF OneWorks, Send, Working
            <4>4. QED BY <1>0, <3>1, <4>2, <4>3
        <3>4. QED BY <3>2, <3>3
    <2>4. QED BY <1>2, <2>2, <2>3 DEF Send
<1>3. ASSUME NEW w \in Worker, Handle(w), ~ Send(w) PROVE Kept
    <2>0. \A v \in Worker : v # w => pc'[v] = pc[v] /\ job'[v] = job[v]
        BY <1>3, OthersStay
    <2>1. CASE Claim(w)
        <3>1. CASE Ack(w) /\ UNCHANGED table
            BY <1>1, <2>0, <2>1, <3>1 DEF Claim, Ack, Settle, End, TypeOK, table
        <3>2. CASE recordProcessedMessage(job[w]) /\ Goto(w, "send")
            <4>1. job[w] \in Command /\ record[job[w]] = "none" /\ job'[w] = job[w]
                  /\ record' = [record EXCEPT ![job[w]] = "pending"]
                BY <1>0, <2>1, <3>2 DEF Claim, recordProcessedMessage, Claimable, Goto, TypeOK
            <4>2. \A m \in Command : record'[m] = "none" => record[m] = "none"
                BY <4>1 DEF TypeOK
            <4>3. QED BY <1>0, <1>1, <2>0, <2>1, <4>1, <4>2 DEF Claim
        <3>3. QED BY <2>1, <3>1, <3>2 DEF Claim
    <2>2. CASE Mark(w) \/ Unclaim(w)
        <3>1. job[w] \in Command
            BY <2>2 DEF Mark, Unclaim, TypeOK
        <3>2. \A m \in Command : record'[m] = "none" =>
                  record[m] = "none" \/ (m = job[w] /\ pc[w] = "unclaim")
            BY <2>2, <3>1 DEF Mark, Unclaim, markProcessedMessageSent, deleteProcessedMessage, TypeOK
        <3>3. pc'[w] \notin {"send", "unclaim"} /\ UNCHANGED mails
            BY <2>2 DEF Mark, Unclaim, Goto, TypeOK
        <3>4. QED BY <1>0, <1>1, <2>0, <3>2, <3>3
    <2>3. CASE LookUp(w) \/ Failed(w) \/ ReplyFailed(w) \/ DeadLetter(w) \/ Reply(w) \/ Acknowledge(w)
        <3>1. pc'[w] \notin {"send", "unclaim"}
            BY <2>3 DEF LookUp, Failed, ReplyFailed, DeadLetter, Reply, Acknowledge, Publish, Ack,
               Retry, Settle, End, Goto, TypeOK
        <3>2. UNCHANGED <<record, mails>>
            BY <2>3 DEF LookUp, Failed, ReplyFailed, DeadLetter, Reply, Acknowledge, table
        <3>3. QED BY <1>1, <2>0, <3>1, <3>2
    <2>4. QED BY <1>3, <2>1, <2>2, <2>3 DEF Handle
<1>4. ASSUME NEW w \in Worker, Deliver(w) \/ BrokerError(w) \/ Crash(w) PROVE Kept
    <2>1. pc'[w] \notin {"send", "unclaim"} /\ UNCHANGED <<record, mails>>
        BY <1>4 DEF Deliver, BrokerError, Crash, Retry, Requeue, Settle, End, Goto, TypeOK, table
    <2>2. QED BY <1>1, <1>4, <2>1, OthersStay
<1>5. ASSUME NEW w \in Worker, DatabaseError(w) \/ MailError(w) PROVE FALSE
    BY <1>5 DEF DatabaseError, MailError, Spend
<1>6. ASSUME UNCHANGED <<pc, job, record, mails>> PROVE Kept
    BY <1>0, <1>6 DEF AtMostOneMail
<1>7. QED
    BY <1>2, <1>3, <1>4, <1>5, <1>6 DEF Next, Expire, Age, LoseChannel, vars, table, broker

\* A reason is not withdrawn.
LEMMA ReasonStays ==
    ASSUME TypeOK, [Next]_vars, NEW m \in Command, DealtWith(m)
    PROVE  DealtWith(m)'
<1>1. mails[m] > 0 => mails'[m] > 0
    BY MailsGrow DEF TypeOK
<1>2. deadLettered \subseteq deadLettered' /\ replies[m] \subseteq replies'[m]
    <2>1. CASE UNCHANGED <<deadLettered, replies>>
        BY <2>1
    <2>2. ASSUME NEW w \in Worker, NEW event, publishSagaReply(w, event)
          PROVE  deadLettered \subseteq deadLettered' /\ replies[m] \subseteq replies'[m]
        BY <2>2 DEF publishSagaReply, TypeOK
    <2>3. ASSUME NEW w \in Worker, Handle(w)
          PROVE  deadLettered \subseteq deadLettered' /\ replies[m] \subseteq replies'[m]
        BY <2>1, <2>2, <2>3 DEF Handle, LookUp, Claim, Send, Mark, Unclaim, Failed, ReplyFailed,
           DeadLetter, Reply, Acknowledge, Publish, broker
    <2>4. QED
        BY <2>1, <2>3 DEF Next, Deliver, Expire, Age, MailError, DatabaseError, BrokerError,
           LoseChannel, Crash, vars, broker
<1>3. QED BY <1>1, <1>2 DEF DealtWith

\* With every execution on an open channel, no claim is held by another.
LEMMA AttendedKept == TypeOK /\ Truth /\ Attended /\ [Next]_vars => Attended'
<1> SUFFICES ASSUME TypeOK, Truth, Attended, [Next]_vars,
                    struck' \cap {"crash", "channel", "db"} = {}
             PROVE  /\ \A w \in Worker : pc'[w] # "idle" => w \in open'
                    /\ \A m \in Command : record'[m] = "pending" =>
                          \E w \in Worker : job'[w] = m /\ pc'[w] \in Working
                    /\ \A w \in Worker : pc'[w] = "claim" => record'[job'[w]] # "sent"
                    /\ \A w \in Worker : pc'[w] = "ack" => DealtWith(job[w])'
                    /\ AcknowledgedIsMailed'
    BY DEF Attended
<1> DEFINE Kept == /\ \A w \in Worker : pc'[w] # "idle" => w \in open'
                   /\ \A m \in Command : record'[m] = "pending" =>
                         \E w \in Worker : job'[w] = m /\ pc'[w] \in Working
                   /\ \A w \in Worker : pc'[w] = "claim" => record'[job'[w]] # "sent"
                   /\ \A w \in Worker : pc'[w] = "ack" => DealtWith(job[w])'
                   /\ AcknowledgedIsMailed'
<1>0. /\ \A w \in Worker : pc[w] # "idle" => w \in open /\ job[w] \in Command
      /\ \A m \in Command : record[m] = "pending" =>
            \E w \in Worker : job[w] = m /\ pc[w] \in Working
      /\ \A w \in Worker : pc[w] = "claim" => record[job[w]] # "sent"
      /\ \A w \in Worker : pc[w] = "ack" => DealtWith(job[w])
      /\ \A m \in Command : place[m] = "acked" => DealtWith(m)
    BY StruckGrows DEF Attended, TypeOK, AcknowledgedIsMailed, DealtWith
\* One execution at a time has a command.
<1>1. \A v, w \in Worker : pc[v] # "idle" /\ pc[w] # "idle" /\ job[v] = job[w] => v = w
    BY <1>0 DEF TypeOK
\* What a step of w has to do.
<1>2. ASSUME NEW w \in Worker,
             \A v \in Worker : v # w =>
                 pc'[v] = pc[v] /\ job'[v] = job[v] /\ (v \in open' <=> v \in open),
             pc'[w] # "idle" => w \in open',
             \A m \in Command : record'[m] = record[m] \/ (pc[w] # "idle" /\ m = job[w]),
             \A m \in Command : record'[m] = "pending" =>
                 \/ record[m] = "pending" /\ ~ (job[w] = m /\ pc[w] \in Working)
                 \/ job'[w] = m /\ pc'[w] \in Working,
             pc'[w] = "claim" => record'[job'[w]] # "sent",
             pc'[w] = "ack" => DealtWith(job[w])',
             \A m \in Command : place'[m] = "acked" => place[m] = "acked" \/ DealtWith(m)'
      PROVE  Kept
    <2>1. \A v \in Worker : pc'[v] # "idle" => v \in open'
        BY <1>0, <1>2
    <2>2. ASSUME NEW m \in Command, record'[m] = "pending"
          PROVE  \E v \in Worker : job'[v] = m /\ pc'[v] \in Working
        <3>1. CASE job'[w] = m /\ pc'[w] \in Working
            BY <3>1
        <3>2. CASE record[m] = "pending" /\ ~ (job[w] = m /\ pc[w] \in Working)
            <4>1. PICK v \in Worker : job[v] = m /\ pc[v] \in Working
                BY <1>0, <3>2
            <4>2. QED BY <1>2, <3>2, <4>1
        <3>3. QED BY <1>2, <2>2, <3>1, <3>2
    <2>3. ASSUME NEW v \in Worker, v # w, pc'[v] = "claim" PROVE record'[job'[v]] # "sent"
        <3>1. pc[v] = "claim" /\ job'[v] = job[v] /\ job[v] \in Command /\ record[job[v]] # "sent"
            BY <1>0, <1>2, <2>3
        <3>2. ~ (pc[w] # "idle" /\ job[v] = job[w])
            BY <1>1, <2>3, <3>1
        <3>3. QED BY <1>2, <3>1, <3>2
    <2>4. ASSUME NEW v \in Worker, v # w, pc'[v] = "ack" PROVE DealtWith(job[v])'
        <3>1. pc[v] = "ack" /\ job'[v] = job[v] /\ job[v] \in Command /\ DealtWith(job[v])
            BY <1>0, <1>2, <2>4
        <3>2. QED BY <3>1, ReasonStays DEF DealtWith
    <2>5. AcknowledgedIsMailed'
        <3>1. ASSUME NEW m \in Command, place'[m] = "acked" PROVE DealtWith(m)'
            BY <1>0, <1>2, <3>1, ReasonStays
        <3>2. QED BY <3>1 DEF AcknowledgedIsMailed, DealtWith
    <2>6. QED BY <1>2, <2>1, <2>2, <2>3, <2>4, <2>5
\* How the step of an execution ends that acknowledges, or does not.
<1>3. ASSUME NEW w \in Worker, pc[w] # "idle", Settle(w, "acked"), DealtWith(job[w]),
             UNCHANGED record, pc[w] \notin Working,
             \A v \in Worker : v # w =>
                 pc'[v] = pc[v] /\ job'[v] = job[v] /\ (v \in open' <=> v \in open)
      PROVE  Kept
    <2>1. pc'[w] = "idle" /\ job[w] \in Command
        BY <1>0, <1>3 DEF Settle, End, TypeOK
    <2>2. \A m \in Command : place'[m] = "acked" => place[m] = "acked" \/ m = job[w]
        BY <1>3, <2>1 DEF Settle, TypeOK
    <2>3. DealtWith(job[w]) => \A m \in Command : m = job[w] => DealtWith(m)'
        BY <2>1, ReasonStays
    <2>4. QED BY <1>2, <1>3, <2>1, <2>2, <2>3
<1>4. ASSUME NEW w \in Worker, pc[w] # "idle", Retry(w) \/ Requeue(w),
             UNCHANGED record, pc[w] \notin Working,
             \A v \in Worker : v # w =>
                 pc'[v] = pc[v] /\ job'[v] = job[v] /\ (v \in open' <=> v \in open)
      PROVE  Kept
    <2>1. pc'[w] = "idle" /\ job[w] \in Command
        BY <1>0, <1>4 DEF Retry, Requeue, Settle, End, TypeOK
    <2>2. \A m \in Command : place'[m] = "acked" => place[m] = "acked"
        BY <1>4, <2>1 DEF Retry, Requeue, Settle, TypeOK
    <2>3. QED BY <1>2, <1>4, <2>1, <2>2
\* A step to another point that leaves the message where it is.
<1>5. ASSUME NEW w \in Worker, NEW p \in Point \ {"idle"}, pc[w] # "idle", Goto(w, p),
             UNCHANGED place,
             \A v \in Worker : v # w =>
                 pc'[v] = pc[v] /\ job'[v] = job[v] /\ (v \in open' <=> v \in open),
             \A m \in Command : record'[m] = record[m] \/ m = job[w],
             record'[job[w]] = "pending" =>
                 p \in Working \/ (record[job[w]] = "pending" /\ pc[w] \notin Working),
             p = "claim" => record'[job[w]] # "sent",
             p = "ack" => DealtWith(job[w])'
      PROVE  Kept
    <2>1. pc'[w] = p /\ job'[w] = job[w] /\ w \in open' /\ job[w] \in Command
        BY <1>0, <1>5 DEF Goto, TypeOK
    <2>2. ASSUME NEW m \in Command, record'[m] = "pending"
          PROVE  \/ record[m] = "pending" /\ ~ (job[w] = m /\ pc[w] \in Working)
                 \/ job'[w] = m /\ pc'[w] \in Working
        BY <1>5, <2>1, <2>2
    <2>3. QED BY <1>2, <1>5, <2>1, <2>2
<1>6. ASSUME NEW w \in Worker, Handle(w) PROVE Kept
    <2>0. /\ pc[w] # "idle" /\ w \in open /\ job[w] \in Command
          /\ \A v \in Worker : v # w =>
                 pc'[v] = pc[v] /\ job'[v] = job[v] /\ (v \in open' <=> v \in open)
        <3>1. pc[w] # "idle"
            BY <1>6 DEF Handle, LookUp, Claim, Send, Mark, Unclaim, Failed, ReplyFailed, DeadLetter,
               Reply, Acknowledge
        <3>2. QED BY <1>0, <1>6, <3>1, OthersStay
    <2>1. CASE LookUp(w)
        BY <1>5, <2>0, <2>1 DEF LookUp, broker, table, Point, Working
    <2>2. CASE Claim(w)
        <3>1. record[job[w]] # "pending"
            BY <1>0, <1>1, <2>0, <2>2 DEF Claim, Working
        <3>2. Claimable(job[w])
            BY <1>0, <2>0, <2>2, <3>1 DEF Claim, Claimable, TypeOK
        <3>3. recordProcessedMessage(job[w]) /\ Goto(w, "send") /\ UNCHANGED place
            BY <2>2, <3>2 DEF Claim
        <3>4. record' = [record EXCEPT ![job[w]] = "pending"]
            BY <3>3 DEF recordProcessedMessage
        <3>5. QED BY <1>5, <2>0, <3>3, <3>4 DEF Point, Working, TypeOK
    <2>3. CASE Send(w)
        BY <1>5, <2>0, <2>3 DEF Send, broker, table, Point, Working
    <2>4. CASE Mark(w) \/ Unclaim(w)
        <3>1. PICK p \in {"reply", "failed"} : Goto(w, p) /\ UNCHANGED place
            BY <2>4 DEF Mark, Unclaim, broker
        <3>2. record'[job[w]] # "pending" /\ \A m \in Command : m # job[w] => record'[m] = record[m]
            BY <2>0, <2>4 DEF Mark, Unclaim, markProcessedMessageSent, deleteProcessedMessage, TypeOK
        <3>3. QED BY <1>5, <2>0, <3>1, <3>2 DEF Point
    <2>5. CASE Failed(w)
        <3>1. pc[w] \notin Working /\ UNCHANGED record
            BY <2>5 DEF Failed, Working, table
        <3>2. CASE Retry(w)
            BY <1>4, <2>0, <3>1, <3>2
        <3>3. CASE Exhausted(job[w])
            BY <1>5, <2>0, <2>5, <3>1, <3>3 DEF Failed, Point
        <3>4. QED BY <2>5, <3>2, <3>3 DEF Failed
    <2>6. CASE ReplyFailed(w)
        BY <1>5, <2>0, <2>6 DEF ReplyFailed, Publish, Point, Working, table
    <2>7. CASE DeadLetter(w)
        <3>1. Goto(w, "ack") /\ UNCHANGED <<place, record>> /\ deadLettered' = deadLettered \cup {job[w]}
            BY <2>0, <2>7 DEF DeadLetter, Publish, table
        <3>2. DealtWith(job[w])'
            BY <2>0, <3>1 DEF DealtWith, Goto, TypeOK
        <3>3. QED BY <1>5, <2>0, <2>7, <3>1, <3>2 DEF DeadLetter, Point, Working
    <2>8. CASE Reply(w)
        <3>0. mails[job[w]] > 0 /\ UNCHANGED <<mails, record>> /\ pc[w] \notin Working
            BY <2>8 DEF Truth, Reply, table, Working
        <3>1. CASE job[w] \notin Replied /\ Ack(w)
            BY <1>3, <2>0, <3>0, <3>1 DEF DealtWith, Ack
        <3>2. CASE job[w] \in Replied /\ Publish(w, "ack", publishSagaReply(w, "succeeded"))
            <4>1. Goto(w, "ack") /\ UNCHANGED place /\ job' = job
                  /\ replies' = [replies EXCEPT ![job[w]] = @ \cup {"succeeded"}]
                BY <2>0, <3>2 DEF Publish, publishSagaReply, Goto
            <4>2. DealtWith(job[w])'
                BY <2>0, <3>0, <3>2, <4>1 DEF DealtWith, TypeOK
            <4>3. QED BY <1>5, <2>0, <3>0, <4>1, <4>2 DEF Point
        <3>3. QED BY <2>8, <3>1, <3>2 DEF Reply
    <2>9. CASE Acknowledge(w)
        BY <1>0, <1>3, <2>0, <2>9 DEF Acknowledge, Ack, Working, table
    <2>10. QED BY <1>6, <2>1, <2>2, <2>3, <2>4, <2>5, <2>6, <2>7, <2>8, <2>9 DEF Handle
<1>7. ASSUME NEW w \in Worker, Deliver(w) PROVE Kept
    <2>1. PICK m \in Command : /\ place[m] = "queue"
                               /\ place' = [place EXCEPT ![m] = "taken"]
                               /\ job' = [job EXCEPT ![w] = m]
                               /\ pc' = [pc EXCEPT ![w] = IF m \in Malformed THEN "deadLetter" ELSE "look"]
        BY <1>7 DEF Deliver
    <2>2. pc'[w] \in {"deadLetter", "look"} /\ w \in open'
        BY <1>7, <2>1 DEF Deliver, TypeOK
    <2>3. \A n \in Command : place'[n] = "acked" => place[n] = "acked"
        BY <2>1 DEF TypeOK
    <2>4. UNCHANGED record /\ pc[w] = "idle"
        BY <1>7 DEF Deliver, table
    <2>5. QED BY <1>2, <1>7, <2>2, <2>3, <2>4, OthersStay DEF Working
<1>8. ASSUME NEW w \in Worker, MailError(w) \/ BrokerError(w) PROVE Kept
    <2>0. /\ pc[w] # "idle" /\ job[w] \in Command
          /\ \A v \in Worker : v # w =>
                 pc'[v] = pc[v] /\ job'[v] = job[v] /\ (v \in open' <=> v \in open)
        <3>1. pc[w] # "idle"
            BY <1>8 DEF MailError, BrokerError
        <3>2. QED BY <1>0, <1>8, <3>1, OthersStay
    <2>1. CASE MailError(w)
        BY <1>5, <2>0, <2>1 DEF MailError, broker, table, Point, Working
    <2>2. CASE BrokerError(w)
        <3>1. UNCHANGED record /\ pc[w] \notin Working
            BY <2>2 DEF BrokerError, table, Working
        <3>2. CASE Retry(w) \/ Requeue(w)
            BY <1>4, <2>0, <3>1, <3>2
        <3>3. CASE Goto(w, "deadLetter") /\ UNCHANGED place
            BY <1>5, <2>0, <3>1, <3>3 DEF Point
        <3>4. QED BY <2>2, <3>2, <3>3 DEF BrokerError
    <2>3. QED BY <1>8, <2>1, <2>2
<1>9. ASSUME NEW w \in Worker, DatabaseError(w) \/ LoseChannel(w) \/ Crash(w) PROVE FALSE
    BY <1>9 DEF DatabaseError, LoseChannel, Crash, Spend
<1>10. ASSUME NEW m \in Command, Expire(m) \/ Age(m) PROVE Kept
    <2>1. UNCHANGED <<record, pc, job, open, deadLettered, mails, replies>>
        BY <1>10 DEF Expire, Age, broker, table
    <2>2. \A n \in Command : place'[n] = "acked" => place[n] = "acked"
        BY <1>10 DEF Expire, Age, broker, TypeOK
    <2>3. QED BY <1>0, <2>1, <2>2 DEF DealtWith, AcknowledgedIsMailed
<1>11. CASE UNCHANGED vars
    BY <1>0, <1>11 DEF vars, DealtWith, AcknowledgedIsMailed
<1>12. QED
    BY <1>6, <1>7, <1>8, <1>9, <1>10, <1>11 DEF Next

\* The invariant holds of the empty queues.
LEMMA InitConsumerInv == Init => ConsumerInv
<1> SUFFICES ASSUME Init PROVE ConsumerInv
    OBVIOUS
<1>1. TypeOK
    BY InitTyped
<1>2. Truth /\ Exclusive /\ Once
    BY DEF Init, Truth, SuccessIsTrue, Exclusive, OneWorks, Once, AtMostOneMail, Working
<1>3. Attended /\ RetriesAreBounded
    BY ConsumerAssumption DEF Init, Attended, AcknowledgedIsMailed, RetriesAreBounded
<1>4. QED BY <1>1, <1>2, <1>3 DEF ConsumerInv

\* The invariant holds in every reachable state.
THEOREM ConsumerInvariance == Spec => []ConsumerInv
<1>1. ConsumerInv /\ [Next]_vars => ConsumerInv'
    BY NextTyped, TruthKept, ExclusiveKept, OnceKept, AttendedKept, RetriesKept DEF ConsumerInv
<1>2. QED BY <1>1, InitConsumerInv, PTL DEF Spec

\* Whatever fails, and whoever takes over whose claim, a record or reply of
\* success stands for a mail that was sent.
THEOREM SuccessHolds == Spec => []SuccessIsTrue
BY ConsumerInvariance, PTL DEF ConsumerInv, Truth

\* Whatever fails, a command circulates a bounded number of times.
THEOREM RetriesBounded == Spec => []RetriesAreBounded
BY ConsumerInvariance, PTL DEF ConsumerInv

\* As long as no claim outlived STALE_CLAIM_MS, one execution at a time works
\* on a command, whatever else fails.
THEOREM ClaimsExclude == Spec => []OneConsumer
<1>1. ConsumerInv => OneConsumer
    BY DEF ConsumerInv, Exclusive, OneWorks, OneConsumer
<1>2. QED BY <1>1, ConsumerInvariance, PTL

\* Lost channels, dead processes and refused publications send no mail twice.
THEOREM RedeliverySendsOnce == Spec => []MailedOnce
<1>1. ConsumerInv => MailedOnce
    BY DEF ConsumerInv, Once, AtMostOneMail, MailedOnce
<1>2. QED BY <1>1, ConsumerInvariance, PTL

\* As long as no execution was cut off from its message and no statement
\* failed, an acknowledged command was mailed and reported, or dead-lettered.
THEOREM AcknowledgedIsAccounted == Spec => []Accounted
<1>1. ConsumerInv => Accounted
    BY DEF ConsumerInv, Attended, AcknowledgedIsMailed, Accounted
<1>2. QED BY <1>1, ConsumerInvariance, PTL

-----------------------------------------------------------------------------
(* The contract: NotificationConsumer implements CommandContract.          *)

\* Nothing has parted a mail from its record, or an execution from its command.
Undivided == struck \cap {"stale", "db", "smtp", "channel"} = {}

\* An execution on its way to give up on a command.
GivingUp(w) ==
    \/ pc[w] \in {"failed", "replyFailed"}
    \/ pc[w] = "deadLetter" /\ job[w] \notin Replied \cup Malformed

\* What an execution may tell or discard at its point: replies go to sagas, a
\* command with a saga is discarded after the saga was told or served, and one
\* that is given up has not been mailed.
TellsTruly(w) ==
    /\ pc[w] # "idle" /\ job[w] \in Malformed => pc[w] \in {"deadLetter", "ack"}
    /\ pc[w] = "replyFailed" => job[w] \in Replied
    /\ pc[w] = "deadLetter" /\ job[w] \in Replied \ Malformed =>
           "failed" \in replies[job[w]] \/ mails[job[w]] > 0
    /\ Undivided =>
           /\ pc[w] # "idle" => w \in open
           /\ GivingUp(w) => mails[job[w]] = 0

TellingInv == ConsumerInv /\ \A w \in Worker : TellsTruly(w)

\* Replies are not taken back, and only the worker at "send" sends.
LEMMA RepliesGrow ==
    ASSUME TypeOK, [Next]_vars, NEW m \in Command
    PROVE  replies[m] \subseteq replies'[m]
<1>1. CASE UNCHANGED replies
    BY <1>1
<1>2. ASSUME NEW w \in Worker, NEW event, publishSagaReply(w, event) PROVE replies[m] \subseteq replies'[m]
    BY <1>2 DEF publishSagaReply, TypeOK
<1>3. QED
    BY <1>1, <1>2 DEF Next, Deliver, Handle, LookUp, Claim, Send, Mark, Unclaim, Failed, ReplyFailed,
       DeadLetter, Reply, Publish, Acknowledge, Expire, Age, MailError, DatabaseError, BrokerError,
       LoseChannel, Crash, broker, vars

\* A mail is sent on behalf of one's own command only.
LEMMA OwnMail ==
    ASSUME TypeOK, NEW w \in Worker, NEW m \in Command, m # job[w],
           \/ Deliver(w) \/ Handle(w) \/ MailError(w) \/ DatabaseError(w)
           \/ BrokerError(w) \/ LoseChannel(w) \/ Crash(w)
    PROVE  mails'[m] = mails[m]
BY DEF TypeOK, Deliver, Handle, LookUp, Claim, Send, Mark, Unclaim, Failed, ReplyFailed, DeadLetter,
   Reply, Acknowledge, MailError, DatabaseError, BrokerError, LoseChannel, Crash

\* The other executions may tell what they could tell before.
LEMMA OthersTell ==
    ASSUME TypeOK, [Next]_vars, NEW w \in Worker,
           \/ Deliver(w) \/ Handle(w) \/ MailError(w) \/ DatabaseError(w)
           \/ BrokerError(w) \/ LoseChannel(w) \/ Crash(w),
           TellsTruly(w), NEW v \in Worker, v # w, TellsTruly(v)
    PROVE  TellsTruly(v)'
<1>1. pc'[v] = pc[v] /\ job'[v] = job[v] /\ (v \in open' <=> v \in open)
    BY OthersStay
<1>2. pc[v] # "idle" => job[v] \in Command
    BY DEF TypeOK
<1>3. Undivided' => Undivided
    BY StruckGrows DEF Undivided
<1>4. pc[v] # "idle" => replies[job[v]] \subseteq replies'[job[v]]
    BY <1>2, RepliesGrow
<1>5. pc[v] # "idle" /\ mails[job[v]] > 0 => mails'[job[v]] > 0
    BY <1>2, MailsGrow DEF TypeOK
<1>6. Undivided' /\ GivingUp(v) => mails'[job[v]] = mails[job[v]]
    <2> SUFFICES ASSUME Undivided', GivingUp(v) PROVE mails'[job[v]] = mails[job[v]]
        OBVIOUS
    <2>1. pc[v] # "idle" /\ v \in open
        BY <1>3 DEF GivingUp, TellsTruly
    <2>2. CASE job[w] # job[v]
        BY <1>2, <2>1, <2>2, OwnMail
    <2>3. CASE job[w] = job[v]
        <3>1. w \notin open
            BY <2>1, <2>3 DEF TypeOK
        <3>2. pc[w] = "idle"
            BY <1>3, <3>1 DEF TellsTruly
        <3>3. UNCHANGED mails
            BY <3>2 DEF Deliver, Handle, LookUp, Claim, Send, Mark, Unclaim, Failed, ReplyFailed,
               DeadLetter, Reply, Acknowledge, MailError, DatabaseError, BrokerError, LoseChannel, Crash
        <3>4. QED BY <3>3
    <2>4. QED BY <2>2, <2>3
<1>7. QED BY <1>1, <1>3, <1>4, <1>5, <1>6 DEF TellsTruly, GivingUp

\* An execution reaches a point only with what it may tell there.
LEMMA OwnTell ==
    ASSUME ConsumerInv, [Next]_vars, NEW w \in Worker, TellsTruly(w),
           \/ Deliver(w) \/ Handle(w) \/ MailError(w) \/ DatabaseError(w)
           \/ BrokerError(w) \/ LoseChannel(w) \/ Crash(w)
    PROVE  TellsTruly(w)'
<1>1. TypeOK
    BY DEF ConsumerInv
<1>2. Undivided' => Undivided
    BY StruckGrows DEF Undivided
<1>3. pc[w] # "idle" => job[w] \in Command
    BY <1>1 DEF TypeOK
<1>4. CASE End(w)
    BY <1>1, <1>4 DEF End, TellsTruly, GivingUp, TypeOK
<1>5. ASSUME NEW p \in Point \ {"idle"}, Goto(w, p), pc[w] # "idle"
      PROVE  /\ pc'[w] = p /\ job'[w] = job[w] /\ open' = open
             /\ Undivided' => w \in open
    BY <1>1, <1>2, <1>5 DEF Goto, TypeOK, TellsTruly
<1>6. ASSUME pc[w] \notin {"idle", "deadLetter", "ack"},
             NEW p \in {"look", "claim", "send", "mark", "unclaim", "reply", "ack"}, Goto(w, p)
      PROVE  TellsTruly(w)'
    BY <1>5, <1>6 DEF TellsTruly, GivingUp, Point
<1>7. CASE Deliver(w)
    <2>1. PICK m \in Command : /\ place[m] = "queue"
                               /\ job' = [job EXCEPT ![w] = m]
                               /\ pc' = [pc EXCEPT ![w] = IF m \in Malformed THEN "deadLetter" ELSE "look"]
        BY <1>7 DEF Deliver
    <2>2. job'[w] = m /\ pc'[w] = (IF m \in Malformed THEN "deadLetter" ELSE "look") /\ w \in open'
        BY <1>1, <1>7, <2>1 DEF Deliver, TypeOK
    <2>3. QED BY <2>2 DEF TellsTruly, GivingUp
<1>8. CASE LookUp(w) \/ Claim(w) \/ Send(w) \/ Mark(w)
    BY <1>4, <1>6, <1>8 DEF LookUp, Claim, Send, Mark, Ack, Settle
<1>9. CASE Unclaim(w)
    <2>1. pc[w] = "unclaim" /\ Goto(w, "failed") /\ UNCHANGED <<mails, replies, struck>>
        BY <1>9 DEF Unclaim, broker
    <2>2. Undivided => mails[job[w]] = 0
        BY <2>1 DEF ConsumerInv, Once, Undivided
    <2>3. QED BY <1>2, <1>5, <2>1, <2>2 DEF TellsTruly, GivingUp, Point
<1>10. CASE Failed(w)
    <2>1. pc[w] = "failed" /\ UNCHANGED <<mails, replies, struck>>
        BY <1>10 DEF Failed
    <2>2. CASE Retry(w)
        BY <1>4, <2>2 DEF Retry, Settle
    <2>3. CASE Goto(w, IF job[w] \in Replied THEN "replyFailed" ELSE "deadLetter")
        <3>1. CASE job[w] \in Replied
            BY <1>2, <1>5, <2>1, <2>3, <3>1 DEF TellsTruly, GivingUp, Point
        <3>2. CASE job[w] \notin Replied
            BY <1>2, <1>5, <2>1, <2>3, <3>2 DEF TellsTruly, GivingUp, Point
        <3>3. QED BY <3>1, <3>2
    <2>4. QED BY <1>10, <2>2, <2>3 DEF Failed
<1>11. CASE ReplyFailed(w)
    <2>1. pc[w] = "replyFailed" /\ UNCHANGED <<mails, struck>>
        BY <1>11 DEF ReplyFailed
    <2>2. CASE w \in open
        <3>1. Goto(w, "deadLetter") /\ replies' = [replies EXCEPT ![job[w]] = @ \cup {"failed"}]
            BY <1>11, <2>2 DEF ReplyFailed, Publish, publishSagaReply
        <3>2. "failed" \in replies'[job[w]]
            BY <1>1, <1>3, <2>1, <3>1 DEF TypeOK
        <3>3. QED BY <1>5, <2>1, <3>1, <3>2 DEF TellsTruly, GivingUp, Point
    <2>3. CASE w \notin open
        BY <1>4, <1>11, <2>3 DEF ReplyFailed, Publish
    <2>4. QED BY <2>2, <2>3
<1>12. CASE DeadLetter(w) \/ Reply(w)
    <2>1. pc[w] \in {"deadLetter", "reply"} /\ UNCHANGED mails
        BY <1>12 DEF DeadLetter, Reply
    <2>2. CASE Goto(w, "ack")
        BY <1>5, <2>1, <2>2 DEF TellsTruly, GivingUp, Point
    <2>3. QED BY <1>4, <1>12, <2>2 DEF DeadLetter, Reply, Publish, Ack, Settle
<1>13. CASE Acknowledge(w) \/ Crash(w)
    BY <1>4, <1>13 DEF Acknowledge, Crash, Ack, Settle
<1>14. CASE MailError(w)
    BY <1>6, <1>14 DEF MailError
<1>15. CASE DatabaseError(w)
    <2>1. ~ Undivided'
        BY <1>15 DEF DatabaseError, Spend, Undivided
    <2>2. pc[w] \in {"look", "claim", "mark", "unclaim"}
          /\ (Goto(w, "unclaim") \/ Goto(w, "failed"))
        BY <1>15 DEF DatabaseError
    <2>3. QED BY <1>5, <2>1, <2>2 DEF TellsTruly, Point
<1>16. CASE BrokerError(w)
    <2>1. CASE Retry(w) \/ Requeue(w)
        BY <1>4, <2>1 DEF Retry, Requeue, Settle
    <2>2. CASE pc[w] = "reply" /\ job[w] \in Replied /\ Goto(w, "deadLetter")
        <3>1. mails[job[w]] > 0 /\ UNCHANGED mails
            BY <1>16, <2>2 DEF BrokerError, ConsumerInv, Truth
        <3>2. QED BY <1>5, <2>2, <3>1 DEF TellsTruly, GivingUp, Point
    <2>3. QED BY <1>16, <2>1, <2>2 DEF BrokerError
<1>17. CASE LoseChannel(w)
    <2>1. ~ Undivided' /\ UNCHANGED <<pc, job, replies, mails>>
        BY <1>17 DEF LoseChannel, Spend, Undivided
    <2>2. QED BY <2>1 DEF TellsTruly
<1>18. QED
    BY <1>7, <1>8, <1>9, <1>10, <1>11, <1>12, <1>13, <1>14, <1>15, <1>16, <1>17 DEF Handle

\* The start, and every step, leaves all executions with what they may tell.
LEMMA TellingKept ==
    /\ Init => TellingInv
    /\ TellingInv /\ [Next]_vars => TellingInv'
<1>1. Init => TellingInv
    BY InitConsumerInv DEF Init, TellingInv, TellsTruly, GivingUp
<1>2. ASSUME TellingInv, [Next]_vars PROVE TellingInv'
    <2>1. ConsumerInv /\ TypeOK /\ ConsumerInv'
        BY <1>2, NextTyped, TruthKept, ExclusiveKept, OnceKept, AttendedKept, RetriesKept
           DEF TellingInv, ConsumerInv
    <2>2. ASSUME NEW v \in Worker, NEW w \in Worker,
                 \/ Deliver(w) \/ Handle(w) \/ MailError(w) \/ DatabaseError(w)
                 \/ BrokerError(w) \/ LoseChannel(w) \/ Crash(w)
          PROVE  TellsTruly(v)'
        <3>1. TellsTruly(v) /\ TellsTruly(w)
            BY <1>2 DEF TellingInv
        <3>2. CASE v = w
            BY <1>2, <2>1, <2>2, <3>1, <3>2, OwnTell
        <3>3. CASE v # w
            BY <1>2, <2>1, <2>2, <3>1, <3>3, OthersTell
        <3>4. QED BY <3>2, <3>3
    <2>3. ASSUME NEW v \in Worker, (\E m \in Command : Expire(m) \/ Age(m)) \/ UNCHANGED vars
          PROVE  TellsTruly(v)'
        <3>1. UNCHANGED <<pc, job, open, replies, mails>> /\ (Undivided' => Undivided)
            BY <1>2, <2>3, StruckGrows DEF Expire, Age, broker, table, vars, Undivided
        <3>2. QED BY <1>2, <3>1 DEF TellingInv, TellsTruly, GivingUp
    <2>4. QED BY <1>2, <2>1, <2>2, <2>3 DEF Next, TellingInv
<1>3. QED BY <1>1, <1>2
Forgotten == {m \in Command : place[m] = "acked"}

\* Nothing seen from outside changes while no command is acknowledged.
LEMMA Unseen ==
    ASSUME TypeOK, UNCHANGED <<mails, replies, deadLettered, struck>>,
           \/ UNCHANGED place
           \/ \E m \in Command, to \in {"taken", "queue", "retry"} :
                 place[m] # "acked" /\ place' = [place EXCEPT ![m] = to]
    PROVE  UNCHANGED Contract!contract
<1>1. Forgotten' = Forgotten
    BY DEF Forgotten, TypeOK
<1>2. QED BY <1>1 DEF Forgotten, Contract!contract

\* The same when a fault strikes.
LEMMA Struck ==
    ASSUME TypeOK, NEW kind, Spend(kind), UNCHANGED <<mails, replies, deadLettered>>,
           \/ UNCHANGED place
           \/ \E m \in Command, to \in {"taken", "queue", "retry"} :
                 place[m] # "acked" /\ place' = [place EXCEPT ![m] = to]
    PROVE  Contract!ContractNext
<1>1. Forgotten' = Forgotten
    BY DEF Forgotten, TypeOK
<1>2. kind \in Faults /\ struck' = struck \cup {kind}
    BY DEF Spend
<1>3. Contract!Strike(kind)
    BY <1>1, <1>2 DEF Forgotten, Contract!Strike
<1>4. QED BY <1>2, <1>3 DEF Contract!ContractNext

\* An execution that has its command acknowledged settles it, if the broker
\* still knows it.
LEMMA AckSettles ==
    ASSUME TypeOK, TypeOK', Attended', NEW w \in Worker, pc[w] # "idle", Ack(w),
           UNCHANGED <<mails, replies, deadLettered, struck>>
    PROVE  [Contract!ContractNext]_(Contract!contract)
<1>1. CASE w \notin open
    BY <1>1, Unseen DEF Ack, Settle
<1>2. CASE w \in open
    <2>1. PICK m \in Command : place[m] = "taken" /\ place' = [place EXCEPT ![m] = "acked"]
        BY <1>2 DEF TypeOK, Ack, Settle
    <2>2. m \notin Forgotten /\ Forgotten' = Forgotten \cup {m}
        BY <2>1 DEF Forgotten, TypeOK
    <2>3. struck \cap {"crash", "channel", "db"} = {} => DealtWith(m)'
        BY <2>1 DEF Attended, AcknowledgedIsMailed, TypeOK
    <2>4. Contract!Spared(Contract!Losing) => Contract!DealtWith(m)
        BY <2>1, <2>3 DEF Contract!Spared, Contract!Losing, Contract!DealtWith, DealtWith
    <2>5. Contract!Settle(m)
        BY <2>1, <2>2, <2>4 DEF Forgotten, Contract!Settle
    <2>6. QED BY <2>1, <2>5 DEF Contract!ContractNext
<1>3. QED BY <1>1, <1>2

\* One that rejects or requeues it settles nothing.
LEMMA BackInQueue ==
    ASSUME TypeOK, NEW w \in Worker, pc[w] # "idle", Retry(w) \/ Requeue(w) \/ Return(w)
    PROVE  \/ UNCHANGED place
           \/ \E m \in Command, to \in {"taken", "queue", "retry"} :
                 place[m] # "acked" /\ place' = [place EXCEPT ![m] = to]
<1>1. job[w] \in Command /\ (w \in open => place[job[w]] = "taken")
    BY DEF TypeOK
<1>2. QED BY <1>1 DEF Retry, Requeue, Return, Settle

\* Every step is one the contract allows, or is not seen from outside.
LEMMA NextContract == TellingInv /\ TellingInv' /\ [Next]_vars => [Contract!ContractNext]_(Contract!contract)
<1> SUFFICES ASSUME TellingInv, TellingInv', [Next]_vars
             PROVE  [Contract!ContractNext]_(Contract!contract)
    OBVIOUS
<1>1. TypeOK /\ TypeOK' /\ Attended' /\ Truth /\ Once /\ \A w \in Worker : TellsTruly(w)
    BY DEF TellingInv, ConsumerInv
<1>2. ASSUME NEW w \in Worker, pc[w] # "idle"
      PROVE  job[w] \in Command /\ (w \in open => job[w] \notin Forgotten)
    BY <1>1, <1>2 DEF TypeOK, Forgotten
<1>3. ASSUME NEW w \in Worker, Deliver(w) \/ LookUp(w) \/ Mark(w) \/ Unclaim(w) \/ Failed(w)
      PROVE  UNCHANGED Contract!contract
    <2>1. UNCHANGED <<mails, replies, deadLettered, struck>>
        BY <1>3 DEF Deliver, LookUp, Mark, Unclaim, Failed, broker
    <2>2. CASE Deliver(w)
        BY <1>1, <2>1, <2>2, Unseen DEF Deliver
    <2>3. CASE ~ Deliver(w) /\ UNCHANGED place
        BY <1>1, <2>1, <2>3, Unseen
    <2>4. CASE Failed(w) /\ Retry(w)
        BY <1>1, <2>1, <2>4, Unseen, BackInQueue DEF Failed
    <2>5. QED BY <1>3, <2>2, <2>3, <2>4 DEF LookUp, Mark, Unclaim, Failed, broker
<1>4. ASSUME NEW w \in Worker, Claim(w) \/ Acknowledge(w)
      PROVE  [Contract!ContractNext]_(Contract!contract)
    <2>1. pc[w] # "idle" /\ UNCHANGED <<mails, replies, deadLettered, struck>>
        BY <1>4 DEF Claim, Acknowledge
    <2>2. CASE Ack(w)
        BY <1>1, <2>1, <2>2, AckSettles
    <2>3. CASE UNCHANGED place
        BY <1>1, <2>1, <2>3, Unseen
    <2>4. QED BY <1>4, <2>2, <2>3 DEF Claim, Acknowledge
<1>5. ASSUME NEW w \in Worker, pc[w] = "send", mails' = [mails EXCEPT ![job[w]] = @ + 1],
             struck' = struck \/ Spend("smtp"), UNCHANGED <<replies, deadLettered, place>>
      PROVE  Contract!ContractNext
    <2>1. job[w] \in Command /\ job[w] \notin Malformed
        BY <1>1, <1>2, <1>5 DEF TellsTruly
    <2>2. Contract!Spared(Contract!Parting) => mails[job[w]] = 0
        BY <1>1, <1>5 DEF Once, Contract!Spared, Contract!Parting
    <2>3. struck' = struck \/ struck' = struck \cup ({"smtp"} \cap Faults)
        BY <1>5 DEF Spend
    <2>4. Contract!Send(job[w])
        BY <1>5, <2>1, <2>2, <2>3 DEF Contract!Send
    <2>5. QED BY <2>1, <2>4 DEF Contract!ContractNext
<1>6. ASSUME NEW w \in Worker, Send(w) \/ MailError(w)
      PROVE  [Contract!ContractNext]_(Contract!contract)
    <2>1. CASE mails' = [mails EXCEPT ![job[w]] = @ + 1]
        BY <1>5, <1>6, <2>1 DEF Send, MailError, broker
    <2>2. CASE Send(w) /\ UNCHANGED mails
        BY <1>1, <2>2, Unseen DEF Send, broker
    <2>3. QED BY <1>6, <2>1, <2>2 DEF Send, MailError
<1>7. ASSUME NEW w \in Worker, ReplyFailed(w)
      PROVE  [Contract!ContractNext]_(Contract!contract)
    <2>1. pc[w] = "replyFailed" /\ UNCHANGED <<mails, struck>>
        BY <1>7 DEF ReplyFailed
    <2>2. CASE w \in open
        <3>1. /\ replies' = [replies EXCEPT ![job[w]] = @ \cup {"failed"}]
              /\ UNCHANGED <<place, deadLettered>>
            BY <1>7, <2>2 DEF ReplyFailed, Publish, publishSagaReply
        <3>2. job[w] \in Replied \ Malformed
            BY <1>1, <2>1 DEF TellsTruly
        <3>3. Contract!Unsent(job[w])
            BY <1>1, <2>1
               DEF TellsTruly, GivingUp, Undivided, Contract!Unsent, Contract!Spared, Contract!Parting
        <3>4. job[w] \in Command /\ job[w] \notin Forgotten
            BY <1>2, <2>1, <2>2
        <3>5. Contract!Fail(job[w])
            BY <2>1, <3>1, <3>2, <3>3, <3>4 DEF Contract!Fail, Contract!Tell, Forgotten
        <3>6. QED BY <3>4, <3>5 DEF Contract!ContractNext
    <2>3. CASE w \notin open
        BY <1>1, <1>7, <2>1, <2>3, Unseen DEF ReplyFailed, Publish
    <2>4. QED BY <2>2, <2>3
<1>8. ASSUME NEW w \in Worker, DeadLetter(w)
      PROVE  [Contract!ContractNext]_(Contract!contract)
    <2>1. pc[w] = "deadLetter" /\ UNCHANGED <<mails, struck>>
        BY <1>8 DEF DeadLetter
    <2>2. CASE w \in open
        <3>1. deadLettered' = deadLettered \cup {job[w]} /\ UNCHANGED <<place, replies>>
            BY <1>8, <2>2 DEF DeadLetter, Publish
        <3>2. \/ job[w] \in Malformed
              \/ job[w] \in Replied /\ ("failed" \in replies[job[w]] \/ mails[job[w]] > 0)
              \/ job[w] \notin Replied /\ Contract!Unsent(job[w])
            BY <1>1, <2>1
               DEF TellsTruly, GivingUp, Undivided, Contract!Unsent, Contract!Spared, Contract!Parting
        <3>3. job[w] \in Command /\ job[w] \notin Forgotten
            BY <1>2, <2>1, <2>2
        <3>4. Contract!Discard(job[w])
            BY <2>1, <3>1, <3>2, <3>3 DEF Contract!Discard, Forgotten
        <3>5. QED BY <3>3, <3>4 DEF Contract!ContractNext
    <2>3. CASE w \notin open
        BY <1>1, <1>8, <2>1, <2>3, Unseen DEF DeadLetter, Publish
    <2>4. QED BY <2>2, <2>3
<1>9. ASSUME NEW w \in Worker, Reply(w)
      PROVE  [Contract!ContractNext]_(Contract!contract)
    <2>1. pc[w] = "reply" /\ UNCHANGED <<mails, struck>>
        BY <1>9 DEF Reply
    <2>2. CASE job[w] \notin Replied
        BY <1>1, <1>9, <2>1, <2>2, AckSettles DEF Reply
    <2>3. CASE job[w] \in Replied /\ w \in open
        <3>1. /\ replies' = [replies EXCEPT ![job[w]] = @ \cup {"succeeded"}]
              /\ UNCHANGED <<place, deadLettered>>
            BY <1>9, <2>3 DEF Reply, Publish, publishSagaReply
        <3>2. job[w] \notin Malformed /\ mails[job[w]] > 0
            BY <1>1, <2>1 DEF TellsTruly, Truth
        <3>3. job[w] \in Command /\ job[w] \notin Forgotten
            BY <1>2, <2>1, <2>3
        <3>4. Contract!Succeed(job[w])
            BY <2>1, <2>3, <3>1, <3>2, <3>3 DEF Contract!Succeed, Contract!Tell, Forgotten
        <3>5. QED BY <3>3, <3>4 DEF Contract!ContractNext
    <2>4. CASE job[w] \in Replied /\ w \notin open
        BY <1>1, <1>9, <2>1, <2>4, Unseen DEF Reply, Publish
    <2>5. QED BY <2>2, <2>3, <2>4
<1>10. ASSUME NEW w \in Worker, DatabaseError(w) \/ BrokerError(w) \/ LoseChannel(w) \/ Crash(w)
       PROVE  Contract!ContractNext
    <2>1. UNCHANGED <<mails, replies, deadLettered>> /\ \E kind \in Faults : Spend(kind)
        BY <1>10 DEF DatabaseError, BrokerError, LoseChannel, Crash, Spend, broker
    <2>2. pc[w] # "idle"
        BY <1>1, <1>10 DEF DatabaseError, BrokerError, LoseChannel, Crash, TypeOK
    <2>3. \/ UNCHANGED place
          \/ Retry(w) \/ Requeue(w) \/ Return(w)
        BY <1>10 DEF DatabaseError, BrokerError, LoseChannel, Crash, broker
    <2>4. QED BY <1>1, <2>1, <2>2, <2>3, BackInQueue, Struck
<1>11. ASSUME NEW m \in Command, Expire(m) PROVE UNCHANGED Contract!contract
    BY <1>1, <1>11, Unseen DEF Expire
<1>12. ASSUME NEW m \in Command, Age(m) PROVE Contract!ContractNext
    BY <1>1, <1>12, Struck DEF Age, broker
<1>13. CASE UNCHANGED vars
    BY <1>1, <1>13, Unseen DEF vars
<1>14. QED
    BY <1>3, <1>4, <1>6, <1>7, <1>8, <1>9, <1>10, <1>11, <1>12, <1>13 DEF Next, Handle

\* Whatever fails and however executions overlap, the consumer makes every
\* reply, dead letter and acknowledgement only where its contract allows it.
THEOREM ConsumerKeepsContract == Spec => KeepsContract
<1>1. Init => Contract!ContractInit
    BY DEF Init, Contract!ContractInit
<1>2. Spec => []TellingInv
    BY TellingKept, PTL DEF Spec
<1>3. QED BY <1>1, <1>2, NextContract, PTL DEF Spec, KeepsContract, Contract!ContractSpec


=============================================================================

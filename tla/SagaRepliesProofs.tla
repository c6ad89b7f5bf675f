------------------------- MODULE SagaRepliesProofs -------------------------
(***************************************************************************)
(* Proofs about SagaReplies, for any sagas, replies, executions, attempts  *)
(* and faults.                                                             *)
(***************************************************************************)
EXTENDS SagaReplies, TLAPS

Undoing == {"delete", "markCompensated", "markFailed"}
Undone == {"COMPENSATING", "COMPENSATED", "FAILED"}
Early == {"NONE", "STARTED"}

\* TypeOK is LifecycleTypeOK and the rest.
Queues ==
    /\ place \in [Reply -> {"unpublished", "queue", "taken", "retry", "acked"}]
    /\ deaths \in [Reply -> Nat]
    /\ pc \in [Worker -> Point]
    /\ job \in [Worker -> Reply \cup {None}]
    /\ open \subseteq Worker
    /\ deadLettered \subseteq Reply
    /\ processed \subseteq Reply \ Useless
    /\ faults \in 0..MaxFaults
    /\ \A w \in Worker : pc[w] # "idle" => job[w] \in Reply
    /\ \A w \in open : pc[w] # "idle" /\ place[job[w]] = "taken"
    /\ \A v, w \in open : job[v] = job[w] => v = w

\* A reply tells the truth about its saga.
Told ==
    \A m \in Reply \ Useless : place[m] # "unpublished" =>
        /\ state[SagaOf[m]] \notin Early
        /\ m \in Succeeded => SagaOf[m] \in mailed

\* COMPENSATED leaves no unconfirmed subscription.
Gone == \A g \in Saga : state[g] = "COMPENSATED" => row[g] # "pending"

\* What an execution knows at each point, whatever others have done since.
PointHolds(w) ==
    /\ pc[w] # "idle" => place[job[w]] # "unpublished"
    /\ pc[w] \in {"complete", "claim", "record"} \cup Undoing => job[w] \notin Useless
    /\ pc[w] = "complete" => job[w] \in Succeeded
    /\ pc[w] = "record" => TookEffect(job[w])
    /\ pc[w] \in Undoing => state[SagaOf[job[w]]] \in Undone
    /\ pc[w] = "markCompensated" => row[SagaOf[job[w]]] # "pending"
    /\ pc[w] = "ack" => job[w] \in processed \cup deadLettered

PointsHold == \A w \in Worker : PointHolds(w)

RepliesInv == TypeOK /\ Told /\ Gone /\ PointsHold /\ OneCompensator /\ DoneMeansEffect

\* What no step undoes.
Stable ==
    /\ mailed \subseteq mailed'
    /\ \A g \in Saga :
          /\ state[g] \notin Early => state'[g] \notin Early
          /\ state[g] \in Undone => state'[g] \in Undone
          /\ state[g] = "COMPLETED" => state'[g] = "COMPLETED"
          /\ state[g] # "NONE" /\ row[g] # "pending" => row'[g] # "pending"
          /\ (state[g] = "COMPENSATED" => row[g] # "pending")
                => (state'[g] = "COMPENSATED" => row'[g] # "pending")

-----------------------------------------------------------------------------
LEMMA TypeParts == /\ TypeOK <=> Lifecycle!LifecycleTypeOK /\ Queues
                   /\ TypeOK' <=> Lifecycle!LifecycleTypeOK' /\ Queues'
BY DEF TypeOK, Queues

\* A step of the contract keeps types, and undoes nothing.
LEMMA LifecycleKeeps ==
    ASSUME Lifecycle!LifecycleTypeOK,
           Lifecycle!LifecycleNext \/ UNCHANGED sagas
    PROVE  Lifecycle!LifecycleTypeOK' /\ Stable
<1> USE DEF Lifecycle!LifecycleTypeOK, Lifecycle!Active, Lifecycle!Terminal, Lifecycle!RowState,
            Lifecycle!Move, Stable, Early, Undone
<1>1. CASE UNCHANGED sagas
    BY <1>1 DEF sagas
<1>2. ASSUME NEW g \in Saga, Lifecycle!Begin(g)
      PROVE  Lifecycle!LifecycleTypeOK' /\ Stable
    BY <1>2 DEF Lifecycle!Begin
<1>3. ASSUME NEW g \in Saga, Lifecycle!Dispatch(g) \/ Lifecycle!Complete(g) \/ Lifecycle!Abandon(g)
      PROVE  Lifecycle!LifecycleTypeOK' /\ Stable
    BY <1>3 DEF Lifecycle!Dispatch, Lifecycle!Complete, Lifecycle!Abandon
<1>4. ASSUME NEW g \in Saga, Lifecycle!Undo(g) \/ Lifecycle!Finish(g)
      PROVE  Lifecycle!LifecycleTypeOK' /\ Stable
    BY <1>4 DEF Lifecycle!Undo, Lifecycle!Finish
<1>5. ASSUME NEW g \in Saga, Lifecycle!Remove(g) \/ Lifecycle!Confirm(g) \/ Lifecycle!Unsubscribe(g)
      PROVE  Lifecycle!LifecycleTypeOK' /\ Stable
    BY <1>5 DEF Lifecycle!Remove, Lifecycle!Confirm, Lifecycle!Unsubscribe
<1>6. ASSUME NEW g \in Saga, Lifecycle!Deliver(g)
      PROVE  Lifecycle!LifecycleTypeOK' /\ Stable
    BY <1>6 DEF Lifecycle!Deliver
<1>7. QED BY <1>1, <1>2, <1>3, <1>4, <1>5, <1>6 DEF Lifecycle!LifecycleNext

\* Every statement of the handlers is a move of the contract, or changes no row.
LEMMA StatementMoves ==
    ASSUME RepliesInv, NEW w \in Worker,
           \/ pc[w] = "complete" /\ Completed(w)
           \/ pc[w] = "claim" /\ Claimed(w)
           \/ pc[w] = "delete" /\ Removed(w)
           \/ pc[w] \in {"markCompensated", "markFailed"} /\ Ended(w)
    PROVE  Lifecycle!LifecycleNext \/ UNCHANGED sagas
<1> DEFINE g == SagaOf[job[w]]
<1> USE DEF RepliesInv, SetState, Expecting, sagas, Lifecycle!Move
<1>1. job[w] \in Reply /\ PointHolds(w) /\ pc[w] # "idle"
    BY TypeParts DEF Queues, PointsHold
<1>2. g \in Saga
    BY <1>1, RepliesAssumption
<1>3. state \in [Saga -> Lifecycle!Active \cup Lifecycle!Terminal \cup {"NONE"}]
      /\ row \in [Saga -> Lifecycle!RowState]
    BY TypeParts DEF Lifecycle!LifecycleTypeOK
<1>4. CASE pc[w] = "complete" /\ Completed(w)
    <2>1. g \in mailed
        BY <1>1, <1>4 DEF PointHolds, Told
    <2>2. Lifecycle!Complete(g) \/ UNCHANGED sagas
        BY <1>4, <2>1 DEF Completed, Lifecycle!Complete
    <2>3. QED BY <1>2, <2>2 DEF Lifecycle!LifecycleNext
<1>5. CASE pc[w] = "claim" /\ Claimed(w)
    <2>1. Lifecycle!Undo(g) \/ UNCHANGED sagas
        BY <1>5 DEF Claimed, Lifecycle!Undo, Lifecycle!Active
    <2>2. QED BY <1>2, <2>1 DEF Lifecycle!LifecycleNext
<1>6. CASE pc[w] = "delete" /\ Removed(w)
    <2>1. state[g] \in Undone /\ (state[g] = "COMPENSATED" => row[g] # "pending")
        BY <1>1, <1>2, <1>6 DEF PointHolds, Undoing, Gone
    <2>2. Lifecycle!Remove(g) \/ UNCHANGED sagas
        BY <1>6, <2>1 DEF Removed, Lifecycle!Remove, Undone
    <2>3. QED BY <1>2, <2>2 DEF Lifecycle!LifecycleNext
<1>7. CASE pc[w] \in {"markCompensated", "markFailed"} /\ Ended(w)
    <2>1. pc[w] = "markCompensated" => row[g] # "pending"
        BY <1>1 DEF PointHolds
    <2>2. Lifecycle!Finish(g) \/ UNCHANGED sagas
        BY <1>7, <2>1 DEF Ended, Lifecycle!Finish
    <2>3. QED BY <1>2, <2>2 DEF Lifecycle!LifecycleNext
<1>8. QED BY <1>4, <1>5, <1>6, <1>7

\* Every step, as seen from outside, is a step of the contract or none.
LEMMA SagaMoves == RepliesInv /\ [Next]_vars => Lifecycle!LifecycleNext \/ UNCHANGED sagas
<1> SUFFICES ASSUME RepliesInv, [Next]_vars
             PROVE  Lifecycle!LifecycleNext \/ UNCHANGED sagas
    OBVIOUS
<1> USE DEF sagas
<1>1. CASE Others
    BY <1>1 DEF Others
<1>2. ASSUME NEW m \in Reply, Publish(m) \/ Expire(m)
      PROVE  UNCHANGED sagas
    BY <1>2 DEF Publish, Expire
<1>3. ASSUME NEW w \in Worker, Deliver(w) \/ LookUp(w) \/ Find(w) \/ Record(w) \/ Acknowledge(w)
                               \/ DeadLetter(w) \/ BrokerError(w) \/ LoseChannel(w) \/ Crash(w)
      PROVE  UNCHANGED sagas
    BY <1>3 DEF Deliver, LookUp, Find, Record, Acknowledge, DeadLetter, BrokerError, LoseChannel, Crash
<1>4. ASSUME NEW w \in Worker, Complete(w) \/ Claim(w) \/ Delete(w) \/ Finish(w) \/ DatabaseError(w)
      PROVE  Lifecycle!LifecycleNext \/ UNCHANGED sagas
    <2>1. \/ pc[w] = "complete" /\ Completed(w)
          \/ pc[w] = "claim" /\ Claimed(w)
          \/ pc[w] = "delete" /\ Removed(w)
          \/ pc[w] \in {"markCompensated", "markFailed"} /\ Ended(w)
          \/ UNCHANGED sagas
        BY <1>4 DEF Complete, Claim, Delete, Finish, DatabaseError, Step
    <2>2. QED BY <2>1, StatementMoves
<1>5. CASE UNCHANGED vars
    BY <1>5 DEF vars
<1>6. QED BY <1>1, <1>2, <1>3, <1>4, <1>5 DEF Next, Handle

-----------------------------------------------------------------------------
(* The queues.                                                             *)

\* All that an execution that has begun does to the queues.
Proceeds(w) ==
    /\ pc[w] # "idle"
    /\ \/ \E p \in Point \ {"idle"} : Goto(w, p) /\ UNCHANGED place
       \/ \E to \in {"queue", "retry", "acked"} : Settle(w, to)
       \/ Return(w) /\ open' = open \ {w} /\ UNCHANGED <<pc, job>>
    /\ deaths' \in [Reply -> Nat]
    /\ deadLettered \subseteq deadLettered' /\ deadLettered' \subseteq Reply
    /\ processed \subseteq processed' /\ processed' \subseteq Reply \ Useless
    /\ faults' \in 0..MaxFaults

LEMMA Counted ==
    ASSUME Queues, NEW w \in Worker, pc[w] # "idle",
           Ack(w) \/ Retry(w) \/ Requeue(w) \/ UNCHANGED deaths
    PROVE  deaths' \in [Reply -> Nat]
BY DEF Queues, Ack, Retry, Requeue

LEMMA Spent == ASSUME Queues, NEW k, Spend(k) \/ UNCHANGED faults PROVE faults' \in 0..MaxFaults
BY RepliesAssumption DEF Queues, Spend

LEMMA Steps ==
    ASSUME Queues, PointsHold, NEW w \in Worker,
           Handle(w) \/ DatabaseError(w) \/ BrokerError(w) \/ LoseChannel(w) \/ Crash(w)
    PROVE  Proceeds(w)
<1> USE DEF Proceeds, Step, Goto, Point
<1>1. CASE LookUp(w) \/ Find(w)
    <2>1. pc[w] # "idle"
        BY <1>1 DEF LookUp, Find
    <2>2. Ack(w) \/ (\E p \in Point \ {"idle"} : Goto(w, p) /\ UNCHANGED <<place, deaths>>)
        BY <1>1 DEF LookUp, Find
    <2>3. UNCHANGED <<deadLettered, processed, faults>>
        BY <1>1 DEF LookUp, Find
    <2>4. QED BY <2>1, <2>2, <2>3, Counted DEF Ack, Queues
<1>2. CASE Complete(w) \/ Claim(w) \/ Delete(w) \/ Finish(w)
    BY <1>2 DEF Complete, Claim, Delete, Finish, Queues
<1>3. CASE Record(w)
    <2>1. pc[w] = "record" /\ job[w] \in Reply \ Useless
        BY <1>3 DEF Record, Queues, PointsHold, PointHolds
    <2>2. QED BY <1>3, <2>1 DEF Record, recordProcessedSagaReply, Queues
<1>4. CASE Acknowledge(w)
    <2>1. pc[w] # "idle" /\ Ack(w) /\ UNCHANGED <<deadLettered, processed, faults>>
        BY <1>4 DEF Acknowledge
    <2>2. QED BY <2>1, Counted DEF Ack, Queues
<1>5. CASE DeadLetter(w)
    <2>1. pc[w] = "deadLetter" /\ job[w] \in Reply
        BY <1>5 DEF DeadLetter, Queues
    <2>2. CASE w \in open
        BY <1>5, <2>1, <2>2 DEF DeadLetter, Queues
    <2>3. CASE w \notin open
        <3>1. Settle(w, "queue")
            BY <1>5, <2>3 DEF DeadLetter, Settle
        <3>2. QED BY <1>5, <2>1, <2>3, <3>1 DEF DeadLetter, Queues
    <2>4. QED BY <2>2, <2>3
<1>6. CASE DatabaseError(w)
    <2>1. pc[w] \in Point \ {"idle"}
        BY <1>6 DEF DatabaseError
    <2>2. Retry(w) \/ \E p \in Point \ {"idle"} : Goto(w, p) /\ UNCHANGED <<place, deaths>>
        BY <1>6 DEF DatabaseError, Failed
    <2>3. processed \subseteq processed' /\ processed' \subseteq Reply \ Useless
        <3>1. pc[w] = "record" => job[w] \in Reply \ Useless
            BY DEF Queues, PointsHold, PointHolds
        <3>2. processed' = processed \/ (pc[w] = "record" /\ processed' = processed \cup {job[w]})
            BY <1>6 DEF DatabaseError, recordProcessedSagaReply
        <3>3. QED BY <3>1, <3>2 DEF Queues
    <2>4. faults' \in 0..MaxFaults /\ deadLettered' = deadLettered
        BY <1>6, Spent DEF DatabaseError
    <2>5. QED BY <2>1, <2>2, <2>3, <2>4, Counted DEF Retry, Queues
<1>7. CASE BrokerError(w)
    <2>1. pc[w] # "idle" /\ job[w] \in Reply /\ Retry(w)
        BY <1>7 DEF BrokerError, Queues
    <2>2. faults' \in 0..MaxFaults /\ processed' = processed
        BY <1>7, Spent DEF BrokerError
    <2>3. deadLettered \subseteq deadLettered' /\ deadLettered' \subseteq Reply
        BY <1>7, <2>1 DEF BrokerError, Queues
    <2>4. QED BY <2>1, <2>2, <2>3, Counted DEF Retry, Queues
<1>8. CASE LoseChannel(w)
    BY <1>8, Spent DEF LoseChannel, Queues
<1>9. CASE Crash(w)
    <2>1. Settle(w, "queue")
        BY <1>9 DEF Crash, Return, Settle
    <2>2. QED BY <1>9, <2>1, Spent DEF Crash, Queues
<1>10. QED BY <1>1, <1>2, <1>3, <1>4, <1>5, <1>6, <1>7, <1>8, <1>9 DEF Handle

\* The other executions are where they were.
LEMMA OthersStay ==
    ASSUME Queues, NEW w \in Worker, Proceeds(w) \/ Deliver(w), NEW v \in Worker, v # w
    PROVE  pc'[v] = pc[v] /\ job'[v] = job[v]
BY DEF Queues, Proceeds, Deliver, Goto, Settle, End

LEMMA QueuesKept ==
    ASSUME Queues, NEW w \in Worker, Proceeds(w)
    PROVE  Queues'
<1> USE DEF Proceeds, Queues
<1>1. CASE \E p \in Point \ {"idle"} : Goto(w, p) /\ UNCHANGED place
    BY <1>1 DEF Goto
<1>2. CASE \E to \in {"queue", "retry", "acked"} : Settle(w, to)
    <2>1. PICK to \in {"queue", "retry", "acked"} : Settle(w, to)
        BY <1>2
    <2>2. /\ pc' = [pc EXCEPT ![w] = "idle"] /\ job' = [job EXCEPT ![w] = None]
          /\ open' = open \ {w}
          /\ place' = IF w \in open THEN [place EXCEPT ![job[w]] = to] ELSE place
        BY <2>1 DEF Settle, End
    <2>3. job[w] \in Reply
        OBVIOUS
    <2>4. place' \in [Reply -> {"unpublished", "queue", "taken", "retry", "acked"}]
        BY <2>2
    <2>5. /\ pc' \in [Worker -> Point] /\ job' \in [Worker -> Reply \cup {None}]
          /\ \A v \in Worker : pc'[v] # "idle" => job'[v] \in Reply
        BY <2>2 DEF Point
    <2>6. \A v \in open' : pc'[v] # "idle" /\ place'[job'[v]] = "taken"
        BY <2>2, <2>3
    <2>7. \A u, v \in open' : job'[u] = job'[v] => u = v
        BY <2>2
    <2>8. QED BY <2>2, <2>4, <2>5, <2>6, <2>7
<1>3. CASE Return(w) /\ open' = open \ {w} /\ UNCHANGED <<pc, job>>
    BY <1>3 DEF Return
<1>4. QED BY <1>1, <1>2, <1>3

\* A published reply stays published, whoever handles it.
Published == \A m \in Reply : place[m] # "unpublished" => place'[m] # "unpublished"

LEMMA StepsPublish ==
    ASSUME Queues, NEW w \in Worker, Proceeds(w) \/ Deliver(w)
    PROVE  Published
BY DEF Queues, Proceeds, Deliver, Goto, Settle, Return, Published

LEMMA DeliverQueues ==
    ASSUME Queues, NEW w \in Worker, Deliver(w)
    PROVE  Queues'
<1> USE DEF Queues
<1>1. PICK m \in Reply :
          /\ place[m] = "queue"
          /\ \/ place' = [place EXCEPT ![m] = "acked"] /\ UNCHANGED <<pc, job, open>>
             \/ /\ place' = [place EXCEPT ![m] = "taken"]
                /\ job' = [job EXCEPT ![w] = m]
                /\ pc' = [pc EXCEPT ![w] = "look"]
                /\ open' = open \cup {w}
    BY DEF Deliver
<1>2. pc[w] = "idle" /\ UNCHANGED <<deaths, deadLettered, processed, faults>>
    BY DEF Deliver
<1>3. w \notin open /\ \A v \in open : job[v] # m
    BY <1>1, <1>2
<1>4. QED BY <1>1, <1>2, <1>3 DEF Point

\* What no step undoes, tables and queues together.
Grown ==
    /\ Stable
    /\ Published
    /\ processed \subseteq processed' /\ deadLettered \subseteq deadLettered'

LEMMA NextTyped == RepliesInv /\ [Next]_vars => TypeOK' /\ Grown
<1> SUFFICES ASSUME RepliesInv, [Next]_vars PROVE TypeOK' /\ Grown
    OBVIOUS
<1>1. Lifecycle!LifecycleTypeOK' /\ Stable
    BY SagaMoves, LifecycleKeeps, TypeParts DEF RepliesInv
<1>2. Queues /\ PointsHold
    BY TypeParts DEF RepliesInv
<1>3. CASE Others \/ UNCHANGED vars
    BY <1>1, <1>2, <1>3, TypeParts DEF Others, vars, delivery, Queues, Grown, Published
<1>4. ASSUME NEW m \in Reply, Publish(m) \/ Expire(m)
      PROVE  TypeOK' /\ Grown
    <2>1. Queues' /\ Published
        BY <1>2, <1>4 DEF Publish, Expire, Queues, Published
    <2>2. QED BY <1>1, <1>4, <2>1, TypeParts DEF Publish, Expire, Grown
<1>5. ASSUME NEW w \in Worker, Deliver(w)
      PROVE  TypeOK' /\ Grown
    <2>1. UNCHANGED <<processed, deadLettered>>
        BY <1>5 DEF Deliver
    <2>2. QED BY <1>1, <1>2, <1>5, <2>1, DeliverQueues, StepsPublish, TypeParts DEF Grown
<1>6. ASSUME NEW w \in Worker,
             Handle(w) \/ DatabaseError(w) \/ BrokerError(w) \/ LoseChannel(w) \/ Crash(w)
      PROVE  TypeOK' /\ Grown
    <2>1. Proceeds(w)
        BY <1>2, <1>6, Steps
    <2>2. Queues' /\ Published
        BY <1>2, <2>1, QueuesKept, StepsPublish
    <2>3. processed \subseteq processed' /\ deadLettered \subseteq deadLettered'
        BY <2>1 DEF Proceeds
    <2>4. QED BY <1>1, <2>2, <2>3, TypeParts DEF Grown
<1>7. QED BY <1>3, <1>4, <1>5, <1>6 DEF Next

-----------------------------------------------------------------------------
(* Replies and executions.                                                 *)

\* What is published tells the truth, and what is true of a saga stays so.
LEMMA NextTold == RepliesInv /\ [Next]_vars => Told'
<1> SUFFICES ASSUME RepliesInv, [Next]_vars, NEW m \in Reply \ Useless, place'[m] # "unpublished"
             PROVE  state'[SagaOf[m]] \notin Early /\ (m \in Succeeded => SagaOf[m] \in mailed')
    BY DEF Told
<1>1. Stable /\ SagaOf[m] \in Saga
    BY NextTyped, RepliesAssumption DEF Grown
<1>2. CASE place[m] # "unpublished"
    BY <1>1, <1>2 DEF RepliesInv, Told, Stable
<1>3. CASE place[m] = "unpublished"
    <2>1. Queues /\ PointsHold
        BY TypeParts DEF RepliesInv
    <2>2. ASSUME NEW w \in Worker, Proceeds(w) PROVE place'[m] = place[m]
        BY <2>1, <2>2, <1>3 DEF Proceeds, Goto, Settle, Return, Queues
    <2>3. ASSUME NEW w \in Worker, Deliver(w) PROVE place'[m] = place[m]
        BY <2>1, <2>3, <1>3 DEF Deliver, Queues
    <2>4. Publish(m)
        <3>1. \/ Others \/ UNCHANGED vars
              \/ \E n \in Reply : Publish(n) \/ Expire(n)
              \/ \E w \in Worker : Proceeds(w) \/ Deliver(w)
            BY <2>1, Steps DEF Next
        <3>2. \E n \in Reply : Publish(n) \/ Expire(n)
            BY <1>3, <2>2, <2>3, <3>1 DEF Others, delivery, vars
        <3>3. QED BY <1>3, <2>1, <3>2 DEF Publish, Expire, Queues
    <2>5. QED BY <2>4 DEF Publish, sagas, Early
<1>4. QED BY <1>2, <1>3

LEMMA NextGone == RepliesInv /\ [Next]_vars => Gone'
BY NextTyped DEF RepliesInv, Gone, Grown, Stable

\* An execution that does not move knows what it knew.
LEMMA PointKept ==
    ASSUME RepliesInv, Grown, TypeOK', NEW w \in Worker, pc'[w] = pc[w], job'[w] = job[w]
    PROVE  PointHolds(w)'
<1> DEFINE g == SagaOf[job[w]]
<1>1. PointHolds(w) /\ (pc[w] # "idle" => job[w] \in Reply)
    BY TypeParts DEF RepliesInv, PointsHold, Queues
<1>2. pc[w] # "idle" => g \in Saga
    BY <1>1, RepliesAssumption
<1>3. state \in [Saga -> {"STARTED", "NOTIFICATION_PENDING", "COMPENSATING", "COMPLETED",
                          "COMPENSATED", "FAILED", "NONE"}]
    BY TypeParts DEF RepliesInv, Lifecycle!LifecycleTypeOK, Lifecycle!Active, Lifecycle!Terminal
<1>4. pc[w] = "record" => TookEffect(job[w])'
    BY <1>1, <1>2, <1>3 DEF PointHolds, TookEffect, Grown, Stable, Undone
<1>5. pc[w] \in Undoing => state'[g] \in Undone
    BY <1>1, <1>2 DEF PointHolds, Grown, Stable, Undoing
<1>6. pc[w] = "markCompensated" => row'[g] # "pending"
    BY <1>1, <1>2 DEF PointHolds, Grown, Stable, Undoing, Undone
<1>7. QED BY <1>1, <1>4, <1>5, <1>6 DEF PointHolds, Grown, Published

\* The execution that moves knows at its next point what is said of it there.
LEMMA PointReached ==
    ASSUME RepliesInv, Grown, NEW w \in Worker,
           Deliver(w) \/ Handle(w) \/ DatabaseError(w) \/ BrokerError(w) \/ Crash(w)
    PROVE  PointHolds(w)' \/ (pc'[w] = pc[w] /\ job'[w] = job[w])
<1> DEFINE g == SagaOf[job[w]]
<1>1. PointHolds(w) /\ pc \in [Worker -> Point] /\ job \in [Worker -> Reply \cup {None}]
      /\ place \in [Reply -> {"unpublished", "queue", "taken", "retry", "acked"}]
    BY TypeParts DEF RepliesInv, PointsHold, Queues
<1>2. pc[w] # "idle" => job[w] \in Reply /\ g \in Saga
    BY TypeParts, RepliesAssumption DEF RepliesInv, Queues
<1>3. state \in [Saga -> {"STARTED", "NOTIFICATION_PENDING", "COMPENSATING", "COMPLETED",
                          "COMPENSATED", "FAILED", "NONE"}]
      /\ row \in [Saga -> {"none", "pending", "confirmed", "unsubscribed", "deleted"}]
    BY TypeParts DEF RepliesInv, Lifecycle!LifecycleTypeOK, Lifecycle!Active, Lifecycle!Terminal,
       Lifecycle!RowState
<1>4. pc[w] # "idle" => place'[job[w]] # "unpublished"
    BY <1>1, <1>2 DEF PointHolds, Grown, Published
<1>5. pc[w] # "idle" /\ job[w] \notin Useless => state[g] \notin Early
    BY <1>1, <1>2 DEF PointHolds, RepliesInv, Told
<1> USE DEF Undoing, Undone, Early, TookEffect, Step, Goto
<1>6. CASE pc'[w] = "idle"
    BY <1>6 DEF PointHolds
<1>7. CASE Deliver(w)
    BY <1>1, <1>7 DEF Deliver, PointHolds
<1>8. CASE LookUp(w) /\ pc'[w] # "idle"
    <2>1. pc'[w] = "find" /\ job' = job /\ pc[w] = "look"
        BY <1>1, <1>8 DEF LookUp, Ack, Settle, End
    <2>2. QED BY <1>4, <2>1 DEF PointHolds
<1>9. CASE Find(w) /\ pc'[w] # "idle"
    <2>1. /\ job[w] \notin Useless /\ job' = job /\ pc[w] = "find" /\ state' = state
          /\ pc'[w] = IF state[g] # "NOTIFICATION_PENDING" THEN "record"
                      ELSE IF job[w] \in Succeeded THEN "complete" ELSE "claim"
        BY <1>1, <1>9 DEF Find, Ack, Settle, End, sagas
    <2>2. QED BY <1>4, <1>5, <2>1 DEF PointHolds
<1>10. CASE Complete(w)
    <2>1. pc[w] = "complete" /\ pc'[w] = "record" /\ job' = job /\ job[w] \notin Useless
        BY <1>1, <1>10 DEF Complete, PointHolds
    <2>2. TookEffect(job[w])'
        BY <1>2, <1>3, <1>5, <1>10, <2>1 DEF Complete, Completed, SetState, Expecting
    <2>3. QED BY <1>4, <2>1, <2>2 DEF PointHolds
<1>11. CASE Claim(w)
    <2>1. pc[w] = "claim" /\ job' = job /\ job[w] \notin Useless
        BY <1>1, <1>11 DEF Claim, PointHolds
    <2>2. CASE state[g] = "NOTIFICATION_PENDING"
        <3>1. pc'[w] \in {"delete", "markFailed"}
            BY <1>1, <1>11, <2>2 DEF Claim, Expecting
        <3>2. state'[g] = "COMPENSATING"
            BY <1>2, <1>3, <1>11, <2>1, <2>2 DEF Claim, Claimed, SetState, Expecting
        <3>3. QED BY <1>4, <2>1, <3>1, <3>2 DEF PointHolds
    <2>3. CASE state[g] # "NOTIFICATION_PENDING"
        <3>1. pc'[w] = "record" /\ state' = state
            BY <1>1, <1>11, <2>3 DEF Claim, Claimed, SetState, Expecting
        <3>2. QED BY <1>4, <1>5, <2>1, <2>3, <3>1 DEF PointHolds
    <2>4. QED BY <2>2, <2>3
<1>12. CASE Delete(w)
    <2>1. pc[w] = "delete" /\ pc'[w] = "markCompensated" /\ job' = job /\ state' = state
        BY <1>1, <1>12 DEF Delete, Removed
    <2>2. row'[g] # "pending"
        BY <1>2, <1>3, <1>12, <2>1 DEF Delete, Removed
    <2>3. QED BY <1>1, <1>4, <2>1, <2>2 DEF PointHolds
<1>13. CASE Finish(w)
    <2>1. pc[w] \in Undoing /\ pc'[w] = "record" /\ job' = job
        BY <1>1, <1>13 DEF Finish
    <2>2. state[g] \in Undone /\ job[w] \notin Useless
        BY <1>1, <2>1 DEF PointHolds
    <2>3. state'[g] \in Undone
        BY <1>2, <2>1, <2>2 DEF Grown, Stable
    <2>4. QED BY <1>4, <2>1, <2>2, <2>3 DEF PointHolds
<1>14. CASE Record(w)
    <2>1. pc[w] = "record" /\ pc'[w] = "ack" /\ job' = job /\ job[w] \in processed'
        BY <1>1, <1>14 DEF Record, recordProcessedSagaReply
    <2>2. QED BY <1>4, <2>1 DEF PointHolds
<1>15. CASE DeadLetter(w) /\ pc'[w] # "idle"
    <2>1. pc[w] = "deadLetter" /\ pc'[w] = "ack" /\ job' = job /\ job[w] \in deadLettered'
        BY <1>1, <1>15 DEF DeadLetter, End
    <2>2. QED BY <1>4, <2>1 DEF PointHolds
<1>16. CASE DatabaseError(w) /\ pc'[w] # "idle"
    <2>1. CASE pc[w] = "delete"
        <3>1. pc'[w] = "markFailed" /\ job' = job
            BY <1>1, <1>16, <2>1 DEF DatabaseError
        <3>2. state' = state
            BY <1>16, <2>1 DEF DatabaseError, Removed, sagas
        <3>3. QED BY <1>1, <1>4, <2>1, <3>1, <3>2 DEF PointHolds
    <2>2. CASE pc[w] # "delete"
        <3>1. pc'[w] = "deadLetter" /\ job' = job /\ pc[w] # "idle"
            BY <1>1, <1>16, <2>2 DEF DatabaseError, Failed, Retry, Settle, End
        <3>2. QED BY <1>4, <3>1 DEF PointHolds
    <2>3. QED BY <2>1, <2>2
<1>17. CASE Acknowledge(w) \/ BrokerError(w) \/ Crash(w)
    <2>1. pc'[w] = "idle"
        BY <1>1, <1>17 DEF Acknowledge, BrokerError, Crash, Ack, Retry, Settle, End
    <2>2. QED BY <1>6, <2>1
<1>18. QED BY <1>6, <1>7, <1>8, <1>9, <1>10, <1>11, <1>12, <1>13, <1>14, <1>15, <1>16, <1>17
       DEF Handle

LEMMA NextPoints == RepliesInv /\ [Next]_vars => PointsHold'
<1> SUFFICES ASSUME RepliesInv, [Next]_vars, NEW v \in Worker PROVE PointHolds(v)'
    BY DEF PointsHold
<1>1. Grown /\ TypeOK' /\ Queues /\ PointsHold
    BY NextTyped, TypeParts DEF RepliesInv
<1>2. CASE \/ Others \/ UNCHANGED vars \/ (\E m \in Reply : Publish(m) \/ Expire(m))
           \/ \E w \in Worker : LoseChannel(w)
    <2>1. pc' = pc /\ job' = job
        BY <1>2 DEF Others, vars, delivery, Publish, Expire, LoseChannel
    <2>2. QED BY <1>1, <2>1, PointKept
<1>3. ASSUME NEW w \in Worker,
             Deliver(w) \/ Handle(w) \/ DatabaseError(w) \/ BrokerError(w) \/ Crash(w)
      PROVE  PointHolds(v)'
    <2>1. CASE v = w
        BY <1>1, <1>3, <2>1, PointReached, PointKept
    <2>2. CASE v # w
        <3>1. pc'[v] = pc[v] /\ job'[v] = job[v]
            BY <1>1, <1>3, <2>2, Steps, OthersStay
        <3>2. QED BY <1>1, <3>1, PointKept
    <2>3. QED BY <2>1, <2>2
<1>4. QED BY <1>2, <1>3 DEF Next

-----------------------------------------------------------------------------
(* The properties.                                                         *)

\* An execution undoes a saga if it did so before, or found it pending.
LEMMA ClaimsPending ==
    ASSUME RepliesInv, [Next]_vars, NEW v \in Worker, pc'[v] \in Undoing
    PROVE  /\ job'[v] = job[v] /\ pc[v] # "idle"
           /\ pc[v] \in Undoing \/ state[SagaOf[job[v]]] = "NOTIFICATION_PENDING"
           /\ pc[v] \in Undoing \/ \A w \in Worker \ {v} : pc'[w] = pc[w] /\ job'[w] = job[w]
<1>1. Queues /\ PointsHold
    BY TypeParts DEF RepliesInv
<1> USE DEF Undoing
<1>2. CASE \/ Others \/ UNCHANGED vars \/ (\E m \in Reply : Publish(m) \/ Expire(m))
           \/ \E w \in Worker : LoseChannel(w)
    <2>1. pc' = pc /\ job' = job
        BY <1>2 DEF Others, vars, delivery, Publish, Expire, LoseChannel
    <2>2. QED BY <2>1
<1>3. ASSUME NEW w \in Worker, w # v,
             Deliver(w) \/ Handle(w) \/ DatabaseError(w) \/ BrokerError(w) \/ Crash(w)
      PROVE  pc'[v] = pc[v] /\ job'[v] = job[v]
    BY <1>1, <1>3, Steps, OthersStay
<1>4. CASE Deliver(v) \/ Handle(v) \/ DatabaseError(v) \/ BrokerError(v) \/ Crash(v)
    <2>1. \A w \in Worker \ {v} : pc'[w] = pc[w] /\ job'[w] = job[w]
        BY <1>1, <1>4, Steps, OthersStay
    <2>2. job'[v] = job[v] /\ pc[v] # "idle"
        <3>1. ~ Deliver(v)
            BY <1>1 DEF Deliver, Queues
        <3>2. Proceeds(v)
            BY <1>1, <1>4, <3>1, Steps
        <3>3. QED BY <1>1, <3>2 DEF Proceeds, Goto, Settle, End, Queues
    <2>3. CASE Claim(v)
        BY <1>1, <2>1, <2>2, <2>3 DEF Claim, Step, Goto, Expecting, Queues
    <2>4. CASE ~ Claim(v)
        <3>1. pc \in [Worker -> Point]
            BY <1>1 DEF Queues
        <3>2. pc[v] \in Undoing
            BY <1>4, <2>4, <3>1 DEF Deliver, Handle, LookUp, Find, Complete, Delete, Finish, Record,
               Acknowledge, DeadLetter, DatabaseError, BrokerError, Crash, Step, Goto, Failed,
               Ack, Retry, Settle, End
        <3>3. QED BY <2>2, <3>2
    <2>5. QED BY <2>3, <2>4
<1>5. QED BY <1>2, <1>3, <1>4 DEF Next

LEMMA NextOneCompensator == RepliesInv /\ [Next]_vars => OneCompensator'
<1> SUFFICES ASSUME RepliesInv, [Next]_vars, NEW v \in Worker, NEW w \in Worker,
                    pc'[v] \in Undoing, pc'[w] \in Undoing, SagaOf[job'[v]] = SagaOf[job'[w]]
             PROVE  v = w
    BY DEF OneCompensator, Undoing
<1>1. job'[v] = job[v] /\ job'[w] = job[w]
    BY ClaimsPending
<1>2. CASE pc[v] \in Undoing /\ pc[w] \in Undoing
    BY <1>1, <1>2 DEF RepliesInv, OneCompensator, Undoing
<1>3. ASSUME NEW x \in Worker, NEW y \in Worker, x # y, pc'[x] \in Undoing, pc'[y] \in Undoing,
             SagaOf[job[x]] = SagaOf[job[y]], pc[x] \notin Undoing
      PROVE  FALSE
    <2>1. state[SagaOf[job[x]]] = "NOTIFICATION_PENDING" /\ pc'[y] = pc[y]
        BY <1>3, ClaimsPending
    <2>2. state[SagaOf[job[y]]] \in Undone
        BY <1>3, <2>1 DEF RepliesInv, PointsHold, PointHolds
    <2>3. QED BY <1>3, <2>1, <2>2 DEF Undone
<1>4. QED BY <1>1, <1>2, <1>3

\* The execution whose step changes the record or the place of a reply that
\* was delivered.
LEMMA Mover ==
    ASSUME RepliesInv, [Next]_vars, NEW m \in Reply \ Useless,
           (m \in processed' /\ m \notin processed) \/ (place'[m] = "acked" /\ place[m] # "acked")
    PROVE  \E w \in Worker :
              /\ Handle(w) \/ DatabaseError(w) \/ BrokerError(w) \/ LoseChannel(w) \/ Crash(w)
              /\ PointHolds(w)
<1>1. Queues /\ PointsHold
    BY TypeParts DEF RepliesInv
<1>2. ~ (Others \/ UNCHANGED vars)
    BY DEF Others, vars, delivery
<1>3. \A n \in Reply : ~ Publish(n) /\ ~ Expire(n)
    BY <1>1 DEF Publish, Expire, Queues
<1>4. \A w \in Worker : ~ Deliver(w)
    BY <1>1 DEF Deliver, Queues
<1>5. QED BY <1>1, <1>2, <1>3, <1>4 DEF Next, PointsHold

\* A reply is recorded only after it took effect.
LEMMA Recorded ==
    ASSUME RepliesInv, [Next]_vars, NEW m \in Reply \ Useless,
           m \in processed', m \notin processed
    PROVE  TookEffect(m)
<1>1. PICK w \in Worker :
          /\ Handle(w) \/ DatabaseError(w) \/ BrokerError(w) \/ LoseChannel(w) \/ Crash(w)
          /\ PointHolds(w)
    BY Mover
<1>2. pc[w] = "record" /\ m = job[w]
    BY <1>1 DEF Handle, LookUp, Find, Complete, Claim, Delete, Finish, Record, Acknowledge,
       DeadLetter, DatabaseError, BrokerError, LoseChannel, Crash, Step, recordProcessedSagaReply
<1>3. QED BY <1>1, <1>2 DEF PointHolds

\* A reply is acknowledged only if it was recorded or dead-lettered before.
LEMMA Acked ==
    ASSUME RepliesInv, [Next]_vars, NEW m \in Reply \ Useless,
           place'[m] = "acked", place[m] # "acked"
    PROVE  m \in processed \cup deadLettered
<1>1. PICK w \in Worker :
          /\ Handle(w) \/ DatabaseError(w) \/ BrokerError(w) \/ LoseChannel(w) \/ Crash(w)
          /\ PointHolds(w)
    BY Mover
<1>2. Queues
    BY TypeParts DEF RepliesInv
<1>3. Ack(w) /\ (LookUp(w) \/ Find(w) \/ Acknowledge(w))
    <2>1. ~ (Complete(w) \/ Claim(w) \/ Delete(w) \/ Finish(w) \/ Record(w))
        BY DEF Complete, Claim, Delete, Finish, Record, Step
    <2>2. ~ (BrokerError(w) \/ LoseChannel(w) \/ Crash(w))
        BY <1>2 DEF BrokerError, LoseChannel, Crash, Retry, Settle, Return, Queues
    <2>3. ~ DatabaseError(w)
        BY <1>2 DEF DatabaseError, Failed, Retry, Settle, Step, Queues
    <2>4. ~ DeadLetter(w)
        BY <1>2 DEF DeadLetter, Step, Queues
    <2>5. QED BY <1>1, <1>2, <2>1, <2>2, <2>3, <2>4 DEF Handle, LookUp, Find, Acknowledge, Step
<1>4. m = job[w] /\ pc'[w] = "idle"
    BY <1>2, <1>3 DEF Ack, Settle, End, Queues
<1>5. CASE LookUp(w)
    BY <1>2, <1>4, <1>5 DEF LookUp, Step, Goto, Queues
<1>6. CASE Find(w)
    BY <1>2, <1>4, <1>6 DEF Find, Step, Goto, Queues
<1>7. CASE Acknowledge(w)
    BY <1>1, <1>4, <1>7 DEF Acknowledge, PointHolds
<1>8. QED BY <1>3, <1>5, <1>6, <1>7

LEMMA NextDone == RepliesInv /\ [Next]_vars => DoneMeansEffect'
<1> SUFFICES ASSUME RepliesInv, [Next]_vars, NEW m \in Reply \ Useless,
                    m \in processed' \/ (place'[m] = "acked" /\ m \notin deadLettered')
             PROVE  TookEffect(m)'
    BY DEF DoneMeansEffect
<1>1. Grown /\ SagaOf[m] \in Saga
    BY NextTyped, RepliesAssumption
<1>2. TookEffect(m) => TookEffect(m)'
    <2>1. state \in [Saga -> {"STARTED", "NOTIFICATION_PENDING", "COMPENSATING", "COMPLETED",
                              "COMPENSATED", "FAILED", "NONE"}]
        BY TypeParts DEF RepliesInv, Lifecycle!LifecycleTypeOK, Lifecycle!Active, Lifecycle!Terminal
    <2>2. QED BY <1>1, <2>1 DEF TookEffect, Grown, Stable, Undone
<1>3. m \in processed \/ (place[m] = "acked" /\ m \notin deadLettered) => TookEffect(m)
    BY DEF RepliesInv, DoneMeansEffect
<1>4. CASE m \in processed \/ (place[m] = "acked" /\ m \notin deadLettered)
    BY <1>2, <1>3, <1>4
<1>5. CASE ~ (m \in processed \/ (place[m] = "acked" /\ m \notin deadLettered))
    <2>1. CASE m \in processed'
        BY <1>2, <1>5, <2>1, Recorded
    <2>2. CASE m \notin processed'
        <3>1. place'[m] = "acked" /\ m \notin deadLettered /\ place[m] # "acked"
            BY <1>1, <1>5, <2>2 DEF Grown
        <3>2. QED BY <1>5, <3>1, Acked
    <2>3. QED BY <2>1, <2>2
<1>6. QED BY <1>4, <1>5

\* The consumer starts on empty queues.
LEMMA InitReplies == Init => RepliesInv
<1> SUFFICES ASSUME Init PROVE RepliesInv
    OBVIOUS
<1> USE RepliesAssumption DEF Init, Lifecycle!LifecycleInit
<1>1. Queues
    BY DEF Queues, Point
<1>2. Lifecycle!LifecycleTypeOK
    BY DEF Lifecycle!LifecycleTypeOK, Lifecycle!Active, Lifecycle!Terminal, Lifecycle!RowState
<1>3. Told /\ Gone
    BY DEF Told, Gone
<1>4. PointsHold /\ OneCompensator /\ DoneMeansEffect
    BY DEF PointsHold, PointHolds, Undoing, OneCompensator, DoneMeansEffect
<1>5. QED BY <1>1, <1>2, <1>3, <1>4, TypeParts DEF RepliesInv

\* The invariant holds in every reachable state.
THEOREM RepliesInvariance == Spec => []RepliesInv
<1>1. RepliesInv /\ [Next]_vars => RepliesInv'
    BY NextTyped, NextTold, NextGone, NextPoints, NextOneCompensator, NextDone DEF RepliesInv
<1>2. QED BY <1>1, InitReplies, PTL DEF Spec

\* Every variable keeps its type, and a reply is unacked exactly while one
\* execution holds it on an open channel.
THEOREM RepliesTypeCorrect == Spec => []TypeOK
<1>1. RepliesInv => TypeOK
    BY DEF RepliesInv
<1>2. QED BY <1>1, RepliesInvariance, PTL

\* Whatever is redelivered or contradicts itself, one execution at a time
\* undoes a saga.
THEOREM OneCompensatorHolds == Spec => []OneCompensator
<1>1. RepliesInv => OneCompensator
    BY DEF RepliesInv
<1>2. QED BY <1>1, RepliesInvariance, PTL

\* No reply is recorded or acknowledged before it took effect.
THEOREM DoneHasEffect == Spec => []DoneMeansEffect
<1>1. RepliesInv => DoneMeansEffect
    BY DEF RepliesInv
<1>2. QED BY <1>1, RepliesInvariance, PTL

\* The consumer of replies, among any steps of the others, keeps to the
\* contract of the saga.
THEOREM RepliesImplement == Spec => ImplementsLifecycle
<1>1. Init => Lifecycle!LifecycleInit
    BY DEF Init
<1>2. RepliesInv /\ [Next]_vars => [Lifecycle!LifecycleNext]_(Lifecycle!lifecycle)
    BY SagaMoves DEF sagas, Lifecycle!lifecycle
<1>3. QED BY <1>1, <1>2, RepliesInvariance, PTL
      DEF Spec, ImplementsLifecycle, Lifecycle!LifecycleSpec

-----------------------------------------------------------------------------
(* What the contract is good for: whatever keeps to it, alone or together,  *)
(* can be believed.                                                         *)

\* The states of a saga mean what they say: COMPLETED that the mail was
\* delivered, COMPENSATED that no unconfirmed subscription is left; and a
\* subscription is gone only under a saga that set out to undo it.
StatesMean ==
    \A g \in Saga :
        /\ state[g] = "COMPLETED" => g \in mailed
        /\ state[g] = "COMPENSATED" => row[g] # "pending"
        /\ row[g] = "deleted" => state[g] \in {"COMPENSATING", "COMPENSATED", "FAILED"}

\* No step revives a saga that ended, deletes a confirmed subscription or
\* takes back a mail.
NothingIsTakenBack ==
    [][\A g \in Saga :
          /\ state[g] \in Lifecycle!Terminal => state'[g] = state[g]
          /\ row[g] \in {"confirmed", "unsubscribed"} => row'[g] # "deleted"
          /\ row[g] = "deleted" => row'[g] = "deleted"
          /\ g \in mailed => g \in mailed']_(Lifecycle!lifecycle)

\* One step of the contract.
LEMMA ContractStep ==
    ASSUME Lifecycle!LifecycleTypeOK, [Lifecycle!LifecycleNext]_(Lifecycle!lifecycle)
    PROVE  /\ Lifecycle!LifecycleTypeOK'
           /\ StatesMean => StatesMean'
           /\ \A g \in Saga :
                 /\ state[g] \in Lifecycle!Terminal => state'[g] = state[g]
                 /\ row[g] \in {"confirmed", "unsubscribed"} => row'[g] # "deleted"
                 /\ row[g] = "deleted" => row'[g] = "deleted"
                 /\ g \in mailed => g \in mailed'
<1> DEFINE Goal == /\ StatesMean => StatesMean'
                   /\ \A g \in Saga :
                         /\ state[g] \in Lifecycle!Terminal => state'[g] = state[g]
                         /\ row[g] \in {"confirmed", "unsubscribed"} => row'[g] # "deleted"
                         /\ row[g] = "deleted" => row'[g] = "deleted"
                         /\ g \in mailed => g \in mailed'
<1>1. Lifecycle!LifecycleTypeOK'
    BY LifecycleKeeps DEF Lifecycle!lifecycle, sagas
<1> USE DEF Lifecycle!LifecycleTypeOK, Lifecycle!Active, Lifecycle!Terminal, Lifecycle!Move, StatesMean
<1>2. ASSUME NEW h \in Saga, Lifecycle!Begin(h) PROVE Goal
    BY <1>2 DEF Lifecycle!Begin
<1>3. ASSUME NEW h \in Saga, Lifecycle!Dispatch(h) \/ Lifecycle!Complete(h) \/ Lifecycle!Abandon(h)
      PROVE  Goal
    BY <1>3 DEF Lifecycle!Dispatch, Lifecycle!Complete, Lifecycle!Abandon
<1>4. ASSUME NEW h \in Saga, Lifecycle!Undo(h) \/ Lifecycle!Finish(h) PROVE Goal
    BY <1>4 DEF Lifecycle!Undo, Lifecycle!Finish
<1>5. ASSUME NEW h \in Saga, Lifecycle!Remove(h) \/ Lifecycle!Confirm(h) \/ Lifecycle!Unsubscribe(h)
      PROVE  Goal
    BY <1>5 DEF Lifecycle!Remove, Lifecycle!Confirm, Lifecycle!Unsubscribe
<1>6. ASSUME NEW h \in Saga, Lifecycle!Deliver(h) PROVE Goal
    BY <1>6 DEF Lifecycle!Deliver
<1>7. CASE UNCHANGED Lifecycle!lifecycle
    BY <1>7 DEF Lifecycle!lifecycle
<1>8. Goal
    BY <1>2, <1>3, <1>4, <1>5, <1>6, <1>7 DEF Lifecycle!LifecycleNext
<1>9. QED BY <1>1, <1>8

\* Requests and sweeps (SubscriptionSaga) and the consumer of replies each
\* keep to the contract, so that this holds of all of them together.
THEOREM ContractIsSound == Lifecycle!LifecycleSpec => []StatesMean /\ NothingIsTakenBack
<1>1. Lifecycle!LifecycleInit => Lifecycle!LifecycleTypeOK /\ StatesMean
    BY DEF Lifecycle!LifecycleInit, Lifecycle!LifecycleTypeOK, Lifecycle!Active, Lifecycle!Terminal,
           Lifecycle!RowState, StatesMean
<1>2. ASSUME Lifecycle!LifecycleTypeOK, StatesMean, [Lifecycle!LifecycleNext]_(Lifecycle!lifecycle)
      PROVE  (Lifecycle!LifecycleTypeOK /\ StatesMean)'
    BY <1>2, ContractStep
<1>3. Lifecycle!LifecycleTypeOK /\ [Lifecycle!LifecycleNext]_(Lifecycle!lifecycle) =>
          [\A g \in Saga :
              /\ state[g] \in Lifecycle!Terminal => state'[g] = state[g]
              /\ row[g] \in {"confirmed", "unsubscribed"} => row'[g] # "deleted"
              /\ row[g] = "deleted" => row'[g] = "deleted"
              /\ g \in mailed => g \in mailed']_(Lifecycle!lifecycle)
    BY ContractStep
<1>4. QED BY <1>1, <1>2, <1>3, PTL DEF Lifecycle!LifecycleSpec, NothingIsTakenBack

\* A saga whose replies are repeated, late, contradictory or interrupted while
\* requests and sweeps advance it can be believed all the same.
THEOREM RepliesKeepMeaning == Spec => []StatesMean /\ NothingIsTakenBack
BY RepliesImplement, ContractIsSound DEF ImplementsLifecycle


=============================================================================

-------------------------- MODULE SubscriptionSaga --------------------------
(***************************************************************************)
(* POST /subscribe, the subscription-confirmation saga it drives and the   *)
(* recovery job that cleans up after it, over the shared PostgreSQL tables *)
(* subscriptions and sagas.                                                *)
(*                                                                         *)
(* Grain: one step per database statement or transaction and per message   *)
(* of the gRPC call, because every one of them is an await at which other  *)
(* requests, sweeps and replicas run.  Nothing here holds a lock across    *)
(* two statements; what protects a saga is the expected state in           *)
(* updateSagaState and two partial unique indexes.                         *)
(*                                                                         *)
(* Identities: subscription ids are serial, saga ids and tokens random, so *)
(* none is used twice, and the row and the saga a request may insert are   *)
(* named by the request itself.  Saga g is the one request g creates,      *)
(* subscription r the one request r creates, and subject[g] is the         *)
(* subscriptionId in the payload of saga g.                                *)
(***************************************************************************)
EXTENDS Naturals, FiniteSets

CONSTANTS
    Request,     \* the POST /subscribe requests that may arrive
    Sweep,       \* runs of the recovery job that may overlap, on all replicas
    Visitor,     \* clicks on a confirmation link that may be in progress at once
    Pair,        \* (email, repository) pairs
    PairOf,      \* the pair each request asks for
    BatchSize,   \* LIMIT of the recovery query
    Faults,      \* the kinds of fault that may occur
    MaxFaults,   \* bound: how many of them in one behaviour
    None

ASSUME ConstantsAssumption ==
    /\ Request \cap Sweep = {}
    /\ None \notin Request
    /\ PairOf \in [Request -> Pair]
    /\ BatchSize \in Nat \ {0}
    /\ Faults \subseteq {"crash", "db", "reset", "stall"}
    /\ MaxFaults \in Nat

VARIABLES
    \* the database
    subscriptions,   \* the subscription each request inserted, if any
    sagas,           \* the state of the saga each request created
    subject,         \* the subscription a request, and its saga, is about
    overdue,         \* sagas whose updated_at is older than the timeout
    \* the notification service
    call,            \* what became of the mail of each saga
    \* the processes of the notifier
    pc,              \* where each request and sweep is
    job,             \* the saga a sweep works on
    seen,            \* the saga state a compensation read and expects
    batch,           \* the rows, with their state, a sweep has still to treat
    answer,          \* what the gRPC client was told about the call
    found,           \* the subscription a visitor's token was looked up as
    \* observed from outside
    acknowledged,    \* subscriptions someone was told are confirmed
    faults           \* faults so far

tables == <<subscriptions, sagas, subject, overdue>>
sweeps == <<job, batch>>
visits == <<found, acknowledged>>
vars == <<subscriptions, sagas, subject, overdue, call, pc, job, seen, batch,
          answer, found, acknowledged, faults>>

Worker == Request \cup Sweep

activeStates == {"STARTED", "NOTIFICATION_PENDING", "COMPENSATING"}
terminalStates == {"COMPLETED", "COMPENSATED", "FAILED"}
SagaState == activeStates \cup terminalStates \cup {"NONE"}
RowState == {"none", "pending", "confirmed", "unsubscribed", "deleted"}

\* The points of compensateLoadedSubscriptionConfirmationSaga, shared by
\* requests and sweeps: one per statement.
Compensating == {"claim", "delete", "markCompensated", "markFailed"}

\* A request rests before it arrives and when it was answered or abandoned.
Answered == {"ok", "conflict", "error", "gone"}
RequestPoint == {"idle", "insert", "findSaga", "createSaga", "findConcurrent",
                 "dispatch", "awaiting", "complete", "abandon", "load"}
                \cup Compensating \cup Answered
SweepPoint == {"idle", "sweeping"} \cup Compensating

\* Values of the tables and of the variables of each process; a sweep never
\* ends up where only a request can be.
TypeOK ==
    /\ subscriptions \in [Request -> RowState]
    /\ sagas \in [Request -> SagaState]
    /\ subject \in [Request -> Request]
    /\ overdue \subseteq Request
    /\ call \in [Request -> {"none", "inflight", "sent", "failed"}]
    /\ pc \in [Worker -> RequestPoint \cup SweepPoint]
    /\ \A q \in Request : pc[q] \in RequestPoint
    /\ \A s \in Sweep : pc[s] \in SweepPoint
    /\ job \in [Sweep -> Request \cup {None}]
    /\ seen \in [Worker -> SagaState]
    /\ batch \in [Sweep -> [Request -> SagaState]]
    /\ answer \in [Request -> {"none", "ok", "refused", "deadline", "lost"}]
    /\ found \in [Visitor -> Request \cup {None}]
    /\ acknowledged \subseteq Request
    /\ faults \in 0..MaxFaults

Init ==
    /\ subscriptions = [q \in Request |-> "none"]
    /\ sagas = [q \in Request |-> "NONE"]
    /\ subject = [q \in Request |-> q]
    /\ overdue = {}
    /\ call = [q \in Request |-> "none"]
    /\ pc = [w \in Worker |-> "idle"]
    /\ job = [s \in Sweep |-> None]
    /\ seen = [w \in Worker |-> "NONE"]
    /\ batch = [s \in Sweep |-> [q \in Request |-> "NONE"]]
    /\ answer = [q \in Request |-> "none"]
    /\ found = [v \in Visitor |-> None]
    /\ acknowledged = {}
    /\ faults = 0

-----------------------------------------------------------------------------
(* The tables.                                                             *)

\* Subscriptions of a pair that idx_subscriptions_active_unique allows once.
ActiveRows(p) == {r \in Request : PairOf[r] = p /\ subscriptions[r] \in {"pending", "confirmed"}}

\* Sagas of a subscription that idx_sagas_active_subscription_confirmation allows once.
ActiveSagas(r) == {g \in Request : subject[g] = r /\ sagas[g] \in activeStates}

\* A saga inserted with its subscription carries the flag; one that mails the
\* link of an earlier subscription again does not.
shouldCompensateSubscription(g) == subject[g] = g

\* WHERE id = $1 AND state = $7
InState(g, expected) == sagas[g] = expected

\* Every update of a saga sets updated_at = NOW().
updateSagaState(g, expected, to) ==
    IF InState(g, expected)
    THEN sagas' = [sagas EXCEPT ![g] = to] /\ overdue' = overdue \ {g}
    ELSE UNCHANGED <<sagas, overdue>>

createSaga(g) == sagas' = [sagas EXCEPT ![g] = "STARTED"] /\ UNCHANGED overdue

\* DELETE ... WHERE id = $1 AND confirmed = FALSE
mutant_DeleteConfirmed(r) == subscriptions[r] \in {"pending", "confirmed"}
Deletable(r) == subscriptions[r] = "pending"
deletePendingSubscription(r) ==
    subscriptions' = IF Deletable(r) THEN [subscriptions EXCEPT ![r] = "deleted"] ELSE subscriptions

-----------------------------------------------------------------------------
(* Control.                                                                *)

Goto(w, point) == pc' = [pc EXCEPT ![w] = point]

\* The saga a worker advances: its own, or the one the sweep took up.
Target(w) == IF w \in Request THEN w ELSE job[w]

\* A compensation is over for its caller: the request rethrows the original
\* error and is answered with it, the sweep goes on with its batch.
mutant_LeaveBatch(w) ==
    /\ Goto(w, "error")
    /\ seen' = [seen EXCEPT ![w] = "NONE"]
    /\ job' = IF w \in Sweep THEN [job EXCEPT ![w] = None] ELSE job
Leave(w) ==
    /\ Goto(w, IF w \in Request THEN "error" ELSE "sweeping")
    /\ seen' = [seen EXCEPT ![w] = "NONE"]
    /\ job' = IF w \in Sweep THEN [job EXCEPT ![w] = None] ELSE job

Attended(g) ==
    \/ pc[g] \notin {"idle"} \cup Answered
    \/ \E s \in Sweep : job[s] = g

Spend(kind) == kind \in Faults /\ faults < MaxFaults /\ faults' = faults + 1

-----------------------------------------------------------------------------
(* createSubscription and startSubscriptionConfirmationSaga.               *)

\* findActiveSubscription: what it returns is stale from the next step on.
Subscribe(q) ==
    /\ pc[q] = "idle"
    /\ \/ ActiveRows(PairOf[q]) = {} /\ Goto(q, "insert") /\ UNCHANGED subject
       \/ \E r \in ActiveRows(PairOf[q]) :
             \/ subscriptions[r] = "confirmed" /\ Goto(q, "conflict") /\ UNCHANGED subject
             \/ /\ subscriptions[r] = "pending"
                /\ subject' = [subject EXCEPT ![q] = r]
                /\ Goto(q, "findSaga")
    /\ UNCHANGED <<subscriptions, sagas, overdue, call, sweeps, seen, answer, visits, faults>>

\* The transaction that inserts the subscription and its saga.
mutant_InsertUnindexed(q) ==
    /\ subscriptions' = [subscriptions EXCEPT ![q] = "pending"]
    /\ createSaga(q)
InsertBoth(q) ==
    /\ ActiveRows(PairOf[q]) = {}
    /\ subscriptions' = [subscriptions EXCEPT ![q] = "pending"]
    /\ createSaga(q)

\* A unique violation on idx_subscriptions_active_unique is not caught anywhere.
Insert(q) ==
    /\ pc[q] = "insert"
    /\ \/ InsertBoth(q) /\ Goto(q, "dispatch")
       \/ /\ ActiveRows(PairOf[q]) # {}
          /\ Goto(q, "error")
          /\ UNCHANGED <<subscriptions, sagas, overdue>>
    /\ UNCHANGED <<subject, call, sweeps, seen, answer, visits, faults>>

\* An active saga for the subscription means success for this request.
FindActiveSaga(q) ==
    /\ pc[q] = "findSaga"
    /\ Goto(q, IF ActiveSagas(subject[q]) # {} THEN "ok" ELSE "createSaga")
    /\ UNCHANGED <<tables, call, sweeps, seen, answer, visits, faults>>

\* Nothing checks here that the subscription still exists.
InsertSaga(q) ==
    /\ ActiveSagas(subject[q]) = {}
    /\ createSaga(q)
    /\ UNCHANGED subscriptions

CreateSaga(q) ==
    /\ pc[q] = "createSaga"
    /\ \/ InsertSaga(q) /\ Goto(q, "dispatch")
       \/ /\ ActiveSagas(subject[q]) # {}
          /\ Goto(q, "findConcurrent")
          /\ UNCHANGED <<subscriptions, sagas, overdue>>
    /\ UNCHANGED <<subject, call, sweeps, seen, answer, visits, faults>>

\* After a conflict on the index; the saga that caused it may be gone by now.
FindConcurrentSaga(q) ==
    /\ pc[q] = "findConcurrent"
    /\ Goto(q, IF ActiveSagas(subject[q]) # {} THEN "ok" ELSE "error")
    /\ UNCHANGED <<tables, call, sweeps, seen, answer, visits, faults>>

-----------------------------------------------------------------------------
(* dispatchSubscriptionConfirmationSaga and the gRPC call.                 *)

MarkPending(q) == updateSagaState(q, "STARTED", "NOTIFICATION_PENDING") /\ UNCHANGED subscriptions

\* The state is saved first, then the call is made; a saga that was moved on
\* already is left to whoever did that, and the request succeeds.  A process
\* that dies between the two leaves a call that is never served.
Dispatch(q) ==
    /\ pc[q] = "dispatch"
    /\ MarkPending(q)
    /\ IF InState(q, "STARTED")
       THEN Goto(q, "awaiting") /\ call' = [call EXCEPT ![q] = "inflight"]
       ELSE Goto(q, "ok") /\ UNCHANGED call
    /\ UNCHANGED <<subject, sweeps, seen, answer, visits, faults>>

\* The notification service sends the mail or fails to, at its own pace: the
\* handler ignores the client's deadline and its departure.
Serve(g) ==
    /\ call[g] = "inflight"
    /\ \E outcome \in {"sent", "failed"} : call' = [call EXCEPT ![g] = outcome]
    /\ UNCHANGED <<tables, pc, sweeps, seen, answer, visits, faults>>

\* How an answer of the client continues: only a deadline is taken as
\* uncertain (mapGrpcError), every other error compensates.
mutant_DeadlineIsSuccess(reply) == IF reply \in {"ok", "deadline"} THEN "complete" ELSE "load"
mutant_DeadlineIsFailure(reply) == IF reply = "ok" THEN "complete" ELSE "load"
Continuation(reply) ==
    CASE reply = "ok" -> "complete"
      [] reply = "deadline" -> "abandon"
      [] OTHER -> "load"

Receive(q, reply) ==
    /\ pc[q] = "awaiting"
    /\ answer' = [answer EXCEPT ![q] = reply]
    /\ Goto(q, Continuation(reply))
    /\ UNCHANGED <<tables, call, sweeps, seen, visits>>

Reply(q) ==
    /\ \/ call[q] = "sent" /\ Receive(q, "ok")
       \/ call[q] = "failed" /\ Receive(q, "refused")
    /\ UNCHANGED faults

\* The client's own timer; the mail may be sent, failed or still on its way.
mutant_NoDeadline(q) == call[q] # "inflight" /\ Receive(q, "deadline") /\ UNCHANGED faults
DeadlineExceeded(q) == Receive(q, "deadline") /\ UNCHANGED faults

\* The connection breaks, before or after the service did its work.
ConnectionLost(q) == Receive(q, "lost") /\ Spend("reset")

mutant_CompleteAnyState(q) == updateSagaState(q, sagas[q], "COMPLETED") /\ UNCHANGED subscriptions
MarkCompleted(q) ==
    updateSagaState(q, "NOTIFICATION_PENDING", "COMPLETED") /\ UNCHANGED subscriptions

\* completeAfterNotificationDelivery: a saga someone else moved on is an error.
mutant_CompleteUnchecked(q) ==
    /\ pc[q] = "complete"
    /\ MarkCompleted(q)
    /\ Goto(q, "ok")
    /\ UNCHANGED <<subject, call, sweeps, seen, answer, visits, faults>>
Complete(q) ==
    /\ pc[q] = "complete"
    /\ MarkCompleted(q)
    /\ Goto(q, IF sagas'[q] = "COMPLETED" THEN "ok" ELSE "error")
    /\ UNCHANGED <<subject, call, sweeps, seen, answer, visits, faults>>

mutant_AbandonAnyState(q) == updateSagaState(q, sagas[q], "FAILED") /\ UNCHANGED subscriptions
MarkAbandoned(q) ==
    updateSagaState(q, "NOTIFICATION_PENDING", "FAILED") /\ UNCHANGED subscriptions

\* deliveryUncertain: the saga fails and the subscription stays.
Abandon(q) ==
    /\ pc[q] = "abandon"
    /\ MarkAbandoned(q)
    /\ Goto(q, "error")
    /\ UNCHANGED <<subject, call, sweeps, seen, answer, visits, faults>>

-----------------------------------------------------------------------------
(* Compensation, for the saga w works on and the state it saw it in.       *)

\* compensateSubscriptionConfirmationSaga; a sweep starts from its own list.
Load(q) ==
    /\ pc[q] = "load"
    /\ IF InState(q, "NONE") \/ sagas[q] \in terminalStates
       THEN Leave(q)
       ELSE /\ seen' = [seen EXCEPT ![q] = sagas[q]]
            /\ Goto(q, "claim")
            /\ UNCHANGED job
    /\ UNCHANGED <<tables, call, batch, answer, visits, faults>>

MarkCompensating(w) ==
    updateSagaState(Target(w), seen[w], "COMPENSATING") /\ UNCHANGED subscriptions

\* Two workers that both saw COMPENSATING both pass: the claim is no lock.
Claim(w) ==
    /\ pc[w] = "claim"
    /\ MarkCompensating(w)
    /\ IF InState(Target(w), seen[w])
       THEN /\ Goto(w, IF shouldCompensateSubscription(Target(w)) THEN "delete" ELSE "markFailed")
            /\ UNCHANGED <<seen, job>>
       ELSE Leave(w)
    /\ UNCHANGED <<subject, call, batch, answer, visits, faults>>

RemoveRow(w) == deletePendingSubscription(subject[Target(w)]) /\ UNCHANGED <<sagas, overdue>>

\* A confirmed subscription stays, and the saga counts as compensated.
Delete(w) ==
    /\ pc[w] = "delete"
    /\ RemoveRow(w)
    /\ Goto(w, "markCompensated")
    /\ UNCHANGED <<subject, call, sweeps, seen, answer, visits, faults>>

\* The last statement of a compensation writes its verdict.
Verdict(w) == IF pc[w] = "markCompensated" THEN "COMPENSATED" ELSE "FAILED"

MarkEnded(w) ==
    updateSagaState(Target(w), "COMPENSATING", Verdict(w)) /\ UNCHANGED subscriptions

Finish(w) ==
    /\ pc[w] \in {"markCompensated", "markFailed"}
    /\ MarkEnded(w)
    /\ Leave(w)
    /\ UNCHANGED <<subject, call, batch, answer, visits, faults>>

-----------------------------------------------------------------------------
(* The recovery job.                                                       *)

\* updated_at falls behind the timeout.  A saga someone attends to gets that
\* old only if its worker stalls for as long.
Age(g) ==
    /\ sagas[g] \in activeStates
    /\ g \notin overdue
    /\ IF Attended(g) THEN Spend("stall") ELSE UNCHANGED faults
    /\ overdue' = overdue \cup {g}
    /\ UNCHANGED <<subscriptions, sagas, subject, call, pc, sweeps, seen, answer, visits>>

\* What listTimedOutSagas looks for: STARTED is not in its list.
mutant_TimedOutPending == {g \in overdue : sagas[g] = "NOTIFICATION_PENDING"}
TimedOut == {g \in overdue : sagas[g] \in {"NOTIFICATION_PENDING", "COMPENSATING"}}

\* The oldest first, up to the limit: the order by updated_at is left open.
listTimedOutSagas == {T \in SUBSET TimedOut :
    /\ T # {}
    /\ Cardinality(T) <= BatchSize
    /\ T = TimedOut \/ Cardinality(T) = BatchSize}

\* setInterval starts a run whether or not the one before has ended.
StartSweep(s) ==
    /\ pc[s] = "idle"
    /\ \E T \in listTimedOutSagas :
          batch' = [batch EXCEPT ![s] = [g \in Request |-> IF g \in T THEN sagas[g] ELSE "NONE"]]
    /\ Goto(s, "sweeping")
    /\ UNCHANGED <<tables, call, job, seen, answer, visits, faults>>

\* The state expected of a saga is the one listed, however long ago.
TakeUp(s) ==
    /\ pc[s] = "sweeping"
    /\ \E g \in Request :
          /\ batch[s][g] # "NONE"
          /\ job' = [job EXCEPT ![s] = g]
          /\ seen' = [seen EXCEPT ![s] = batch[s][g]]
          /\ batch' = [batch EXCEPT ![s][g] = "NONE"]
    /\ Goto(s, "claim")
    /\ UNCHANGED <<tables, call, answer, visits, faults>>

EndSweep(s) ==
    /\ pc[s] = "sweeping"
    /\ batch[s] = [g \in Request |-> "NONE"]
    /\ Goto(s, "idle")
    /\ UNCHANGED <<tables, call, sweeps, seen, answer, visits, faults>>

-----------------------------------------------------------------------------
(* The subscriber.                                                         *)

\* confirmSubscription, first statement: the token of a delivered mail is
\* looked up; one whose subscription is gone is answered with 404.
LookUpToken(v) ==
    /\ found[v] = None
    /\ \E r \in Request :
          /\ subscriptions[r] \notin {"none", "deleted"}
          /\ \E g \in Request : subject[g] = r /\ call[g] = "sent"
          /\ found' = [found EXCEPT ![v] = r]
    /\ UNCHANGED <<tables, call, pc, sweeps, seen, answer, acknowledged, faults>>

\* An update by id: of a deleted row it changes nothing, and an unsubscribed
\* row stays unsubscribed.
confirmSubscriptionRecord(r) ==
    subscriptions' = IF subscriptions[r] = "pending"
                     THEN [subscriptions EXCEPT ![r] = "confirmed"]
                     ELSE subscriptions

\* confirmSubscription, second statement; its row count is not looked at.
Confirm(v) ==
    /\ found[v] # None
    /\ confirmSubscriptionRecord(found[v])
    /\ acknowledged' = acknowledged \cup {found[v]}
    /\ found' = [found EXCEPT ![v] = None]
    /\ UNCHANGED <<sagas, subject, overdue, call, pc, sweeps, seen, answer, faults>>

\* The unsubscribe link comes with release mails, which only confirmed
\* subscriptions get; the row it names is never deleted.
Unsubscribe(r) ==
    /\ subscriptions[r] = "confirmed"
    /\ subscriptions' = [subscriptions EXCEPT ![r] = "unsubscribed"]
    /\ UNCHANGED <<sagas, subject, overdue, call, pc, sweeps, seen, answer, visits, faults>>

-----------------------------------------------------------------------------
(* Faults.                                                                 *)

\* The effect on the tables of the statement w is about to run.
Statement(w) ==
    \/ pc[w] = "insert" /\ InsertBoth(w)
    \/ pc[w] = "createSaga" /\ InsertSaga(w)
    \/ pc[w] = "dispatch" /\ MarkPending(w)
    \/ pc[w] = "complete" /\ MarkCompleted(w)
    \/ pc[w] = "abandon" /\ MarkAbandoned(w)
    \/ pc[w] = "claim" /\ MarkCompensating(w)
    \/ pc[w] = "delete" /\ RemoveRow(w)
    \/ pc[w] \in {"markCompensated", "markFailed"} /\ MarkEnded(w)

\* Where an exception of that statement leads.  That of the dispatching
\* update is caught and compensates, that of the delete is caught and fails
\* the saga; all others end the compensation or the request.
mutant_CatchDeleteAsDone(w) ==
    \/ pc[w] = "dispatch" /\ Goto(w, "load") /\ UNCHANGED <<seen, job>>
    \/ pc[w] = "delete" /\ Goto(w, "markCompensated") /\ UNCHANGED <<seen, job>>
    \/ pc[w] \notin {"idle", "awaiting", "sweeping", "dispatch", "delete"} \cup Answered /\ Leave(w)
Catch(w) ==
    \/ pc[w] = "dispatch" /\ Goto(w, "load") /\ UNCHANGED <<seen, job>>
    \/ pc[w] = "delete" /\ Goto(w, "markFailed") /\ UNCHANGED <<seen, job>>
    \/ pc[w] \notin {"idle", "awaiting", "sweeping", "dispatch", "delete"} \cup Answered /\ Leave(w)

\* A query fails; the client cannot tell whether it was carried out.
DatabaseError(w) ==
    /\ Spend("db")
    /\ Statement(w) \/ UNCHANGED <<subscriptions, sagas, overdue>>
    /\ Catch(w)
    /\ UNCHANGED <<subject, call, batch, answer, visits>>

\* The same for the update of a confirmation: the visitor gets an error.
ConfirmError(v) ==
    /\ found[v] # None
    /\ Spend("db")
    /\ confirmSubscriptionRecord(found[v]) \/ UNCHANGED subscriptions
    /\ found' = [found EXCEPT ![v] = None]
    /\ UNCHANGED <<sagas, subject, overdue, call, pc, sweeps, seen, answer, acknowledged>>

\* A worker's process dies; a sweep starts afresh with its next process.
Crash(w) ==
    /\ pc[w] \notin {"idle"} \cup Answered
    /\ Spend("crash")
    /\ Goto(w, IF w \in Request THEN "gone" ELSE "idle")
    /\ seen' = [seen EXCEPT ![w] = "NONE"]
    /\ IF w \in Sweep
       THEN /\ job' = [job EXCEPT ![w] = None]
            /\ batch' = [batch EXCEPT ![w] = [g \in Request |-> "NONE"]]
       ELSE UNCHANGED sweeps
    /\ UNCHANGED <<tables, call, answer, visits>>

-----------------------------------------------------------------------------
Compensate(w) == Claim(w) \/ Delete(w) \/ Finish(w)

\* What a request does once it has arrived, on its own.
Proceed(q) ==
    \/ Insert(q) \/ FindActiveSaga(q) \/ CreateSaga(q) \/ FindConcurrentSaga(q)
    \/ Dispatch(q) \/ Reply(q) \/ DeadlineExceeded(q)
    \/ Complete(q) \/ Abandon(q) \/ Load(q) \/ Compensate(q)

Recover(s) == StartSweep(s) \/ TakeUp(s) \/ EndSweep(s) \/ Compensate(s)

Next ==
    \/ \E q \in Request : Subscribe(q) \/ Proceed(q) \/ ConnectionLost(q)
    \/ \E g \in Request : Serve(g) \/ Age(g)
    \/ \E s \in Sweep : Recover(s)
    \/ \E v \in Visitor : LookUpToken(v) \/ Confirm(v) \/ ConfirmError(v)
    \/ \E r \in Request : Unsubscribe(r)
    \/ \E w \in Worker : DatabaseError(w) \/ Crash(w)

Spec == Init /\ [][Next]_vars

\* Node runs what is ready: a request goes on when its query or timer fires,
\* the interval keeps starting sweeps, and time passes for a saga nobody
\* attends to.  Nothing makes the notification service answer, a subscriber
\* click or a fault occur.
Fairness ==
    /\ \A q \in Request : WF_vars(Proceed(q))
    /\ \A s \in Sweep : WF_vars(Recover(s))
    /\ \A g \in Request : WF_vars(Age(g) /\ UNCHANGED faults)

FairSpec == Spec /\ Fairness

-----------------------------------------------------------------------------
(* Safety.                                                                 *)

\* The two partial unique indexes hold with check and insert in separate
\* steps: a pair has one active subscription, a subscription one active saga.
UniqueActive ==
    /\ \A q, r \in Request :
          q \in ActiveRows(PairOf[r]) /\ r \in ActiveRows(PairOf[r]) => q = r
    /\ \A f, g \in Request :
          f \in ActiveSagas(subject[g]) /\ g \in ActiveSagas(subject[g]) => f = g

\* COMPLETED is trustworthy: whatever recovery, retries of the statement or
\* replicas do meanwhile, it is written only for a saga whose mail was
\* delivered (completeAfterNotificationDelivery).
CompletedMeansMailed == \A g \in Request : sagas[g] = "COMPLETED" => call[g] = "sent"

\* COMPENSATED is trustworthy: an unconfirmed subscription never survives the
\* saga that claims to have removed it, even when two sweeps, a request and a
\* subscriber race over it (compensateLoadedSubscriptionConfirmationSaga).
CompensatedMeansSettled ==
    \A g \in Request : sagas[g] = "COMPENSATED" =>
        shouldCompensateSubscription(g) /\ subscriptions[g] # "pending"

\* A subscription is gone only if the saga created with it set out to undo it:
\* none is lost under a saga that is in flight or completed.
LostOnlyByCompensation ==
    \A r \in Request : subscriptions[r] = "deleted" =>
        sagas[r] \in {"COMPENSATING", "COMPENSATED", "FAILED"}

\* The request that created a saga answers 200 only after it delivered the
\* mail and completed that saga, and then its subscription outlives it.
OwnSuccessIsServed ==
    \A q \in Request : pc[q] = "ok" /\ sagas[q] # "NONE" =>
        /\ sagas[q] = "COMPLETED"
        /\ call[q] = "sent"
        /\ subscriptions[q] # "deleted"

\* No step deletes a subscription once it was confirmed, however old the
\* decision to delete it is (AND confirmed = FALSE in the DELETE).
ConfirmedIsNeverDeleted ==
    [][\A r \in Request : subscriptions[r] \in {"confirmed", "unsubscribed"} =>
          subscriptions'[r] # "deleted"]_vars

\* No step leaves a terminal state: a late answer, a stale sweep or a repeated
\* statement cannot revive or reverse a saga.
TerminalIsFinal ==
    [][\A g \in Request : sagas[g] \in terminalStates => sagas'[g] = sagas[g]]_vars

\* Everything together: seen from outside, each step of this program is a move
\* the saga's contract allows, or none.
Contract == INSTANCE SagaLifecycle WITH
    Saga <- Request, row <- subscriptions, state <- sagas,
    mailed <- {g \in Request : call[g] = "sent"}

ImplementsLifecycle == Contract!LifecycleSpec

-----------------------------------------------------------------------------
(* What the documentation promises; each holds only as far as the README   *)
(* of this project says.                                                   *)

\* A request whose gRPC call timed out does not lose its subscription, since
\* the mail may have been sent (README.md, step 5 of the confirmation flow).
TimedOutIsKept ==
    \A q \in Request : answer[q] = "deadline" /\ shouldCompensateSubscription(q) =>
        subscriptions[q] # "deleted"

\* Only a subscription whose delivery definitely failed is compensated: none
\* whose own saga did deliver the mail is deleted.
OnlyUndeliveredIsCompensated ==
    \A q \in Request : call[q] = "sent" => subscriptions[q] # "deleted"

\* Someone who was told "Subscription confirmed successfully" has, or had,
\* a confirmed subscription.
AcknowledgedIsConfirmed ==
    \A r \in acknowledged : subscriptions[r] \in {"confirmed", "unsubscribed"}

\* The three promises hold as long as nothing failed: two requests, a sweep and
\* a visitor that merely interleave break none of them.
PromisesHold ==
    faults = 0 => TimedOutIsKept /\ OnlyUndeliveredIsCompensated /\ AcknowledgedIsConfirmed

-----------------------------------------------------------------------------
(* Liveness.                                                               *)

Settled(g) == sagas[g] \in terminalStates

\* A saga that got as far as its call ends, whatever happened to the request
\* or to the sweeps that took it up (the recovery job).
DispatchedSettles ==
    \A g \in Request :
        sagas[g] \in {"NOTIFICATION_PENDING", "COMPENSATING"} ~> Settled(g)

\* No saga waits for ever, and with it no subscriber whose every further
\* request finds that saga active.
EverySagaSettles == \A g \in Request : sagas[g] \in activeStates ~> Settled(g)

\* Every request is answered, or its process died.
EveryRequestEnds == \A q \in Request : pc[q] # "idle" ~> pc[q] \in Answered
=============================================================================

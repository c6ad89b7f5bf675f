----------------------- MODULE SubscriptionSagaProofs -----------------------
(***************************************************************************)
(* Proofs about SubscriptionSaga, for any number of requests, sweeps,      *)
(* visitors and faults.                                                    *)
(***************************************************************************)
EXTENDS SubscriptionSaga, TLAPS

(***************************************************************************)
(* The inductive invariant.  The safety properties of SubscriptionSaga are *)
(* not inductive: what a worker is about to write depends on what it read  *)
(* some steps ago, so the invariant says, for each point of the program,   *)
(* what is still true of the tables there.                                 *)
(***************************************************************************)

\* A row exists only if the request named by it created it with its saga, and
\* whatever a request or saga is about exists, or did.
RowsAndSubjects ==
    /\ \A r \in Request : subscriptions[r] # "none" => subject[r] = r /\ sagas[r] # "NONE"
    /\ \A g \in Request : subject[g] # g \/ sagas[g] # "NONE" => subscriptions[subject[g]] # "none"

\* No mail is on its way before its saga was dispatched.
DispatchedFirst == \A g \in Request : sagas[g] \in {"NONE", "STARTED"} => call[g] = "none"

TablesHold ==
    /\ RowsAndSubjects
    /\ DispatchedFirst
    /\ UniqueActive
    /\ CompletedMeansMailed
    /\ CompensatedMeansSettled
    /\ LostOnlyByCompensation

\* A request owns its saga until it has dispatched it, and knows the mail was
\* delivered when it goes on to complete it.
RequestHolds(q) ==
    /\ pc[q] \in {"idle", "insert", "conflict", "findSaga", "createSaga", "findConcurrent"}
          => sagas[q] = "NONE"
    /\ pc[q] \in {"idle", "insert"} => subject[q] = q
    /\ pc[q] \in {"findSaga", "createSaga", "findConcurrent"} => subject[q] # q
    /\ pc[q] = "dispatch" => sagas[q] = "STARTED"
    /\ pc[q] = "complete" => call[q] = "sent"
    /\ pc[q] = "claim" => seen[q] \in activeStates
    /\ pc[q] = "ok" /\ sagas[q] # "NONE" => sagas[q] = "COMPLETED"

\* A sweep treats sagas listed as active, never one listed as STARTED.
SweepHolds(s) ==
    /\ \A g \in Request : batch[s][g] \in {"NONE", "NOTIFICATION_PENDING", "COMPENSATING"}
    /\ pc[s] \in Compensating => job[s] \in Request
    /\ pc[s] = "claim" => seen[s] \in {"NOTIFICATION_PENDING", "COMPENSATING"}

\* Past its claim a worker may have been overtaken, but only by an end of the
\* same compensation, and what it deleted stays deleted.
ClaimHolds(w) ==
    /\ pc[w] \in {"delete", "markCompensated", "markFailed"} =>
          sagas[Target(w)] \in {"COMPENSATING", "COMPENSATED", "FAILED"}
    /\ pc[w] \in {"delete", "markCompensated"} => shouldCompensateSubscription(Target(w))
    /\ pc[w] = "markCompensated" => subscriptions[Target(w)] # "pending"

WorkerHolds(w) ==
    /\ w \in Request => RequestHolds(w)
    /\ w \in Sweep => SweepHolds(w)
    /\ ClaimHolds(w)

\* What every reachable state satisfies: each safety property of this module
\* with what its preservation rests on.
IInv ==
    /\ TypeOK
    /\ TablesHold
    /\ \A w \in Worker : WorkerHolds(w)

-----------------------------------------------------------------------------
(* Type correctness.                                                       *)

TablesType ==
    /\ subscriptions \in [Request -> RowState]
    /\ sagas \in [Request -> SagaState]
    /\ overdue \subseteq Request

PointsType ==
    /\ pc \in [Worker -> RequestPoint \cup SweepPoint]
    /\ \A q \in Request : pc[q] \in RequestPoint
    /\ \A s \in Sweep : pc[s] \in SweepPoint

ClaimsType ==
    /\ job \in [Sweep -> Request \cup {None}]
    /\ seen \in [Worker -> SagaState]

RestType ==
    /\ subject \in [Request -> Request]
    /\ call \in [Request -> {"none", "inflight", "sent", "failed"}]
    /\ batch \in [Sweep -> [Request -> SagaState]]
    /\ answer \in [Request -> {"none", "ok", "refused", "deadline", "lost"}]
    /\ found \in [Visitor -> Request \cup {None}]
    /\ acknowledged \subseteq Request
    /\ faults \in 0..MaxFaults

\* TypeOK is the conjunction of its parts, which a step disturbs separately.
LEMMA TypeParts == TypeOK <=> TablesType /\ PointsType /\ ClaimsType /\ RestType
BY DEF TypeOK, TablesType, PointsType, ClaimsType, RestType

\* The same of the state after a step.
LEMMA TypeParts2 == TypeOK' <=> TablesType' /\ PointsType' /\ ClaimsType' /\ RestType'
BY DEF TypeOK, TablesType, PointsType, ClaimsType, RestType

\* The constant sets of values, spelled out.
LEMMA Values ==
    /\ "STARTED" \in SagaState /\ "NOTIFICATION_PENDING" \in SagaState
    /\ "COMPLETED" \in SagaState /\ "COMPENSATING" \in SagaState
    /\ "COMPENSATED" \in SagaState /\ "FAILED" \in SagaState /\ "NONE" \in SagaState
    /\ "pending" \in RowState /\ "deleted" \in RowState /\ "confirmed" \in RowState
    /\ "unsubscribed" \in RowState
    /\ Compensating \subseteq SweepPoint /\ Compensating \subseteq RequestPoint
    /\ Answered \subseteq RequestPoint
    /\ Request \subseteq Worker /\ Sweep \subseteq Worker
BY DEF SagaState, activeStates, terminalStates, RowState, SweepPoint, RequestPoint, Worker

\* Every move of a worker goes to one of its own points.
LEMMA GotoType ==
    ASSUME PointsType, NEW w \in Worker, NEW point, Goto(w, point),
           w \in Request => point \in RequestPoint,
           w \in Sweep => point \in SweepPoint
    PROVE  PointsType'
BY ConstantsAssumption DEF PointsType, Goto, Worker

\* Leaving a compensation leads to a point of the worker and drops its claim.
LEMMA LeaveType ==
    ASSUME PointsType, ClaimsType, NEW w \in Worker, Leave(w)
    PROVE  PointsType' /\ ClaimsType'
<1>1. PointsType'
    <2>1. CASE w \in Request
        <3>1. w \notin Sweep
            BY <2>1, ConstantsAssumption
        <3>2. Goto(w, "error")
            BY <2>1 DEF Leave
        <3>3. QED BY <2>1, <3>1, <3>2, GotoType DEF RequestPoint, Answered
    <2>2. CASE w \notin Request
        <3>1. Goto(w, "sweeping")
            BY <2>2 DEF Leave
        <3>2. QED BY <2>2, <3>1, GotoType DEF SweepPoint
    <2>3. QED BY <2>1, <2>2
<1>2. ClaimsType'
    BY Values DEF ClaimsType, Leave
<1>3. QED BY <1>1, <1>2

\* An update of a saga writes a state, whatever saga it names.
LEMMA UpdateType ==
    ASSUME TablesType, NEW g, NEW expected, NEW to \in SagaState,
           updateSagaState(g, expected, to), UNCHANGED subscriptions
    PROVE  TablesType'
BY DEF TablesType, updateSagaState

\* Every statement leaves well-formed tables.
LEMMA StatementType ==
    ASSUME TablesType, NEW w \in Worker, Statement(w)
    PROVE  TablesType'
<1> USE Values
<1>1. CASE InsertBoth(w)
    BY <1>1 DEF InsertBoth, createSaga, TablesType
<1>2. CASE InsertSaga(w)
    BY <1>2 DEF InsertSaga, createSaga, TablesType
<1>3. CASE MarkPending(w)
    BY <1>3, UpdateType DEF MarkPending
<1>4. CASE MarkCompleted(w)
    BY <1>4, UpdateType DEF MarkCompleted
<1>5. CASE MarkAbandoned(w)
    BY <1>5, UpdateType DEF MarkAbandoned
<1>6. CASE MarkCompensating(w)
    BY <1>6, UpdateType DEF MarkCompensating
<1>7. CASE RemoveRow(w)
    BY <1>7 DEF RemoveRow, deletePendingSubscription, TablesType
<1>8. CASE MarkEnded(w)
    <2>1. Verdict(w) \in SagaState
        BY DEF Verdict
    <2>2. QED BY <1>8, <2>1, UpdateType DEF MarkEnded
<1>9. QED BY <1>1, <1>2, <1>3, <1>4, <1>5, <1>6, <1>7, <1>8 DEF Statement

\* The empty tables and idle workers are well-typed.
LEMMA InitType == Init => TypeOK
BY ConstantsAssumption
   DEF Init, TypeOK, Worker, RowState, SagaState, RequestPoint, SweepPoint

\* Type correctness is inductive by itself: one case per action.
LEMMA NextType == TypeOK /\ [Next]_vars => TypeOK'
<1> SUFFICES ASSUME TypeOK, [Next]_vars PROVE TypeOK'
    OBVIOUS
<1> USE TypeParts, TypeParts2, Values
<1>1. ASSUME NEW q \in Request, Subscribe(q) PROVE TypeOK'
    <2>1. PICK point \in {"insert", "conflict", "findSaga"} : Goto(q, point)
        BY <1>1 DEF Subscribe
    <2>2. PointsType'
        BY <2>1, GotoType, ConstantsAssumption DEF RequestPoint, Answered
    <2>3. subject' \in [Request -> Request]
        BY <1>1 DEF Subscribe, RestType, ActiveRows
    <2>4. QED BY <1>1, <2>2, <2>3 DEF Subscribe, TablesType, ClaimsType, RestType, sweeps, visits
<1>2. ASSUME NEW q \in Request, Insert(q) PROVE TypeOK'
    <2>1. PICK point \in {"dispatch", "error"} : Goto(q, point)
        BY <1>2 DEF Insert
    <2>2. PointsType'
        BY <2>1, GotoType, ConstantsAssumption DEF RequestPoint, Answered
    <2>3. TablesType'
        BY <1>2, StatementType DEF Insert, Statement, TablesType
    <2>4. QED BY <1>2, <2>2, <2>3 DEF Insert, ClaimsType, RestType, sweeps, visits
<1>3. ASSUME NEW q \in Request, FindActiveSaga(q) PROVE TypeOK'
    <2>1. PICK point \in {"ok", "createSaga"} : Goto(q, point)
        BY <1>3 DEF FindActiveSaga
    <2>2. PointsType'
        BY <2>1, GotoType, ConstantsAssumption DEF RequestPoint, Answered
    <2>3. QED BY <1>3, <2>2 DEF FindActiveSaga, TablesType, ClaimsType, RestType, tables, sweeps, visits
<1>4. ASSUME NEW q \in Request, CreateSaga(q) PROVE TypeOK'
    <2>1. PICK point \in {"dispatch", "findConcurrent"} : Goto(q, point)
        BY <1>4 DEF CreateSaga
    <2>2. PointsType'
        BY <2>1, GotoType, ConstantsAssumption DEF RequestPoint
    <2>3. TablesType'
        BY <1>4, StatementType DEF CreateSaga, Statement, TablesType
    <2>4. QED BY <1>4, <2>2, <2>3 DEF CreateSaga, ClaimsType, RestType, sweeps, visits
<1>5. ASSUME NEW q \in Request, FindConcurrentSaga(q) PROVE TypeOK'
    <2>1. PICK point \in {"ok", "error"} : Goto(q, point)
        BY <1>5 DEF FindConcurrentSaga
    <2>2. PointsType'
        BY <2>1, GotoType, ConstantsAssumption DEF RequestPoint, Answered
    <2>3. QED BY <1>5, <2>2 DEF FindConcurrentSaga, TablesType, ClaimsType, RestType, tables, sweeps, visits
<1>6. ASSUME NEW q \in Request, Dispatch(q) PROVE TypeOK'
    <2>1. PICK point \in {"awaiting", "ok"} : Goto(q, point)
        BY <1>6 DEF Dispatch
    <2>2. PointsType'
        BY <2>1, GotoType, ConstantsAssumption DEF RequestPoint, Answered
    <2>3. TablesType'
        BY <1>6, UpdateType DEF Dispatch, MarkPending
    <2>4. call' \in [Request -> {"none", "inflight", "sent", "failed"}]
        BY <1>6 DEF Dispatch, RestType
    <2>5. QED BY <1>6, <2>2, <2>3, <2>4 DEF Dispatch, ClaimsType, RestType, sweeps, visits
<1>7. ASSUME NEW q \in Request, NEW reply \in {"ok", "refused", "deadline", "lost"},
             Receive(q, reply), faults' \in 0..MaxFaults
      PROVE  TypeOK'
    <2>1. Continuation(reply) \in RequestPoint
        BY DEF Continuation, RequestPoint
    <2>2. PointsType'
        BY <1>7, <2>1, GotoType, ConstantsAssumption DEF Receive
    <2>3. QED BY <1>7, <2>2 DEF Receive, TablesType, ClaimsType, RestType, tables, sweeps, visits
<1>8. ASSUME NEW q \in Request, Reply(q) \/ DeadlineExceeded(q) \/ ConnectionLost(q) PROVE TypeOK'
    BY <1>7, <1>8, ConstantsAssumption DEF Reply, DeadlineExceeded, ConnectionLost, Spend, RestType
<1>9. ASSUME NEW q \in Request, Complete(q) \/ Abandon(q) PROVE TypeOK'
    <2>1. PICK point \in {"ok", "error"} : Goto(q, point)
        BY <1>9 DEF Complete, Abandon
    <2>2. PointsType'
        BY <2>1, GotoType, ConstantsAssumption DEF RequestPoint, Answered
    <2>3. TablesType'
        BY <1>9, UpdateType DEF Complete, Abandon, MarkCompleted, MarkAbandoned
    <2>4. QED BY <1>9, <2>2, <2>3 DEF Complete, Abandon, ClaimsType, RestType, sweeps, visits
<1>10. ASSUME NEW q \in Request, Load(q) PROVE TypeOK'
    <2>1. CASE Leave(q)
        BY <1>10, <2>1, LeaveType DEF Load, TablesType, RestType, tables, visits
    <2>2. CASE Goto(q, "claim") /\ seen' = [seen EXCEPT ![q] = sagas[q]] /\ UNCHANGED job
        <3>1. PointsType'
            BY <2>2, GotoType, ConstantsAssumption DEF RequestPoint, Compensating
        <3>2. ClaimsType'
            BY <2>2 DEF ClaimsType, TablesType
        <3>3. QED BY <1>10, <3>1, <3>2 DEF Load, TablesType, RestType, tables, visits
    <2>3. QED BY <1>10, <2>1, <2>2 DEF Load
<1>11. ASSUME NEW w \in Worker, Claim(w) PROVE TypeOK'
    <2>1. TablesType'
        BY <1>11, StatementType DEF Claim, Statement
    <2>2. PointsType' /\ ClaimsType'
        <3>1. CASE Leave(w)
            BY <3>1, LeaveType
        <3>2. CASE ~Leave(w)
            <4>1. PICK point \in {"delete", "markFailed"} : Goto(w, point)
                BY <1>11, <3>2 DEF Claim
            <4>2. PointsType'
                BY <4>1, GotoType DEF Compensating
            <4>3. QED BY <1>11, <3>2, <4>2 DEF Claim, ClaimsType
        <3>3. QED BY <3>1, <3>2
    <2>3. QED BY <1>11, <2>1, <2>2 DEF Claim, RestType, visits
<1>12. ASSUME NEW w \in Worker, Delete(w) PROVE TypeOK'
    <2>1. TablesType'
        BY <1>12, StatementType DEF Delete, Statement
    <2>2. PointsType'
        BY <1>12, GotoType DEF Delete, Compensating
    <2>3. QED BY <1>12, <2>1, <2>2 DEF Delete, ClaimsType, RestType, sweeps, visits
<1>13. ASSUME NEW w \in Worker, Finish(w) PROVE TypeOK'
    <2>1. TablesType'
        BY <1>13, StatementType DEF Finish, Statement
    <2>2. PointsType' /\ ClaimsType'
        BY <1>13, LeaveType DEF Finish
    <2>3. QED BY <1>13, <2>1, <2>2 DEF Finish, RestType, visits
<1>14. ASSUME NEW s \in Sweep, StartSweep(s) PROVE TypeOK'
    <2>1. PointsType'
        BY <1>14, GotoType, ConstantsAssumption DEF StartSweep, SweepPoint
    <2>2. batch' \in [Sweep -> [Request -> SagaState]]
        BY <1>14 DEF StartSweep, RestType, TablesType
    <2>3. QED BY <1>14, <2>1, <2>2 DEF StartSweep, TablesType, ClaimsType, RestType, tables, visits
<1>15. ASSUME NEW s \in Sweep, TakeUp(s) PROVE TypeOK'
    <2>1. PointsType'
        BY <1>15, GotoType, ConstantsAssumption DEF TakeUp, SweepPoint, Compensating
    <2>2. PICK g \in Request :
              /\ job' = [job EXCEPT ![s] = g]
              /\ seen' = [seen EXCEPT ![s] = batch[s][g]]
              /\ batch' = [batch EXCEPT ![s][g] = "NONE"]
        BY <1>15 DEF TakeUp
    <2>3. batch[s] \in [Request -> SagaState] /\ batch[s][g] \in SagaState
        BY DEF RestType
    <2>4. ClaimsType'
        BY <2>2, <2>3 DEF ClaimsType
    <2>5. batch' \in [Sweep -> [Request -> SagaState]]
        BY <2>2, <2>3 DEF RestType
    <2>6. QED BY <1>15, <2>1, <2>4, <2>5 DEF TakeUp, TablesType, RestType, tables, visits
<1>16. ASSUME NEW s \in Sweep, EndSweep(s) PROVE TypeOK'
    <2>1. PointsType'
        BY <1>16, GotoType, ConstantsAssumption DEF EndSweep, SweepPoint
    <2>2. QED BY <1>16, <2>1 DEF EndSweep, TablesType, ClaimsType, RestType, tables, sweeps, visits
<1>17. ASSUME NEW g \in Request, Serve(g) \/ Age(g) \/ Unsubscribe(g) PROVE TypeOK'
    BY <1>17, ConstantsAssumption
       DEF Serve, Age, Unsubscribe, Spend, TablesType, PointsType, ClaimsType, RestType,
           tables, sweeps, visits
<1>18. ASSUME NEW v \in Visitor, LookUpToken(v) \/ Confirm(v) \/ ConfirmError(v) PROVE TypeOK'
    BY <1>18, ConstantsAssumption
       DEF LookUpToken, Confirm, ConfirmError, confirmSubscriptionRecord, Spend,
           TablesType, PointsType, ClaimsType, RestType, tables, sweeps, visits
<1>19. ASSUME NEW w \in Worker, DatabaseError(w) PROVE TypeOK'
    <2>1. TablesType'
        BY <1>19, StatementType DEF DatabaseError, TablesType
    <2>2. PointsType' /\ ClaimsType'
        <3>1. Catch(w)
            BY <1>19 DEF DatabaseError
        <3>2. CASE pc[w] = "dispatch"
            <4>1. Goto(w, "load") /\ UNCHANGED <<seen, job>>
                BY <3>1, <3>2 DEF Catch
            <4>2. w \notin Sweep
                BY <3>2 DEF PointsType, SweepPoint, Compensating
            <4>3. QED BY <4>1, <4>2, GotoType DEF RequestPoint, ClaimsType
        <3>3. CASE pc[w] = "delete"
            <4>1. Goto(w, "markFailed") /\ UNCHANGED <<seen, job>>
                BY <3>1, <3>3 DEF Catch
            <4>2. QED BY <4>1, GotoType DEF Compensating, ClaimsType
        <3>4. CASE pc[w] \notin {"dispatch", "delete"}
            <4>1. Leave(w)
                BY <3>1, <3>4 DEF Catch
            <4>2. QED BY <4>1, LeaveType
        <3>5. QED BY <3>2, <3>3, <3>4
    <2>3. QED BY <1>19, <2>1, <2>2, ConstantsAssumption DEF DatabaseError, Spend, RestType, visits
<1>20. ASSUME NEW w \in Worker, Crash(w) PROVE TypeOK'
    <2>1. PointsType'
        <3>1. CASE w \in Request
            BY <1>20, <3>1, GotoType, ConstantsAssumption DEF Crash, Answered
        <3>2. CASE w \in Sweep
            BY <1>20, <3>2, GotoType, ConstantsAssumption DEF Crash, SweepPoint
        <3>3. QED BY <3>1, <3>2 DEF Worker
    <2>2. ClaimsType' /\ batch' \in [Sweep -> [Request -> SagaState]]
        BY <1>20 DEF Crash, ClaimsType, RestType, sweeps
    <2>3. QED BY <1>20, <2>1, <2>2, ConstantsAssumption DEF Crash, Spend, TablesType, RestType, tables, visits
<1>21. CASE UNCHANGED vars
    BY <1>21 DEF vars, TablesType, PointsType, ClaimsType, RestType
<1>22. QED
    BY <1>1, <1>2, <1>3, <1>4, <1>5, <1>6, <1>8, <1>9, <1>10, <1>11, <1>12, <1>13, <1>14,
       <1>15, <1>16, <1>17, <1>18, <1>19, <1>20, <1>21
       DEF Next, Proceed, Recover, Compensate, Worker

\* Every value stays in its type, for any number of requests, sweeps, visitors
\* and faults; in particular no sweep is led out of its batch by an error.
THEOREM TypeCorrect == Spec => []TypeOK
BY InitType, NextType, PTL DEF Spec

-----------------------------------------------------------------------------
(* What a statement does to the tables, whichever worker runs it and        *)
(* whether or not the worker learns that it was carried out.                *)

\* The moves of saga g that a statement of w can make.
SagaMove(w, g) ==
    \/ /\ g = w /\ pc[w] \in {"insert", "createSaga"}
       /\ sagas[g] = "NONE" /\ sagas'[g] = "STARTED" /\ ActiveSagas(subject[g]) = {}
       /\ pc[w] = "insert" => subscriptions'[g] = "pending"
    \/ g = w /\ pc[w] = "dispatch" /\ sagas[g] = "STARTED" /\ sagas'[g] = "NOTIFICATION_PENDING"
    \/ g = w /\ pc[w] = "complete" /\ sagas[g] = "NOTIFICATION_PENDING" /\ sagas'[g] = "COMPLETED"
    \/ g = w /\ pc[w] = "abandon" /\ sagas[g] = "NOTIFICATION_PENDING" /\ sagas'[g] = "FAILED"
    \/ /\ g = Target(w) /\ pc[w] = "claim"
       /\ sagas[g] \in activeStates /\ sagas'[g] = "COMPENSATING"
       /\ w \in Sweep => sagas[g] # "STARTED"
    \/ /\ g = Target(w) /\ pc[w] \in {"markCompensated", "markFailed"}
       /\ sagas[g] = "COMPENSATING" /\ sagas'[g] = Verdict(w)

\* The moves of subscription r that a statement of w can make.
RowMove(w, r) ==
    \/ /\ r = w /\ pc[w] = "insert" /\ subscriptions[r] = "none" /\ subscriptions'[r] = "pending"
       /\ ActiveRows(PairOf[r]) = {} /\ sagas'[r] = "STARTED"
    \/ /\ r = Target(w) /\ pc[w] = "delete" /\ subscriptions[r] = "pending"
       /\ subscriptions'[r] = "deleted" /\ sagas' = sagas
       /\ sagas[r] \in {"COMPENSATING", "FAILED"} /\ subject[r] = r

Moves(w) ==
    /\ \A g \in Request : sagas'[g] = sagas[g] \/ SagaMove(w, g)
    /\ \A r \in Request : subscriptions'[r] = subscriptions[r] \/ RowMove(w, r)

\* The worker that inserts a subscription inserts its saga with it.
LEMMA InsertMoves ==
    ASSUME IInv, NEW q \in Request, pc[q] = "insert", InsertBoth(q)
    PROVE  Moves(q) /\ subscriptions'[q] = "pending" /\ sagas'[q] = "STARTED"
<1>1. RequestHolds(q) /\ TablesHold /\ TypeOK
    BY Values DEF IInv, WorkerHolds
<1>2. sagas[q] = "NONE" /\ subject[q] = q /\ subscriptions[q] = "none"
    BY <1>1 DEF RequestHolds, TablesHold, RowsAndSubjects, TypeOK, RowState
<1>3. ActiveSagas(subject[q]) = {}
    <2>1. ASSUME NEW g \in Request, subject[g] = q, sagas[g] \in activeStates PROVE FALSE
        BY <1>1, <1>2, <2>1 DEF TablesHold, RowsAndSubjects, activeStates
    <2>2. QED BY <1>2, <2>1 DEF ActiveSagas
<1>4. /\ sagas' = [sagas EXCEPT ![q] = "STARTED"]
      /\ subscriptions' = [subscriptions EXCEPT ![q] = "pending"]
      /\ ActiveRows(PairOf[q]) = {}
    BY DEF InsertBoth, createSaga
<1>5. QED BY <1>1, <1>2, <1>3, <1>4 DEF Moves, SagaMove, RowMove, TypeOK

\* Every statement, failed or not, is one of the moves Moves allows its worker.
LEMMA StatementMoves ==
    ASSUME IInv, NEW w \in Worker, Statement(w)
    PROVE  Moves(w)
<1> USE Values
<1>1. TypeOK /\ TablesHold /\ WorkerHolds(w)
    BY DEF IInv
<1>2. CASE pc[w] = "insert" /\ InsertBoth(w)
    <2>1. w \in Request
        BY <1>1, <1>2 DEF TypeOK, SweepPoint, Compensating, Worker
    <2>2. QED BY <1>2, <2>1, InsertMoves
<1>3. CASE pc[w] = "createSaga" /\ InsertSaga(w)
    <2>1. w \in Request
        BY <1>1, <1>3 DEF TypeOK, SweepPoint, Compensating, Worker
    <2>2. sagas[w] = "NONE"
        BY <1>1, <1>3, <2>1 DEF WorkerHolds, RequestHolds
    <2>3. QED BY <1>1, <1>3, <2>1, <2>2 DEF Moves, SagaMove, InsertSaga, createSaga, TypeOK
<1>4. CASE pc[w] \in {"dispatch", "complete", "abandon"}
           /\ (MarkPending(w) \/ MarkCompleted(w) \/ MarkAbandoned(w)) /\ Statement(w)
    <2>1. w \in Request
        BY <1>1, <1>4 DEF TypeOK, SweepPoint, Compensating, Worker
    <2>2. CASE pc[w] = "dispatch" /\ MarkPending(w)
        BY <1>1, <2>1, <2>2 DEF Moves, SagaMove, MarkPending, updateSagaState, InState, TypeOK
    <2>3. CASE pc[w] = "complete" /\ MarkCompleted(w)
        BY <1>1, <2>1, <2>3 DEF Moves, SagaMove, MarkCompleted, updateSagaState, InState, TypeOK
    <2>4. CASE pc[w] = "abandon" /\ MarkAbandoned(w)
        BY <1>1, <2>1, <2>4 DEF Moves, SagaMove, MarkAbandoned, updateSagaState, InState, TypeOK
    <2>5. QED BY <1>4, <2>2, <2>3, <2>4 DEF Statement
<1>5. CASE pc[w] \in Compensating
    <2>1. Target(w) \in Request
        BY <1>1, <1>5 DEF WorkerHolds, SweepHolds, Target, Worker
    <2>2. CASE pc[w] = "claim" /\ MarkCompensating(w)
        <3>1. seen[w] \in activeStates /\ (w \in Sweep => seen[w] # "STARTED")
            BY <1>1, <2>2 DEF WorkerHolds, RequestHolds, SweepHolds, activeStates, Worker
        <3>2. QED BY <1>1, <2>1, <2>2, <3>1
                  DEF Moves, SagaMove, MarkCompensating, updateSagaState, InState, TypeOK
    <2>3. CASE pc[w] = "delete" /\ RemoveRow(w)
        <3>1. subject[Target(w)] = Target(w)
              /\ sagas[Target(w)] \in {"COMPENSATING", "COMPENSATED", "FAILED"}
            BY <1>1, <2>3 DEF WorkerHolds, ClaimHolds, shouldCompensateSubscription
        <3>2. subscriptions[Target(w)] = "pending" => sagas[Target(w)] \in {"COMPENSATING", "FAILED"}
            BY <1>1, <2>1, <3>1 DEF TablesHold, CompensatedMeansSettled
        <3>3. QED BY <1>1, <2>1, <2>3, <3>1, <3>2
                  DEF Moves, RowMove, RemoveRow, deletePendingSubscription, Deletable, TypeOK
    <2>4. CASE pc[w] \in {"markCompensated", "markFailed"} /\ MarkEnded(w)
        BY <1>1, <2>1, <2>4 DEF Moves, SagaMove, MarkEnded, updateSagaState, InState, TypeOK
    <2>5. QED BY <1>5, <2>2, <2>3, <2>4 DEF Statement, Compensating
<1>6. QED BY <1>2, <1>3, <1>4, <1>5 DEF Statement, Compensating

-----------------------------------------------------------------------------
(* What those moves preserve.                                               *)

\* The calls that change belong to dispatched sagas and do not lose a mail.
CallsMove == \A g \in Request :
    call'[g] = call[g] \/ (sagas'[g] \notin {"NONE", "STARTED"} /\ call[g] # "sent")

\* A move keeps the two partial unique indexes: it adds an active row or saga
\* only where there is none.
LEMMA UniqueActiveKept ==
    ASSUME TypeOK, TypeOK', UniqueActive, NEW w \in Worker, Moves(w), UNCHANGED subject
    PROVE  UniqueActive'
<1>1. ASSUME NEW q \in Request, NEW r \in Request,
             q \in ActiveRows(PairOf[r])', r \in ActiveRows(PairOf[r])'
      PROVE  q = r
    <2>1. /\ PairOf[q] = PairOf[r]
          /\ subscriptions'[q] \in {"pending", "confirmed"}
          /\ subscriptions'[r] \in {"pending", "confirmed"}
        BY <1>1 DEF ActiveRows
    <2>2. ASSUME NEW p \in Request, subscriptions'[p] \in {"pending", "confirmed"}
          PROVE  p \in ActiveRows(PairOf[p]) \/ (p = w /\ ActiveRows(PairOf[p]) = {})
        BY <2>2 DEF Moves, RowMove, ActiveRows
    <2>3. QED BY <2>1, <2>2 DEF UniqueActive
<1>2. ASSUME NEW f \in Request, NEW g \in Request,
             f \in ActiveSagas(subject[g])', g \in ActiveSagas(subject[g])'
      PROVE  f = g
    <2>1. subject[f] = subject[g] /\ sagas'[f] \in activeStates /\ sagas'[g] \in activeStates
        BY <1>2 DEF ActiveSagas
    <2>2. ASSUME NEW p \in Request, sagas'[p] \in activeStates
          PROVE  p \in ActiveSagas(subject[p]) \/ (p = w /\ ActiveSagas(subject[p]) = {})
        BY <2>2 DEF Moves, SagaMove, ActiveSagas, activeStates, Verdict
    <2>3. QED BY <2>1, <2>2 DEF UniqueActive
<1>3. QED BY <1>1, <1>2 DEF UniqueActive, ActiveRows, ActiveSagas

\* A move keeps what the invariant says of the tables.
LEMMA TablesKept ==
    ASSUME IInv, TypeOK', NEW w \in Worker, Moves(w), UNCHANGED subject, CallsMove
    PROVE  TablesHold'
<1>1. TypeOK /\ TablesHold /\ WorkerHolds(w)
    BY DEF IInv
<1>2. RowsAndSubjects'
    <2>1. ASSUME NEW r \in Request, subscriptions'[r] # "none"
          PROVE  subject[r] = r /\ sagas'[r] # "NONE"
        <3>1. CASE subscriptions[r] # "none"
            BY <1>1, <3>1 DEF TablesHold, RowsAndSubjects, Moves, SagaMove, Verdict
        <3>2. CASE subscriptions[r] = "none"
            <4>1. r = w /\ pc[w] = "insert" /\ sagas'[r] = "STARTED"
                BY <2>1, <3>2 DEF Moves, RowMove
            <4>2. QED BY <1>1, <4>1 DEF WorkerHolds, RequestHolds
        <3>3. QED BY <3>1, <3>2
    <2>2. ASSUME NEW g \in Request, subject[g] # g \/ sagas'[g] # "NONE"
          PROVE  subscriptions'[subject[g]] # "none"
        <3>1. subject[g] \in Request
            BY <1>1 DEF TypeOK
        <3>2. CASE subject[g] # g \/ sagas[g] # "NONE"
            BY <1>1, <3>1, <3>2 DEF TablesHold, RowsAndSubjects, Moves, RowMove
        <3>3. CASE subject[g] = g /\ sagas[g] = "NONE"
            <4>1. g = w /\ pc[w] \in {"insert", "createSaga"}
                BY <2>2, <3>3 DEF Moves, SagaMove, activeStates
            <4>2. pc[w] = "insert" /\ sagas'[g] # sagas[g]
                BY <1>1, <2>2, <3>3, <4>1 DEF WorkerHolds, RequestHolds
            <4>3. SagaMove(w, g)
                BY <4>2 DEF Moves
            <4>4. QED BY <3>3, <4>2, <4>3 DEF SagaMove
        <3>4. QED BY <3>2, <3>3
    <2>3. QED BY <2>1, <2>2 DEF RowsAndSubjects
<1>3. DispatchedFirst'
    <2>1. ASSUME NEW g \in Request, sagas'[g] \in {"NONE", "STARTED"} PROVE call'[g] = "none"
        <3>1. sagas[g] \in {"NONE", "STARTED"}
            BY <2>1 DEF Moves, SagaMove, Verdict
        <3>2. call[g] = "none"
            BY <1>1, <3>1 DEF TablesHold, DispatchedFirst
        <3>3. QED BY <2>1, <3>2 DEF CallsMove
    <2>2. QED BY <2>1 DEF DispatchedFirst
<1>4. UniqueActive'
    BY <1>1, UniqueActiveKept DEF TablesHold
<1>5. CompletedMeansMailed'
    <2>1. ASSUME NEW g \in Request, sagas'[g] = "COMPLETED" PROVE call[g] = "sent"
        <3>1. CASE sagas'[g] = sagas[g]
            BY <1>1, <2>1, <3>1 DEF TablesHold, CompletedMeansMailed
        <3>2. CASE SagaMove(w, g)
            BY <1>1, <2>1, <3>2 DEF SagaMove, Verdict, WorkerHolds, RequestHolds
        <3>3. QED BY <3>1, <3>2 DEF Moves
    <2>2. QED BY <2>1 DEF CompletedMeansMailed, CallsMove
<1>6. CompensatedMeansSettled'
    <2>1. ASSUME NEW g \in Request, sagas'[g] = "COMPENSATED"
          PROVE  subject[g] = g /\ subscriptions[g] # "pending" /\ sagas[g] # "NONE"
        <3>1. CASE sagas'[g] = sagas[g]
            BY <1>1, <2>1, <3>1 DEF TablesHold, CompensatedMeansSettled, shouldCompensateSubscription
        <3>2. CASE SagaMove(w, g)
            <4>1. g = Target(w) /\ pc[w] = "markCompensated" /\ sagas[g] = "COMPENSATING"
                BY <2>1, <3>2 DEF SagaMove, Verdict
            <4>2. QED BY <1>1, <4>1 DEF WorkerHolds, ClaimHolds, shouldCompensateSubscription
        <3>3. QED BY <3>1, <3>2 DEF Moves
    <2>2. ASSUME NEW g \in Request, sagas'[g] = "COMPENSATED" PROVE subscriptions'[g] # "pending"
        BY <2>1, <2>2 DEF Moves, RowMove
    <2>3. QED BY <2>1, <2>2 DEF CompensatedMeansSettled, shouldCompensateSubscription
<1>7. LostOnlyByCompensation'
    <2>1. ASSUME NEW r \in Request, subscriptions'[r] = "deleted"
          PROVE  sagas'[r] \in {"COMPENSATING", "COMPENSATED", "FAILED"}
        <3>1. CASE subscriptions'[r] = subscriptions[r]
            <4>1. sagas[r] \in {"COMPENSATING", "COMPENSATED", "FAILED"}
                BY <1>1, <2>1, <3>1 DEF TablesHold, LostOnlyByCompensation
            <4>2. QED BY <4>1 DEF Moves, SagaMove, Verdict
        <3>2. CASE RowMove(w, r)
            BY <2>1, <3>2 DEF RowMove
        <3>3. QED BY <3>1, <3>2 DEF Moves
    <2>2. QED BY <2>1 DEF LostOnlyByCompensation
<1>8. QED BY <1>2, <1>3, <1>4, <1>5, <1>6, <1>7 DEF TablesHold

\* A worker that does not move keeps what it relies on, whatever another does.
LEMMA OthersKept ==
    ASSUME IInv, TypeOK', NEW w \in Worker, Moves(w), UNCHANGED subject, CallsMove,
           NEW u \in Worker, u # w, pc'[u] = pc[u], seen'[u] = seen[u],
           u \in Sweep => job'[u] = job[u] /\ batch'[u] = batch[u]
    PROVE  WorkerHolds(u)'
<1>1. TypeOK /\ TablesHold /\ WorkerHolds(w) /\ WorkerHolds(u)
    BY DEF IInv
<1>2. Target(u)' = Target(u)
    BY DEF Target, Worker
<1>3. ASSUME u \in Request PROVE RequestHolds(u)'
    <2>1. u = Target(w) => w \in Sweep
        BY DEF Target, Worker
    <2>2. sagas[u] = "NONE" => sagas'[u] = "NONE"
        BY <1>3 DEF Moves, SagaMove, activeStates
    <2>3. pc[u] = "dispatch" => sagas'[u] = "STARTED"
        BY <1>1, <1>3, <2>1, ConstantsAssumption DEF Moves, SagaMove, WorkerHolds, RequestHolds
    <2>4. sagas[u] = "COMPLETED" => sagas'[u] = "COMPLETED"
        BY <1>3 DEF Moves, SagaMove, activeStates
    <2>5. sagas'[u] # "NONE" => sagas[u] # "NONE"
        BY <2>2
    <2>6. call[u] = "sent" => call'[u] = "sent"
        BY <1>3 DEF CallsMove
    <2>7. QED BY <1>1, <1>3, <2>2, <2>3, <2>4, <2>5, <2>6 DEF WorkerHolds, RequestHolds
<1>4. ASSUME u \in Sweep PROVE SweepHolds(u)'
    BY <1>1, <1>4 DEF WorkerHolds, SweepHolds
<1>5. ClaimHolds(u)'
    <2>1. CASE pc[u] \in {"delete", "markCompensated", "markFailed"}
        <3>1. Target(u) \in Request
            BY <1>1, <2>1 DEF WorkerHolds, SweepHolds, Compensating, Target, Worker
        <3>2. sagas'[Target(u)] \in {"COMPENSATING", "COMPENSATED", "FAILED"}
            BY <1>1, <2>1, <3>1 DEF WorkerHolds, ClaimHolds, Moves, SagaMove, Verdict
        <3>3. pc[u] = "markCompensated" => subscriptions'[Target(u)] # "pending"
            <4>1. ASSUME pc[u] = "markCompensated", subscriptions'[Target(u)] = "pending" PROVE FALSE
                <5>1. subscriptions[Target(u)] # "pending"
                    BY <1>1, <4>1 DEF WorkerHolds, ClaimHolds
                <5>2. sagas'[Target(u)] = "STARTED"
                    BY <3>1, <4>1, <5>1 DEF Moves, RowMove
                <5>3. QED BY <3>2, <5>2
            <4>2. QED BY <4>1
        <3>4. QED BY <1>1, <1>2, <3>2, <3>3 DEF WorkerHolds, ClaimHolds, shouldCompensateSubscription
    <2>2. CASE pc[u] \notin {"delete", "markCompensated", "markFailed"}
        BY <2>2 DEF ClaimHolds
    <2>3. QED BY <2>1, <2>2
<1>6. QED BY <1>3, <1>4, <1>5 DEF WorkerHolds

-----------------------------------------------------------------------------
(* Each step preserves the invariant.                                       *)

Frame(w) == \A u \in Worker : u # w =>
    /\ pc'[u] = pc[u] /\ seen'[u] = seen[u]
    /\ u \in Sweep => job'[u] = job[u] /\ batch'[u] = batch[u]

\* A step of w keeps the invariant if it is a move, disturbs no other worker
\* and leaves w with what it needs at its next statement.
LEMMA StepKept ==
    ASSUME IInv, TypeOK', NEW w \in Worker, Moves(w), UNCHANGED subject, CallsMove,
           Frame(w), WorkerHolds(w)'
    PROVE  IInv'
<1>1. TablesHold'
    BY TablesKept
<1>2. ASSUME NEW u \in Worker PROVE WorkerHolds(u)'
    <2>1. CASE u = w
        BY <2>1
    <2>2. CASE u # w
        BY <2>2, OthersKept DEF Frame
    <2>3. QED BY <2>1, <2>2
<1>3. QED BY <1>1, <1>2 DEF IInv

\* A step that writes nothing is a move.
LEMMA QuietMoves ==
    ASSUME UNCHANGED <<subscriptions, sagas, call>>, NEW w \in Worker
    PROVE  Moves(w) /\ CallsMove
BY DEF Moves, CallsMove

\* Going to another point disturbs no other worker.
LEMMA GotoFrame ==
    ASSUME TypeOK, NEW w \in Worker, NEW point, Goto(w, point), UNCHANGED <<seen, job, batch>>
    PROVE  Frame(w) /\ pc'[w] = point
BY Values DEF TypeOK, Goto, Frame

\* Leaving a compensation disturbs no other worker.
LEMMA LeaveFrame ==
    ASSUME TypeOK, NEW w \in Worker, Leave(w), UNCHANGED batch
    PROVE  Frame(w) /\ pc'[w] = IF w \in Request THEN "error" ELSE "sweeping"
BY Values, ConstantsAssumption DEF TypeOK, Leave, Goto, Frame

\* Outside a compensation a worker relies on little.
LEMMA LeftHolds ==
    ASSUME IInv, NEW w \in Worker, UNCHANGED batch,
           pc'[w] = IF w \in Request THEN "error" ELSE "sweeping"
    PROVE  WorkerHolds(w)'
<1>1. WorkerHolds(w)
    BY DEF IInv
<1>2. QED BY <1>1, ConstantsAssumption
          DEF WorkerHolds, RequestHolds, SweepHolds, ClaimHolds, Compensating

\* Outside a compensation a request claims nothing.
LEMMA RequestPointHolds ==
    ASSUME NEW q \in Request, pc'[q] \notin Compensating, RequestHolds(q)'
    PROVE  WorkerHolds(q)'
BY ConstantsAssumption DEF WorkerHolds, ClaimHolds, Compensating

\* The arrival of a request keeps the invariant, although it sets the subject
\* of the saga it may create later.
LEMMA SubscribeKept ==
    ASSUME IInv, TypeOK', NEW q \in Request, Subscribe(q)
    PROVE  IInv'
<1>1. /\ TypeOK /\ TablesHold /\ WorkerHolds(q) /\ RequestHolds(q)
      /\ UNCHANGED <<subscriptions, sagas, call, seen, job, batch>>
    BY Values DEF IInv, WorkerHolds, Subscribe, sweeps
<1>2. sagas[q] = "NONE" /\ subject[q] = q /\ pc[q] = "idle" /\ subscriptions[q] = "none"
    BY <1>1 DEF Subscribe, RequestHolds, TablesHold, RowsAndSubjects
<1>3. PICK r \in Request :
          /\ subject' = [subject EXCEPT ![q] = r]
          /\ \/ r = q /\ pc' = [pc EXCEPT ![q] = "insert"]
             \/ r = q /\ pc' = [pc EXCEPT ![q] = "conflict"]
             \/ /\ subscriptions[r] = "pending" /\ r # q
                /\ pc' = [pc EXCEPT ![q] = "findSaga"]
    <2>1. CASE UNCHANGED subject
        <3>1. subject' = [subject EXCEPT ![q] = q]
            BY <1>1, <1>2, <2>1 DEF TypeOK
        <3>2. CASE Goto(q, "insert")
            BY <3>1, <3>2 DEF Goto
        <3>3. CASE Goto(q, "conflict")
            BY <3>1, <3>3 DEF Goto
        <3>4. CASE \E r \in ActiveRows(PairOf[q]) :
                      /\ subscriptions[r] = "pending"
                      /\ subject' = [subject EXCEPT ![q] = r] /\ Goto(q, "findSaga")
            BY <1>2, <3>4 DEF ActiveRows, Goto
        <3>5. QED BY <3>2, <3>3, <3>4 DEF Subscribe
    <2>2. CASE ~UNCHANGED subject
        <3>1. PICK r \in ActiveRows(PairOf[q]) :
                  /\ subscriptions[r] = "pending"
                  /\ subject' = [subject EXCEPT ![q] = r] /\ Goto(q, "findSaga")
            BY <2>2 DEF Subscribe
        <3>2. QED BY <1>2, <3>1 DEF ActiveRows, Goto
    <2>3. QED BY <2>1, <2>2
<1>4. TablesHold'
    <2>1. RowsAndSubjects'
        BY <1>1, <1>2, <1>3 DEF TypeOK, TablesHold, RowsAndSubjects
    <2>2. UniqueActive'
        <3>1. \A f, g \in Request :
                 f \in ActiveSagas(subject[g])' /\ g \in ActiveSagas(subject[g])' => f = g
            <4>1. \A f \in Request : sagas[f] \in activeStates => subject'[f] = subject[f]
                BY <1>1, <1>2, <1>3 DEF TypeOK, activeStates
            <4>2. QED BY <1>1, <4>1 DEF TablesHold, UniqueActive, ActiveSagas
        <3>2. QED BY <1>1, <3>1 DEF TablesHold, UniqueActive, ActiveRows, ActiveSagas
    <2>3. CompensatedMeansSettled'
        BY <1>1, <1>2, <1>3
           DEF TypeOK, TablesHold, CompensatedMeansSettled, shouldCompensateSubscription
    <2>4. QED BY <1>1, <2>1, <2>2, <2>3
              DEF TablesHold, DispatchedFirst, CompletedMeansMailed, LostOnlyByCompensation
<1>5. ASSUME NEW u \in Worker PROVE WorkerHolds(u)'
    <2>1. CASE u = q
        <3>1. pc'[q] \in {"insert", "conflict", "findSaga"} /\ (pc'[q] = "insert" => subject'[q] = q)
              /\ (pc'[q] = "findSaga" => subject'[q] # q)
            BY <1>1, <1>3, Values DEF TypeOK
        <3>2. RequestHolds(q)'
            BY <1>1, <1>2, <3>1 DEF RequestHolds
        <3>3. QED BY <2>1, <3>1, <3>2, RequestPointHolds DEF Compensating
    <2>2. CASE u # q
        <3>1. WorkerHolds(u)
            BY DEF IInv
        <3>2. pc'[u] = pc[u] /\ (u \in Request => subject'[u] = subject[u])
            BY <1>1, <1>3, <2>2, Values DEF TypeOK
        <3>3. pc[u] \in Compensating => Target(u) \in Request
            BY <3>1 DEF WorkerHolds, SweepHolds, Target, Worker
        <3>4. \A g \in Request : sagas[g] # "NONE" => subject'[g] = subject[g]
            BY <1>1, <1>2, <1>3 DEF TypeOK
        <3>5. Target(u)' = Target(u)
            BY <1>1 DEF Target
        <3>6. ClaimHolds(u)'
            BY <1>1, <3>1, <3>2, <3>3, <3>4, <3>5
               DEF WorkerHolds, ClaimHolds, shouldCompensateSubscription, Compensating
        <3>7. QED BY <1>1, <3>1, <3>2, <3>6 DEF WorkerHolds, RequestHolds, SweepHolds
    <2>3. QED BY <2>1, <2>2
<1>6. QED BY <1>4, <1>5 DEF IInv

\* Steps of the service, of subscribers and of time: no saga moves, a row
\* only towards confirmed and unsubscribed.
LEMMA OutsideKept ==
    ASSUME IInv, TypeOK', UNCHANGED <<sagas, subject, pc, seen, job, batch>>, CallsMove,
           \A r \in Request :
               \/ subscriptions'[r] = subscriptions[r]
               \/ subscriptions[r] = "pending" /\ subscriptions'[r] = "confirmed"
               \/ subscriptions[r] = "confirmed" /\ subscriptions'[r] = "unsubscribed"
    PROVE  IInv'
<1>1. TypeOK /\ TablesHold
    BY DEF IInv
<1>2. TablesHold'
    <2>1. RowsAndSubjects'
        BY <1>1 DEF TypeOK, TablesHold, RowsAndSubjects
    <2>2. UniqueActive'
        BY <1>1 DEF TablesHold, UniqueActive, ActiveRows, ActiveSagas
    <2>3. DispatchedFirst' /\ CompletedMeansMailed'
        BY <1>1 DEF TablesHold, DispatchedFirst, CompletedMeansMailed, CallsMove
    <2>4. CompensatedMeansSettled' /\ LostOnlyByCompensation'
        BY <1>1 DEF TablesHold, CompensatedMeansSettled, LostOnlyByCompensation,
                    shouldCompensateSubscription
    <2>5. QED BY <2>1, <2>2, <2>3, <2>4 DEF TablesHold
<1>3. ASSUME NEW u \in Worker PROVE WorkerHolds(u)'
    <2>1. WorkerHolds(u)
        BY DEF IInv
    <2>2. u \in Request => RequestHolds(u)'
        BY <2>1 DEF WorkerHolds, RequestHolds, CallsMove
    <2>3. ClaimHolds(u)'
        <3>1. pc[u] = "markCompensated" => Target(u) \in Request
            BY <2>1 DEF WorkerHolds, SweepHolds, Target, Worker, Compensating
        <3>2. Target(u)' = Target(u)
            BY DEF Target
        <3>3. QED BY <2>1, <3>1, <3>2 DEF WorkerHolds, ClaimHolds, shouldCompensateSubscription
    <2>4. QED BY <2>1, <2>2, <2>3 DEF WorkerHolds, SweepHolds
<1>4. QED BY <1>2, <1>3 DEF IInv

\* The steps of a request outside a compensation.
LEMMA RequestKept ==
    ASSUME IInv, TypeOK', NEW q \in Request,
           \/ Insert(q) \/ FindActiveSaga(q) \/ CreateSaga(q) \/ FindConcurrentSaga(q)
           \/ Dispatch(q) \/ Complete(q) \/ Abandon(q)
    PROVE  IInv'
<1> USE Values
<1>1. TypeOK /\ TablesHold /\ WorkerHolds(q) /\ RequestHolds(q) /\ q \in Worker
    BY DEF IInv, WorkerHolds
<1>2. UNCHANGED <<subject, seen, job, batch>>
    BY DEF Insert, FindActiveSaga, CreateSaga, FindConcurrentSaga, Dispatch, Complete, Abandon,
           tables, sweeps
<1>3. ASSUME NEW point, Goto(q, point), Moves(q), CallsMove, point \notin Compensating,
             pc'[q] = point => RequestHolds(q)'
      PROVE  IInv'
    <2>1. Frame(q) /\ pc'[q] = point
        BY <1>1, <1>2, <1>3, GotoFrame
    <2>2. WorkerHolds(q)'
        BY <1>3, <2>1, RequestPointHolds
    <2>3. QED BY <1>1, <1>2, <1>3, <2>1, <2>2, StepKept
<1>4. CASE Insert(q)
    <2>1. CallsMove
        BY <1>4 DEF Insert, CallsMove
    <2>2. CASE InsertBoth(q) /\ Goto(q, "dispatch")
        <3>1. Moves(q) /\ sagas'[q] = "STARTED"
            BY <1>4, <2>2, InsertMoves DEF Insert
        <3>2. pc'[q] = "dispatch" => RequestHolds(q)'
            BY <3>1 DEF RequestHolds
        <3>3. QED BY <1>3, <2>1, <2>2, <3>1, <3>2 DEF Compensating
    <2>3. CASE Goto(q, "error") /\ UNCHANGED <<subscriptions, sagas, overdue>>
        <3>1. pc'[q] = "error" => RequestHolds(q)'
            BY DEF RequestHolds
        <3>2. Moves(q)
            BY <2>3 DEF Moves
        <3>3. QED BY <1>3, <2>1, <2>3, <3>1, <3>2 DEF Compensating
    <2>4. QED BY <1>4, <2>2, <2>3 DEF Insert
<1>5. CASE FindActiveSaga(q) \/ FindConcurrentSaga(q)
    <2>1. sagas[q] = "NONE" /\ subject[q] # q /\ UNCHANGED <<subscriptions, sagas, call>>
        BY <1>1, <1>5 DEF FindActiveSaga, FindConcurrentSaga, RequestHolds, tables
    <2>2. PICK point \in {"ok", "error", "createSaga"} : Goto(q, point)
        BY <1>5 DEF FindActiveSaga, FindConcurrentSaga
    <2>3. pc'[q] = point => RequestHolds(q)'
        BY <1>2, <2>1, <2>2 DEF RequestHolds
    <2>4. QED BY <1>1, <1>3, <2>1, <2>2, <2>3, QuietMoves DEF Compensating
<1>6. CASE CreateSaga(q)
    <2>1. CallsMove /\ sagas[q] = "NONE" /\ subject[q] # q
        BY <1>1, <1>6 DEF CreateSaga, CallsMove, RequestHolds
    <2>2. CASE InsertSaga(q) /\ Goto(q, "dispatch")
        <3>1. Moves(q)
            BY <1>1, <1>6, <2>2, StatementMoves DEF CreateSaga, Statement
        <3>2. pc'[q] = "dispatch" => RequestHolds(q)'
            BY <1>1, <2>2 DEF RequestHolds, InsertSaga, createSaga, TypeOK
        <3>3. QED BY <1>3, <2>1, <2>2, <3>1, <3>2 DEF Compensating
    <2>3. CASE Goto(q, "findConcurrent") /\ UNCHANGED <<subscriptions, sagas, overdue>>
        <3>1. pc'[q] = "findConcurrent" => RequestHolds(q)'
            BY <1>2, <2>1, <2>3 DEF RequestHolds
        <3>2. Moves(q)
            BY <2>3 DEF Moves
        <3>3. QED BY <1>3, <2>1, <2>3, <3>1, <3>2 DEF Compensating
    <2>4. QED BY <1>6, <2>2, <2>3 DEF CreateSaga
<1>7. CASE Dispatch(q)
    <2>1. pc[q] = "dispatch" /\ sagas[q] = "STARTED" /\ MarkPending(q) /\ InState(q, "STARTED")
        BY <1>1, <1>7 DEF Dispatch, RequestHolds, InState
    <2>2. Goto(q, "awaiting") /\ call' = [call EXCEPT ![q] = "inflight"]
        BY <1>7, <2>1 DEF Dispatch
    <2>3. Moves(q)
        BY <1>1, <2>1, StatementMoves DEF Statement
    <2>4. sagas'[q] = "NOTIFICATION_PENDING"
        BY <1>1, <2>1 DEF MarkPending, updateSagaState, TypeOK
    <2>5. CallsMove
        BY <1>1, <2>1, <2>2, <2>4 DEF CallsMove, TypeOK, TablesHold, DispatchedFirst
    <2>6. pc'[q] = "awaiting" => RequestHolds(q)'
        BY DEF RequestHolds
    <2>7. QED BY <1>3, <2>2, <2>3, <2>5, <2>6 DEF Compensating
<1>8. CASE Complete(q)
    <2>1. Moves(q)
        BY <1>1, <1>8, StatementMoves DEF Complete, Statement
    <2>2. PICK point \in {"ok", "error"} : Goto(q, point) /\ (point = "ok" => sagas'[q] = "COMPLETED")
        BY <1>8 DEF Complete
    <2>3. pc'[q] = point => RequestHolds(q)'
        BY <2>2 DEF RequestHolds
    <2>4. QED BY <1>3, <1>8, <2>1, <2>2, <2>3 DEF Complete, CallsMove, Compensating
<1>9. CASE Abandon(q)
    <2>1. Moves(q)
        BY <1>1, <1>9, StatementMoves DEF Abandon, Statement
    <2>2. pc'[q] = "error" => RequestHolds(q)'
        BY DEF RequestHolds
    <2>3. QED BY <1>3, <1>9, <2>1, <2>2 DEF Abandon, CallsMove, Compensating
<1>10. QED BY <1>4, <1>5, <1>6, <1>7, <1>8, <1>9

\* What the client hears of the call.
LEMMA ReceiveKept ==
    ASSUME IInv, TypeOK', NEW q \in Request, NEW reply, Receive(q, reply),
           reply = "ok" => call[q] = "sent"
    PROVE  IInv'
<1>1. TypeOK /\ WorkerHolds(q) /\ RequestHolds(q) /\ q \in Worker
    BY Values DEF IInv, WorkerHolds
<1>2. UNCHANGED <<subscriptions, sagas, subject, call, seen, job, batch>>
    BY DEF Receive, tables, sweeps
<1>3. PICK point \in {"complete", "abandon", "load"} :
          Goto(q, point) /\ (point = "complete" => call[q] = "sent")
    BY DEF Receive, Continuation
<1>4. Frame(q) /\ pc'[q] = point
    BY <1>1, <1>2, <1>3, GotoFrame
<1>5. RequestHolds(q)'
    BY <1>2, <1>3, <1>4 DEF RequestHolds
<1>6. WorkerHolds(q)'
    BY <1>3, <1>4, <1>5, RequestPointHolds DEF Compensating
<1>7. QED BY <1>1, <1>2, <1>4, <1>6, QuietMoves, StepKept

\* The steps of a compensation.
LEMMA CompensateKept ==
    ASSUME IInv, TypeOK', NEW w \in Worker, Claim(w) \/ Delete(w) \/ Finish(w)
    PROVE  IInv'
<1> USE Values
<1>1. TypeOK /\ TablesHold /\ WorkerHolds(w)
    BY DEF IInv
<1>2. UNCHANGED <<subject, call, batch>> /\ CallsMove
    BY DEF Claim, Delete, Finish, sweeps, CallsMove
<1>3. Moves(w)
    BY StatementMoves DEF Claim, Delete, Finish, Statement
<1>4. Target(w) \in Request
    BY <1>1 DEF Claim, Delete, Finish, WorkerHolds, SweepHolds, Target, Worker, Compensating
<1>5. CASE Leave(w)
    <2>1. Frame(w) /\ pc'[w] = IF w \in Request THEN "error" ELSE "sweeping"
        BY <1>1, <1>2, <1>5, LeaveFrame
    <2>2. WorkerHolds(w)'
        BY <1>2, <2>1, LeftHolds
    <2>3. QED BY <1>2, <1>3, <2>1, <2>2, StepKept
<1>6. CASE Claim(w) /\ InState(Target(w), seen[w])
    <2>1. PICK point \in {"delete", "markFailed"} :
              Goto(w, point) /\ (point = "delete" => shouldCompensateSubscription(Target(w)))
        BY <1>6 DEF Claim
    <2>2. UNCHANGED <<seen, job>> /\ sagas'[Target(w)] = "COMPENSATING"
        BY <1>1, <1>4, <1>6 DEF Claim, MarkCompensating, updateSagaState, TypeOK
    <2>3. Frame(w) /\ pc'[w] = point
        BY <1>1, <1>2, <2>1, <2>2, GotoFrame
    <2>4. Target(w)' = Target(w)
        BY <2>2 DEF Target
    <2>5. ClaimHolds(w)'
        BY <1>2, <2>1, <2>2, <2>3, <2>4 DEF ClaimHolds, shouldCompensateSubscription
    <2>6. WorkerHolds(w)'
        BY <1>1, <1>2, <1>4, <2>1, <2>2, <2>3, <2>5, <1>6
           DEF WorkerHolds, RequestHolds, SweepHolds, Claim, Compensating
    <2>7. QED BY <1>2, <1>3, <2>3, <2>6, StepKept
<1>7. CASE Delete(w)
    <2>1. Goto(w, "markCompensated") /\ UNCHANGED <<seen, job, sagas>> /\ pc[w] = "delete"
        BY <1>7 DEF Delete, RemoveRow, sweeps
    <2>2. Frame(w) /\ pc'[w] = "markCompensated"
        BY <1>1, <1>2, <2>1, GotoFrame
    <2>3. Target(w)' = Target(w)
        BY <2>1 DEF Target
    <2>4. subscriptions'[Target(w)] # "pending"
        <3>1. subject[Target(w)] = Target(w)
            BY <1>1, <2>1 DEF WorkerHolds, ClaimHolds, shouldCompensateSubscription
        <3>2. QED BY <1>1, <1>4, <1>7, <3>1
                  DEF Delete, RemoveRow, deletePendingSubscription, Deletable, TypeOK
    <2>5. ClaimHolds(w)'
        BY <1>1, <1>2, <2>1, <2>2, <2>3, <2>4 DEF WorkerHolds, ClaimHolds, shouldCompensateSubscription
    <2>6. WorkerHolds(w)'
        BY <1>1, <1>2, <2>1, <2>2, <2>5 DEF WorkerHolds, RequestHolds, SweepHolds, Compensating
    <2>7. QED BY <1>2, <1>3, <2>2, <2>6, StepKept
<1>8. QED BY <1>5, <1>6, <1>7 DEF Claim, Finish

\* What compensateSubscriptionConfirmationSaga loads is what it expects.
LEMMA LoadKept ==
    ASSUME IInv, TypeOK', NEW q \in Request, Load(q)
    PROVE  IInv'
<1>1. TypeOK /\ WorkerHolds(q) /\ q \in Worker
    BY Values DEF IInv
<1>2. UNCHANGED <<subscriptions, sagas, subject, call, batch>>
    BY DEF Load, tables
<1>3. CASE Leave(q)
    <2>1. Frame(q) /\ WorkerHolds(q)'
        BY <1>1, <1>2, <1>3, LeaveFrame, LeftHolds
    <2>2. QED BY <1>1, <1>2, <2>1, QuietMoves, StepKept
<1>4. CASE ~(InState(q, "NONE") \/ sagas[q] \in terminalStates)
    <2>1. seen' = [seen EXCEPT ![q] = sagas[q]] /\ Goto(q, "claim") /\ UNCHANGED job
        BY <1>4 DEF Load
    <2>2. Frame(q) /\ pc'[q] = "claim" /\ seen'[q] = sagas[q]
        BY <1>1, <1>2, <2>1 DEF TypeOK, Goto, Frame
    <2>3. sagas[q] \in activeStates
        BY <1>1, <1>4 DEF TypeOK, InState, SagaState
    <2>4. WorkerHolds(q)'
        BY <2>2, <2>3, ConstantsAssumption DEF WorkerHolds, RequestHolds, ClaimHolds
    <2>5. QED BY <1>1, <1>2, <2>2, <2>4, QuietMoves, StepKept
<1>5. QED BY <1>3, <1>4 DEF Load

\* The steps of a sweep outside a compensation.
LEMMA SweepKept ==
    ASSUME IInv, TypeOK', NEW s \in Sweep, StartSweep(s) \/ TakeUp(s) \/ EndSweep(s)
    PROVE  IInv'
<1>1. TypeOK /\ WorkerHolds(s) /\ SweepHolds(s) /\ s \in Worker /\ s \notin Request
    BY Values, ConstantsAssumption DEF IInv, WorkerHolds
<1>2. UNCHANGED <<subscriptions, sagas, subject, call>>
    BY DEF StartSweep, TakeUp, EndSweep, tables
<1>3. Frame(s)
    BY <1>1 DEF StartSweep, TakeUp, EndSweep, Goto, Frame, TypeOK, sweeps
<1>4. CASE StartSweep(s)
    <2>1. pc'[s] = "sweeping"
        BY <1>1, <1>4 DEF StartSweep, Goto, TypeOK
    <2>2. \A g \in Request : batch'[s][g] \in {"NONE", "NOTIFICATION_PENDING", "COMPENSATING"}
        BY <1>1, <1>4 DEF StartSweep, listTimedOutSagas, TimedOut, TypeOK
    <2>3. QED BY <1>1, <1>2, <1>3, <2>1, <2>2, QuietMoves, StepKept
              DEF WorkerHolds, SweepHolds, ClaimHolds, Compensating
<1>5. CASE TakeUp(s)
    <2>1. PICK g \in Request :
              /\ batch[s][g] # "NONE"
              /\ job' = [job EXCEPT ![s] = g]
              /\ seen' = [seen EXCEPT ![s] = batch[s][g]]
              /\ batch' = [batch EXCEPT ![s][g] = "NONE"]
        BY <1>5 DEF TakeUp
    <2>2. pc'[s] = "claim" /\ job'[s] = g /\ seen'[s] = batch[s][g]
        BY <1>1, <1>5, <2>1 DEF TakeUp, Goto, TypeOK
    <2>3. \A f \in Request : batch'[s][f] = IF f = g THEN "NONE" ELSE batch[s][f]
        BY <1>1, <2>1 DEF TypeOK
    <2>4. SweepHolds(s)'
        BY <1>1, <2>1, <2>2, <2>3 DEF SweepHolds
    <2>5. WorkerHolds(s)'
        BY <1>1, <2>2, <2>4 DEF WorkerHolds, ClaimHolds
    <2>6. QED BY <1>1, <1>2, <1>3, <2>5, QuietMoves, StepKept
<1>6. CASE EndSweep(s)
    <2>1. pc'[s] = "idle" /\ UNCHANGED batch
        BY <1>1, <1>6 DEF EndSweep, Goto, TypeOK, sweeps
    <2>2. WorkerHolds(s)'
        BY <1>1, <2>1 DEF WorkerHolds, SweepHolds, ClaimHolds, Compensating
    <2>3. QED BY <1>1, <1>2, <1>3, <2>2, QuietMoves, StepKept
<1>7. QED BY <1>4, <1>5, <1>6

\* A statement that fails on the way back, or on the way out.
LEMMA DatabaseErrorKept ==
    ASSUME IInv, TypeOK', NEW w \in Worker, DatabaseError(w)
    PROVE  IInv'
<1> USE Values
<1>1. TypeOK /\ WorkerHolds(w) /\ Catch(w)
    BY DEF IInv, DatabaseError
<1>2. UNCHANGED <<subject, call, batch>> /\ CallsMove
    BY DEF DatabaseError, CallsMove
<1>3. Moves(w)
    BY StatementMoves DEF DatabaseError, Moves
<1>4. CASE pc[w] = "dispatch"
    <2>1. Goto(w, "load") /\ UNCHANGED <<seen, job>>
        BY <1>1, <1>4 DEF Catch
    <2>2. Frame(w) /\ pc'[w] = "load"
        BY <1>1, <1>2, <2>1, GotoFrame
    <2>3. w \in Request
        BY <1>1, <1>4 DEF TypeOK, SweepPoint, Compensating, Worker
    <2>4. WorkerHolds(w)'
        BY <2>2, <2>3, RequestPointHolds DEF RequestHolds, Compensating
    <2>5. QED BY <1>2, <1>3, <2>2, <2>4, StepKept
<1>5. CASE pc[w] = "delete"
    <2>1. Goto(w, "markFailed") /\ UNCHANGED <<seen, job>>
        BY <1>1, <1>5 DEF Catch
    <2>2. Frame(w) /\ pc'[w] = "markFailed"
        BY <1>1, <1>2, <2>1, GotoFrame
    <2>3. Target(w)' = Target(w) /\ Target(w) \in Request
        BY <1>1, <1>5, <2>1 DEF WorkerHolds, SweepHolds, Target, Worker, Compensating
    <2>4. sagas'[Target(w)] = sagas[Target(w)]
        BY <1>3, <1>5, <2>3 DEF Moves, SagaMove
    <2>5. WorkerHolds(w)'
        BY <1>1, <1>2, <1>5, <2>1, <2>2, <2>3, <2>4
           DEF WorkerHolds, RequestHolds, SweepHolds, ClaimHolds, Compensating
    <2>6. QED BY <1>2, <1>3, <2>2, <2>5, StepKept
<1>6. CASE pc[w] \notin {"dispatch", "delete"}
    <2>1. Leave(w)
        BY <1>1, <1>6 DEF Catch
    <2>2. Frame(w) /\ WorkerHolds(w)'
        BY <1>1, <1>2, <2>1, LeaveFrame, LeftHolds
    <2>3. QED BY <1>2, <1>3, <2>2, StepKept
<1>7. QED BY <1>4, <1>5, <1>6

\* A process that dies keeps the invariant: the tables stay, its claim is gone.
LEMMA CrashKept ==
    ASSUME IInv, TypeOK', NEW w \in Worker, Crash(w)
    PROVE  IInv'
<1>1. TypeOK /\ WorkerHolds(w) /\ UNCHANGED <<subscriptions, sagas, subject, call>>
    BY DEF IInv, Crash, tables
<1>2. Frame(w) /\ pc'[w] = IF w \in Request THEN "gone" ELSE "idle"
    BY <1>1, Values, ConstantsAssumption DEF Crash, Goto, Frame, TypeOK, sweeps
<1>3. \A g \in Request : w \in Sweep => batch'[w][g] = "NONE"
    BY <1>1 DEF Crash, TypeOK
<1>4. WorkerHolds(w)'
    BY <1>1, <1>2, <1>3, ConstantsAssumption
       DEF WorkerHolds, RequestHolds, SweepHolds, ClaimHolds, Compensating
<1>5. QED BY <1>1, <1>2, <1>4, QuietMoves, StepKept

\* The invariant holds of the empty tables.
LEMMA InitInvariant == Init => IInv
<1> SUFFICES ASSUME Init PROVE IInv
    OBVIOUS
<1>1. TypeOK
    BY InitType
<1>2. TablesHold
    BY DEF Init, TablesHold, RowsAndSubjects, DispatchedFirst, UniqueActive, CompletedMeansMailed,
           CompensatedMeansSettled, LostOnlyByCompensation, ActiveRows, ActiveSagas, activeStates
<1>3. ASSUME NEW w \in Worker PROVE WorkerHolds(w)
    BY Values DEF Init, WorkerHolds, RequestHolds, SweepHolds, ClaimHolds, Compensating
<1>4. QED BY <1>1, <1>2, <1>3 DEF IInv

\* The invariant is inductive: one case per action of the program.
LEMMA NextInvariant == IInv /\ [Next]_vars => IInv'
<1> SUFFICES ASSUME IInv, [Next]_vars PROVE IInv'
    OBVIOUS
<1>1. TypeOK /\ TypeOK'
    BY NextType DEF IInv
<1>2. ASSUME NEW q \in Request, Subscribe(q) \/ Proceed(q) \/ ConnectionLost(q) PROVE IInv'
    <2>1. CASE Subscribe(q)
        BY <1>1, <2>1, SubscribeKept
    <2>2. CASE Reply(q) \/ DeadlineExceeded(q) \/ ConnectionLost(q)
        BY <1>1, <2>2, ReceiveKept DEF Reply, DeadlineExceeded, ConnectionLost
    <2>3. CASE Load(q)
        BY <1>1, <2>3, LoadKept
    <2>4. CASE Compensate(q)
        BY <1>1, <2>4, CompensateKept, Values DEF Compensate
    <2>5. QED BY <1>1, <1>2, <2>1, <2>2, <2>3, <2>4, RequestKept DEF Proceed
<1>3. ASSUME NEW g \in Request, Serve(g) \/ Age(g) \/ Unsubscribe(g) PROVE IInv'
    <2>1. CallsMove
        <3>1. CASE Serve(g)
            BY <1>1, <3>1 DEF Serve, CallsMove, IInv, TablesHold, DispatchedFirst, TypeOK, tables
        <3>2. CASE Age(g) \/ Unsubscribe(g)
            BY <3>2 DEF Age, Unsubscribe, CallsMove
        <3>3. QED BY <1>3, <3>1, <3>2
    <2>2. UNCHANGED <<sagas, subject, pc, seen, job, batch>>
        BY <1>3 DEF Serve, Age, Unsubscribe, tables, sweeps
    <2>3. \A r \in Request :
              \/ subscriptions'[r] = subscriptions[r]
              \/ subscriptions[r] = "confirmed" /\ subscriptions'[r] = "unsubscribed"
        BY <1>1, <1>3 DEF Serve, Age, Unsubscribe, tables, TypeOK
    <2>4. QED BY <1>1, <2>1, <2>2, <2>3, OutsideKept
<1>4. ASSUME NEW s \in Sweep, Recover(s) PROVE IInv'
    BY <1>1, <1>4, SweepKept, CompensateKept, Values DEF Recover, Compensate
<1>5. ASSUME NEW v \in Visitor, LookUpToken(v) \/ Confirm(v) \/ ConfirmError(v) PROVE IInv'
    <2>1. CallsMove /\ UNCHANGED <<sagas, subject, pc, seen, job, batch>>
        BY <1>5 DEF LookUpToken, Confirm, ConfirmError, CallsMove, tables, sweeps
    <2>2. \A r \in Request :
              \/ subscriptions'[r] = subscriptions[r]
              \/ subscriptions[r] = "pending" /\ subscriptions'[r] = "confirmed"
        BY <1>1, <1>5 DEF LookUpToken, Confirm, ConfirmError, confirmSubscriptionRecord, tables, TypeOK
    <2>3. QED BY <1>1, <2>1, <2>2, OutsideKept
<1>6. ASSUME NEW w \in Worker, DatabaseError(w) \/ Crash(w) PROVE IInv'
    BY <1>1, <1>6, DatabaseErrorKept, CrashKept
<1>7. CASE UNCHANGED vars
    BY <1>1, <1>7, OutsideKept DEF vars, CallsMove
<1>8. QED BY <1>2, <1>3, <1>4, <1>5, <1>6, <1>7 DEF Next

\* The invariant holds in every reachable state, for any number of requests,
\* sweeps, visitors and faults.
THEOREM Invariance == Spec => []IInv
BY InitInvariant, NextInvariant, PTL DEF Spec

-----------------------------------------------------------------------------
(* The safety properties.                                                   *)

\* The two partial unique indexes protect what they should although check and
\* insert are separate statements.
THEOREM UniqueActiveHolds == Spec => []UniqueActive
BY Invariance, PTL DEF IInv, TablesHold

\* A saga is COMPLETED only if its confirmation mail was delivered.
THEOREM CompletedIsMailed == Spec => []CompletedMeansMailed
BY Invariance, PTL DEF IInv, TablesHold

\* A COMPENSATED saga leaves no unconfirmed subscription, whatever overlaps.
THEOREM CompensatedIsSettled == Spec => []CompensatedMeansSettled
BY Invariance, PTL DEF IInv, TablesHold

\* A subscription is deleted only by the compensation of its own saga.
THEOREM LostOnlyByOwnCompensation == Spec => []LostOnlyByCompensation
BY Invariance, PTL DEF IInv, TablesHold

\* A request that answers 200 for its own saga delivered the mail and its
\* subscription is there to be confirmed.
THEOREM OwnSuccessServed == Spec => []OwnSuccessIsServed
<1>1. IInv => OwnSuccessIsServed
    <2> SUFFICES ASSUME IInv, NEW q \in Request, pc[q] = "ok", sagas[q] # "NONE"
                 PROVE  sagas[q] = "COMPLETED" /\ call[q] = "sent" /\ subscriptions[q] # "deleted"
        BY DEF OwnSuccessIsServed
    <2>1. sagas[q] = "COMPLETED"
        BY Values DEF IInv, WorkerHolds, RequestHolds
    <2>2. QED BY <2>1 DEF IInv, TablesHold, CompletedMeansMailed, LostOnlyByCompensation
<1>2. QED BY <1>1, Invariance, PTL

\* What a step may do to the tables: a move of one worker, or of the
\* subscriber on a single subscription.
LEMMA StepMoves ==
    ASSUME IInv, [Next]_vars
    PROVE  \/ \E w \in Worker : Moves(w)
           \/ /\ UNCHANGED sagas
              /\ \A r \in Request :
                    \/ subscriptions'[r] = subscriptions[r]
                    \/ subscriptions[r] = "pending" /\ subscriptions'[r] = "confirmed"
                    \/ subscriptions[r] = "confirmed" /\ subscriptions'[r] = "unsubscribed"
<1>1. TypeOK
    BY DEF IInv
<1>2. ASSUME NEW w \in Worker, Statement(w) \/ UNCHANGED <<subscriptions, sagas>>
      PROVE  \E u \in Worker : Moves(u)
    BY <1>2, StatementMoves DEF Moves
<1>3. ASSUME NEW q \in Request, Subscribe(q) \/ Proceed(q) \/ ConnectionLost(q)
      PROVE  Statement(q) \/ UNCHANGED <<subscriptions, sagas>>
    BY <1>3 DEF Subscribe, Proceed, Insert, FindActiveSaga, CreateSaga, FindConcurrentSaga, Dispatch,
                Reply, DeadlineExceeded, ConnectionLost, Receive, Complete, Abandon, Load, Compensate,
                Claim, Delete, Finish, Statement, tables
<1>4. ASSUME NEW s \in Sweep, Recover(s)
      PROVE  Statement(s) \/ UNCHANGED <<subscriptions, sagas>>
    BY <1>4 DEF Recover, StartSweep, TakeUp, EndSweep, Compensate, Claim, Delete, Finish,
                Statement, tables
<1>5. ASSUME NEW w \in Worker, DatabaseError(w) \/ Crash(w)
      PROVE  Statement(w) \/ UNCHANGED <<subscriptions, sagas>>
    BY <1>5 DEF DatabaseError, Crash, tables
<1>6. ASSUME \/ \E g \in Request : Serve(g) \/ Age(g) \/ Unsubscribe(g)
             \/ \E v \in Visitor : LookUpToken(v) \/ Confirm(v) \/ ConfirmError(v)
             \/ UNCHANGED vars
      PROVE  /\ UNCHANGED sagas
             /\ \A r \in Request :
                    \/ subscriptions'[r] = subscriptions[r]
                    \/ subscriptions[r] = "pending" /\ subscriptions'[r] = "confirmed"
                    \/ subscriptions[r] = "confirmed" /\ subscriptions'[r] = "unsubscribed"
    BY <1>1, <1>6 DEF Serve, Age, Unsubscribe, LookUpToken, Confirm, ConfirmError,
                      confirmSubscriptionRecord, tables, vars, TypeOK
<1>7. QED BY <1>2, <1>3, <1>4, <1>5, <1>6, Values DEF Next

\* No step takes a saga out of a terminal state.
THEOREM TerminalStatesAreFinal == Spec => TerminalIsFinal
<1>1. IInv /\ [Next]_vars =>
          [\A g \in Request : sagas[g] \in terminalStates => sagas'[g] = sagas[g]]_vars
    <2> SUFFICES ASSUME IInv, [Next]_vars, NEW g \in Request, sagas[g] \in terminalStates
                 PROVE  sagas'[g] = sagas[g]
        OBVIOUS
    <2>1. ASSUME NEW w \in Worker, Moves(w) PROVE sagas'[g] = sagas[g]
        BY <2>1 DEF Moves, SagaMove, terminalStates, activeStates
    <2>2. QED BY <2>1, StepMoves
<1>2. QED BY <1>1, Invariance, PTL DEF Spec, TerminalIsFinal

\* No step deletes a subscription that was confirmed.
THEOREM ConfirmedIsKept == Spec => ConfirmedIsNeverDeleted
<1>1. IInv /\ [Next]_vars =>
          [\A r \in Request : subscriptions[r] \in {"confirmed", "unsubscribed"} =>
              subscriptions'[r] # "deleted"]_vars
    <2> SUFFICES ASSUME IInv, [Next]_vars, NEW r \in Request,
                        subscriptions[r] \in {"confirmed", "unsubscribed"}
                 PROVE  subscriptions'[r] # "deleted"
        OBVIOUS
    <2>1. ASSUME NEW w \in Worker, Moves(w) PROVE subscriptions'[r] # "deleted"
        BY <2>1 DEF Moves, RowMove
    <2>2. QED BY <2>1, StepMoves
<1>2. QED BY <1>1, Invariance, PTL DEF Spec, ConfirmedIsNeverDeleted

-----------------------------------------------------------------------------
(* The contract: SubscriptionSaga implements SagaLifecycle.                 *)

Mailed == {g \in Request : call[g] = "sent"}

\* A statement is one move of the contract, or changes nothing it speaks of.
LEMMA StatementImplements ==
    ASSUME IInv, NEW w \in Worker, Statement(w), Mailed' = Mailed
    PROVE  Contract!LifecycleNext \/ UNCHANGED <<subscriptions, sagas>>
<1> USE Values
<1>1. TypeOK /\ TablesHold /\ WorkerHolds(w) /\ UNCHANGED {g \in Request : call[g] = "sent"}
    BY DEF IInv, Mailed
<1> USE DEF Contract!LifecycleNext, Contract!Move, Contract!Active
<1>2. CASE pc[w] = "insert" /\ InsertBoth(w)
    <2>1. w \in Request
        BY <1>1, <1>2 DEF TypeOK, SweepPoint, Compensating, Worker
    <2>2. sagas[w] = "NONE" /\ subscriptions[w] = "none"
        BY <1>1, <1>2, <2>1
           DEF WorkerHolds, RequestHolds, TablesHold, RowsAndSubjects
    <2>3. Contract!Begin(w)
        BY <1>1, <1>2, <2>2 DEF Contract!Begin, InsertBoth, createSaga
    <2>4. QED BY <2>1, <2>3
<1>3. CASE pc[w] = "createSaga" /\ InsertSaga(w)
    <2>1. w \in Request
        BY <1>1, <1>3 DEF TypeOK, SweepPoint, Compensating, Worker
    <2>2. sagas[w] = "NONE"
        BY <1>1, <1>3, <2>1 DEF WorkerHolds, RequestHolds
    <2>3. Contract!Begin(w)
        BY <1>1, <1>3, <2>2 DEF Contract!Begin, InsertSaga, createSaga
    <2>4. QED BY <2>1, <2>3
<1>4. CASE pc[w] = "dispatch" /\ MarkPending(w)
    <2>1. w \in Request
        BY <1>1, <1>4 DEF TypeOK, SweepPoint, Compensating, Worker
    <2>2. Contract!Dispatch(w) \/ UNCHANGED <<subscriptions, sagas>>
        BY <1>1, <1>4 DEF Contract!Dispatch, MarkPending, updateSagaState, InState
    <2>3. QED BY <2>1, <2>2
<1>5. CASE pc[w] = "complete" /\ MarkCompleted(w)
    <2>1. w \in Request
        BY <1>1, <1>5 DEF TypeOK, SweepPoint, Compensating, Worker
    <2>2. w \in {g \in Request : call[g] = "sent"}
        BY <1>1, <1>5, <2>1 DEF WorkerHolds, RequestHolds
    <2>3. Contract!Complete(w) \/ UNCHANGED <<subscriptions, sagas>>
        BY <1>1, <1>5, <2>2 DEF Contract!Complete, MarkCompleted, updateSagaState, InState
    <2>4. QED BY <2>1, <2>3
<1>6. CASE pc[w] = "abandon" /\ MarkAbandoned(w)
    <2>1. w \in Request
        BY <1>1, <1>6 DEF TypeOK, SweepPoint, Compensating, Worker
    <2>2. Contract!Abandon(w) \/ UNCHANGED <<subscriptions, sagas>>
        BY <1>1, <1>6 DEF Contract!Abandon, MarkAbandoned, updateSagaState, InState
    <2>3. QED BY <2>1, <2>2
<1>7. CASE pc[w] \in Compensating
    <2>1. Target(w) \in Request
        BY <1>1, <1>7 DEF WorkerHolds, SweepHolds, Target, Worker
    <2>2. CASE pc[w] = "claim" /\ MarkCompensating(w)
        <3>1. seen[w] \in {"STARTED", "NOTIFICATION_PENDING", "COMPENSATING"}
            BY <1>1, <2>2 DEF WorkerHolds, RequestHolds, SweepHolds, activeStates, Worker
        <3>2. Contract!Undo(Target(w)) \/ UNCHANGED <<subscriptions, sagas>>
            BY <1>1, <2>2, <3>1 DEF Contract!Undo, MarkCompensating, updateSagaState, InState
        <3>3. QED BY <2>1, <3>2
    <2>3. CASE pc[w] = "delete" /\ RemoveRow(w)
        <3>1. subject[Target(w)] = Target(w)
              /\ sagas[Target(w)] \in {"COMPENSATING", "COMPENSATED", "FAILED"}
            BY <1>1, <2>3 DEF WorkerHolds, ClaimHolds, shouldCompensateSubscription
        <3>2. subscriptions[Target(w)] = "pending" => sagas[Target(w)] \in {"COMPENSATING", "FAILED"}
            BY <1>1, <2>1, <3>1 DEF TablesHold, CompensatedMeansSettled
        <3>3. Contract!Remove(Target(w)) \/ UNCHANGED <<subscriptions, sagas>>
            BY <1>1, <2>3, <3>1, <3>2
               DEF Contract!Remove, RemoveRow, deletePendingSubscription, Deletable
        <3>4. QED BY <2>1, <3>3
    <2>4. CASE pc[w] \in {"markCompensated", "markFailed"} /\ MarkEnded(w)
        <3>1. Verdict(w) = "COMPENSATED" => subscriptions[Target(w)] # "pending"
            BY <1>1, <2>4 DEF WorkerHolds, ClaimHolds, Verdict
        <3>2. Contract!Finish(Target(w)) \/ UNCHANGED <<subscriptions, sagas>>
            BY <1>1, <2>4, <3>1 DEF Contract!Finish, MarkEnded, updateSagaState, InState, Verdict
        <3>3. QED BY <2>1, <3>2
    <2>5. QED BY <1>7, <2>2, <2>3, <2>4 DEF Statement, Compensating
<1>8. QED BY <1>2, <1>3, <1>4, <1>5, <1>6, <1>7 DEF Statement, Compensating

\* The program starts where its contract does.
LEMMA InitImplements == Init => Contract!LifecycleInit
BY DEF Init, Contract!LifecycleInit

\* Every step is a step of the contract, or none that it can see.
LEMMA NextImplements == IInv /\ [Next]_vars => [Contract!LifecycleNext]_(Contract!lifecycle)
<1> SUFFICES ASSUME IInv, [Next]_vars
             PROVE  Contract!LifecycleNext \/ UNCHANGED <<subscriptions, sagas, Mailed>>
    BY DEF Contract!lifecycle, Mailed
<1>1. TypeOK /\ TablesHold
    BY DEF IInv
<1>2. ASSUME NEW w \in Worker, Mailed' = Mailed, Statement(w) \/ UNCHANGED <<subscriptions, sagas>>
      PROVE  Contract!LifecycleNext \/ UNCHANGED <<subscriptions, sagas, Mailed>>
    BY <1>2, StatementImplements
<1>3. ASSUME NEW q \in Request, Subscribe(q) \/ Proceed(q) \/ ConnectionLost(q)
      PROVE  Contract!LifecycleNext \/ UNCHANGED <<subscriptions, sagas, Mailed>>
    <2>1. Statement(q) \/ UNCHANGED <<subscriptions, sagas>>
        BY <1>3 DEF Subscribe, Proceed, Insert, FindActiveSaga, CreateSaga, FindConcurrentSaga, Dispatch,
                    Reply, DeadlineExceeded, ConnectionLost, Receive, Complete, Abandon, Load, Compensate,
                    Claim, Delete, Finish, Statement, tables
    <2>2. Mailed' = Mailed
        <3>1. CASE Dispatch(q)
            <4>1. call[q] = "none"
                BY <1>1, <3>1, Values
                   DEF Dispatch, IInv, WorkerHolds, RequestHolds, TablesHold, DispatchedFirst
            <4>2. QED BY <1>1, <3>1, <4>1 DEF Dispatch, TypeOK, Mailed
        <3>2. CASE UNCHANGED call
            BY <3>2 DEF Mailed
        <3>3. QED BY <1>3, <3>1, <3>2
                  DEF Subscribe, Proceed, Insert, FindActiveSaga, CreateSaga, FindConcurrentSaga,
                      Reply, DeadlineExceeded, ConnectionLost, Receive, Complete, Abandon, Load,
                      Compensate, Claim, Delete, Finish
    <2>3. QED BY <1>2, <2>1, <2>2, Values
<1>4. ASSUME NEW w \in Worker, (w \in Sweep /\ Recover(w)) \/ DatabaseError(w) \/ Crash(w)
      PROVE  Contract!LifecycleNext \/ UNCHANGED <<subscriptions, sagas, Mailed>>
    <2>1. Statement(w) \/ UNCHANGED <<subscriptions, sagas>>
        BY <1>4 DEF Recover, StartSweep, TakeUp, EndSweep, Compensate, Claim, Delete, Finish,
                    DatabaseError, Crash, Statement, tables
    <2>2. Mailed' = Mailed
        BY <1>4 DEF Recover, StartSweep, TakeUp, EndSweep, Compensate, Claim, Delete, Finish,
                    DatabaseError, Crash, Mailed
    <2>3. QED BY <1>2, <2>1, <2>2
<1>5. ASSUME NEW g \in Request, Serve(g)
      PROVE  Contract!LifecycleNext \/ UNCHANGED <<subscriptions, sagas, Mailed>>
    <2>1. UNCHANGED <<subscriptions, sagas>> /\ call[g] = "inflight"
        BY <1>5 DEF Serve, tables
    <2>2. sagas[g] \notin {"NONE", "STARTED"}
        BY <1>1, <2>1 DEF TablesHold, DispatchedFirst
    <2>3. CASE call' = [call EXCEPT ![g] = "failed"]
        BY <1>1, <2>1, <2>3 DEF TypeOK, Mailed
    <2>4. CASE call' = [call EXCEPT ![g] = "sent"]
        <3>1. Mailed' = Mailed \cup {g}
            BY <1>1, <2>4 DEF TypeOK, Mailed
        <3>2. Contract!Deliver(g)
            BY <2>1, <2>2, <3>1 DEF Contract!Deliver, Mailed
        <3>3. QED BY <3>2 DEF Contract!LifecycleNext
    <2>5. QED BY <1>5, <2>3, <2>4 DEF Serve
<1>6. ASSUME NEW r \in Request, Unsubscribe(r)
      PROVE  Contract!LifecycleNext \/ UNCHANGED <<subscriptions, sagas, Mailed>>
    <2>1. Contract!Unsubscribe(r)
        BY <1>6 DEF Contract!Unsubscribe, Unsubscribe
    <2>2. QED BY <2>1 DEF Contract!LifecycleNext
<1>7. ASSUME NEW v \in Visitor, Confirm(v) \/ ConfirmError(v)
      PROVE  Contract!LifecycleNext \/ UNCHANGED <<subscriptions, sagas, Mailed>>
    <2>1. found[v] \in Request /\ UNCHANGED <<sagas, call>>
        BY <1>1, <1>7 DEF Confirm, ConfirmError, TypeOK
    <2>2. Contract!Confirm(found[v]) \/ UNCHANGED subscriptions
        BY <1>7, <2>1 DEF Contract!Confirm, Confirm, ConfirmError, confirmSubscriptionRecord
    <2>3. QED BY <2>1, <2>2 DEF Contract!LifecycleNext, Mailed
<1>8. ASSUME \/ \E g \in Request : Age(g)
             \/ \E v \in Visitor : LookUpToken(v)
             \/ UNCHANGED vars
      PROVE  UNCHANGED <<subscriptions, sagas, Mailed>>
    BY <1>8 DEF Age, LookUpToken, tables, vars, Mailed
<1>9. QED BY <1>3, <1>4, <1>5, <1>6, <1>7, <1>8, Values DEF Next

\* Every behaviour of the program, with all its races and faults, is one the
\* contract of the saga allows.
THEOREM Implementation == Spec => ImplementsLifecycle
BY InitImplements, NextImplements, Invariance, PTL
   DEF Spec, ImplementsLifecycle, Contract!LifecycleSpec

-----------------------------------------------------------------------------
(* What the documentation promises.  While nothing fails, or no more than   *)
(* connections, every saga is in the hands of its own request: it never     *)
(* ages, and no sweep takes it up.                                          *)

Undisturbed == faults = 0 \/ Faults \subseteq {"reset"}

Undoing == {"delete", "markCompensated", "markFailed"}

\* The state of a saga and the point of its request tell each other.
OwnSaga(q) ==
    /\ sagas[q] = "STARTED" <=> pc[q] = "dispatch"
    /\ sagas[q] = "NOTIFICATION_PENDING" <=>
           pc[q] \in {"awaiting", "complete", "abandon", "load", "claim"}
    /\ sagas[q] = "COMPENSATING" <=> pc[q] \in Undoing
    /\ pc[q] = "claim" => seen[q] = "NOTIFICATION_PENDING"

\* A request undoes its saga only upon a refusal or a lost connection.
OwnAnswer(q) ==
    /\ pc[q] \in {"load"} \cup Compensating \/ subscriptions[q] = "deleted" =>
           answer[q] \in {"refused", "lost"}
    /\ answer[q] = "refused" => call[q] = "failed"
    /\ faults = 0 => answer[q] # "lost"

\* A link is mailed again only after the saga of its subscription has ended.
Remailing ==
    \A g \in Request : subject[g] # g /\ sagas[g] # "NONE" => sagas[subject[g]] \in terminalStates

OnTrack ==
    /\ overdue = {}
    /\ \A s \in Sweep : pc[s] = "idle"
    /\ \A q \in Request : OwnSaga(q) /\ OwnAnswer(q)
    /\ Remailing

\* What a visitor has looked up will not be deleted any more.
Looked ==
    \A v \in Visitor : found[v] # None =>
        /\ subscriptions[found[v]] \notin {"none", "deleted"}
        /\ call[found[v]] = "sent" \/ sagas[found[v]] \in terminalStates

CalmInv ==
    /\ Undisturbed => OnTrack
    /\ faults = 0 => Looked /\ AcknowledgedIsConfirmed

\* A fault that is counted was none, or a broken connection.
LEMMA CalmFaults ==
    ASSUME TypeOK, NEW k, Spend(k), Undisturbed'
    PROVE  k = "reset" /\ Faults \subseteq {"reset"}
<1>1. faults \in Nat /\ k \in Faults /\ faults' = faults + 1
    BY ConstantsAssumption DEF TypeOK, Spend
<1>2. faults' # 0
    BY <1>1
<1>3. QED BY <1>1, <1>2 DEF Undisturbed

\* Faults are not taken back.
LEMMA FaultsGrow ==
    ASSUME TypeOK, [Next]_vars
    PROVE  /\ faults' = 0 => faults = 0
           /\ Undisturbed' => Undisturbed
<1>1. UNCHANGED faults \/ \E k \in {"db", "crash", "reset", "stall"} : Spend(k)
    <2>1. ASSUME NEW q \in Request, Subscribe(q) \/ Proceed(q) \/ ConnectionLost(q)
          PROVE  UNCHANGED faults \/ Spend("reset")
        BY <2>1 DEF Subscribe, Proceed, Insert, FindActiveSaga, CreateSaga, FindConcurrentSaga,
                    Dispatch, Reply, DeadlineExceeded, ConnectionLost, Receive, Complete, Abandon,
                    Load, Compensate, Claim, Delete, Finish
    <2>2. ASSUME NEW s \in Sweep, Recover(s) PROVE UNCHANGED faults
        BY <2>2 DEF Recover, StartSweep, TakeUp, EndSweep, Compensate, Claim, Delete, Finish
    <2>3. ASSUME NEW g \in Request, Serve(g) \/ Age(g) \/ Unsubscribe(g)
          PROVE  UNCHANGED faults \/ Spend("stall")
        BY <2>3 DEF Serve, Age, Unsubscribe
    <2>4. ASSUME NEW v \in Visitor, LookUpToken(v) \/ Confirm(v) \/ ConfirmError(v)
          PROVE  UNCHANGED faults \/ Spend("db")
        BY <2>4 DEF LookUpToken, Confirm, ConfirmError
    <2>5. ASSUME NEW w \in Worker, DatabaseError(w) \/ Crash(w)
          PROVE  Spend("db") \/ Spend("crash")
        BY <2>5 DEF DatabaseError, Crash
    <2>6. QED BY <2>1, <2>2, <2>3, <2>4, <2>5 DEF Next, vars
<1>2. faults \in Nat
    BY ConstantsAssumption DEF TypeOK
<1>3. faults' = 0 => faults = 0
    BY <1>1, <1>2 DEF Spend
<1>4. QED BY <1>3 DEF Undisturbed

\* While nothing but connections fails, the steps of the program are those of
\* requests, of the mail and of subscribers.
LEMMA CalmSteps ==
    ASSUME TypeOK, OnTrack, [Next]_vars, Undisturbed'
    PROVE  \/ \E q \in Request : Subscribe(q) \/ Proceed(q) \/ ConnectionLost(q)
           \/ \E g \in Request : Serve(g) \/ Unsubscribe(g)
           \/ \E v \in Visitor : LookUpToken(v) \/ Confirm(v)
           \/ UNCHANGED vars
<1>1. \A w \in Worker : ~ DatabaseError(w) /\ ~ Crash(w)
    BY CalmFaults DEF DatabaseError, Crash
<1>2. \A v \in Visitor : ~ ConfirmError(v)
    BY CalmFaults DEF ConfirmError
<1>3. ASSUME NEW g \in Request, Age(g) PROVE FALSE
    <2>1. pc[g] \in {"dispatch", "awaiting", "complete", "abandon", "load", "claim"} \cup Undoing
        BY <1>3 DEF Age, activeStates, OnTrack, OwnSaga
    <2>2. Attended(g)
        BY <2>1 DEF Attended, Answered, Undoing
    <2>3. Spend("stall")
        BY <1>3, <2>2 DEF Age
    <2>4. QED BY <2>3, CalmFaults
<1>4. ASSUME NEW s \in Sweep, Recover(s) PROVE FALSE
    <2>1. pc[s] = "idle"
        BY DEF OnTrack
    <2>2. listTimedOutSagas = {}
        BY DEF OnTrack, listTimedOutSagas, TimedOut
    <2>3. QED BY <1>4, <2>1, <2>2
              DEF Recover, StartSweep, TakeUp, EndSweep, Compensate, Claim, Delete, Finish
<1>5. QED BY <1>1, <1>2, <1>3, <1>4 DEF Next

\* A request changes what is its own, and no more.
LEMMA OwnStep ==
    ASSUME IInv, NEW q \in Request, Subscribe(q) \/ Proceed(q) \/ ConnectionLost(q)
    PROVE  /\ \A g \in Request \ {q} :
                  /\ sagas'[g] = sagas[g] /\ subscriptions'[g] = subscriptions[g]
                  /\ subject'[g] = subject[g] /\ call'[g] = call[g]
                  /\ pc'[g] = pc[g] /\ seen'[g] = seen[g] /\ answer'[g] = answer[g]
           /\ \A s \in Sweep : pc'[s] = pc[s]
           /\ overdue' \subseteq overdue
           /\ UNCHANGED visits
<1> DEFINE OwnPoint == \A u \in Worker \ {q} : pc'[u] = pc[u] /\ seen'[u] = seen[u]
           OwnRow == \A g \in Request \ {q} :
                         sagas'[g] = sagas[g] /\ subscriptions'[g] = subscriptions[g]
           OwnCall == \A g \in Request \ {q} :
                          subject'[g] = subject[g] /\ call'[g] = call[g] /\ answer'[g] = answer[g]
           Rest == overdue' \subseteq overdue /\ UNCHANGED visits
           Goal == OwnPoint /\ OwnRow /\ OwnCall /\ Rest
<1>1. TypeOK /\ WorkerHolds(q) /\ Target(q) = q /\ Request \subseteq Worker /\ Sweep \subseteq Worker
      /\ \A s \in Sweep : s # q
    BY Values, ConstantsAssumption DEF IInv, Target
<1>12. SUFFICES Goal
    BY <1>1
<1> USE <1>1 DEF TypeOK, Goto, tables, updateSagaState, createSaga
<1>2. CASE Subscribe(q)
    <2>1. OwnPoint
        BY <1>2 DEF Subscribe
    <2>2. OwnRow /\ Rest
        BY <1>2 DEF Subscribe
    <2>3. OwnCall
        BY <1>2 DEF Subscribe
    <2>4. QED BY <2>1, <2>2, <2>3
<1>3. CASE Insert(q)
    <2>1. OwnPoint
        BY <1>3 DEF Insert, InsertBoth
    <2>2. OwnRow /\ Rest
        BY <1>3 DEF Insert, InsertBoth
    <2>3. OwnCall
        BY <1>3 DEF Insert, InsertBoth
    <2>4. QED BY <2>1, <2>2, <2>3
<1>4. CASE FindActiveSaga(q) \/ CreateSaga(q) \/ FindConcurrentSaga(q)
    <2>1. OwnPoint
        BY <1>4 DEF FindActiveSaga, CreateSaga, FindConcurrentSaga, InsertSaga
    <2>2. OwnRow /\ Rest
        BY <1>4 DEF FindActiveSaga, CreateSaga, FindConcurrentSaga, InsertSaga
    <2>3. OwnCall
        BY <1>4 DEF FindActiveSaga, CreateSaga, FindConcurrentSaga, InsertSaga
    <2>4. QED BY <2>1, <2>2, <2>3
<1>5. CASE Dispatch(q)
    <2>1. OwnPoint
        BY <1>5 DEF Dispatch, MarkPending
    <2>2. OwnRow /\ Rest
        BY <1>5 DEF Dispatch, MarkPending
    <2>3. OwnCall
        BY <1>5 DEF Dispatch, MarkPending
    <2>4. QED BY <2>1, <2>2, <2>3
<1>6. CASE Reply(q) \/ DeadlineExceeded(q) \/ ConnectionLost(q)
    <2>1. OwnPoint
        BY <1>6 DEF Reply, DeadlineExceeded, ConnectionLost, Receive
    <2>2. OwnRow /\ Rest
        BY <1>6 DEF Reply, DeadlineExceeded, ConnectionLost, Receive
    <2>3. OwnCall
        BY <1>6 DEF Reply, DeadlineExceeded, ConnectionLost, Receive
    <2>4. QED BY <2>1, <2>2, <2>3
<1>7. CASE Complete(q) \/ Abandon(q)
    <2>1. OwnPoint
        BY <1>7 DEF Complete, MarkCompleted, Abandon, MarkAbandoned
    <2>2. OwnRow /\ Rest
        BY <1>7 DEF Complete, MarkCompleted, Abandon, MarkAbandoned
    <2>3. OwnCall
        BY <1>7 DEF Complete, MarkCompleted, Abandon, MarkAbandoned
    <2>4. QED BY <2>1, <2>2, <2>3
<1>8. CASE Load(q)
    <2>1. OwnPoint
        BY <1>8 DEF Load, Leave
    <2>2. OwnRow /\ Rest
        BY <1>8 DEF Load, Leave
    <2>3. OwnCall
        BY <1>8 DEF Load, Leave
    <2>4. QED BY <2>1, <2>2, <2>3
<1>9. CASE Claim(q)
    <2>1. OwnPoint
        BY <1>9 DEF Claim, MarkCompensating, Leave
    <2>2. OwnRow /\ Rest
        BY <1>9 DEF Claim, MarkCompensating, Leave
    <2>3. OwnCall
        BY <1>9 DEF Claim, MarkCompensating, Leave
    <2>4. QED BY <2>1, <2>2, <2>3
<1>10. CASE Delete(q)
    <2>1. subject[q] = q
        BY <1>10 DEF Delete, WorkerHolds, ClaimHolds, shouldCompensateSubscription
    <2>2. OwnRow
        BY <1>10, <2>1 DEF Delete, RemoveRow, deletePendingSubscription
    <2>3. OwnPoint /\ OwnCall /\ Rest
        BY <1>10 DEF Delete, RemoveRow
    <2>4. QED BY <2>2, <2>3
<1>11. CASE Finish(q)
    <2>1. OwnPoint
        BY <1>11 DEF Finish, Leave
    <2>2. OwnRow /\ OwnCall /\ Rest
        BY <1>11 DEF Finish, MarkEnded
    <2>3. QED BY <2>1, <2>2
<1> HIDE DEF OwnPoint, OwnRow, OwnCall, Rest, TypeOK, Goto, tables, updateSagaState, createSaga
<1>13. QED
    BY <1>2, <1>3, <1>4, <1>5, <1>6, <1>7, <1>8, <1>9, <1>10, <1>11 DEF Proceed, Compensate

\* At each of its points a request leaves its saga where the next one has it.
LEMMA OwnSagaKept ==
    ASSUME IInv, NEW q \in Request, OwnSaga(q), Subscribe(q) \/ Proceed(q) \/ ConnectionLost(q)
    PROVE  OwnSaga(q)'
<1>1. TypeOK /\ WorkerHolds(q) /\ RequestHolds(q) /\ Target(q) = q /\ q \in Worker
    BY Values, ConstantsAssumption DEF IInv, Target, WorkerHolds
<1> USE <1>1 DEF TypeOK, Goto, OwnSaga, Undoing, tables
<1>2. CASE Subscribe(q)
    BY <1>2 DEF Subscribe
<1>3. CASE Insert(q) \/ CreateSaga(q)
    BY <1>3 DEF Insert, InsertBoth, CreateSaga, InsertSaga, createSaga, RequestHolds
<1>4. CASE FindActiveSaga(q) \/ FindConcurrentSaga(q)
    BY <1>4 DEF FindActiveSaga, FindConcurrentSaga
<1>5. CASE Dispatch(q)
    BY <1>5 DEF Dispatch, MarkPending, InState, updateSagaState
<1>6. ASSUME NEW reply \in {"ok", "refused", "deadline", "lost"}, Receive(q, reply)
      PROVE  OwnSaga(q)'
    BY <1>6 DEF Receive, Continuation
<1>7. CASE Complete(q)
    BY <1>7 DEF Complete, MarkCompleted, InState, updateSagaState
<1>8. CASE Abandon(q)
    BY <1>8 DEF Abandon, MarkAbandoned, InState, updateSagaState
<1>9. CASE Load(q)
    BY <1>9 DEF Load, InState, terminalStates
<1>10. CASE Claim(q)
    BY <1>10 DEF Claim, MarkCompensating, InState, updateSagaState
<1>11. CASE Delete(q)
    BY <1>11 DEF Delete, RemoveRow
<1>12. CASE Finish(q)
    BY <1>12 DEF Finish, MarkEnded, InState, updateSagaState, Verdict, Leave
<1>13. QED
    BY <1>2, <1>3, <1>4, <1>5, <1>6, <1>7, <1>8, <1>9, <1>10, <1>11, <1>12
       DEF Proceed, Compensate, Reply, DeadlineExceeded, ConnectionLost

\* A request comes to undo its saga through an answer only.
LEMMA OwnAnswerKept ==
    ASSUME IInv, NEW q \in Request, OwnSaga(q), OwnAnswer(q), Undisturbed', faults' = 0 => faults = 0,
           Subscribe(q) \/ Proceed(q) \/ ConnectionLost(q)
    PROVE  OwnAnswer(q)'
<1>1. TypeOK /\ WorkerHolds(q) /\ Target(q) = q /\ TablesHold /\ q \in Worker
    BY Values, ConstantsAssumption DEF IInv, Target
<1>2. pc[q] = "awaiting" => subscriptions[q] # "deleted"
    BY <1>1 DEF OwnSaga, TablesHold, LostOnlyByCompensation
<1>3. pc[q] = "dispatch" => answer[q] # "refused"
    BY <1>1 DEF OwnSaga, OwnAnswer, TablesHold, DispatchedFirst
<1> USE <1>1 DEF TypeOK, Goto, OwnAnswer, Compensating, tables
<1>4. CASE Subscribe(q) \/ FindActiveSaga(q) \/ FindConcurrentSaga(q)
    BY <1>4 DEF Subscribe, FindActiveSaga, FindConcurrentSaga
<1>5. CASE Insert(q) \/ CreateSaga(q)
    BY <1>5 DEF Insert, InsertBoth, CreateSaga, InsertSaga
<1>6. CASE Dispatch(q)
    BY <1>3, <1>6 DEF Dispatch, MarkPending, OwnSaga, InState
<1>7. CASE Reply(q) \/ DeadlineExceeded(q)
    BY <1>2, <1>7 DEF Reply, DeadlineExceeded, Receive, Continuation
<1>8. CASE ConnectionLost(q)
    <2>1. faults' # 0
        BY <1>8, ConstantsAssumption DEF ConnectionLost, Spend
    <2>2. QED BY <1>8, <2>1 DEF ConnectionLost, Receive, Continuation
<1>9. CASE Complete(q) \/ Abandon(q)
    BY <1>9 DEF Complete, MarkCompleted, Abandon, MarkAbandoned
<1>10. CASE Load(q) \/ Claim(q)
    BY <1>10 DEF Load, Claim, MarkCompensating, Leave
<1>11. CASE Delete(q)
    BY <1>11 DEF Delete, RemoveRow, deletePendingSubscription
<1>12. CASE Finish(q)
    BY <1>12 DEF Finish, MarkEnded, Leave
<1>13. QED BY <1>4, <1>5, <1>6, <1>7, <1>8, <1>9, <1>10, <1>11, <1>12 DEF Proceed, Compensate
\* A saga that has ended stays ended.
LEMMA SagasEnd ==
    ASSUME IInv, [Next]_vars, NEW g \in Request, sagas[g] \in terminalStates
    PROVE  sagas'[g] = sagas[g]
<1>1. ASSUME NEW w \in Worker, Moves(w) PROVE sagas'[g] = sagas[g]
    BY <1>1 DEF Moves, SagaMove, terminalStates, activeStates
<1>2. QED BY <1>1, StepMoves

\* A request that creates a saga for an earlier subscription has found no
\* active saga of it, and so its own saga over.
LEMMA Created ==
    ASSUME IInv, NEW q \in Request, OwnSaga(q), Subscribe(q) \/ Proceed(q) \/ ConnectionLost(q),
           sagas[q] = "NONE", sagas'[q] # "NONE", subject'[q] # q
    PROVE  /\ subject'[q] = subject[q]
           /\ sagas[subject[q]] \in terminalStates
<1>1. TypeOK /\ RowsAndSubjects /\ RequestHolds(q) /\ subject[q] \in Request
    BY Values DEF IInv, TablesHold, WorkerHolds, TypeOK
<1>2. pc[q] \notin {"dispatch", "awaiting", "complete", "abandon", "load", "claim"} \cup Undoing
    BY DEF OwnSaga
<1>3. Insert(q) \/ CreateSaga(q)
    BY <1>2 DEF Subscribe, Proceed, FindActiveSaga, FindConcurrentSaga, Dispatch, Reply,
                DeadlineExceeded, ConnectionLost, Receive, Complete, Abandon, Load, Compensate, Claim,
                Delete, Finish, Undoing, tables
<1>4. ~ Insert(q)
    BY <1>1 DEF Insert, RequestHolds
<1>5. subject[q] # q /\ subject' = subject /\ ActiveSagas(subject[q]) = {}
    BY <1>1, <1>3, <1>4 DEF CreateSaga, InsertSaga, RequestHolds
<1>6. subject[subject[q]] = subject[q] /\ sagas[subject[q]] # "NONE"
    BY <1>1, <1>5 DEF RowsAndSubjects
<1>7. sagas[subject[q]] \notin activeStates
    BY <1>1, <1>5, <1>6 DEF ActiveSagas
<1>8. QED BY <1>1, <1>5, <1>6, <1>7 DEF TypeOK, SagaState

\* A request that advances its saga keeps it in hand, and disturbs no other.
LEMMA RequestCalm ==
    ASSUME IInv, OnTrack, [Next]_vars, Undisturbed',
           NEW q \in Request, Subscribe(q) \/ Proceed(q) \/ ConnectionLost(q)
    PROVE  OnTrack'
<1>1. TypeOK /\ RequestHolds(q)
    BY Values DEF IInv, WorkerHolds
<1>2. /\ \A g \in Request \ {q} :
             /\ sagas'[g] = sagas[g] /\ subscriptions'[g] = subscriptions[g]
             /\ subject'[g] = subject[g] /\ call'[g] = call[g]
             /\ pc'[g] = pc[g] /\ seen'[g] = seen[g] /\ answer'[g] = answer[g]
      /\ \A s \in Sweep : pc'[s] = pc[s]
      /\ overdue' \subseteq overdue
    BY OwnStep
<1>3. faults' = 0 => faults = 0
    BY <1>1, FaultsGrow
<1>4. ASSUME NEW g \in Request PROVE OwnSaga(g)' /\ OwnAnswer(g)'
    <2>1. OwnSaga(g) /\ OwnAnswer(g)
        BY DEF OnTrack
    <2>2. CASE g = q
        BY <1>3, <2>1, <2>2, OwnSagaKept, OwnAnswerKept
    <2>3. CASE g # q
        BY <1>2, <1>3, <2>1, <2>3 DEF OwnSaga, OwnAnswer
    <2>4. QED BY <2>2, <2>3
<1>5. ASSUME NEW g \in Request, subject'[g] # g, sagas'[g] # "NONE"
      PROVE  sagas'[subject'[g]] \in terminalStates
    <2>1. subject[g] \in Request
        BY <1>1 DEF TypeOK
    <2>2. sagas[subject[g]] \in terminalStates => sagas'[subject[g]] \in terminalStates
        BY <2>1, SagasEnd
    <2>3. CASE sagas[g] # "NONE" /\ subject'[g] = subject[g]
        BY <1>5, <2>2, <2>3 DEF OnTrack, Remailing
    <2>4. CASE sagas[g] # "NONE" /\ subject'[g] # subject[g]
        <3>1. g = q /\ Subscribe(q)
            BY <1>2, <2>4 DEF Proceed, Insert, FindActiveSaga, CreateSaga, FindConcurrentSaga,
                   Dispatch, Reply, DeadlineExceeded, ConnectionLost, Receive, Complete, Abandon,
                   Load, Compensate, Claim, Delete, Finish, tables
        <3>2. QED BY <1>1, <2>4, <3>1 DEF Subscribe, RequestHolds
    <2>5. CASE sagas[g] = "NONE"
        <3>1. g = q /\ OwnSaga(q)
            BY <1>2, <1>5, <2>5 DEF OnTrack
        <3>2. QED BY <1>5, <2>2, <2>5, <3>1, Created
    <2>6. QED BY <2>3, <2>4, <2>5
<1>6. QED BY <1>2, <1>4, <1>5 DEF OnTrack, Remailing

\* Nor does any other step take a saga out of its request's hands.
LEMMA OnTrackKept ==
    ASSUME IInv, OnTrack, [Next]_vars, Undisturbed'
    PROVE  OnTrack'
<1>1. TypeOK
    BY DEF IInv
<1>2. ASSUME NEW g \in Request, Serve(g) PROVE OnTrack'
    BY <1>1, <1>2 DEF Serve, OnTrack, OwnSaga, OwnAnswer, Remailing, tables, TypeOK
<1>3. ASSUME NEW r \in Request, Unsubscribe(r) PROVE OnTrack'
    BY <1>1, <1>3 DEF Unsubscribe, OnTrack, OwnSaga, OwnAnswer, Remailing, TypeOK
<1>4. ASSUME NEW v \in Visitor, LookUpToken(v) PROVE OnTrack'
    BY <1>1, <1>4 DEF LookUpToken, OnTrack, OwnSaga, OwnAnswer, Remailing, tables
<1>5. ASSUME NEW v \in Visitor, Confirm(v) PROVE OnTrack'
    <2>1. \A q \in Request : subscriptions'[q] = "deleted" => subscriptions[q] = "deleted"
        BY <1>1, <1>5 DEF Confirm, confirmSubscriptionRecord, TypeOK
    <2>2. UNCHANGED <<sagas, subject, overdue, call, pc, seen, answer, faults>>
        BY <1>5 DEF Confirm
    <2>3. QED BY <2>1, <2>2 DEF OnTrack, OwnSaga, OwnAnswer, Remailing
<1>6. CASE UNCHANGED vars
    BY <1>6 DEF vars, OnTrack, OwnSaga, OwnAnswer, Remailing
<1>7. QED BY <1>1, <1>2, <1>3, <1>4, <1>5, <1>6, RequestCalm, CalmSteps

\* What a request does to the row and the call that are its own.
LEMMA OwnRowMoves ==
    ASSUME IInv, NEW q \in Request, Subscribe(q) \/ Proceed(q) \/ ConnectionLost(q)
    PROVE  /\ \/ subscriptions'[q] = subscriptions[q]
              \/ subscriptions[q] = "none" /\ subscriptions'[q] = "pending"
              \/ pc[q] = "delete"
           /\ call[q] = "sent" => call'[q] = "sent"
<1>1. TypeOK /\ RowsAndSubjects /\ DispatchedFirst /\ RequestHolds(q)
    BY Values DEF IInv, TablesHold, WorkerHolds
<1>2. CASE Insert(q)
    BY <1>1, <1>2 DEF Insert, InsertBoth, RowsAndSubjects, RequestHolds, TypeOK
<1>3. CASE Dispatch(q)
    BY <1>1, <1>3 DEF Dispatch, MarkPending, DispatchedFirst, RequestHolds, TypeOK
<1>4. CASE Delete(q)
    BY <1>4 DEF Delete
<1>5. QED BY <1>2, <1>3, <1>4
          DEF Subscribe, Proceed, FindActiveSaga, CreateSaga, InsertSaga, FindConcurrentSaga, Reply,
              DeadlineExceeded, ConnectionLost, Receive, Complete, MarkCompleted, Abandon,
              MarkAbandoned, Load, Compensate, Claim, MarkCompensating, Finish, MarkEnded, tables

\* The two pages of a visitor, while nothing fails: what was looked up is still
\* there when it is confirmed, and stays.
LEMMA LookedKept ==
    ASSUME IInv, OnTrack, Looked, AcknowledgedIsConfirmed, [Next]_vars, faults = 0, faults' = 0
    PROVE  Looked' /\ AcknowledgedIsConfirmed'
<1>1. TypeOK /\ RowsAndSubjects /\ DispatchedFirst /\ Undisturbed'
    BY DEF IInv, TablesHold, Undisturbed
<1>2. \A g \in Request : sagas[g] \in terminalStates => sagas'[g] \in terminalStates
    BY SagasEnd
<1>3. ASSUME NEW q \in Request, Subscribe(q) \/ Proceed(q) \/ ConnectionLost(q)
      PROVE  Looked' /\ AcknowledgedIsConfirmed'
    <2>1. /\ \A g \in Request \ {q} : subscriptions'[g] = subscriptions[g] /\ call'[g] = call[g]
          /\ UNCHANGED visits
        BY <1>3, OwnStep
    <2>2. /\ \/ subscriptions'[q] = subscriptions[q]
             \/ subscriptions[q] = "none" /\ subscriptions'[q] = "pending"
             \/ pc[q] = "delete"
          /\ call[q] = "sent" => call'[q] = "sent"
        BY <1>3, OwnRowMoves
    <2>3. CASE pc[q] = "delete"
        <3>1. answer[q] = "refused" /\ call[q] = "failed" /\ sagas[q] = "COMPENSATING"
            BY <2>3 DEF OnTrack, OwnSaga, OwnAnswer, Undoing, Compensating
        <3>2. \A v \in Visitor : found[v] # q
            BY <1>1, <3>1, ConstantsAssumption DEF Looked, terminalStates
        <3>3. q \in acknowledged => subscriptions'[q] = subscriptions[q]
            <4>1. Delete(q)
                BY <1>3, <2>3
                   DEF Subscribe, Proceed, Insert, FindActiveSaga, CreateSaga, FindConcurrentSaga,
                       Dispatch, Reply, DeadlineExceeded, ConnectionLost, Receive, Complete, Abandon,
                       Load, Compensate, Claim, Finish
            <4>2. subject[q] = q
                BY <2>3, Values DEF IInv, WorkerHolds, ClaimHolds, Target, shouldCompensateSubscription
            <4>3. QED BY <4>1, <4>2 DEF Delete, RemoveRow, deletePendingSubscription, Deletable,
                                        Target, AcknowledgedIsConfirmed
        <3>4. QED BY <1>1, <1>2, <2>1, <2>2, <3>2, <3>3
                  DEF Looked, AcknowledgedIsConfirmed, visits, TypeOK
    <2>4. CASE pc[q] # "delete"
        BY <1>1, <1>2, <2>1, <2>2, <2>4 DEF Looked, AcknowledgedIsConfirmed, visits, TypeOK
    <2>5. QED BY <2>3, <2>4
<1>4. ASSUME NEW g \in Request, Serve(g) PROVE Looked' /\ AcknowledgedIsConfirmed'
    BY <1>1, <1>4 DEF Serve, Looked, AcknowledgedIsConfirmed, tables, visits, TypeOK
<1>5. ASSUME NEW r \in Request, Unsubscribe(r) PROVE Looked' /\ AcknowledgedIsConfirmed'
    BY <1>1, <1>5 DEF Unsubscribe, Looked, AcknowledgedIsConfirmed, visits, TypeOK
<1>6. ASSUME NEW v \in Visitor, LookUpToken(v) PROVE Looked' /\ AcknowledgedIsConfirmed'
    <2>1. PICK r \in Request :
              /\ subscriptions[r] \notin {"none", "deleted"}
              /\ \E g \in Request : subject[g] = r /\ call[g] = "sent"
              /\ found' = [found EXCEPT ![v] = r]
        BY <1>6 DEF LookUpToken
    <2>2. PICK g \in Request : subject[g] = r /\ call[g] = "sent"
        BY <2>1
    <2>3. sagas[g] # "NONE"
        BY <1>1, <2>2 DEF DispatchedFirst
    <2>4. call[r] = "sent" \/ sagas[r] \in terminalStates
        BY <2>2, <2>3 DEF OnTrack, Remailing
    <2>5. UNCHANGED <<subscriptions, sagas, call, acknowledged>>
        BY <1>6 DEF LookUpToken, tables
    <2>6. QED BY <1>1, <2>1, <2>4, <2>5 DEF Looked, AcknowledgedIsConfirmed, TypeOK
<1>7. ASSUME NEW v \in Visitor, Confirm(v) PROVE Looked' /\ AcknowledgedIsConfirmed'
    <2>1. found[v] \in Request /\ subscriptions[found[v]] \in {"pending", "confirmed", "unsubscribed"}
        BY <1>1, <1>7 DEF Confirm, Looked, TypeOK, RowState
    <2>2. /\ subscriptions'[found[v]] \in {"confirmed", "unsubscribed"}
          /\ \A r \in Request : r # found[v] => subscriptions'[r] = subscriptions[r]
          /\ acknowledged' = acknowledged \cup {found[v]}
          /\ found' = [found EXCEPT ![v] = None]
          /\ UNCHANGED <<sagas, call>>
        BY <1>1, <1>7, <2>1 DEF Confirm, confirmSubscriptionRecord, TypeOK
    <2>3. QED BY <1>1, <2>1, <2>2 DEF Looked, AcknowledgedIsConfirmed, TypeOK
<1>8. CASE UNCHANGED vars
    BY <1>8 DEF vars, Looked, AcknowledgedIsConfirmed
<1>9. QED BY <1>1, <1>3, <1>4, <1>5, <1>6, <1>7, <1>8, CalmSteps

\* At the start no request has a saga yet.
LEMMA InitCalm == Init => CalmInv
<1> SUFFICES ASSUME Init PROVE CalmInv
    OBVIOUS
<1>1. Request \subseteq Worker /\ Sweep \subseteq Worker
    BY Values
<1>2. OnTrack
    BY <1>1 DEF Init, OnTrack, OwnSaga, OwnAnswer, Remailing, Undoing, Compensating
<1>3. Looked /\ AcknowledgedIsConfirmed
    BY DEF Init, Looked, AcknowledgedIsConfirmed
<1>4. QED BY <1>2, <1>3 DEF CalmInv

\* Every step keeps the sagas with their requests.
LEMMA NextCalm == IInv /\ CalmInv /\ [Next]_vars => CalmInv'
<1> SUFFICES ASSUME IInv, CalmInv, [Next]_vars PROVE CalmInv'
    OBVIOUS
<1>1. (faults' = 0 => faults = 0) /\ (Undisturbed' => Undisturbed)
    BY FaultsGrow DEF IInv
<1>2. Undisturbed' => OnTrack /\ OnTrack'
    BY <1>1, OnTrackKept DEF CalmInv
<1>3. ASSUME faults' = 0 PROVE Looked' /\ AcknowledgedIsConfirmed'
    <2>1. Undisturbed' /\ faults = 0
        BY <1>1, <1>3 DEF Undisturbed
    <2>2. QED BY <1>2, <1>3, <2>1, LookedKept DEF CalmInv
<1>4. QED BY <1>2, <1>3 DEF CalmInv

\* While nothing but connections fails, every saga stays in the hands of the
\* request that created it, for any number of requests, sweeps and visitors.
THEOREM CalmInvariance == Spec => []CalmInv
BY InitCalm, NextCalm, Invariance, PTL DEF Spec

\* The documentation's promises hold as long as nothing failed: requests,
\* sweeps and visitors that merely interleave break none of them.
THEOREM PromisesKept == Spec => []PromisesHold
<1>1. CalmInv => PromisesHold
    <2> SUFFICES ASSUME CalmInv, faults = 0
                 PROVE  TimedOutIsKept /\ OnlyUndeliveredIsCompensated /\ AcknowledgedIsConfirmed
        BY DEF PromisesHold
    <2>1. \A q \in Request : subscriptions[q] = "deleted" => answer[q] = "refused" /\ call[q] = "failed"
        BY DEF CalmInv, Undisturbed, OnTrack, OwnAnswer
    <2>2. QED BY <2>1 DEF CalmInv, TimedOutIsKept, OnlyUndeliveredIsCompensated
<1>2. QED BY <1>1, CalmInvariance, PTL

\* README.md, step 5 of the confirmation flow, holds however many connections
\* break: it takes a stall, a crash or a failing query to lose a subscription
\* whose mail call timed out.
THEOREM TimedOutIsKeptByResets == ASSUME Faults \subseteq {"reset"} PROVE Spec => []TimedOutIsKept
<1>1. CalmInv => TimedOutIsKept
    BY DEF CalmInv, Undisturbed, OnTrack, OwnAnswer, TimedOutIsKept
<1>2. QED BY <1>1, CalmInvariance, PTL
-----------------------------------------------------------------------------
(* Where EverySagaSettles fails: a request that ends between creating its   *)
(* saga and dispatching it leaves the saga to nobody.                       *)

Forgotten(g) == sagas[g] = "STARTED" /\ pc[g] \in Answered

\* A saga still STARTED when its request is over stays STARTED for ever:
\* listTimedOutSagas does not look for it and nobody else may move it.  While
\* it does, the partial unique index refuses its subscription another saga.
ForgottenForEver ==
    [][\A g \in Request : Forgotten(g) =>
          /\ Forgotten(g)'
          /\ subject'[g] = subject[g]
          /\ \A q \in Request : subject[q] = subject[g] /\ sagas[q] = "NONE" => sagas'[q] = "NONE"]_vars

\* Nothing happens any more at the point of a request that is over.
LEMMA OverIsOver ==
    ASSUME TypeOK, [Next]_vars, NEW g \in Request, pc[g] \in Answered
    PROVE  pc'[g] = pc[g] /\ subject'[g] = subject[g]
<1>1. g \in Worker /\ \A point : \A w \in Worker : w # g /\ Goto(w, point) => pc'[g] = pc[g]
    BY Values DEF TypeOK, Goto
<1>2. \A w \in Worker : w # g /\ Leave(w) => pc'[g] = pc[g]
    BY <1>1 DEF Leave
<1> USE <1>1, <1>2 DEF Answered
<1>3. ASSUME NEW q \in Request, Subscribe(q)
      PROVE  pc'[g] = pc[g] /\ subject'[g] = subject[g]
    BY <1>3, Values DEF Subscribe, TypeOK
<1>4. ASSUME NEW q \in Request, Proceed(q) \/ ConnectionLost(q), ~ Compensate(q)
      PROVE  pc'[g] = pc[g] /\ subject'[g] = subject[g]
    BY <1>4, Values
       DEF Proceed, Insert, FindActiveSaga, CreateSaga, FindConcurrentSaga, Dispatch, Reply,
           DeadlineExceeded, ConnectionLost, Receive, Complete, Abandon, Load, tables
<1>5. ASSUME NEW w \in Worker, Compensate(w)
      PROVE  pc'[g] = pc[g] /\ subject'[g] = subject[g]
    BY <1>5 DEF Compensate, Claim, Delete, Finish
<1>6. ASSUME NEW s \in Sweep, Recover(s)
      PROVE  pc'[g] = pc[g] /\ subject'[g] = subject[g]
    BY <1>5, <1>6, Values, ConstantsAssumption DEF Recover, StartSweep, TakeUp, EndSweep, tables
<1>7. ASSUME NEW w \in Worker, DatabaseError(w) \/ Crash(w)
      PROVE  pc'[g] = pc[g] /\ subject'[g] = subject[g]
    BY <1>7 DEF DatabaseError, Catch, Crash, tables
<1>8. ASSUME \/ \E r \in Request : Serve(r) \/ Age(r) \/ Unsubscribe(r)
             \/ \E v \in Visitor : LookUpToken(v) \/ Confirm(v) \/ ConfirmError(v)
             \/ UNCHANGED vars
      PROVE  pc'[g] = pc[g] /\ subject'[g] = subject[g]
    BY <1>8 DEF Serve, Age, Unsubscribe, LookUpToken, Confirm, ConfirmError, tables, vars
<1>9. QED BY <1>3, <1>4, <1>5, <1>6, <1>7, <1>8, Values DEF Next

\* The consequence of a recovery query that leaves STARTED out, for every
\* interleaving and every fault that may follow.
THEOREM StartedIsNeverRecovered == Spec => ForgottenForEver
<1>1. ASSUME IInv, [Next]_vars, NEW g \in Request, Forgotten(g)
      PROVE  /\ Forgotten(g)'
             /\ subject'[g] = subject[g]
             /\ \A q \in Request :
                    subject[q] = subject[g] /\ sagas[q] = "NONE" => sagas'[q] = "NONE"
    <2>1. pc'[g] = pc[g] /\ subject'[g] = subject[g]
        BY <1>1, OverIsOver DEF IInv, Forgotten
    <2>2. ASSUME NEW w \in Worker, Moves(w) PROVE sagas'[g] = sagas[g]
        BY <1>1, <2>2 DEF Moves, SagaMove, Forgotten, Answered, Target, Worker
    <2>3. ASSUME NEW w \in Worker, Moves(w), NEW q \in Request,
                 subject[q] = subject[g], sagas[q] = "NONE"
          PROVE  sagas'[q] = "NONE"
        <3>1. g \in ActiveSagas(subject[q])
            BY <1>1, <2>3 DEF Forgotten, ActiveSagas, activeStates
        <3>2. QED BY <2>3, <3>1 DEF Moves, SagaMove, activeStates
    <2>4. QED BY <1>1, <2>1, <2>2, <2>3, StepMoves DEF Forgotten
<1>2. IInv /\ [Next]_vars =>
          [\A g \in Request : Forgotten(g) =>
              /\ Forgotten(g)'
              /\ subject'[g] = subject[g]
              /\ \A q \in Request :
                     subject[q] = subject[g] /\ sagas[q] = "NONE" => sagas'[q] = "NONE"]_vars
    BY <1>1
<1>3. QED BY <1>2, Invariance, PTL DEF Spec, ForgottenForEver


=============================================================================

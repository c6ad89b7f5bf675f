--------------------------- MODULE SagaLifecycle ---------------------------
(***************************************************************************)
(* What a subscription confirmation saga promises, whoever advances it and *)
(* in whatever order: the request that created it, a recovery sweep, a     *)
(* second sweep that overlaps the first.                                   *)
(*                                                                         *)
(* A saga has a state, the confirmation mail it stands for is delivered or *)
(* not, and the saga that was created together with its subscription may   *)
(* remove that subscription again.  No database calls, program counters or *)
(* failures appear here: SubscriptionSaga implements this specification    *)
(* one statement at a time, and is shown to do so.                         *)
(***************************************************************************)
CONSTANT Saga

VARIABLES
    row,      \* the subscription created together with the saga, if any
    state,    \* the state of the saga
    mailed    \* the sagas whose confirmation mail was delivered

lifecycle == <<row, state, mailed>>

\* The states a saga can leave, and those it cannot.
Active == {"STARTED", "NOTIFICATION_PENDING", "COMPENSATING"}
Terminal == {"COMPLETED", "COMPENSATED", "FAILED"}

RowState == {"none", "pending", "confirmed", "unsubscribed", "deleted"}

LifecycleTypeOK ==
    /\ row \in [Saga -> RowState]
    /\ state \in [Saga -> Active \cup Terminal \cup {"NONE"}]
    /\ mailed \subseteq Saga

LifecycleInit ==
    /\ row = [g \in Saga |-> "none"]
    /\ state = [g \in Saga |-> "NONE"]
    /\ mailed = {}

\* From a set of states into one: the shape of every move of a saga.
Move(g, from, to) ==
    /\ state[g] \in from
    /\ state' = [state EXCEPT ![g] = to]

\* The saga is created, with a new subscription or for one that exists.
Begin(g) ==
    /\ Move(g, {"NONE"}, "STARTED")
    /\ \/ row' = row
       \/ row[g] = "none" /\ row' = [row EXCEPT ![g] = "pending"]
    /\ UNCHANGED mailed

Dispatch(g) == Move(g, {"STARTED"}, "NOTIFICATION_PENDING") /\ UNCHANGED <<row, mailed>>

\* Only a saga that was dispatched delivers its mail, possibly after it ended.
Deliver(g) ==
    /\ state[g] \notin {"NONE", "STARTED"}
    /\ mailed' = mailed \cup {g}
    /\ UNCHANGED <<row, state>>

\* Success is recorded only once the mail is known to be delivered.
Complete(g) ==
    /\ g \in mailed
    /\ Move(g, {"NOTIFICATION_PENDING"}, "COMPLETED")
    /\ UNCHANGED <<row, mailed>>

\* The outcome is unknown: the saga fails and its subscription is kept.
Abandon(g) == Move(g, {"NOTIFICATION_PENDING"}, "FAILED") /\ UNCHANGED <<row, mailed>>

\* Compensation may start from, or be taken over in, every active state.
Undo(g) == Move(g, Active, "COMPENSATING") /\ UNCHANGED <<row, mailed>>

\* The subscription goes only while its saga is being undone, or after an
\* attempt to undo it was written off as failed; never under a saga that
\* completed, and never once it was confirmed.
Remove(g) ==
    /\ state[g] \in {"COMPENSATING", "FAILED"}
    /\ row[g] = "pending"
    /\ row' = [row EXCEPT ![g] = "deleted"]
    /\ UNCHANGED <<state, mailed>>

\* A saga counts as compensated only if it leaves no unconfirmed subscription.
Finish(g) ==
    /\ \/ Move(g, {"COMPENSATING"}, "FAILED")
       \/ row[g] # "pending" /\ Move(g, {"COMPENSATING"}, "COMPENSATED")
    /\ UNCHANGED <<row, mailed>>

Confirm(g) ==
    /\ row[g] = "pending"
    /\ row' = [row EXCEPT ![g] = "confirmed"]
    /\ UNCHANGED <<state, mailed>>

Unsubscribe(g) ==
    /\ row[g] = "confirmed"
    /\ row' = [row EXCEPT ![g] = "unsubscribed"]
    /\ UNCHANGED <<state, mailed>>

LifecycleNext == \E g \in Saga :
    \/ Begin(g) \/ Dispatch(g) \/ Deliver(g) \/ Complete(g) \/ Abandon(g)
    \/ Undo(g) \/ Remove(g) \/ Finish(g) \/ Confirm(g) \/ Unsubscribe(g)

LifecycleSpec == LifecycleInit /\ [][LifecycleNext]_lifecycle
=============================================================================

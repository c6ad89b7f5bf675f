----------------------------- MODULE Migrations -----------------------------
(***************************************************************************)
(* The migrations of the database, run by one process or by several that   *)
(* start together: each checks a file, and runs it with its registration   *)
(* in schema_migrations in a transaction.  Nothing keeps the processes     *)
(* apart but the primary key of that table.                                *)
(*                                                                         *)
(* Grain: one step per statement.                                          *)
(***************************************************************************)
EXTENDS Naturals

CONSTANTS
    Runner,       \* processes that run the migrations
    Files,        \* how many files there are, applied in their order
    MaxFaults     \* bound: how many runners are hit by a fault

ASSUME MigrationsAssumption == Runner # {} /\ Files \in Nat /\ MaxFaults \in Nat

VARIABLES
    created,      \* the table schema_migrations exists
    applied,      \* the files it lists
    runs,         \* how often the statements of a file were committed
    pc,           \* where each runner is
    at,           \* the file it is at
    faults        \* faults so far

vars == <<created, applied, runs, pc, at, faults>>

File == 1..Files

\* Values of the variables; a runner in a transaction is at a file, and two
\* have not registered the same.
TypeOK ==
    /\ created \in BOOLEAN
    /\ applied \subseteq File
    /\ runs \in [File -> Nat]
    /\ pc \in [Runner -> {"create", "check", "execute", "insert", "commit", "ok", "failed"}]
    /\ at \in [Runner -> 1..Files + 1]
    /\ faults \in 0..MaxFaults
    /\ \A r \in Runner : pc[r] \in {"execute", "insert", "commit"} => at[r] \in File
    /\ \A r \in Runner : pc[r] = "commit" => at[r] \notin applied

Init ==
    /\ created = FALSE
    /\ applied = {}
    /\ runs = [f \in File |-> 0]
    /\ pc = [r \in Runner |-> "create"]
    /\ at = [r \in Runner |-> 1]
    /\ faults = 0

Goto(r, point) == pc' = [pc EXCEPT ![r] = point]

\* The error leaves runMigrations, after a rollback if there was a transaction.
Fail(r) == Goto(r, "failed") /\ UNCHANGED <<created, applied, runs, at>>

-----------------------------------------------------------------------------
Create(r) ==
    /\ pc[r] = "create"
    /\ created' = TRUE
    /\ Goto(r, "check")
    /\ UNCHANGED <<applied, runs, at, faults>>

\* CREATE TABLE IF NOT EXISTS may still collide with another creation.
CreateCollides(r) ==
    /\ pc[r] = "create" /\ created
    /\ Fail(r)
    /\ UNCHANGED faults

\* On to the next file, or the end.
mutant_Continue(r) ==
    /\ Goto(r, IF at[r] < Files THEN "execute" ELSE "ok")
    /\ UNCHANGED at
Continue(r) ==
    /\ at' = [at EXCEPT ![r] = @ + 1]
    /\ Goto(r, IF at[r] < Files THEN "check" ELSE "ok")

mutant_AlreadyApplied(r) ==
    at[r] \in applied \/ \E q \in Runner : pc[q] = "commit" /\ at[q] = at[r]
AlreadyApplied(r) == at[r] \in applied

Check(r) ==
    /\ pc[r] = "check"
    /\ IF AlreadyApplied(r) THEN Continue(r)
       ELSE Goto(r, IF at[r] \in File THEN "execute" ELSE "ok") /\ UNCHANGED at
    /\ UNCHANGED <<created, applied, runs, faults>>

\* The statements of a file another runner has committed meanwhile fail, or
\* find nothing to do.
Execute(r) ==
    /\ pc[r] = "execute"
    /\ \/ Goto(r, "insert") /\ UNCHANGED <<created, applied, runs, at>>
       \/ at[r] \in applied /\ Fail(r)
    /\ UNCHANGED faults

\* The primary key: a registration waits for the end of a transaction that
\* made the same, and fails if that was committed.
mutant_Unregistered(r) ==
    \A q \in Runner \ {r} : ~ (pc[q] \in {"insert", "commit"} /\ at[q] = at[r])
Unregistered(r) == \A q \in Runner : ~ (pc[q] = "commit" /\ at[q] = at[r])

mutant_Insert(r) ==
    /\ pc[r] = "insert" /\ Unregistered(r)
    /\ Goto(r, "commit") /\ UNCHANGED <<created, applied, runs, at, faults>>
Insert(r) ==
    /\ pc[r] = "insert" /\ Unregistered(r)
    /\ IF at[r] \in applied
       THEN Fail(r)
       ELSE Goto(r, "commit") /\ UNCHANGED <<created, applied, runs, at>>
    /\ UNCHANGED faults

Committed(r) ==
    /\ applied' = applied \cup {at[r]}
    /\ runs' = [runs EXCEPT ![at[r]] = @ + 1]

Commit(r) ==
    /\ pc[r] = "commit"
    /\ Committed(r)
    /\ Continue(r)
    /\ UNCHANGED <<created, faults>>

\* A statement fails or the process dies; a commit may have been carried out.
Fault(r) ==
    /\ pc[r] \notin {"ok", "failed"}
    /\ faults < MaxFaults /\ faults' = faults + 1
    /\ Goto(r, "failed")
    /\ (pc[r] = "commit" /\ Committed(r)) \/ UNCHANGED <<applied, runs>>
    /\ UNCHANGED <<created, at>>

-----------------------------------------------------------------------------
Run(r) == Create(r) \/ CreateCollides(r) \/ Check(r) \/ Execute(r) \/ Insert(r) \/ Commit(r)

Next == \E r \in Runner : Run(r) \/ Fault(r)

Spec == Init /\ [][Next]_vars

\* The database answers.
FairSpec == Spec /\ \A r \in Runner : WF_vars(Run(r))

-----------------------------------------------------------------------------
(* Properties.                                                             *)

\* However runners race or die, what is registered was committed, and once.
AppliedOnce == \A f \in File : runs[f] = IF f \in applied THEN 1 ELSE 0

\* No file is applied before those in front of it.
AppliedInOrder == \A f \in applied : \A e \in 1..f : e \in applied

\* A run that ends well, which the services wait for, leaves the schema
\* complete, also if it ran next to others that did not.
OkMeansComplete == \A r \in Runner : pc[r] = "ok" => applied = File

\* The race that makes runners fail has a winner who does not.
Ended(r) == pc[r] \in {"ok", "failed"}
RaceHasWinner ==
    faults = 0 /\ (\A r \in Runner : Ended(r)) => \E r \in Runner : pc[r] = "ok"

\* Runners that wait for each other's transactions all come to an end.
RunnersEnd == \A r \in Runner : <>Ended(r)
=============================================================================

-------------------------- MODULE MigrationsProofs --------------------------
(***************************************************************************)
(* Proofs about Migrations, for any runners, files and faults.             *)
(***************************************************************************)
EXTENDS Migrations, TLAPS

\* A runner has left behind only files that are applied.
Behind ==
    \A r \in Runner :
        /\ \A f \in File : f < at[r] => f \in applied
        /\ pc[r] = "ok" => at[r] = Files + 1

\* A file is registered in one open transaction at a time.
Locked ==
    \A r, q \in Runner : pc[r] = "commit" /\ pc[q] = "commit" /\ at[r] = at[q] => r = q

\* A runner that is at the first file not applied, or has applied all: no
\* other can make it fail.
Leads(r) ==
    /\ pc[r] # "failed"
    /\ pc[r] = "create" => ~ created
    /\ at[r] \notin applied

\* Before the table exists, nothing has happened.
Fresh == ~ created => applied = {} /\ \A r \in Runner : pc[r] \in {"create", "failed"} /\ at[r] = 1

Led == faults = 0 => \E r \in Runner : Leads(r)

MigrationsInv ==
    /\ TypeOK
    /\ Locked
    /\ Behind
    /\ AppliedOnce
    /\ AppliedInOrder
    /\ Fresh
    /\ Led

-----------------------------------------------------------------------------
\* The step of one runner leaves the others where they are.
LEMMA OthersStay ==
    ASSUME TypeOK, NEW r \in Runner, Run(r) \/ Fault(r)
    PROVE  \A q \in Runner : q # r => pc'[q] = pc[q] /\ at'[q] = at[q]
BY DEF TypeOK, Run, Fault, Create, CreateCollides, Check, Execute, Insert, Commit,
       Continue, Fail, Goto

LEMMA InitMigrations == Init => MigrationsInv
<1> SUFFICES ASSUME Init PROVE MigrationsInv
    OBVIOUS
<1>1. TypeOK
    <2>1. at \in [Runner -> 1..Files + 1] /\ faults \in 0..MaxFaults
        BY MigrationsAssumption DEF Init
    <2>2. QED BY <2>1 DEF Init, TypeOK, File
<1>2. Locked /\ Behind /\ AppliedOnce /\ AppliedInOrder /\ Fresh
    BY DEF Init, Locked, Behind, AppliedOnce, AppliedInOrder, Fresh, File
<1>3. Led
    BY MigrationsAssumption DEF Init, Led, Leads
<1>4. QED BY <1>1, <1>2, <1>3 DEF MigrationsInv

\* Values keep their types, and a registration is of a file not yet applied.
LEMMA NextMigrationsTyped == MigrationsInv /\ [Next]_vars => TypeOK'
<1> SUFFICES ASSUME MigrationsInv, [Next]_vars PROVE TypeOK'
    OBVIOUS
<1> USE MigrationsAssumption DEF MigrationsInv
<1>1. ASSUME NEW r \in Runner, Create(r) \/ CreateCollides(r) PROVE TypeOK'
    BY <1>1 DEF TypeOK, Create, CreateCollides, Fail, Goto
<1>2. ASSUME NEW r \in Runner, Check(r) PROVE TypeOK'
    <2>1. at' \in [Runner -> 1..Files + 1]
        BY <1>2 DEF TypeOK, Check, AlreadyApplied, Continue, File
    <2>2. pc' \in [Runner -> {"create", "check", "execute", "insert", "commit", "ok", "failed"}]
          /\ pc'[r] \in {"check", "execute", "ok"} /\ (pc'[r] = "execute" => at'[r] \in File)
        BY <1>2 DEF TypeOK, Check, Continue, Goto
    <2>3. QED BY <1>2, <2>1, <2>2, OthersStay DEF TypeOK, Check, Run
<1>3. ASSUME NEW r \in Runner, Execute(r) \/ Insert(r) PROVE TypeOK'
    BY <1>3 DEF TypeOK, Execute, Insert, Fail, Goto
<1>4. ASSUME NEW r \in Runner, Commit(r) PROVE TypeOK'
    <2>1. at[r] \in File
        BY <1>4 DEF TypeOK, Commit
    <2>2. \A q \in Runner : pc[q] = "commit" /\ q # r => at[q] # at[r]
        BY <1>4 DEF Locked, Commit
    <2>3. /\ pc' \in [Runner -> {"create", "check", "execute", "insert", "commit", "ok", "failed"}]
          /\ at' \in [Runner -> 1..Files + 1]
          /\ pc'[r] \in {"check", "ok"}
        BY <1>4, <2>1 DEF TypeOK, Commit, Continue, Goto, File
    <2>4. applied' = applied \cup {at[r]} /\ runs' \in [File -> Nat] /\ UNCHANGED <<created, faults>>
        BY <1>4, <2>1 DEF TypeOK, Commit, Committed
    <2>5. QED BY <1>4, <2>1, <2>2, <2>3, <2>4, OthersStay DEF TypeOK, Run
<1>5. ASSUME NEW r \in Runner, Fault(r) PROVE TypeOK'
    <2>1. pc' = [pc EXCEPT ![r] = "failed"] /\ at' = at /\ created' = created
          /\ faults' \in 0..MaxFaults
        BY <1>5 DEF TypeOK, Fault, Goto
    <2>2. CASE UNCHANGED <<applied, runs>>
        BY <2>1, <2>2 DEF TypeOK
    <2>3. CASE pc[r] = "commit" /\ Committed(r)
        <3>1. at[r] \in File /\ \A q \in Runner : pc[q] = "commit" /\ q # r => at[q] # at[r]
            BY <2>3 DEF Locked, TypeOK
        <3>2. QED BY <2>1, <2>3, <3>1 DEF TypeOK, Committed
    <2>4. QED BY <1>5, <2>2, <2>3 DEF Fault
<1>6. CASE UNCHANGED vars
    BY <1>6 DEF TypeOK, vars
<1>7. QED BY <1>1, <1>2, <1>3, <1>4, <1>5, <1>6 DEF Next, Run

\* The primary key keeps the open registrations of a file apart.
LEMMA NextLocked == MigrationsInv /\ [Next]_vars => Locked'
<1> SUFFICES ASSUME MigrationsInv, [Next]_vars PROVE Locked'
    OBVIOUS
<1> USE DEF MigrationsInv
<1>1. ASSUME NEW r \in Runner, Run(r) \/ Fault(r), pc'[r] # "commit" PROVE Locked'
    BY <1>1, OthersStay DEF Locked
<1>2. ASSUME NEW r \in Runner, Insert(r), pc'[r] = "commit" PROVE Locked'
    <2>1. at' = at /\ \A q \in Runner : pc[q] = "commit" => at[q] # at[r]
        BY <1>2 DEF Insert, Unregistered, Fail, TypeOK, Goto
    <2>2. QED BY <1>2, <2>1, OthersStay DEF Locked, Run
<1>3. ASSUME NEW r \in Runner, Run(r) \/ Fault(r), pc'[r] = "commit" PROVE Insert(r)
    BY <1>3 DEF TypeOK, Run, Fault, Create, CreateCollides, Check, Execute, Commit,
                Continue, Fail, Goto
<1>4. CASE UNCHANGED vars
    BY <1>4 DEF Locked, vars
<1>5. QED BY <1>1, <1>2, <1>3, <1>4 DEF Next

\* What a step does to the tables: nothing, or it applies one file that was
\* not applied, behind which everything is.
Applies(f) ==
    /\ f \in File /\ f \notin applied
    /\ \A e \in File : e < f => e \in applied
    /\ applied' = applied \cup {f}
    /\ runs' = [runs EXCEPT ![f] = @ + 1]

LEMMA StepApplies ==
    ASSUME MigrationsInv, NEW r \in Runner, Run(r) \/ Fault(r)
    PROVE  \/ UNCHANGED <<applied, runs>>
           \/ pc[r] = "commit" /\ Applies(at[r])
<1>1. CASE pc[r] = "commit"
    <2>1. at[r] \in File /\ at[r] \notin applied /\ \A e \in File : e < at[r] => e \in applied
        BY <1>1 DEF MigrationsInv, TypeOK, Behind
    <2>2. UNCHANGED <<applied, runs>> \/ Committed(r)
        BY <1>1 DEF Run, Fault, Create, CreateCollides, Check, Execute, Insert, Commit
    <2>3. QED BY <1>1, <2>1, <2>2 DEF Committed, Applies
<1>2. CASE pc[r] # "commit"
    BY <1>2 DEF Run, Fault, Create, CreateCollides, Check, Execute, Insert, Commit, Fail
<1>3. QED BY <1>1, <1>2

LEMMA NextBehind == MigrationsInv /\ [Next]_vars => Behind'
<1> SUFFICES ASSUME MigrationsInv, [Next]_vars PROVE Behind'
    OBVIOUS
<1>1. ASSUME NEW r \in Runner, Run(r) \/ Fault(r) PROVE Behind'
    <2>1. applied \subseteq applied'
        BY <1>1, StepApplies DEF Applies
    <2>2. ASSUME NEW f \in File, f < at'[r] PROVE f \in applied'
        <3>1. CASE at'[r] = at[r]
            BY <2>1, <2>2, <3>1 DEF MigrationsInv, Behind
        <3>2. CASE at'[r] = at[r] + 1 /\ at[r] \in applied'
            BY <2>1, <2>2, <3>2 DEF MigrationsInv, Behind, TypeOK, File
        <3>3. (at'[r] = at[r]) \/ (at'[r] = at[r] + 1 /\ at[r] \in applied')
            BY <1>1 DEF MigrationsInv, TypeOK, Run, Fault, Create, CreateCollides, Check, Execute,
                        Insert, Commit, Committed, Continue, AlreadyApplied, Fail, Goto
        <3>4. QED BY <3>1, <3>2, <3>3
    <2>3. ASSUME pc'[r] = "ok" PROVE at'[r] = Files + 1
        <3>1. CASE Check(r)
            BY <2>3, <3>1, MigrationsAssumption
               DEF MigrationsInv, TypeOK, Check, Continue, AlreadyApplied, Goto, File
        <3>2. CASE Commit(r)
            BY <2>3, <3>2, MigrationsAssumption DEF MigrationsInv, TypeOK, Commit, Continue, Goto, File
        <3>3. CASE Create(r) \/ CreateCollides(r) \/ Execute(r) \/ Insert(r) \/ Fault(r)
            BY <2>3, <3>3 DEF MigrationsInv, TypeOK, Create, CreateCollides, Execute, Insert, Fault, Fail, Goto
        <3>4. QED BY <1>1, <3>1, <3>2, <3>3 DEF Run
    <2>4. QED BY <1>1, <2>1, <2>2, <2>3, OthersStay DEF MigrationsInv, Behind
<1>2. CASE UNCHANGED vars
    BY <1>2 DEF MigrationsInv, Behind, vars
<1>3. QED BY <1>1, <1>2 DEF Next

LEMMA NextApplied == MigrationsInv /\ [Next]_vars => (AppliedOnce /\ AppliedInOrder)'
<1> SUFFICES ASSUME MigrationsInv, [Next]_vars PROVE (AppliedOnce /\ AppliedInOrder)'
    OBVIOUS
<1>1. CASE UNCHANGED <<applied, runs>>
    BY <1>1 DEF MigrationsInv, AppliedOnce, AppliedInOrder
<1>2. ASSUME NEW f \in File, Applies(f) PROVE (AppliedOnce /\ AppliedInOrder)'
    <2>1. AppliedOnce'
        BY <1>2 DEF MigrationsInv, TypeOK, AppliedOnce, Applies
    <2>2. AppliedInOrder'
        BY <1>2, MigrationsAssumption DEF MigrationsInv, AppliedInOrder, Applies, File
    <2>3. QED BY <2>1, <2>2
<1>3. QED BY <1>1, <1>2, StepApplies DEF Next, vars, Applies

LEMMA NextFresh == MigrationsInv /\ [Next]_vars => Fresh'
BY DEF MigrationsInv, TypeOK, Fresh, Next, Run, Fault, Create, CreateCollides, Check, Execute, Insert,
       Commit, Committed, Continue, Fail, Goto, vars

\* The leader goes on, or is replaced by the runner that did its work first.
LEMMA NextLed == MigrationsInv /\ [Next]_vars => Led'
<1> SUFFICES ASSUME MigrationsInv, [Next]_vars, faults' = 0 PROVE \E r \in Runner : Leads(r)'
    BY DEF Led
<1>1. CASE UNCHANGED vars
    <2>1. \E r \in Runner : Leads(r)
        BY <1>1 DEF MigrationsInv, Led, vars
    <2>2. QED BY <1>1, <2>1 DEF Leads, vars
<1>2. ASSUME NEW q \in Runner, Run(q) \/ Fault(q) PROVE \E r \in Runner : Leads(r)'
    <2>0. \A r \in Runner : r # q => pc'[r] = pc[r] /\ at'[r] = at[r]
        BY <1>2, OthersStay DEF MigrationsInv
    <2>1. Run(q) /\ faults = 0
        BY <1>2 DEF Run, Fault, Create, CreateCollides, Check, Execute, Insert, Commit, MigrationsInv, TypeOK
    <2>2. PICK r \in Runner : Leads(r)
        BY <2>1 DEF MigrationsInv, Led
    <2>3. CASE Create(q)
        <3>1. CASE created
            BY <2>0, <2>2, <2>3, <3>1 DEF Create, Leads, MigrationsInv, TypeOK, Goto
        <3>2. CASE ~ created
            <4>1. at'[q] = 1 /\ pc'[q] = "check" /\ applied' = {}
                BY <2>3, <3>2 DEF Create, MigrationsInv, TypeOK, Fresh, Goto
            <4>2. QED BY <4>1 DEF Leads
        <3>3. QED BY <3>1, <3>2
    <2>4. CASE CreateCollides(q)
        <3>1. r # q /\ UNCHANGED <<created, applied>>
            BY <2>2, <2>4 DEF CreateCollides, Leads, Fail
        <3>2. QED BY <2>0, <2>2, <3>1 DEF Leads
    <2>5. CASE Check(q) /\ at[q] \notin applied
        <3>1. UNCHANGED <<created, applied, at>> /\ pc'[q] \notin {"failed", "create"}
            BY <2>5 DEF Check, AlreadyApplied, MigrationsInv, TypeOK, Goto
        <3>2. QED BY <2>0, <2>2, <3>1 DEF Leads
    <2>6. CASE Check(q) /\ at[q] \in applied
        <3>1. r # q /\ UNCHANGED <<created, applied>>
            BY <2>2, <2>6 DEF Check, Leads
        <3>2. QED BY <2>0, <2>2, <3>1 DEF Leads
    <2>7. CASE Execute(q) \/ Insert(q)
        <3>1. UNCHANGED <<created, applied, at>>
            BY <2>7 DEF Execute, Insert, Fail
        <3>2. pc'[q] # "create" /\ (at[q] \notin applied => pc'[q] # "failed")
            BY <2>7 DEF Execute, Insert, Fail, Goto, MigrationsInv, TypeOK
        <3>3. QED BY <2>0, <2>2, <3>1, <3>2 DEF Leads
    <2>8. CASE Commit(q)
        <3>1. at[q] \in File /\ at[q] \notin applied /\ applied' = applied \cup {at[q]}
            BY <2>8 DEF Commit, Committed, MigrationsInv, TypeOK
        <3>2. at'[q] = at[q] + 1 /\ pc'[q] \in {"check", "ok"}
            BY <2>8, <3>1 DEF Commit, Continue, Goto, MigrationsInv, TypeOK
        <3>3. at[q] + 1 \notin applied
            BY <3>1, MigrationsAssumption DEF MigrationsInv, TypeOK, AppliedInOrder, File
        <3>4. QED BY <3>1, <3>2, <3>3, MigrationsAssumption DEF Leads, File
    <2>9. QED BY <2>1, <2>3, <2>4, <2>5, <2>6, <2>7, <2>8 DEF Run
<1>3. QED BY <1>1, <1>2 DEF Next

\* The invariant holds in every reachable state.
THEOREM MigrationsInvariance == Spec => []MigrationsInv
<1>1. MigrationsInv /\ [Next]_vars => MigrationsInv'
    BY NextMigrationsTyped, NextLocked, NextBehind, NextApplied, NextFresh, NextLed DEF MigrationsInv
<1>2. QED BY <1>1, InitMigrations, PTL DEF Spec

\* Every variable keeps its type, and no two runners register the same file.
THEOREM MigrationsTypeCorrect == Spec => []TypeOK
BY MigrationsInvariance, PTL DEF MigrationsInv

\* However many runners race, and wherever they die, the statements of a file
\* are committed once, with its registration.
THEOREM MigrationsAppliedOnce == Spec => []AppliedOnce
BY MigrationsInvariance, PTL DEF MigrationsInv

\* Files are applied in their order.
THEOREM MigrationsInOrder == Spec => []AppliedInOrder
BY MigrationsInvariance, PTL DEF MigrationsInv

\* A run that ended well leaves every file applied.
THEOREM OkIsComplete == Spec => []OkMeansComplete
<1>1. MigrationsInv => OkMeansComplete
    <2> SUFFICES ASSUME MigrationsInv, NEW r \in Runner, pc[r] = "ok" PROVE applied = File
        BY DEF OkMeansComplete
    <2>1. at[r] = Files + 1 /\ applied \subseteq File
        BY DEF MigrationsInv, TypeOK, Behind
    <2>2. \A f \in File : f < at[r]
        BY <2>1, MigrationsAssumption DEF File
    <2>3. QED BY <2>1, <2>2 DEF MigrationsInv, Behind
<1>2. QED BY <1>1, MigrationsInvariance, PTL

\* Without a fault, not all runners fail.
THEOREM RaceIsWon == Spec => []RaceHasWinner
<1>1. MigrationsInv => RaceHasWinner
    BY DEF MigrationsInv, Led, Leads, RaceHasWinner, Ended
<1>2. QED BY <1>1, MigrationsInvariance, PTL
=============================================================================

------------------------ MODULE ReleaseScannerProofs ------------------------
(***************************************************************************)
(* Proofs about ReleaseScanner, for any replicas, scans, repositories,     *)
(* subscribers, releases, chunks, attempts and faults.                     *)
(***************************************************************************)
EXTENDS ReleaseScanner, TLAPS

AtPoint == {"none", "waiting", "fetching", "found", "listing", "publishing", "recording"}

\* TypeOK in parts.
WorldTypes ==
    /\ latest \in [Repository -> Tag]
    /\ tracked \subseteq Repository
    /\ lastSeen \in [Repository -> Tag]
    /\ releases \in [Repository -> SUBSET Tag]
    /\ subscriber \in [Subscription -> {"new", "fetching", "saving", "pending", "active", "left"}]
    /\ asked \in [Subscription -> Tag]
    /\ since \in [Subscription -> Tag]

ObservedTypes ==
    /\ sent \in [Subscription -> [Tag -> Nat]]
    /\ overlapped \in BOOLEAN
    /\ faults \in 0..MaxFaults

ScanTypes ==
    /\ host \in [Scan -> Replica \cup {None}]
    /\ phase \in [Scan -> {"idle", "select", "discover", "handle"}]
    /\ at \in [Scan -> [Repository -> AtPoint]]
    /\ tag \in [Scan -> [Repository -> Tag]]
    /\ audience \in [Scan -> SUBSET Subscription]
    /\ tries \in [Scan -> [Subscription -> 0..Attempts]]
    /\ failed \in [Scan -> SUBSET Repository]

Addressed == \A s \in Scan : \A u \in audience[s] : at[s][RepoOf[u]] = "publishing"

\* Where a scan may be with its repositories in each of its phases.
Phases ==
    \A s \in Scan :
        /\ host[s] = None => phase[s] = "idle"
        /\ \A r \in Repository :
              /\ phase[s] \in {"idle", "select"} => at[s][r] = "none"
              /\ phase[s] = "discover" => at[s][r] \in {"none", "waiting", "fetching", "found"}
              /\ phase[s] = "handle" =>
                     at[s][r] \in {"none", "waiting", "listing", "publishing", "recording"}

\* No tag is known before it came out.
Bounded ==
    /\ \A r \in Repository :
          /\ lastSeen[r] <= latest[r]
          /\ \A t \in releases[r] : t <= latest[r]
          /\ \A s \in Scan : tag[s][r] <= latest[r]
    /\ \A u \in Subscription : asked[u] <= latest[RepoOf[u]] /\ since[u] <= latest[RepoOf[u]]

\* Whoever has a subscription has a tracked repository.
Followed ==
    \A u \in Subscription :
        subscriber[u] \in {"pending", "active", "left"} => RepoOf[u] \in tracked

\* A subscriber who has been waiting for a tag.
Due(u, t) == subscriber[u] = "active" /\ since[u] < t

\* Of those who wait for the tag a scan publishes, all have got it, are still
\* addressed, or keep it from being recorded.
Served ==
    \A s \in Scan, u \in Subscription :
        LET r == RepoOf[u] IN
        Due(u, tag[s][r]) =>
            /\ at[s][r] = "publishing" =>
                   u \in audience[s] \/ sent[u][tag[s][r]] > 0 \/ r \in failed[s]
            /\ at[s][r] = "recording" => sent[u][tag[s][r]] > 0

ScannerInv == TypeOK /\ Phases /\ Bounded /\ Followed /\ Served /\ Reached

-----------------------------------------------------------------------------
USE ScannerAssumption

LEMMA TypeParts ==
    /\ TypeOK <=> WorldTypes /\ ObservedTypes /\ ScanTypes /\ Addressed
    /\ TypeOK' <=> WorldTypes' /\ ObservedTypes' /\ ScanTypes' /\ Addressed'
BY DEF TypeOK, WorldTypes, ObservedTypes, ScanTypes, Addressed, AtPoint

ScanStep(s) ==
    \/ Proceed(s) \/ SelectError(s) \/ Crash(s)
    \/ \E h \in Replica : StartScan(s, h)
    \/ \E r \in Repository : TaskError(s, r)
    \/ \E u \in Subscription : PublishError(s, u)

LEMMA Steps ==
    [Next]_vars =>
        \/ \E r \in Repository : Release(r)
        \/ \E u \in Subscription : Request(u)
        \/ \E s \in Scan : ScanStep(s)
        \/ UNCHANGED vars
BY DEF Next, ScanStep

(* What a scan leaves alone.                                               *)

LEMMA ScanLeavesPeople ==
    ASSUME NEW s \in Scan, ScanStep(s) PROVE UNCHANGED <<latest, people>>
<1> USE DEF people
<1>1. CASE Proceed(s)
    BY <1>1 DEF Proceed, Select, StartChunk, EndDiscovery, EndScan, Fetch, List, StartSends,
       Conclude, Record, Publish
<1>2. CASE SelectError(s) \/ Crash(s) \/ (\E h \in Replica : StartScan(s, h))
    BY <1>2 DEF SelectError, Crash, StartScan
<1>3. CASE (\E r \in Repository : TaskError(s, r)) \/ \E u \in Subscription : PublishError(s, u)
    BY <1>3 DEF TaskError, PublishError
<1>4. QED BY <1>1, <1>2, <1>3 DEF ScanStep

\* A scan changes its own variables only.
Apart(s) ==
    \A q \in Scan \ {s} :
        /\ host'[q] = host[q] /\ phase'[q] = phase[q] /\ at'[q] = at[q] /\ tag'[q] = tag[q]
        /\ audience'[q] = audience[q] /\ tries'[q] = tries[q] /\ failed'[q] = failed[q]

LEMMA ScansApart == ASSUME ScanTypes, NEW s \in Scan, ScanStep(s) PROVE Apart(s)
<1> USE DEF ScanTypes, Apart, scans, Place, End, Settle, Finish
<1>1. CASE Select(s) \/ StartChunk(s) \/ EndDiscovery(s) \/ EndScan(s)
    BY <1>1 DEF Select, StartChunk, EndDiscovery, EndScan
<1>2. ASSUME NEW r \in Repository,
             Fetch(s, r) \/ List(s, r) \/ StartSends(s, r) \/ Conclude(s, r) \/ Record(s, r)
      PROVE  Apart(s)
    BY <1>2 DEF Fetch, List, StartSends, Conclude, Record
<1>3. ASSUME NEW u \in Subscription, Publish(s, u) \/ PublishError(s, u)
      PROVE  Apart(s)
    BY <1>3 DEF Publish, PublishError
<1>4. CASE SelectError(s) \/ Crash(s) \/ (\E h \in Replica : StartScan(s, h))
    BY <1>4 DEF SelectError, Crash, StartScan
<1>5. CASE \E r \in Repository : TaskError(s, r)
    BY <1>5 DEF TaskError
<1>6. QED BY <1>1, <1>2, <1>3, <1>4, <1>5 DEF ScanStep, Proceed

\* A request, and a release, change no scan.
LEMMA RequestsLeaveScans ==
    ASSUME (\E r \in Repository : Release(r)) \/ \E u \in Subscription : Request(u)
    PROVE  UNCHANGED <<scans, sent, overlapped>>
<1>1. CASE \E r \in Repository : Release(r)
    BY <1>1 DEF Release
<1>2. CASE \E u \in Subscription : Request(u)
    BY <1>2 DEF Request, Track, FetchFirst, Save, Activate, Unsubscribe, RequestError
<1>3. QED BY <1>1, <1>2

\* The scan that moves keeps its types and is where its phase allows.
LEMMA ScanTyped ==
    ASSUME WorldTypes, ScanTypes, Addressed, Phases, NEW s \in Scan, ScanStep(s)
    PROVE  ScanTypes' /\ Addressed' /\ Phases'
<1> DEFINE Here ==
        /\ host[s] \in Replica \cup {None}
        /\ phase[s] \in {"idle", "select", "discover", "handle"}
        /\ at[s] \in [Repository -> AtPoint]
        /\ tag[s] \in [Repository -> Tag]
        /\ audience[s] \in SUBSET Subscription
        /\ tries[s] \in [Subscription -> 0..Attempts]
        /\ failed[s] \in SUBSET Repository
        /\ \A u \in audience[s] : at[s][RepoOf[u]] = "publishing"
        /\ host[s] = None => phase[s] = "idle"
        /\ \A r \in Repository :
              /\ phase[s] \in {"idle", "select"} => at[s][r] = "none"
              /\ phase[s] = "discover" => at[s][r] \in {"none", "waiting", "fetching", "found"}
              /\ phase[s] = "handle" =>
                     at[s][r] \in {"none", "waiting", "listing", "publishing", "recording"}
<1> DEFINE Shaped ==
        /\ host' \in [Scan -> Replica \cup {None}]
        /\ phase' = [q \in Scan |-> phase'[q]] /\ at' = [q \in Scan |-> at'[q]]
        /\ tag' = [q \in Scan |-> tag'[q]] /\ audience' = [q \in Scan |-> audience'[q]]
        /\ tries' = [q \in Scan |-> tries'[q]] /\ failed' = [q \in Scan |-> failed'[q]]
<1>1. Here
    BY DEF ScanTypes, Addressed, Phases
<1>2. Here'
    <2> USE <1>1 DEF ScanTypes, scans, Place, End, AtPoint, In, Busy
    <2>1. CASE Select(s)
        BY <2>1 DEF Select, WorldTypes, Tag
    <2>2. CASE StartChunk(s)
        <3>1. PICK R \in NextChunk(In(s, "waiting")) :
                  Place(s, R, IF phase[s] = "discover" THEN "fetching" ELSE "listing")
            BY <2>2 DEF StartChunk
        <3>2. \A r \in R : at[s][r] = "waiting"
            BY <3>1 DEF NextChunk, kSubset
        <3>3. QED BY <2>2, <3>1, <3>2 DEF StartChunk
    <2>3. CASE EndDiscovery(s)
        BY <2>3 DEF EndDiscovery
    <2>4. CASE EndScan(s)
        BY <2>4 DEF EndScan, Finish
    <2>5. ASSUME NEW r \in Repository, Fetch(s, r) PROVE Here'
        <3>1. at[s][r] = "fetching" /\ UNCHANGED <<host, phase, audience, tries, failed>>
            BY <2>5 DEF Fetch
        <3>2. PICK p \in {"none", "found"} : Place(s, {r}, p)
            BY <2>5 DEF Fetch
        <3>3. tag'[s] \in [Repository -> Tag]
            BY <2>5 DEF Fetch, WorldTypes, Tag
        <3>4. \A u \in audience[s] : RepoOf[u] \in Repository /\ RepoOf[u] # r
            BY <3>1
        <3>5. QED BY <3>1, <3>2, <3>3, <3>4
    <2>6. ASSUME NEW r \in Repository, List(s, r) PROVE Here'
        BY <2>6 DEF List, ActiveSubscribers
    <2>7. ASSUME NEW r \in Repository, StartSends(s, r) PROVE Here'
        BY <2>7 DEF StartSends
    <2>8. ASSUME NEW r \in Repository, Conclude(s, r) PROVE Here'
        <3>1. at[s][r] = "publishing" /\ UNCHANGED <<host, phase, audience, tries>>
              /\ \A u \in audience[s] : RepoOf[u] \in Repository /\ RepoOf[u] # r
            BY <2>8 DEF Conclude, Audience
        <3>2. PICK p \in {"none", "recording"} : Place(s, {r}, p)
            BY <2>8 DEF Conclude
        <3>3. tag'[s] \in [Repository -> Tag] /\ failed'[s] \in SUBSET Repository
            <4>1. failed'[s] = failed[s] \ {r}
                BY <2>8 DEF Conclude
            <4>2. tag' = tag \/ tag' = [tag EXCEPT ![s][r] = 0]
                BY <2>8 DEF Conclude
            <4>3. 0 \in Tag
                BY DEF Tag
            <4>4. tag'[s] \in [Repository -> Tag]
                <5>1. CASE tag' = tag
                    BY <5>1
                <5>2. CASE tag' = [tag EXCEPT ![s][r] = 0]
                    <6>1. tag'[s] = [tag[s] EXCEPT ![r] = 0]
                        BY <5>2
                    <6>2. QED BY <4>3, <6>1
                <5>3. QED BY <4>2, <5>1, <5>2
            <4>5. failed'[s] \in SUBSET Repository
                BY <4>1
            <4>6. QED BY <4>4, <4>5
        <3>4. phase[s] = "handle"
            BY <3>1
        <3>5. QED BY <3>1, <3>2, <3>3, <3>4
    <2>9. ASSUME NEW r \in Repository, Record(s, r) PROVE Here'
        BY <2>9 DEF Record, Tag
    <2>10. ASSUME NEW u \in Subscription, Publish(s, u) PROVE Here'
        BY <2>10 DEF Publish, Settle
    <2>11. CASE SelectError(s)
        BY <2>11 DEF SelectError, Finish
    <2>12. CASE Crash(s)
        BY <2>12 DEF Crash, Finish, Tag
    <2>13. ASSUME NEW h \in Replica, StartScan(s, h) PROVE Here'
        BY <2>13 DEF StartScan
    <2>14. ASSUME NEW r \in Repository, TaskError(s, r) PROVE Here'
        BY <2>14 DEF TaskError, Tag
    <2>15. ASSUME NEW u \in Subscription, PublishError(s, u) PROVE Here'
        <3>1. UNCHANGED <<host, phase, at, tag>>
            BY <2>15 DEF PublishError
        <3>2. audience'[s] \subseteq audience[s] /\ failed'[s] \in SUBSET Repository
            BY <2>15 DEF PublishError, Settle
        <3>3. tries'[s] \in [Subscription -> 0..Attempts]
            <4>1. \/ tries[s][u] < Attempts /\ tries'[s] = [tries[s] EXCEPT ![u] = @ + 1]
                  \/ tries'[s] = [tries[s] EXCEPT ![u] = 0]
                BY <2>15 DEF PublishError, Settle
            <4>2. tries[s][u] \in 0..Attempts /\ tries[s] \in [Subscription -> 0..Attempts]
                OBVIOUS
            <4>3. PICK n \in 0..Attempts : tries'[s] = [tries[s] EXCEPT ![u] = n]
                <5>1. CASE tries[s][u] < Attempts /\ tries'[s] = [tries[s] EXCEPT ![u] = @ + 1]
                    <6>1. tries[s][u] + 1 \in 0..Attempts
                        BY <4>2, <5>1
                    <6>2. QED BY <5>1, <6>1
                <5>2. CASE tries'[s] = [tries[s] EXCEPT ![u] = 0]
                    <6>1. 0 \in 0..Attempts
                        OBVIOUS
                    <6>2. QED BY <5>2, <6>1
                <5>3. QED BY <4>1, <5>1, <5>2
            <4>4. QED BY <4>2, <4>3
        <3>4. QED BY <3>1, <3>2, <3>3
    <2>16. QED BY <2>1, <2>2, <2>3, <2>4, <2>5, <2>6, <2>7, <2>8, <2>9, <2>10, <2>11, <2>12,
                  <2>13, <2>14, <2>15 DEF ScanStep, Proceed
<1>3. Shaped
    <2> USE DEF ScanTypes, scans, Place, End, Finish, Settle
    <2>1. CASE Select(s) \/ StartChunk(s) \/ EndDiscovery(s) \/ EndScan(s)
        BY <2>1 DEF Select, StartChunk, EndDiscovery, EndScan
    <2>2. ASSUME NEW r \in Repository,
                 Fetch(s, r) \/ List(s, r) \/ StartSends(s, r) \/ Conclude(s, r) \/ Record(s, r)
          PROVE  Shaped
        BY <2>2 DEF Fetch, List, StartSends, Conclude, Record
    <2>3. ASSUME NEW u \in Subscription, Publish(s, u) \/ PublishError(s, u)
          PROVE  Shaped
        BY <2>3 DEF Publish, PublishError
    <2>4. CASE SelectError(s)
        BY <2>4 DEF SelectError
    <2>5. CASE Crash(s)
        BY <2>5 DEF Crash
    <2>6. ASSUME NEW h \in Replica, StartScan(s, h) PROVE Shaped
        BY <2>6 DEF StartScan
    <2>7. CASE \E r \in Repository : TaskError(s, r)
        BY <2>7 DEF TaskError
    <2>8. QED BY <2>1, <2>2, <2>3, <2>4, <2>5, <2>6, <2>7 DEF ScanStep, Proceed
<1>4. Apart(s)
    BY ScansApart
<1>5. ScanTypes'
    <2>1. \A q \in Scan : /\ phase'[q] \in {"idle", "select", "discover", "handle"}
                          /\ at'[q] \in [Repository -> AtPoint]
                          /\ tag'[q] \in [Repository -> Tag]
                          /\ audience'[q] \in SUBSET Subscription
                          /\ tries'[q] \in [Subscription -> 0..Attempts]
                          /\ failed'[q] \in SUBSET Repository
        <3> SUFFICES ASSUME NEW q \in Scan
                     PROVE  /\ phase'[q] \in {"idle", "select", "discover", "handle"}
                            /\ at'[q] \in [Repository -> AtPoint]
                            /\ tag'[q] \in [Repository -> Tag]
                            /\ audience'[q] \in SUBSET Subscription
                            /\ tries'[q] \in [Subscription -> 0..Attempts]
                            /\ failed'[q] \in SUBSET Repository
            OBVIOUS
        <3>1. CASE q = s
            BY <1>2, <3>1
        <3>2. CASE q # s
            BY <1>4, <3>2 DEF ScanTypes, Apart
        <3>3. QED BY <3>1, <3>2
    <2>2. QED BY <1>3, <2>1 DEF ScanTypes
<1>6. Addressed' /\ Phases'
    BY <1>2, <1>4 DEF Addressed, Phases, Apart
<1>7. QED BY <1>5, <1>6

(* The tables, the subscribers and what was sent.                          *)

\* The tables change where a scan records a release, and only there.
LEMMA ScanRecords ==
    ASSUME NEW s \in Scan, ScanStep(s)
    PROVE  \/ UNCHANGED tables
           \/ \E r \in Repository : at[s][r] = "recording" /\ SaveRelease(s, r) /\ End(s, r)
<1>1. CASE Proceed(s)
    BY <1>1 DEF Proceed, Select, StartChunk, EndDiscovery, EndScan, Fetch, List, StartSends,
       Conclude, Record, Publish
<1>2. CASE SelectError(s) \/ Crash(s) \/ (\E h \in Replica : StartScan(s, h))
    BY <1>2 DEF SelectError, Crash, StartScan
<1>3. CASE (\E r \in Repository : TaskError(s, r)) \/ \E u \in Subscription : PublishError(s, u)
    BY <1>3 DEF TaskError, PublishError
<1>4. QED BY <1>1, <1>2, <1>3 DEF ScanStep

LEMMA ScanSends ==
    ASSUME NEW s \in Scan, ScanStep(s)
    PROVE  UNCHANGED sent \/ \E u \in Subscription : Count(s, u)
<1>1. CASE Proceed(s)
    BY <1>1 DEF Proceed, Select, StartChunk, EndDiscovery, EndScan, Fetch, List, StartSends,
       Conclude, Record, Publish
<1>2. CASE SelectError(s) \/ Crash(s) \/ (\E h \in Replica : StartScan(s, h))
    BY <1>2 DEF SelectError, Crash, StartScan
<1>3. CASE (\E r \in Repository : TaskError(s, r)) \/ \E u \in Subscription : PublishError(s, u)
    BY <1>3 DEF TaskError, PublishError
<1>4. QED BY <1>1, <1>2, <1>3 DEF ScanStep

LEMMA Spent == ASSUME ObservedTypes, NEW k, Spend(k) \/ UNCHANGED faults PROVE faults' \in 0..MaxFaults
BY DEF ObservedTypes, Spend

\* faults and overlapped are counted and noted, nothing else.
LEMMA NextCounted ==
    ASSUME ObservedTypes, [Next]_vars
    PROVE  faults' \in 0..MaxFaults /\ overlapped' \in BOOLEAN
<1>1. CASE (\E r \in Repository : Release(r)) \/ (\E u \in Subscription : Request(u)) \/ UNCHANGED vars
    <2>1. overlapped' = overlapped
        BY <1>1, RequestsLeaveScans DEF vars
    <2>2. UNCHANGED faults \/ Spend("github") \/ Spend("db")
        BY <1>1 DEF vars, Release, Request, Track, FetchFirst, Save, Activate, Unsubscribe, RequestError
    <2>3. QED BY <2>1, <2>2, Spent DEF ObservedTypes
<1>2. ASSUME NEW s \in Scan, ScanStep(s)
      PROVE  faults' \in 0..MaxFaults /\ overlapped' \in BOOLEAN
    <2>1. CASE Proceed(s)
        <3>1. UNCHANGED <<overlapped, faults>>
            BY <2>1 DEF Proceed, Select, StartChunk, EndDiscovery, EndScan, Fetch, List,
               StartSends, Conclude, Record, Publish
        <3>2. QED BY <3>1 DEF ObservedTypes
    <2>2. CASE SelectError(s) \/ Crash(s)
        <3>1. overlapped' = overlapped /\ (Spend("db") \/ Spend("crash"))
            BY <2>2 DEF SelectError, Crash
        <3>2. QED BY <3>1, Spent DEF ObservedTypes
    <2>3. CASE \E h \in Replica : StartScan(s, h)
        BY <2>3 DEF StartScan, ObservedTypes
    <2>4. CASE \/ \E r \in Repository : TaskError(s, r)
               \/ \E u \in Subscription : PublishError(s, u)
        <3>1. overlapped' = overlapped /\ \E k \in {"db", "github", "broker"} : Spend(k)
            BY <2>4 DEF TaskError, PublishError
        <3>2. QED BY <3>1, Spent DEF ObservedTypes
    <2>5. QED BY <1>2, <2>1, <2>2, <2>3, <2>4 DEF ScanStep
<1>3. QED BY <1>1, <1>2, Steps

\* What was sent is not taken back.
SentGrows == \A u \in Subscription, t \in Tag : sent[u][t] > 0 => sent'[u][t] > 0

LEMMA NextSent ==
    ASSUME ObservedTypes, ScanTypes, [Next]_vars
    PROVE  sent' \in [Subscription -> [Tag -> Nat]] /\ SentGrows
<1>1. CASE UNCHANGED sent
    BY <1>1 DEF ObservedTypes, SentGrows
<1>2. ASSUME NEW s \in Scan, NEW u \in Subscription, Count(s, u)
      PROVE  sent' \in [Subscription -> [Tag -> Nat]] /\ SentGrows
    <2>1. tag[s][RepoOf[u]] \in Tag
        BY DEF ScanTypes
    <2>2. PICK t \in Tag : sent' = [sent EXCEPT ![u][t] = @ + 1]
        BY <1>2, <2>1 DEF Count
    <2>3. sent \in [Subscription -> [Tag -> Nat]]
        BY DEF ObservedTypes
    <2>4. sent' = [sent EXCEPT ![u] = [sent[u] EXCEPT ![t] = @ + 1]]
        BY <2>2, <2>3
    <2>5. sent[u][t] \in Nat /\ [sent[u] EXCEPT ![t] = @ + 1] \in [Tag -> Nat]
        BY <2>3
    <2>6. sent' \in [Subscription -> [Tag -> Nat]]
        BY <2>3, <2>4, <2>5
    <2>7. SentGrows
        BY <2>3, <2>4, <2>5 DEF SentGrows
    <2>8. QED BY <2>6, <2>7
<1>3. UNCHANGED sent \/ \E s \in Scan, u \in Subscription : Count(s, u)
    BY Steps, RequestsLeaveScans, ScanSends DEF vars
<1>4. QED BY <1>1, <1>2, <1>3

\* The tables and the subscribers keep their types, no tag is known before it
\* came out, and who has a subscription has a tracked repository.
LEMMA NextWorld ==
    ASSUME WorldTypes, ScanTypes, Bounded, Followed, [Next]_vars
    PROVE  /\ WorldTypes' /\ Followed'
           /\ \A r \in Repository :
                 /\ latest'[r] >= latest[r]
                 /\ lastSeen'[r] <= latest'[r]
                 /\ \A t \in releases'[r] : t <= latest'[r]
           /\ \A u \in Subscription : asked'[u] <= latest'[RepoOf[u]] /\ since'[u] <= latest'[RepoOf[u]]
<1> DEFINE Goal ==
        /\ WorldTypes' /\ Followed'
        /\ \A r \in Repository :
              /\ latest'[r] >= latest[r]
              /\ lastSeen'[r] <= latest'[r]
              /\ \A t \in releases'[r] : t <= latest'[r]
        /\ \A u \in Subscription : asked'[u] <= latest'[RepoOf[u]] /\ since'[u] <= latest'[RepoOf[u]]
<1> SUFFICES Goal
    OBVIOUS
<1> USE DEF WorldTypes, Bounded, Followed, Tag, tables, people
<1>1. ASSUME NEW r \in Repository, Release(r) PROVE Goal
    BY <1>1 DEF Release
<1>2. ASSUME NEW u \in Subscription, Track(u) PROVE Goal
    BY <1>2 DEF Track, Advance
<1>3. ASSUME NEW u \in Subscription, FetchFirst(u) PROVE Goal
    BY <1>3 DEF FetchFirst, Advance
<1>4. ASSUME NEW u \in Subscription, Save(u) PROVE Goal
    BY <1>4 DEF Save, Advance, upsertTrackedRepository
<1>5. ASSUME NEW u \in Subscription, Activate(u) \/ Unsubscribe(u) PROVE Goal
    BY <1>5 DEF Activate, Unsubscribe, Advance
<1>6. ASSUME NEW u \in Subscription, RequestError(u) PROVE Goal
    BY <1>6 DEF RequestError, Advance, upsertTrackedRepository
<1>7. ASSUME NEW s \in Scan, ScanStep(s) PROVE Goal
    <2>1. UNCHANGED <<latest, people>>
        BY <1>7, ScanLeavesPeople
    <2>2. CASE UNCHANGED tables
        BY <2>1, <2>2
    <2>3. ASSUME NEW r \in Repository, SaveRelease(s, r) PROVE Goal
        <3>1. tag[s][r] \in Tag /\ tag[s][r] <= latest[r]
            BY DEF ScanTypes
        <3>2. QED BY <2>1, <2>3, <3>1 DEF SaveRelease
    <2>4. QED BY <1>7, <2>2, <2>3, ScanRecords
<1>8. CASE UNCHANGED vars
    BY <1>8 DEF vars
<1>9. QED BY <1>1, <1>2, <1>3, <1>4, <1>5, <1>6, <1>7, <1>8, Steps DEF Request

LEMMA NextTags ==
    ASSUME WorldTypes, ScanTypes, Bounded, Followed, [Next]_vars
    PROVE  \A s \in Scan, r \in Repository : tag'[s][r] <= latest'[r]
<1> USE DEF WorldTypes, ScanTypes, Tag
<1>1. \A r \in Repository : latest[r] \in Nat /\ latest'[r] >= latest[r] /\ latest'[r] \in Nat
    BY NextWorld
<1>2. ASSUME NEW s \in Scan, ScanStep(s), NEW r \in Repository
      PROVE  tag'[s][r] \in {tag[s][r], 0, lastSeen[r], latest[r]}
    <2> USE DEF scans, End
    <2>1. CASE Select(s)
        BY <2>1 DEF Select
    <2>2. CASE StartChunk(s) \/ EndDiscovery(s) \/ EndScan(s)
        BY <2>2 DEF StartChunk, EndDiscovery, EndScan
    <2>3. ASSUME NEW q \in Repository, Fetch(s, q)
          PROVE  tag'[s][r] \in {tag[s][r], 0, latest[r]}
        BY <2>3 DEF Fetch
    <2>4. ASSUME NEW q \in Repository,
                 List(s, q) \/ StartSends(s, q) \/ Conclude(s, q) \/ Record(s, q) \/ TaskError(s, q)
          PROVE  tag'[s][r] \in {tag[s][r], 0}
        BY <2>4 DEF List, StartSends, Conclude, Record, TaskError
    <2>5. ASSUME NEW u \in Subscription, Publish(s, u) \/ PublishError(s, u)
          PROVE  tag'[s][r] = tag[s][r]
        BY <2>5 DEF Publish, PublishError
    <2>6. CASE SelectError(s) \/ Crash(s) \/ (\E h \in Replica : StartScan(s, h))
        BY <2>6 DEF SelectError, Crash, StartScan
    <2>7. QED BY <1>2, <2>1, <2>2, <2>3, <2>4, <2>5, <2>6 DEF ScanStep, Proceed
<1>3. ASSUME NEW s \in Scan, ScanStep(s), NEW q \in Scan, NEW r \in Repository
      PROVE  tag'[q][r] <= latest'[r]
    <2>1. CASE q = s
        <3>1. tag'[s][r] \in {tag[s][r], 0, lastSeen[r], latest[r]}
            BY <1>2, <1>3
        <3>2. tag[s][r] \in Nat /\ lastSeen[r] \in Nat
            OBVIOUS
        <3>3. tag[s][r] <= latest[r] /\ lastSeen[r] <= latest[r]
            BY DEF Bounded
        <3>4. latest[r] \in Nat /\ latest'[r] \in Nat /\ latest[r] <= latest'[r]
            BY <1>1
        <3> HIDE DEF WorldTypes, ScanTypes, Tag
        <3>5. QED BY <2>1, <3>1, <3>2, <3>3, <3>4
    <2>2. CASE q # s
        BY <1>1, <1>3, <2>2, ScansApart DEF Apart, Bounded
    <2>3. QED BY <2>1, <2>2
<1>4. CASE UNCHANGED tag
    BY <1>1, <1>4 DEF Bounded
<1>5. QED BY <1>3, <1>4, Steps, RequestsLeaveScans DEF scans, vars

\* Whoever becomes a subscriber does not wait for what is out.
LEMMA NextDue ==
    ASSUME WorldTypes, [Next]_vars, NEW u \in Subscription, NEW t \in Tag,
           Due(u, t)', t <= latest'[RepoOf[u]]
    PROVE  Due(u, t)
<1> USE DEF WorldTypes, Due
<1>1. CASE UNCHANGED people
    BY <1>1 DEF people
<1>2. ASSUME NEW v \in Subscription, Request(v)
      PROVE  Due(u, t)
    <2>1. CASE Activate(v)
        BY <2>1 DEF Activate, Advance, Tag
    <2>2. CASE Track(v) \/ FetchFirst(v) \/ Save(v) \/ Unsubscribe(v) \/ RequestError(v)
        BY <2>2 DEF Track, FetchFirst, Save, Unsubscribe, RequestError, Advance
    <2>3. QED BY <1>2, <2>1, <2>2 DEF Request
<1>3. UNCHANGED people \/ \E v \in Subscription : Request(v)
    BY Steps, ScanLeavesPeople DEF Release, vars, people
<1>4. QED BY <1>1, <1>2, <1>3

\* A scan serves those it publishes for, and goes on to record only then.
LEMMA ScanServes ==
    ASSUME WorldTypes, ScanTypes, ObservedTypes, Phases, Served, SentGrows,
           NEW s \in Scan, ScanStep(s), NEW u \in Subscription,
           Due(u, tag'[s][RepoOf[u]])
    PROVE  /\ at'[s][RepoOf[u]] = "publishing" =>
                  u \in audience'[s] \/ sent'[u][tag'[s][RepoOf[u]]] > 0 \/ RepoOf[u] \in failed'[s]
           /\ at'[s][RepoOf[u]] = "recording" => sent'[u][tag'[s][RepoOf[u]]] > 0
<1> DEFINE r == RepoOf[u]
           Goal == /\ at'[s][r] = "publishing" =>
                          u \in audience'[s] \/ sent'[u][tag'[s][r]] > 0 \/ r \in failed'[s]
                   /\ at'[s][r] = "recording" => sent'[u][tag'[s][r]] > 0
           Same == at'[s][r] = at[s][r] /\ tag'[s][r] = tag[s][r]
           Idle == at'[s][r] \notin {"publishing", "recording"}
<1> SUFFICES Goal
    OBVIOUS
<1>1. r \in Repository /\ tag[s][r] \in Tag
    BY DEF ScanTypes
<1>2. Same /\ audience[s] \subseteq audience'[s] /\ failed[s] \ {r} = failed'[s] \ {r}
           /\ (r \in failed[s] => r \in failed'[s]) => Goal
    BY <1>1 DEF Served, SentGrows
<1>3. Idle => Goal
    OBVIOUS
<1> HIDE DEF Goal, Idle
<1> USE <1>1 DEF ScanTypes, scans, Place, End, AtPoint
<1>4. CASE Select(s) \/ Crash(s)
    <2>1. CASE Select(s)
        <3>1. at[s][r] = "none"
            BY <2>1 DEF Select, Phases
        <3>2. at'[s][r] \in {"none", "waiting"}
            BY <2>1, <3>1 DEF Select
        <3>3. QED BY <1>3, <3>2 DEF Idle
    <2>2. CASE Crash(s)
        <3>1. at'[s][r] = "none"
            BY <2>2 DEF Crash
        <3>2. QED BY <1>3, <3>1 DEF Idle
    <2>3. QED BY <1>4, <2>1, <2>2
<1>5. CASE StartChunk(s)
    <2>1. PICK R \in NextChunk(In(s, "waiting")) :
              Place(s, R, IF phase[s] = "discover" THEN "fetching" ELSE "listing")
        BY <1>5 DEF StartChunk
    <2>2. UNCHANGED <<tag, audience, failed>>
        BY <1>5 DEF StartChunk
    <2>3. Idle \/ at'[s][r] = at[s][r]
        BY <2>1 DEF Idle
    <2>4. QED BY <1>2, <1>3, <2>2, <2>3
<1>6. CASE EndDiscovery(s)
    <2>1. (Idle \/ at'[s][r] = at[s][r]) /\ UNCHANGED <<tag, audience, failed>>
        BY <1>6 DEF EndDiscovery, Idle
    <2>2. QED BY <1>2, <1>3, <2>1
<1>7. CASE EndScan(s) \/ SelectError(s) \/ (\E h \in Replica : StartScan(s, h))
           \/ \E q \in Repository : StartSends(s, q)
    <2>1. UNCHANGED <<at, tag, audience, failed>>
        BY <1>7 DEF EndScan, SelectError, StartScan, StartSends
    <2>2. QED BY <1>2, <2>1
<1>8. ASSUME NEW q \in Repository, Fetch(s, q) \/ Record(s, q) \/ TaskError(s, q)
      PROVE  Goal
    <2>1. UNCHANGED <<audience, failed>>
        BY <1>8 DEF Fetch, Record, TaskError
    <2>2. CASE q = r
        <3>1. Idle
            BY <1>8, <2>2 DEF Fetch, Record, TaskError, Idle
        <3>2. QED BY <1>3, <3>1
    <2>3. CASE q # r
        <3>1. Same
            BY <1>8, <2>3 DEF Fetch, Record, TaskError
        <3>2. QED BY <1>2, <2>1, <3>1
    <2>4. QED BY <2>2, <2>3
<1>9. ASSUME NEW q \in Repository, List(s, q)
      PROVE  Goal
    <2>1. UNCHANGED <<tag, failed>> /\ audience' = [audience EXCEPT ![s] = @ \cup ActiveSubscribers(q)]
          /\ Place(s, {q}, "publishing")
        BY <1>9 DEF List
    <2>2. CASE q = r
        <3>1. u \in audience'[s] /\ at'[s][r] = "publishing"
            BY <2>1, <2>2 DEF ActiveSubscribers, Due
        <3>2. QED BY <3>1 DEF Goal
    <2>3. CASE q # r
        <3>1. Same /\ audience[s] \subseteq audience'[s]
            BY <2>1, <2>3
        <3>2. QED BY <1>2, <2>1, <3>1
    <2>4. QED BY <2>2, <2>3
<1>10. ASSUME NEW q \in Repository, Conclude(s, q)
       PROVE  Goal
    <2>1. /\ UNCHANGED audience /\ Audience(s, q) = {} /\ at[s][q] = "publishing"
          /\ failed' = [failed EXCEPT ![s] = @ \ {q}]
        BY <1>10 DEF Conclude
    <2>2. CASE q = r /\ r \in failed[s]
        <3>1. Idle
            BY <1>10, <2>2 DEF Conclude, Idle
        <3>2. QED BY <1>3, <3>1
    <2>3. CASE q = r /\ r \notin failed[s]
        <3>1. at'[s][r] = "recording" /\ tag' = tag
            BY <1>10, <2>3 DEF Conclude
        <3>2. u \notin audience[s]
            BY <2>1, <2>3 DEF Audience
        <3>3. sent[u][tag[s][r]] > 0
            BY <2>1, <2>3, <3>1, <3>2 DEF Served
        <3>4. QED BY <3>1, <3>3 DEF Goal, SentGrows
    <2>4. CASE q # r
        <3>1. Same
            BY <1>10, <2>4 DEF Conclude
        <3>2. failed'[s] = failed[s] \ {q}
            BY <2>1
        <3>3. QED BY <2>1, <2>4, <3>1, <3>2 DEF Goal, Served, SentGrows
    <2>5. QED BY <2>2, <2>3, <2>4
<1>11. ASSUME NEW v \in Subscription, Publish(s, v) \/ PublishError(s, v)
       PROVE  Goal
    <2>1. UNCHANGED <<at, tag>>
        BY <1>11 DEF Publish, PublishError
    <2>2. \/ audience'[s] = audience[s] /\ failed'[s] = failed[s]
          \/ audience'[s] = audience[s] \ {v} /\ failed'[s] = failed[s] /\ Count(s, v)
          \/ audience'[s] = audience[s] \ {v} /\ failed'[s] = failed[s] \cup {RepoOf[v]}
        BY <1>11 DEF Publish, PublishError, Settle
    <2>3. CASE v = u /\ Count(s, v)
        <3>1. sent'[u][tag[s][r]] = sent[u][tag[s][r]] + 1
            BY <2>3 DEF Count, ObservedTypes
        <3>2. sent'[u][tag[s][r]] > 0
            BY <3>1 DEF ObservedTypes
        <3>3. QED BY <2>1, <3>2 DEF Goal
    <2>4. QED BY <2>1, <2>2, <2>3 DEF Goal, Served, SentGrows
<1>12. QED BY <1>4, <1>5, <1>6, <1>7, <1>8, <1>9, <1>10, <1>11 DEF ScanStep, Proceed

LEMMA NextServed == ScannerInv /\ [Next]_vars => Served'
<1> SUFFICES ASSUME ScannerInv, [Next]_vars, NEW q \in Scan, NEW u \in Subscription,
                    Due(u, tag[q][RepoOf[u]])'
             PROVE  /\ at'[q][RepoOf[u]] = "publishing" =>
                           \/ u \in audience'[q]
                           \/ sent'[u][tag'[q][RepoOf[u]]] > 0
                           \/ RepoOf[u] \in failed'[q]
                    /\ at'[q][RepoOf[u]] = "recording" => sent'[u][tag'[q][RepoOf[u]]] > 0
    BY DEF Served
<1> DEFINE r == RepoOf[u]
<1>1. WorldTypes /\ ScanTypes /\ ObservedTypes /\ SentGrows /\ r \in Repository
    BY TypeParts, NextSent DEF ScannerInv
<1>2. tag'[q][r] \in Tag /\ tag'[q][r] <= latest'[r]
    <2>1. ScanTypes'
        BY TypeParts, Steps, ScanTyped, RequestsLeaveScans DEF ScannerInv, ScanTypes, scans, vars
    <2>2. QED BY <1>1, <2>1, NextTags DEF ScannerInv, ScanTypes
<1>3. Due(u, tag'[q][r])
    BY <1>1, <1>2, NextDue DEF Due
<1>4. ASSUME at'[q] = at[q], tag'[q] = tag[q], audience'[q] = audience[q], failed'[q] = failed[q]
      PROVE  /\ at'[q][r] = "publishing" =>
                    u \in audience'[q] \/ sent'[u][tag'[q][r]] > 0 \/ r \in failed'[q]
             /\ at'[q][r] = "recording" => sent'[u][tag'[q][r]] > 0
    BY <1>1, <1>2, <1>3, <1>4 DEF ScannerInv, Served, SentGrows
<1>5. ASSUME NEW s \in Scan, ScanStep(s)
      PROVE  /\ at'[q][r] = "publishing" =>
                    u \in audience'[q] \/ sent'[u][tag'[q][r]] > 0 \/ r \in failed'[q]
             /\ at'[q][r] = "recording" => sent'[u][tag'[q][r]] > 0
    <2>1. CASE q = s
        BY <1>1, <1>3, <1>5, <2>1, ScanServes DEF ScannerInv
    <2>2. CASE q # s
        BY <1>1, <1>4, <1>5, <2>2, ScansApart DEF Apart
    <2>3. QED BY <2>1, <2>2
<1>6. CASE UNCHANGED scans
    BY <1>4, <1>6 DEF scans
<1>7. QED BY <1>5, <1>6, Steps, RequestsLeaveScans DEF vars, scans

-----------------------------------------------------------------------------
(* The property.                                                           *)

\* A tag becomes known for a repository when a scan records it, or with its
\* first row.
LEMMA NewlyKnown ==
    ASSUME ScannerInv, [Next]_vars, NEW r \in Repository,
           NEW t \in releases'[r] \cup {lastSeen'[r]}, t \notin releases[r] \cup {lastSeen[r]}
    PROVE  \/ r \notin tracked /\ \E v \in Subscription : Save(v) \/ RequestError(v)
           \/ \E s \in Scan : at[s][r] = "recording" /\ t = tag[s][r] /\ UNCHANGED people
<1>1. WorldTypes /\ ScanTypes
    BY TypeParts DEF ScannerInv
<1> USE <1>1 DEF WorldTypes, tables
<1>2. CASE (\E q \in Repository : Release(q)) \/ UNCHANGED vars
    BY <1>2 DEF Release, vars
<1>3. ASSUME NEW v \in Subscription, Request(v)
      PROVE  r \notin tracked /\ \E w \in Subscription : Save(w) \/ RequestError(w)
    <2>1. ~ UNCHANGED tables
        OBVIOUS
    <2>2. upsertTrackedRepository(v) /\ (Save(v) \/ RequestError(v))
        BY <1>3, <2>1 DEF Request, Track, FetchFirst, Save, Activate, Unsubscribe, RequestError
    <2>3. QED BY <2>2 DEF upsertTrackedRepository
<1>4. ASSUME NEW s \in Scan, ScanStep(s)
      PROVE  at[s][r] = "recording" /\ t = tag[s][r] /\ UNCHANGED people
    <2>1. PICK q \in Repository : at[s][q] = "recording" /\ SaveRelease(s, q)
        BY <1>4, ScanRecords
    <2>2. q = r /\ t = tag[s][r]
        BY <2>1 DEF SaveRelease
    <2>3. QED BY <1>4, <2>1, <2>2, ScanLeavesPeople
<1>5. QED BY <1>2, <1>3, <1>4, Steps

LEMMA NextReached == ScannerInv /\ [Next]_vars => Reached'
<1> SUFFICES ASSUME ScannerInv, [Next]_vars, NEW u \in Subscription, NEW t \in Tag,
                    Due(u, t)', t \in releases'[RepoOf[u]] \cup {lastSeen'[RepoOf[u]]}
             PROVE  sent'[u][t] > 0
    BY DEF Reached, Due
<1> DEFINE r == RepoOf[u]
<1>1. WorldTypes /\ ScanTypes /\ ObservedTypes /\ SentGrows /\ r \in Repository
    BY TypeParts, NextSent DEF ScannerInv
<1>2. t <= latest'[r]
    BY <1>1, NextWorld DEF ScannerInv
<1>3. Due(u, t)
    BY <1>1, <1>2, NextDue
<1>4. CASE t \in releases[r] \cup {lastSeen[r]}
    BY <1>1, <1>3, <1>4 DEF ScannerInv, Reached, Due, SentGrows
<1>5. CASE t \notin releases[r] \cup {lastSeen[r]}
    <2>1. r \in tracked
        BY <1>3 DEF ScannerInv, Followed, Due
    <2>2. PICK s \in Scan : at[s][r] = "recording" /\ t = tag[s][r]
        BY <1>1, <1>5, <2>1, NewlyKnown
    <2>3. sent[u][t] > 0
        BY <1>3, <2>2 DEF ScannerInv, Served
    <2>4. QED BY <1>1, <2>3 DEF SentGrows
<1>6. QED BY <1>4, <1>5

\* Nothing is tracked yet and nobody has subscribed.
LEMMA InitScanner == Init => ScannerInv
<1> SUFFICES ASSUME Init PROVE ScannerInv
    OBVIOUS
<1> USE DEF Init, Tag
<1>1. WorldTypes /\ ObservedTypes
    <2>1. 0 \in Tag /\ 0 \in 0..MaxFaults
        OBVIOUS
    <2> USE <2>1
    <2> HIDE DEF Tag
    <2>2. WorldTypes
        BY DEF WorldTypes
    <2>3. sent \in [Subscription -> [Tag -> Nat]]
        OBVIOUS
    <2>4. overlapped \in BOOLEAN /\ faults \in 0..MaxFaults
        OBVIOUS
    <2>5. QED BY <2>2, <2>3, <2>4 DEF ObservedTypes
<1>2. ScanTypes /\ Addressed
    BY DEF ScanTypes, Addressed, AtPoint
<1>3. Phases /\ Bounded /\ Followed
    BY DEF Phases, Bounded, Followed
<1>4. Served /\ Reached
    BY DEF Served, Due, Reached
<1>5. QED BY <1>1, <1>2, <1>3, <1>4, TypeParts DEF ScannerInv

\* The invariant holds in every reachable state.
THEOREM ScannerInvariance == Spec => []ScannerInv
<1>1. ScannerInv /\ [Next]_vars => ScannerInv'
    <2> SUFFICES ASSUME ScannerInv, [Next]_vars PROVE ScannerInv'
        OBVIOUS
    <2>1. WorldTypes /\ ObservedTypes /\ ScanTypes /\ Addressed
        BY TypeParts DEF ScannerInv
    <2>2. ScanTypes' /\ Addressed' /\ Phases'
        <3>1. CASE UNCHANGED scans
            BY <2>1, <3>1 DEF ScannerInv, scans, ScanTypes, Addressed, Phases
        <3>2. QED BY <2>1, <3>1, Steps, ScanTyped, RequestsLeaveScans DEF ScannerInv, scans, vars
    <2>3. ObservedTypes'
        BY <2>1, NextCounted, NextSent DEF ObservedTypes
    <2>4. WorldTypes' /\ Followed' /\ Bounded'
        BY <2>1, NextWorld, NextTags DEF ScannerInv, Bounded
    <2>5. QED BY <2>2, <2>3, <2>4, NextServed, NextReached, TypeParts DEF ScannerInv
<1>2. QED BY <1>1, InitScanner, PTL DEF Spec

\* Every variable keeps its type, and a scan addresses subscribers of the
\* repositories it publishes for, and no other.
THEOREM ScannerTypeCorrect == Spec => []TypeOK
<1>1. ScannerInv => TypeOK
    BY DEF ScannerInv
<1>2. QED BY <1>1, ScannerInvariance, PTL

\* Whichever scans, replicas and requests race, and whatever fails: what is
\* marked as seen got to everyone who was a subscriber when it came out and
\* still is.
THEOREM ReachedHolds == Spec => []Reached
<1>1. ScannerInv => Reached
    BY DEF ScannerInv
<1>2. QED BY <1>1, ScannerInvariance, PTL

-----------------------------------------------------------------------------
(* Scans that take turns: what holds until two of them overlap.            *)

\* Only tracked repositories have a last seen tag and are in a scan.
Orderly ==
    /\ \A r \in Repository : r \notin tracked => lastSeen[r] = 0
    /\ \A s \in Scan, r \in Repository :
          /\ at[s][r] # "none" => r \in tracked
          /\ r \in failed[s] => at[s][r] = "publishing"

Alone == \A s, q \in Scan : host[s] # None /\ host[q] # None => s = q

\* What a scan knows of a repository is what the table says, then newer.
Fresh ==
    \A s \in Scan, r \in Repository :
        at[s][r] # "none" =>
            IF phase[s] = "discover" /\ at[s][r] # "found"
            THEN tag[s][r] = lastSeen[r]
            ELSE lastSeen[r] < tag[s][r]

\* A scan is past a subscriber, and goes on to record the tag.
Passed(s, u, t) ==
    LET r == RepoOf[u] IN
    /\ at[s][r] \in {"publishing", "recording"}
    /\ tag[s][r] = t
    /\ u \notin audience[s] /\ r \notin failed[s]

\* Without a further fault u gets no further command for t.
Settled(u, t) == t <= lastSeen[RepoOf[u]] \/ \E s \in Scan : Passed(s, u, t)

\* Each repetition has its fault, which came before it.
Counted ==
    \A u \in Subscription :
        /\ \A t \in Tag : sent[u][t] <= faults \/ (Settled(u, t) /\ sent[u][t] <= faults + 1)
        /\ \A s \in Scan :
              u \in audience[s] /\ RepoOf[u] \in failed[s] => sent[u][tag[s][RepoOf[u]]] < faults

TurnInv == Orderly /\ (~ overlapped => Alone /\ Fresh /\ Counted)

\* How a scan comes along with a repository.
LEMMA Places ==
    ASSUME ScannerInv, NEW s \in Scan, ScanStep(s), NEW r \in Repository, at'[s][r] # "none"
    PROVE  \/ /\ at'[s][r] = "waiting" /\ phase'[s] = "discover"
              /\ ActiveSubscribers(r) # {} /\ tag'[s][r] = lastSeen[r]
              /\ UNCHANGED tables
           \/ /\ phase[s] = "discover" /\ at[s][r] = "fetching"
              /\ at'[s][r] = "found" /\ tag'[s][r] = latest[r] /\ latest[r] # tag[s][r]
           \/ /\ at[s][r] # "none" /\ tag'[s][r] = tag[s][r]
              /\ \/ phase'[s] = phase[s] /\ (at'[s][r] = "found" <=> at[s][r] = "found")
                 \/ phase'[s] = "handle" /\ at[s][r] = "found" /\ at'[s][r] = "waiting"
<1> DEFINE Taken == /\ at'[s][r] = "waiting" /\ phase'[s] = "discover"
                    /\ ActiveSubscribers(r) # {} /\ tag'[s][r] = lastSeen[r]
                    /\ UNCHANGED tables
           Found == /\ phase[s] = "discover" /\ at[s][r] = "fetching"
                    /\ at'[s][r] = "found" /\ tag'[s][r] = latest[r] /\ latest[r] # tag[s][r]
           Same == phase'[s] = phase[s] /\ (at'[s][r] = "found" <=> at[s][r] = "found")
           Kept == /\ at[s][r] # "none" /\ tag'[s][r] = tag[s][r]
                   /\ \/ Same
                      \/ phase'[s] = "handle" /\ at[s][r] = "found" /\ at'[s][r] = "waiting"
<1> SUFFICES Taken \/ Found \/ Kept
    OBVIOUS
<1>1. ScanTypes /\ Phases
    BY TypeParts DEF ScannerInv
<1> USE <1>1 DEF ScanTypes, Place, End, In, Busy, AtPoint
<1>2. CASE Select(s)
    BY <1>2 DEF Select, Phases
<1>3. CASE StartChunk(s)
    <2>1. PICK R \in NextChunk(In(s, "waiting")) :
              Place(s, R, IF phase[s] = "discover" THEN "fetching" ELSE "listing")
        BY <1>3 DEF StartChunk
    <2>2. r \in R => at[s][r] = "waiting"
        BY <2>1 DEF NextChunk, kSubset
    <2>3. QED BY <1>3, <2>1, <2>2 DEF StartChunk
<1>4. CASE EndDiscovery(s)
    BY <1>4 DEF EndDiscovery
<1>5. CASE EndScan(s)
    BY <1>5 DEF EndScan, Phases
<1>6. ASSUME NEW q \in Repository, Fetch(s, q) PROVE Found \/ Kept
    <2>1. CASE q = r
        <3>1. at[s][r] = "fetching"
            BY <1>6, <2>1 DEF Fetch
        <3>2. phase[s] = "discover"
            <4>1. phase[s] \in {"idle", "select", "discover", "handle"}
                OBVIOUS
            <4>2. QED BY <1>1, <3>1, <4>1 DEF Phases
        <3>3. latest[r] # tag[s][r] /\ at'[s][r] = "found" /\ tag'[s][r] = latest[r]
            BY <1>6, <2>1 DEF Fetch
        <3>4. QED BY <3>1, <3>2, <3>3
    <2>2. CASE q # r
        BY <1>6, <2>2 DEF Fetch
    <2>3. QED BY <2>1, <2>2
<1>7. ASSUME NEW q \in Repository, List(s, q) \/ StartSends(s, q) \/ Conclude(s, q) PROVE Kept
    BY <1>7 DEF List, StartSends, Conclude
<1>8. ASSUME NEW q \in Repository, Record(s, q) \/ TaskError(s, q) PROVE Kept
    BY <1>8 DEF Record, TaskError
<1>9. ASSUME NEW u \in Subscription, Publish(s, u) \/ PublishError(s, u) PROVE Kept
    BY <1>9 DEF Publish, PublishError
<1>10. CASE SelectError(s) \/ Crash(s) \/ \E h \in Replica : StartScan(s, h)
    BY <1>10 DEF SelectError, Crash, StartScan, Phases
<1>11. QED BY <1>2, <1>3, <1>4, <1>5, <1>6, <1>7, <1>8, <1>9, <1>10 DEF ScanStep, Proceed

\* What a scan notes as failed, it notes while it publishes.
LEMMA FailedAt ==
    ASSUME ScannerInv, Orderly, NEW s \in Scan, ScanStep(s), NEW r \in Repository, r \in failed'[s]
    PROVE  at'[s][r] = "publishing"
<1>1. ScanTypes /\ Phases /\ Addressed
    BY TypeParts DEF ScannerInv
<1> USE <1>1 DEF ScanTypes, Place, End, In, Busy, AtPoint, Orderly
<1>2. CASE Select(s) \/ EndDiscovery(s) \/ EndScan(s)
    BY <1>2 DEF Select, EndDiscovery, EndScan, Phases
<1>3. CASE StartChunk(s)
    <2>1. PICK R \in NextChunk(In(s, "waiting")) :
              Place(s, R, IF phase[s] = "discover" THEN "fetching" ELSE "listing")
        BY <1>3 DEF StartChunk
    <2>2. r \in R => at[s][r] = "waiting"
        BY <2>1 DEF NextChunk, kSubset
    <2>3. QED BY <1>3, <2>1, <2>2 DEF StartChunk
<1>4. ASSUME NEW q \in Repository,
             Fetch(s, q) \/ List(s, q) \/ StartSends(s, q) \/ Conclude(s, q)
      PROVE  at'[s][r] = "publishing"
    BY <1>4 DEF Fetch, List, StartSends, Conclude
<1>5. ASSUME NEW q \in Repository, Record(s, q) \/ TaskError(s, q)
      PROVE  at'[s][r] = "publishing"
    BY <1>5 DEF Record, TaskError
<1>6. ASSUME NEW u \in Subscription, Publish(s, u) \/ PublishError(s, u)
      PROVE  at'[s][r] = "publishing"
    BY <1>6 DEF Publish, PublishError, Addressed, Settle
<1>7. CASE SelectError(s) \/ Crash(s) \/ \E h \in Replica : StartScan(s, h)
    BY <1>7 DEF SelectError, Crash, StartScan
<1>8. QED BY <1>2, <1>3, <1>4, <1>5, <1>6, <1>7 DEF ScanStep, Proceed

\* How the tables change: by a new row, or where a scan records.
LEMMA TablesChange ==
    [Next]_vars =>
        \/ UNCHANGED tables
        \/ \E u \in Subscription : upsertTrackedRepository(u) /\ UNCHANGED scans
        \/ \E s \in Scan, r \in Repository :
              at[s][r] = "recording" /\ SaveRelease(s, r) /\ End(s, r)
<1>1. ASSUME NEW u \in Subscription, Request(u)
      PROVE  UNCHANGED tables \/ (upsertTrackedRepository(u) /\ UNCHANGED scans)
    BY <1>1 DEF Request, Track, FetchFirst, Save, Activate, Unsubscribe, RequestError
<1>2. ASSUME NEW r \in Repository, Release(r) PROVE UNCHANGED tables
    BY <1>2 DEF Release
<1>3. QED BY <1>1, <1>2, Steps, ScanRecords DEF vars, tables

LEMMA OrderlyKept == ScannerInv /\ Orderly /\ [Next]_vars => Orderly'
<1> SUFFICES ASSUME ScannerInv, Orderly, [Next]_vars PROVE Orderly'
    OBVIOUS
<1>1. WorldTypes /\ ScanTypes /\ Followed /\ Phases
    BY TypeParts DEF ScannerInv
<1>2. tracked \subseteq tracked' /\ \A r \in Repository : r \notin tracked' => lastSeen'[r] = 0
    BY <1>1, TablesChange DEF Orderly, tables, upsertTrackedRepository, SaveRelease, WorldTypes
<1>3. ASSUME NEW s \in Scan, NEW r \in Repository
      PROVE  (at'[s][r] # "none" => r \in tracked) /\ (r \in failed'[s] => at'[s][r] = "publishing")
    <2>1. CASE at'[s] = at[s] /\ failed'[s] = failed[s]
        BY <2>1 DEF Orderly
    <2>2. CASE ScanStep(s)
        <3>1. r \in failed'[s] => at'[s][r] = "publishing"
            BY <2>2, FailedAt
        <3>2. ActiveSubscribers(r) # {} => r \in tracked
            BY <1>1 DEF ActiveSubscribers, Followed
        <3>3. at'[s][r] # "none" => r \in tracked
            BY <2>2, <3>2, Places DEF Orderly
        <3>4. QED BY <3>1, <3>3
    <2>3. QED
        BY <1>1, <2>1, <2>2, Steps, RequestsLeaveScans, ScansApart DEF Apart, scans, vars
<1>4. QED BY <1>2, <1>3 DEF Orderly

\* A replica that starts a scan sees the others.
LEMMA AloneKept ==
    ASSUME ScannerInv, [Next]_vars, ~ overlapped', ~ overlapped => Alone
    PROVE  ~ overlapped /\ Alone'
<1>1. ScanTypes /\ ObservedTypes
    BY TypeParts DEF ScannerInv
<1>2. CASE UNCHANGED <<scans, overlapped>>
    BY <1>2 DEF scans, Alone
<1>3. ASSUME NEW s \in Scan, ScanStep(s) PROVE ~ overlapped /\ Alone'
    <2>1. ASSUME NEW h \in Replica, StartScan(s, h) PROVE ~ overlapped /\ Alone'
        <3>1. ~ overlapped /\ \A q \in Scan : host[q] = None
            BY <1>1, <2>1 DEF StartScan, Running, ScanTypes, ObservedTypes
        <3>2. \A q \in Scan \ {s} : host'[q] = None
            BY <1>1, <2>1, <3>1 DEF StartScan, ScanTypes
        <3>3. QED BY <3>1, <3>2 DEF Alone
    <2>2. CASE ~ \E h \in Replica : StartScan(s, h)
        <3>1. UNCHANGED overlapped /\ (host' = host \/ host' = [host EXCEPT ![s] = None])
            <4>1. CASE Proceed(s)
                BY <4>1 DEF Proceed, Select, StartChunk, EndDiscovery, EndScan, Fetch, List,
                   StartSends, Conclude, Record, Publish, Finish
            <4>2. CASE SelectError(s) \/ Crash(s)
                BY <4>2 DEF SelectError, Crash, Finish
            <4>3. CASE \/ \E r \in Repository : TaskError(s, r)
                       \/ \E u \in Subscription : PublishError(s, u)
                BY <4>3 DEF TaskError, PublishError
            <4>4. QED BY <1>3, <2>2, <4>1, <4>2, <4>3 DEF ScanStep
        <3>2. QED BY <1>1, <3>1 DEF Alone, ScanTypes
    <2>3. QED BY <2>1, <2>2
<1>4. QED BY <1>2, <1>3, Steps, RequestsLeaveScans DEF scans, vars

\* No tag is marked as seen after a newer one, unless scans overlap.
LEMMA SeenGrows ==
    ASSUME ScannerInv, TurnInv, [Next]_vars, ~ overlapped, NEW r \in Repository
    PROVE  lastSeen'[r] >= lastSeen[r]
<1>1. WorldTypes /\ ScanTypes /\ Phases
    BY TypeParts DEF ScannerInv
<1>2. lastSeen \in [Repository -> Nat] /\ asked \in [Subscription -> Nat]
      /\ \A s \in Scan, q \in Repository : tag[s][q] \in Nat
    BY <1>1 DEF WorldTypes, ScanTypes, Tag
<1>3. CASE UNCHANGED tables
    BY <1>2, <1>3 DEF tables
<1>4. ASSUME NEW u \in Subscription, upsertTrackedRepository(u) PROVE lastSeen'[r] >= lastSeen[r]
    <2>1. CASE RepoOf[u] \in tracked
        BY <1>2, <1>4, <2>1 DEF upsertTrackedRepository
    <2>2. CASE RepoOf[u] \notin tracked
        <3>1. lastSeen[RepoOf[u]] = 0
            BY <2>2 DEF TurnInv, Orderly
        <3>2. lastSeen' = [lastSeen EXCEPT ![RepoOf[u]] = asked[u]]
            BY <1>4, <2>2 DEF upsertTrackedRepository
        <3>3. QED BY <1>2, <3>1, <3>2
    <2>3. QED BY <2>1, <2>2
<1>5. ASSUME NEW s \in Scan, NEW q \in Repository, at[s][q] = "recording", SaveRelease(s, q)
      PROVE  lastSeen'[r] >= lastSeen[r]
    <2>1. lastSeen[q] < tag[s][q]
        BY <1>1, <1>5 DEF TurnInv, Fresh, Phases
    <2>2. lastSeen' = [lastSeen EXCEPT ![q] = tag[s][q]]
        BY <1>5 DEF SaveRelease
    <2>3. QED BY <1>2, <2>1, <2>2
<1>6. QED BY <1>3, <1>4, <1>5, TablesChange

\* While a scan has a repository, only the scan itself marks tags of it.
LEMMA SeenKept ==
    ASSUME ScannerInv, TurnInv, [Next]_vars, ~ overlapped',
           NEW s \in Scan, NEW r \in Repository, at'[s][r] # "none", at[s][r] # "none"
    PROVE  lastSeen'[r] = lastSeen[r]
<1>1. WorldTypes /\ ScanTypes /\ Phases
    BY TypeParts DEF ScannerInv
<1>2. ~ overlapped /\ Alone /\ Orderly
    BY AloneKept DEF TurnInv
<1>3. CASE UNCHANGED tables
    BY <1>3 DEF tables
<1>4. ASSUME NEW u \in Subscription, upsertTrackedRepository(u) PROVE lastSeen'[r] = lastSeen[r]
    <2>1. r \in tracked
        BY <1>2 DEF Orderly
    <2>2. QED BY <1>1, <1>4, <2>1 DEF upsertTrackedRepository, WorldTypes
<1>5. ASSUME NEW q \in Scan, NEW p \in Repository,
             at[q][p] = "recording", SaveRelease(q, p), End(q, p)
      PROVE  lastSeen'[r] = lastSeen[r]
    <2>1. host[q] # None /\ host[s] # None
        BY <1>1, <1>5 DEF Phases
    <2>2. q = s
        BY <1>2, <2>1 DEF Alone
    <2>3. p # r
        BY <1>1, <1>5, <2>2 DEF End, Place, ScanTypes
    <2>4. QED BY <1>1, <1>5, <2>3 DEF SaveRelease, WorldTypes
<1>6. QED BY <1>3, <1>4, <1>5, TablesChange

LEMMA FreshKept ==
    ASSUME ScannerInv, TurnInv, [Next]_vars, ~ overlapped'
    PROVE  Fresh'
<1>1. WorldTypes /\ ScanTypes /\ Phases /\ Bounded
    BY TypeParts DEF ScannerInv
<1>2. ~ overlapped /\ Alone /\ Orderly /\ Fresh
    BY AloneKept DEF TurnInv
<1> DEFINE Knows(s, r) == IF phase[s] = "discover" /\ at[s][r] # "found"
                          THEN tag[s][r] = lastSeen[r] ELSE lastSeen[r] < tag[s][r]
<1> SUFFICES ASSUME NEW s \in Scan, NEW r \in Repository, at'[s][r] # "none"
             PROVE  Knows(s, r)'
    BY DEF Fresh
<1>3. CASE UNCHANGED <<host, phase[s], at[s], tag[s]>>
    <2>1. at[s][r] # "none" /\ Knows(s, r)
        BY <1>2, <1>3 DEF Fresh
    <2>2. lastSeen'[r] = lastSeen[r]
        BY <2>1, SeenKept
    <2>3. QED BY <1>3, <2>1, <2>2
<1>4. CASE ScanStep(s)
    <2>1. CASE /\ at'[s][r] = "waiting" /\ phase'[s] = "discover"
               /\ tag'[s][r] = lastSeen[r] /\ UNCHANGED tables
        BY <2>1 DEF tables
    <2>2. CASE /\ phase[s] = "discover" /\ at[s][r] = "fetching"
               /\ at'[s][r] = "found" /\ tag'[s][r] = latest[r] /\ latest[r] # tag[s][r]
        <3>1. tag[s][r] = lastSeen[r] /\ lastSeen'[r] = lastSeen[r]
            BY <1>2, <2>2, SeenKept DEF Fresh
        <3>2. latest[r] \in Nat /\ lastSeen[r] \in Nat /\ lastSeen[r] <= latest[r]
            BY <1>1 DEF WorldTypes, Bounded, Tag
        <3>3. lastSeen'[r] < tag'[s][r]
            BY <2>2, <3>1, <3>2
        <3>4. QED BY <2>2, <3>3
    <2>3. CASE /\ at[s][r] # "none" /\ tag'[s][r] = tag[s][r]
               /\ \/ phase'[s] = phase[s] /\ (at'[s][r] = "found" <=> at[s][r] = "found")
                  \/ phase'[s] = "handle" /\ at[s][r] = "found" /\ at'[s][r] = "waiting"
        <3>1. Knows(s, r) /\ lastSeen'[r] = lastSeen[r]
            BY <1>2, <2>3, SeenKept DEF Fresh
        <3>2. QED BY <2>3, <3>1
    <2>4. QED BY <1>4, <2>1, <2>2, <2>3, Places
<1>5. CASE \E q \in Scan \ {s} : ScanStep(q)
    <2>1. PICK q \in Scan \ {s} : ScanStep(q)
        BY <1>5
    <2>2. phase'[s] = phase[s] /\ at'[s] = at[s] /\ tag'[s] = tag[s]
        BY <1>1, <2>1, ScansApart DEF Apart
    <2>3. at[s][r] # "none" /\ Knows(s, r)
        BY <1>2, <2>2 DEF Fresh
    <2>4. QED BY <2>2, <2>3, SeenKept
<1>6. CASE UNCHANGED scans
    BY <1>3, <1>6 DEF scans
<1>7. QED BY <1>4, <1>5, <1>6, Steps, RequestsLeaveScans DEF scans, vars

LEMMA FaultsAreCounted ==
    ASSUME ObservedTypes, [Next]_vars
    PROVE  /\ faults \in Nat /\ faults' \in Nat
           /\ faults' = faults \/ faults' = faults + 1
<1>1. faults' \in Nat /\ faults \in Nat
    BY NextCounted DEF ObservedTypes
<1>2. CASE (\E r \in Repository : Release(r)) \/ (\E u \in Subscription : Request(u)) \/ UNCHANGED vars
    BY <1>1, <1>2 DEF vars, Release, Request, Track, FetchFirst, Save, Activate, Unsubscribe,
       RequestError, Spend
<1>3. ASSUME NEW s \in Scan, ScanStep(s) PROVE faults' = faults \/ faults' = faults + 1
    <2>1. CASE Proceed(s)
        BY <2>1 DEF Proceed, Select, StartChunk, EndDiscovery, EndScan, Fetch, List, StartSends,
           Conclude, Record, Publish
    <2>2. CASE SelectError(s) \/ Crash(s) \/ \E h \in Replica : StartScan(s, h)
        BY <2>2 DEF SelectError, Crash, StartScan, Spend
    <2>3. CASE (\E r \in Repository : TaskError(s, r)) \/ \E u \in Subscription : PublishError(s, u)
        BY <2>3 DEF TaskError, PublishError, Spend
    <2>4. QED BY <1>3, <2>1, <2>2, <2>3 DEF ScanStep
<1>4. QED BY <1>1, <1>2, <1>3, Steps

\* What is settled stays settled, but for a fault.
LEMMA SettledKept ==
    ASSUME ScannerInv, TurnInv, [Next]_vars, ~ overlapped', faults' = faults,
           NEW u \in Subscription, NEW t \in Tag, Settled(u, t)
    PROVE  Settled(u, t)'
<1> DEFINE r == RepoOf[u]
<1>1. WorldTypes /\ ScanTypes /\ ObservedTypes /\ Phases /\ Addressed /\ r \in Repository
    BY TypeParts DEF ScannerInv
<1>2. ~ overlapped
    BY AloneKept DEF TurnInv
<1>3. CASE t <= lastSeen[r]
    <2>1. t \in Nat /\ lastSeen[r] \in Nat /\ lastSeen'[r] \in Nat
        BY <1>1, NextWorld DEF ScannerInv, WorldTypes, Tag
    <2>2. lastSeen'[r] >= lastSeen[r]
        BY <1>1, <1>2, SeenGrows
    <2>3. QED BY <1>3, <2>1, <2>2 DEF Settled
<1>4. ASSUME NEW s \in Scan, Passed(s, u, t) PROVE Settled(u, t)'
    <2>1. at[s][r] \in {"publishing", "recording"} /\ tag[s][r] = t
          /\ u \notin audience[s] /\ r \notin failed[s]
        BY <1>4 DEF Passed
    <2>2. faults' # faults + 1
        BY <1>1 DEF ObservedTypes
    <2> DEFINE Stays == /\ at'[s][r] \in {"publishing", "recording"} /\ tag'[s][r] = t
                        /\ u \notin audience'[s] /\ r \notin failed'[s]
    <2>3. Stays => Settled(u, t)'
        BY DEF Settled, Passed
    <2>4. CASE at'[s] = at[s] /\ tag'[s] = tag[s] /\ audience'[s] = audience[s] /\ failed'[s] = failed[s]
        BY <2>1, <2>3, <2>4
    <2>5. CASE ScanStep(s)
        <3> USE <1>1, <2>1, <2>2 DEF ScanTypes, Place, End, In, Busy, AtPoint, Spend
        <3>1. CASE Select(s)
            BY <3>1 DEF Select, Phases
        <3>2. CASE StartChunk(s)
            <4>1. PICK R \in NextChunk(In(s, "waiting")) :
                      Place(s, R, IF phase[s] = "discover" THEN "fetching" ELSE "listing")
                BY <3>2 DEF StartChunk
            <4>2. r \notin R
                BY <4>1 DEF NextChunk, kSubset
            <4>3. Stays
                BY <3>2, <4>1, <4>2 DEF StartChunk
            <4>4. QED BY <2>3, <4>3
        <3>3. CASE EndDiscovery(s)
            BY <2>3, <3>3 DEF EndDiscovery
        <3>4. CASE EndScan(s)
            BY <3>4 DEF EndScan
        <3>5. ASSUME NEW q \in Repository, Fetch(s, q) \/ List(s, q) PROVE Stays
            BY <3>5 DEF Fetch, List, ActiveSubscribers
        <3>6. ASSUME NEW q \in Repository, StartSends(s, q) PROVE Stays
            BY <3>6 DEF StartSends
        <3>7. ASSUME NEW q \in Repository, Conclude(s, q) PROVE Stays
            <4>1. UNCHANGED audience /\ failed'[s] \subseteq failed[s]
                BY <3>7 DEF Conclude
            <4>2. CASE q = r
                BY <3>7, <4>1, <4>2 DEF Conclude
            <4>3. CASE q # r
                BY <3>7, <4>1, <4>3 DEF Conclude
            <4>4. QED BY <4>2, <4>3
        <3>8. ASSUME NEW q \in Repository, Record(s, q) PROVE Settled(u, t)'
            <4>1. CASE q = r
                <5>1. lastSeen'[r] = t
                    BY <3>8, <4>1 DEF Record, SaveRelease, WorldTypes
                <5>2. t <= t
                    BY DEF Tag
                <5>3. QED BY <5>1, <5>2 DEF Settled
            <4>2. CASE q # r
                BY <2>3, <3>8, <4>2 DEF Record
            <4>3. QED BY <4>1, <4>2
        <3>9. ASSUME NEW v \in Subscription, Publish(s, v) PROVE Stays
            BY <3>9 DEF Publish, Settle
        <3>10. CASE SelectError(s) \/ Crash(s) \/ (\E q \in Repository : TaskError(s, q))
                    \/ \E v \in Subscription : PublishError(s, v)
            BY <3>10 DEF SelectError, Crash, TaskError, PublishError
        <3>11. CASE \E h \in Replica : StartScan(s, h)
            BY <2>3, <3>11 DEF StartScan
        <3>12. QED BY <2>3, <2>5, <3>1, <3>2, <3>3, <3>4, <3>5, <3>6, <3>7, <3>8, <3>9, <3>10,
                     <3>11 DEF ScanStep, Proceed
    <2>6. QED
        BY <1>1, <2>4, <2>5, Steps, RequestsLeaveScans, ScansApart DEF Apart, scans, vars
<1>5. QED BY <1>3, <1>4 DEF Settled

\* A subscriber still addressed is not settled.
LEMMA Addressing ==
    ASSUME ScannerInv, TurnInv, ~ overlapped, NEW s \in Scan, NEW u \in audience[s]
    PROVE  LET t == tag[s][RepoOf[u]] IN
           ~ Settled(u, t) /\ sent[u][t] <= faults
<1> DEFINE r == RepoOf[u]
           t == tag[s][r]
<1>1. WorldTypes /\ ScanTypes /\ Phases /\ Addressed
    BY TypeParts DEF ScannerInv
<1>2. u \in Subscription /\ r \in Repository /\ t \in Tag /\ at[s][r] = "publishing"
    BY <1>1 DEF ScanTypes, Addressed
<1>3. host[s] # None /\ phase[s] # "discover"
    BY <1>1, <1>2 DEF Phases
<1>4. lastSeen[r] < t /\ lastSeen[r] \in Nat /\ t \in Nat
    BY <1>1, <1>2, <1>3 DEF TurnInv, Fresh, WorldTypes, Tag
<1>5. \A q \in Scan : ~ Passed(q, u, t)
    <2> SUFFICES ASSUME NEW q \in Scan, Passed(q, u, t) PROVE FALSE
        OBVIOUS
    <2>1. host[q] # None
        BY <1>1, <1>2 DEF Passed, Phases
    <2>2. q = s
        BY <1>3, <2>1 DEF TurnInv, Alone
    <2>3. QED BY <2>2 DEF Passed
<1>6. ~ Settled(u, t)
    BY <1>4, <1>5 DEF Settled
<1>7. QED BY <1>2, <1>6 DEF TurnInv, Counted

\* A command is counted for someone addressed; it settles them, or is a fault.
LEMMA Sending ==
    ASSUME ScannerInv, NEW s \in Scan, ScanStep(s)
    PROVE  \/ UNCHANGED sent
           \/ \E u \in audience[s] : Count(s, u) /\ (Publish(s, u) \/ PublishError(s, u))
<1>0. ScanTypes
    BY TypeParts DEF ScannerInv
<1>1. CASE Proceed(s)
    BY <1>0, <1>1 DEF Proceed, Select, StartChunk, EndDiscovery, EndScan, Fetch, List, StartSends,
       Conclude, Record, Publish
<1>2. CASE SelectError(s) \/ Crash(s) \/ (\E h \in Replica : StartScan(s, h))
    BY <1>2 DEF SelectError, Crash, StartScan
<1>3. CASE (\E r \in Repository : TaskError(s, r)) \/ \E u \in Subscription : PublishError(s, u)
    BY <1>0, <1>3 DEF TaskError, PublishError
<1>4. QED BY <1>1, <1>2, <1>3 DEF ScanStep

\* Who is addressed where someone was failed: before the step as after it,
\* or the step is the fault.
LEMMA FailedAudience ==
    ASSUME ScannerInv, TurnInv, NEW s \in Scan, ScanStep(s), NEW u \in Subscription,
           u \in audience'[s], RepoOf[u] \in failed'[s]
    PROVE  /\ u \in audience[s] /\ tag'[s][RepoOf[u]] = tag[s][RepoOf[u]]
           /\ \/ RepoOf[u] \in failed[s]
              \/ /\ faults' = faults + 1
                 /\ \E v \in audience[s] \ {u} : PublishError(s, v)
<1> DEFINE r == RepoOf[u]
           Goal == /\ u \in audience[s] /\ tag'[s][r] = tag[s][r]
                   /\ \/ r \in failed[s]
                      \/ /\ faults' = faults + 1
                         /\ \E v \in audience[s] \ {u} : PublishError(s, v)
<1>1. ScanTypes /\ Phases /\ Addressed /\ r \in Repository /\ Orderly
    BY TypeParts DEF ScannerInv, TurnInv
<1>2. r \in failed[s] => at[s][r] = "publishing"
    BY <1>1 DEF Orderly
<1>3. u \in audience[s] => at[s][r] = "publishing"
    BY <1>1 DEF Addressed
<1> USE <1>1, <1>2, <1>3 DEF ScanTypes, End, Place
<1>4. CASE Select(s)
    BY <1>4 DEF Select, Phases
<1>5. CASE StartChunk(s) \/ \E q \in Repository : StartSends(s, q)
    BY <1>5 DEF StartChunk, StartSends
<1>6. CASE EndDiscovery(s) \/ EndScan(s)
    BY <1>6 DEF EndDiscovery, EndScan
<1>7. ASSUME NEW q \in Repository, Fetch(s, q) PROVE Goal
    BY <1>7 DEF Fetch
<1>8. ASSUME NEW q \in Repository, List(s, q) PROVE Goal
    <2>1. at[s][q] = "listing" /\ tag' = tag /\ failed' = failed
        BY <1>8 DEF List
    <2>2. audience'[s] = audience[s] \cup ActiveSubscribers(q)
        BY <1>8 DEF List
    <2>3. r # q
        BY <2>1
    <2>4. u \in audience[s]
        BY <2>2, <2>3 DEF ActiveSubscribers
    <2>5. QED BY <2>1, <2>4
<1>9. ASSUME NEW q \in Repository, Conclude(s, q) PROVE Goal
    <2>1. audience' = audience /\ failed'[s] = failed[s] \ {q}
        BY <1>9 DEF Conclude
    <2>2. u \in audience[s] /\ r \in failed[s] /\ q # r
        BY <2>1
    <2>3. tag'[s][r] = tag[s][r]
        BY <1>9, <2>2 DEF Conclude
    <2>4. QED BY <2>2, <2>3
<1>10. ASSUME NEW q \in Repository, Record(s, q) \/ TaskError(s, q) PROVE Goal
    <2>1. audience' = audience /\ failed' = failed /\ at[s][q] # "publishing"
        BY <1>10 DEF Record, TaskError
    <2>2. r # q
        BY <2>1
    <2>3. tag'[s][r] = tag[s][r]
        BY <1>10, <2>2 DEF Record, TaskError
    <2>4. QED BY <2>1, <2>3
<1>11. ASSUME NEW v \in Subscription, Publish(s, v) PROVE Goal
    BY <1>11 DEF Publish, Settle
<1>12. ASSUME NEW v \in Subscription, PublishError(s, v) PROVE Goal
    <2>1. tag' = tag /\ v \in audience[s] /\ faults' = faults + 1
        BY <1>12 DEF PublishError, Spend
    <2>2. CASE UNCHANGED <<audience, failed>>
        BY <2>1, <2>2
    <2>3. CASE Settle(s, v)
        <3>1. u \in audience[s] /\ u # v
            BY <2>3 DEF Settle
        <3>2. QED BY <1>12, <2>1, <3>1
    <2>4. QED BY <1>12, <2>2, <2>3 DEF PublishError
<1>13. CASE SelectError(s) \/ \E h \in Replica : StartScan(s, h)
    BY <1>13 DEF SelectError, StartScan
<1>14. CASE Crash(s)
    BY <1>14 DEF Crash
<1>15. QED BY <1>4, <1>5, <1>6, <1>7, <1>8, <1>9, <1>10, <1>11, <1>12, <1>13, <1>14
           DEF ScanStep, Proceed

LEMMA CountedKept ==
    ASSUME ScannerInv, TurnInv, [Next]_vars, ~ overlapped'
    PROVE  Counted'
<1>1. WorldTypes /\ ScanTypes /\ ObservedTypes /\ Phases /\ Addressed
    BY TypeParts DEF ScannerInv
<1>2. ~ overlapped /\ Alone /\ Counted
    BY AloneKept DEF TurnInv
<1>3. sent \in [Subscription -> [Tag -> Nat]] /\ sent' \in [Subscription -> [Tag -> Nat]]
    BY <1>1, NextSent DEF ObservedTypes
<1>4. faults \in Nat /\ faults' \in Nat /\ (faults' = faults \/ faults' = faults + 1)
    BY <1>1, FaultsAreCounted
<1>5. ASSUME NEW s \in Scan, ScanStep(s), NEW v \in audience[s], Count(s, v)
      PROVE  /\ v \in Subscription /\ RepoOf[v] \in Repository /\ tag[s][RepoOf[v]] \in Tag
             /\ sent' = [sent EXCEPT ![v][tag[s][RepoOf[v]]] = @ + 1]
    BY <1>1, <1>5 DEF Count, ScanTypes
<1>6. ASSUME NEW u \in Subscription, NEW t \in Tag
      PROVE  sent'[u][t] <= faults' \/ (Settled(u, t)' /\ sent'[u][t] <= faults' + 1)
    <2>1. sent[u][t] \in Nat /\ (sent[u][t] <= faults \/ (Settled(u, t) /\ sent[u][t] <= faults + 1))
        BY <1>2, <1>3 DEF Counted
    <2>2. CASE sent'[u][t] = sent[u][t]
        <3>1. CASE faults' = faults
            BY <1>4, <2>1, <2>2, <3>1, SettledKept
        <3>2. CASE faults' = faults + 1
            BY <1>4, <2>1, <2>2, <3>2
        <3>3. QED BY <1>4, <3>1, <3>2
    <2>3. ASSUME NEW s \in Scan, ScanStep(s), u \in audience[s], t = tag[s][RepoOf[u]],
                 sent'[u][t] = sent[u][t] + 1, Publish(s, u) \/ PublishError(s, u)
          PROVE  sent'[u][t] <= faults' \/ (Settled(u, t)' /\ sent'[u][t] <= faults' + 1)
        <3>1. sent[u][t] <= faults
            BY <1>2, <2>3, Addressing
        <3>2. CASE faults' = faults + 1
            BY <1>4, <2>1, <2>3, <3>1, <3>2
        <3>3. CASE faults' = faults
            <4>1. Publish(s, u)
                BY <1>4, <2>3, <3>3 DEF PublishError, Spend
            <4>2. CASE RepoOf[u] \in failed[s]
                <5>1. sent[u][t] < faults
                    BY <1>2, <2>3, <4>2 DEF Counted
                <5>2. QED BY <1>4, <2>1, <2>3, <3>3, <5>1
            <4>3. CASE RepoOf[u] \notin failed[s]
                <5>1. at'[s][RepoOf[u]] = "publishing" /\ tag' = tag /\ failed' = failed
                    BY <1>1, <2>3, <4>1 DEF Publish, Addressed
                <5>2. u \notin audience'[s]
                    BY <1>1, <4>1 DEF Publish, Settle, ScanTypes
                <5>3. Settled(u, t)'
                    BY <2>3, <4>3, <5>1, <5>2 DEF Settled, Passed
                <5>4. QED BY <1>4, <2>1, <2>3, <3>1, <3>3, <5>3
            <4>4. QED BY <4>2, <4>3
        <3>4. QED BY <1>4, <3>2, <3>3
    <2>4. CASE UNCHANGED sent
        BY <2>2, <2>4
    <2>5. ASSUME NEW s \in Scan, ScanStep(s),
                 NEW v \in audience[s], Count(s, v), Publish(s, v) \/ PublishError(s, v)
          PROVE  sent'[u][t] <= faults' \/ (Settled(u, t)' /\ sent'[u][t] <= faults' + 1)
        <3>1. CASE u = v /\ t = tag[s][RepoOf[v]]
            <4>1. sent'[u][t] = sent[u][t] + 1
                BY <1>3, <1>5, <2>5, <3>1
            <4>2. QED BY <2>3, <2>5, <3>1, <4>1
        <3>2. CASE ~ (u = v /\ t = tag[s][RepoOf[v]])
            <4>1. sent'[u][t] = sent[u][t]
                BY <1>3, <1>5, <2>5, <3>2
            <4>2. QED BY <2>2, <4>1
        <3>3. QED BY <3>1, <3>2
    <2>6. QED BY <2>4, <2>5, Steps, Sending, RequestsLeaveScans DEF vars
<1>7. ASSUME NEW u \in Subscription, NEW s \in Scan, u \in audience'[s], RepoOf[u] \in failed'[s]
      PROVE  sent'[u][tag'[s][RepoOf[u]]] < faults'
    <2> DEFINE r == RepoOf[u]
               t == tag[s][r]
    <2>1. r \in Repository /\ t \in Tag /\ sent[u][t] \in Nat
        BY <1>1, <1>3 DEF ScanTypes
    <2>2. CASE UNCHANGED <<audience[s], failed[s], tag[s], sent>>
        BY <1>2, <1>3, <1>4, <1>7, <2>1, <2>2 DEF Counted
    <2>3. CASE ScanStep(s)
        <3>1. /\ u \in audience[s] /\ tag'[s][r] = t
              /\ r \in failed[s] \/ (faults' = faults + 1 /\ \E v \in audience[s] \ {u} : PublishError(s, v))
            BY <1>7, <2>3, FailedAudience
        <3>2. sent[u][t] <= faults /\ (r \in failed[s] => sent[u][t] < faults)
            BY <1>2, <3>1, Addressing DEF Counted
        <3>3. CASE sent'[u][t] = sent[u][t]
            BY <1>4, <2>1, <3>1, <3>2, <3>3
        <3>4. ASSUME Count(s, u), PublishError(s, u) PROVE sent'[u][t] < faults'
            <4>1. sent'[u][t] = sent[u][t] + 1 /\ faults' = faults + 1
                BY <1>3, <1>5, <2>1, <2>3, <3>1, <3>4 DEF PublishError, Spend
            <4>2. r \in failed[s]
                <5>1. CASE UNCHANGED failed
                    BY <1>7, <5>1
                <5>2. CASE Settle(s, u)
                    BY <1>1, <1>7, <5>2 DEF Settle, ScanTypes
                <5>3. QED BY <3>4, <5>1, <5>2 DEF PublishError
            <4>3. QED BY <1>4, <2>1, <3>2, <4>1, <4>2
        <3>5. ~ Publish(s, u)
            BY <1>1, <1>7 DEF Publish, Settle, ScanTypes
        <3>6. ASSUME NEW v \in audience[s], Count(s, v), v # u PROVE sent'[u][t] = sent[u][t]
            BY <1>3, <1>5, <2>3, <3>6
        <3>7. QED BY <2>3, <3>1, <3>3, <3>4, <3>5, <3>6, Sending
    <2>4. ASSUME NEW q \in Scan, ScanStep(q), q # s
          PROVE  sent'[u][tag'[s][r]] < faults'
        <3>1. audience'[s] = audience[s] /\ failed'[s] = failed[s] /\ tag'[s] = tag[s]
            BY <1>1, <2>4, ScansApart DEF Apart
        <3>2. at[s][r] = "publishing" /\ host[s] # None
            BY <1>1, <1>7, <2>1, <3>1 DEF Addressed, Phases
        <3>3. audience[q] = {}
            <4>1. \A v \in audience[q] : at[q][RepoOf[v]] = "publishing" /\ RepoOf[v] \in Repository
                BY <1>1 DEF Addressed, ScanTypes
            <4>2. host[q] = None
                BY <1>2, <2>4, <3>2 DEF Alone
            <4>3. \A p \in Repository : at[q][p] = "none"
                BY <1>1, <4>2 DEF Phases
            <4>4. QED BY <4>1, <4>3
        <3>4. UNCHANGED sent
            BY <2>4, <3>3, Sending
        <3>5. QED BY <2>2, <3>1, <3>4
    <2>5. CASE UNCHANGED <<scans, sent>>
        BY <2>2, <2>5 DEF scans
    <2>6. QED BY <2>3, <2>4, <2>5, Steps, RequestsLeaveScans DEF scans, vars
<1>8. QED BY <1>6, <1>7 DEF Counted

\* Nothing is in progress, nothing was sent.
LEMMA InitTurns == Init => TurnInv
<1> SUFFICES ASSUME Init PROVE TurnInv
    OBVIOUS
<1>1. Orderly /\ Alone /\ Fresh
    BY DEF Init, Orderly, Alone, Fresh
<1>2. Counted
    <2>1. \A u \in Subscription, t \in Tag : sent[u][t] = 0
        BY DEF Init
    <2>2. faults = 0 /\ \A s \in Scan : audience[s] = {}
        BY DEF Init
    <2>3. QED BY <2>1, <2>2 DEF Counted
<1>3. QED BY <1>1, <1>2 DEF TurnInv

\* The invariant of scans that take turns holds in every reachable state.
THEOREM TurnsInvariance == Spec => []TurnInv
<1>1. ScannerInv /\ TurnInv /\ [Next]_vars => TurnInv'
    <2> SUFFICES ASSUME ScannerInv, TurnInv, [Next]_vars PROVE TurnInv'
        OBVIOUS
    <2>1. Orderly'
        BY OrderlyKept DEF TurnInv
    <2>2. ~ overlapped' => Alone' /\ Fresh' /\ Counted'
        BY AloneKept, FreshKept, CountedKept DEF TurnInv
    <2>3. QED BY <2>1, <2>2 DEF TurnInv
<1>2. QED BY <1>1, InitTurns, ScannerInvariance, PTL DEF Spec

\* While scans of two replicas did not overlap, each further command a
\* subscriber gets for a release has a fault of its own.
THEOREM RepeatsAreFaults == Spec => []RepeatsHaveReason
<1>1. ScannerInv /\ TurnInv => RepeatsHaveReason
    <2> SUFFICES ASSUME ScannerInv, TurnInv, ~ overlapped, NEW u \in Subscription, NEW t \in Tag
                 PROVE  sent[u][t] <= 1 + faults
        BY DEF RepeatsHaveReason
    <2>1. sent[u][t] \in Nat /\ faults \in Nat
        BY TypeParts DEF ScannerInv, ObservedTypes
    <2>2. sent[u][t] <= faults \/ sent[u][t] <= faults + 1
        BY DEF TurnInv, Counted
    <2>3. QED BY <2>1, <2>2
<1>2. QED BY <1>1, ScannerInvariance, TurnsInvariance, PTL

\* While scans of two replicas did not overlap, no step takes last_seen_tag
\* back.
THEOREM ProgressHolds == Spec => ProgressIsKept
<1>1. ScannerInv /\ TurnInv /\ [Next]_vars =>
          [~ overlapped => \A r \in Repository : lastSeen'[r] >= lastSeen[r]]_vars
    BY SeenGrows
<1>2. QED BY <1>1, ScannerInvariance, TurnsInvariance, PTL DEF Spec, ProgressIsKept

=============================================================================

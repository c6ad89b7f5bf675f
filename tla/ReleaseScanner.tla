--------------------------- MODULE ReleaseScanner ---------------------------
(***************************************************************************)
(* Release tracking: the scan that looks for a new release of every        *)
(* repository with subscribers and publishes a command to each of them,    *)
(* and the requests that make a repository tracked.                        *)
(*                                                                         *)
(* A scan is one call of scanForNewReleases.  A process (replica) runs one *)
(* at a time, replicas know nothing of each other.  A repository is a task *)
(* of the scan, a subscriber a task of that task; both are worked through  *)
(* in chunks, side by side within a chunk.                                 *)
(*                                                                         *)
(* Grain: one step per query, HTTP request and confirmed publication.  The *)
(* tags of a repository are numbered as they come out, 0 is no tag; that   *)
(* GitHub withdraws a release is left out.  Every publication is a command *)
(* with an id of its own, so what is counted here the consumer mails.      *)
(***************************************************************************)
EXTENDS Naturals, FiniteSets, FiniteSetsExt

CONSTANTS
    Replica,        \* processes of the notifier
    Scan,           \* scans that may be in progress at once, on all of them
    Repository,
    Subscription,
    RepoOf,         \* the repository each subscription is for
    MaxTag,         \* bound: releases of a repository
    ChunkSize,      \* env.scanChunkSize
    Attempts,       \* PUBLISH_RETRY_ATTEMPTS
    Faults,         \* the kinds of fault that may occur
    MaxFaults,      \* bound: how many of them in one behaviour
    None

ASSUME ScannerAssumption ==
    /\ RepoOf \in [Subscription -> Repository]
    /\ MaxTag \in Nat
    /\ ChunkSize \in Nat \ {0}
    /\ Attempts \in Nat \ {0}
    /\ None \notin Replica
    /\ Faults \subseteq {"crash", "db", "github", "broker"}
    /\ MaxFaults \in Nat

VARIABLES
    \* GitHub
    latest,       \* the latest release of a repository
    \* the tables repositories and releases
    tracked,      \* repositories with a row
    lastSeen,     \* their last_seen_tag
    releases,     \* the tags recorded as handled
    \* the subscriptions
    subscriber,   \* how far each has come
    asked,        \* the tag its request fetched for a new repository
    since,        \* the latest release when it became active
    \* the scans
    host,         \* the replica each runs on, None if it does not run
    phase,        \* what it does
    at,           \* where it is with each repository
    tag,          \* the last seen, then the new tag it knows for a repository
    audience,     \* subscribers it has yet to publish to
    tries,        \* the attempts begun for each of those
    failed,       \* repositories with a subscriber all attempts failed for
    \* observed from outside
    sent,         \* commands the broker took, for a subscriber and a tag
    overlapped,   \* scans of two replicas were in progress at once
    faults        \* faults so far

tables == <<tracked, lastSeen, releases>>
people == <<subscriber, asked, since>>
scans == <<host, phase, at, tag, audience, tries, failed>>
vars == <<latest, tracked, lastSeen, releases, subscriber, asked, since, host, phase, at, tag,
          audience, tries, failed, sent, overlapped, faults>>

Tag == 0..MaxTag

\* Values of the tables and of the scans; a scan publishes to subscribers of
\* repositories it is publishing for, and to no other.
TypeOK ==
    /\ latest \in [Repository -> Tag]
    /\ tracked \subseteq Repository
    /\ lastSeen \in [Repository -> Tag]
    /\ releases \in [Repository -> SUBSET Tag]
    /\ subscriber \in [Subscription -> {"new", "fetching", "saving", "pending", "active", "left"}]
    /\ asked \in [Subscription -> Tag]
    /\ since \in [Subscription -> Tag]
    /\ host \in [Scan -> Replica \cup {None}]
    /\ phase \in [Scan -> {"idle", "select", "discover", "handle"}]
    /\ at \in [Scan -> [Repository -> {"none", "waiting", "fetching", "found", "listing",
                                       "publishing", "recording"}]]
    /\ tag \in [Scan -> [Repository -> Tag]]
    /\ audience \in [Scan -> SUBSET Subscription]
    /\ tries \in [Scan -> [Subscription -> 0..Attempts]]
    /\ failed \in [Scan -> SUBSET Repository]
    /\ sent \in [Subscription -> [Tag -> Nat]]
    /\ overlapped \in BOOLEAN
    /\ faults \in 0..MaxFaults
    /\ \A s \in Scan : \A u \in audience[s] : at[s][RepoOf[u]] = "publishing"

Init ==
    /\ latest \in [Repository -> Tag]
    /\ tracked = {}
    /\ lastSeen = [r \in Repository |-> 0]
    /\ releases = [r \in Repository |-> {}]
    /\ subscriber = [u \in Subscription |-> "new"]
    /\ asked = [u \in Subscription |-> 0]
    /\ since = [u \in Subscription |-> 0]
    /\ host = [s \in Scan |-> None]
    /\ phase = [s \in Scan |-> "idle"]
    /\ at = [s \in Scan |-> [r \in Repository |-> "none"]]
    /\ tag = [s \in Scan |-> [r \in Repository |-> 0]]
    /\ audience = [s \in Scan |-> {}]
    /\ tries = [s \in Scan |-> [u \in Subscription |-> 0]]
    /\ failed = [s \in Scan |-> {}]
    /\ sent = [u \in Subscription |-> [t \in Tag |-> 0]]
    /\ overlapped = FALSE
    /\ faults = 0

Spend(kind) == kind \in Faults /\ faults < MaxFaults /\ faults' = faults + 1

Release(r) ==
    /\ latest[r] < MaxTag
    /\ latest' = [latest EXCEPT ![r] = @ + 1]
    /\ UNCHANGED <<tables, people, scans, sent, overlapped, faults>>

-----------------------------------------------------------------------------
(* Requests: trackRepository, then what becomes of the subscription.       *)

Advance(u, from, to) ==
    /\ subscriber[u] = from
    /\ subscriber' = [subscriber EXCEPT ![u] = to]

\* Only a repository without a row is asked for its latest release.
Track(u) ==
    /\ Advance(u, "new", IF RepoOf[u] \in tracked THEN "pending" ELSE "fetching")
    /\ UNCHANGED <<latest, tables, asked, since, scans, sent, overlapped, faults>>

FetchFirst(u) ==
    /\ Advance(u, "fetching", "saving")
    /\ asked' = [asked EXCEPT ![u] = latest[RepoOf[u]]]
    /\ UNCHANGED <<latest, tables, since, scans, sent, overlapped, faults>>

\* ON CONFLICT (full_name) DO UPDATE SET updated_at = NOW()
mutant_upsertOverwrites(u) ==
    /\ tracked' = tracked \cup {RepoOf[u]}
    /\ lastSeen' = [lastSeen EXCEPT ![RepoOf[u]] = asked[u]]
    /\ UNCHANGED releases
upsertTrackedRepository(u) ==
    LET r == RepoOf[u] IN
    /\ tracked' = tracked \cup {r}
    /\ lastSeen' = IF r \in tracked THEN lastSeen ELSE [lastSeen EXCEPT ![r] = asked[u]]
    /\ UNCHANGED releases

Save(u) ==
    /\ Advance(u, "saving", "pending")
    /\ upsertTrackedRepository(u)
    /\ asked' = [asked EXCEPT ![u] = 0]
    /\ UNCHANGED <<latest, since, scans, sent, overlapped, faults>>

\* The subscription is inserted and confirmed, and later cancelled.
Activate(u) ==
    /\ Advance(u, "pending", "active")
    /\ since' = [since EXCEPT ![u] = latest[RepoOf[u]]]
    /\ UNCHANGED <<latest, tables, asked, scans, sent, overlapped, faults>>

Unsubscribe(u) ==
    /\ Advance(u, "active", "left")
    /\ UNCHANGED <<latest, tables, asked, since, scans, sent, overlapped, faults>>

\* A request that fails may be made again.
RequestError(u) ==
    /\ \/ Spend("github") /\ Advance(u, "fetching", "new") /\ UNCHANGED tables
       \/ /\ Spend("db") /\ Advance(u, "saving", "new")
          /\ upsertTrackedRepository(u) \/ UNCHANGED tables
    /\ asked' = [asked EXCEPT ![u] = 0]
    /\ UNCHANGED <<latest, since, scans, sent, overlapped>>

-----------------------------------------------------------------------------
(* Scans.                                                                  *)

Running(h) == \E s \in Scan : host[s] = h

ActiveSubscribers(r) == {u \in Subscription : RepoOf[u] = r /\ subscriber[u] = "active"}

\* Where scan s is with r, or a chunk of repositories, changes.
Place(s, R, point) ==
    at' = [at EXCEPT ![s] = [r \in Repository |-> IF r \in R THEN point ELSE at[s][r]]]

\* processInChunks: when nothing of a chunk is left, the next one is taken.
NextChunk(waiting) == kSubset(Min({ChunkSize, Cardinality(waiting)}), waiting)

\* runReleaseScan returns at once while isRunning.
mutant_ScanTwice(s, h) ==
    /\ host[s] = None
    /\ host' = [host EXCEPT ![s] = h]
    /\ phase' = [phase EXCEPT ![s] = "select"]
    /\ overlapped' = (overlapped \/ \E g \in Replica \ {h} : Running(g))
    /\ UNCHANGED <<latest, tables, people, at, tag, audience, tries, failed, sent, faults>>
StartScan(s, h) ==
    /\ host[s] = None /\ ~ Running(h)
    /\ host' = [host EXCEPT ![s] = h]
    /\ phase' = [phase EXCEPT ![s] = "select"]
    /\ overlapped' = (overlapped \/ \E g \in Replica : Running(g))
    /\ UNCHANGED <<latest, tables, people, at, tag, audience, tries, failed, sent, faults>>

\* findRepositoriesWithActiveSubscriptions: what it returns is all the scan
\* will ever know of last_seen_tag.
Select(s) ==
    /\ phase[s] = "select"
    /\ phase' = [phase EXCEPT ![s] = "discover"]
    /\ Place(s, {r \in Repository : ActiveSubscribers(r) # {}}, "waiting")
    /\ tag' = [tag EXCEPT ![s] = [r \in Repository |->
                                     IF ActiveSubscribers(r) = {} THEN 0 ELSE lastSeen[r]]]
    /\ UNCHANGED <<latest, tables, people, host, audience, tries, failed, sent, overlapped, faults>>

In(s, point) == {r \in Repository : at[s][r] = point}

Busy(s) == {r \in Repository : at[s][r] \in {"fetching", "listing", "publishing", "recording"}}

StartChunk(s) ==
    /\ Busy(s) = {} /\ In(s, "waiting") # {}
    /\ \E R \in NextChunk(In(s, "waiting")) :
          Place(s, R, IF phase[s] = "discover" THEN "fetching" ELSE "listing")
    /\ UNCHANGED <<latest, tables, people, host, phase, tag, audience, tries, failed, sent,
                   overlapped, faults>>

\* A task ends, whatever became of it; the scan goes on with the others.
End(s, r) == Place(s, {r}, "none") /\ tag' = [tag EXCEPT ![s][r] = 0]

\* discoverNewReleases, for one repository.
Fetch(s, r) ==
    /\ at[s][r] = "fetching"
    /\ IF latest[r] \in {0, tag[s][r]}
       THEN End(s, r)
       ELSE Place(s, {r}, "found") /\ tag' = [tag EXCEPT ![s][r] = latest[r]]
    /\ UNCHANGED <<latest, tables, people, host, phase, audience, tries, failed, sent, overlapped,
                   faults>>

\* All repositories are looked at before the first is acted upon.
EndDiscovery(s) ==
    /\ phase[s] = "discover"
    /\ In(s, "waiting") \cup Busy(s) = {}
    /\ phase' = [phase EXCEPT ![s] = "handle"]
    /\ Place(s, In(s, "found"), "waiting")
    /\ UNCHANGED <<latest, tables, people, host, tag, audience, tries, failed, sent, overlapped,
                   faults>>

\* handleDiscoveredRelease, first query.
List(s, r) ==
    /\ at[s][r] = "listing"
    /\ Place(s, {r}, "publishing")
    /\ audience' = [audience EXCEPT ![s] = @ \cup ActiveSubscribers(r)]
    /\ UNCHANGED <<latest, tables, people, host, phase, tag, tries, failed, sent, overlapped, faults>>

Audience(s, r) == {u \in audience[s] : RepoOf[u] = r}

StartSends(s, r) ==
    /\ Audience(s, r) # {}
    /\ \A u \in Audience(s, r) : tries[s][u] = 0
    /\ \E U \in NextChunk(Audience(s, r)) :
          tries' = [tries EXCEPT ![s] = [u \in Subscription |-> IF u \in U THEN 1 ELSE tries[s][u]]]
    /\ UNCHANGED <<latest, tables, people, host, phase, at, tag, audience, failed, sent, overlapped,
                   faults>>

Count(s, u) == sent' = [sent EXCEPT ![u][tag[s][RepoOf[u]]] = @ + 1]

\* The publication for one subscriber is over.
Settle(s, u) ==
    /\ audience' = [audience EXCEPT ![s] = @ \ {u}]
    /\ tries' = [tries EXCEPT ![s][u] = 0]

Publish(s, u) ==
    /\ u \in audience[s] /\ tries[s][u] > 0
    /\ Count(s, u)
    /\ Settle(s, u)
    /\ UNCHANGED <<latest, tables, people, host, phase, at, tag, failed, overlapped, faults>>

\* All subscribers are settled: one that got nothing keeps the release from
\* being recorded.
Conclude(s, r) ==
    /\ at[s][r] = "publishing" /\ Audience(s, r) = {}
    /\ IF r \in failed[s] THEN End(s, r) ELSE Place(s, {r}, "recording") /\ UNCHANGED tag
    /\ failed' = [failed EXCEPT ![s] = @ \ {r}]
    /\ UNCHANGED <<latest, tables, people, host, phase, audience, tries, sent, overlapped, faults>>

\* recordDiscoveredRelease and updateLastSeenTag, in one transaction; the
\* update looks at nothing but the id.
mutant_SaveHistory(s, r) ==
    /\ releases' = [releases EXCEPT ![r] = @ \cup {tag[s][r]}]
    /\ UNCHANGED <<tracked, lastSeen>>
SaveRelease(s, r) ==
    /\ releases' = [releases EXCEPT ![r] = @ \cup {tag[s][r]}]
    /\ lastSeen' = [lastSeen EXCEPT ![r] = tag[s][r]]
    /\ UNCHANGED tracked

Record(s, r) ==
    /\ at[s][r] = "recording"
    /\ SaveRelease(s, r)
    /\ End(s, r)
    /\ UNCHANGED <<latest, people, host, phase, audience, tries, failed, sent, overlapped, faults>>

\* isRunning = false, also when the scan failed.
Finish(s) ==
    /\ host' = [host EXCEPT ![s] = None]
    /\ phase' = [phase EXCEPT ![s] = "idle"]

EndScan(s) ==
    /\ phase[s] = "handle"
    /\ In(s, "waiting") \cup Busy(s) = {}
    /\ Finish(s)
    /\ UNCHANGED <<latest, tables, people, at, tag, audience, tries, failed, sent, overlapped, faults>>

-----------------------------------------------------------------------------
(* Faults.                                                                 *)

mutant_SelectStuck(s) ==
    /\ phase[s] = "select"
    /\ Spend("db")
    /\ phase' = [phase EXCEPT ![s] = "idle"]
    /\ UNCHANGED <<latest, tables, people, host, at, tag, audience, tries, failed, sent, overlapped>>
SelectError(s) ==
    /\ phase[s] = "select"
    /\ Spend("db")
    /\ Finish(s)
    /\ UNCHANGED <<latest, tables, people, at, tag, audience, tries, failed, sent, overlapped>>

\* A request to GitHub or a query fails and ends the task; a transaction may
\* have been carried out all the same.
TaskError(s, r) ==
    /\ \/ at[s][r] = "fetching" /\ Spend("github") /\ UNCHANGED tables
       \/ at[s][r] = "listing" /\ Spend("db") /\ UNCHANGED tables
       \/ at[s][r] = "recording" /\ Spend("db") /\ (SaveRelease(s, r) \/ UNCHANGED tables)
    /\ End(s, r)
    /\ UNCHANGED <<latest, people, host, phase, audience, tries, failed, sent, overlapped>>

\* sendWithRetry: the broker took the command or not, and the publication
\* fails; another attempt, or the end of the attempts.
PublishError(s, u) ==
    /\ u \in audience[s] /\ tries[s][u] > 0
    /\ Spend("broker")
    /\ Count(s, u) \/ UNCHANGED sent
    /\ IF tries[s][u] < Attempts
       THEN /\ tries' = [tries EXCEPT ![s][u] = @ + 1]
            /\ UNCHANGED <<audience, failed>>
       ELSE Settle(s, u) /\ failed' = [failed EXCEPT ![s] = @ \cup {RepoOf[u]}]
    /\ UNCHANGED <<latest, tables, people, host, phase, at, tag, overlapped>>

\* A process dies, and its scan with it.
Crash(s) ==
    /\ host[s] # None
    /\ Spend("crash")
    /\ Finish(s)
    /\ at' = [at EXCEPT ![s] = [r \in Repository |-> "none"]]
    /\ tag' = [tag EXCEPT ![s] = [r \in Repository |-> 0]]
    /\ audience' = [audience EXCEPT ![s] = {}]
    /\ tries' = [tries EXCEPT ![s] = [u \in Subscription |-> 0]]
    /\ failed' = [failed EXCEPT ![s] = {}]
    /\ UNCHANGED <<latest, tables, people, sent, overlapped>>

-----------------------------------------------------------------------------
Request(u) ==
    Track(u) \/ FetchFirst(u) \/ Save(u) \/ Activate(u) \/ Unsubscribe(u) \/ RequestError(u)

\* What a scan does of itself.
Proceed(s) ==
    \/ Select(s) \/ StartChunk(s) \/ EndDiscovery(s) \/ EndScan(s)
    \/ \E r \in Repository :
          Fetch(s, r) \/ List(s, r) \/ StartSends(s, r) \/ Conclude(s, r) \/ Record(s, r)
    \/ \E u \in Subscription : Publish(s, u)

Next ==
    \/ \E r \in Repository : Release(r)
    \/ \E u \in Subscription : Request(u)
    \/ \E s \in Scan :
          \/ Proceed(s) \/ SelectError(s) \/ Crash(s)
          \/ \E h \in Replica : StartScan(s, h)
          \/ \E r \in Repository : TaskError(s, r)
          \/ \E u \in Subscription : PublishError(s, u)

Spec == Init /\ [][Next]_vars

\* Node goes on with a scan whose query, request or confirm is answered, and
\* the interval keeps starting scans.
Fairness ==
    /\ \A s \in Scan : WF_vars(Proceed(s))
    /\ \A h \in Replica : WF_vars(\E s \in Scan : StartScan(s, h))

FairSpec == Spec /\ Fairness

-----------------------------------------------------------------------------
(* Properties.                                                             *)

\* What is marked as seen was announced: a release recorded, or named by
\* last_seen_tag, got to everyone who was a subscriber when it came out and
\* still is, whichever scans, replicas and requests that track the repository
\* race, and whatever fails (handleDiscoveredRelease, upsertTrackedRepository).
Reached ==
    \A u \in Subscription, t \in Tag :
        LET r == RepoOf[u] IN
        subscriber[u] = "active" /\ since[u] < t /\ t \in releases[r] \cup {lastSeen[r]}
            => sent[u][t] > 0

\* A subscriber gets a second command for a release only if something failed,
\* or the scans of two replicas overlapped: isRunning and last_seen_tag see to
\* it between the scans of a process, and of replicas that take turns.
RepeatsHaveReason ==
    ~ overlapped => \A u \in Subscription, t \in Tag : sent[u][t] <= 1 + faults

\* Progress is not undone: last_seen_tag goes back only to an older release
\* that a scan overlapping another found (updateLastSeenTag).
ProgressIsKept ==
    [][~ overlapped => \A r \in Repository : lastSeen'[r] >= lastSeen[r]]_vars

\* A release is announced to each of its subscribers, unless the next one
\* comes out before or the subscriber leaves, although scans fail.
Announced ==
    \A u \in Subscription, t \in Tag :
        subscriber[u] = "active" /\ since[u] < t /\ latest[RepoOf[u]] = t
            ~> sent[u][t] > 0 \/ subscriber[u] # "active" \/ latest[RepoOf[u]] > t
=============================================================================

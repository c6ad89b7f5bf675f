# Verification of the release notifier

This directory holds TLA+ models of the program, configurations that check them
with TLC on small instances, and theorems about them that TLAPS has checked.
The program is two Node.js services: the **notifier** (HTTP API, subscriptions,
sagas, release tracking; `src/`) and the **notification service** (mail delivery
over gRPC, REST and RabbitMQ; `services/notification-service/`), which share
`packages/shared/`, PostgreSQL and RabbitMQ.

## 1. Inventory

| Component (source) | State | Operations | Talks to |
|---|---|---|---|
| Subscriptions (`src/modules/subscriptions`) | table `subscriptions`, one active row per email and repository | create, confirm, unsubscribe, list, remove pending | saga orchestrator, recovery job |
| Saga orchestrator (`sagas/subscriptionConfirmationSaga.js`, `sagaRepository.js`) | table `sagas`: STARTED, NOTIFICATION_PENDING, COMPLETED, COMPENSATING, COMPENSATED, FAILED | create, dispatch, complete, abandon, compensate | subscriptions, gRPC client |
| Saga recovery job (`sagas/index.js`) | an interval timer; nothing keeps runs apart | list timed-out sagas, compensate each | the same tables, from every replica |
| Saga reply consumer (`sagas/sagaReplyConsumer.js`) | table `processed_saga_replies`, retry and dead-letter queues | handle reply, record it | RabbitMQ, sagas |
| gRPC client and server (`notifications/grpcClient.js`, `grpcServer.js`) | a call, its deadline | send confirmation | mail delivery |
| Notification consumer (`notification-service/src/consumer.js`, `processedMessageRepository.js`) | table `processed_messages` (claims), queues | claim, send, record, retry, dead-letter, reply | RabbitMQ, SMTP |
| Topology, broker client, consumer runtime, publisher (`packages/shared/modules/messaging`) | connection, channels, timers, deliveries in flight | connect, reconnect, start, restart, publish, close | RabbitMQ |
| Release tracking (`src/modules/releaseTracking`) | `repositories.last_seen_tag`, release history, scan timer | scan, discover, publish to subscribers, mark handled | GitHub, publisher |
| Process lifecycle (`server.js`, `gracefulShutdown.js`) | shutdown in progress | start, close in order, time out | all of the above |
| Migrations (`db/migrate.js`) | table `schema_migrations` | apply what is missing | PostgreSQL |
| Saga monitoring API, listings, health, REST interface | none | queries, calls | tables |
| Configuration, validation, tokens, errors, observability, page | none that matters | pure functions, counters | - |

What is hard in it:

* every database statement, RPC and broker confirm is an await; between two of
  them other requests, timers and replicas run, and no lock spans two of them;
* processes die between two statements; a failed statement may have been
  carried out; a connection breaks before or after the other side did its work;
* timers race answers: the gRPC deadline, the saga timeout, the claim timeout;
* messages are delivered again, retried through a TTL queue, dead-lettered;
* two replicas run the same recovery job and the same scanner.

`PROJECT.json` lists these hazards at their lines with the properties that
would catch them.

What makes each component correct:

* **Subscriptions and sagas**: one active subscription and saga each; COMPLETED
  and COMPENSATED can be trusted; terminal states are final; a confirmed
  subscription is never deleted; a subscription is lost only to its own saga's
  compensation; dispatched sagas end, requests are answered.
* **Notification consumer**: a command is worked on by one consumer at a time,
  is acknowledged only when it was mailed or dead-lettered, is mailed once as
  far as its record allows, and does not circulate for ever.
* **Saga replies**: a reply takes effect once, late replies change nothing.
* **Release tracking**: a release reaches every subscriber, a tag is never
  marked seen before it did, replicas that take turns do not undo each other's
  progress.
* **Broker client, runtime, publisher, shutdown**: after close nothing is
  reopened, what is in flight is waited for, at most one channel is in use.
* **Migrations**: each applied once and in order, whoever starts first.

## 2. The saga core

### Modules

| Module | Content |
|---|---|
| `SagaLifecycle` | the contract of a saga: its states, its mail, the subscription created with it |
| `SubscriptionSaga` | the program: requests, recovery sweeps, visitors, the gRPC call and faults, over the tables |
| `SubscriptionSagaProofs` | the inductive invariant and the theorems |
| `MCSubscriptionSaga` | instances and symmetry for TLC |

`SubscriptionSaga` has one action per database statement or transaction and per
message of the gRPC call. `pc[w]` is the await at which a request or sweep
stands. A request and the row and saga it inserts have the same name, since
identifiers are never reused; `subject[g]` is the subscription in the payload of
saga `g`, and `subject[g] = g` is the flag `shouldCompensateSubscription`, which
the code sets exactly for a saga inserted together with its subscription.

| State or action | Code |
|---|---|
| `subscriptions`, `sagas`, `subject`, `overdue` | the tables; `overdue` is `updated_at` older than the timeout |
| `Subscribe`, `Insert` | `createSubscription`: the query, then the transaction |
| `FindActiveSaga`, `CreateSaga`, `FindConcurrentSaga` | `startSubscriptionConfirmationSaga` |
| `Dispatch`, `Reply`, `DeadlineExceeded`, `ConnectionLost` | `dispatchSubscriptionConfirmationSaga`, `mapGrpcError` |
| `Complete`, `Abandon` | `completeAfterNotificationDelivery`, the branch for an uncertain delivery |
| `Load`, `Claim`, `Delete`, `Finish` | `compensateSubscriptionConfirmationSaga` and what it calls, also from sweeps |
| `StartSweep`, `TakeUp`, `EndSweep` | `recoverTimedOutSubscriptionConfirmationSagas` |
| `LookUpToken`, `Confirm`, `Unsubscribe` | `confirmSubscription` in its two statements, `unsubscribe` |
| `Serve` | the handler of the notification service, which ignores the client's deadline |
| `DatabaseError`, `ConfirmError`, `Crash`, `Age` of an attended saga | failed statements with unknown outcome, dead processes, stalled workers |

Abstractions: the batch of a sweep is ordered by age in the code and left open
here; a validated pair of email and repository is a model value; an
unsubscription is one step, because the row it names is confirmed and is never
deleted. Replies that arrive over RabbitMQ are not part of this module: the
notifier sends the confirmation over gRPC, and only a command that carries a
saga id, which nothing publishes today, produces one. Their consumer is module
`SagaReplies` (section 5).

### Runs

Every configuration sets `CHECK_DEADLOCK FALSE`: once all requests are answered
and all sagas have ended, nothing is left to do.

| Run | Instance | Shows |
|---|---|---|
| `contract` | 3 requests for one pair, 1 sweep with batches of 2, 1 visitor, 1 fault of any kind | `TypeOK`, `UniqueActive`, `CompletedMeansMailed`, `LostOnlyByCompensation`, `OwnSuccessIsServed`, `PromisesHold`, `ConfirmedIsNeverDeleted`, `ImplementsLifecycle` |
| `liveness` | 2 requests, 2 sweeps, 2 crashes, failed statements or broken connections, fairness | `DispatchedSettles`, `EveryRequestEnds`; `CompensatedMeansSettled` where two sweeps compensate one saga |
| `started_stuck` | 1 request, 1 sweep, a crash | counterexample to `EverySagaSettles` |

Bounds. Every check-then-act of the code is about one pair, and requests for
different pairs share no row, so all requests are for one. Two of them meet in
each check; the third lets a request find a subscription whose first saga has
ended while another request mails it again, which is what reaches
`FindConcurrentSaga` and its unique index. A sweep that listed two sagas holds
one of them while it works on the other. Two sweeps on one saga (`liveness`) give
one in the middle of a compensation and one that starts it anew; a third could
only repeat what the second does, and the theorems are about any number.
`MaxFaults` is the number of faults in a behaviour. Requests do not repeat; a
client that asks again is another request.

Fairness (`Fairness`). A request goes on when its query or timer fires (Node
schedules every settled promise), the interval keeps starting sweeps
(`setInterval`) which go on likewise, and time passes for a saga nobody attends
to. Nothing forces the notification service to answer, a subscriber to click or
a fault to happen: a request whose call is never answered ends by its deadline.

### Where the code and its documentation part

`started_stuck` is a run that TLC ends with a counterexample, with the quotation
in `PROJECT.json`: a crash between commit and dispatch leaves STARTED, which the
recovery job does not list, and later requests for the pair are told the mail
was sent. That this is no matter of time is proved, for any constants:
`StartedIsNeverRecovered` says that a saga still STARTED when its request is over
stays STARTED (`ForgottenForEver`), whatever else happens, and that meanwhile its
subscription gets no other saga, since the unique index refuses one.

The documentation promises three more things: that a request whose call timed
out keeps its subscription (`TimedOutIsKept`), that only what was definitely not
delivered is compensated (`OnlyUndeliveredIsCompensated`), and that a visitor
who was told so is confirmed (`AcknowledgedIsConfirmed`). `PromisesHold` shows
that they hold while nothing fails, however requests, sweeps and visitors
interleave, and `PromisesKept` proves it for any number of them. Each can be broken
by one fault, and no property claims the contrary:

* the update that keeps a timed-out subscription fails, and recovery deletes it
  (broken connections do not: `TimedOutIsKeptByResets`, for any number of them);
* a connection breaks after the mail was sent, which `mapGrpcError` takes for a
  definite failure;
* a stalled request or a failed statement lets a row be deleted between the two
  statements of a confirmation, whose visitor is told that it is confirmed.

Two more consequences of the code are visible in the model: a request that finds
the saga of another in flight answers 200 before any mail was sent, which is why
`OwnSuccessIsServed` speaks of the request's own saga; and the second of two
simultaneous first requests for a pair may end in an internal error, raised by
the unique index, rather than in 200 or 409.

### Theorems

All are about `Spec` with any sets of requests, sweeps, visitors and pairs, any
batch size and any number of faults, from `ConstantsAssumption` alone: requests
and sweeps are different things, `None` is no request, and every request has a
pair.

None of the safety properties is inductive: what a worker writes depends on
what it read some statements ago. `IInv` therefore joins to the properties of the
tables (`TablesHold`) what is still true at each point of each worker
(`WorkerHolds`): a request owns its saga until it dispatched it
(`RequestHolds`); a sweep expects NOTIFICATION_PENDING or COMPENSATING and never
STARTED (`SweepHolds`); and a worker past its claim may have been overtaken only
by an end of the same compensation, while what it deleted stays deleted
(`ClaimHolds`). The last one is why the unprotected claim does no harm. The proof
first reduces every statement, failed or not, to a few moves of a saga or a row
(`StatementMoves`), shows once that moves keep the tables (`TablesKept`) and
the points of all other workers (`OthersKept`), and is then left with the point
of the worker that moved, action by action (`NextInvariant`).

| Theorem | Property |
|---|---|
| `TypeCorrect`, `Invariance` | `TypeOK`, `IInv` |
| `UniqueActiveHolds`, `CompletedIsMailed`, `CompensatedIsSettled`, `LostOnlyByOwnCompensation`, `OwnSuccessServed` | invariants that follow from `IInv` |
| `TerminalStatesAreFinal`, `ConfirmedIsKept` | action properties, from `StepMoves` |
| `Implementation` | `Spec => ImplementsLifecycle`: every step is a step of `SagaLifecycle` or a stutter |
| `PromisesKept`, `TimedOutIsKeptByResets` | `PromisesHold`; `TimedOutIsKept` while nothing but connections fails |
| `StartedIsNeverRecovered` | why `EverySagaSettles` fails, as a property of every behaviour |

The promises of the documentation rest on a second invariant, `CalmInv`, which
holds while nothing but connections fails: each saga is in the hands of the request
that inserted it, so that none ages and no sweep takes one up (`OnTrack`); a link
is mailed again only after the first saga of its subscription ended
(`Remailing`); and, while nothing fails at all, what a visitor has looked up will
not be deleted any more, because its mail was sent or its saga has ended
(`Looked`).

`IInv` and `TerminalIsFinal` are in no run any more: they are proved, and the
other properties are what a mutation of the code breaks first. Only
model-checked are the liveness properties (out of the prover's reach, as is
`ENABLED`).

## 3. The notification consumer

| Module | Content |
|---|---|
| `CommandContract` | the contract of a command: when it may be mailed, told of, discarded and forgotten |
| `NotificationConsumer` | executions of `handleMessage`, the claims of `processed_messages`, the queues |
| `NotificationConsumerProofs` | its invariant and theorems |
| `MCNotificationConsumer` | symmetry for TLC |

An execution (`Worker`) goes through `handleMessage` one database statement,
mail or confirmed publication at a time. Each starts with a message on an open
channel; `LoseChannel` gives the message back to the queue while the execution
goes on, as amqplib and the broker do, and from then on its acks, nacks and
publications throw. `place` is where the message is (main queue, unacked, retry
queue, acknowledged), `deaths` the x-death count that `getDeadLetterAttemptCount`
reads, `record` and `stale` the row of `processed_messages` and whether it is
older than `STALE_CLAIM_MS`. The mail server takes a mail, fails, or takes it
and fails (`MailError`). Which of a payload's fields is missing is not told apart
(`Malformed`), nor is the kind of a command except for having a saga (`Replied`).

| Run | Instance | Shows |
|---|---|---|
| `consumer` | a command of each sort (with a saga, without, malformed), 2 executions, 2 attempts, 3 faults of any kind | `OneConsumer`, `SuccessIsTrue`, `MailedOnce`, `Accounted`, `RetriesAreBounded`, `KeepsContract` |
| `consumer_ends` | 2 commands, 2 executions, 2 faults, fairness | `CommandEnds` |
| `consumer_lost` | 1 command, a crash | counterexample to `AcknowledgedIsMailed` |

`struck` is the set of the kinds of fault that have occurred, and a property that
does not survive all of them says which it survives. `MailedOnce` holds for
redelivery, however it comes about, and fails once a mail and its record part (a
failed statement, a wrong error of the mail server, a claim taken over), which
ADR 004 accepts. `Accounted` holds as long as executions keep their channel and
statements do not fail; a crash, a lost channel or a failed claim each lose a
command, because a redelivery that finds the claim taken is acknowledged on the
claimant's behalf. The documentation promises it without the proviso, which
`consumer_lost` refutes. Two attempts are enough to have a retry and an exhausted
command; two executions let a claim be seen by a redelivery while its owner, cut
off, goes on.

`KeepsContract` says that every step is one that `CommandContract` allows. That module
knows no queue, claim or execution, only mails, replies, dead letters, what the
broker has forgotten and what has failed (`settled` is mapped to
the commands whose `place` is `acked`, the other variables to themselves):

* success is told only after the mail, whatever has failed (`Succeed`);
* failure is told only of a mail that was not sent (`Fail`): the saga that hears of
  it deletes the subscription. Not so once a channel was lost, since the execution
  cut off may still mail, or once a mail and its record have parted (`Unsent`);
* nobody gives up on a command in silence (`Discard`): its saga has heard of the
  failure, or the mail was sent; one without a saga has not been mailed (with the
  proviso of `Fail`); a malformed one may always be discarded;
* a command is forgotten once, and only when it was mailed and reported or
  dead-lettered (`Settle`), unless an execution was cut off or a statement failed.

The kinds of fault in each proviso are all needed: without any one of them TLC
finds a step of the program that the contract forbids.

Fairness: Node continues an execution whose query, mail or confirm is answered,
the broker gives a waiting message to a consumer with a free channel, and a TTL
passes. Mails may fail for ever; the attempts end that.

Theorems, from `ConsumerAssumption`, for any commands, executions, attempts and
faults: `ConsumerTypeCorrect`, `SuccessHolds`, `RetriesBounded`, `ClaimsExclude`,
`RedeliverySendsOnce` and `AcknowledgedIsAccounted`, the last three with the
proviso on `struck` that their properties state (`TypeOK` is proved and in no run
any more). Each comes from a part of `ConsumerInv`: `Truth` (a mail was sent where it is about to be
recorded), `Exclusive` (who works on a command owns its record), `Once` (without
a record there was no mail), `Attended` (a pending record has an execution at
work, so that nothing is acknowledged on behalf of nobody). `OthersStay` reduces
each step to the execution that takes it.

`ConsumerKeepsContract` proves `Spec => KeepsContract` with one more conjunct per
execution, `TellsTruly`: one that is about to discard a command has told its
saga or finds it mailed, and, while nothing has divided executions from their
commands and mails from their records, one that gives up holds a command that was
not mailed. The step that needs it most is `Failed`: it tells a saga that the
mail failed some statements after the mail was tried, while other executions of
the command may have run. `CommandEnds` is only
model-checked.

## 4. Release tracking

`ReleaseScanner` (instances in `MCReleaseScanner`) models the scan and what it
meets: releases that come out, requests that make a repository tracked,
subscribers that come and go, and the scans of other replicas.

| State or action | Code |
|---|---|
| `tracked`, `lastSeen`, `releases` | `repositories` with `last_seen_tag`, the release history |
| `Track`, `FetchFirst`, `Save` | `trackRepository`: lookup, first tag, upsert that leaves an existing row's tag alone |
| `StartScan`, `Select`, `EndScan` | `runReleaseScan` with `isRunning`, the query for repositories with active subscribers |
| `Fetch`, `EndDiscovery` | `discoverNewReleases`: all repositories before the first release is handled |
| `List`, `StartSends`, `Publish`, `PublishError`, `Conclude`, `Record` | `handleDiscoveredRelease`: subscribers, `sendWithRetry`, the error that leaves the release pending, the transaction |
| `StartChunk`, `StartSends` | `processInChunks`: the next chunk is any part of what waits, as large as the chunk size allows |

A tag is a number in the order of release; GitHub withdrawing a release is left
out. Every publication gets an id of its own (`randomUUID`), so the consumer does
not recognise a repeated one, and what `sent` counts is what is mailed.

| Run | Instance | Shows |
|---|---|---|
| `releases` | 2 scans on 2 replicas, 1 repository with 2 subscribers, 2 releases, a fault of any kind | `Reached`, `RepeatsHaveReason`, `ProgressIsKept` |
| `releases_announced` | 1 scan, 2 repositories in chunks of one, 2 attempts, 1 release each, 2 faults, fairness | `Announced` |

`Reached` holds with any interleaving of replicas, although `updateLastSeenTag`
looks at nothing but the id; the other two hold only as long as scans of two
replicas did not overlap, which nothing prevents (`docs/system-design.md` names
it as a weakness). Two scans, releases and subscribers are what it takes for one
scan to overwrite the other's newer tag. Requests ask for a repository again
after a failure, but a subscriber who left does not come back.

Fairness: a scan goes on when its query, request or confirm is answered, and the
interval starts scans. Nothing forces releases, requests or faults.

`docs/system-design.md:515` says that a scan in which some publications fail
"marks the release handled"; `releaseHandlerService.js:61-63` throws instead and
leaves it pending. The model follows
the code: the next scan repeats the release to everyone, one of the reasons for
a repeat that `RepeatsHaveReason` allows.

`ReleaseScannerProofs` proves `ScannerTypeCorrect` and `ReachedHolds` from
`ScannerAssumption`, for any replicas, scans, repositories, subscribers, releases
and faults. `Reached` is not inductive: a scan records what it did long before.
The invariant adds where a scan may be in each phase (`Phases`), that no tag is
known before it came out (`Bounded`: whoever subscribes later does not wait for
it), that a subscriber's repository is tracked (`Followed`: the upsert cannot
mark a tag as seen behind the subscriber's back), and `Served`: those who wait for the tag
a scan publishes got it, are still addressed, or keep it from being recorded.

The other two need an invariant about scans that take turns, `TurnInv`, proved on
top of the first: only tracked repositories have a tag and are scanned
(`Orderly`), and until two scans overlap there is one at a time (`Alone`), what it
knows of `last_seen_tag` is what the table says (`Fresh`), and each repetition has
its fault (`Counted`). The last conjunct counts to `faults` for a release that
may still be published, and to one more once it is `Settled`: recorded, or passed
by a scan that goes on to record it. `RepeatsAreFaults` and `ProgressHolds` follow
for any number of scans, replicas and faults. `Announced` (liveness) is only
model-checked.

## 5. Saga replies

`SagaReplies` models `sagaReplyConsumer.js`: executions of `handleMessage` over
`Deliveries` (what it shares with the notification consumer: a message in its
queues, the executions it is delivered to, acks and nacks on open and closed
channels), `processed_saga_replies`, and the handlers
`completeAfterNotificationDelivery` and `compensateLoadedSubscriptionConfirmationSaga`
one statement at a time. Requests, sweeps and subscribers are *any* steps that
`SagaLifecycle` allows (`Others`): `SubscriptionSaga` is proved to take no others,
so the composition of the two modules is through their contract, and
`ImplementsLifecycle` shows that the consumer keeps to it as well. Its environment
is the notification service, of which is used what `NotificationConsumer` proves
(`SuccessHolds`, and `Succeed` of `CommandContract`): a reply of success is published
only after the mail.

| Run | Instance | Shows |
|---|---|---|
| `replies` | a success, a failure and an unusable reply about one saga, 2 executions, 1 attempt, 2 faults of any kind, fairness | `OneCompensator`, `DoneMeansEffect`, `ImplementsLifecycle`, `RepliesEnd` |

Two executions are a delivery and its redelivery, or a success and a failure that
meet; one attempt makes every failure lead to the dead-letter queue. Replies are
about one saga because handling touches no other. Fairness is that of the
notification consumer; requests and sweeps need not do anything.

Unlike the claim of a sweep, that of a reply expects NOTIFICATION_PENDING and is a
lock (`OneCompensator`). As in the sweeps, an interrupted compensation is left in
COMPENSATING and a redelivered reply does not resume it: the recovery job does.

`SagaRepliesProofs` proves `RepliesTypeCorrect`, `OneCompensatorHolds`,
`DoneHasEffect` and `RepliesImplement` for any replies, sagas, executions,
attempts and faults. The invariant adds to the two properties that a published
reply tells the truth about its saga (`Told`), that COMPENSATED leaves no
unconfirmed subscription (`Gone`) and what an execution knows at each of its
statements (`PointsHold`): what it read must survive the steps of everyone else,
which is where the contract of `SagaLifecycle` is used. With `SubscriptionSaga`,
proved to implement the same contract, both sides of the composition are proved.

What the contract is worth is proved once, of the contract: `ContractIsSound` derives
from `LifecycleSpec` that COMPLETED means mailed, COMPENSATED that no unconfirmed
subscription is left, that a subscription is gone only under a saga that set out to
undo it (`StatesMean`), and that no ended saga is revived, no confirmed
subscription deleted and no mail taken back (`NothingIsTakenBack`). By
`RepliesImplement` the same holds of replies, requests, sweeps and visitors
together (`RepliesKeepMeaning`). `RepliesEnd` is only model-checked.

## 6. Broker client, consumer runtime, publisher and shutdown

| Module | Content |
|---|---|
| `BrokerClient` | `createBrokerClient` (connect, reconnect timer, close), the channel its owner opens, the last stages of `closeAll` |
| `ConsumerRuntime` | `consumerRuntime.js` with the retry loop around it and the shutdown of the notification service; the notifier's reply consumer is started and closed by the same code |
| `NotificationPublisher` | `notificationPublisher.js` with the shutdown of the notifier |
| `BrokerClientProofs`, `ConsumerRuntimeProofs`, `NotificationPublisherProofs` | their invariants and theorems |

Node runs one callback at a time: an event, a timer, an answer of the broker and
the code after an `await` are one step each. `sockets` and `channels` are what is
open at the broker's end; `connection`, `channel`, `opening`, the timers and the
flags are the closures' variables. `opening` stands for the promise `starting`
(or `channelPromise`) and how far it has come; `restarting` and `retrying` say who
else awaits it. `stage` is how far `closeAll` is. A channel that closes before its
listener is attached is noticed only by the `await` that fails (`Listening`).

What amqplib does is taken from how the code uses it: a closed connection closes
its channels, closing a closed channel throws, and publications that wait for a
confirm on a channel that closes fail. A broker that cancels a subscription by
itself (a `null` message, which `consumeMessage` ignores) is not modelled.

| Run | Instance | Shows |
|---|---|---|
| `runtime` | 4 lost channels, lost connections, failed attempts or refused subscriptions, a signal at any moment, fairness | `OneSubscription`, `TasksFinishFirst`, `DoneMeansQuiet`, `ConsumptionReturns`, `ShutdownEnds` |
| `publisher` | 2 publications, 3 faults, a signal at any moment, fairness | `OneChannel`, `PublishedFirst`, `QuietUnlessFailed`, `PublicationsEnd` |

Fairness: the broker answers, timers fire, servers close and executions end.
Nothing says that messages come, that a signal comes, or that the timeout of the
shutdown passes: `ShutdownEnds` is without its help. With four faults a channel is
lost while its connection is restored after an attempt that failed, and the
restored one is lost once more.

`QuietUnlessFailed` has a proviso that is a defect of the code:
`closeNotificationPublisher` awaits `publisher.close()` before
`brokerClient.close()`, and the first throws if its channel is lost meanwhile.
`closeAll` logs that and goes on with the pool, but the broker client stays open,
its connection or its timer with it, and the timeout that would have ended the
process has been cleared by then.

The theorems are about any number of faults and, in the publisher, any set of
calls, from `BrokerAssumption` (`None` is neither a connection nor a channel).
`RuntimeInv` and `PublisherInv` join to the types that one connection is open at
most (`OneSocket`) and one channel (`Opened`), which one that is at each point of
its opening and of the shutdown, and what is over at which stage (`Ceased`); the
consumer adds that the broker delivers only on a channel whose subscription is
known (`Subscribed`). None of them is inductive without the others: that nothing
is left at the end follows from what could still have been started at each
stage before. There is one lemma per conjunct, with one step per kind of action.
`BrokerClientProofs` holds what both share.

| Theorem | Property |
|---|---|
| `RuntimeTypeCorrect`, `PublisherTypeCorrect` | `TypeOK` of either module |
| `OneSubscriptionHolds`, `TasksEndFirst`, `ShutdownLeavesNothing` | `OneSubscription`, `TasksFinishFirst`, `DoneMeansQuiet` |
| `OneChannelHolds`, `CallsEndFirst`, `QuietHolds` | `OneChannel`, `PublishedFirst`, `QuietUnlessFailed` |

`ConsumptionReturns`, `ShutdownEnds` and `PublicationsEnd` are only model-checked.

## 7. Migrations

`Migrations` runs `runMigrations` in any number of processes: the creation of
`schema_migrations`, which may collide in spite of `IF NOT EXISTS`, and per file
the check, its statements, the registration and the commit. A registration waits
for an open transaction that made the same one and fails if that commits. In
`docker-compose.yml` the migrations are a service that runs once; nothing in the
code keeps a second run from starting next to it.

Run `migrations` (3 processes, the 5 files of the repository, 2 faults, fairness of
each process) shows `AppliedOnce`, `AppliedInOrder`, `OkMeansComplete`,
`RaceHasWinner` and `RunnersEnd`. `MigrationsProofs` proves all but the last for any
processes, files and faults: what is left behind is applied (`Behind`), a file is
registered in one open transaction (`Locked`), and without faults some process is
always at the first file that is not applied, where no other can make it fail
(`Led`).

## 8. Plan

Done: all components with state that races, fails or restarts, and a theorem for
every invariant, action property and refinement that a passing run checks; what
stays with TLC is liveness under fairness, out of the prover's reach. Left, in order:
the pool at the end of the shutdown under requests, sweeps and scans that are not
awaited; a subscription the broker cancels; GitHub withdrawing a release; the
REST variant of the confirmation call, if the saga is ever to use it.

## 9. Not modelled

HTTP routing and health queries (no state), the REST variant of the notification
call (same outcomes as the gRPC one), SMTP and mail texts (a mail is sent or it
is not), input validation, configuration and tokens (pure functions of one value,
well within reach of unit tests), logging and metrics, the web page, generated
protobuf code and scripts.

Of what is modelled, left out are: the pool in the hands of requests, sweeps and
scans when the notifier's shutdown ends it (each statement then fails, which the
modules allow anywhere as a failed statement); the REST error mapping and the
HTTP statuses of GitHub (a request fails or it does not); listings and the saga
monitoring API, which only read.

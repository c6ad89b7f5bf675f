-------------------------- MODULE ConsumerRuntime --------------------------
(***************************************************************************)
(* The process of a broker consumer: the runtime that starts, restarts and *)
(* closes its subscription, the retry around it, its broker client, and    *)
(* the shutdown of the notification service.  The notifier starts and      *)
(* closes its consumer of saga replies in the same way.                    *)
(***************************************************************************)
EXTENDS Naturals, BrokerClient

VARIABLES
    consumers,      \* the channels the broker delivers on
    consumerTag,    \* a subscription is known
    restartTimer,   \* the runtime's timer is armed
    restarting,     \* what it started awaits starting
    retryTimer,     \* consumerRetryTimer is armed
    retrying,       \* startConsumerWithRetry awaits starting
    inFlight,       \* executions of handleMessage, by the channel they came on
    awaited,        \* those the shutdown waits for
    currentChannel

subscription == <<consumers, consumerTag>>
restarts == <<restartTimer, restarting>>
retries == <<retryTimer, retrying>>
tasks == <<inFlight, awaited, currentChannel>>
runtimeVars == <<subscription, restarts, retries, tasks>>
vars == <<brokerVars, channelVars, processVars, runtimeVars>>

Stage == {"run", "servers", "starting", "cancel", "tasks", "channel",
          "broker", "pending", "connection", "pool", "done", "exited"}

\* closing of the process and of the runtime
Closing == stage # "run"
RuntimeClosing == stage \notin {"run", "servers"}

\* The values of the variables; what waits for starting has it to wait for.
TypeOK ==
    /\ ClientTypeOK
    /\ stage \in Stage
    /\ opening \in {"no", "connect", "open", "topology", "consume", "undo"}
    /\ consumers \subseteq channels
    /\ consumerTag => channel # None
    /\ restarting \/ retrying => opening # "no"
    /\ inFlight \subseteq Channel
    /\ awaited \subseteq inFlight

\* The service calls startConsumerWithRetry.
Init ==
    /\ ClientInit
    /\ connecting = TRUE
    /\ opening = "connect"
    /\ consumers = {} /\ consumerTag = FALSE
    /\ restartTimer = FALSE /\ restarting = FALSE
    /\ retryTimer = FALSE /\ retrying = TRUE
    /\ inFlight = {} /\ awaited = {}
    /\ currentChannel = None

-----------------------------------------------------------------------------
(* start.                                                                  *)

\* The subscription there is, the attempt there is, or a new one.
mutant_Needed == opening = "no"
Needed == channel = None /\ opening = "no"

Start == IF Needed THEN AskChannel ELSE UNCHANGED <<opening, connecting>>

RestartFires ==
    /\ restartTimer
    /\ restartTimer' = FALSE
    /\ restarting' = (restarting \/ channel = None)
    /\ Start
    /\ UNCHANGED <<clientButConnecting, channelButOpening, processVars, subscription, retries, tasks>>

RetryFires ==
    /\ retryTimer
    /\ retryTimer' = FALSE
    /\ retrying' = (retrying \/ channel = None)
    /\ Start
    /\ UNCHANGED <<clientButConnecting, channelButOpening, processVars, subscription, restarts, tasks>>

\* assertTopology and prefetch are done: the channel is the runtime's.
AssertTopology ==
    /\ opening = "topology" /\ next \in channels
    /\ channel' = next
    /\ opening' = "consume"
    /\ UNCHANGED <<brokerVars, channels, made, next, processVars, runtimeVars>>

Consume ==
    /\ opening = "consume" /\ next \in channels
    /\ consumers' = consumers \cup {next}
    /\ consumerTag' = TRUE
    /\ opening' = "no"
    /\ restarting' = FALSE /\ retrying' = FALSE
    /\ UNCHANGED <<brokerVars, channelButOpening, processVars, restartTimer, retryTimer, tasks>>

\* The attempt failed, and whoever awaits it tries again later; occurred says
\* that a close event is handled as well.
mutant_Restarted(occurred) == occurred
Restarted(occurred) == restarting \/ occurred

Fail(occurred) ==
    /\ opening' = "no"
    /\ restartTimer' = (restartTimer \/ (Restarted(occurred) /\ ~ RuntimeClosing))
    /\ retryTimer' = (retryTimer \/ (retrying /\ ~ Closing))
    /\ restarting' = FALSE /\ retrying' = FALSE

StartFails ==
    /\ OpeningFails
    /\ Fail(FALSE)
    /\ UNCHANGED <<brokerVars, channelButOpening, processVars, subscription, tasks>>

\* consume is refused on a channel that stays open: the runtime closes it.
RefuseConsume ==
    /\ opening = "consume" /\ next \in channels
    /\ Spend
    /\ channel' = None
    /\ opening' = "undo"
    /\ UNCHANGED <<brokerVars, channels, made, next, stage, currentConnection, runtimeVars>>

Undo ==
    /\ opening = "undo"
    /\ channels' = channels \ {next}
    /\ Fail(next \in channels)
    /\ UNCHANGED <<brokerVars, made, channel, next, processVars, subscription, tasks>>

-----------------------------------------------------------------------------
(* Deliveries and lost channels.                                           *)

\* prefetch(1): one execution at a time for each channel.
Deliver(c) ==
    /\ c \in consumers \ inFlight
    /\ inFlight' = inFlight \cup {c}
    /\ UNCHANGED <<brokerVars, channelVars, processVars, subscription, restarts, retries,
                   awaited, currentChannel>>

TaskEnds(c) ==
    /\ c \in inFlight
    /\ inFlight' = inFlight \ {c}
    /\ awaited' = awaited \ {c}
    /\ UNCHANGED <<brokerVars, channelVars, processVars, subscription, restarts, retries,
                   currentChannel>>

\* Channels are gone: the executions they started go on.
Lose(cs) ==
    /\ channels' = channels \ cs
    /\ consumers' = consumers \ cs
    /\ IF \E c \in cs : Listening(c)
       THEN /\ channel' = None /\ consumerTag' = FALSE
            /\ restartTimer' = (restartTimer \/ ~ RuntimeClosing)
       ELSE UNCHANGED <<channel, consumerTag, restartTimer>>
    /\ UNCHANGED <<made, opening, next, stage, currentConnection, restarting, retries,
                   tasks>>

LoseChannel(c) == c \in channels /\ Spend /\ Lose({c}) /\ UNCHANGED brokerVars

LoseConnection(k) ==
    /\ k \in sockets
    /\ Spend
    /\ sockets' = sockets \ {k}
    /\ Disconnected
    /\ Lose({c \in channels : c[1] = k})

-----------------------------------------------------------------------------
(* The shutdown.                                                           *)

\* SIGTERM or SIGINT.
Terminate ==
    /\ stage = "run"
    /\ stage' = "servers"
    /\ retryTimer' = FALSE
    /\ UNCHANGED <<brokerVars, channelVars, currentConnection, faults, subscription,
                   restarts, retrying, tasks>>

\* The HTTP and gRPC servers are closed; close of the runtime begins.
CloseServers ==
    /\ stage = "servers"
    /\ stage' = "starting"
    /\ restartTimer' = FALSE
    /\ UNCHANGED <<brokerVars, channelVars, currentConnection, faults, subscription,
                   restarting, retries, tasks>>

AwaitStarting ==
    /\ stage = "starting" /\ opening = "no"
    /\ currentChannel' = channel
    /\ stage' = IF consumerTag THEN "cancel" ELSE "tasks"
    /\ awaited' = inFlight
    /\ UNCHANGED <<brokerVars, channelVars, currentConnection, faults, subscription,
                   restarts, retries, inFlight>>

\* cancel is answered, or fails with the channel, which is no matter.
Cancel ==
    /\ stage = "cancel"
    /\ consumers' = consumers \ {currentChannel}
    /\ awaited' = inFlight
    /\ stage' = "tasks"
    /\ UNCHANGED <<brokerVars, channelVars, currentConnection, faults, consumerTag,
                   restarts, retries, inFlight, currentChannel>>

mutant_AllSettled == TRUE
AllSettled == awaited = {}

AwaitTasks ==
    /\ stage = "tasks" /\ AllSettled
    /\ stage' = "channel"
    /\ UNCHANGED <<brokerVars, channelVars, currentConnection, faults, runtimeVars>>

CloseChannel ==
    /\ stage = "channel"
    /\ stage' = "broker"
    /\ channels' = channels \ {currentChannel}
    /\ consumers' = consumers \ {currentChannel}
    /\ channel' = None /\ consumerTag' = FALSE
    /\ UNCHANGED <<brokerVars, made, opening, next, currentConnection, faults, restarts,
                   retries, tasks>>

CloseRuntime == AwaitStarting \/ Cancel \/ AwaitTasks \/ CloseChannel

\* closeAll goes on with the broker client and the pool.
CloseRest ==
    /\ CloseBroker \/ AwaitPending \/ EndPool
    /\ UNCHANGED <<channelVars, runtimeVars>>

CloseSocket ==
    /\ CloseConnection
    /\ channels' = {c \in channels : c[1] \in sockets'}
    /\ UNCHANGED <<made, channel, opening, next, runtimeVars>>

-----------------------------------------------------------------------------
Client == ClientStep /\ UNCHANGED <<channelVars, stage, currentConnection, runtimeVars>>

Opening ==
    /\ Connected \/ ChannelOpens
    /\ UNCHANGED <<brokerVars, processVars, runtimeVars>>

Starting == Opening \/ AssertTopology \/ Consume \/ StartFails \/ Undo

Shutdown == CloseServers \/ CloseRuntime \/ CloseRest \/ CloseSocket

Next == Running /\
    \/ Client \/ Starting \/ RestartFires \/ RetryFires \/ RefuseConsume
    \/ \E c \in channels \cup inFlight : Deliver(c) \/ TaskEnds(c) \/ LoseChannel(c)
    \/ \E k \in sockets : LoseConnection(k)
    \/ Terminate \/ Shutdown
    \/ TimesOut /\ UNCHANGED <<channelVars, runtimeVars>>

Spec == Init /\ [][Next]_vars

\* The broker answers, timers fire, servers close and executions end; nothing
\* says that messages come, that a signal comes or that the timeout passes.
Fairness ==
    /\ WF_vars(Running /\ Client)
    /\ WF_vars(Running /\ Starting)
    /\ WF_vars(Running /\ RestartFires)
    /\ WF_vars(Running /\ RetryFires)
    /\ WF_vars(Running /\ Shutdown)
    /\ \A k \in 1..MaxFaults + 1, n \in 1..MaxFaults + 1 : WF_vars(Running /\ TaskEnds(<<k, n>>))

FairSpec == Spec /\ Fairness

-----------------------------------------------------------------------------
(* Properties.                                                             *)

\* However restarts, retries and lost channels overlap, the broker delivers
\* on no channel but the one the runtime knows, and would cancel and close.
OneSubscription == consumers \subseteq {channel}

\* close awaits the executions in flight, on whatever channel they came: the
\* connection and the pool they use go only when all have ended.
TasksFinishFirst ==
    stage \in {"broker", "pending", "connection", "pool", "done"} => inFlight = {}

\* A shutdown that was not cut short leaves no connection, attempt or timer
\* that would keep the process alive, whatever was going on when it began.
DoneMeansQuiet ==
    stage = "done" => ClientQuiet /\ ~ restartTimer /\ ~ retryTimer /\ opening = "no"

\* After channels, connections and attempts to restore them failed, messages
\* are consumed again: some timer or waiter is always left to see to it.
ConsumptionReturns == <>[](Closing \/ channel \in consumers)

\* A shutdown ends even if nothing but the last failing I/O was ever answered,
\* without the help of its timeout.
ShutdownEnds == stage = "servers" ~> stage \in {"done", "exited"}
=============================================================================

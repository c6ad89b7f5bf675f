----------------------- MODULE ConsumerRuntimeProofs -----------------------
(***************************************************************************)
(* Proofs about ConsumerRuntime, for any number of faults.                 *)
(***************************************************************************)
EXTENDS ConsumerRuntime, BrokerClientProofs

\* The stages of the shutdown once no subscription is started any more.
AfterStarting == {"cancel"} \cup AfterTasks

\* One connection is open at most: the one in use, or the one being closed.
OneSocket ==
    /\ stage # "exited" => sockets \subseteq {connection, currentConnection}
    /\ stage \notin AfterConnection \cup {"exited"} => sockets \subseteq {connection}
    /\ stage \in AfterConnection => ~ connecting /\ connection = None
    /\ stage \in AfterPool => sockets = {}
    /\ stage \in AfterPending => brokerClosing /\ ~ reconnectTimer

\* One channel is open at most: the one in use, or the one being opened.
Opened ==
    /\ opening = "no" => channels \subseteq {channel}
    /\ opening \in {"connect", "open"} => channels = {}
    /\ opening \in {"connect", "open", "topology", "undo"} => channel = None
    /\ opening \in {"topology", "consume", "undo"} => channels \subseteq {next}
    /\ opening = "consume" /\ next \in channels => channel = next
    /\ opening \in {"open", "topology", "consume", "undo"} => next \in Nat \X (1..made)

\* The broker delivers on the channel in use, and only if that is known.
Subscribed ==
    /\ OneSubscription
    /\ ~ consumerTag => consumers = {}
    /\ opening # "no" => ~ consumerTag

\* What is over at which stage of the shutdown.
Ceased ==
    /\ Closing => ~ retryTimer
    /\ stage \in {"starting"} \cup AfterStarting => ~ restartTimer
    /\ stage \in AfterStarting => opening = "no"
    /\ stage \in AfterStarting \ AfterBroker => channel \in {None, currentChannel}
    /\ stage = "tasks" => awaited = inFlight
    /\ stage \in AfterTasks => consumers = {}
    /\ stage \in AfterChannel => inFlight = {}
    /\ stage \in AfterBroker => channel = None

RuntimeInv == TypeOK /\ OneSocket /\ Opened /\ Subscribed /\ Ceased

-----------------------------------------------------------------------------
USE BrokerAssumption
    DEF Closing, RuntimeClosing, Stage, AfterPool, AfterConnection, AfterPending, AfterBroker,
        AfterChannel, AfterTasks, AfterStarting, Channel, brokerVars, clientVars,
        clientButConnecting, channelVars, channelButOpening, processVars, runtimeVars,
        subscription, restarts, retries, tasks

\* TypeOK is ClientTypeOK and the rest.
Waiting ==
    /\ stage \in Stage
    /\ opening \in {"no", "connect", "open", "topology", "consume", "undo"}
    /\ consumers \subseteq channels
    /\ consumerTag => channel # None
    /\ restarting \/ retrying => opening # "no"
    /\ inFlight \subseteq Channel
    /\ awaited \subseteq inFlight

LEMMA TypeParts == /\ TypeOK <=> Numbers /\ Sockets /\ Channels /\ Waiting
                   /\ TypeOK' <=> Numbers' /\ Sockets' /\ Channels' /\ Waiting'
BY ClientTypeParts DEF TypeOK, Waiting

\* The steps of the module, as the cases of the lemmas below.
FailedStart == StartFails \/ Undo
TimerFires == RestartFires \/ RetryFires
Ended == TimesOut /\ UNCHANGED <<channelVars, runtimeVars>>
AtTask == \E c \in channels \cup inFlight : Deliver(c) \/ TaskEnds(c)
AtChannel == \E c \in channels : LoseChannel(c)
AtConnection == \E k \in sockets : LoseConnection(k)

LEMMA Steps ==
    [Next]_vars =>
        \/ Client \/ Opening \/ AssertTopology \/ Consume \/ FailedStart \/ TimerFires
        \/ RefuseConsume \/ AtTask \/ AtChannel \/ AtConnection \/ Terminate
        \/ CloseServers \/ CloseRuntime \/ CloseRest \/ CloseSocket \/ Ended
        \/ UNCHANGED vars
BY DEF Next, Starting, Shutdown, FailedStart, TimerFires, Ended, AtTask, AtChannel, AtConnection,
       LoseChannel

\* Numbers are numbers.
LEMMA NextNumbers == RuntimeInv /\ [Next]_vars => Numbers'
<1> SUFFICES ASSUME RuntimeInv, [Next]_vars PROVE Numbers'
    OBVIOUS
<1> USE TypeParts DEF RuntimeInv, Numbers
<1>1. CASE Client
    BY <1>1 DEF Client, ClientStep, ConnectOk, ConnectFails, ReconnectFires, Connect,
       scheduleReconnect, Spend
<1>2. CASE Opening \/ AssertTopology \/ Consume
    BY <1>2 DEF Opening, Connected, ChannelOpens, AssertTopology, Consume
<1>3. CASE FailedStart \/ RefuseConsume
    BY <1>3 DEF FailedStart, StartFails, Undo, OpeningFails, Fail, Restarted, RefuseConsume,
       Spend
<1>4. CASE TimerFires
    BY <1>4 DEF TimerFires, RestartFires, RetryFires, Start, Needed, AskChannel, Connect
<1>5. CASE AtTask
    BY <1>5 DEF AtTask, Deliver, TaskEnds
<1>6. CASE AtChannel \/ AtConnection
    BY <1>6 DEF AtChannel, AtConnection, LoseChannel, LoseConnection, Lose, Listening, Spend,
       Disconnected, scheduleReconnect
<1>7. CASE Terminate \/ CloseServers \/ CloseRuntime
    BY <1>7 DEF Terminate, CloseServers, CloseRuntime, AwaitStarting, Cancel, AwaitTasks,
       AllSettled, CloseChannel
<1>8. CASE CloseRest
    BY <1>8 DEF CloseRest, CloseBroker, AwaitPending, PendingSettled, CloseCurrent,
       clearReconnectTimer, EndPool
<1>9. CASE CloseSocket
    BY <1>9 DEF CloseSocket, CloseConnection, Disconnected, scheduleReconnect
<1>10. CASE Ended \/ UNCHANGED vars
    BY <1>10 DEF Ended, TimesOut, vars
<1>11. QED BY <1>1, <1>2, <1>3, <1>4, <1>5, <1>6, <1>7, <1>8, <1>9, <1>10, Steps

\* The connection in use is open, and no attempt to connect is under way then.
LEMMA NextSockets == RuntimeInv /\ [Next]_vars => Sockets'
<1> SUFFICES ASSUME RuntimeInv, [Next]_vars PROVE Sockets'
    OBVIOUS
<1> USE TypeParts DEF RuntimeInv, Numbers, Sockets, Channels, Waiting, OneSocket, Opened, Subscribed,
           OneSubscription, Ceased
<1>1. CASE Client
    <2>1. ClientStep /\ Numbers /\ Sockets
        BY <1>1 DEF Client
    <2>2. QED BY <2>1, ClientStepSockets
<1>2. CASE Opening \/ AssertTopology \/ Consume
    BY <1>2 DEF Opening, Connected, ChannelOpens, AssertTopology, Consume
<1>3. CASE FailedStart \/ RefuseConsume
    BY <1>3 DEF FailedStart, StartFails, Undo, OpeningFails, Fail, Restarted, RefuseConsume,
       Spend
<1>4. CASE TimerFires
    BY <1>4 DEF TimerFires, RestartFires, RetryFires, Start, Needed, AskChannel, Connect
<1>5. CASE AtTask
    BY <1>5 DEF AtTask, Deliver, TaskEnds
<1>6. CASE AtChannel \/ AtConnection
    BY <1>6 DEF AtChannel, AtConnection, LoseChannel, LoseConnection, Lose, Listening, Spend,
       Disconnected, scheduleReconnect
<1>7. CASE Terminate \/ CloseServers \/ CloseRuntime
    BY <1>7 DEF Terminate, CloseServers, CloseRuntime, AwaitStarting, Cancel, AwaitTasks,
       AllSettled, CloseChannel
<1>8. CASE CloseRest
    BY <1>8 DEF CloseRest, CloseBroker, AwaitPending, PendingSettled, CloseCurrent,
       clearReconnectTimer, EndPool
<1>9. CASE CloseSocket
    BY <1>9 DEF CloseSocket, CloseConnection, Disconnected, scheduleReconnect
<1>10. CASE Ended \/ UNCHANGED vars
    BY <1>10 DEF Ended, TimesOut, vars
<1>11. QED BY <1>1, <1>2, <1>3, <1>4, <1>5, <1>6, <1>7, <1>8, <1>9, <1>10, Steps

\* The channel in use is open, on an open connection.
LEMMA NextChannels == RuntimeInv /\ [Next]_vars => Channels'
<1> SUFFICES ASSUME RuntimeInv, [Next]_vars PROVE Channels'
    OBVIOUS
<1> USE TypeParts DEF RuntimeInv, Numbers, Sockets, Channels, Waiting, OneSocket, Opened, Subscribed,
           OneSubscription, Ceased
<1>1. CASE Client
    BY <1>1 DEF Client, ClientStep, ConnectOk, ConnectFails, ReconnectFires, Connect,
       scheduleReconnect, Spend
<1>2. CASE Opening \/ AssertTopology \/ Consume
    BY <1>2 DEF Opening, Connected, ChannelOpens, AssertTopology, Consume
<1>3. CASE FailedStart \/ RefuseConsume
    BY <1>3 DEF FailedStart, StartFails, Undo, OpeningFails, Fail, Restarted, RefuseConsume,
       Spend
<1>4. CASE TimerFires
    BY <1>4 DEF TimerFires, RestartFires, RetryFires, Start, Needed, AskChannel, Connect
<1>5. CASE AtTask
    BY <1>5 DEF AtTask, Deliver, TaskEnds
<1>6. CASE AtChannel \/ AtConnection
    BY <1>6 DEF AtChannel, AtConnection, LoseChannel, LoseConnection, Lose, Listening, Spend,
       Disconnected, scheduleReconnect
<1>7. CASE Terminate \/ CloseServers \/ CloseRuntime
    BY <1>7 DEF Terminate, CloseServers, CloseRuntime, AwaitStarting, Cancel, AwaitTasks,
       AllSettled, CloseChannel
<1>8. CASE CloseRest
    BY <1>8 DEF CloseRest, CloseBroker, AwaitPending, PendingSettled, CloseCurrent,
       clearReconnectTimer, EndPool
<1>9. CASE CloseSocket
    BY <1>9 DEF CloseSocket, CloseConnection, Disconnected, scheduleReconnect
<1>10. CASE Ended \/ UNCHANGED vars
    BY <1>10 DEF Ended, TimesOut, vars
<1>11. QED BY <1>1, <1>2, <1>3, <1>4, <1>5, <1>6, <1>7, <1>8, <1>9, <1>10, Steps

\* What waits has something to wait for.
LEMMA NextWaiting == RuntimeInv /\ [Next]_vars => Waiting'
<1> SUFFICES ASSUME RuntimeInv, [Next]_vars PROVE Waiting'
    OBVIOUS
<1> USE TypeParts DEF RuntimeInv, Numbers, Sockets, Channels, Waiting, OneSocket, Opened, Subscribed,
           OneSubscription, Ceased
<1>1. CASE Client
    BY <1>1 DEF Client, ClientStep, ConnectOk, ConnectFails, ReconnectFires, Connect,
       scheduleReconnect, Spend
<1>2. CASE Opening \/ AssertTopology \/ Consume
    BY <1>2 DEF Opening, Connected, ChannelOpens, AssertTopology, Consume
<1>3. CASE FailedStart \/ RefuseConsume
    BY <1>3 DEF FailedStart, StartFails, Undo, OpeningFails, Fail, Restarted, RefuseConsume,
       Spend
<1>4. CASE TimerFires
    BY <1>4 DEF TimerFires, RestartFires, RetryFires, Start, Needed, AskChannel, Connect
<1>5. CASE AtTask
    BY <1>5 DEF AtTask, Deliver, TaskEnds
<1>6. CASE AtChannel \/ AtConnection
    BY <1>6 DEF AtChannel, AtConnection, LoseChannel, LoseConnection, Lose, Listening, Spend,
       Disconnected, scheduleReconnect
<1>7. CASE Terminate \/ CloseServers \/ CloseRuntime
    BY <1>7 DEF Terminate, CloseServers, CloseRuntime, AwaitStarting, Cancel, AwaitTasks,
       AllSettled, CloseChannel
<1>8. CASE CloseRest
    BY <1>8 DEF CloseRest, CloseBroker, AwaitPending, PendingSettled, CloseCurrent,
       clearReconnectTimer, EndPool
<1>9. CASE CloseSocket
    BY <1>9 DEF CloseSocket, CloseConnection, Disconnected, scheduleReconnect
<1>10. CASE Ended \/ UNCHANGED vars
    BY <1>10 DEF Ended, TimesOut, vars
<1>11. QED BY <1>1, <1>2, <1>3, <1>4, <1>5, <1>6, <1>7, <1>8, <1>9, <1>10, Steps

\* A connection is opened when there is none, and closed for good at the end.
LEMMA NextOneSocket == RuntimeInv /\ [Next]_vars => OneSocket'
<1> SUFFICES ASSUME RuntimeInv, [Next]_vars PROVE OneSocket'
    OBVIOUS
<1> USE TypeParts DEF RuntimeInv, Numbers, Sockets, Channels, Waiting, OneSocket, Opened, Subscribed,
           OneSubscription, Ceased
<1>1. CASE Client
    BY <1>1 DEF Client, ClientStep, ConnectOk, ConnectFails, ReconnectFires, Connect,
       scheduleReconnect, Spend
<1>2. CASE Opening \/ AssertTopology \/ Consume
    BY <1>2 DEF Opening, Connected, ChannelOpens, AssertTopology, Consume
<1>3. CASE FailedStart \/ RefuseConsume
    BY <1>3 DEF FailedStart, StartFails, Undo, OpeningFails, Fail, Restarted, RefuseConsume,
       Spend
<1>4. CASE TimerFires
    BY <1>4 DEF TimerFires, RestartFires, RetryFires, Start, Needed, AskChannel, Connect
<1>5. CASE AtTask
    BY <1>5 DEF AtTask, Deliver, TaskEnds
<1>6. CASE AtChannel \/ AtConnection
    BY <1>6 DEF AtChannel, AtConnection, LoseChannel, LoseConnection, Lose, Listening, Spend,
       Disconnected, scheduleReconnect
<1>7. CASE Terminate \/ CloseServers \/ CloseRuntime
    BY <1>7 DEF Terminate, CloseServers, CloseRuntime, AwaitStarting, Cancel, AwaitTasks,
       AllSettled, CloseChannel
<1>8. CASE CloseRest
    BY <1>8 DEF CloseRest, CloseBroker, AwaitPending, PendingSettled, CloseCurrent,
       clearReconnectTimer, EndPool
<1>9. CASE CloseSocket
    <2>1. connection = None /\ connection' = None /\ stage' = "pool"
        BY <1>9 DEF CloseSocket, CloseConnection, Disconnected
    <2>3. sockets' = {}
        <3>1. sockets \subseteq {None, currentConnection}
            BY <1>9, <2>1 DEF CloseSocket, CloseConnection
        <3>2. sockets' = sockets \ {currentConnection}
            BY <1>9 DEF CloseSocket, CloseConnection
        <3>3. QED BY <3>1, <3>2, Kinds, TypeParts, ClientTypeParts
    <2>2. ~ connecting' /\ brokerClosing' /\ ~ reconnectTimer'
        BY <1>9 DEF CloseSocket, CloseConnection, Disconnected, scheduleReconnect
    <2>4. QED BY <2>1, <2>2, <2>3
<1>10. CASE Ended \/ UNCHANGED vars
    BY <1>10 DEF Ended, TimesOut, vars
<1>11. QED BY <1>1, <1>2, <1>3, <1>4, <1>5, <1>6, <1>7, <1>8, <1>9, <1>10, Steps

\* A channel is asked for when there is none and none on its way.
LEMMA NextOpened == RuntimeInv /\ [Next]_vars => Opened'
<1> SUFFICES ASSUME RuntimeInv, [Next]_vars PROVE Opened'
    OBVIOUS
<1> USE TypeParts DEF RuntimeInv, Numbers, Sockets, Channels, Waiting, OneSocket, Opened, Subscribed,
           OneSubscription, Ceased
<1>1. CASE Client
    BY <1>1 DEF Client, ClientStep, ConnectOk, ConnectFails, ReconnectFires, Connect,
       scheduleReconnect, Spend
<1>2. CASE Opening \/ AssertTopology \/ Consume
    BY <1>2 DEF Opening, Connected, ChannelOpens, AssertTopology, Consume
<1>3. CASE FailedStart \/ RefuseConsume
    BY <1>3 DEF FailedStart, StartFails, Undo, OpeningFails, Fail, Restarted, RefuseConsume,
       Spend
<1>4. CASE TimerFires
    BY <1>4 DEF TimerFires, RestartFires, RetryFires, Start, Needed, AskChannel, Connect
<1>5. CASE AtTask
    BY <1>5 DEF AtTask, Deliver, TaskEnds
<1>6. CASE AtChannel \/ AtConnection
    BY <1>6 DEF AtChannel, AtConnection, LoseChannel, LoseConnection, Lose, Listening, Spend,
       Disconnected, scheduleReconnect
<1>7. CASE Terminate \/ CloseServers \/ CloseRuntime
    BY <1>7 DEF Terminate, CloseServers, CloseRuntime, AwaitStarting, Cancel, AwaitTasks,
       AllSettled, CloseChannel
<1>8. CASE CloseRest
    BY <1>8 DEF CloseRest, CloseBroker, AwaitPending, PendingSettled, CloseCurrent,
       clearReconnectTimer, EndPool
<1>9. CASE CloseSocket
    BY <1>9 DEF CloseSocket, CloseConnection, Disconnected, scheduleReconnect
<1>10. CASE Ended \/ UNCHANGED vars
    BY <1>10 DEF Ended, TimesOut, vars
<1>11. QED BY <1>1, <1>2, <1>3, <1>4, <1>5, <1>6, <1>7, <1>8, <1>9, <1>10, Steps

\* A lost or refused channel takes its subscription with it.
LEMMA NextSubscribed == RuntimeInv /\ [Next]_vars => Subscribed'
<1> SUFFICES ASSUME RuntimeInv, [Next]_vars PROVE Subscribed'
    OBVIOUS
<1> USE TypeParts DEF RuntimeInv, Numbers, Sockets, Channels, Waiting, OneSocket, Opened, Subscribed,
           OneSubscription, Ceased
<1>1. CASE Client
    BY <1>1 DEF Client, ClientStep, ConnectOk, ConnectFails, ReconnectFires, Connect,
       scheduleReconnect, Spend
<1>2. CASE Opening \/ AssertTopology \/ Consume
    BY <1>2 DEF Opening, Connected, ChannelOpens, AssertTopology, Consume
<1>3. CASE FailedStart \/ RefuseConsume
    BY <1>3 DEF FailedStart, StartFails, Undo, OpeningFails, Fail, Restarted, RefuseConsume,
       Spend
<1>4. CASE TimerFires
    BY <1>4 DEF TimerFires, RestartFires, RetryFires, Start, Needed, AskChannel, Connect
<1>5. CASE AtTask
    BY <1>5 DEF AtTask, Deliver, TaskEnds
<1>6. CASE AtChannel \/ AtConnection
    BY <1>6 DEF AtChannel, AtConnection, LoseChannel, LoseConnection, Lose, Listening, Spend,
       Disconnected, scheduleReconnect
<1>7. CASE Terminate \/ CloseServers \/ CloseRuntime
    BY <1>7 DEF Terminate, CloseServers, CloseRuntime, AwaitStarting, Cancel, AwaitTasks,
       AllSettled, CloseChannel
<1>8. CASE CloseRest
    BY <1>8 DEF CloseRest, CloseBroker, AwaitPending, PendingSettled, CloseCurrent,
       clearReconnectTimer, EndPool
<1>9. CASE CloseSocket
    BY <1>9 DEF CloseSocket, CloseConnection, Disconnected, scheduleReconnect
<1>10. CASE Ended \/ UNCHANGED vars
    BY <1>10 DEF Ended, TimesOut, vars
<1>11. QED BY <1>1, <1>2, <1>3, <1>4, <1>5, <1>6, <1>7, <1>8, <1>9, <1>10, Steps

\* What has ended at a stage of the shutdown does not begin again.
LEMMA NextCeased == RuntimeInv /\ [Next]_vars => Ceased'
<1> SUFFICES ASSUME RuntimeInv, [Next]_vars PROVE Ceased'
    OBVIOUS
<1> USE TypeParts DEF RuntimeInv, Numbers, Sockets, Channels, Waiting, OneSocket, Opened, Subscribed,
           OneSubscription, Ceased
<1>1. CASE Client
    BY <1>1 DEF Client, ClientStep, ConnectOk, ConnectFails, ReconnectFires, Connect,
       scheduleReconnect, Spend
<1>2. CASE Opening \/ AssertTopology \/ Consume
    BY <1>2 DEF Opening, Connected, ChannelOpens, AssertTopology, Consume
<1>3. CASE FailedStart \/ RefuseConsume
    <2>1. opening # "no" /\ (opening' = "no" \/ stage \notin AfterStarting)
        BY <1>3 DEF FailedStart, StartFails, Undo, OpeningFails, Fail, RefuseConsume
    <2>2. stage \notin AfterStarting /\ stage' = stage
        BY <1>3, <2>1 DEF FailedStart, StartFails, Undo, RefuseConsume
    <2>3. Closing => ~ retryTimer'
        BY <1>3 DEF FailedStart, StartFails, Undo, Fail, RefuseConsume
    <2>4. stage = "starting" => ~ restartTimer'
        BY <1>3 DEF FailedStart, StartFails, Undo, Fail, RefuseConsume
    <2>5. QED BY <2>2, <2>3, <2>4
<1>4. CASE TimerFires
    BY <1>4 DEF TimerFires, RestartFires, RetryFires, Start, Needed, AskChannel, Connect
<1>5. CASE AtTask
    <2>1. PICK c \in channels \cup inFlight : Deliver(c) \/ TaskEnds(c)
        BY <1>5 DEF AtTask
    <2>2. CASE Deliver(c)
        <3>1. stage \notin AfterTasks
            BY <2>2 DEF Deliver
        <3>2. QED BY <2>2, <3>1 DEF Deliver
    <2>3. CASE TaskEnds(c)
        <3>1. stage \notin AfterChannel /\ (awaited = inFlight => awaited' = inFlight')
            BY <2>3 DEF TaskEnds
        <3>2. QED BY <2>3, <3>1 DEF TaskEnds
    <2>4. QED BY <2>1, <2>2, <2>3
<1>6. CASE AtChannel \/ AtConnection
    BY <1>6 DEF AtChannel, AtConnection, LoseChannel, LoseConnection, Lose, Listening, Spend,
       Disconnected, scheduleReconnect
<1>7. CASE Terminate \/ CloseServers \/ CloseRuntime
    BY <1>7 DEF Terminate, CloseServers, CloseRuntime, AwaitStarting, Cancel, AwaitTasks,
       AllSettled, CloseChannel
<1>8. CASE CloseRest
    BY <1>8 DEF CloseRest, CloseBroker, AwaitPending, PendingSettled, CloseCurrent,
       clearReconnectTimer, EndPool
<1>9. CASE CloseSocket
    BY <1>9 DEF CloseSocket, CloseConnection, Disconnected, scheduleReconnect
<1>10. CASE Ended \/ UNCHANGED vars
    BY <1>10 DEF Ended, TimesOut, vars
<1>11. QED BY <1>1, <1>2, <1>3, <1>4, <1>5, <1>6, <1>7, <1>8, <1>9, <1>10, Steps

\* A process that has just started.
LEMMA InitRuntimeInv == Init => RuntimeInv
<1> SUFFICES ASSUME Init PROVE RuntimeInv
    OBVIOUS
<1> USE TypeParts DEF Init, ClientInit
<1>1. Numbers /\ Sockets /\ Channels /\ Waiting
    <2>1. Numbers
        BY DEF Numbers
    <2>2. Sockets /\ Channels
        BY DEF Sockets, Channels
    <2>3. Waiting
        BY DEF Waiting
    <2>4. QED BY <2>1, <2>2, <2>3
<1>2. OneSocket /\ Opened
    BY DEF OneSocket, Opened
<1>3. Subscribed /\ Ceased
    BY DEF Subscribed, OneSubscription, Ceased
<1>4. QED BY <1>1, <1>2, <1>3 DEF RuntimeInv

\* The invariant holds in every reachable state.
THEOREM RuntimeInvariance == Spec => []RuntimeInv
<1>1. RuntimeInv /\ [Next]_vars => RuntimeInv'
    <2> SUFFICES ASSUME RuntimeInv, [Next]_vars PROVE RuntimeInv'
        OBVIOUS
    <2>1. TypeOK'
        BY NextNumbers, NextSockets, NextChannels, NextWaiting, TypeParts
    <2>2. QED BY <2>1, NextOneSocket, NextOpened, NextSubscribed, NextCeased DEF RuntimeInv
<1>2. QED BY <1>1, InitRuntimeInv, PTL DEF Spec

\* Every variable keeps its type, and what waits has something to wait for.
THEOREM RuntimeTypeCorrect == Spec => []TypeOK
BY RuntimeInvariance, PTL DEF RuntimeInv

\* However often channels and connections fail, the broker delivers on no
\* channel but the one the runtime knows.
THEOREM OneSubscriptionHolds == Spec => []OneSubscription
BY RuntimeInvariance, PTL DEF RuntimeInv, Subscribed

\* The connection and the pool are closed after the last execution has ended.
THEOREM TasksEndFirst == Spec => []TasksFinishFirst
<1>1. RuntimeInv => TasksFinishFirst
    BY DEF RuntimeInv, Ceased, TasksFinishFirst
<1>2. QED BY <1>1, RuntimeInvariance, PTL

\* A shutdown that ran to its end leaves nothing that would go on.
THEOREM ShutdownLeavesNothing == Spec => []DoneMeansQuiet
<1>1. RuntimeInv => DoneMeansQuiet
    BY DEF RuntimeInv, OneSocket, Ceased, DoneMeansQuiet, ClientQuiet
<1>2. QED BY <1>1, RuntimeInvariance, PTL
=============================================================================

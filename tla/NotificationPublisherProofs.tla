--------------------- MODULE NotificationPublisherProofs ---------------------
(***************************************************************************)
(* Proofs about NotificationPublisher, for any calls and faults.           *)
(***************************************************************************)
EXTENDS NotificationPublisher, BrokerClientProofs

\* One connection is open at most; a close of the publisher that threw leaves
\* it as it is.
OneSocket ==
    /\ failed => stage \in AfterPool \cup {"exited"}
    /\ stage # "exited" /\ (stage \in AfterConnection => failed) => sockets \subseteq {connection}
    /\ stage \in AfterPending /\ ~ failed => brokerClosing /\ ~ reconnectTimer
    /\ stage \in AfterConnection /\ ~ failed =>
           ~ connecting /\ connection = None /\ sockets \subseteq {currentConnection}
    /\ stage \in AfterPool /\ ~ failed => sockets = {}

\* One channel is open at most: the one in use, the one being opened, or the
\* one being closed.
Opened ==
    /\ opening # "no" => channel = None
    /\ opening \in {"connect", "open"} => channels = {}
    /\ opening = "topology" => channels \subseteq {next}
    /\ opening \in {"open", "topology"} => next \in Nat \X (1..made)
    /\ opening = "no" => channels \subseteq {channel} \/ channels \subseteq {currentChannel}
    /\ opening = "no" /\ stage \notin {"channel", "exited"} => channels \subseteq {channel}
    /\ stage = "channel" => channels \subseteq {currentChannel}

\* What is over once close of the publisher has waited for the calls.
Ceased ==
    /\ stage \in AfterTasks => opening = "no"
    /\ stage \in AfterTasks => channel \in {None, currentChannel}
    /\ stage \in AfterChannel => InFlight = {} /\ channel = None

PublisherInv == TypeOK /\ OneSocket /\ Opened /\ Ceased

-----------------------------------------------------------------------------
USE BrokerAssumption
    DEF Closing, Stage, AfterPool, AfterConnection, AfterPending, AfterBroker, AfterChannel, AfterTasks,
        Channel, brokerVars, clientVars, clientButConnecting, channelVars, channelButOpening,
        processVars, publisherVars, InFlight

\* TypeOK is ClientTypeOK and the rest.
Calls ==
    /\ stage \in Stage
    /\ opening \in {"no", "connect", "open", "topology"}
    /\ task \in [Task -> {"none", "wait", "confirm", "ok", "failed"}]
    /\ via \in [Task -> Channel \cup {None}]
    /\ currentChannel \in Channel \cup {None}
    /\ failed \in BOOLEAN
    /\ \A t \in Task : task[t] = "wait" => opening # "no"

LEMMA TypeParts == /\ TypeOK <=> Numbers /\ Sockets /\ Channels /\ Calls
                   /\ TypeOK' <=> Numbers' /\ Sockets' /\ Channels' /\ Calls'
BY ClientTypeParts DEF TypeOK, Calls

\* The steps of the module, as the cases of the lemmas below.
AtTask == \E t \in Task : Publish(t) \/ Confirm(t) \/ Refuse(t)
AtChannel == \E c \in channels : LoseChannel(c)
AtConnection == \E k \in sockets : LoseConnection(k)
CloseOwn == Terminate \/ CloseServers \/ AwaitOpening \/ AwaitTasks \/ CloseChannel
Expired == TimesOut /\ UNCHANGED <<channelVars, publisherVars>>

LEMMA Steps ==
    [Next]_vars =>
        \/ Client \/ Opening \/ AssertTopology \/ GetChannelFails \/ AtTask \/ AtChannel
        \/ AtConnection \/ CloseOwn \/ CloseRest \/ CloseSocket \/ Expired \/ UNCHANGED vars
BY DEF Next, GetChannel, Shutdown, AtTask, AtChannel, AtConnection, CloseOwn, Expired

\* Numbers are numbers.
LEMMA NextNumbers == PublisherInv /\ [Next]_vars => Numbers'
<1> SUFFICES ASSUME PublisherInv, [Next]_vars PROVE Numbers'
    OBVIOUS
<1> USE TypeParts DEF PublisherInv, Numbers
<1>1. CASE Client
    BY <1>1 DEF Client, ClientStep, ConnectOk, ConnectFails, ReconnectFires, Connect,
       scheduleReconnect, Spend
<1>2. CASE Opening \/ AssertTopology
    BY <1>2 DEF Opening, Connected, ChannelOpens, AssertTopology
<1>3. CASE GetChannelFails
    BY <1>3 DEF GetChannelFails, OpeningFails
<1>4. CASE AtTask
    BY <1>4 DEF AtTask, Publish, Needed, AskChannel, Connect, Confirm, Refuse, Spend
<1>5. CASE AtChannel \/ AtConnection
    BY <1>5 DEF AtChannel, AtConnection, LoseChannel, LoseConnection, Lose, Listening, Spend,
       Disconnected, scheduleReconnect
<1>6. CASE CloseOwn
    BY <1>6 DEF CloseOwn, Terminate, CloseServers, AwaitOpening, AwaitTasks, AllSettled,
       CloseChannel
<1>7. CASE CloseRest
    BY <1>7 DEF CloseRest, CloseBroker, AwaitPending, PendingSettled, CloseCurrent,
       clearReconnectTimer, EndPool
<1>8. CASE CloseSocket
    BY <1>8 DEF CloseSocket, CloseConnection, Disconnected, scheduleReconnect
<1>9. CASE Expired \/ UNCHANGED vars
    BY <1>9 DEF Expired, TimesOut, vars
<1>10. QED BY <1>1, <1>2, <1>3, <1>4, <1>5, <1>6, <1>7, <1>8, <1>9, Steps

\* The connection in use is open, and no attempt to connect is under way then.
LEMMA NextSockets == PublisherInv /\ [Next]_vars => Sockets'
<1> SUFFICES ASSUME PublisherInv, [Next]_vars PROVE Sockets'
    OBVIOUS
<1> USE TypeParts DEF PublisherInv, Numbers, Sockets, Channels, Calls, OneSocket, Opened, Ceased
<1>1. CASE Client
    <2>1. ClientStep /\ Numbers /\ Sockets
        BY <1>1 DEF Client
    <2>2. QED BY <2>1, ClientStepSockets
<1>2. CASE Opening \/ AssertTopology
    BY <1>2 DEF Opening, Connected, ChannelOpens, AssertTopology
<1>3. CASE GetChannelFails
    BY <1>3 DEF GetChannelFails, OpeningFails
<1>4. CASE AtTask
    <2>1. UNCHANGED <<sockets, opened, connection, reconnectTimer, reconnecting, brokerClosing>>
        BY <1>4 DEF AtTask, Publish, Confirm, Refuse, Spend
    <2>2. connecting' = connecting \/ Connect
        BY <1>4 DEF AtTask, Publish, Needed, AskChannel, Confirm, Refuse
    <2>3. connecting' \in BOOLEAN /\ (connecting' => connection = None)
        BY <2>2, Zenon DEF Connect
    <2>4. QED BY <2>1, <2>3
<1>5. CASE AtChannel \/ AtConnection
    BY <1>5 DEF AtChannel, AtConnection, LoseChannel, LoseConnection, Lose, Listening, Spend,
       Disconnected, scheduleReconnect
<1>6. CASE CloseOwn
    BY <1>6 DEF CloseOwn, Terminate, CloseServers, AwaitOpening, AwaitTasks, AllSettled,
       CloseChannel
<1>7. CASE CloseRest
    BY <1>7 DEF CloseRest, CloseBroker, AwaitPending, PendingSettled, CloseCurrent,
       clearReconnectTimer, EndPool
<1>8. CASE CloseSocket
    BY <1>8 DEF CloseSocket, CloseConnection, Disconnected, scheduleReconnect
<1>9. CASE Expired \/ UNCHANGED vars
    BY <1>9 DEF Expired, TimesOut, vars
<1>10. QED BY <1>1, <1>2, <1>3, <1>4, <1>5, <1>6, <1>7, <1>8, <1>9, Steps

\* The channel in use is open, on an open connection.
LEMMA NextChannels == PublisherInv /\ [Next]_vars => Channels'
<1> SUFFICES ASSUME PublisherInv, [Next]_vars PROVE Channels'
    OBVIOUS
<1> USE TypeParts DEF PublisherInv, Numbers, Sockets, Channels, Calls, OneSocket, Opened, Ceased
<1>1. CASE Client
    BY <1>1 DEF Client, ClientStep, ConnectOk, ConnectFails, ReconnectFires, Connect,
       scheduleReconnect, Spend
<1>2. CASE Opening \/ AssertTopology
    BY <1>2 DEF Opening, Connected, ChannelOpens, AssertTopology
<1>3. CASE GetChannelFails
    BY <1>3 DEF GetChannelFails, OpeningFails
<1>4. CASE AtTask
    BY <1>4 DEF AtTask, Publish, Needed, AskChannel, Connect, Confirm, Refuse, Spend
<1>5. CASE AtChannel \/ AtConnection
    BY <1>5 DEF AtChannel, AtConnection, LoseChannel, LoseConnection, Lose, Listening, Spend,
       Disconnected, scheduleReconnect
<1>6. CASE CloseOwn
    BY <1>6 DEF CloseOwn, Terminate, CloseServers, AwaitOpening, AwaitTasks, AllSettled,
       CloseChannel
<1>7. CASE CloseRest
    BY <1>7 DEF CloseRest, CloseBroker, AwaitPending, PendingSettled, CloseCurrent,
       clearReconnectTimer, EndPool
<1>8. CASE CloseSocket
    BY <1>8 DEF CloseSocket, CloseConnection, Disconnected, scheduleReconnect
<1>9. CASE Expired \/ UNCHANGED vars
    BY <1>9 DEF Expired, TimesOut, vars
<1>10. QED BY <1>1, <1>2, <1>3, <1>4, <1>5, <1>6, <1>7, <1>8, <1>9, Steps

\* A call that waits has a channel to wait for.
LEMMA NextCalls == PublisherInv /\ [Next]_vars => Calls'
<1> SUFFICES ASSUME PublisherInv, [Next]_vars PROVE Calls'
    OBVIOUS
<1> USE TypeParts DEF PublisherInv, Numbers, Sockets, Channels, Calls, OneSocket, Opened, Ceased
<1>1. CASE Client
    BY <1>1 DEF Client, ClientStep, ConnectOk, ConnectFails, ReconnectFires, Connect,
       scheduleReconnect, Spend
<1>2. CASE Opening \/ AssertTopology
    BY <1>2 DEF Opening, Connected, ChannelOpens, AssertTopology
<1>3. CASE GetChannelFails
    BY <1>3 DEF GetChannelFails, OpeningFails
<1>4. CASE AtTask
    BY <1>4 DEF AtTask, Publish, Needed, AskChannel, Connect, Confirm, Refuse, Spend
<1>5. CASE AtChannel \/ AtConnection
    BY <1>5 DEF AtChannel, AtConnection, LoseChannel, LoseConnection, Lose, Listening, Spend,
       Disconnected, scheduleReconnect
<1>6. CASE CloseOwn
    <2>1. UNCHANGED <<task, via, opening>>
        BY <1>6 DEF CloseOwn, Terminate, CloseServers, AwaitOpening, AwaitTasks, CloseChannel
    <2>2. stage' \in Stage /\ failed' \in BOOLEAN
        BY <1>6 DEF CloseOwn, Terminate, CloseServers, AwaitOpening, AwaitTasks, CloseChannel
    <2>3. currentChannel' \in {currentChannel, channel}
        BY <1>6 DEF CloseOwn, Terminate, CloseServers, AwaitOpening, AwaitTasks, CloseChannel
    <2>4. currentChannel' \in Channel \cup {None}
        BY <2>3, Kinds DEF TypeOK
    <2>5. QED BY <2>1, <2>2, <2>4
<1>7. CASE CloseRest
    BY <1>7 DEF CloseRest, CloseBroker, AwaitPending, PendingSettled, CloseCurrent,
       clearReconnectTimer, EndPool
<1>8. CASE CloseSocket
    BY <1>8 DEF CloseSocket, CloseConnection, Disconnected, scheduleReconnect
<1>9. CASE Expired \/ UNCHANGED vars
    BY <1>9 DEF Expired, TimesOut, vars
<1>10. QED BY <1>1, <1>2, <1>3, <1>4, <1>5, <1>6, <1>7, <1>8, <1>9, Steps

\* A connection is opened when there is none, and closed for good at the end.
LEMMA NextOneSocket == PublisherInv /\ [Next]_vars => OneSocket'
<1> SUFFICES ASSUME PublisherInv, [Next]_vars PROVE OneSocket'
    OBVIOUS
<1> USE TypeParts DEF PublisherInv, Numbers, Sockets, Channels, Calls, OneSocket, Opened, Ceased
<1>1. CASE Client
    BY <1>1 DEF Client, ClientStep, ConnectOk, ConnectFails, ReconnectFires, Connect,
       scheduleReconnect, Spend
<1>2. CASE Opening \/ AssertTopology
    BY <1>2 DEF Opening, Connected, ChannelOpens, AssertTopology
<1>3. CASE GetChannelFails
    BY <1>3 DEF GetChannelFails, OpeningFails
<1>4. CASE AtTask
    BY <1>4 DEF AtTask, Publish, Needed, AskChannel, Connect, Confirm, Refuse, Spend
<1>5. CASE AtChannel \/ AtConnection
    BY <1>5 DEF AtChannel, AtConnection, LoseChannel, LoseConnection, Lose, Listening, Spend,
       Disconnected, scheduleReconnect
<1>6. CASE CloseOwn
    BY <1>6 DEF CloseOwn, Terminate, CloseServers, AwaitOpening, AwaitTasks, AllSettled,
       CloseChannel
<1>7. CASE CloseRest
    BY <1>7 DEF CloseRest, CloseBroker, AwaitPending, PendingSettled, CloseCurrent,
       clearReconnectTimer, EndPool
<1>8. CASE CloseSocket
    <2>1. connection = None /\ connection' = None /\ stage' = "pool" /\ ~ failed
        BY <1>8 DEF CloseSocket, CloseConnection, Disconnected
    <2>2. ~ connecting' /\ brokerClosing' /\ ~ reconnectTimer' /\ failed' = failed
        BY <1>8, <2>1 DEF CloseSocket, CloseConnection, Disconnected, scheduleReconnect
    <2>3. sockets' = {}
        BY <1>8, <2>1 DEF CloseSocket, CloseConnection
    <2>4. QED BY <2>1, <2>2, <2>3
<1>9. CASE Expired \/ UNCHANGED vars
    BY <1>9 DEF Expired, TimesOut, vars
<1>10. QED BY <1>1, <1>2, <1>3, <1>4, <1>5, <1>6, <1>7, <1>8, <1>9, Steps

\* A channel is asked for when there is none and none on its way.
LEMMA NextOpened == PublisherInv /\ [Next]_vars => Opened'
<1> SUFFICES ASSUME PublisherInv, [Next]_vars PROVE Opened'
    OBVIOUS
<1> USE TypeParts DEF PublisherInv, Numbers, Sockets, Channels, Calls, OneSocket, Opened, Ceased
<1>1. CASE Client
    BY <1>1 DEF Client, ClientStep, ConnectOk, ConnectFails, ReconnectFires, Connect,
       scheduleReconnect, Spend
<1>2. CASE Opening \/ AssertTopology
    BY <1>2 DEF Opening, Connected, ChannelOpens, AssertTopology
<1>3. CASE GetChannelFails
    BY <1>3 DEF GetChannelFails, OpeningFails
<1>4. CASE AtTask
    BY <1>4 DEF AtTask, Publish, Needed, AskChannel, Connect, Confirm, Refuse, Spend
<1>5. CASE AtChannel \/ AtConnection
    BY <1>5 DEF AtChannel, AtConnection, LoseChannel, LoseConnection, Lose, Listening, Spend,
       Disconnected, scheduleReconnect
<1>6. CASE CloseOwn
    BY <1>6 DEF CloseOwn, Terminate, CloseServers, AwaitOpening, AwaitTasks, AllSettled,
       CloseChannel
<1>7. CASE CloseRest
    BY <1>7 DEF CloseRest, CloseBroker, AwaitPending, PendingSettled, CloseCurrent,
       clearReconnectTimer, EndPool
<1>8. CASE CloseSocket
    BY <1>8 DEF CloseSocket, CloseConnection, Disconnected, scheduleReconnect
<1>9. CASE Expired \/ UNCHANGED vars
    BY <1>9 DEF Expired, TimesOut, vars
<1>10. QED BY <1>1, <1>2, <1>3, <1>4, <1>5, <1>6, <1>7, <1>8, <1>9, Steps

\* No call is let in any more, so what the shutdown waited for stays ended.
LEMMA NextCeased == PublisherInv /\ [Next]_vars => Ceased'
<1> SUFFICES ASSUME PublisherInv, [Next]_vars PROVE Ceased'
    OBVIOUS
<1> USE TypeParts DEF PublisherInv, Numbers, Sockets, Channels, Calls, OneSocket, Opened, Ceased
<1>1. CASE Client
    BY <1>1 DEF Client, ClientStep, ConnectOk, ConnectFails, ReconnectFires, Connect,
       scheduleReconnect, Spend
<1>2. CASE Opening \/ AssertTopology
    BY <1>2 DEF Opening, Connected, ChannelOpens, AssertTopology
<1>3. CASE GetChannelFails
    BY <1>3 DEF GetChannelFails, OpeningFails
<1>4. CASE AtTask
    BY <1>4 DEF AtTask, Publish, Needed, AskChannel, Connect, Confirm, Refuse, Spend
<1>5. CASE AtChannel \/ AtConnection
    BY <1>5 DEF AtChannel, AtConnection, LoseChannel, LoseConnection, Lose, Listening, Spend,
       Disconnected, scheduleReconnect
<1>6. CASE CloseOwn
    BY <1>6 DEF CloseOwn, Terminate, CloseServers, AwaitOpening, AwaitTasks, AllSettled,
       CloseChannel
<1>7. CASE CloseRest
    BY <1>7 DEF CloseRest, CloseBroker, AwaitPending, PendingSettled, CloseCurrent,
       clearReconnectTimer, EndPool
<1>8. CASE CloseSocket
    BY <1>8 DEF CloseSocket, CloseConnection, Disconnected, scheduleReconnect
<1>9. CASE Expired \/ UNCHANGED vars
    BY <1>9 DEF Expired, TimesOut, vars
<1>10. QED BY <1>1, <1>2, <1>3, <1>4, <1>5, <1>6, <1>7, <1>8, <1>9, Steps

\* A process that has just started.
LEMMA InitPublisherInv == Init => PublisherInv
<1> SUFFICES ASSUME Init PROVE PublisherInv
    OBVIOUS
<1> USE TypeParts DEF Init, ClientInit
<1>1. Numbers /\ Sockets
    <2>1. Numbers
        BY DEF Numbers
    <2>2. QED BY <2>1 DEF Sockets
<1>2. Channels /\ Calls
    BY DEF Channels, Calls
<1>3. OneSocket /\ Opened /\ Ceased
    BY DEF OneSocket, Opened, Ceased
<1>4. QED BY <1>1, <1>2, <1>3 DEF PublisherInv

\* The invariant holds in every reachable state.
THEOREM PublisherInvariance == Spec => []PublisherInv
<1>1. PublisherInv /\ [Next]_vars => PublisherInv'
    <2> SUFFICES ASSUME PublisherInv, [Next]_vars PROVE PublisherInv'
        OBVIOUS
    <2>1. TypeOK'
        BY NextNumbers, NextSockets, NextChannels, NextCalls, TypeParts
    <2>2. QED BY <2>1, NextOneSocket, NextOpened, NextCeased DEF PublisherInv
<1>2. QED BY <1>1, InitPublisherInv, PTL DEF Spec

\* Every variable keeps its type, and a call that waits has a channel to wait for.
THEOREM PublisherTypeCorrect == Spec => []TypeOK
BY PublisherInvariance, PTL DEF PublisherInv

\* However calls, losses and the shutdown interleave, one channel at most is
\* open.
THEOREM OneChannelHolds == Spec => []OneChannel
<1>1. PublisherInv => OneChannel
    BY TypeParts DEF PublisherInv, Opened, OneChannel, Calls
<1>2. QED BY <1>1, PublisherInvariance, PTL

\* Every call has ended before its channel, the connection and the pool close.
THEOREM CallsEndFirst == Spec => []PublishedFirst
<1>1. PublisherInv => PublishedFirst
    BY DEF PublisherInv, Ceased, PublishedFirst
<1>2. QED BY <1>1, PublisherInvariance, PTL

\* A shutdown whose close of the publisher did not throw leaves nothing behind.
THEOREM QuietHolds == Spec => []QuietUnlessFailed
<1>1. PublisherInv => QuietUnlessFailed
    BY DEF PublisherInv, OneSocket, Ceased, QuietUnlessFailed, ClientQuiet
<1>2. QED BY <1>1, PublisherInvariance, PTL
=============================================================================

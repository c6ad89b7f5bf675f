----------------------- MODULE NotificationPublisher -----------------------
(***************************************************************************)
(* The notifier's publisher of commands: publications that share a channel *)
(* which is opened on demand, and the shutdown of the notifier from the    *)
(* moment its servers are closed.  Scans are not awaited by the shutdown   *)
(* and publish until the end.                                              *)
(***************************************************************************)
EXTENDS Naturals, BrokerClient

CONSTANTS Task  \* calls of publish

VARIABLES
    task,           \* how far each call is
    via,            \* the channel it publishes on
    currentChannel, \* what close of the publisher closes
    failed          \* close of the publisher threw

publisherVars == <<task, via, currentChannel, failed>>
vars == <<brokerVars, channelVars, processVars, publisherVars>>

Stage == {"run", "servers", "opening", "tasks", "channel",
          "broker", "pending", "connection", "pool", "done", "exited"}

\* closing of the publisher
Closing == stage \notin {"run", "servers"}

InFlight == {t \in Task : task[t] \in {"wait", "confirm"}}

\* The values of the variables; a call waits only for a channel on its way.
TypeOK ==
    /\ ClientTypeOK
    /\ stage \in Stage
    /\ opening \in {"no", "connect", "open", "topology"}
    /\ task \in [Task -> {"none", "wait", "confirm", "ok", "failed"}]
    /\ via \in [Task -> Channel \cup {None}]
    /\ currentChannel \in Channel \cup {None}
    /\ failed \in BOOLEAN
    /\ \A t \in Task : task[t] = "wait" => opening # "no"

Init ==
    /\ ClientInit
    /\ connecting = FALSE
    /\ opening = "no"
    /\ task = [t \in Task |-> "none"]
    /\ via = [t \in Task |-> None]
    /\ currentChannel = None
    /\ failed = FALSE

-----------------------------------------------------------------------------
(* publish and getChannel.                                                 *)

mutant_Needed == TRUE
Needed == opening = "no"

\* Refused, on the channel there is, or after waiting for the channel.
Publish(t) ==
    /\ task[t] = "none"
    /\ \/ /\ Closing
          /\ task' = [task EXCEPT ![t] = "failed"]
          /\ UNCHANGED <<via, opening, connecting>>
       \/ /\ ~ Closing /\ channel # None
          /\ task' = [task EXCEPT ![t] = "confirm"]
          /\ via' = [via EXCEPT ![t] = channel]
          /\ UNCHANGED <<opening, connecting>>
       \/ /\ ~ Closing /\ channel = None
          /\ task' = [task EXCEPT ![t] = "wait"]
          /\ IF Needed THEN AskChannel ELSE UNCHANGED <<opening, connecting>>
          /\ UNCHANGED via
    /\ UNCHANGED <<clientButConnecting, channelButOpening, processVars, currentChannel, failed>>

\* The channel is ready, and all who waited for it publish.
AssertTopology ==
    /\ opening = "topology" /\ next \in channels
    /\ channel' = next
    /\ opening' = "no"
    /\ task' = [t \in Task |-> IF task[t] = "wait" THEN "confirm" ELSE task[t]]
    /\ via' = [t \in Task |-> IF task[t] = "wait" THEN next ELSE via[t]]
    /\ UNCHANGED <<brokerVars, channels, made, next, processVars, currentChannel, failed>>

GetChannelFails ==
    /\ OpeningFails
    /\ opening' = "no"
    /\ task' = [t \in Task |-> IF task[t] = "wait" THEN "failed" ELSE task[t]]
    /\ UNCHANGED <<brokerVars, channelButOpening, processVars, via, currentChannel, failed>>

\* The confirm of the broker, or the end of the channel before it.
Confirm(t) ==
    /\ task[t] = "confirm"
    /\ task' = [task EXCEPT ![t] = IF via[t] \in channels THEN "ok" ELSE "failed"]
    /\ UNCHANGED <<brokerVars, channelVars, processVars, via, currentChannel, failed>>

-----------------------------------------------------------------------------
(* Faults.                                                                 *)

Refuse(t) ==
    /\ task[t] = "confirm"
    /\ Spend
    /\ task' = [task EXCEPT ![t] = "failed"]
    /\ UNCHANGED <<brokerVars, channelVars, stage, currentConnection, via, currentChannel, failed>>

Lose(cs) ==
    /\ channels' = channels \ cs
    /\ channel' = IF \E c \in cs : Listening(c) THEN None ELSE channel
    /\ UNCHANGED <<made, opening, next, stage, currentConnection, publisherVars>>

LoseChannel(c) == c \in channels /\ Spend /\ Lose({c}) /\ UNCHANGED brokerVars

LoseConnection(k) ==
    /\ k \in sockets
    /\ Spend
    /\ sockets' = sockets \ {k}
    /\ Disconnected
    /\ Lose({c \in channels : c[1] = k})

-----------------------------------------------------------------------------
(* The shutdown.                                                           *)

\* A signal; the scanner's timer is cleared.
Terminate ==
    /\ stage = "run"
    /\ stage' = "servers"
    /\ UNCHANGED <<brokerVars, channelVars, currentConnection, faults, publisherVars>>

\* The HTTP server and the consumer of saga replies are closed; close of the
\* publisher begins with the channel there is, or the one on its way.
CloseServers ==
    /\ stage = "servers"
    /\ currentChannel' = channel
    /\ stage' = IF channel = None /\ opening # "no" THEN "opening" ELSE "tasks"
    /\ UNCHANGED <<brokerVars, channelVars, currentConnection, faults, task, via, failed>>

AwaitOpening ==
    /\ stage = "opening" /\ opening = "no"
    /\ currentChannel' = channel
    /\ stage' = "tasks"
    /\ UNCHANGED <<brokerVars, channelVars, currentConnection, faults, task, via, failed>>

mutant_AllSettled == TRUE
AllSettled == InFlight = {}

AwaitTasks ==
    /\ stage = "tasks" /\ AllSettled
    /\ channel' = None
    /\ stage' = IF currentChannel = None THEN "broker" ELSE "channel"
    /\ UNCHANGED <<brokerVars, channels, made, opening, next, currentConnection, faults, publisherVars>>

\* Closing a channel that is gone throws, and what follows in
\* closeNotificationPublisher, the close of the broker client, is left out.
CloseChannel ==
    /\ stage = "channel"
    /\ channels' = channels \ {currentChannel}
    /\ failed' = (currentChannel \notin channels)
    /\ stage' = IF failed' THEN "pool" ELSE "broker"
    /\ UNCHANGED <<brokerVars, made, channel, opening, next, currentConnection, faults,
                   task, via, currentChannel>>

CloseRest ==
    /\ CloseBroker \/ AwaitPending \/ EndPool
    /\ UNCHANGED <<channelVars, publisherVars>>

CloseSocket ==
    /\ CloseConnection
    /\ channels' = {c \in channels : c[1] \in sockets'}
    /\ UNCHANGED <<made, channel, opening, next, publisherVars>>

-----------------------------------------------------------------------------
Client == ClientStep /\ UNCHANGED <<channelVars, stage, currentConnection, publisherVars>>

Opening ==
    /\ Connected \/ ChannelOpens
    /\ UNCHANGED <<brokerVars, processVars, publisherVars>>

GetChannel == Opening \/ AssertTopology \/ GetChannelFails

Shutdown ==
    \/ CloseServers \/ AwaitOpening \/ AwaitTasks \/ CloseChannel
    \/ CloseRest \/ CloseSocket

Next == Running /\
    \/ Client \/ GetChannel
    \/ \E t \in Task : Publish(t) \/ Confirm(t) \/ Refuse(t)
    \/ \E c \in channels : LoseChannel(c)
    \/ \E k \in sockets : LoseConnection(k)
    \/ Terminate \/ Shutdown
    \/ TimesOut /\ UNCHANGED <<channelVars, publisherVars>>

Spec == Init /\ [][Next]_vars

\* The broker answers, the timer fires and servers close.
Fairness ==
    /\ WF_vars(Running /\ Client)
    /\ WF_vars(Running /\ GetChannel)
    /\ \A t \in Task : WF_vars(Running /\ Confirm(t))
    /\ WF_vars(Running /\ Shutdown)

FairSpec == Spec /\ Fairness

-----------------------------------------------------------------------------
(* Properties.                                                             *)

\* Calls that come while the channel is opened, lost and opened again share
\* it: no second one is open that nobody would close.
OneChannel == \A c, d \in channels : c = d

\* Every call that was let in before the shutdown is confirmed or refused
\* before its channel, the connection and the pool are closed.
PublishedFirst ==
    stage \in {"channel", "broker", "pending", "connection", "pool", "done"} => InFlight = {}

\* A shutdown that reports no failure of the publisher leaves no connection,
\* attempt or timer that would keep the process alive.
QuietUnlessFailed == stage = "done" /\ ~ failed => ClientQuiet /\ opening = "no"

\* Requests and scans never hang in a publication, whatever becomes of the
\* channel and of the attempt to open it that they wait for.
PublicationsEnd ==
    \A t \in Task : task[t] = "wait" ~> task[t] \in {"ok", "failed"} \/ ~ Running
=============================================================================

---------------------------- MODULE BrokerClient ----------------------------
(***************************************************************************)
(* The broker client of a process, the channel its owner opens through it  *)
(* and the end of the shutdown that closes it.  The owner, a consumer or a *)
(* publisher, has a module of its own that extends this one.               *)
(*                                                                         *)
(* Grain: node runs one callback at a time.  An event, a timer, an answer  *)
(* of the broker and what follows an await are a step each; whatever may   *)
(* happen between an answer and the code that awaits it is allowed here,   *)
(* which is more than node does.                                           *)
(***************************************************************************)
EXTENDS Naturals

CONSTANTS
    None,
    MaxFaults     \* bound: how many faults in one behaviour

Channel == Nat \X Nat

ASSUME BrokerAssumption == None \notin Nat \cup Channel /\ MaxFaults \in Nat

VARIABLES
    \* the broker
    sockets,        \* the connections that are open, numbered as they open
    opened,         \* how many were opened so far
    channels,       \* the open channels: connection and number
    made,           \* how many channels were asked for so far
    faults,         \* faults so far
    \* createBrokerClient
    connection,     \* the connection in use
    connecting,     \* an attempt to connect is under way
    reconnectTimer, \* the timer is armed
    reconnecting,   \* what the timer started waits for the attempt
    brokerClosing,  \* closing
    \* what the owner keeps
    channel,        \* the channel in use
    opening,        \* how far its opening is: starting, channelPromise
    next,           \* the channel that is being opened: nextChannel
    \* closeAll
    stage,          \* how far the shutdown is
    currentConnection

clientVars == <<connection, connecting, reconnectTimer, reconnecting, brokerClosing>>
brokerVars == <<sockets, opened, clientVars>>
clientButConnecting == <<sockets, opened, connection, reconnectTimer, reconnecting, brokerClosing>>
channelVars == <<channels, made, channel, opening, next>>
channelButOpening == <<channels, made, channel, next>>
processVars == <<stage, currentConnection, faults>>

Running == stage # "exited"

\* What is in use is open, and only one attempt of each kind is under way.
ClientTypeOK ==
    /\ opened \in Nat /\ sockets \subseteq 1..opened
    /\ made \in Nat /\ channels \subseteq sockets \X (1..made)
    /\ faults \in 0..MaxFaults
    /\ connection \in sockets \cup {None}
    /\ connecting \in BOOLEAN /\ reconnectTimer \in BOOLEAN
    /\ reconnecting \in BOOLEAN /\ brokerClosing \in BOOLEAN
    /\ connecting => connection = None
    /\ channel \in channels \cup {None}
    /\ next \in Channel \cup {None}
    /\ opening \in {"open", "topology", "consume", "undo"} => next \in Channel

ClientInit ==
    /\ sockets = {} /\ opened = 0
    /\ channels = {} /\ made = 0
    /\ faults = 0
    /\ connection = None
    /\ reconnectTimer = FALSE /\ reconnecting = FALSE
    /\ brokerClosing = FALSE
    /\ channel = None /\ next = None
    /\ stage = "run"
    /\ currentConnection = None

Spend == faults < MaxFaults /\ faults' = faults + 1

-----------------------------------------------------------------------------
(* Connecting.                                                             *)

\* connect: the connection there is, the attempt there is, or a new one.
Connect == connecting' = (connecting \/ connection = None)

scheduleReconnect == reconnectTimer' = (reconnectTimer \/ ~ brokerClosing)

ConnectOk ==
    /\ connecting
    /\ opened' = opened + 1
    /\ sockets' = sockets \cup {opened'}
    /\ connection' = opened'
    /\ connecting' = FALSE
    /\ reconnecting' = FALSE
    /\ UNCHANGED <<reconnectTimer, brokerClosing, faults>>

ConnectFails ==
    /\ connecting
    /\ Spend
    /\ connecting' = FALSE
    /\ reconnecting' = FALSE
    /\ IF reconnecting THEN scheduleReconnect ELSE UNCHANGED reconnectTimer
    /\ UNCHANGED <<sockets, opened, connection, brokerClosing>>

ReconnectFires ==
    /\ reconnectTimer
    /\ reconnectTimer' = FALSE
    /\ reconnecting' = (connection = None)
    /\ Connect
    /\ UNCHANGED <<sockets, opened, connection, brokerClosing, faults>>

\* The handler of a connection's close event.
Disconnected ==
    /\ connection' = None
    /\ scheduleReconnect
    /\ UNCHANGED <<opened, connecting, reconnecting, brokerClosing>>

-----------------------------------------------------------------------------
(* createConfirmChannel, up to the topology its owner asserts on it.       *)

\* The owner asks for a channel.
AskChannel == opening' = "connect" /\ Connect

Connected ==
    /\ opening = "connect" /\ ~ connecting /\ connection # None
    /\ next' = <<connection, made + 1>>
    /\ made' = made + 1
    /\ opening' = "open"
    /\ UNCHANGED <<channels, channel>>

ChannelOpens ==
    /\ opening = "open" /\ next[1] \in sockets
    /\ channels' = channels \cup {next}
    /\ opening' = "topology"
    /\ UNCHANGED <<made, next, channel>>

\* What the opening waits for will not come: its promise rejects.
mutant_OpeningFails ==
    \/ opening = "open" /\ next[1] \notin sockets
    \/ opening \in {"topology", "consume"} /\ next \notin channels
OpeningFails ==
    \/ opening = "connect" /\ ~ connecting /\ connection = None
    \/ opening = "open" /\ next[1] \notin sockets
    \/ opening \in {"topology", "consume"} /\ next \notin channels

\* The listener for the channel's close event is attached only after the
\* topology is asserted.
Listening(c) == c # next \/ opening # "topology"

-----------------------------------------------------------------------------
(* close of the broker client, and the rest of the shutdown.               *)

\* The connection there is, or the one that is about to be, is closed.
CloseCurrent ==
    /\ currentConnection' = connection
    /\ connection' = None
    /\ stage' = IF connection # None THEN "connection" ELSE "pool"

mutant_clearReconnectTimer == UNCHANGED reconnectTimer
clearReconnectTimer == reconnectTimer' = FALSE

CloseBroker ==
    /\ stage = "broker"
    /\ brokerClosing' = TRUE
    /\ clearReconnectTimer
    /\ IF connecting
       THEN stage' = "pending" /\ UNCHANGED <<connection, currentConnection>>
       ELSE CloseCurrent
    /\ UNCHANGED <<sockets, opened, connecting, reconnecting, faults>>

\* An attempt that fails is as good as one that succeeds.
mutant_PendingSettled == connection # None
PendingSettled == ~ connecting

AwaitPending ==
    /\ stage = "pending" /\ PendingSettled
    /\ CloseCurrent
    /\ UNCHANGED <<sockets, opened, connecting, reconnectTimer, reconnecting, brokerClosing, faults>>

CloseConnection ==
    /\ stage = "connection"
    /\ sockets' = sockets \ {currentConnection}
    /\ IF currentConnection \in sockets THEN Disconnected ELSE UNCHANGED <<opened, clientVars>>
    /\ stage' = "pool"
    /\ UNCHANGED <<currentConnection, faults>>

EndPool ==
    /\ stage = "pool"
    /\ stage' = "done"
    /\ UNCHANGED <<brokerVars, currentConnection, faults>>

\* The timeout of the shutdown: process.exit(1).
TimesOut ==
    /\ stage \notin {"run", "done"}
    /\ stage' = "exited"
    /\ UNCHANGED <<brokerVars, currentConnection, faults>>

\* What the client does by itself.
ClientStep == ConnectOk \/ ConnectFails \/ ReconnectFires

\* Nothing is left that would keep the event loop of the process alive.
ClientQuiet == sockets = {} /\ ~ connecting /\ ~ reconnectTimer
=============================================================================

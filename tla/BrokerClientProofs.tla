------------------------- MODULE BrokerClientProofs -------------------------
(***************************************************************************)
(* What the proofs about the owners of a broker client share.              *)
(***************************************************************************)
EXTENDS BrokerClient, TLAPS

\* The stages of the shutdown from the broker client on, up to its end.
AfterPool == {"pool", "done"}
AfterConnection == {"connection"} \cup AfterPool
AfterPending == {"pending"} \cup AfterConnection
AfterBroker == {"broker"} \cup AfterPending
AfterChannel == {"channel"} \cup AfterBroker
AfterTasks == {"tasks"} \cup AfterChannel

(* ClientTypeOK in parts.                                                  *)

Numbers == opened \in Nat /\ made \in Nat /\ faults \in 0..MaxFaults

Sockets ==
    /\ sockets \subseteq 1..opened
    /\ connection \in sockets \cup {None}
    /\ connecting \in BOOLEAN /\ reconnectTimer \in BOOLEAN
    /\ reconnecting \in BOOLEAN /\ brokerClosing \in BOOLEAN
    /\ connecting => connection = None

Channels ==
    /\ channels \subseteq sockets \X (1..made)
    /\ channel \in channels \cup {None}
    /\ next \in Channel \cup {None}
    /\ opening \in {"open", "topology", "consume", "undo"} => next \in Channel

LEMMA ClientTypeParts ==
    /\ ClientTypeOK <=> Numbers /\ Sockets /\ Channels
    /\ ClientTypeOK' <=> Numbers' /\ Sockets' /\ Channels'
BY DEF ClientTypeOK, Numbers, Sockets, Channels

\* None is neither a connection nor a channel, so a set of them that has at
\* most None is empty.
LEMMA Kinds == ClientTypeOK => /\ None \notin sockets /\ sockets \subseteq Nat
                               /\ None \notin channels /\ channels \subseteq Channel
<1> SUFFICES ASSUME ClientTypeOK
             PROVE  sockets \subseteq Nat /\ channels \subseteq Channel
    BY BrokerAssumption
<1>1. sockets \subseteq Nat
    BY DEF ClientTypeOK
<1>2. channels \subseteq sockets \X (1..made) /\ 1..made \subseteq Nat
    BY DEF ClientTypeOK
<1>3. QED BY <1>1, <1>2 DEF Channel

\* What the client does by itself leaves the connection in use open, and no
\* attempt to connect under way next to it.
LEMMA ClientStepSockets ==
    ASSUME Numbers, Sockets, ClientStep
    PROVE  Sockets'
<1>1. CASE ConnectOk
    <2>1. sockets \subseteq 1..opened' /\ opened' \in 1..opened'
        BY <1>1 DEF ConnectOk, Numbers, Sockets
    <2>2. sockets' \subseteq 1..opened' /\ connection' \in sockets'
        BY <1>1, <2>1 DEF ConnectOk
    <2>3. QED BY <1>1, <2>2 DEF ConnectOk, Sockets
<1>2. CASE ConnectFails
    BY <1>2 DEF ConnectFails, scheduleReconnect, Sockets
<1>3. CASE ReconnectFires
    BY <1>3 DEF ReconnectFires, Connect, Sockets
<1>4. QED BY <1>1, <1>2, <1>3 DEF ClientStep
=============================================================================

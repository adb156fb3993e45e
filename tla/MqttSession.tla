---------------------------- MODULE MqttSession ----------------------------
(***************************************************************************)
(* The MQTT session of the box: EstablishMqttSession, SubscribeToTopic,    *)
(* PublishToTopic and DisconnectMqttSession (provisioning/                 *)
(* mqtt_operations.c) over coreMQTT, as the AWS IoT task calls them, and a *)
(* broker with persistent sessions.  One task does all of it: a call is    *)
(* one step, and what comes between two calls is the network, the broker   *)
(* and the clock.                                                          *)
(***************************************************************************)
EXTENDS MqttRecords, SequencesExt

CONSTANTS
  Slots,     \* MAX_OUTGOING_PUBLISHES
  Records,   \* OUTGOING_PUBLISH_RECORD_LEN and INCOMING_PUBLISH_RECORD_LEN
  LastId,    \* UINT16_MAX, the last packet id before 1 comes again
  Topics,    \* how many topics mqtt_subscribe_init subscribes to
  Messages,  \* what the box publishes
  Commands,  \* what the broker publishes
  BrokerIds, \* the broker's packet ids
  InFlight,  \* with so many packets under way, no other one is begun
  Intact     \* freed memory is still as it was when a packet that points to it is sent again

ASSUME MqttAssumption ==
  /\ {Slots, Records, LastId, Topics, InFlight} \subseteq Nat \ {0}
  /\ Slots <= Records /\ Topics < LastId
  /\ BrokerIds \subseteq Nat \ {NoId} /\ IsFiniteSet(BrokerIds) /\ Intact \in BOOLEAN

NoMessage == "none"
Garbage   == "garbage"
ASSUME MessageAssumption == {NoMessage, Garbage} \cap (Messages \cup Commands) = {}

VARIABLES
  phase,    \* what the AWS IoT task is at
  at,       \* the packet that it sends again, or the topic that it subscribes to
  nextId,   \* nextPacketId
  subId,    \* globalSubscribePacketIdentifier
  ping,     \* waitingForPingResp
  slots,    \* outgoingPublishPackets
  outgoing, \* pOutgoingPublishRecords
  incoming, \* pIncomingPublishRecords
  link,     \* the connection is "up", or "cut" and the client may not know
  toBroker, \* packets on their way
  toClient,
  session,  \* the broker has a session for the box
  unacked,  \* what the broker has published and not seen acknowledged
  steady,   \* from now on the network, the broker and the power are reliable
  reached,  \* the pairs of a message in slots and of what the broker has got for it
  lost,     \* the session is lost, and the client has not been told
  handed    \* the commands that mqtt_rx_messege has got

control == <<phase, at, nextId, subId, ping>>
network == <<link, toBroker, toClient>>
broker  == <<session, unacked>>
ghosts  == <<reached, lost, handed>>
vars    == <<control, slots, outgoing, incoming, network, broker, steady, ghosts>>

Free == [id |-> NoId, msg |-> NoMessage]

NoSlots   == [s \in 1..Slots |-> Free]
NoUnacked == [b \in BrokerIds |-> NoMessage]

Kept == Used(slots)
Held == {slots[s].msg : s \in 1..Slots} \ {NoMessage}

MqttTypeOK ==
  /\ phase \in {"offline", "connack", "resend", "subscribe", "suback", "serving"}
  /\ at \in 1..Slots \cup 1..Topics /\ nextId \in 1..LastId /\ subId \in 0..LastId
  /\ {ping, steady, session, lost} \subseteq BOOLEAN
  /\ slots \in [1..Slots -> [id : 0..LastId, msg : Messages \cup {NoMessage}]]
  /\ outgoing \in [1..Records -> [id : 0..LastId, state : States]]
  /\ incoming \in [1..Records -> [id : {NoId} \cup BrokerIds, state : States]]
  /\ link \in {"up", "cut"}
  /\ \E first \in {InFlight, 1 + Cardinality(BrokerIds)} :
       Len(toBroker) + Len(toClient) <= first + Slots + Topics
  /\ unacked \in [BrokerIds -> Commands \cup {NoMessage}]
  /\ reached \subseteq Held \X (Messages \cup {Garbage}) /\ handed \subseteq Commands

\* RAM after a start, and the connection as the broker may still see it
Booted ==
  /\ phase' = "offline" /\ at' = 1 /\ nextId' = 1 /\ subId' = NoId /\ ping' = FALSE
  /\ slots' = NoSlots /\ outgoing' = NoRecords(Records) /\ incoming' = NoRecords(Records)
  /\ link' = "cut" /\ toClient' = <<>>
  /\ reached' = {} /\ lost' = TRUE
  /\ UNCHANGED <<toBroker, broker, handed>>

MqttInit ==
  /\ phase = "offline" /\ at = 1 /\ nextId = 1 /\ subId = NoId /\ ping = FALSE
  /\ slots = NoSlots /\ outgoing = NoRecords(Records) /\ incoming = NoRecords(Records)
  /\ link = "cut" /\ toBroker = <<>> /\ toClient = <<>>
  /\ session = FALSE /\ unacked = NoUnacked
  /\ steady = FALSE
  /\ reached = {} /\ lost = TRUE /\ handed = {}

-----------------------------------------------------------------------------
(* Sending.  What is sent over a cut connection vanishes, with or without an error; a *)
(* failure may have left half a packet on the connection, which the broker then closes. *)

Publish(id, m) == [type |-> "PUBLISH", id |-> id, msg |-> m]
Packet(t, id)  == [type |-> t, id |-> id]

\* Answers are not bounded: each takes the place of what it answers.
Room == Len(toBroker) + Len(toClient) < InFlight

Sent(packet) ==
  \/ link = "up" /\ toBroker' = Append(toBroker, packet) /\ UNCHANGED link
  \/ link = "cut" /\ UNCHANGED <<link, toBroker>>

Unreliable == ~steady \/ link = "cut"

SendFails == Unreliable /\ link' \in {link, "cut"} /\ UNCHANGED toBroker

\* Mutant: the packet id wraps to 0.
FollowingIdWraps(id) == (id + 1) % (LastId + 1)

\* MQTT_GetPacketId
FollowingId(id) == IF id = LastId THEN 1 ELSE id + 1

Hangup == phase' = "offline" /\ at' = 1 /\ link' = "cut" /\ toClient' = <<>>

-----------------------------------------------------------------------------
(* EstablishMqttSession *)

\* MQTT_Init begins a new context; the arrays of records and packets stay.
Connect ==
  /\ phase = "offline"
  /\ phase' = "connack" /\ nextId' = 1 /\ ping' = FALSE
  /\ link' = "up" /\ toBroker' = <<Packet("CONNECT", NoId)>> /\ toClient' = <<>>
  /\ UNCHANGED <<at, subId, slots, outgoing, incoming, broker, steady, ghosts>>

\* receiveConnack: nothing within a second, or an error
ConnackFails ==
  /\ phase = "connack" /\ Unreliable
  /\ Hangup
  /\ UNCHANGED <<nextId, subId, ping, slots, outgoing, incoming, toBroker, broker,
                 steady, ghosts>>

\* Mutant: the incoming records are kept when the broker has begun a new session.
ForgetOutgoingOnly ==
  /\ slots' = NoSlots
  /\ outgoing' = NoRecords(Records)
  /\ reached' = {} /\ lost' = ~session
  /\ UNCHANGED incoming

\* handleSessionResumption and cleanupOutgoingPublishes
ForgetSession ==
  /\ slots' = NoSlots
  /\ outgoing' = NoRecords(Records) /\ incoming' = NoRecords(Records)
  /\ reached' = {} /\ lost' = ~session

Connack ==
  /\ phase = "connack" /\ toClient # <<>>
  /\ toClient' = Tail(toClient) /\ at' = 1
  /\ IF Head(toClient).present
     THEN phase' = "resend" /\ UNCHANGED <<slots, outgoing, incoming, reached, lost>>
     ELSE phase' = "subscribe" /\ ForgetSession
  /\ UNCHANGED <<nextId, subId, ping, link, toBroker, broker, steady, handed>>

\* MQTT_Publish of a packet with the dup flag: its record is there already.
Resent(a, id) ==
  LET reserved == ReserveState(a, id)
  IN IF reserved.status \in {"Success", "StateCollision"}
     THEN UpdateStatePublish(reserved.records, id, "SEND") ELSE reserved

\* A kept packet has pointers to its topic and its payload.  Send_cJSON_Messege, which has
\* the one on its stack, frees the other when PublishToTopic has returned.
ContentLater(m) == IF Intact THEN {m} ELSE {m, Garbage}

\* handlePublishResend, one packet after the other until one fails; EstablishMqttSession
\* then returns false, and nobody closes the connection before the next attempt.
NextPacket ==
  IF at = Slots THEN phase' = "subscribe" /\ at' = 1 ELSE at' = at + 1 /\ UNCHANGED phase

Resend ==
  /\ phase = "resend"
  /\ LET p == slots[at] IN
     \/ /\ p = Free /\ NextPacket
        /\ UNCHANGED <<outgoing, link, toBroker>>
     \/ /\ p # Free
        /\ outgoing' = Resent(outgoing, p.id).records
        /\ \/ \E m \in ContentLater(p.msg) : Sent(Publish(p.id, m)) /\ NextPacket
           \/ SendFails /\ phase' = "offline" /\ at' = 1
  /\ UNCHANGED <<nextId, subId, ping, slots, incoming, toClient, broker, steady, ghosts>>

-----------------------------------------------------------------------------
(* mqtt_subscribe_init: a failure is logged, and the next topic follows *)

NextTopic ==
  IF at = Topics THEN phase' = "serving" /\ at' = 1
  ELSE phase' = "subscribe" /\ at' = at + 1

SubscribeToTopic ==
  /\ phase = "subscribe"
  /\ subId' = nextId /\ nextId' = FollowingId(nextId)
  /\ \/ Sent(Packet("SUBSCRIBE", nextId)) /\ phase' = "suback" /\ UNCHANGED at
     \/ SendFails /\ NextTopic
  /\ UNCHANGED <<ping, slots, outgoing, incoming, toClient, broker, steady, ghosts>>

\* waitForPacketAck: nothing within a second, or an error of MQTT_ProcessLoop
WaitForPacketAckFails ==
  /\ phase = "suback" /\ Unreliable
  /\ NextTopic
  /\ UNCHANGED <<nextId, subId, ping, slots, outgoing, incoming, network, broker, steady, ghosts>>

-----------------------------------------------------------------------------
(* PublishToTopic *)

\* A packet id that is still in the records loses the message, and so does a failure of
\* the send, after which the record stays behind.
PublishToTopic(m) ==
  /\ phase = "serving" /\ Room /\ m \notin Held /\ Len(Kept) < Slots
  /\ nextId' = FollowingId(nextId)
  /\ LET reserved == ReserveState(outgoing, nextId)
         sent     == UpdateStatePublish(reserved.records, nextId, "SEND")
         free     == CHOOSE f \in 1..Slots : 1..f \ Places(slots) = {f}
     IN \/ /\ reserved.status = "Success" /\ Sent(Publish(nextId, m))
           /\ outgoing' = sent.records
           /\ slots' = [slots EXCEPT ![free] = [id |-> nextId, msg |-> m]]
        \/ /\ \/ reserved.status = "Success" /\ SendFails
              \/ reserved.status # "Success" /\ UNCHANGED <<link, toBroker>>
           /\ outgoing' = reserved.records
           /\ UNCHANGED slots
  /\ UNCHANGED <<phase, at, subId, ping, incoming, toClient, broker, steady, ghosts>>

-----------------------------------------------------------------------------
(* MQTT_ProcessLoop, in the service loop and while a SUBACK is awaited *)

Receives(type) ==
  /\ phase \in {"suback", "serving"}
  /\ toClient # <<>> /\ Head(toClient).type = type

\* An error ends the service loop, with DisconnectMqttSession, or the wait for the SUBACK.
LoopFails(links) ==
  IF phase = "serving" THEN Hangup
  ELSE NextTopic /\ link' \in links /\ toClient' = Tail(toClient)

\* globalAckPacketIdentifier, which the wait compares with its own
Acknowledged(id) ==
  /\ toClient' = Tail(toClient)
  /\ UNCHANGED link
  /\ IF phase = "suback" /\ id = subId THEN NextTopic ELSE UNCHANGED <<phase, at>>

\* Mutant: an acknowledgement frees all packets.
CleanupOutgoingPublishAll(id) == NoSlots

CleanupOutgoingPublish(id) ==
  [s \in 1..Slots |-> IF slots[s].id = id THEN Free ELSE slots[s]]

HandlePuback ==
  /\ Receives("PUBACK")
  /\ LET id == Head(toClient).id
         updated == UpdateStateAck(outgoing, id)
     IN /\ outgoing' = updated.records
        /\ IF updated.status = "Success"
           THEN /\ slots' = CleanupOutgoingPublish(id)
                /\ reached' = {r \in reached : \E s \in 1..Slots : slots'[s].msg = r[1]}
                /\ Acknowledged(id)
           ELSE LoopFails({link}) /\ UNCHANGED <<slots, reached>>
  /\ UNCHANGED <<nextId, subId, ping, incoming, toBroker, broker, steady, lost, handed>>

\* The assertion of mqttCallback restarts the box.
HandleSuback ==
  /\ Receives("SUBACK")
  /\ IF Head(toClient).id = subId
     THEN /\ Acknowledged(subId)
          /\ UNCHANGED <<nextId, subId, ping, slots, outgoing, incoming, toBroker, broker, ghosts>>
     ELSE Booted
  /\ UNCHANGED steady

\* handleIncomingPublish: a packet id that is in the records is a duplicate, which is
\* acknowledged and not handed over.
HandlePublish ==
  /\ Receives("PUBLISH")
  /\ LET id == Head(toClient).id
         updated == UpdateStatePublish(incoming, id, "RECEIVE")
     IN /\ handed' = IF updated.status = "Success" THEN handed \cup {Head(toClient).msg} ELSE handed
        /\ \/ /\ updated.status # "NoMemory" /\ Sent(Packet("PUBACK", id))
              /\ incoming' = UpdateStateAck(updated.records, id).records
              /\ toClient' = Tail(toClient)
              /\ UNCHANGED <<phase, at>>
           \/ /\ updated.status # "NoMemory" /\ SendFails
              /\ incoming' = updated.records
              /\ LoopFails({link, "cut"})
           \/ /\ updated.status = "NoMemory"
              /\ incoming' = updated.records
              /\ LoopFails({link}) /\ UNCHANGED toBroker
  /\ UNCHANGED <<nextId, subId, ping, slots, outgoing, broker, steady, reached, lost>>

HandlePingresp ==
  /\ Receives("PINGRESP")
  /\ ping' = FALSE /\ toClient' = Tail(toClient)
  /\ UNCHANGED <<phase, at, nextId, subId, slots, outgoing, incoming, link, toBroker, broker,
                 steady, ghosts>>

\* handleKeepAlive, when nothing has been sent, or nothing received, for a while
KeepAlive ==
  /\ phase \in {"suback", "serving"} /\ Room /\ toClient = <<>> /\ ~ping
  /\ Sent(Packet("PINGREQ", NoId)) /\ ping' = TRUE
  /\ UNCHANGED <<phase, at, nextId, subId, slots, outgoing, incoming, toClient, broker,
                 steady, ghosts>>

\* No PINGRESP in time, or an error of the connection
ServiceEnds ==
  /\ phase = "serving" /\ Unreliable
  /\ Hangup
  /\ UNCHANGED <<nextId, subId, ping, slots, outgoing, incoming, toBroker, broker,
                 steady, ghosts>>

-----------------------------------------------------------------------------
(* The broker, the network and the power *)

Reply(packets) ==
  toClient' = IF link = "up" THEN toClient \o packets ELSE toClient

\* What the broker publishes again in a session that goes on
Unanswered ==
  LET ids == SetToSeq({b \in BrokerIds : unacked[b] # NoMessage})
  IN [i \in DOMAIN ids |-> Publish(ids[i], unacked[ids[i]])]

\* What the packet brings of the message that is kept under its id
Arrived(p) == {<<slots[s].msg, p.msg>> : s \in {s \in 1..Slots : slots[s].id = p.id}}

BrokerReads ==
  /\ toBroker # <<>>
  /\ toBroker' = Tail(toBroker)
  /\ LET p == Head(toBroker) IN
     \/ /\ p.type = "CONNECT"
        /\ session' = TRUE
        /\ Reply(<<[type |-> "CONNACK", present |-> session]>> \o Unanswered)
        /\ UNCHANGED <<unacked, reached>>
     \/ /\ p.type = "PUBLISH"
        /\ Reply(<<Packet("PUBACK", p.id)>>)
        /\ reached' = reached \cup Arrived(p)
        /\ UNCHANGED broker
     \/ /\ p.type = "SUBSCRIBE"
        /\ Reply(<<Packet("SUBACK", p.id)>>)
        /\ UNCHANGED <<broker, reached>>
     \/ /\ p.type = "PINGREQ"
        /\ Reply(<<Packet("PINGRESP", NoId)>>)
        /\ UNCHANGED <<broker, reached>>
     \/ /\ p.type = "PUBACK"
        /\ unacked' = [unacked EXCEPT ![p.id] = NoMessage]
        /\ UNCHANGED <<session, toClient, reached>>
  /\ UNCHANGED <<control, slots, outgoing, incoming, link, steady, lost, handed>>

BrokerPublishes(b, c) ==
  /\ link = "up" /\ \A i \in DOMAIN toBroker : toBroker[i].type # "CONNECT"
  /\ unacked[b] = NoMessage /\ \A i \in BrokerIds : unacked[i] # c
  /\ Room
  /\ unacked' = [unacked EXCEPT ![b] = c]
  /\ toClient' = Append(toClient, Publish(b, c))
  /\ handed' = handed \ {c}
  /\ UNCHANGED <<control, slots, outgoing, incoming, link, toBroker, session, steady, reached, lost>>

BrokerForgets ==
  /\ link = "cut" /\ session
  /\ session' = FALSE /\ unacked' = NoUnacked /\ lost' = TRUE
  /\ UNCHANGED <<control, slots, outgoing, incoming, network, steady, reached, handed>>

Cut ==
  /\ link = "up" /\ ~steady
  /\ link' = "cut"
  /\ UNCHANGED <<control, slots, outgoing, incoming, toBroker, toClient, broker, steady, ghosts>>

PowerCut == ~steady /\ Booted /\ UNCHANGED steady

Settle ==
  /\ ~steady /\ steady' = TRUE
  /\ UNCHANGED <<control, slots, outgoing, incoming, network, broker, ghosts>>

-----------------------------------------------------------------------------
Call == Connect \/ ConnackFails \/ Connack \/ Resend \/ SubscribeToTopic \/ WaitForPacketAckFails

ProcessLoop == HandlePuback \/ HandleSuback \/ HandlePublish \/ HandlePingresp

MqttNext ==
  \/ Call \/ ProcessLoop \/ KeepAlive \/ ServiceEnds
  \/ \E m \in Messages : PublishToTopic(m)
  \/ \E b \in BrokerIds, c \in Commands : BrokerPublishes(b, c)
  \/ BrokerReads \/ BrokerForgets \/ Cut \/ PowerCut \/ Settle

\* The task runs and notices a silent connection; the broker answers.
MqttFairness == WF_vars(Call \/ ProcessLoop \/ ServiceEnds) /\ WF_vars(BrokerReads)

MqttSpec == MqttInit /\ [][MqttNext]_vars
MqttFairSpec == MqttSpec /\ MqttFairness

-----------------------------------------------------------------------------
(* Properties *)

\* Every packet that is kept for a resend (outgoingPublishPackets) has a record that lets
\* its acknowledgement through; two of them never have the same id.
KeptCanBeAcknowledged ==
  phase \in {"suback", "serving"} =>
    \A s \in Places(slots) :
      /\ StateOf(outgoing, slots[s].id) = "PubAckPending"
      /\ \A t \in 1..Slots : slots[t].id = slots[s].id => t = s

\* "These stored outgoing publish messages are kept until a successful ack is received"
\* (mqtt_operations.c:232): what the box sends again is what it has published.
ResentAsPublished ==
  \A i \in DOMAIN toBroker : toBroker[i].type = "PUBLISH" => toBroker[i].msg # Garbage

\* handleIncomingPublish acknowledges a duplicate without handing it over: what the
\* broker is told is done, mqtt_rx_messege has got, unless the broker has lost the
\* session and its answer that said so.
AcknowledgedIsHanded ==
  \A i \in DOMAIN toBroker :
    toBroker[i].type = "PUBACK" /\ unacked[toBroker[i].id] # NoMessage /\ ~lost =>
      unacked[toBroker[i].id] \in handed

\* In the end, what the box keeps gets to the broker and is acknowledged, and what the
\* broker publishes gets to mqtt_rx_messege.  The acknowledgement of a command may wait
\* for the next session: one that fails during the wait for a SUBACK is not repeated.
Delivered ==
  /\ \A m \in Messages : steady /\ m \in Held ~> m \notin Held
  /\ \A b \in BrokerIds, c \in Commands : steady /\ unacked[b] = c ~> c \in handed \/ lost

\* The outbox implements Delivery: a message that PublishToTopic has accepted is kept until
\* the broker has answered a packet of it, and of no other message; as long as freed memory
\* is intact, with the message in it.
Outbox == INSTANCE Delivery WITH pending <- Held
KeepsItsPromise == Outbox!DeliverySpec
=============================================================================

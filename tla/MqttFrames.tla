----------------------------- MODULE MqttFrames -----------------------------
(***************************************************************************)
(* How packets come out of the stream of a TLS connection: the CONNACK,    *)
(* which is read byte by byte, the network buffer, which may hold a piece  *)
(* of a packet or several of them, and the packet that is too large for it *)
(* (coreMQTT/source/core_mqtt.c).  MqttSession takes packets whole and in  *)
(* order; this module shows when it may.                                   *)
(***************************************************************************)
EXTENDS Integers, Sequences

CONSTANTS
  BufferSize, \* CONFIG_MQTT_NETWORK_BUFFER_SIZE
  OnTheWay,   \* bound: what the broker may have sent and the box not read
  Frames      \* bound: the packets of a session are numbered, modulo this

\* A fixed header of two bytes, or of three from 128 bytes on; and what it announces.  The
\* largest packet that fits, and the smallest that does not.
Kinds == {"connack", "pingresp", "publish", "large"}
HeaderLength(kind) == IF kind = "large" THEN 3 ELSE 2
PacketLength(kind) ==
  HeaderLength(kind) + CASE kind = "connack" -> 2 [] kind = "pingresp" -> 0
                         [] kind = "publish" -> BufferSize - 2 [] kind = "large" -> BufferSize - 2

ASSUME FramesAssumption ==
  BufferSize \in Nat \ 0..4 /\ OnTheWay \in Nat \ {0} /\ Frames \in Nat \ {0, 1}

Byte == [frame : 0..Frames - 1, kind : Kinds, at : Nat \ {0}]

VARIABLES
  stream,     \* what the broker has sent in this connection, and the box not read
  framesOut,  \* the number of its next packet
  buffer,     \* pBuffer, up to index
  toDiscard,  \* what discardStoredPacket has still to read
  loopAt,     \* what the process loop is called for
  handled,    \* the packet that has just been handled
  framesIn,   \* the number of the next packet to come
  torn        \* a piece was left in the stream, and the session went on

framesVars == <<stream, framesOut, buffer, toDiscard, loopAt, handled, framesIn, torn>>

FramesTypeOK ==
  /\ {stream, buffer, handled} \subseteq Seq(Byte)
  /\ Len(stream) <= OnTheWay /\ Len(buffer) <= BufferSize
  /\ {framesOut, framesIn} \subseteq 0..Frames - 1 /\ toDiscard \in 0..BufferSize + 1
  /\ loopAt \in {"connack", "subscribe", "service", "ended"} /\ torn \in BOOLEAN

FramesInit ==
  /\ stream = <<>> /\ framesOut = 0 /\ buffer = <<>> /\ toDiscard = 0
  /\ loopAt = "connack" /\ handled = <<>> /\ framesIn = 0 /\ torn = FALSE

-----------------------------------------------------------------------------
\* CONNACK is the first packet of a session.
BrokerSendsFrame(kind) ==
  /\ IF loopAt = "connack" THEN framesOut = 0 => kind = "connack" ELSE loopAt # "ended"
  /\ kind = "connack" => loopAt = "connack" /\ framesOut = 0
  /\ Len(stream) + PacketLength(kind) <= OnTheWay
  /\ stream' = stream \o [k \in 1..PacketLength(kind) |-> [frame |-> framesOut, kind |-> kind, at |-> k]]
  /\ framesOut' = (framesOut + 1) % Frames
  /\ handled' = <<>>
  /\ UNCHANGED <<buffer, toDiscard, loopAt, framesIn, torn>>

\* EstablishMqttSession: MQTT_Init clears the context, and the connection is a new one.
NewSession ==
  /\ loopAt = "ended" /\ loopAt' = "connack"
  /\ stream' = <<>> /\ framesOut' = 0 /\ framesIn' = 0
  /\ buffer' = <<>> /\ toDiscard' = 0 /\ torn' = FALSE /\ handled' = <<>>

-----------------------------------------------------------------------------
(* receiveConnack: MQTT_GetIncomingPacketTypeAndLength, receivePacket,       *)
(* handleSessionResumption                                                   *)

FirstFrame(kind) == Len(stream) >= PacketLength(kind) /\ stream[1].kind = kind

ReceiveConnack ==
  /\ loopAt = "connack" /\ FirstFrame("connack")
  /\ handled' = SubSeq(stream, 1, PacketLength("connack"))
  /\ stream' = SubSeq(stream, PacketLength("connack") + 1, Len(stream))
  /\ framesIn' = (framesIn + 1) % Frames
  /\ buffer' = <<>> /\ loopAt' = "subscribe"
  /\ UNCHANGED <<framesOut, toDiscard, torn>>

\* It does not come, not in time, not whole, or says no.
ReceiveConnackFails ==
  /\ loopAt = "connack" /\ loopAt' = "ended" /\ handled' = <<>>
  /\ UNCHANGED <<stream, framesOut, buffer, toDiscard, framesIn, torn>>

-----------------------------------------------------------------------------
(* receiveSingleIteration *)

Looping == loopAt \in {"subscribe", "service"} /\ toDiscard = 0

\* waitForPacketAck gives up, SubscribeToTopic too, and mqtt_subscribe_init goes on with
\* the next topic.  In the service loop, the session ends.
LoopEnds == loopAt' = IF loopAt = "service" THEN "ended" ELSE loopAt

\* mqtt_subscribe_init returns.
Subscribed ==
  /\ Looping /\ loopAt = "subscribe" /\ loopAt' = "service" /\ handled' = <<>>
  /\ UNCHANGED <<stream, framesOut, buffer, toDiscard, framesIn, torn>>

\* The kinds that the first byte and what follows it may be taken for.  In the middle of
\* a packet, that is any.
TakenFor(b) == IF b = <<>> THEN {} ELSE IF b[1].at = 1 THEN {b[1].kind} ELSE Kinds

\* MQTT_ProcessIncomingPacketTypeAndLength
HeaderIsIn(b, kind) == Len(b) >= HeaderLength(kind)

\* Mutant: what has been read of it counts once more.
RemainingLengthOfAll(b, kind) == PacketLength(kind)

\* What is left in the stream of a packet that is larger than the buffer
RemainingLength(b, kind) == PacketLength(kind) - Len(b)

Process(b, kind) ==
  \/ /\ \/ ~HeaderIsIn(b, kind)
        \/ Len(b) < PacketLength(kind) /\ PacketLength(kind) <= BufferSize
     /\ buffer' = b /\ handled' = <<>> /\ UNCHANGED <<toDiscard, framesIn>>
  \/ /\ HeaderIsIn(b, kind) /\ PacketLength(kind) > BufferSize
     /\ toDiscard' = RemainingLength(b, kind) /\ buffer' = b
     /\ handled' = <<>> /\ UNCHANGED framesIn
  \/ /\ HeaderIsIn(b, kind) /\ Len(b) >= PacketLength(kind) /\ PacketLength(kind) <= BufferSize
     /\ handled' = SubSeq(b, 1, PacketLength(kind))
     /\ buffer' = SubSeq(b, PacketLength(kind) + 1, Len(b))
     /\ framesIn' = (framesIn + 1) % Frames /\ UNCHANGED toDiscard

\* len is 0 when nothing comes before the time-out.
ReceiveIteration(len) ==
  /\ Looping /\ len <= Len(stream) /\ len <= BufferSize - Len(buffer)
  /\ stream' = SubSeq(stream, len + 1, Len(stream))
  /\ LET b == buffer \o SubSeq(stream, 1, len)
     IN \E kind \in TakenFor(b) : Process(b, kind)
  /\ UNCHANGED <<framesOut, loopAt, torn>>

\* The connection breaks, or an acknowledgement or PINGREQ cannot be sent.
IterationFails ==
  /\ Looping /\ LoopEnds /\ handled' = <<>>
  /\ UNCHANGED <<stream, framesOut, buffer, toDiscard, framesIn, torn>>

\* In the middle of a packet, the first byte may be no type of a packet.
BadResponse(len) ==
  /\ Looping /\ len <= Len(stream) /\ len <= BufferSize - Len(buffer)
  /\ LET b == buffer \o SubSeq(stream, 1, len)
     IN b # <<>> /\ b[1].at # 1 /\ buffer' = b
  /\ stream' = SubSeq(stream, len + 1, Len(stream))
  /\ LoopEnds /\ handled' = <<>>
  /\ UNCHANGED <<framesOut, toDiscard, framesIn, torn>>

\* discardStoredPacket, with recvExact
Discard(len) ==
  /\ toDiscard > 0 /\ len \in 1..toDiscard /\ len <= Len(stream)
  /\ stream' = SubSeq(stream, len + 1, Len(stream))
  /\ toDiscard' = toDiscard - len
  /\ IF toDiscard' = 0 THEN buffer' = <<>> /\ framesIn' = (framesIn + 1) % Frames
     ELSE UNCHANGED <<buffer, framesIn>>
  /\ handled' = <<>>
  /\ UNCHANGED <<framesOut, loopAt, torn>>

\* Nothing for MQTT_RECV_POLLING_TIMEOUT_MS, or an error: the index is reset all the same.
DiscardFails ==
  /\ toDiscard > 0 /\ toDiscard' = 0 /\ buffer' = <<>>
  /\ torn' = (loopAt = "subscribe")
  /\ LoopEnds /\ handled' = <<>>
  /\ UNCHANGED <<stream, framesOut, framesIn>>

-----------------------------------------------------------------------------
FramesNext ==
  \/ \E kind \in Kinds : BrokerSendsFrame(kind)
  \/ NewSession \/ ReceiveConnack \/ ReceiveConnackFails \/ Subscribed
  \/ \E len \in 0..BufferSize : ReceiveIteration(len) \/ BadResponse(len) \/ Discard(len)
  \/ IterationFails \/ DiscardFails

FramesSpec == FramesInit /\ [][FramesNext]_framesVars

-----------------------------------------------------------------------------
(* Properties *)

\* What handleIncomingPublish and handleIncomingAck get is a packet of the broker, whole,
\* and the next one: however the stream is cut into reads, whatever the buffer had left of
\* the last session, and whatever was too large before it.  And the buffer never fills up
\* with something that cannot be handled, after which recv would be asked for no bytes for
\* ever.  (A packet that could not be discarded to its end while the box subscribes leaves
\* the stream torn: the error is not looked at, and the session goes on.)
FramesAreWhole ==
  torn \/ /\ Len(buffer) = BufferSize => toDiscard > 0
          /\ handled # <<>> =>
               /\ (handled[1].frame + 1) % Frames = framesIn
               /\ Len(handled) = PacketLength(handled[1].kind)
               /\ \A k \in DOMAIN handled : handled[k] = [handled[1] EXCEPT !.at = k]
=============================================================================

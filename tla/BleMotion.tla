------------------------------ MODULE BleMotion ------------------------------
(***************************************************************************)
(* The transfer of the motion points of a cat's tracker over BLE           *)
(* (main/ble/): the box asks for them, periodically and after a time-out,  *)
(* counts the packets of PerPacket points and acknowledges the last.  The  *)
(* tracker and the link are the environment.                               *)
(***************************************************************************)
EXTENDS Integers, Sequences

CONSTANTS
  PerPacket, \* points in a MOTION_DATA packet (9)
  MaxPoints, \* how many the tracker has, at most
  RxQueue,   \* length of ble_rx_queue
  TxQueue    \* length of ble_tx_queue

ASSUME BleAssumption == {PerPacket, MaxPoints, RxQueue, TxQueue} \subseteq Nat \ {0}

VARIABLES
  linked,    \* is_phone_connected and Motion_Send_enable
  txQueue,   \* ble_tx_queue: requests and acknowledgements
  rxQueue,   \* ble_rx_queue
  expected,  \* total_count
  counted,   \* input_count
  motionTimer, \* Motion_Timeout_timer is active
  points,    \* what the tracker has not had acknowledged
  air,       \* what it has yet to send: a start, then packets
  ackOf,     \* the sequence number that the last packet has made the box acknowledge, or 0
  heard,     \* the last start that was sent has not been dropped
  orphans,   \* packets whose start has been dropped have been counted
  full       \* the last message found ble_rx_queue full

bleBox  == <<txQueue, expected, counted, motionTimer, ackOf, orphans>>
bleVars == <<linked, rxQueue, bleBox, points, air, heard, full>>

Packets(n) == (n + PerPacket - 1) \div PerPacket

\* total_count: a multiple of PerPacket is rounded up as well.
Rounded(n) == n + (PerPacket - (n % PerPacket))

\* Only whether the count is the expected one matters, so it stops above all of them.
MaxCount == Rounded(MaxPoints) + PerPacket

Messages ==
  [start : {TRUE}, of : 0..MaxPoints, orphan : {FALSE}]
    \cup [start : {FALSE}, of : 1..Packets(MaxPoints), orphan : BOOLEAN]

BleTypeOK ==
  /\ {linked, motionTimer, heard, orphans, full} \subseteq BOOLEAN
  /\ txQueue \in Seq({"request", "ack"}) /\ Len(txQueue) <= TxQueue
  /\ rxQueue \in Seq(Messages) /\ Len(rxQueue) <= RxQueue
  /\ {expected, counted} \subseteq 0..MaxCount
  /\ points \in 0..MaxPoints
  /\ air \in Seq(Messages) /\ ackOf \in 0..Packets(MaxPoints)

BleInit ==
  /\ linked = FALSE /\ txQueue = <<>> /\ rxQueue = <<>> /\ expected = 0 /\ counted = 0
  /\ motionTimer = FALSE /\ points = 0 /\ air = <<>> /\ ackOf = 0 /\ heard = TRUE
  /\ orphans = FALSE /\ full = FALSE

-----------------------------------------------------------------------------
(* The box *)

\* ble_send_data_to_queue drops what finds the queue full.
SendToQueue(message) ==
  txQueue' = IF Len(txQueue) < TxQueue THEN Append(txQueue, message) ELSE txQueue

\* Mutant: the count goes on from the transfer that was broken off.
StartResponseGoesOn(n) ==
  /\ IF n = 0 THEN UNCHANGED <<expected, motionTimer, orphans>>
     ELSE expected' = Rounded(n) /\ motionTimer' = TRUE /\ orphans' = FALSE
  /\ ackOf' = 0 /\ UNCHANGED <<txQueue, counted>>

\* MOTION_START_RESPONSE
StartResponse(n) ==
  /\ IF n = 0 THEN UNCHANGED <<expected, counted, motionTimer, orphans>>
     ELSE expected' = Rounded(n) /\ counted' = 0 /\ motionTimer' = TRUE /\ orphans' = FALSE
  /\ ackOf' = 0 /\ UNCHANGED txQueue

\* Mutant: the last packet is one too late.
MotionDataLate(seq) ==
  /\ counted' = IF counted + PerPacket > MaxCount THEN counted ELSE counted + PerPacket
  /\ IF counted = expected THEN SendToQueue("ack") /\ ackOf' = seq /\ UNCHANGED motionTimer
     ELSE motionTimer' = TRUE /\ ackOf' = 0 /\ UNCHANGED txQueue
  /\ UNCHANGED expected

\* MOTION_DATA; the timer goes on when the last one is acknowledged.
MotionData(seq) ==
  /\ counted' = IF counted + PerPacket > MaxCount THEN counted ELSE counted + PerPacket
  /\ IF counted' = expected THEN SendToQueue("ack") /\ ackOf' = seq /\ UNCHANGED motionTimer
     ELSE motionTimer' = TRUE /\ ackOf' = 0 /\ UNCHANGED txQueue
  /\ UNCHANGED expected

\* ble_rx_processing_task
ReceiveData ==
  /\ rxQueue # <<>> /\ rxQueue' = Tail(rxQueue)
  /\ LET m == Head(rxQueue) IN 
     IF m.start THEN StartResponse(m.of)
     ELSE MotionData(m.of) /\ orphans' = (orphans \/ m.orphan)
  /\ UNCHANGED <<linked, points, air, heard, full>>

\* Motion_Timeout_callback, 5 s after the last packet that armed the timer
MotionTimeout ==
  /\ motionTimer /\ air = <<>>
  /\ motionTimer' = FALSE /\ SendToQueue("request")
  /\ UNCHANGED <<linked, rxQueue, expected, counted, ackOf, orphans, points, air, heard, full>>

\* vTrackerCaptureTask, every motion_data_time seconds
CaptureTick ==
  /\ linked /\ air = <<>> /\ "request" \notin {txQueue[i] : i \in 1..Len(txQueue)}
  /\ SendToQueue("request")
  /\ UNCHANGED <<linked, rxQueue, expected, counted, motionTimer, ackOf, orphans, points, air, heard, full>>

\* The tracker's answer to a request
Answer ==
  <<[start |-> TRUE, of |-> points, orphan |-> FALSE]>>
    \o [i \in 1..Packets(points) |-> [start |-> FALSE, of |-> i, orphan |-> FALSE]]

\* ble_tx_processing_task; what nobody is linked to take is thrown away.
TransmitData ==
  /\ txQueue # <<>> /\ txQueue' = Tail(txQueue)
  /\ points' = IF linked /\ Head(txQueue) = "ack" THEN 0 ELSE points
  /\ air' = IF linked /\ Head(txQueue) = "request" THEN Answer ELSE air
  /\ UNCHANGED <<linked, rxQueue, expected, counted, motionTimer, ackOf, orphans, heard, full>>

\* ble_spp_server_gap_event: connect and disconnect
Link ==
  /\ linked' = ~linked /\ air' = <<>> /\ ackOf' = 0
  /\ heard' = (heard /\ ~\E i \in 1..Len(air) : air[i].start)
  /\ UNCHANGED <<rxQueue, txQueue, expected, counted, motionTimer, orphans, points, full>>

-----------------------------------------------------------------------------
(* The tracker, external; ble_svc_gatt_handler drops what finds the queue full *)

AirDelivers ==
  /\ air # <<>> /\ air' = Tail(air)
  /\ full' = (Len(rxQueue) = RxQueue)
  /\ rxQueue' = IF full' THEN rxQueue
                ELSE Append(rxQueue, [Head(air) EXCEPT !.orphan = ~Head(air).start /\ ~heard])
  /\ heard' = IF Head(air).start THEN ~full' ELSE heard
  /\ UNCHANGED <<linked, bleBox, points>>

Collect(n) ==
  /\ points = 0 /\ points' = n
  /\ UNCHANGED <<linked, rxQueue, bleBox, air, heard, full>>

BleWork == ReceiveData \/ MotionTimeout \/ CaptureTick \/ TransmitData \/ AirDelivers

BleNext == BleWork \/ Link \/ \E n \in 1..MaxPoints : Collect(n)

BleSpec     == BleInit /\ [][BleNext]_bleVars
BleFairness ==
  /\ WF_bleVars(ReceiveData) /\ WF_bleVars(MotionTimeout \/ CaptureTick)
  /\ WF_bleVars(TransmitData) /\ WF_bleVars(AirDelivers)
BleFairSpec == BleSpec /\ BleFairness

-----------------------------------------------------------------------------
(* Properties *)

\* What is acknowledged is the last packet of a transfer whose start was received: a
\* broken transfer does not count for the next one.
AckedIsLast == ackOf # 0 /\ ~orphans => ackOf * PerPacket >= expected

\* A transfer ends while the tracker stays and the queues have room, but for a number of
\* points that PerPacket divides: total_count is then one packet too many.
TransferEnds ==
  <>[](linked /\ ~full /\ Len(txQueue) < TxQueue) =>
    (points % PerPacket # 0 ~> points = 0)
=============================================================================

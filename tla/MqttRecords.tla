---------------------------- MODULE MqttRecords ----------------------------
(***************************************************************************)
(* The publish records of coreMQTT (core_mqtt_state.c): two arrays, one of *)
(* outgoing and one of incoming publishes, searched by packet id.  Deleted *)
(* records leave holes, which are closed when the last place is taken.     *)
(* All publishes of the box and all its subscriptions are of QoS 1; the    *)
(* states of QoS 2 are left out.                                           *)
(***************************************************************************)
EXTENDS Naturals, Sequences, FiniteSets

NoId   == 0  \* MQTT_PACKET_ID_INVALID
Empty  == [id |-> NoId, state |-> "Null"]
States == {"Null", "PublishSend", "PubAckPending", "PubAckSend", "PublishDone"}

NoRecords(n) == [i \in 1..n |-> Empty]

Places(a) == {i \in DOMAIN a : a[i].id # NoId}

\* What is in the used places, in their order
Used(a) ==
  [k \in 1..Cardinality(Places(a)) |->
     a[CHOOSE i \in Places(a) : Cardinality({j \in Places(a) : j <= i}) = k]]

\* findInRecord; 0 is MQTT_INVALID_STATE_COUNT
FindInRecord(a, id) ==
  IF \E i \in DOMAIN a : a[i].id = id THEN CHOOSE i \in DOMAIN a : a[i].id = id ELSE 0

StateOf(a, id) ==
  LET i == FindInRecord(a, id) IN IF i = 0 THEN "Null" ELSE a[i].state

CompactRecords(a) == Used(a) \o NoRecords(Len(a) - Len(Used(a)))

\* The search for a free place runs from the end and stops at the last record.
AddRecord(a, id, state) ==
  LET c == IF Len(a) \in Places(a) THEN CompactRecords(a) ELSE a
      status == IF FindInRecord(c, id) # 0 THEN "StateCollision"
                ELSE IF Len(c) \in Places(c) THEN "NoMemory" ELSE "Success"
      free == CHOOSE i \in 1..Len(c) : i - 1 \in Places(c) \cup {0} /\ \A j \in Places(c) : j < i
  IN [status |-> status,
      records |-> IF status = "Success" THEN [c EXCEPT ![free] = [id |-> id, state |-> state]]
                  ELSE c]

\* updateRecord, with shouldDelete for a publish that is done
UpdateRecord(a, i, state) ==
  [a EXCEPT ![i] = IF state = "PublishDone" THEN Empty ELSE [@ EXCEPT !.state = state]]

CalculateStatePublish(op) == IF op = "SEND" THEN "PubAckPending" ELSE "PubAckSend"

ValidateTransitionPublish(current, new, op) ==
  \/ current = "Null" /\ op = "RECEIVE" /\ new = "PubAckSend"
  \/ current = "PublishSend" /\ new = "PubAckPending"
  \/ current = "PubAckPending" /\ new = "PubAckPending"

ValidateTransitionAck(current, new) ==
  current \in {"PubAckSend", "PubAckPending"} /\ new = "PublishDone"

\* Mutant: the record of a publish that could not be sent is taken for a sent one.
ReserveStateReuses(a, id) ==
  LET added == AddRecord(a, id, "PublishSend")
  IN IF added.status = "StateCollision" THEN [added EXCEPT !.status = "Success"] ELSE added

\* MQTT_ReserveState
ReserveState(a, id) == AddRecord(a, id, "PublishSend")

\* MQTT_UpdateStatePublish: a received publish gets a record, a sent one has it.
UpdateStatePublish(a, id, op) ==
  LET i   == FindInRecord(a, id)
      new == CalculateStatePublish(op)
  IN IF op = "RECEIVE" THEN AddRecord(a, id, new)
     ELSE IF i = 0 THEN [status |-> "BadParameter", records |-> a]
     ELSE IF ~ValidateTransitionPublish(a[i].state, new, op)
     THEN [status |-> "IllegalState", records |-> a]
     ELSE [status |-> "Success", records |-> UpdateRecord(a, i, new)]

\* MQTT_UpdateStateAck for a PUBACK
UpdateStateAck(a, id) ==
  LET i == FindInRecord(a, id)
  IN IF i = 0 THEN [status |-> "BadResponse", records |-> a]
     ELSE IF ~ValidateTransitionAck(a[i].state, "PublishDone")
     THEN [status |-> "IllegalState", records |-> a]
     ELSE [status |-> "Success", records |-> UpdateRecord(a, i, "PublishDone")]
=============================================================================

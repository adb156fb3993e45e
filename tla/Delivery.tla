------------------------------ MODULE Delivery ------------------------------
(***************************************************************************)
(* What the outbox of the MQTT client promises: a message it has accepted  *)
(* is kept until a packet of it has got to the broker, with the message in *)
(* it as it was published, or else what freed memory made of it.  The only *)
(* other way out is the loss of the session, at the broker or with the     *)
(* memory of the box.                                                      *)
(***************************************************************************)
EXTENDS FiniteSets

CONSTANTS
  Messages,
  Garbage, \* what freed memory made of a message
  Intact   \* freed memory makes nothing of them

VARIABLES
  pending, \* accepted and kept
  reached, \* the pairs of one of them and of what the broker has got for it
  lost     \* the session is lost, and the client has not taken note of it

delivery == <<pending, reached, lost>>

DeliveryInit == pending = {} /\ reached = {} /\ lost = TRUE

Accept(m) ==
  /\ m \notin pending
  /\ pending' = pending \cup {m}
  /\ UNCHANGED <<reached, lost>>

Reach(m, content) ==
  /\ m \in pending
  /\ content = m \/ (content = Garbage /\ ~Intact)
  /\ reached' = reached \cup {<<m, content>>}
  /\ UNCHANGED <<pending, lost>>

Done(m) ==
  /\ \E r \in reached : r[1] = m
  /\ pending' = pending \ {m}
  /\ reached' = {r \in reached : r[1] # m}
  /\ UNCHANGED lost

Lose == lost' = TRUE /\ UNCHANGED <<pending, reached>>

Forget == lost /\ pending' = {} /\ reached' = {} /\ lost' \in BOOLEAN

Crash == pending' = {} /\ reached' = {} /\ lost' = TRUE

DeliveryNext ==
  \/ \E m \in Messages : Accept(m) \/ Done(m) \/ \E c \in Messages \cup {Garbage} : Reach(m, c)
  \/ Lose \/ Forget \/ Crash

DeliverySpec == DeliveryInit /\ [][DeliveryNext]_delivery
=============================================================================

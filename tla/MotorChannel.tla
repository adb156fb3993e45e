---------------------------- MODULE MotorChannel ----------------------------
(***************************************************************************)
(* The five motors of the litter box and the FreeRTOS queue in front of    *)
(* each one (main/dc_motor_control.c, main/step_motor_control.c).          *)
(*                                                                         *)
(* Whoever wants a motor to move posts a direction on its queue; the       *)
(* motor's command task takes one message at a time, drives the motor and  *)
(* records it in the run and direction flags that the rest of the firmware *)
(* polls.  The covers and the scoop slide stop by themselves at the photo  *)
(* sensor that matches their direction; the two steppers also stop when    *)
(* their step count is used up.                                            *)
(***************************************************************************)
EXTENDS Integers, Sequences, FiniteSets

CONSTANTS
  QueueLength,  \* xQueueCreate(10, ...): the length of every motor queue
  Rests         \* where the parts may be when the power comes on

Motors     == {"plate", "main", "scoop", "waste", "spin"}
Sliders    == {"main", "scoop", "waste"}   \* a limit sensor at each end
Steppers   == {"waste", "spin"}            \* driven for a number of steps
Motions    == {"FORWARD", "REVERSE"}
Directions == Motions \cup {"STOP"}

\* What get_pt_status reports about a motor: pt_check's 1, 0, -1 for a slider,
\* the SCP_SPIN_ST bit for the scoop spindle, nothing for the plate.
Places(m) == CASE m \in Sliders -> {"open", "mid", "close"}
               [] m = "spin"    -> {"on", "off"}
               [] OTHER         -> {"none"}

Positions == {"open", "mid", "close", "on", "off", "none"}

ASSUME ChannelAssumption ==
  /\ QueueLength \in Nat \ {0}
  /\ \A p \in Rests : p \in [Motors -> Positions] /\ \A m \in Motors : p[m] \in Places(m)

VARIABLES
  queue,      \* [Motors -> Seq(Directions)], the message queues
  motion,     \* [Motors -> Directions], the run flag and, while set, the direction flag
  place,      \* what the photo sensors report of each motor
  energised   \* the enable pins of the spindle driver (PIN_DRV_EN, PIN_DRV_NSLEEP)

channel == <<queue, motion, place, energised>>

ChannelTypeOK ==
  /\ queue \in [Motors -> Seq(Directions)]
  /\ \A m \in Motors : Len(queue[m]) <= QueueLength
  /\ motion \in [Motors -> Directions]
  /\ place \in [Motors -> Positions]
  /\ energised \in BOOLEAN

\* dc_motor_init and step_motor_init: empty queues, nothing runs; the parts are
\* wherever the last power cut left them.
ChannelInit ==
  /\ queue = [m \in Motors |-> <<>>]
  /\ motion = [m \in Motors |-> "STOP"]
  /\ place \in Rests
  /\ energised = FALSE

-----------------------------------------------------------------------------
\* xQueueSend(..., 100 ms) of the send_*_msg functions, for each motor of ms:
\* a message that finds its queue full is dropped, and nobody is told.
Posted(ms, d) ==
  [m \in Motors |-> IF m \in ms /\ Len(queue[m]) < QueueLength
                    THEN Append(queue[m], d) ELSE queue[m]]

\* Every message posted so far has been taken by its command task.
Drained == \A m \in Motors : queue[m] = <<>>

AllStopped == \A m \in Motors : motion[m] = "STOP"

\* The limit sensor that ends a motion in direction d.
EndStop(d) == IF d = "FORWARD" THEN "open" ELSE "close"

(***************************************************************************)
(* One message of a command task.  hold is check_spin_mt_on(): the spindle *)
(* driver is not switched off between two moves.  scpspin_stop returns     *)
(* before it touches the driver when the spindle is not running.           *)
(***************************************************************************)
Handle(m, hold) ==
  /\ queue[m] # <<>>
  /\ queue' = [queue EXCEPT ![m] = Tail(@)]
  /\ motion' = [motion EXCEPT ![m] = Head(queue[m])]
  /\ energised' = (IF m # "spin" THEN energised
                   ELSE \/ Head(queue[m]) # "STOP"
                        \/ energised /\ (hold \/ motion[m] = "STOP"))
  /\ UNCHANGED place

\* The check after each receive: a slider that has reached the sensor of its
\* direction is stopped by its own command task.
AutoStop(m) ==
  /\ m \in Sliders
  /\ motion[m] # "STOP"
  /\ place[m] = EndStop(motion[m])
  /\ motion' = [motion EXCEPT ![m] = "STOP"]
  /\ UNCHANGED <<queue, place, energised>>

\* The last step of a stepper move: the waste cover's timer callback or the
\* spindle's MCPWM interrupt.
StepsDone(m, hold) ==
  /\ m \in Steppers
  /\ motion[m] # "STOP"
  /\ motion' = [motion EXCEPT ![m] = "STOP"]
  /\ energised' = (energised /\ (m = "spin" => hold))
  /\ UNCHANGED <<queue, place>>

\* The mechanism and the sensor board, as the firmware sees them: a part moves
\* only while its motor runs, a slider one place at a time towards its end
\* stop; the spindle's start slot comes and goes.  A jammed part never moves.
SlidTo(m) == IF place[m] = "mid" THEN EndStop(motion[m]) ELSE "mid"
TurnedTo(m) == IF place[m] = "on" THEN "off" ELSE "on"

Travel(m) ==
  /\ motion[m] # "STOP"
  /\ \/ /\ m \in Sliders
        /\ place[m] # EndStop(motion[m])
        /\ place' = [place EXCEPT ![m] = SlidTo(m)]
     \/ /\ m = "spin"
        /\ place' = [place EXCEPT ![m] = TurnedTo(m)]
  /\ UNCHANGED <<queue, motion, energised>>

\* What the motors do by themselves.
MotorStep(m, hold) ==
  Handle(m, hold) \/ AutoStop(m) \/ StepsDone(m, hold) \/ Travel(m)
=============================================================================

------------------------------- MODULE LedShow -------------------------------
(***************************************************************************)
(* The light of the box (main/led.c): led_task stores the mode that a      *)
(* command asks for, and led_process_task shows it, stage by stage, and    *)
(* stores what comes next.  The mutex is held for each store alone, so a   *)
(* command may be stored between what led_process_task has read and what   *)
(* it stores.                                                              *)
(***************************************************************************)
EXTENDS Naturals, Sequences

CONSTANT LedQueue \* length of led_cmd_msg

ASSUME LedAssumption == LedQueue \in Nat \ {0}

\* What each mode shows, stage by stage.  CLEANING and MANAGE are animations.
Lights ==
  [NORMAL |-> <<"white">>, INUSE |-> <<"green">>, BINFULL |-> <<"red">>,
   INITOK |-> <<"white", "off">>, LOCK |-> <<"red", "off">>, UNLOCK |-> <<"white">>,
   INVALID |-> <<"red", "off", "red", "off">>,
   QCQUIT |-> <<"green", "off", "green", "off", "green">>,
   CLEANING |-> <<"blue">>, MANAGE |-> <<"yellow">>,
   PAIRING |-> <<"blue", "red">>, ERROR |-> <<"red", "off">>,
   QCMODE |-> <<"white", "off">>, PAUSE |-> <<"yellow", "off">>]

Shows     == DOMAIN Lights
AtOnce    == {"NORMAL", "INUSE", "BINFULL"}
Animation == {"CLEANING", "MANAGE"}

\* Mutant: the error goes out after one flash.
RepeatingButError == {"PAIRING", "QCMODE", "PAUSE"}

Repeating == {"PAIRING", "ERROR", "QCMODE", "PAUSE"}

Mode(show, stage) == [show |-> show, stage |-> stage]
IdleMode  == Mode("IDLE", 0)
NoMode    == Mode("none", 0)
LedModes  == {IdleMode} \cup UNION {{Mode(s, k) : k \in 0..Len(Lights[s])} : s \in Shows}

VARIABLES
  ledQueue,  \* led_cmd_msg
  ledMode,   \* led_mode
  light,     \* what the strip shows
  following, \* the mode that led_process_task is about to store, or NoMode
  told,      \* the mode that led_task has stored last
  overtaken  \* it did so while led_process_task was about to store another

ledVars == <<ledQueue, ledMode, light, following, told, overtaken>>

LedTypeOK ==
  /\ ledQueue \in Seq(Shows) /\ Len(ledQueue) <= LedQueue
  /\ ledMode \in LedModes /\ following \in LedModes \cup {NoMode}
  /\ light \in {"off", "white", "red", "green", "blue", "yellow"}
  /\ told \in Shows \cup {"none"} /\ overtaken \in BOOLEAN

LedInit ==
  /\ ledQueue = <<>> /\ ledMode = IdleMode /\ light = "off" /\ following = NoMode
  /\ told = "none" /\ overtaken = FALSE

-----------------------------------------------------------------------------
\* send_led_cmd_msg gives up, after a while, what finds the queue full.
SendLed(show) ==
  /\ Len(ledQueue) < LedQueue /\ ledQueue' = Append(ledQueue, show)
  /\ UNCHANGED <<ledMode, light, following, told, overtaken>>

\* led_task
LedTask ==
  /\ ledQueue # <<>> /\ ledQueue' = Tail(ledQueue)
  /\ ledMode' = Mode(Head(ledQueue), 0) /\ told' = Head(ledQueue)
  /\ overtaken' = (following # NoMode)
  /\ UNCHANGED <<light, following>>

\* The first stage of UNLOCK goes on with the second one of LOCK.
After(m) ==
  IF m.show \in AtOnce THEN IdleMode
  ELSE IF m.show \in Animation THEN Mode(m.show, 1)
  ELSE IF m.show = "UNLOCK" THEN Mode("LOCK", 1)
  ELSE IF m.stage < Len(Lights[m.show]) THEN Mode(m.show, m.stage + 1)
  ELSE IF m.show \in Repeating THEN Mode(m.show, 0)
  ELSE IdleMode

\* What QCQUIT ends with is white; the others leave what the last stage shows.
Drawn(m) ==
  IF m.stage < Len(Lights[m.show]) THEN Lights[m.show][m.stage + 1]
  ELSE IF m.show = "QCQUIT" THEN "white" ELSE light

\* A turn of led_process_task whose stage is over: it draws,
ShowStage ==
  /\ following = NoMode /\ ledMode # IdleMode
  /\ light' = Drawn(ledMode) /\ following' = After(ledMode)
  /\ UNCHANGED <<ledQueue, ledMode, told, overtaken>>

\* and stores what comes next.
SetOpmode ==
  /\ following # NoMode
  /\ ledMode' = following /\ following' = NoMode
  /\ UNCHANGED <<ledQueue, light, told, overtaken>>

LedNext == (\E show \in Shows : SendLed(show)) \/ LedTask \/ ShowStage \/ SetOpmode

LedSpec == LedInit /\ [][LedNext]_ledVars

-----------------------------------------------------------------------------
(* Properties *)

EndsWith(show) ==
  IF show = "UNLOCK" THEN "off" ELSE IF show = "QCQUIT" THEN "white" ELSE Lights[show][Len(Lights[show])]

\* A command that was not overtaken is shown: an error, a pause or a pairing until the
\* next command, and any other until its light is the one that it ends with.
LastCommandShown ==
  told # "none" /\ ~overtaken =>
    /\ told \in {"PAIRING", "ERROR", "QCMODE", "PAUSE"} \cup Animation => ledMode.show = told
    /\ ledMode = IdleMode => light = EndsWith(told)
=============================================================================

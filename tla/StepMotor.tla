------------------------------ MODULE StepMotor ------------------------------
(***************************************************************************)
(* The two step motors (main/step_motor_control.c) statement by statement. *)
(* The command task of a motor, on core 1, shares the run flag, the step   *)
(* count, the pulse timer and the driver's enable pin with whoever counts  *)
(* the pulses on core 0: the esp_timer callback of the waste cover, the    *)
(* MCPWM interrupt of the scoop spindle.  There is no lock.                *)
(*                                                                         *)
(* Channel states what module Scenario relies on instead: that a message,  *)
(* an automatic stop and a last step are each one step of MotorChannel.    *)
(***************************************************************************)
EXTENDS Integers, Sequences

CONSTANTS
  QueueLength, \* of waste_motor_msg and scpspin_motor_msg
  Steps,       \* the pulses of the longest motion
  Together     \* the sets of motors that may get messages in one behaviour

Steppers == {"waste", "spin"}
Motions  == {"FORWARD", "REVERSE"}

ASSUME StepAssumption ==
  /\ QueueLength \in Nat \ {0} /\ Steps \in Nat \ {0}
  /\ Together \subseteq SUBSET Steppers

VARIABLES
  queue,   \* [Steppers -> Seq(directions)]
  task,    \* where the command task of a motor is
  msg,     \* the direction of the message in its hand; "auto" for the automatic stop
  run,     \* waste_motor_run, scpspin_motor_run
  dir,     \* waste_motor_dir, scpspin_motor_dir
  left,    \* waste_motor_steps, scpspin_steps - scpspin_cnt
  timer,   \* the pulse timer: "on", "off", or "stopping" until the end of its period
  driver,  \* WASTE_EN; PIN_DRV_EN with PIN_DRV_NSLEEP
  isr,     \* where the callback or the interrupt is
  hold,    \* spin_mt_always_on
  held,    \* what check_spin_mt_on has told everybody who asked since the motion began
  place,   \* what the photo sensors say
  met,     \* history: the start of a motion and the last step of another have met
  ordered  \* the motors that get messages

motor == <<run, dir, left, timer, driver, held, met>>
vars  == <<queue, task, msg, motor, isr, hold, place, ordered>>

Idle == "receive"

TypeOK ==
  /\ queue \in [Steppers -> Seq(Motions \cup {"STOP"})]
  /\ \A m \in Steppers : Len(queue[m]) <= QueueLength
  /\ task \in [Steppers -> {Idle, "count", "run", "enable", "start",
                            "look", "halt", "stopTimer", "settle", "release", "clear"}]
  /\ msg \in [Steppers -> Motions \cup {"STOP", "auto"}]
  /\ run \in [Steppers -> BOOLEAN]
  /\ dir \in [Steppers -> Motions]
  /\ left \in [Steppers -> 0..Steps]
  /\ timer \in [Steppers -> {"on", "stopping", "off"}]
  /\ driver \in [Steppers -> BOOLEAN]
  /\ isr \in [Steppers -> {"idle", "stopTimer", "release", "clear"}]
  /\ hold \in BOOLEAN /\ held \in BOOLEAN /\ met \in [Steppers -> BOOLEAN]
  /\ place \in [Steppers -> {"open", "mid", "close", "on", "off"}]
  /\ ordered \in Together

Init ==
  /\ queue = [m \in Steppers |-> <<>>]
  /\ task = [m \in Steppers |-> Idle]
  /\ msg = [m \in Steppers |-> "STOP"]
  /\ run = [m \in Steppers |-> FALSE]
  /\ dir = [m \in Steppers |-> "REVERSE"]
  /\ left = [m \in Steppers |-> 0]
  /\ timer = [m \in Steppers |-> "off"]
  /\ driver = [m \in Steppers |-> FALSE]
  /\ isr = [m \in Steppers |-> "idle"]
  /\ hold = FALSE /\ held = TRUE /\ met = [m \in Steppers |-> FALSE]
  /\ place \in [Steppers -> {"open", "mid", "close", "on", "off"}]
  /\ place["waste"] \in {"open", "mid", "close"} /\ place["spin"] \in {"on", "off"}
  /\ ordered \in Together

-----------------------------------------------------------------------------
(* Scenarios, console and diagnosis post messages, at rest and over a running motion, *)
(* and the scenarios set spin_mt_always_on.                                          *)

Post(m, d) ==
  /\ m \in ordered /\ Len(queue[m]) < QueueLength
  /\ queue' = [queue EXCEPT ![m] = Append(@, d)]
  /\ UNCHANGED <<task, msg, motor, isr, hold, place, ordered>>

\* Nothing of the waste cover asks for it.
SetHold ==
  /\ "spin" \in ordered
  /\ hold' = ~hold
  /\ UNCHANGED <<queue, task, msg, motor, isr, place, ordered>>

-----------------------------------------------------------------------------
(* The command tasks *)

Goto(m, p) == task' = [task EXCEPT ![m] = p]

Receive(m) ==
  /\ task[m] = Idle /\ queue[m] # <<>>
  /\ queue' = [queue EXCEPT ![m] = Tail(@)]
  /\ msg' = [msg EXCEPT ![m] = Head(queue[m])]
  /\ Goto(m, IF Head(queue[m]) \in Motions THEN "count"
             ELSE IF m = "waste" THEN "halt" ELSE "look")
  /\ UNCHANGED <<motor, isr, hold, place, ordered>>

\* The scoop spindle turns by an angle, which may be none; waste_motor_move is always
\* given some steps.
StepCounts(m) == IF m = "spin" THEN 0..Steps ELSE 1..Steps

\* waste_motor_move and scpspin_move
Count(m) ==
  /\ task[m] = "count"
  /\ \E n \in StepCounts(m) : left' = [left EXCEPT ![m] = n]
  /\ Goto(m, "run")
  /\ UNCHANGED <<queue, msg, run, dir, timer, driver, held, met, isr, hold, place, ordered>>

\* Run flag and direction, which is written right before or after it
Run(m) ==
  /\ task[m] = "run"
  /\ run' = [run EXCEPT ![m] = TRUE]
  /\ dir' = [dir EXCEPT ![m] = msg[m]]
  /\ held' = IF m = "spin" THEN TRUE ELSE held
  /\ met' = [met EXCEPT ![m] = isr[m] # "idle"]
  /\ Goto(m, "enable")
  /\ UNCHANGED <<queue, msg, left, timer, driver, isr, hold, place, ordered>>

Enable(m) ==
  /\ task[m] = "enable"
  /\ driver' = [driver EXCEPT ![m] = TRUE]
  /\ Goto(m, "start")
  /\ UNCHANGED <<queue, msg, run, dir, left, timer, held, met, isr, hold, place, ordered>>

Start(m) ==
  /\ task[m] = "start"
  /\ timer' = [timer EXCEPT ![m] = "on"]
  /\ Goto(m, Idle)
  /\ UNCHANGED <<queue, msg, run, dir, left, driver, held, met, isr, hold, place, ordered>>

\* waste_motor_stop, for a STOP or because the sensor of the direction is reached
AutoStop ==
  /\ task["waste"] = Idle /\ run["waste"]
  /\ place["waste"] = (IF dir["waste"] = "FORWARD" THEN "open" ELSE "close")
  /\ msg' = [msg EXCEPT !["waste"] = "auto"]
  /\ Goto("waste", "halt")
  /\ UNCHANGED <<queue, motor, isr, hold, place, ordered>>

Halt ==
  /\ task["waste"] = "halt"
  /\ run' = [run EXCEPT !["waste"] = FALSE]
  /\ Goto("waste", "stopTimer")
  /\ UNCHANGED <<queue, msg, dir, left, timer, driver, held, met, isr, hold, place, ordered>>

\* scpspin_stop does nothing to a spindle that is not running.
Look ==
  /\ task["spin"] = "look"
  /\ Goto("spin", IF run["spin"] THEN "stopTimer" ELSE Idle)
  /\ UNCHANGED <<queue, msg, motor, isr, hold, place, ordered>>

\* MCPWM_TIMER_STOP_EMPTY lets the period end.
Stopped(m) == [timer EXCEPT ![m] = IF m = "waste" \/ @ = "off" THEN "off" ELSE "stopping"]

StopTimer(m) ==
  /\ task[m] = "stopTimer"
  /\ timer' = Stopped(m)
  /\ Goto(m, IF m = "waste" THEN "release" ELSE "settle")
  /\ UNCHANGED <<queue, msg, run, dir, left, driver, held, met, isr, hold, place, ordered>>

\* Ten rounds for the interrupt to clear the run flag, which it does only when the steps
\* are used up
Settle ==
  /\ task["spin"] = "settle"
  /\ Goto("spin", "release")
  /\ UNCHANGED <<queue, msg, motor, isr, hold, place, ordered>>

Held(m) == m = "spin" /\ hold

\* Mutant: spin_mt_always_on is not looked at when a STOP switches the driver off.
ReleaseAlways(m) ==
  /\ task[m] = "release"
  /\ driver' = [driver EXCEPT ![m] = FALSE]
  /\ held' = IF m = "spin" THEN held /\ hold ELSE held
  /\ left' = IF m = "waste" THEN [left EXCEPT ![m] = 0] ELSE left
  /\ met' = IF m = "waste" THEN [met EXCEPT ![m] = FALSE] ELSE met
  /\ Goto(m, IF m = "waste" THEN Idle ELSE "clear")
  /\ UNCHANGED <<queue, msg, run, dir, timer, isr, hold, place, ordered>>

Release(m) ==
  /\ task[m] = "release"
  /\ driver' = [driver EXCEPT ![m] = @ /\ Held(m)]
  /\ held' = IF m = "spin" THEN held /\ hold ELSE held
  /\ left' = IF m = "waste" THEN [left EXCEPT ![m] = 0] ELSE left
  /\ met' = IF m = "waste" THEN [met EXCEPT ![m] = FALSE] ELSE met
  /\ Goto(m, IF m = "waste" THEN Idle ELSE "clear")
  /\ UNCHANGED <<queue, msg, run, dir, timer, isr, hold, place, ordered>>

Clear ==
  /\ task["spin"] = "clear"
  /\ run' = [run EXCEPT !["spin"] = FALSE]
  /\ left' = [left EXCEPT !["spin"] = 0]
  /\ met' = [met EXCEPT !["spin"] = FALSE]
  /\ Goto("spin", Idle)
  /\ UNCHANGED <<queue, msg, dir, timer, driver, held, isr, hold, place, ordered>>

-----------------------------------------------------------------------------
(* The callback of the waste cover's timer and the interrupt of the spindle's *)

IsrTo(m, p) == isr' = [isr EXCEPT ![m] = p]

\* Where a pulse may leave the part: a cover that jams, or has reached its end, stays.
Moved(m) ==
  {place[m]} \cup
    (IF m = "spin" THEN {"on", "off"}
     ELSE IF place[m] = "mid" THEN {IF dir[m] = "FORWARD" THEN "open" ELSE "close"}
     ELSE IF place[m] = (IF dir[m] = "FORWARD" THEN "open" ELSE "close") THEN {}
     ELSE {"mid"})

\* After the last step the callback or the interrupt ends the motion, which may by now be
\* the next one, whose command task has set the run flag and not yet started the timer.
StepCounted(m, n, last) ==
  /\ left' = [left EXCEPT ![m] = n]
  /\ IF last THEN IsrTo(m, IF m = "waste" THEN "clear" ELSE "stopTimer") ELSE UNCHANGED isr
  /\ met' = [met EXCEPT ![m] = @ \/ (last /\ task[m] \in {"enable", "start"})]

Turns(m) == \E p \in Moved(m) : place' = [place EXCEPT ![m] = p]

OneLess(m) == IF left[m] = 0 THEN 0 ELSE left[m] - 1

\* A spindle timer that is not stopping turns the spindle whatever the run flag says.
Pulse(m) ==
  /\ isr[m] = "idle" /\ timer[m] # "off"
  /\ timer' = [timer EXCEPT ![m] = IF @ = "stopping" THEN "off" ELSE @]
  /\ IF run[m] THEN Turns(m) /\ StepCounted(m, OneLess(m), left[m] <= 1)
     ELSE /\ IF m = "spin" /\ timer[m] = "on" /\ driver[m] THEN Turns(m) ELSE UNCHANGED place
          /\ UNCHANGED <<left, isr, met>>
  /\ UNCHANGED <<queue, task, msg, run, dir, driver, held, hold, ordered>>

\* The command task stores the count of the next motion between the pulse counter's load
\* and store, or between scpspin_cnt and scpspin_steps: what is left is then what the
\* pulse counter makes of the old count, or any difference of the two.
LostCount(m) ==
  /\ task[m] = "count" /\ run[m] /\ isr[m] = "idle" /\ timer[m] # "off"
  /\ timer' = [timer EXCEPT ![m] = IF @ = "stopping" THEN "off" ELSE @]
  /\ Turns(m)
  /\ IF m = "waste" THEN StepCounted(m, OneLess(m), left[m] <= 1)
     ELSE \E n \in 0..Steps, last \in BOOLEAN : StepCounted(m, n, last)
  /\ Goto(m, "run")
  /\ UNCHANGED <<queue, msg, run, dir, driver, held, hold, ordered>>

\* Waste: run flag, timer, driver; spindle: timer, driver, run flag
IsrStopTimer(m) ==
  /\ isr[m] = "stopTimer"
  /\ timer' = Stopped(m)
  /\ IsrTo(m, "release")
  /\ UNCHANGED <<queue, task, msg, run, dir, left, driver, held, met, hold, place, ordered>>

\* Mutant: the driver of the waste cover is left on after the last step.
IsrReleaseSpinOnly(m) ==
  /\ isr[m] = "release"
  /\ driver' = [driver EXCEPT ![m] = @ /\ (m = "waste" \/ hold)]
  /\ held' = IF m = "spin" THEN held /\ hold ELSE held
  /\ IsrTo(m, IF m = "waste" THEN "idle" ELSE "clear")
  /\ UNCHANGED <<queue, task, msg, run, dir, left, timer, met, hold, place, ordered>>

IsrRelease(m) ==
  /\ isr[m] = "release"
  /\ driver' = [driver EXCEPT ![m] = @ /\ Held(m)]
  /\ held' = IF m = "spin" THEN held /\ hold ELSE held
  /\ IsrTo(m, IF m = "waste" THEN "idle" ELSE "clear")
  /\ UNCHANGED <<queue, task, msg, run, dir, left, timer, met, hold, place, ordered>>

\* Mutant: the interrupt stops timer and driver but leaves scpspin_motor_run set.
IsrClearWasteOnly(m) ==
  /\ isr[m] = "clear"
  /\ run' = [run EXCEPT ![m] = m = "spin"]
  /\ IsrTo(m, IF m = "waste" THEN "stopTimer" ELSE "idle")
  /\ UNCHANGED <<queue, task, msg, dir, left, timer, driver, held, met, hold, place, ordered>>

IsrClear(m) ==
  /\ isr[m] = "clear"
  /\ run' = [run EXCEPT ![m] = FALSE]
  /\ IsrTo(m, IF m = "waste" THEN "stopTimer" ELSE "idle")
  /\ UNCHANGED <<queue, task, msg, dir, left, timer, driver, held, met, hold, place, ordered>>

-----------------------------------------------------------------------------
TaskStep(m) ==
  \/ Receive(m) \/ Count(m) \/ Run(m) \/ Enable(m) \/ Start(m)
  \/ StopTimer(m) \/ Release(m)
  \/ m = "waste" /\ (AutoStop \/ Halt)
  \/ m = "spin" /\ (Look \/ Settle \/ Clear)

IsrStep(m) == Pulse(m) \/ LostCount(m) \/ IsrStopTimer(m) \/ IsrRelease(m) \/ IsrClear(m)

Next ==
  \/ \E m \in Steppers : TaskStep(m) \/ IsrStep(m)
  \/ \E m \in Steppers, d \in Motions \cup {"STOP"} : Post(m, d)
  \/ SetHold

\* The command tasks are scheduled and the timers tick.
Fairness == \A m \in Steppers : WF_vars(TaskStep(m)) /\ WF_vars(IsrStep(m))

Spec     == Init /\ [][Next]_vars
FairSpec == Spec /\ Fairness

-----------------------------------------------------------------------------
(* Properties *)

\* A motor that nobody is working on (step_motor_control.c): its run flag, its timer and its driver tell the
\* same story, whichever of the command task and the pulse counter came last, unless the
\* last step of one motion met the start of the next.  A pulse timer that outlives the
\* run flag would turn the motor for ever.
StoriesAgree ==
  \A m \in Steppers : task[m] = Idle /\ isr[m] = "idle" /\ ~met[m] =>
    /\ run[m] <=> timer[m] = "on"
    /\ run[m] => driver[m]
    /\ m = "waste" /\ driver[m] => run[m]

\* "Z : Emergency Stop" (main.c:119) posts a STOP to the spindle (main.c:331): once its task
\* has dealt with it, the spindle does not turn.  It does, for ever, when the last step of
\* one motion met the start of the next: the timer was started after the run flag was
\* cleared, and scpspin_stop returns at once for a run flag that is down.
StopEndsTurning ==
  task["spin"] = Idle /\ isr["spin"] = "idle" /\ msg["spin"] = "STOP" =>
    ~(timer["spin"] = "on" /\ driver["spin"])

\* A motion that is ordered ends by itself: by its last step, its sensor, or a STOP; if it
\* is not counted anew for ever, nor its start met the last step of the one before.
MotionEnds == \A m \in Steppers : []<>(~run[m] \/ task[m] = "count" \/ met[m])

(***************************************************************************)
(* The refinement.  A message counts as waiting until it takes effect: a   *)
(* motion when the run flag is set, a STOP when it is cleared.             *)
(***************************************************************************)
Pending(m) == \/ task[m] \in {"count", "run"}
              \/ m = "waste" /\ task[m] = "halt" /\ msg[m] = "STOP"
              \/ m = "spin" /\ task[m] \in {"look", "stopTimer", "settle", "release", "clear"}

AllMotors == {"plate", "main", "scoop", "waste", "spin"}

absQueue  == [m \in AllMotors |-> IF m \notin Steppers THEN <<>>
                                  ELSE IF Pending(m) THEN <<msg[m]>> \o queue[m] ELSE queue[m]]
absMotion == [m \in AllMotors |-> IF m \in Steppers /\ run[m] THEN dir[m] ELSE "STOP"]
absPlace  == [m \in AllMotors |-> IF m \in Steppers THEN place[m]
                                  ELSE IF m = "plate" THEN "none" ELSE "mid"]
absRests  == {[m \in AllMotors |-> IF m = "waste" THEN w ELSE IF m = "spin" THEN s
                                   ELSE IF m = "plate" THEN "none" ELSE "mid"] :
                w \in {"open", "mid", "close"}, s \in {"on", "off"}}

absEnergised == driver["spin"] \/ run["spin"]

Channel == INSTANCE MotorChannel WITH
  QueueLength <- QueueLength + 1, Rests <- absRests,
  queue <- absQueue, motion <- absMotion, place <- absPlace, energised <- absEnergised

\* When the start of a motion of the spindle met the last step of the one before, driver
\* and run flag are left to the one who comes last: the motion may end with its driver on,
\* or the spindle turn on with its run flag down.
Astray ==
  /\ met["spin"]
  /\ absMotion' \in {absMotion, [absMotion EXCEPT !["spin"] = "STOP"]}
  /\ absPlace' \in {absPlace, [absPlace EXCEPT !["spin"] = Channel!TurnedTo("spin")]}
  /\ UNCHANGED absQueue

\* What check_spin_mt_on may have told the one who decided on the driver
Told == IF met["spin"] THEN BOOLEAN ELSE {held, held /\ hold}

\* The steps of MotorChannel, with what check_spin_mt_on told the one who asked; when
\* STOP and last step meet, the later one may still switch off a driver that rests and is
\* not held any more.
ChannelNext ==
  \/ \E m \in Steppers :
       \/ \E h \in Told : Channel!MotorStep(m, h)
       \/ /\ \E d \in Motions \cup {"STOP"} : absQueue' = Channel!Posted({m}, d)
          /\ UNCHANGED <<absMotion, absPlace, absEnergised>>
  \/ /\ absMotion["spin"] = "STOP" /\ ~hold
     /\ ~absEnergised'
     /\ UNCHANGED <<absQueue, absMotion, absPlace>>
  \/ Astray

\* The motor tasks do what module Scenario takes them to do.
Implements == Channel!ChannelInit /\ [][ChannelNext]_(Channel!channel)
=============================================================================

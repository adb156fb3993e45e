---------------------------- MODULE PartsProofs ----------------------------
(***************************************************************************)
(* What is proved of the parts beside the scenarios: of the step motors    *)
(* and the cloud connection here, and of most others in the modules that   *)
(* this one extends; of all the parts together, as they run; and the types *)
(* of the cat state machine and the BLE transfer.                          *)
(*                                                                         *)
(* The step motors: the run flag, the pulse timer and the driver of a      *)
(* motor that nobody works on agree (StoriesAgree), for any queue length,  *)
(* any number of steps and any set of motors, whenever motions and STOPs   *)
(* are ordered, unless the start of a motion has met the last step of      *)
(* another (met); and they implement MotorChannel.                         *)
(***************************************************************************)
EXTENDS MCParts, SensingProofs, ControlProofs, LinkProofs

Starting == {"count", "run", "enable", "start"}

\* The command task of a motor starts it for a motion, and has it to itself until the timer
\* runs, unless the pulse counter was at the last step of the motion before.
Starts(m) ==
  /\ task[m] \in Starting => msg[m] \in Motions
  /\ task[m] \in {"enable", "start"} /\ ~met[m] =>
       isr[m] = "idle" /\ run[m] /\ (task[m] = "start" => driver[m])

\* waste_motor_stop clears the flag first, and so does the callback.
WasteStory ==
  /\ task["waste"] \in Starting \cup {Idle, "halt", "stopTimer", "release"}
  /\ timer["waste"] # "stopping"
  /\ task["waste"] \in {"stopTimer", "release"} => ~run["waste"]
  /\ task["waste"] = "release" => timer["waste"] = "off"
  /\ ~met["waste"] =>
       /\ isr["waste"] \in {"stopTimer", "release"} => ~run["waste"]
       /\ isr["waste"] = "release" => timer["waste"] = "off"
       /\ task["waste"] \in {Idle, "halt", "count", "run"} /\ isr["waste"] \in {"idle", "clear"} =>
            (run["waste"] <=> timer["waste"] = "on") /\ (run["waste"] <=> driver["waste"])

\* scpspin_stop clears it last, and so does the interrupt.
SpinStory ==
  /\ task["spin"] # "halt"
  /\ task["spin"] \in {"settle", "release", "clear"} => timer["spin"] # "on"
  /\ ~met["spin"] =>
       /\ timer["spin"] = "on" => run["spin"]
       /\ isr["spin"] \in {"release", "clear"} => timer["spin"] # "on"
       /\ task["spin"] \in {Idle, "look", "count", "run"} /\ isr["spin"] = "idle" =>
            (run["spin"] => timer["spin"] = "on" /\ driver["spin"])

MotorInv(m) == Starts(m) /\ (m = "waste" => WasteStory) /\ (m = "spin" => SpinStory)

StepInv == TypeOK /\ \A m \in Steppers : MotorInv(m)

-----------------------------------------------------------------------------
\* Nothing that MotorInv says of a motor changes when its part of the state does not
\* (the tasks and the pulse counters of step_motor_control.c share no variable of one motor).
LEMMA Elsewhere ==
  ASSUME NEW m \in Steppers, MotorInv(m),
         task'[m] = task[m], msg'[m] = msg[m], run'[m] = run[m], timer'[m] = timer[m],
         driver'[m] = driver[m], isr'[m] = isr[m], met'[m] = met[m]
  PROVE  MotorInv(m)'
<1>1. Starts(m)'  BY DEF MotorInv, Starts
<1>2. m = "waste" => WasteStory'  BY DEF MotorInv, WasteStory
<1>3. m = "spin" => SpinStory'  BY DEF MotorInv, SpinStory
<1> QED  BY <1>1, <1>2, <1>3 DEF MotorInv

\* step_motor_init leaves both motors at rest.
LEMMA StartsRight == ASSUME StepAssumption, Init PROVE StepInv
<1>1. TypeOK
  <2>1. queue \in [Steppers -> Seq(Motions \cup {"STOP"})] /\ \A m \in Steppers : Len(queue[m]) <= QueueLength
    BY DEF Init, StepAssumption
  <2>2. left \in [Steppers -> 0..Steps]  BY DEF Init, StepAssumption
  <2> QED  BY <2>1, <2>2 DEF Init, TypeOK, Idle, Motions
<1>2. ASSUME NEW m \in Steppers PROVE MotorInv(m)
  BY DEF Init, MotorInv, Starts, WasteStory, SpinStory, Starting, Idle, Steppers, Motions
<1> QED  BY <1>1, <1>2 DEF StepInv

\* waste_motor_move and scpspin_move set the step count of a motor, at rest or running.
LEMMA CountRight == ASSUME StepAssumption, StepInv, NEW m \in Steppers, Count(m) PROVE StepInv'
<1> USE DEF Count, motor, Goto, IsrTo
<1>1. TypeOK'
  <2>1. left' \in [Steppers -> 0..Steps]
    BY DEF StepInv, TypeOK, StepAssumption, StepCounts
  <2> QED  BY <2>1 DEF StepInv, TypeOK, Steppers
<1>2. MotorInv(m)'
  <2>1. Starts(m)'
    BY DEF StepInv, MotorInv, TypeOK, Starts, Starting, Steppers, Idle
  <2>2. m = "waste" => WasteStory'
    BY DEF StepInv, MotorInv, TypeOK, Starts, WasteStory, Starting, Steppers, Idle
  <2>3. m = "spin" => SpinStory'
    BY DEF StepInv, MotorInv, TypeOK, Starts, SpinStory, Starting, Steppers, Idle
  <2> QED  BY <2>1, <2>2, <2>3 DEF MotorInv, Steppers
<1>3. ASSUME NEW n \in Steppers, n # m PROVE MotorInv(n)'
  BY <1>3, Elsewhere DEF StepInv, TypeOK, Steppers
<1> QED  BY <1>1, <1>2, <1>3 DEF StepInv

\* Then they set the run flag and the direction, which is that of the message in hand.
LEMMA RunRight == ASSUME StepAssumption, StepInv, NEW m \in Steppers, Run(m) PROVE StepInv'
<1> USE DEF Run, motor, Goto, IsrTo
<1>1. TypeOK'
  BY DEF StepInv, TypeOK, StepAssumption, Idle, Motions, Steppers, MotorInv, Starts, Starting
<1>2. MotorInv(m)'
  <2>1. Starts(m)'
    BY DEF StepInv, MotorInv, TypeOK, Starts, Starting, Steppers, Idle
  <2>2. m = "waste" => WasteStory'
    BY DEF StepInv, MotorInv, TypeOK, Starts, WasteStory, Starting, Steppers, Idle
  <2>3. m = "spin" => SpinStory'
    BY DEF StepInv, MotorInv, TypeOK, Starts, SpinStory, Starting, Steppers, Idle
  <2> QED  BY <2>1, <2>2, <2>3 DEF MotorInv, Steppers
<1>3. ASSUME NEW n \in Steppers, n # m PROVE MotorInv(n)'
  BY <1>3, Elsewhere DEF StepInv, TypeOK, Steppers
<1> QED  BY <1>1, <1>2, <1>3 DEF StepInv

\* Then they switch the driver on.
LEMMA EnableRight == ASSUME StepAssumption, StepInv, NEW m \in Steppers, Enable(m) PROVE StepInv'
<1> USE DEF Enable, motor, Goto, IsrTo
<1>1. TypeOK'
  BY DEF StepInv, TypeOK, StepAssumption, Idle, Motions, Steppers, MotorInv, Starts, Starting
<1>2. MotorInv(m)'
  <2>1. Starts(m)'
    BY DEF StepInv, MotorInv, TypeOK, Starts, Starting, Steppers, Idle
  <2>2. m = "waste" => WasteStory'
    BY DEF StepInv, MotorInv, TypeOK, Starts, WasteStory, Starting, Steppers, Idle
  <2>3. m = "spin" => SpinStory'
    BY DEF StepInv, MotorInv, TypeOK, Starts, SpinStory, Starting, Steppers, Idle
  <2> QED  BY <2>1, <2>2, <2>3 DEF MotorInv, Steppers
<1>3. ASSUME NEW n \in Steppers, n # m PROVE MotorInv(n)'
  BY <1>3, Elsewhere DEF StepInv, TypeOK, Steppers
<1> QED  BY <1>1, <1>2, <1>3 DEF StepInv

\* And then the pulse timer.
LEMMA StartRight == ASSUME StepAssumption, StepInv, NEW m \in Steppers, Start(m) PROVE StepInv'
<1> USE DEF Start, motor, Goto, IsrTo
<1>1. TypeOK'
  BY DEF StepInv, TypeOK, StepAssumption, Idle, Motions, Steppers, MotorInv, Starts, Starting
<1>2. MotorInv(m)'
  <2>1. Starts(m)'
    BY DEF StepInv, MotorInv, TypeOK, Starts, Starting, Steppers, Idle
  <2>2. m = "waste" => WasteStory'
    BY DEF StepInv, MotorInv, TypeOK, Starts, WasteStory, Starting, Steppers, Idle
  <2>3. m = "spin" => SpinStory'
    BY DEF StepInv, MotorInv, TypeOK, Starts, SpinStory, Starting, Steppers, Idle
  <2> QED  BY <2>1, <2>2, <2>3 DEF MotorInv, Steppers
<1>3. ASSUME NEW n \in Steppers, n # m PROVE MotorInv(n)'
  BY <1>3, Elsewhere DEF StepInv, TypeOK, Steppers
<1> QED  BY <1>1, <1>2, <1>3 DEF StepInv

\* The command task of the waste cover sees the sensor of its direction while it waits.
LEMMA AutoStopRight == ASSUME StepAssumption, StepInv, AutoStop PROVE StepInv'
<1> USE DEF AutoStop, motor, Goto, IsrTo
<1>1. TypeOK'
  BY DEF StepInv, TypeOK, StepAssumption, Idle, Motions, Steppers, MotorInv, Starts, Starting
<1>2. MotorInv("waste")'
  <2>1. Starts("waste")'
    BY DEF StepInv, MotorInv, TypeOK, Starts, Starting, Steppers, Idle
  <2>2. WasteStory'
    BY DEF StepInv, MotorInv, TypeOK, Starts, WasteStory, Starting, Steppers, Idle
  <2> QED  BY <2>1, <2>2 DEF MotorInv, Steppers
<1>3. ASSUME NEW n \in Steppers, n # "waste" PROVE MotorInv(n)'
  BY <1>3, Elsewhere DEF StepInv, TypeOK, Steppers
<1> QED  BY <1>1, <1>2, <1>3 DEF StepInv

\* waste_motor_stop clears the run flag first.
LEMMA HaltRight == ASSUME StepAssumption, StepInv, Halt PROVE StepInv'
<1> USE DEF Halt, motor, Goto, IsrTo
<1>1. TypeOK'
  BY DEF StepInv, TypeOK, StepAssumption, Idle, Motions, Steppers, MotorInv, Starts, Starting
<1>2. MotorInv("waste")'
  <2>1. Starts("waste")'
    BY DEF StepInv, MotorInv, TypeOK, Starts, Starting, Steppers, Idle
  <2>2. WasteStory'
    BY DEF StepInv, MotorInv, TypeOK, Starts, WasteStory, Starting, Steppers, Idle
  <2> QED  BY <2>1, <2>2 DEF MotorInv, Steppers
<1>3. ASSUME NEW n \in Steppers, n # "waste" PROVE MotorInv(n)'
  BY <1>3, Elsewhere DEF StepInv, TypeOK, Steppers
<1> QED  BY <1>1, <1>2, <1>3 DEF StepInv

\* scpspin_stop looks at the run flag first.
LEMMA LookRight == ASSUME StepAssumption, StepInv, Look PROVE StepInv'
<1> USE DEF Look, motor, Goto, IsrTo
<1>1. TypeOK'
  BY DEF StepInv, TypeOK, StepAssumption, Idle, Motions, Steppers, MotorInv, Starts, Starting
<1>2. MotorInv("spin")'
  <2>1. Starts("spin")'
    BY DEF StepInv, MotorInv, TypeOK, Starts, Starting, Steppers, Idle
  <2>3. SpinStory'
    BY DEF StepInv, MotorInv, TypeOK, Starts, SpinStory, Starting, Steppers, Idle
  <2> QED  BY <2>1, <2>3 DEF MotorInv, Steppers
<1>3. ASSUME NEW n \in Steppers, n # "spin" PROVE MotorInv(n)'
  BY <1>3, Elsewhere DEF StepInv, TypeOK, Steppers
<1> QED  BY <1>1, <1>2, <1>3 DEF StepInv

\* Both stop the pulse timer, the spindle one only at the end of its period.
LEMMA StopTimerRight == ASSUME StepAssumption, StepInv, NEW m \in Steppers, StopTimer(m) PROVE StepInv'
<1> USE DEF StopTimer, motor, Goto, IsrTo, Stopped
<1>1. TypeOK'
  BY DEF StepInv, TypeOK, StepAssumption, Idle, Motions, Steppers, MotorInv, Starts, Starting
<1>2. MotorInv(m)'
  <2>1. Starts(m)'
    BY DEF StepInv, MotorInv, TypeOK, Starts, Starting, Steppers, Idle
  <2>2. m = "waste" => WasteStory'
    BY DEF StepInv, MotorInv, TypeOK, Starts, WasteStory, Starting, Steppers, Idle
  <2>3. m = "spin" => SpinStory'
    BY DEF StepInv, MotorInv, TypeOK, Starts, SpinStory, Starting, Steppers, Idle
  <2> QED  BY <2>1, <2>2, <2>3 DEF MotorInv, Steppers
<1>3. ASSUME NEW n \in Steppers, n # m PROVE MotorInv(n)'
  BY <1>3, Elsewhere DEF StepInv, TypeOK, Steppers
<1> QED  BY <1>1, <1>2, <1>3 DEF StepInv

\* scpspin_stop waits for the interrupt.
LEMMA SettleRight == ASSUME StepAssumption, StepInv, Settle PROVE StepInv'
<1> USE DEF Settle, motor, Goto, IsrTo
<1>1. TypeOK'
  BY DEF StepInv, TypeOK, StepAssumption, Idle, Motions, Steppers, MotorInv, Starts, Starting
<1>2. MotorInv("spin")'
  <2>1. Starts("spin")'
    BY DEF StepInv, MotorInv, TypeOK, Starts, Starting, Steppers, Idle
  <2>3. SpinStory'
    BY DEF StepInv, MotorInv, TypeOK, Starts, SpinStory, Starting, Steppers, Idle
  <2> QED  BY <2>1, <2>3 DEF MotorInv, Steppers
<1>3. ASSUME NEW n \in Steppers, n # "spin" PROVE MotorInv(n)'
  BY <1>3, Elsewhere DEF StepInv, TypeOK, Steppers
<1> QED  BY <1>1, <1>2, <1>3 DEF StepInv

\* scpspin_stop clears the run flag last.
LEMMA ClearRight == ASSUME StepAssumption, StepInv, Clear PROVE StepInv'
<1> USE DEF Clear, motor, Goto, IsrTo
<1>1. TypeOK'
  BY DEF StepInv, TypeOK, StepAssumption, Idle, Motions, Steppers, MotorInv, Starts, Starting
<1>2. MotorInv("spin")'
  <2>1. Starts("spin")'
    BY DEF StepInv, MotorInv, TypeOK, Starts, Starting, Steppers, Idle
  <2>3. SpinStory'
    BY DEF StepInv, MotorInv, TypeOK, Starts, SpinStory, Starting, Steppers, Idle
  <2> QED  BY <2>1, <2>3 DEF MotorInv, Steppers
<1>3. ASSUME NEW n \in Steppers, n # "spin" PROVE MotorInv(n)'
  BY <1>3, Elsewhere DEF StepInv, TypeOK, Steppers
<1> QED  BY <1>1, <1>2, <1>3 DEF StepInv

\* The callback and the interrupt stop the timer of their motor.
LEMMA IsrStopTimerRight == ASSUME StepAssumption, StepInv, NEW m \in Steppers, IsrStopTimer(m) PROVE StepInv'
<1> USE DEF IsrStopTimer, motor, Goto, IsrTo, Stopped
<1>1. TypeOK'
  BY DEF StepInv, TypeOK, StepAssumption, Idle, Motions, Steppers, MotorInv, Starts, Starting
<1>2. MotorInv(m)'
  <2>1. Starts(m)'
    BY DEF StepInv, MotorInv, TypeOK, Starts, Starting, Steppers, Idle
  <2>2. m = "waste" => WasteStory'
    BY DEF StepInv, MotorInv, TypeOK, Starts, WasteStory, Starting, Steppers, Idle
  <2>3. m = "spin" => SpinStory'
    BY DEF StepInv, MotorInv, TypeOK, Starts, SpinStory, Starting, Steppers, Idle
  <2> QED  BY <2>1, <2>2, <2>3 DEF MotorInv, Steppers
<1>3. ASSUME NEW n \in Steppers, n # m PROVE MotorInv(n)'
  BY <1>3, Elsewhere DEF StepInv, TypeOK, Steppers
<1> QED  BY <1>1, <1>2, <1>3 DEF StepInv

\* They clear its run flag.
LEMMA IsrClearRight == ASSUME StepAssumption, StepInv, NEW m \in Steppers, IsrClear(m) PROVE StepInv'
<1> USE DEF IsrClear, motor, Goto, IsrTo
<1>1. TypeOK'
  BY DEF StepInv, TypeOK, StepAssumption, Idle, Motions, Steppers, MotorInv, Starts, Starting
<1>2. MotorInv(m)'
  <2>1. Starts(m)'
    BY DEF StepInv, MotorInv, TypeOK, Starts, Starting, Steppers, Idle
  <2>2. m = "waste" => WasteStory'
    BY DEF StepInv, MotorInv, TypeOK, Starts, WasteStory, Starting, Steppers, Idle
  <2>3. m = "spin" => SpinStory'
    BY DEF StepInv, MotorInv, TypeOK, Starts, SpinStory, Starting, Steppers, Idle
  <2> QED  BY <2>1, <2>2, <2>3 DEF MotorInv, Steppers
<1>3. ASSUME NEW n \in Steppers, n # m PROVE MotorInv(n)'
  BY <1>3, Elsewhere DEF StepInv, TypeOK, Steppers
<1> QED  BY <1>1, <1>2, <1>3 DEF StepInv

\* SetHold touches neither motor, only what check_spin_mt_on will say.
LEMMA SetHoldRight == ASSUME StepAssumption, StepInv, SetHold PROVE StepInv'
<1> USE DEF SetHold, motor
<1>1. TypeOK'
  <2>1. hold' \in BOOLEAN  BY DEF StepInv, TypeOK
  <2> QED  BY <2>1 DEF StepInv, TypeOK
<1>2. ASSUME NEW n \in Steppers PROVE MotorInv(n)'
  BY Elsewhere DEF StepInv
<1> QED  BY <1>1, <1>2 DEF StepInv

\* Releasing the driver ends what a STOP does to the waste cover, and counts its steps as done.
LEMMA ReleaseRight == ASSUME StepAssumption, StepInv, NEW m \in Steppers, Release(m) PROVE StepInv'
<1>1. driver' \in [Steppers -> BOOLEAN] /\ (m = "waste" => ~driver'[m]) /\ \A n \in Steppers \ {m} : driver'[n] = driver[n]
  <2>1. driver \in [Steppers -> BOOLEAN]  BY DEF StepInv, TypeOK
  <2>2. Held(m) \in BOOLEAN /\ (m = "waste" => ~Held(m))  BY DEF Held, StepInv, TypeOK
  <2>3. driver' = [driver EXCEPT ![m] = @ /\ Held(m)]  BY DEF Release
  <2> HIDE DEF Held
  <2>4. (driver[m] /\ Held(m)) \in BOOLEAN  OBVIOUS
  <2> QED  BY <2>1, <2>2, <2>3, <2>4
<1>2. held' \in BOOLEAN
  <2>1. held' = IF m = "spin" THEN held /\ hold ELSE held  BY DEF Release
  <2>2. held \in BOOLEAN  BY DEF StepInv, TypeOK
  <2> QED  BY <2>1, <2>2, Zenon
<1>3. /\ task[m] = "release"
      /\ left' = IF m = "waste" THEN [left EXCEPT ![m] = 0] ELSE left
      /\ met' = IF m = "waste" THEN [met EXCEPT ![m] = FALSE] ELSE met
      /\ task' = [task EXCEPT ![m] = IF m = "waste" THEN Idle ELSE "clear"]
      /\ UNCHANGED <<queue, msg, run, dir, timer, isr, hold, place, ordered>>
  BY DEF Release, Goto, IsrTo
<1>4. TypeOK'
  BY <1>1, <1>2, <1>3 DEF StepInv, TypeOK, StepAssumption, Idle, Steppers
<1>5. MotorInv(m)'
  <2>1. Starts(m)'
    BY <1>3 DEF StepInv, MotorInv, TypeOK, Starts, Starting, Steppers, Idle
  <2>3. m = "waste" => WasteStory'
    BY <1>1, <1>3 DEF StepInv, MotorInv, TypeOK, Starts, WasteStory, Starting, Steppers, Idle
  <2>4. m = "spin" => SpinStory'
    BY <1>1, <1>3 DEF StepInv, MotorInv, TypeOK, Starts, SpinStory, Starting, Steppers, Idle
  <2> QED  BY <2>1, <2>3, <2>4 DEF MotorInv
<1>6. ASSUME NEW n \in Steppers, n # m PROVE MotorInv(n)'
  BY <1>1, <1>3, <1>6, Elsewhere DEF StepInv, TypeOK, Steppers
<1> QED  BY <1>4, <1>5, <1>6 DEF StepInv

\* The callback and the interrupt release it too.
LEMMA IsrReleaseRight == ASSUME StepAssumption, StepInv, NEW m \in Steppers, IsrRelease(m) PROVE StepInv'
<1>1. driver' \in [Steppers -> BOOLEAN] /\ (m = "waste" => ~driver'[m]) /\ \A n \in Steppers \ {m} : driver'[n] = driver[n]
  <2>1. driver \in [Steppers -> BOOLEAN]  BY DEF StepInv, TypeOK
  <2>2. Held(m) \in BOOLEAN /\ (m = "waste" => ~Held(m))  BY DEF Held, StepInv, TypeOK
  <2>3. driver' = [driver EXCEPT ![m] = @ /\ Held(m)]  BY DEF IsrRelease
  <2> HIDE DEF Held
  <2>4. (driver[m] /\ Held(m)) \in BOOLEAN  OBVIOUS
  <2> QED  BY <2>1, <2>2, <2>3, <2>4
<1>2. held' \in BOOLEAN
  <2>1. held' = IF m = "spin" THEN held /\ hold ELSE held  BY DEF IsrRelease
  <2>2. held \in BOOLEAN  BY DEF StepInv, TypeOK
  <2> QED  BY <2>1, <2>2, Zenon
<1>3. /\ isr[m] = "release"
      /\ isr' = [isr EXCEPT ![m] = IF m = "waste" THEN "idle" ELSE "clear"]
      /\ UNCHANGED <<queue, msg, run, dir, timer, task, left, met, hold, place, ordered>>
  BY DEF IsrRelease, Goto, IsrTo
<1>4. TypeOK'
  BY <1>1, <1>2, <1>3 DEF StepInv, TypeOK, StepAssumption, Idle, Steppers
<1>5. MotorInv(m)'
  <2>1. Starts(m)'
    BY <1>3 DEF StepInv, MotorInv, TypeOK, Starts, Starting, Steppers, Idle
  <2>3. m = "waste" => WasteStory'
    BY <1>1, <1>3 DEF StepInv, MotorInv, TypeOK, Starts, WasteStory, Starting, Steppers, Idle
  <2>4. m = "spin" => SpinStory'
    BY <1>1, <1>3 DEF StepInv, MotorInv, TypeOK, Starts, SpinStory, Starting, Steppers, Idle
  <2> QED  BY <2>1, <2>3, <2>4 DEF MotorInv
<1>6. ASSUME NEW n \in Steppers, n # m PROVE MotorInv(n)'
  BY <1>1, <1>3, <1>6, Elsewhere DEF StepInv, TypeOK, Steppers
<1> QED  BY <1>4, <1>5, <1>6 DEF StepInv

\* What is known of one motor's part of the state is known of all of it, if that is all that
\* changes.
LEMMA OneChanged ==
  ASSUME NEW S, NEW T, NEW f \in [S -> T], NEW g, NEW x \in S,
         g = f \/ \E v \in T : g = [f EXCEPT ![x] = v]
  PROVE  g \in [S -> T]
<1>1. CASE g = f  BY <1>1
<1>2. ASSUME NEW v \in T, g = [f EXCEPT ![x] = v] PROVE g \in [S -> T]  BY <1>2
<1> QED  BY <1>1, <1>2

\* A pulse of a running motor counts, also when the count it finds is overwritten; the last
\* one starts the callback's or the interrupt's work.
LEMMA PulseRight ==
  ASSUME StepAssumption, StepInv, NEW m \in Steppers, Pulse(m) \/ LostCount(m)
  PROVE  StepInv'
<1> USE DEF Goto
<1>1. /\ UNCHANGED <<queue, msg, run, dir, driver, held, hold, ordered>>
      /\ isr[m] = "idle" /\ timer[m] # "off"
      /\ timer' = [timer EXCEPT ![m] = IF @ = "stopping" THEN "off" ELSE @]
      /\ task' = task \/ (task[m] = "count" /\ task' = [task EXCEPT ![m] = "run"])
      /\ place' = place \/ \E p \in Moved(m) : place' = [place EXCEPT ![m] = p]
  BY DEF Pulse, LostCount, Turns
<1>2. \/ UNCHANGED <<left, isr, met>>
      \/ run[m] /\ \E n \in 0..Steps, last \in BOOLEAN : StepCounted(m, n, last)
  <2>1. OneLess(m) \in 0..Steps  BY DEF OneLess, StepInv, TypeOK, StepAssumption
  <2>2. (left[m] <= 1) \in BOOLEAN  OBVIOUS
  <2>3. CASE StepCounted(m, OneLess(m), left[m] <= 1) /\ run[m]  BY <2>1, <2>2, <2>3, Zenon
  <2>4. CASE UNCHANGED <<left, isr, met>>  BY <2>4
  <2>5. CASE run[m] /\ \E n \in 0..Steps, last \in BOOLEAN : StepCounted(m, n, last)  BY <2>5
  <2> QED  BY <2>3, <2>4, <2>5, Zenon DEF Pulse, LostCount
<1> DEFINE LastStep ==
             /\ run[m]
             /\ isr' = [isr EXCEPT ![m] = IF m = "waste" THEN "clear" ELSE "stopTimer"]
             /\ met' = [met EXCEPT ![m] = met'[m]]
             /\ met'[m] \in BOOLEAN
             /\ met'[m] <=> met[m] \/ task[m] \in {"enable", "start"}
<1>3. (isr' = isr /\ met' = met) \/ LastStep
  <2>1. CASE UNCHANGED <<left, isr, met>>  BY <2>1
  <2>2. ASSUME run[m], NEW n \in 0..Steps, NEW last \in BOOLEAN, StepCounted(m, n, last)
        PROVE  (isr' = isr /\ met' = met) \/ LastStep
    <3>1. met \in [Steppers -> BOOLEAN]  BY DEF StepInv, TypeOK
    <3>2. CASE ~last
      <4>1. met' = [met EXCEPT ![m] = met[m]]  BY <2>2, <3>1, <3>2, Zenon DEF StepCounted
      <4>2. isr' = isr  BY <2>2, <3>2 DEF StepCounted
      <4> QED  BY <3>1, <4>1, <4>2
    <3>3. CASE last
      <4>1. isr' = [isr EXCEPT ![m] = IF m = "waste" THEN "clear" ELSE "stopTimer"]
        BY <2>2, <3>3 DEF StepCounted, IsrTo
      <4>2. met' = [met EXCEPT ![m] = @ \/ (last /\ task[m] \in {"enable", "start"})]
        BY <2>2 DEF StepCounted
      <4>3. met'[m] = (met[m] \/ (last /\ task[m] \in {"enable", "start"}))  BY <3>1, <4>2, Zenon
      <4>4. met'[m] \in BOOLEAN  BY <3>1, <4>3, Zenon
      <4>5. met' = [met EXCEPT ![m] = met'[m]]  BY <4>2, <4>3, Zenon
      <4>6. met'[m] <=> met[m] \/ task[m] \in {"enable", "start"}  BY <3>1, <3>3, <4>3, Zenon
      <4> QED  BY <2>2, <4>1, <4>4, <4>5, <4>6
    <3> QED  BY <3>2, <3>3
  <2> QED  BY <1>2, <2>1, <2>2
<1>4. TypeOK'
  <2>1. place' \in [Steppers -> {"open", "mid", "close", "on", "off"}]
    <3>1. Moved(m) \subseteq {"open", "mid", "close", "on", "off"}  BY DEF Moved, StepInv, TypeOK
    <3>2. place \in [Steppers -> {"open", "mid", "close", "on", "off"}]  BY DEF StepInv, TypeOK
    <3>3. place' = place \/ \E p \in {"open", "mid", "close", "on", "off"} : place' = [place EXCEPT ![m] = p]
      BY <1>1, <3>1
    <3> QED  BY ONLY <3>2, <3>3, m \in Steppers, OneChanged
  <2>2. left' \in [Steppers -> 0..Steps]
    <3>1. left' = left \/ \E n \in 0..Steps : left' = [left EXCEPT ![m] = n]  BY <1>2 DEF StepCounted
    <3>2. left \in [Steppers -> 0..Steps]  BY DEF StepInv, TypeOK
    <3> QED  BY ONLY <3>1, <3>2, m \in Steppers, OneChanged
  <2>3. isr' \in [Steppers -> {"idle", "stopTimer", "release", "clear"}] /\ met' \in [Steppers -> BOOLEAN]
    <3>1. CASE isr' = isr /\ met' = met  BY <3>1 DEF StepInv, TypeOK
    <3>2. CASE LastStep
      <4>1. isr' \in [Steppers -> {"idle", "stopTimer", "release", "clear"}]  BY <3>2 DEF StepInv, TypeOK
      <4>2. met \in [Steppers -> BOOLEAN] /\ \E v \in BOOLEAN : met' = [met EXCEPT ![m] = v]
        BY <3>2 DEF StepInv, TypeOK
      <4>3. met' \in [Steppers -> BOOLEAN]  BY ONLY <4>2, m \in Steppers, OneChanged
      <4> QED  BY <4>1, <4>3
    <3> QED  BY <1>3, <3>1, <3>2
  <2>4. task' \in [Steppers -> {Idle, "count", "run", "enable", "start",
                                "look", "halt", "stopTimer", "settle", "release", "clear"}]
    <3>1. CASE task' = task  BY <3>1 DEF StepInv, TypeOK
    <3>2. CASE task' = [task EXCEPT ![m] = "run"]  BY <3>2 DEF StepInv, TypeOK
    <3> QED  BY <1>1, <3>1, <3>2
  <2>5. timer' \in [Steppers -> {"on", "stopping", "off"}]  BY <1>1 DEF StepInv, TypeOK
  <2> QED  BY <1>1, <2>1, <2>2, <2>3, <2>4, <2>5 DEF StepInv, TypeOK
<1>5. MotorInv(m)'
  <2>1. Starts(m)'
    BY <1>1, <1>3 DEF StepInv, MotorInv, TypeOK, Starts, Starting, Idle
  <2>2. m = "waste" => WasteStory'
    BY <1>1, <1>3 DEF StepInv, MotorInv, TypeOK, Starts, WasteStory, Starting, Steppers, Idle
  <2>3. m = "spin" => SpinStory'
    BY <1>1, <1>3 DEF StepInv, MotorInv, TypeOK, Starts, SpinStory, Starting, Steppers, Idle
  <2> QED  BY <2>1, <2>2, <2>3 DEF MotorInv
<1>6. ASSUME NEW n \in Steppers, n # m PROVE MotorInv(n)'
  BY <1>1, <1>3, <1>6, Elsewhere DEF StepInv, TypeOK, Steppers
<1> QED  BY <1>4, <1>5, <1>6 DEF StepInv

\* The command task takes the first message, whatever the pulse counter is doing.
LEMMA ReceiveRight == ASSUME StepAssumption, StepInv, NEW m \in Steppers, Receive(m) PROVE StepInv'
<1> USE DEF Receive, Goto, motor
<1>1. /\ Tail(queue[m]) \in Seq(Motions \cup {"STOP"}) /\ Head(queue[m]) \in Motions \cup {"STOP"}
      /\ Len(queue[m]) \in Nat
      /\ Len(Tail(queue[m])) = Len(queue[m]) - 1
  <2>1. queue[m] \in Seq(Motions \cup {"STOP"}) /\ queue[m] # <<>>  BY DEF StepInv, TypeOK
  <2> QED  BY <2>1, HeadTailProperties
<1>2. queue'[m] = Tail(queue[m]) /\ \A n \in Steppers \ {m} : queue'[n] = queue[n]
  BY DEF StepInv, TypeOK
<1>3. TypeOK'
  <2>1. queue' \in [Steppers -> Seq(Motions \cup {"STOP"})]  BY <1>1 DEF StepInv, TypeOK
  <2>2. \A n \in Steppers : Len(queue'[n]) <= QueueLength
    BY <1>1, <1>2 DEF StepInv, TypeOK, StepAssumption
  <2>3. msg' \in [Steppers -> Motions \cup {"STOP", "auto"}]  BY <1>1 DEF StepInv, TypeOK
  <2> QED  BY <2>1, <2>2, <2>3 DEF StepInv, TypeOK
<1>4. MotorInv(m)'
  <2>1. Starts(m)'
    BY <1>1 DEF StepInv, MotorInv, TypeOK, Starts, Starting, Steppers, Motions
  <2>2. m = "waste" => WasteStory'
    BY <1>1 DEF StepInv, MotorInv, TypeOK, WasteStory, Starting, Steppers, Idle
  <2>3. m = "spin" => SpinStory'
    BY <1>1 DEF StepInv, MotorInv, TypeOK, SpinStory, Starting, Steppers, Idle
  <2> QED  BY <2>1, <2>2, <2>3 DEF MotorInv
<1>5. ASSUME NEW n \in Steppers, n # m PROVE MotorInv(n)'
  BY <1>5, Elsewhere DEF StepInv, TypeOK, Steppers
<1> QED  BY <1>3, <1>4, <1>5 DEF StepInv

\* A message is posted to a motor at rest or to one that runs.
LEMMA PostRight ==
  ASSUME StepAssumption, StepInv, NEW m \in Steppers, NEW d \in Motions \cup {"STOP"}, Post(m, d)
  PROVE  StepInv'
<1> USE DEF Post, motor
<1>1. /\ Append(queue[m], d) \in Seq(Motions \cup {"STOP"})
      /\ Len(queue[m]) \in Nat /\ Len(Append(queue[m], d)) = Len(queue[m]) + 1
  <2>1. queue[m] \in Seq(Motions \cup {"STOP"})  BY DEF StepInv, TypeOK
  <2> QED  BY <2>1, AppendProperties
<1>2. queue'[m] = Append(queue[m], d) /\ \A n \in Steppers \ {m} : queue'[n] = queue[n]
  BY DEF StepInv, TypeOK
<1>3. TypeOK'
  <2>1. queue' \in [Steppers -> Seq(Motions \cup {"STOP"})]  BY <1>1 DEF StepInv, TypeOK
  <2>2. \A n \in Steppers : Len(queue'[n]) <= QueueLength
    BY <1>1, <1>2 DEF StepInv, TypeOK, StepAssumption
  <2> QED  BY <2>1, <2>2 DEF StepInv, TypeOK
<1>4. ASSUME NEW n \in Steppers PROVE MotorInv(n)'
  BY Elsewhere DEF StepInv
<1> QED  BY <1>3, <1>4 DEF StepInv

-----------------------------------------------------------------------------
\* The invariant of the two step motors: what their command task and their pulse counter
\* have done so far, whichever was first.
THEOREM StepInvariant == Spec => []StepInv
<1>1. Init => StepInv  BY StepAssumption, StartsRight
<1>2. StepInv /\ [Next]_vars => StepInv'
  <2> SUFFICES ASSUME StepInv, [Next]_vars PROVE StepInv'  OBVIOUS
  <2>1. CASE UNCHANGED vars
    <3>1. TypeOK'  BY <2>1 DEF StepInv, TypeOK, vars, motor
    <3>2. ASSUME NEW n \in Steppers PROVE MotorInv(n)'  BY <2>1, Elsewhere DEF StepInv, vars, motor
    <3> QED  BY <3>1, <3>2 DEF StepInv
  <2>2. ASSUME NEW m \in Steppers, TaskStep(m) PROVE StepInv'
    BY <2>2, StepAssumption, ReceiveRight, CountRight, RunRight, EnableRight, StartRight, StopTimerRight, ReleaseRight,
       AutoStopRight, HaltRight, LookRight, SettleRight, ClearRight DEF TaskStep
  <2>3. ASSUME NEW m \in Steppers, IsrStep(m) PROVE StepInv'
    BY <2>3, StepAssumption, PulseRight, IsrStopTimerRight, IsrReleaseRight, IsrClearRight DEF IsrStep
  <2>4. ASSUME NEW m \in Steppers, NEW d \in Motions \cup {"STOP"}, Post(m, d) PROVE StepInv'
    BY <2>4, StepAssumption, PostRight
  <2>5. CASE SetHold  BY <2>5, StepAssumption, SetHoldRight
  <2> QED  BY <2>1, <2>2, <2>3, <2>4, <2>5 DEF Next
<1> QED  BY <1>1, <1>2, PTL DEF Spec

\* A motor that nobody works on: its run flag, its timer and its driver tell the same story,
\* whichever of the command task and the pulse counter came last.
THEOREM StoriesAgreeCorrect == Spec => []StoriesAgree
<1>1. StepInv => StoriesAgree
  BY DEF StepInv, StoriesAgree, MotorInv, WasteStory, SpinStory, TypeOK, Steppers, Idle
<1> QED  BY <1>1, StepInvariant, PTL

-----------------------------------------------------------------------------
(* The motor tasks implement the channel that module Scenario relies on *)

\* The spindle's driver is as the ones who asked check_spin_mt_on were told.
AsTold ==
  ~met["spin"] =>
    /\ task["spin"] = "enable" => held
    /\ task["spin"] # "enable" /\ run["spin"] => driver["spin"] = held

\* What the spindle's task works off is a STOP.
InHand == task["spin"] \in {"look", "stopTimer", "settle", "release", "clear"} => msg["spin"] = "STOP"

PlacesRight == place["waste"] \in {"open", "mid", "close"} /\ place["spin"] \in {"on", "off"}

ChannelInv == StepInv /\ AsTold /\ InHand /\ PlacesRight

\* Nothing but the run flag going up and the driver going on or off makes AsTold fail
\* (step_motor_control.c).
LEMMA StaysTold ==
  ASSUME AsTold, met["spin"] => met'["spin"], held' = held, driver'["spin"] = driver["spin"],
         run'["spin"] => run["spin"], task'["spin"] = "enable" <=> task["spin"] = "enable"
  PROVE  AsTold'
BY Zenon DEF AsTold

\* A pulse may find that a last step met a start, and does not take it back.
LEMMA MetStays ==
  ASSUME StepInv, NEW m \in Steppers, Pulse(m) \/ LostCount(m), met["spin"]
  PROVE  met'["spin"]
<1>1. met \in [Steppers -> BOOLEAN]  BY DEF StepInv, TypeOK
<1>2. CASE met' = met  BY <1>2
<1>3. ASSUME NEW n, NEW last, StepCounted(m, n, last) PROVE met'["spin"]
  <2>1. met' = [met EXCEPT ![m] = @ \/ (last /\ task[m] \in {"enable", "start"})]  BY <1>3 DEF StepCounted
  <2> QED  BY <1>1, <2>1, Zenon DEF Steppers
<1>4. met' = met \/ \E n, last : StepCounted(m, n, last)  BY Zenon DEF Pulse, LostCount
<1> QED  BY <1>2, <1>3, <1>4

\* scpspin_move, scpspin_stop and the interrupt decide about the driver with what
\* check_spin_mt_on says, and nothing else does.
THEOREM ChannelInvariant == Spec => []ChannelInv
<1>1. Init => AsTold /\ InHand /\ PlacesRight
  BY DEF Init, AsTold, InHand, PlacesRight, Idle, Steppers
<1>2. StepInv /\ AsTold /\ [Next]_vars => AsTold'
  <2> SUFFICES ASSUME StepInv, AsTold, [Next]_vars PROVE AsTold'  OBVIOUS
  <2> USE DEF motor, Goto, IsrTo
  <2>1. CASE UNCHANGED vars  BY <2>1, Zenon DEF AsTold, vars
  <2>2. ASSUME NEW m \in Steppers, Receive(m) \/ Count(m) \/ Start(m) \/ StopTimer(m) PROVE AsTold'
    <3>1. UNCHANGED <<run, driver, held, met>> /\ (task'["spin"] = "enable" <=> task["spin"] = "enable")
      BY <2>2 DEF StepInv, TypeOK, Steppers, Idle, Receive, Count, Start, StopTimer
    <3> QED  BY <3>1, StaysTold
  <2>3. ASSUME NEW m \in Steppers, Run(m) PROVE AsTold'
    <3>1. CASE m = "spin"
      <4>1. held' = TRUE /\ task'["spin"] = "enable"  BY <2>3, <3>1 DEF StepInv, TypeOK, Run
      <4> QED  BY <4>1, Zenon DEF AsTold
    <3>2. CASE m = "waste"
      <4>1. /\ run'["spin"] = run["spin"] /\ driver' = driver /\ held' = held
            /\ task'["spin"] = task["spin"] /\ met'["spin"] = met["spin"]
        BY <2>3, <3>2 DEF StepInv, TypeOK, Steppers, Run
      <4> QED  BY <4>1, StaysTold
    <3> QED  BY <3>1, <3>2 DEF Steppers
  <2>4. ASSUME NEW m \in Steppers, Enable(m) PROVE AsTold'
    <3>1. CASE m = "spin"
      <4>1. /\ task["spin"] = "enable" /\ task'["spin"] = "start" /\ driver'["spin"] = TRUE
            /\ UNCHANGED <<held, met>>
        BY <2>4, <3>1 DEF StepInv, TypeOK, Enable
      <4>2. held \in BOOLEAN  BY DEF StepInv, TypeOK
      <4> QED  BY <4>1, <4>2, Zenon DEF AsTold
    <3>2. CASE m = "waste"
      <4>1. /\ run' = run /\ driver'["spin"] = driver["spin"] /\ held' = held
            /\ task'["spin"] = task["spin"] /\ met' = met
        BY <2>4, <3>2 DEF StepInv, TypeOK, Steppers, Enable
      <4> QED  BY <4>1, StaysTold
    <3> QED  BY <3>1, <3>2 DEF Steppers
  <2>5. ASSUME NEW m \in Steppers, Release(m) PROVE AsTold'
    <3>1. task["spin"] = "enable" <=> task'["spin"] = "enable"  BY <2>5 DEF StepInv, TypeOK, Release, Steppers, Idle
    <3>2. CASE m = "spin"
      <4>1. run' = run /\ task["spin"] # "enable" /\ met' = met  BY <2>5, <3>2 DEF Release
      <4>2. driver'["spin"] = (driver["spin"] /\ hold) /\ held' = (held /\ hold)
        BY <2>5, <3>2, Zenon DEF Release, Held, StepInv, TypeOK, Steppers
      <4> QED  BY <3>1, <4>1, <4>2, Zenon DEF AsTold
    <3>3. CASE m = "waste"
      <4>1. run' = run /\ held' = held /\ met'["spin"] = met["spin"]  BY <2>5, <3>3 DEF Release, StepInv, TypeOK, Steppers
      <4>2. driver'["spin"] = driver["spin"]
        BY <2>5, <3>3, Zenon DEF Release, StepInv, TypeOK, Steppers
      <4> QED  BY <3>1, <4>1, <4>2, StaysTold
    <3> QED  BY <3>2, <3>3 DEF Steppers
  <2>6. ASSUME NEW m \in Steppers, IsrRelease(m) PROVE AsTold'
    <3>1. UNCHANGED <<task, run, met>>  BY <2>6 DEF IsrRelease
    <3>2. CASE m = "spin"
      <4>1. ~met["spin"] => task["spin"] # "enable"
        BY <2>6, <3>2 DEF IsrRelease, StepInv, MotorInv, Starts, Steppers
      <4>2. driver'["spin"] = (driver["spin"] /\ hold) /\ held' = (held /\ hold)
        BY <2>6, <3>2, Zenon DEF IsrRelease, Held, StepInv, TypeOK, Steppers
      <4> QED  BY <3>1, <4>1, <4>2, Zenon DEF AsTold
    <3>3. CASE m = "waste"
      <4>1. held' = held  BY <2>6, <3>3 DEF IsrRelease
      <4>2. driver'["spin"] = driver["spin"]
        BY <2>6, <3>3, Zenon DEF IsrRelease, StepInv, TypeOK, Steppers
      <4> QED  BY <3>1, <4>1, <4>2, StaysTold
    <3> QED  BY <3>2, <3>3 DEF Steppers
  <2>7. CASE AutoStop \/ Halt \/ Look \/ Settle \/ Clear
    <3>1. CASE AutoStop \/ Halt \/ Look \/ Settle
      <4>1. /\ UNCHANGED <<driver, held, met>> /\ run'["spin"] = run["spin"]
            /\ (task'["spin"] = "enable" <=> task["spin"] = "enable")
        BY <3>1 DEF StepInv, TypeOK, Steppers, Idle, AutoStop, Halt, Look, Settle
      <4> QED  BY <4>1, StaysTold
    <3>2. CASE Clear
      <4>1. ~run'["spin"] /\ task'["spin"] # "enable"  BY <3>2 DEF StepInv, TypeOK, Steppers, Idle, Clear
      <4> QED  BY <4>1, Zenon DEF AsTold
    <3> QED  BY <2>7, <3>1, <3>2
  <2>8. ASSUME NEW m \in Steppers, IsrStopTimer(m) \/ IsrClear(m) PROVE AsTold'
    <3>1. UNCHANGED <<driver, held, met, task>> /\ (run'["spin"] => run["spin"])
      BY <2>8 DEF StepInv, TypeOK, Steppers, IsrStopTimer, IsrClear
    <3> QED  BY <3>1, StaysTold
  <2>9. ASSUME NEW m \in Steppers, Pulse(m) \/ LostCount(m) PROVE AsTold'
    <3>1. UNCHANGED <<driver, held, run>> /\ (task'["spin"] = "enable" <=> task["spin"] = "enable")
      BY <2>9 DEF StepInv, TypeOK, Steppers, Pulse, LostCount
    <3>2. met["spin"] => met'["spin"]  BY <2>9, MetStays
    <3> QED  BY <3>1, <3>2, StaysTold
  <2>10. CASE SetHold \/ \E m \in Steppers, d \in Motions \cup {"STOP"} : Post(m, d)
    <3>1. UNCHANGED <<driver, held, run, met, task>>  BY <2>10 DEF SetHold, Post
    <3> QED  BY <3>1, StaysTold
  <2> QED  BY <2>1, <2>2, <2>3, <2>4, <2>5, <2>6, <2>7, <2>8, <2>9, <2>10 DEF Next, TaskStep, IsrStep
<1>3. StepInv /\ InHand /\ [Next]_vars => InHand'
  <2> SUFFICES ASSUME StepInv, InHand, [Next]_vars PROVE InHand'  OBVIOUS
  <2> USE DEF motor, Goto, IsrTo, Idle
  <2>1. CASE UNCHANGED vars  BY <2>1 DEF InHand, vars
  <2>2. ASSUME NEW m \in Steppers, Receive(m) PROVE InHand'
    <3>1. Head(queue[m]) \in Motions \cup {"STOP"}
      <4>1. queue[m] \in Seq(Motions \cup {"STOP"}) /\ queue[m] # <<>>  BY <2>2 DEF StepInv, TypeOK, Receive
      <4> QED  BY <4>1, HeadTailProperties
    <3> QED  BY <2>2, <3>1 DEF InHand, StepInv, TypeOK, Receive, Steppers
  <2>3. ASSUME NEW m \in Steppers, Count(m) \/ Run(m) \/ Enable(m) \/ Start(m) PROVE InHand'
    BY <2>3 DEF InHand, StepInv, TypeOK, Steppers, Count, Run, Enable, Start
  <2>4. ASSUME NEW m \in Steppers, StopTimer(m) PROVE InHand'
    BY <2>4 DEF InHand, StepInv, TypeOK, Steppers, StopTimer
  <2>5. ASSUME NEW m \in Steppers, Release(m) PROVE InHand'
    <3>1. task[m] = "release" /\ msg' = msg /\ task' = [task EXCEPT ![m] = IF m = "waste" THEN Idle ELSE "clear"]
      BY <2>5 DEF Release
    <3> QED  BY <3>1 DEF InHand, StepInv, TypeOK, Steppers
  <2>6. CASE AutoStop \/ Halt \/ Look \/ Settle \/ Clear
    BY <2>6 DEF InHand, StepInv, TypeOK, Steppers, AutoStop, Halt, Look, Settle, Clear
  <2>7. ASSUME NEW m \in Steppers, IsrStep(m) PROVE InHand'
    <3>1. UNCHANGED msg /\ (task' = task \/ (task[m] = "count" /\ task' = [task EXCEPT ![m] = "run"]))
      BY <2>7 DEF IsrStep, Pulse, LostCount, IsrStopTimer, IsrRelease, IsrClear
    <3> QED  BY <3>1 DEF InHand, StepInv, TypeOK, Steppers
  <2>8. CASE SetHold \/ \E m \in Steppers, d \in Motions \cup {"STOP"} : Post(m, d)
    BY <2>8 DEF InHand, SetHold, Post
  <2> QED  BY <2>1, <2>2, <2>3, <2>4, <2>5, <2>6, <2>7, <2>8 DEF Next, TaskStep
<1>4. StepInv /\ PlacesRight /\ [Next]_vars => PlacesRight'
  <2> SUFFICES ASSUME StepInv, PlacesRight, [Next]_vars PROVE PlacesRight'  OBVIOUS
  <2>1. ASSUME NEW m \in Steppers, Pulse(m) \/ LostCount(m) PROVE PlacesRight'
    <3>1. place' = place \/ \E p \in Moved(m) : place' = [place EXCEPT ![m] = p]
      BY <2>1 DEF Pulse, LostCount, Turns
    <3> QED  BY <3>1 DEF PlacesRight, Moved, StepInv, TypeOK, Steppers
  <2>2. ASSUME NEW m \in Steppers, ~Pulse(m), ~LostCount(m), TaskStep(m) \/ IsrStep(m) PROVE place' = place
    BY <2>2 DEF TaskStep, IsrStep, Receive, Count, Run, Enable, Start, StopTimer, Release, AutoStop, Halt, Look, Settle,
       Clear, IsrStopTimer, IsrRelease, IsrClear
  <2> QED  BY <2>1, <2>2 DEF Next, SetHold, Post, vars, PlacesRight
<1> QED  BY <1>1, <1>2, <1>3, <1>4, StepInvariant, PTL DEF Spec, ChannelInv

\* What waits for a motor in the channel: its queue, behind the message in hand if that has
\* not taken effect yet.
Waiting(m) == IF Pending(m) THEN <<msg[m]>> \o queue[m] ELSE queue[m]
Motion(m)  == IF run[m] THEN dir[m] ELSE "STOP"

\* The state of the channel, motor by motor (step_motor_control.c has two of its five).
LEMMA ChannelState ==
  /\ absQueue = [m \in AllMotors |-> IF m \in Steppers THEN Waiting(m) ELSE <<>>]
  /\ absQueue' = [m \in AllMotors |-> IF m \in Steppers THEN Waiting(m)' ELSE <<>>]
  /\ absMotion = [m \in AllMotors |-> IF m \in Steppers THEN Motion(m) ELSE "STOP"]
  /\ absMotion' = [m \in AllMotors |-> IF m \in Steppers THEN Motion(m)' ELSE "STOP"]
  /\ Steppers \subseteq AllMotors
  BY DEF absQueue, absMotion, Waiting, Motion, Steppers, AllMotors

\* A message in hand is the first of those that wait.
LEMMA FirstInHand ==
  ASSUME TypeOK, NEW m \in Steppers, Pending(m)
  PROVE  Waiting(m) # <<>> /\ Head(Waiting(m)) = msg[m] /\ Tail(Waiting(m)) = queue[m]
<1> DEFINE S == Motions \cup {"STOP", "auto"}
<1>1. queue[m] \in Seq(S) /\ <<msg[m]>> \in Seq(S) /\ Len(<<msg[m]>>) = 1 /\ <<msg[m]>>[1] = msg[m]
  BY DEF TypeOK
<1>2. Waiting(m) = <<msg[m]>> \o queue[m]  BY DEF Waiting
<1>3. /\ <<msg[m]>> \o queue[m] \in Seq(S) /\ Len(<<msg[m]>> \o queue[m]) = 1 + Len(queue[m])
      /\ \A k \in 1..Len(<<msg[m]>>) + Len(queue[m]) : (<<msg[m]>> \o queue[m])[k] =
            IF k <= Len(<<msg[m]>>) THEN <<msg[m]>>[k] ELSE queue[m][k - Len(<<msg[m]>>)]
  <2> HIDE DEF S
  <2> QED  BY <1>1, ConcatProperties
<1> HIDE DEF S
<1>4. Len(queue[m]) \in Nat  BY <1>1, LenProperties
<1>5. Waiting(m) \in Seq(S) /\ Waiting(m) # <<>>  BY <1>2, <1>3, <1>4, EmptySeq
<1>6. /\ Head(Waiting(m)) = Waiting(m)[1] /\ Tail(Waiting(m)) \in Seq(S)
      /\ Len(Tail(Waiting(m))) = Len(Waiting(m)) - 1
      /\ \A k \in 1..Len(Tail(Waiting(m))) : Tail(Waiting(m))[k] = Waiting(m)[k + 1]
  BY <1>5, HeadTailProperties
<1>7. Head(Waiting(m)) = msg[m]  BY <1>1, <1>2, <1>3, <1>4, <1>6
<1>8. Tail(Waiting(m)) = queue[m]
  <2>1. Len(Tail(Waiting(m))) = Len(queue[m])  BY <1>2, <1>3, <1>4, <1>6
  <2>2. ASSUME NEW k \in 1..Len(queue[m]) PROVE Tail(Waiting(m))[k] = queue[m][k]
    <3>1. Tail(Waiting(m))[k] = Waiting(m)[k + 1]  BY <1>6, <2>1
    <3>2. k + 1 \in 1..Len(<<msg[m]>>) + Len(queue[m]) /\ ~(k + 1 <= Len(<<msg[m]>>)) /\ k + 1 - Len(<<msg[m]>>) = k
      BY <1>1, <1>4
    <3> QED  BY <1>2, <1>3, <3>1, <3>2
  <2> QED  BY <1>1, <1>6, <2>1, <2>2, SeqEqual
<1> QED  BY <1>5, <1>7, <1>8

\* What leaves the message, the motion, the place and the spindle's driver alone is no step
\* of the channel: a statement between two that Scenario can see.
LEMMA NoStep ==
  ASSUME \A n \in Steppers : Waiting(n)' = Waiting(n) /\ Motion(n)' = Motion(n),
         place' = place, absEnergised' = absEnergised
  PROVE  UNCHANGED Channel!channel
<1>1. absQueue' = absQueue /\ absMotion' = absMotion  BY ChannelState
<1>2. absPlace' = absPlace  BY DEF absPlace
<1> QED  BY <1>1, <1>2 DEF Channel!channel

\* A message takes effect: it is the next one of the channel that is handled.
LEMMA Takes ==
  ASSUME TypeOK, NEW m \in Steppers, NEW h, Pending(m), Waiting(m)' = queue[m], Motion(m)' = msg[m],
         \A n \in Steppers \ {m} : Waiting(n)' = Waiting(n) /\ Motion(n)' = Motion(n),
         place' = place,
         absEnergised' = IF m # "spin" THEN absEnergised
                         ELSE msg[m] # "STOP" \/ (absEnergised /\ (h \/ Motion(m) = "STOP"))
  PROVE  Channel!Handle(m, h)
<1>1. m \in AllMotors /\ absQueue[m] = Waiting(m) /\ absMotion[m] = Motion(m)  BY ChannelState
<1>2. absQueue[m] # <<>> /\ Head(absQueue[m]) = msg[m] /\ Tail(absQueue[m]) = queue[m]  BY <1>1, FirstInHand
<1>3. absQueue' = [absQueue EXCEPT ![m] = Tail(@)]  BY <1>1, <1>2, ChannelState
<1>4. absMotion' = [absMotion EXCEPT ![m] = Head(absQueue[m])]  BY <1>1, <1>2, ChannelState
<1>5. absPlace' = absPlace  BY DEF absPlace
<1>6. absEnergised' = IF m # "spin" THEN absEnergised
                      ELSE \/ Head(absQueue[m]) # "STOP"
                           \/ absEnergised /\ (h \/ absMotion[m] = "STOP")
  BY <1>1, <1>2, Zenon
<1> QED  BY <1>2, <1>3, <1>4, <1>5, <1>6 DEF Channel!Handle

\* A run flag that is cleared before any message has arrived: the motion ends by itself.
LEMMA Ends ==
  ASSUME NEW m \in Steppers, NEW h, run[m], dir[m] \in Motions, Motion(m)' = "STOP",
         \A n \in Steppers : Waiting(n)' = Waiting(n),
         \A n \in Steppers \ {m} : Motion(n)' = Motion(n),
         place' = place,
         absEnergised' = (absEnergised /\ (m = "spin" => h))
  PROVE  Channel!StepsDone(m, h)
<1>1. m \in AllMotors /\ absMotion[m] = dir[m]  BY ChannelState DEF Motion
<1>2. absMotion' = [absMotion EXCEPT ![m] = "STOP"]  BY <1>1, ChannelState
<1>3. absQueue' = absQueue  BY ChannelState
<1>4. absPlace' = absPlace  BY DEF absPlace
<1>5. m \in Channel!Steppers /\ absMotion[m] # "STOP"  BY <1>1 DEF Channel!Steppers, Steppers, Motions
<1> QED  BY <1>2, <1>3, <1>4, <1>5 DEF Channel!StepsDone

\* A step of the motor moves the part as the channel lets it travel.
LEMMA PartMoves ==
  ASSUME TypeOK, PlacesRight, NEW m \in Steppers, NEW h, run[m],
         NEW p \in Moved(m), p # place[m], place' = [place EXCEPT ![m] = p],
         \A n \in Steppers : Waiting(n)' = Waiting(n) /\ Motion(n)' = Motion(n),
         absEnergised' = absEnergised
  PROVE  Channel!Travel(m)
<1>1. m \in AllMotors /\ absMotion[m] = dir[m] /\ absPlace[m] = place[m] /\ dir[m] \in Motions
  BY ChannelState DEF Motion, absPlace, TypeOK
<1>2. absQueue' = absQueue /\ absMotion' = absMotion  BY ChannelState
<1>3. absPlace' = [absPlace EXCEPT ![m] = p]  BY DEF absPlace, TypeOK, Steppers, AllMotors
<1>4. CASE m = "waste"
  <2>1. p = Channel!SlidTo(m) /\ absPlace[m] # Channel!EndStop(absMotion[m])
    BY <1>1, <1>4 DEF Moved, Channel!SlidTo, Channel!EndStop, PlacesRight, Motions
  <2> QED  BY <1>1, <1>2, <1>3, <1>4, <2>1 DEF Channel!Travel, Channel!Sliders, Motions
<1>5. CASE m = "spin"
  <2>1. p = Channel!TurnedTo(m)
    BY <1>1, <1>5 DEF Moved, Channel!TurnedTo, PlacesRight
  <2> QED  BY <1>1, <1>2, <1>3, <1>5, <2>1 DEF Channel!Travel, Motions
<1> QED  BY <1>4, <1>5 DEF Steppers

\* What a motor's own steps leave alone of the other one.
LEMMA OtherMotor ==
  ASSUME NEW n \in Steppers, queue'[n] = queue[n], task'[n] = task[n], msg'[n] = msg[n],
         run'[n] = run[n], dir'[n] = dir[n]
  PROVE  Waiting(n)' = Waiting(n) /\ Motion(n)' = Motion(n)
BY DEF Waiting, Motion, Pending

\* The statements of the two command tasks that nobody else sees.
LEMMA TaskUnseen ==
  ASSUME ChannelInv, NEW m \in Steppers,
         \/ Receive(m) \/ Count(m) \/ Start(m) \/ StopTimer(m)
         \/ m = "waste" /\ (Enable(m) \/ AutoStop \/ Release(m))
         \/ m = "spin" /\ Settle
  PROVE  UNCHANGED Channel!channel
<1> USE DEF motor, Goto
<1>1. run' = run /\ dir' = dir /\ place' = place
  BY DEF Receive, Count, Enable, Start, StopTimer, AutoStop, Settle, Release
<1>2. \A n \in Steppers : Motion(n)' = Motion(n)  BY <1>1 DEF Motion
<1>3. ASSUME NEW n \in Steppers PROVE Waiting(n)' = Waiting(n)
  <2>1. CASE Receive(m)
    <3>1. queue[m] \in Seq(Motions \cup {"STOP"}) /\ queue[m] # <<>>
      BY <2>1 DEF ChannelInv, StepInv, TypeOK, Receive
    <3>2. <<Head(queue[m])>> \o Tail(queue[m]) = queue[m] /\ Head(queue[m]) \in Motions \cup {"STOP"}
      <4> DEFINE s == queue[m]
                 t == <<Head(s)>> \o Tail(s)
                 S == Motions \cup {"STOP"}
      <4>1. /\ Head(s) \in S /\ Tail(s) \in Seq(S) /\ Head(s) = s[1] /\ Len(Tail(s)) = Len(s) - 1
            /\ \A k \in 1..Len(Tail(s)) : Tail(s)[k] = s[k + 1]
        BY <3>1, HeadTailProperties
      <4>2. Len(s) \in Nat /\ Len(s) > 0  BY <3>1, EmptySeq
      <4> HIDE DEF s, S
      <4>3. <<Head(s)>> \in Seq(S) /\ Len(<<Head(s)>>) = 1 /\ <<Head(s)>>[1] = Head(s)  BY <4>1
      <4>4. /\ t \in Seq(S) /\ Len(t) = Len(<<Head(s)>>) + Len(Tail(s))
            /\ \A k \in 1..Len(<<Head(s)>>) + Len(Tail(s)) : t[k] =
                  IF k <= Len(<<Head(s)>>) THEN <<Head(s)>>[k] ELSE Tail(s)[k - Len(<<Head(s)>>)]
        BY <4>1, <4>3, ConcatProperties
      <4> HIDE DEF t
      <4>5. Len(t) = Len(s)  BY <4>1, <4>2, <4>3, <4>4
      <4>6. ASSUME NEW k \in 1..Len(s) PROVE t[k] = s[k]
        <5>1. CASE k = 1  BY <4>1, <4>2, <4>3, <4>4, <5>1
        <5>2. CASE k > 1
          <6>1. k - 1 \in 1..Len(Tail(s)) /\ k - 1 + 1 = k  BY <4>1, <4>2, <5>2
          <6>2. t[k] = Tail(s)[k - 1]  BY <4>1, <4>2, <4>3, <4>4, <5>2
          <6> QED  BY <4>1, <6>1, <6>2
        <5> QED  BY <5>1, <5>2
      <4>7. s \in Seq(S)  BY <3>1 DEF s, S
      <4>8. t = s  BY <4>4, <4>5, <4>6, <4>7, SeqEqual
      <4> QED  BY <4>1, <4>8 DEF t, s, S
    <3> QED
      <4>1. CASE n = m
        <5>1. ~Pending(m)  BY <2>1 DEF Pending, Receive, Idle
        <5>2. Pending(m)' /\ msg'[m] = Head(queue[m]) /\ queue'[m] = Tail(queue[m])
          BY <2>1, <3>2 DEF Pending, Receive, ChannelInv, StepInv, TypeOK, Steppers, Motions
        <5> QED  BY <3>2, <4>1, <5>1, <5>2 DEF Waiting
      <4>2. CASE n # m
        BY <2>1, <4>2, OtherMotor DEF Receive, ChannelInv, StepInv, TypeOK
      <4> QED  BY <4>1, <4>2
  <2>2. ASSUME ~Receive(m) PROVE queue' = queue /\ \A k \in Steppers : (Pending(k)' <=> Pending(k)) /\ (Pending(k) => msg'[k] = msg[k])
    <3>1. CASE Count(m) \/ Enable(m) \/ Start(m) \/ StopTimer(m) \/ (m = "spin" /\ Settle) \/ (m = "waste" /\ Release(m))
      BY <3>1 DEF Count, Enable, Start, StopTimer, Settle, Release, Pending, Idle, ChannelInv, StepInv, TypeOK, Steppers
    <3>2. CASE m = "waste" /\ AutoStop
      BY <3>2 DEF AutoStop, Pending, Idle, ChannelInv, StepInv, TypeOK, Steppers
    <3> QED  BY <2>2, <3>1, <3>2
  <2> QED  BY <2>1, <2>2 DEF Waiting
<1>4. absEnergised' = absEnergised
  <2>1. CASE m = "waste" /\ Enable(m)
    <3>1. driver'["spin"] = driver["spin"]  BY <2>1, Zenon DEF Enable, ChannelInv, StepInv, TypeOK, Steppers
    <3> QED  BY <1>1, <3>1, Zenon DEF absEnergised
  <2>2. CASE m = "waste" /\ Release(m)
    <3>1. driver'["spin"] = driver["spin"]  BY <2>2, Zenon DEF Release, ChannelInv, StepInv, TypeOK, Steppers
    <3> QED  BY <1>1, <3>1, Zenon DEF absEnergised
  <2>3. CASE ~(m = "waste" /\ (Enable(m) \/ Release(m)))
    <3>1. driver' = driver  BY <2>3 DEF Receive, Count, Start, StopTimer, AutoStop, Settle
    <3> QED  BY <1>1, <3>1 DEF absEnergised
  <2> QED  BY <2>1, <2>2, <2>3
<1> QED  BY <1>1, <1>2, <1>3, <1>4, NoStep

\* The driver of a spindle that starts goes on, if its motion is not over by then already.
LEMMA EnableSeen == ASSUME ChannelInv, Enable("spin") PROVE Astray \/ UNCHANGED Channel!channel
<1> USE DEF Enable, motor, Goto
<1>1. UNCHANGED <<queue, msg, run, dir, place, met>>  OBVIOUS
<1>2. \A n \in Steppers : Waiting(n)' = Waiting(n) /\ Motion(n)' = Motion(n)
  <2>1. \A n \in Steppers : Pending(n)' <=> Pending(n)  BY DEF Pending, ChannelInv, StepInv, TypeOK, Steppers
  <2> QED  BY <1>1, <2>1 DEF Waiting, Motion
<1>3. CASE run["spin"]
  <2>1. run'["spin"]  BY <1>1, <1>3
  <2>2. absEnergised' = absEnergised  BY <1>3, <2>1, Zenon DEF absEnergised
  <2> QED  BY <1>1, <1>2, <2>2, NoStep
<1>4. CASE ~run["spin"]
  <2>1. met["spin"]  BY <1>4 DEF ChannelInv, StepInv, MotorInv, Starts, Steppers
  <2>2. absQueue' = absQueue /\ absMotion' = absMotion  BY <1>2, ChannelState
  <2>3. absPlace' = absPlace  BY <1>1 DEF absPlace
  <2> QED  BY <2>1, <2>2, <2>3 DEF Astray
<1> QED  BY <1>3, <1>4

\* A step of the channel, for one whom check_spin_mt_on told h.
Stepped == \E m \in Steppers : \E h \in Told : Channel!MotorStep(m, h)

\* Both held and, while the spindle runs, its driver are what somebody was told
\* (step_motor_control.c).
LEMMA SomebodyTold ==
  ASSUME ChannelInv
  PROVE  /\ held \in Told
         /\ run["spin"] /\ (~met["spin"] => task["spin"] # "enable") => driver["spin"] \in Told
<1>1. held \in BOOLEAN /\ driver["spin"] \in BOOLEAN  BY DEF ChannelInv, StepInv, TypeOK, Steppers
<1>2. CASE met["spin"]  BY <1>1, <1>2 DEF Told
<1>3. CASE ~met["spin"]
  <2>1. held \in Told  BY <1>3 DEF Told
  <2>2. run["spin"] /\ task["spin"] # "enable" => driver["spin"] = held  BY <1>3 DEF ChannelInv, AsTold
  <2> QED  BY <1>3, <2>1, <2>2
<1> QED  BY <1>2, <1>3

\* waste_motor_move and scpspin_move: the motion takes effect with the run flag.
LEMMA RunSeen == ASSUME ChannelInv, NEW m \in Steppers, Run(m) PROVE Stepped
<1> USE DEF Run, Goto
<1>1. TypeOK /\ Pending(m) /\ msg[m] \in Motions
  BY DEF ChannelInv, StepInv, MotorInv, Starts, Starting, Pending
<1>2. Waiting(m)' = queue[m] /\ Motion(m)' = msg[m]
  BY DEF Waiting, Motion, Pending, ChannelInv, StepInv, TypeOK, Steppers
<1>3. \A n \in Steppers \ {m} : Waiting(n)' = Waiting(n) /\ Motion(n)' = Motion(n)
  BY OtherMotor DEF ChannelInv, StepInv, TypeOK
<1>4. absEnergised' = IF m # "spin" THEN absEnergised
                      ELSE msg[m] # "STOP" \/ (absEnergised /\ (held \/ Motion(m) = "STOP"))
  <2>1. CASE m = "spin"
    <3>1. run'["spin"] /\ msg[m] # "STOP"  BY <1>1, <2>1 DEF ChannelInv, StepInv, TypeOK, Motions
    <3> QED  BY <2>1, <3>1, Zenon DEF absEnergised
  <2>2. CASE m = "waste"
    <3>1. driver' = driver /\ run'["spin"] = run["spin"]  BY <2>2 DEF ChannelInv, StepInv, TypeOK, Steppers
    <3> QED  BY <2>2, <3>1, Zenon DEF absEnergised
  <2> QED  BY <2>1, <2>2 DEF Steppers
<1>5. Channel!Handle(m, held)
  <2>1. place' = place  OBVIOUS
  <2> HIDE DEF Run
  <2> QED  BY <1>1, <1>2, <1>3, <1>4, <2>1, Takes
<1> QED  BY <1>5, SomebodyTold DEF Stepped, Channel!MotorStep

\* waste_motor_stop clears the run flag: the STOP takes effect, or, if the cover has reached
\* its sensor, the motion ends.
LEMMA HaltSeen == ASSUME ChannelInv, Halt PROVE Stepped \/ UNCHANGED Channel!channel
<1> USE DEF Halt, Goto
<1>1. TypeOK /\ "waste" \in Steppers /\ dir["waste"] \in Motions
  BY DEF ChannelInv, StepInv, TypeOK, Steppers
<1>2. place' = place /\ Motion("waste")' = "STOP"  BY DEF Motion, ChannelInv, StepInv, TypeOK, Steppers
<1>3. \A n \in Steppers \ {"waste"} : Waiting(n)' = Waiting(n) /\ Motion(n)' = Motion(n)
  BY OtherMotor DEF ChannelInv, StepInv, TypeOK
<1>4. absEnergised' = absEnergised
  <2>1. driver' = driver /\ run'["spin"] = run["spin"]  BY DEF ChannelInv, StepInv, TypeOK, Steppers
  <2> QED  BY <2>1, Zenon DEF absEnergised
<1>5. Waiting("waste")' = queue["waste"]
  BY DEF Waiting, Pending, ChannelInv, StepInv, TypeOK, Steppers
<1> HIDE DEF Halt
<1>6. CASE msg["waste"] = "STOP"
  <2>1. Pending("waste")  BY <1>6 DEF Pending, Halt
  <2>2. Motion("waste")' = msg["waste"]  BY <1>2, <1>6
  <2>3. absEnergised' = IF "waste" # "spin" THEN absEnergised
                        ELSE msg["waste"] # "STOP" \/ (absEnergised /\ (held \/ Motion("waste") = "STOP"))
    BY <1>4
  <2>4. Channel!Handle("waste", held)
    BY ONLY <1>1, <1>2, <1>3, <1>5, <2>1, <2>2, <2>3, Takes
  <2> QED  BY <1>1, <2>4, SomebodyTold DEF Stepped, Channel!MotorStep
<1>7. CASE msg["waste"] # "STOP"
  <2>1. \A n \in Steppers : Waiting(n)' = Waiting(n)
    BY <1>3, <1>5, <1>7 DEF Waiting, Pending, Halt
  <2>2. CASE run["waste"]
    <3>1. absEnergised' = (absEnergised /\ ("waste" = "spin" => held))  BY <1>4, Zenon DEF absEnergised
    <3>2. Channel!StepsDone("waste", held)
      BY ONLY <1>1, <1>2, <1>3, <2>1, <2>2, <3>1, Ends
    <3> QED  BY <1>1, <3>2, SomebodyTold DEF Stepped, Channel!MotorStep
  <2>3. CASE ~run["waste"]
    <3>1. Motion("waste")' = Motion("waste")  BY <1>2, <2>3 DEF Motion
    <3> QED  BY <1>2, <1>3, <1>4, <2>1, <3>1, NoStep
  <2> QED  BY <2>2, <2>3
<1> QED  BY <1>6, <1>7

\* A STOP for a spindle that is not running is taken at once; scpspin_stop takes the others
\* when it clears the run flag.
LEMMA SpinStopSeen == ASSUME ChannelInv, Look \/ Clear PROVE Stepped \/ UNCHANGED Channel!channel
<1> USE DEF Goto
<1>1. TypeOK /\ "spin" \in Steppers /\ Pending("spin") /\ msg["spin"] = "STOP"
  BY DEF ChannelInv, StepInv, Steppers, InHand, Pending, Look, Clear
<1>2. place' = place /\ driver' = driver  BY DEF Look, Clear, motor
<1>3. \A n \in Steppers \ {"spin"} : Waiting(n)' = Waiting(n) /\ Motion(n)' = Motion(n)
  BY OtherMotor DEF Look, Clear, motor, ChannelInv, StepInv, TypeOK
<1>4. CASE Look /\ run["spin"]
  <2>1. Waiting("spin")' = Waiting("spin") /\ Motion("spin")' = Motion("spin")
    BY <1>4 DEF Look, motor, Waiting, Motion, Pending, Idle, ChannelInv, StepInv, TypeOK, Steppers
  <2>2. absEnergised' = absEnergised  BY <1>4, <1>2 DEF Look, motor, absEnergised
  <2> QED  BY <1>2, <1>3, <2>1, <2>2, NoStep
<1>5. CASE Clear \/ (Look /\ ~run["spin"])
  <2>1. ~run'["spin"]  BY <1>5 DEF Clear, Look, motor, ChannelInv, StepInv, TypeOK, Steppers
  <2>2. Waiting("spin")' = queue["spin"]
    BY <1>5 DEF Clear, Look, motor, Waiting, Pending, Idle, ChannelInv, StepInv, TypeOK, Steppers
  <2>3. Motion("spin")' = msg["spin"]  BY <1>1, <2>1 DEF Motion
  <2>4. driver["spin"] \in BOOLEAN /\ run["spin"] \in BOOLEAN /\ held \in BOOLEAN
    BY DEF ChannelInv, StepInv, TypeOK, Steppers
  <2>5. absEnergised' = driver["spin"]  BY <1>2, <2>1, <2>4 DEF absEnergised
  <2>6. PICK h \in Told : run["spin"] => driver["spin"] = h
    <3>1. task["spin"] # "enable"  BY <1>5 DEF Clear, Look
    <3> QED  BY <3>1, SomebodyTold
  <2>7. absEnergised' = IF "spin" # "spin" THEN absEnergised
                        ELSE msg["spin"] # "STOP" \/ (absEnergised /\ (h \/ Motion("spin") = "STOP"))
    <3>1. CASE run["spin"]
      <4>1. driver["spin"] = h  BY <2>6, <3>1
      <4>2. Motion("spin") # "STOP" /\ absEnergised
        BY <1>1, <3>1 DEF Motion, absEnergised, TypeOK, Motions
      <4> QED  BY <1>1, <2>4, <2>5, <4>1, <4>2
    <3>2. CASE ~run["spin"]
      <4>1. Motion("spin") = "STOP"  BY <3>2 DEF Motion
      <4>2. absEnergised = driver["spin"]  BY <2>4, <3>2 DEF absEnergised
      <4> QED  BY <1>1, <2>4, <2>5, <4>1, <4>2
    <3> QED  BY <3>1, <3>2
  <2>8. Channel!Handle("spin", h)
    BY ONLY <1>1, <1>2, <1>3, <2>2, <2>3, <2>7, Takes
  <2> QED  BY <1>1, <2>8 DEF Stepped, Channel!MotorStep
<1> QED  BY <1>4, <1>5

\* The driver of a spindle that does not run any more and is not held goes off.
SwitchedOff ==
  absMotion["spin"] = "STOP" /\ ~hold /\ ~absEnergised' /\ UNCHANGED <<absQueue, absMotion, absPlace>>

\* Task and interrupt release the driver of the spindle: that is nothing while the run flag
\* is set, and the driver's end when the other one has cleared it in the meantime.
LEMMA ReleaseSeen ==
  ASSUME ChannelInv, Release("spin") \/ (\E m \in Steppers : IsrRelease(m))
  PROVE  SwitchedOff \/ UNCHANGED Channel!channel
<1> USE DEF Goto, IsrTo
<1>1. run' = run /\ place' = place /\ dir' = dir /\ queue' = queue /\ msg' = msg  BY DEF Release, IsrRelease
<1>2. \A n \in Steppers : Waiting(n)' = Waiting(n) /\ Motion(n)' = Motion(n)
  <2>1. \A n \in Steppers : Pending(n)' <=> Pending(n)
    <3>1. CASE task' = task  BY <1>1, <3>1 DEF Pending
    <3>2. CASE Release("spin")
      <4>1. task["spin"] = "release" /\ task' = [task EXCEPT !["spin"] = "clear"]  BY <3>2 DEF Release
      <4> QED  BY <1>1, <4>1 DEF Pending, ChannelInv, StepInv, TypeOK, Steppers
    <3> QED  BY <3>1, <3>2 DEF IsrRelease
  <2> QED  BY <1>1, <2>1 DEF Waiting, Motion
<1>3. driver'["spin"] = driver["spin"] \/ (driver'["spin"] = FALSE /\ ~hold)
  <2>1. driver \in [Steppers -> BOOLEAN] /\ hold \in BOOLEAN  BY DEF ChannelInv, StepInv, TypeOK
  <2>2. PICK m \in Steppers : driver' = [driver EXCEPT ![m] = @ /\ Held(m)]
    BY DEF Release, IsrRelease, Steppers
  <2>3. CASE m = "waste"
    <3>1. driver'["spin"] = driver["spin"]  BY <2>1, <2>2, <2>3 DEF Steppers
    <3> QED  BY <3>1
  <2>4. CASE m = "spin"
    <3>1. driver'["spin"] = (driver["spin"] /\ hold)  BY <2>1, <2>2, <2>4, Zenon DEF Held, Steppers
    <3>2. driver["spin"] \in BOOLEAN  BY <2>1 DEF Steppers
    <3> QED  BY <2>1, <3>1, <3>2
  <2> QED  BY <2>3, <2>4 DEF Steppers
<1>4. CASE driver'["spin"] = driver["spin"] \/ run["spin"]
  <2>1. absEnergised' = absEnergised
    <3>1. CASE driver'["spin"] = driver["spin"]  BY <1>1, <3>1, Zenon DEF absEnergised
    <3>2. CASE run["spin"]
      <4>1. run'["spin"]  BY <1>1, <3>2
      <4> QED  BY <3>2, <4>1, Zenon DEF absEnergised
    <3> QED  BY <1>4, <3>1, <3>2
  <2> QED  BY <1>1, <1>2, <2>1, NoStep
<1>5. CASE driver'["spin"] = FALSE /\ ~hold /\ ~run["spin"]
  <2>1. ~run'["spin"] /\ ~driver'["spin"]  BY <1>1, <1>5
  <2>2. ~absEnergised'  BY <2>1, Zenon DEF absEnergised
  <2>3. "spin" \in Steppers /\ absMotion["spin"] = "STOP"  BY <1>5, ChannelState DEF Motion, Steppers
  <2>4. absQueue' = absQueue /\ absMotion' = absMotion  BY <1>2, ChannelState
  <2>5. absPlace' = absPlace  BY <1>1 DEF absPlace
  <2> QED  BY <1>5, <2>2, <2>3, <2>4, <2>5 DEF SwitchedOff
<1> QED  BY <1>3, <1>4, <1>5

\* The callback and the interrupt clear the run flag: the last step of the motion.
LEMMA LastStepSeen ==
  ASSUME ChannelInv, NEW m \in Steppers, IsrClear(m)
  PROVE  Stepped \/ UNCHANGED Channel!channel
<1>1. /\ place' = place /\ driver' = driver /\ queue' = queue /\ task' = task /\ msg' = msg /\ dir' = dir
      /\ isr[m] = "clear" /\ ~run'[m] /\ \A n \in Steppers \ {m} : run'[n] = run[n]
  BY DEF IsrClear, ChannelInv, StepInv, TypeOK
<1>2. \A n \in Steppers : Waiting(n)' = Waiting(n)  BY <1>1 DEF Waiting, Pending
<1>3. Motion(m)' = "STOP" /\ \A n \in Steppers \ {m} : Motion(n)' = Motion(n)  BY <1>1 DEF Motion
<1>4. /\ dir[m] \in Motions /\ driver["spin"] \in BOOLEAN /\ run["spin"] \in BOOLEAN /\ held \in BOOLEAN
      /\ driver'["spin"] = driver["spin"]
  BY <1>1 DEF ChannelInv, StepInv, TypeOK, Steppers
<1>5. CASE run[m]
  <2>1. PICK h \in Told : m = "spin" => driver["spin"] = h
    <3>1. m = "spin" /\ ~met["spin"] => task["spin"] # "enable"
      BY <1>1 DEF ChannelInv, StepInv, MotorInv, Starts, Steppers
    <3> QED  BY <1>5, <3>1, SomebodyTold
  <2>2. absEnergised' = (absEnergised /\ (m = "spin" => h))
    <3>1. CASE m = "waste"
      <4>1. run'["spin"] = run["spin"]  BY <1>1, <3>1 DEF Steppers
      <4>2. absEnergised' = absEnergised /\ absEnergised \in BOOLEAN
        BY <1>4, <4>1, Zenon DEF absEnergised
      <4> QED  BY <3>1, <4>2
    <3>2. CASE m = "spin"
      <4>1. driver["spin"] = h  BY <2>1, <3>2
      <4>2. absEnergised' = driver["spin"]  BY <1>1, <1>4, <3>2 DEF absEnergised
      <4>3. absEnergised  BY <1>5, <3>2 DEF absEnergised
      <4> QED  BY <1>4, <3>2, <4>1, <4>2, <4>3
    <3> QED  BY <3>1, <3>2 DEF Steppers
  <2>3. Channel!StepsDone(m, h)  BY <1>1, <1>2, <1>3, <1>4, <1>5, <2>2, Ends
  <2> QED  BY <2>3 DEF Stepped, Channel!MotorStep
<1>6. CASE ~run[m]
  <2>1. Motion(m)' = Motion(m)  BY <1>3, <1>6 DEF Motion
  <2>2. run'["spin"] = run["spin"]
    BY <1>1, <1>6 DEF IsrClear, ChannelInv, StepInv, TypeOK, Steppers
  <2>3. absEnergised' = absEnergised  BY <1>4, <2>2, Zenon DEF absEnergised
  <2> QED  BY <1>1, <1>2, <1>3, <2>1, <2>3, NoStep
<1> QED  BY <1>5, <1>6

\* A pulse moves the part, or nothing that Scenario sees; nor does the stop of the timer.
LEMMA PulseSeen ==
  ASSUME ChannelInv, NEW m \in Steppers, Pulse(m) \/ LostCount(m) \/ IsrStopTimer(m)
  PROVE  Stepped \/ Astray \/ UNCHANGED Channel!channel
<1>1. /\ UNCHANGED <<queue, msg, run, dir, driver>>
      /\ task' = task \/ (task[m] = "count" /\ task' = [task EXCEPT ![m] = "run"])
  BY DEF Pulse, LostCount, IsrStopTimer, Goto
<1>2. \A n \in Steppers : Waiting(n)' = Waiting(n) /\ Motion(n)' = Motion(n)
  <2>1. \A n \in Steppers : Pending(n)' <=> Pending(n)
    BY <1>1 DEF Pending, ChannelInv, StepInv, TypeOK, Steppers
  <2> QED  BY <1>1, <2>1 DEF Waiting, Motion
<1>3. absEnergised' = absEnergised  BY <1>1 DEF absEnergised
<1>4. CASE place' = place  BY <1>2, <1>3, <1>4, NoStep
<1>5. CASE place' # place
  <2>1. /\ run[m] \/ (m = "spin" /\ timer[m] = "on")
        /\ \E p \in Moved(m) : place' = [place EXCEPT ![m] = p]
    BY <1>5 DEF Pulse, LostCount, IsrStopTimer, Turns
  <2>2. PICK p \in Moved(m) : place' = [place EXCEPT ![m] = p]  BY <2>1
  <2>3. p # place[m]  BY <1>5, <2>2 DEF ChannelInv, StepInv, TypeOK
  <2>4. TypeOK /\ PlacesRight  BY DEF ChannelInv, StepInv
  <2>5. CASE run[m]
    <3>1. Channel!Travel(m)  BY <1>2, <1>3, <2>2, <2>3, <2>4, <2>5, PartMoves
    <3> QED  BY <3>1, SomebodyTold DEF Stepped, Channel!MotorStep
  <2>6. CASE ~run[m]
    <3>1. m = "spin" /\ met["spin"]
      BY <2>1, <2>6 DEF ChannelInv, StepInv, MotorInv, SpinStory
    <3>2. absQueue' = absQueue /\ absMotion' = absMotion  BY <1>2, ChannelState
    <3>3. "spin" \in AllMotors /\ absPlace["spin"] = place["spin"]  BY DEF absPlace, Steppers, AllMotors
    <3>4. p = Channel!TurnedTo("spin")  BY <2>3, <2>4, <3>1, <3>3 DEF Moved, Channel!TurnedTo, PlacesRight
    <3>5. absPlace' = [absPlace EXCEPT !["spin"] = Channel!TurnedTo("spin")]
      <4>1. place' = [place EXCEPT !["spin"] = p]  BY <2>2, <3>1
      <4>2. absPlace' = [absPlace EXCEPT !["spin"] = p]  BY <2>4, <4>1 DEF absPlace, TypeOK, Steppers, AllMotors
      <4> QED  BY <3>4, <4>2
    <3> QED  BY <3>1, <3>2, <3>5 DEF Astray
  <2> QED  BY <2>5, <2>6
<1> QED  BY <1>4, <1>5

\* send_waste_motor_msg and send_scpspin_motor_msg: a message more waits for the motor.
LEMMA PostSeen ==
  ASSUME StepAssumption, ChannelInv, NEW m \in Steppers, NEW d \in Motions \cup {"STOP"}, Post(m, d)
  PROVE  absQueue' = Channel!Posted({m}, d) /\ UNCHANGED <<absMotion, absPlace, absEnergised>>
<1> DEFINE S == Motions \cup {"STOP", "auto"}
<1>1. UNCHANGED <<task, msg, run, dir, driver, place>> /\ queue' = [queue EXCEPT ![m] = Append(@, d)] /\ Len(queue[m]) < QueueLength
  BY DEF Post, motor
<1>2. queue[m] \in Seq(S) /\ <<msg[m]>> \in Seq(S) /\ Len(<<msg[m]>>) = 1 /\ d \in S
  BY DEF ChannelInv, StepInv, TypeOK
<1>3. queue'[m] = Append(queue[m], d) /\ \A n \in Steppers \ {m} : queue'[n] = queue[n]
  BY <1>1 DEF ChannelInv, StepInv, TypeOK
<1> HIDE DEF S
<1>4. \A n \in Steppers : Pending(n)' <=> Pending(n)  BY <1>1 DEF Pending
<1>5. Waiting(m)' = Append(Waiting(m), d) /\ Len(Waiting(m)) < QueueLength + 1
  <2>1. CASE ~Pending(m)
    <3>1. Len(queue[m]) \in Nat /\ QueueLength \in Nat  BY <1>2, LenProperties DEF StepAssumption
    <3> QED  BY <1>1, <1>3, <1>4, <2>1, <3>1 DEF Waiting
  <2>2. CASE Pending(m)
    <3>1. <<msg[m]>> \o Append(queue[m], d) = Append(<<msg[m]>> \o queue[m], d)
      <4>1. Append(queue[m], d) = queue[m] \o <<d>>  BY <1>2, AppendIsConcat
      <4>2. <<msg[m]>> \o queue[m] \in Seq(S)  BY <1>2, ConcatProperties
      <4>3. Append(<<msg[m]>> \o queue[m], d) = (<<msg[m]>> \o queue[m]) \o <<d>>  BY <1>2, <4>2, AppendIsConcat
      <4>4. <<d>> \in Seq(S)  BY <1>2
      <4> QED  BY <1>2, <4>1, <4>3, <4>4, ConcatAssociative
    <3>2. Len(<<msg[m]>> \o queue[m]) = 1 + Len(queue[m]) /\ Len(queue[m]) \in Nat
      BY <1>2, ConcatProperties, LenProperties
    <3>3. Waiting(m) = <<msg[m]>> \o queue[m] /\ Waiting(m)' = <<msg[m]>> \o queue'[m]
      BY <1>1, <1>4, <2>2 DEF Waiting
    <3>4. QueueLength \in Nat  BY DEF StepAssumption
    <3> QED  BY <1>1, <1>3, <3>1, <3>2, <3>3, <3>4
  <2> QED  BY <2>1, <2>2
<1>6. \A n \in Steppers \ {m} : Waiting(n)' = Waiting(n)  BY <1>1, <1>3, <1>4 DEF Waiting
<1>7. absQueue' = Channel!Posted({m}, d)
  <2>1. Channel!Posted({m}, d) = [n \in AllMotors |-> IF n \in {m} /\ Len(absQueue[n]) < QueueLength + 1
                                                     THEN Append(absQueue[n], d) ELSE absQueue[n]]
    BY DEF Channel!Posted, Channel!Motors, AllMotors
  <2>2. absQueue[m] = Waiting(m) /\ \A n \in AllMotors : absQueue[n] = IF n \in Steppers THEN Waiting(n) ELSE <<>>
    BY ChannelState
  <2>3. ASSUME NEW n \in AllMotors
        PROVE  (IF n \in Steppers THEN Waiting(n)' ELSE <<>>) =
                 IF n \in {m} /\ Len(absQueue[n]) < QueueLength + 1 THEN Append(absQueue[n], d) ELSE absQueue[n]
    BY <1>5, <1>6, <2>2
  <2>4. absQueue' = [n \in AllMotors |-> IF n \in Steppers THEN Waiting(n)' ELSE <<>>]  BY ChannelState
  <2>5. absQueue' = [n \in AllMotors |-> IF n \in {m} /\ Len(absQueue[n]) < QueueLength + 1
                                         THEN Append(absQueue[n], d) ELSE absQueue[n]]
    BY <2>3, <2>4, Zenon
  <2> QED  BY <2>1, <2>5, Zenon
<1>8. UNCHANGED <<absMotion, absPlace, absEnergised>>
  BY <1>1 DEF absMotion, absPlace, absEnergised
<1> QED  BY <1>7, <1>8

-----------------------------------------------------------------------------
\* The tasks, the callback and the interrupt of step_motor_control.c do, statement by
\* statement, what module Scenario takes the two step motors to do: a message, an automatic
\* stop and a last step are each one step, for any queue length, any number of steps and
\* motions ordered at rest or while another one runs.
THEOREM MotorsImplementChannel == Spec => Implements
<1>1. Init => Channel!ChannelInit
  <2> SUFFICES ASSUME Init PROVE Channel!ChannelInit  OBVIOUS
  <2>1. \A m \in Steppers : Waiting(m) = <<>> /\ Motion(m) = "STOP"
    BY DEF Init, Waiting, Motion, Pending, Idle, Steppers
  <2>2. absQueue = [m \in Channel!Motors |-> <<>>] /\ absMotion = [m \in Channel!Motors |-> "STOP"]
    BY <2>1, ChannelState DEF Channel!Motors, AllMotors
  <2>3. absPlace \in absRests
    <3>1. place["waste"] \in {"open", "mid", "close"} /\ place["spin"] \in {"on", "off"}  BY DEF Init
    <3>2. absPlace = [m \in AllMotors |-> IF m = "waste" THEN place["waste"] ELSE IF m = "spin" THEN place["spin"]
                                         ELSE IF m = "plate" THEN "none" ELSE "mid"]
      BY DEF absPlace, AllMotors, Steppers
    <3> QED  BY <3>1, <3>2 DEF absRests
  <2>4. absEnergised = FALSE
    <3>1. ~driver["spin"] /\ ~run["spin"]  BY DEF Init, Steppers
    <3> QED  BY <3>1 DEF absEnergised
  <2> QED  BY <2>2, <2>3, <2>4 DEF Channel!ChannelInit
<1>2. ChannelInv /\ [Next]_vars => [ChannelNext]_(Channel!channel)
  <2> SUFFICES ASSUME ChannelInv, [Next]_vars PROVE ChannelNext \/ UNCHANGED Channel!channel
    OBVIOUS
  <2>1. CASE UNCHANGED vars \/ SetHold
    <3>1. UNCHANGED <<queue, task, msg, run, dir, driver, place>>  BY <2>1 DEF vars, motor, SetHold
    <3>2. \A n \in Steppers : Waiting(n)' = Waiting(n) /\ Motion(n)' = Motion(n)
      BY <3>1 DEF Waiting, Motion, Pending
    <3>3. absEnergised' = absEnergised  BY <3>1 DEF absEnergised
    <3> QED  BY <3>1, <3>2, <3>3, NoStep
  <2>2. Stepped => ChannelNext  BY Zenon DEF Stepped, ChannelNext
  <2>3. SwitchedOff \/ Astray => ChannelNext  BY Zenon DEF SwitchedOff, ChannelNext
  <2>4. ASSUME NEW m \in Steppers, TaskStep(m) PROVE ChannelNext \/ UNCHANGED Channel!channel
    <3>1. CASE Run(m)  BY <2>2, <3>1, RunSeen
    <3>2. CASE m = "waste" /\ Halt  BY <2>2, <3>2, HaltSeen
    <3>3. CASE m = "spin" /\ (Look \/ Clear)  BY <2>2, <3>3, SpinStopSeen
    <3>4. CASE m = "spin" /\ Release(m)  BY <2>3, <3>4, ReleaseSeen
    <3>5. CASE \/ Receive(m) \/ Count(m) \/ Start(m) \/ StopTimer(m)
               \/ m = "waste" /\ (Enable(m) \/ AutoStop \/ Release(m))
               \/ m = "spin" /\ Settle
      BY <3>5, TaskUnseen
    <3>6. CASE m = "spin" /\ Enable(m)  BY <2>3, <3>6, EnableSeen
    <3> QED  BY <2>4, <3>1, <3>2, <3>3, <3>4, <3>5, <3>6 DEF TaskStep, Steppers
  <2>5. ASSUME NEW m \in Steppers, IsrStep(m) PROVE ChannelNext \/ UNCHANGED Channel!channel
    BY <2>2, <2>3, <2>5, PulseSeen, ReleaseSeen, LastStepSeen DEF IsrStep
  <2>6. ASSUME NEW m \in Steppers, NEW d \in Motions \cup {"STOP"}, Post(m, d) PROVE ChannelNext
    <3>1. absQueue' = Channel!Posted({m}, d) /\ UNCHANGED <<absMotion, absPlace, absEnergised>>
      BY <2>6, StepAssumption, PostSeen
    <3> QED  BY <3>1, Zenon DEF ChannelNext
  <2> QED  BY <2>1, <2>4, <2>5, <2>6 DEF Next
<1> QED  BY <1>1, <1>2, ChannelInvariant, PTL DEF Spec, Implements

-----------------------------------------------------------------------------
(* CloudLink *)

\* The parts of CloudTypeOK: what is true or false, and the rest.
CloudBits ==
  /\ apUp \in BOOLEAN /\ brokerUp \in BOOLEAN /\ allow \in BOOLEAN /\ connectedBit \in BOOLEAN
  /\ failBit \in BOOLEAN /\ saveAfter \in BOOLEAN
CloudRest ==
  /\ stored \in {"none", "right", "wrong"} /\ config \in {"none", "right", "wrong"}
  /\ station \in {"down", "trying", "up"} /\ retryNum \in 0..MaximumRetry
  /\ connector \in {"none", "leaving", "waiting"}
  /\ aws \in {"unborn", "waiting", "connecting", "serving"}
  /\ tries \in 0..MaxTries /\ sessions \in 0..MaxSessions

\* They are all of it.
LEMMA CloudTyped == CloudTypeOK <=> CloudBits /\ CloudRest
BY DEF CloudTypeOK, CloudBits, CloudRest

\* The restart starts from what is stored.
LEMMA RebootTyped == ASSUME CloudBits, CloudRest, Reboot PROVE CloudBits' /\ CloudRest'
<1>1. CloudBits'  BY Zenon DEF CloudBits, Reboot
<1>2. CloudRest'  BY CloudAssumption DEF CloudRest, Reboot, FirstStation, FirstConnector
<1> QED  BY <1>1, <1>2

\* The handler counts to MAXIMUM_RETRY, and not further.
LEMMA HandlerTyped ==
  ASSUME CloudBits, CloudRest, OnDisconnected
  PROVE  /\ station' \in {"down", "trying", "up"} /\ retryNum' \in 0..MaximumRetry
         /\ failBit' \in BOOLEAN
<1>1. MaximumRetry \in Nat  BY CloudAssumption
<1>2. CASE allow /\ retryNum < MaximumRetry
  <2>1. station' = "trying" /\ retryNum' = retryNum + 1 /\ failBit' = failBit  BY <1>2 DEF OnDisconnected
  <2> QED  BY <1>1, <1>2, <2>1 DEF CloudBits, CloudRest
<1>3. CASE ~(allow /\ retryNum < MaximumRetry)
  <2>1. failBit' \in BOOLEAN  BY <1>3, Zenon DEF OnDisconnected, CloudBits
  <2>2. station' = "down" /\ retryNum' = retryNum  BY <1>3 DEF OnDisconnected
  <2> QED  BY <2>1, <2>2 DEF CloudRest
<1> QED  BY <1>2, <1>3

\* The handler, Wifi_Connect and whoever calls it
LEMMA WifiTyped ==
  ASSUME CloudBits, CloudRest, WifiWorks \/ PhoneConnects \/ NetworkChanges
  PROVE  CloudBits' /\ CloudRest'
<1>1. CASE Associate  BY <1>1, CloudAssumption DEF Associate, CloudBits, CloudRest, awsState
<1>2. CASE Disconnected
  <2>1. /\ station' \in {"down", "trying", "up"} /\ retryNum' \in 0..MaximumRetry
        /\ failBit' \in BOOLEAN
    BY <1>2, HandlerTyped DEF Disconnected
  <2> QED  BY <1>2, <2>1 DEF Disconnected, CloudBits, CloudRest, awsState
<1>3. CASE StartConnect
  <2>1. CloudBits'  BY <1>3, Zenon DEF StartConnect, CloudBits
  <2>2. CloudRest'  BY <1>3, CloudAssumption DEF StartConnect, CloudRest, awsState
  <2> QED  BY <2>1, <2>2
<1>4. CASE ConnectEnds
  <2>1. stored' \in {"none", "right", "wrong"}  BY <1>4 DEF ConnectEnds, CloudRest
  <2> QED  BY <1>4, <2>1 DEF ConnectEnds, CloudBits, CloudRest, wifiState, awsState
<1>5. CASE ConnectTimesOut
  <2>1. /\ station' \in {"down", "trying", "up"} /\ retryNum' \in 0..MaximumRetry
        /\ failBit' \in BOOLEAN
    <3>1. CASE station = "down"  BY <1>5, <3>1 DEF ConnectTimesOut, CloudBits, CloudRest
    <3>2. CASE station # "down"  BY <1>5, <3>2, HandlerTyped DEF ConnectTimesOut
    <3> QED  BY <3>1, <3>2
  <2> QED  BY <1>5, <2>1 DEF ConnectTimesOut, CloudBits, CloudRest, awsState
<1>6. CASE PhoneConnects
  <2>1. PICK credentials \in {"right", "wrong"}, after \in BOOLEAN : CallConnect(credentials, after)
    BY <1>6 DEF PhoneConnects
  <2>2. allow' \in BOOLEAN  BY <2>1, Zenon DEF CallConnect, CloudBits
  <2>3. saveAfter' \in BOOLEAN  BY <2>1, Zenon DEF CallConnect
  <2>4. CloudBits'  BY <2>1, <2>2, <2>3 DEF CallConnect, CloudBits
  <2>5. CloudRest'  BY <2>1 DEF CallConnect, CloudRest, awsState
  <2> QED  BY <2>4, <2>5
<1>7. CASE NetworkChanges  BY <1>7 DEF NetworkChanges, CloudBits, CloudRest, wifiState, awsState
<1> QED  BY <1>1, <1>2, <1>3, <1>4, <1>5, <1>6, <1>7 DEF WifiWorks

\* The cloud task opens no session that is not there, and counts no failure after the last.
LEMMA AwsTyped ==
  ASSUME CloudBits, CloudRest, AwsWorks
  PROVE  CloudBits' /\ CloudRest'
<1>1. MaxTries \in Nat /\ MaxSessions \in Nat  BY CloudAssumption
<1>2. CASE TaskBegins \/ BitIsSet \/ ConnectionLost
  BY <1>2 DEF TaskBegins, BitIsSet, ConnectionLost, CloudBits, CloudRest, wifiState
<1>3. CASE Connected
  <2>1. sessions' \in 0..MaxSessions  BY <1>1, <1>3 DEF Connected, OpensSession, CloudRest
  <2> QED  BY <1>3, <2>1 DEF Connected, CloudBits, CloudRest, wifiState
<1>4. CASE ConnectFails
  <2>1. CASE GivesUp /\ Reboot  BY <2>1, RebootTyped
  <2>2. CASE ~(GivesUp /\ Reboot)
    <3>1. /\ tries' = IF tries < MaxTries THEN tries + 1 ELSE tries
          /\ sessions' = IF OpensSession THEN sessions + 1 ELSE sessions
          /\ UNCHANGED <<apUp, brokerUp, stored, wifiState, connector, saveAfter, aws>>
      BY <1>4, <2>2 DEF ConnectFails
    <3>2. tries' \in 0..MaxTries /\ sessions' \in 0..MaxSessions
      BY <1>1, <3>1 DEF OpensSession, CloudRest
    <3> QED  BY <3>1, <3>2 DEF CloudBits, CloudRest, wifiState
  <2> QED  BY <2>1, <2>2
<1> QED  BY <1>2, <1>3, <1>4 DEF AwsWorks

\* The connection's state keeps its types: the counters of retries, failures and open
\* sessions stay within MAXIMUM_RETRY, the failures before the restart, and the sessions there are.
THEOREM CloudTypeCorrect == CloudSpec => []CloudTypeOK
<1>1. CloudInit => CloudTypeOK
  <2>1. CloudInit => CloudBits  BY Zenon DEF CloudInit, CloudBits
  <2>2. CloudInit => CloudRest  BY CloudAssumption DEF CloudInit, CloudRest, FirstStation, FirstConnector
  <2> QED  BY <2>1, <2>2, CloudTyped
<1>2. CloudTypeOK /\ [CloudNext]_cloudVars => CloudTypeOK'
  <2>1. ASSUME CloudBits, CloudRest, [CloudNext]_cloudVars PROVE CloudBits' /\ CloudRest'
    <3>1. CASE UNCHANGED cloudVars  BY <2>1, <3>1 DEF cloudVars, wifiState, awsState, CloudBits, CloudRest
    <3>2. CASE CloudNext
      BY <2>1, <3>2, WifiTyped, AwsTyped, RebootTyped DEF CloudNext, CloudDisturbed
    <3> QED  BY <2>1, <3>1, <3>2
  <2>2. CloudTypeOK' <=> CloudBits' /\ CloudRest'  BY DEF CloudTypeOK, CloudBits, CloudRest
  <2> QED  BY <2>1, <2>2, CloudTyped
<1> QED  BY <1>1, <1>2, PTL DEF CloudSpec

-----------------------------------------------------------------------------
(* CatFsm *)

Weighed == 0..MaxLitter + CatWeight

\* The types of what the state machine keeps; a ring of fewer readings than the first mean
\* takes is what tells INIT.
CatBits == {cat, running, wasRunning, paused, asked, quiet} \subseteq BOOLEAN
RingTyped ==
  /\ catState \in {"INIT", "IDLE", "OCCUPIED", "WAIT_CLEAN"}
  /\ weights \in Seq(Weighed) /\ Len(weights) <= CatWindow
  /\ catState = "INIT" => Len(weights) < Learn
CountsTyped == litter \in 0..MaxLitter /\ visits \in 0..MaxVisits /\ away \in 0..Delay

\* They are CatTypeOK's.
LEMMA CatTypesOf == CatBits /\ RingTyped /\ CountsTyped => CatTypeOK
BY DEF CatBits, RingTyped, CountsTyped, Weighed, CatTypeOK

\* push_cat_ring_buffer keeps the ring at its size.
LEMMA PushTyped ==
  ASSUME weights \in Seq(Weighed), Len(weights) <= CatWindow, NEW w \in Weighed
  PROVE  Push(w) \in Seq(Weighed) /\ Len(Push(w)) <= CatWindow
<1>1. Len(weights) \in Nat /\ CatWindow \in Nat /\ CatWindow > 0  BY CatAssumption, LenProperties
<1>2. CASE Len(weights) < CatWindow
  <2>1. Push(w) = Append(weights, w)  BY <1>2 DEF Push
  <2> QED  BY <2>1, <1>1, <1>2, AppendProperties
<1>3. CASE ~(Len(weights) < CatWindow)
  <2>1. Push(w) = Append(Tail(weights), w)  BY <1>3 DEF Push
  <2>2. weights # <<>>  BY <1>1, <1>3, EmptySeq
  <2>3. Tail(weights) \in Seq(Weighed) /\ Len(Tail(weights)) = Len(weights) - 1
    BY <2>2, HeadTailProperties
  <2>4. Append(Tail(weights), w) \in Seq(Weighed) /\ Len(Append(Tail(weights), w)) = Len(Tail(weights)) + 1
    BY <2>3, AppendProperties
  <2> QED  BY <2>1, <2>3, <2>4, <1>1
<1> QED  BY <1>2, <1>3

\* The readings of the first mean fit in the ring.
LEMMA LearningTyped ==
  ASSUME NEW begun \in Seq(Weighed), Len(begun) < Learn, NEW w \in Weighed, Learning(w, begun)
  PROVE  RingTyped'
<1>1. /\ Append(begun, w) \in Seq(Weighed) /\ Len(Append(begun, w)) = Len(begun) + 1
      /\ Len(begun) \in Nat
  BY AppendProperties, LenProperties
<1>2. weights' = Append(begun, w) /\ catState' = IF Len(begun) + 1 >= Learn THEN "IDLE" ELSE "INIT"
  BY DEF Learning
<1>3. Learn \in Nat /\ CatWindow \in Nat /\ Learn <= CatWindow  BY CatAssumption
<1> QED  BY <1>1, <1>2, <1>3 DEF RingTyped

\* A sample leaves the ring within its size, whatever state finds it.
LEMMA SampleRing ==
  ASSUME RingTyped, NEW c \in BOOLEAN, NEW l \in 0..MaxLitter, Sample(c, l)
  PROVE  RingTyped'
<1>1. PICK w : w = l + (IF c THEN CatWeight ELSE 0)  OBVIOUS
<1>2. w \in Weighed
  <2>1. MaxLitter \in Nat /\ CatWeight \in Nat  BY CatAssumption
  <2> QED  BY <1>1, <2>1 DEF Weighed
<1>3. Learn \in Nat /\ Learn > 0 /\ <<>> \in Seq(Weighed) /\ Len(<<>>) = 0 /\ Len(<<>>) <= CatWindow
  BY CatAssumption, EmptySeq
<1>4. CASE Skipped
  <2>1. CASE CleaningEnded  BY <1>3, <1>4, <2>1 DEF Skipped, RingTyped
  <2>2. CASE ~CleaningEnded
    <3>1. weights' = weights /\ catState' = catState  BY <1>4, <2>2 DEF Skipped
    <3> QED  BY <3>1 DEF RingTyped
  <2> QED  BY <2>1, <2>2
<1>5. CASE Learning(w, <<>>)  BY <1>2, <1>3, <1>5, LearningTyped
<1>6. CASE catState = "INIT" /\ Learning(w, weights)  BY <1>2, <1>6, LearningTyped DEF RingTyped
<1>7. CASE IdleBox(w)
  <2>1. CASE weights' = <<>> /\ catState' = "INIT"  BY <1>3, <2>1 DEF RingTyped
  <2>2. CASE weights' = Push(w) /\ catState' = IF AtLeast(w, weights', Entry) THEN "OCCUPIED" ELSE "IDLE"
    BY <1>2, <2>2, PushTyped DEF RingTyped
  <2> QED  BY <1>7, <2>1, <2>2 DEF IdleBox
<1>8. CASE catState = "OCCUPIED" /\ Occupied(w)
  <2>1. weights' = weights /\ catState' \in {"WAIT_CLEAN", "OCCUPIED"}  BY <1>8 DEF Occupied
  <2> QED  BY <2>1 DEF RingTyped
<1>9. CASE WaitClean(w)
  <2>1. weights' = Push(w) /\ catState' \in {"OCCUPIED", "IDLE", "WAIT_CLEAN"}  BY <1>9 DEF WaitClean
  <2> QED  BY <1>2, <2>1, PushTyped DEF RingTyped
<1> QED  BY <1>1, <1>4, <1>5, <1>6, <1>7, <1>8, <1>9 DEF Sample

\* The countdown stops at CAT_CLEAN_DELAY_SEC, and nothing is counted beyond its bound.
LEMMA SampleCounts ==
  ASSUME CountsTyped, NEW c \in BOOLEAN, NEW l \in 0..MaxLitter, Sample(c, l)
  PROVE  CountsTyped'
<1>1. Delay \in Nat /\ MaxVisits \in Nat  BY CatAssumption
<1>2. litter' \in 0..MaxLitter  BY DEF Sample
<1>3. away' \in 0..Delay
  <2>1. away' = 0 \/ away' = away \/ Countdown
    BY DEF Sample, Learning, IdleBox, Occupied, WaitClean
  <2>2. away \in 0..Delay  BY DEF CountsTyped
  <2> QED  BY <2>1, <2>2, <1>1 DEF Countdown
<1>4. visits' \in 0..MaxVisits
  <2>1. visits \in 0..MaxVisits  BY DEF CountsTyped
  <2>2. CASE c /\ ~cat
    <3>1. visits < MaxVisits /\ visits' \in {0, visits + 1}  BY <2>2 DEF Sample
    <3> QED  BY <2>1, <3>1, <1>1
  <2>3. CASE ~(c /\ ~cat)
    <3>1. visits' \in {0, visits + 0}  BY <2>3 DEF Sample
    <3> QED  BY <2>1, <3>1, <1>1
  <2> QED  BY <2>2, <2>3
<1> QED  BY <1>2, <1>3, <1>4 DEF CountsTyped

\* What is true or false stays so.
LEMMA SampleBits ==
  ASSUME CatBits, NEW c \in BOOLEAN, NEW l \in 0..MaxLitter, Sample(c, l)
  PROVE  CatBits'
<1>1. cat \in BOOLEAN /\ running \in BOOLEAN /\ paused \in BOOLEAN /\ asked \in BOOLEAN /\ quiet \in BOOLEAN
  BY DEF CatBits
<1>2. cat' \in BOOLEAN /\ running' \in BOOLEAN /\ paused' \in BOOLEAN /\ wasRunning' \in BOOLEAN
  <2>1. cat' = c /\ running' = running /\ paused' = paused /\ wasRunning' = running  BY Zenon DEF Sample
  <2> QED  BY <1>1, <2>1
<1>3. asked' \in BOOLEAN /\ quiet' \in BOOLEAN
  <2>1. ASSUME NEW w, NEW begun, Learning(w, begun) PROVE asked' \in BOOLEAN /\ quiet' \in BOOLEAN
    BY <1>1, <2>1, Zenon DEF Learning
  <2>2. ASSUME NEW w, IdleBox(w) \/ Occupied(w) \/ Skipped PROVE asked' \in BOOLEAN /\ quiet' \in BOOLEAN
    <3>1. asked' = FALSE /\ quiet' = quiet  BY <2>2, Zenon DEF IdleBox, Occupied, Skipped
    <3> QED  BY <1>1, <3>1
  <2>3. ASSUME NEW w, WaitClean(w) PROVE asked' \in BOOLEAN /\ quiet' \in BOOLEAN
    BY <1>1, <2>3, Zenon DEF WaitClean
  <2> QED  BY <2>1, <2>2, <2>3, Zenon DEF Sample
<1> QED  BY <1>2, <1>3 DEF CatBits

\* The state machine keeps its types: the ring within CAT_RING_BUFFER_SIZE, the countdown
\* within its delay, whatever the cat weighs and however often it comes.
THEOREM CatTypeCorrect == CatSpec => []CatTypeOK
<1>1. CatInit => CatBits /\ RingTyped /\ CountsTyped
  <2> SUFFICES ASSUME CatInit PROVE CatBits /\ RingTyped /\ CountsTyped  OBVIOUS
  <2>1. CatBits
    <3>1. cat \in BOOLEAN /\ running = FALSE /\ paused = FALSE /\ wasRunning = FALSE /\ asked = FALSE /\ quiet = TRUE
      BY Zenon DEF CatInit
    <3> QED  BY <3>1 DEF CatBits
  <2>2. RingTyped
    <3>1. weights = <<>> /\ catState = "INIT"  BY DEF CatInit
    <3> QED  BY <3>1, CatAssumption, EmptySeq DEF RingTyped
  <2>3. CountsTyped
    <3>1. visits = 0 /\ litter = 0 /\ away = 0  BY DEF CatInit
    <3> QED  BY <3>1, CatAssumption DEF CountsTyped
  <2> QED  BY <2>1, <2>2, <2>3
<1>2. ASSUME CatBits, RingTyped, CountsTyped, [CatNext]_catVars
      PROVE  CatBits' /\ RingTyped' /\ CountsTyped'
  <2>1. CASE CatSample  BY <1>2, <2>1, SampleRing, SampleCounts, SampleBits DEF CatSample
  <2>2. ASSUME NEW begin \in BOOLEAN, Clean(begin) PROVE CatBits' /\ RingTyped' /\ CountsTyped'
    <3>1. CatBits'
      <4>1. /\ running' = begin /\ asked' = FALSE /\ cat' = cat /\ wasRunning' = wasRunning
            /\ paused' = paused /\ quiet' = quiet
        BY <2>2, Zenon DEF Clean
      <4> QED  BY <1>2, <4>1 DEF CatBits
    <3>2. catState' = catState /\ weights' = weights /\ visits' = visits /\ away' = away /\ litter' \in {litter, 0}
      BY <2>2 DEF Clean
    <3>3. MaxLitter \in Nat  BY CatAssumption
    <3> QED  BY <1>2, <3>1, <3>2, <3>3 DEF RingTyped, CountsTyped
  <2>3. ASSUME NEW begin \in BOOLEAN, Hold(begin) PROVE CatBits' /\ RingTyped' /\ CountsTyped'
    <3>1. CatBits'
      <4>1. /\ running' = running /\ asked' = FALSE /\ cat' = cat /\ wasRunning' = wasRunning
            /\ paused' = begin /\ quiet' = quiet
        BY <2>3, Zenon DEF Hold
      <4> QED  BY <1>2, <4>1 DEF CatBits
    <3>2. catState' = catState /\ weights' = weights /\ visits' = visits /\ away' = away /\ litter' = litter
      BY <2>3 DEF Hold
    <3> QED  BY <1>2, <3>1, <3>2 DEF RingTyped, CountsTyped
  <2>4. CASE UNCHANGED catVars
    BY <1>2, <2>4 DEF CatBits, RingTyped, CountsTyped, catVars, catBox
  <2> QED  BY <1>2, <2>1, <2>2, <2>3, <2>4 DEF CatNext
<1>3. CatBits /\ RingTyped /\ CountsTyped => CatTypeOK  BY CatTypesOf
<1> QED  BY <1>1, <1>2, <1>3, PTL DEF CatSpec

-----------------------------------------------------------------------------
(* BleMotion *)

\* The types of the queues, of what is counted, and of what is true or false
BleQueues ==
  /\ txQueue \in Seq({"request", "ack"}) /\ Len(txQueue) <= TxQueue
  /\ rxQueue \in Seq(Messages) /\ Len(rxQueue) <= RxQueue /\ air \in Seq(Messages)
BleCounts ==
  expected \in 0..MaxCount /\ counted \in 0..MaxCount /\ points \in 0..MaxPoints /\ ackOf \in 0..Packets(MaxPoints)
BleBits == {linked, motionTimer, heard, orphans, full} \subseteq BOOLEAN

\* They are all of BleTypeOK.
LEMMA BleTypesOf == BleQueues /\ BleCounts /\ BleBits => BleTypeOK
BY DEF BleQueues, BleCounts, BleBits, BleTypeOK

\* More points take no fewer packets.
LEMMA MorePackets ==
  ASSUME NEW n \in 0..MaxPoints PROVE Packets(n) \in Nat /\ Packets(n) <= Packets(MaxPoints)
<1>1. PICK p, a, b : p = PerPacket /\ a = n + PerPacket - 1 /\ b = MaxPoints + PerPacket - 1  OBVIOUS
<1>2. p \in Nat \ {0} /\ a \in Nat /\ b \in Nat /\ a <= b  BY <1>1, BleAssumption
<1>3. PICK q, r : q = a \div p /\ r = b \div p  OBVIOUS
<1>4. /\ q \in Nat /\ a = p * q + (a % p) /\ a % p \in 0..p - 1
      /\ r \in Nat /\ b = p * r + (b % p) /\ b % p \in 0..p - 1
  BY <1>2, <1>3, DivMod
<1>5. ASSUME r < q PROVE FALSE
  <2>1. p * (r + 1) <= p * q  BY <1>2, <1>4, <1>5, Product
  <2>2. p * (r + 1) = p * r + p  BY <1>2, <1>4
  <2>3. p * r \in Int /\ p * q \in Int  BY <1>2, <1>4
  <2> QED  BY <1>2, <1>4, <2>1, <2>2, <2>3
<1>6. Packets(n) = q /\ Packets(MaxPoints) = r  BY <1>1, <1>3 DEF Packets
<1> QED  BY <1>4, <1>5, <1>6

\* total_count is within what input_count may count.
LEMMA RoundedBound ==
  ASSUME NEW n \in 0..MaxPoints PROVE Rounded(n) \in 0..MaxCount /\ MaxCount \in Nat
<1>1. PICK p : p = PerPacket  OBVIOUS
<1>2. p \in Nat \ {0} /\ n \in Nat /\ MaxPoints \in Nat /\ n <= MaxPoints  BY <1>1, BleAssumption
<1>3. n % p \in 0..p - 1 /\ MaxPoints % p \in 0..p - 1  BY <1>2, DivMod
<1>4. Rounded(n) = n + (p - (n % p)) /\ MaxCount = (MaxPoints + (p - (MaxPoints % p))) + p
  BY <1>1 DEF Rounded, MaxCount
<1> QED  BY <1>2, <1>3, <1>4

\* What a message may be
LEMMA MessageOf ==
  ASSUME NEW m \in Messages
  PROVE  /\ m.start \in BOOLEAN /\ m.orphan \in BOOLEAN
         /\ IF m.start THEN m.of \in 0..MaxPoints ELSE m.of \in 1..Packets(MaxPoints)
BY DEF Messages

\* The tracker's answer is made of messages.
LEMMA AnswerTyped ==
  ASSUME points \in 0..MaxPoints PROVE Answer \in Seq(Messages)
<1>1. PICK m : m = Packets(points)  OBVIOUS
<1>2. m \in Nat /\ m <= Packets(MaxPoints) /\ Packets(MaxPoints) \in Nat
  <2>1. MaxPoints \in 0..MaxPoints  BY BleAssumption
  <2> QED  BY <1>1, <2>1, MorePackets
<1>3. PICK s, t : /\ s = [start |-> TRUE, of |-> points, orphan |-> FALSE]
                  /\ t = [i \in 1..m |-> [start |-> FALSE, of |-> i, orphan |-> FALSE]]
  OBVIOUS
<1>4. s \in Messages /\ \A i \in 1..m : [start |-> FALSE, of |-> i, orphan |-> FALSE] \in Messages
  BY <1>2, <1>3 DEF Messages
<1>5. <<s>> \in Seq(Messages) /\ t \in Seq(Messages)  BY <1>2, <1>3, <1>4
<1>6. Answer = <<s>> \o t  BY <1>1, <1>3 DEF Answer
<1> QED  BY <1>5, <1>6, ConcatProperties

\* A message keeps its form whether its start has been dropped or not.
LEMMA OrphanTyped ==
  ASSUME NEW m \in Messages, NEW h \in BOOLEAN
  PROVE  [m EXCEPT !.orphan = ~m.start /\ ~h] \in Messages
<1>1. CASE m.start
  <2>1. (~m.start /\ ~h) = FALSE  BY <1>1
  <2> QED  BY <1>1, <2>1 DEF Messages
<1>2. CASE ~m.start
  <2>1. (~m.start /\ ~h) \in BOOLEAN  OBVIOUS
  <2>2. PICK o \in BOOLEAN : o = (~m.start /\ ~h)  BY <2>1, Zenon
  <2>3. m \in [start : {FALSE}, of : 1..Packets(MaxPoints), orphan : BOOLEAN]  BY <1>2 DEF Messages
  <2>4. [m EXCEPT !.orphan = o] \in [start : {FALSE}, of : 1..Packets(MaxPoints), orphan : BOOLEAN]
    BY <2>3
  <2> QED  BY <2>2, <2>4 DEF Messages
<1> QED  BY <1>1, <1>2, MessageOf

\* ble_send_data_to_queue keeps the queue at its length.
LEMMA SendTyped ==
  ASSUME txQueue \in Seq({"request", "ack"}), Len(txQueue) <= TxQueue,
         NEW s \in {"request", "ack"}, SendToQueue(s)
  PROVE  txQueue' \in Seq({"request", "ack"}) /\ Len(txQueue') <= TxQueue
<1>1. Len(txQueue) \in Nat /\ TxQueue \in Nat  BY BleAssumption, LenProperties
<1>2. CASE Len(txQueue) < TxQueue
  <2>1. txQueue' = Append(txQueue, s)  BY <1>2 DEF SendToQueue
  <2> QED  BY <1>1, <1>2, <2>1, AppendProperties
<1>3. CASE ~(Len(txQueue) < TxQueue)
  <2>1. txQueue' = txQueue  BY <1>3 DEF SendToQueue
  <2> QED  BY <2>1
<1> QED  BY <1>2, <1>3

\* The first of a queue, and what is left of it
LEMMA TakeTyped ==
  ASSUME NEW S, NEW q \in Seq(S), q # <<>>
  PROVE  Head(q) \in S /\ Tail(q) \in Seq(S) /\ Len(Tail(q)) = Len(q) - 1 /\ Len(q) \in Nat
BY HeadTailProperties, LenProperties

\* ble_rx_processing_task
LEMMA ReceiveTyped ==
  ASSUME BleQueues, BleCounts, BleBits, ReceiveData PROVE BleQueues' /\ BleCounts' /\ BleBits'
<1>1. rxQueue \in Seq(Messages) /\ rxQueue # <<>> /\ rxQueue' = Tail(rxQueue) /\ Len(rxQueue) <= RxQueue
  BY DEF ReceiveData, BleQueues
<1>2. PICK m : m = Head(rxQueue)  OBVIOUS
<1>3. m \in Messages /\ rxQueue' \in Seq(Messages) /\ Len(rxQueue') <= RxQueue
  <2>1. /\ Head(rxQueue) \in Messages /\ Tail(rxQueue) \in Seq(Messages)
        /\ Len(Tail(rxQueue)) = Len(rxQueue) - 1 /\ Len(rxQueue) \in Nat
    BY <1>1, TakeTyped
  <2>2. RxQueue \in Nat  BY BleAssumption
  <2> QED  BY <1>1, <1>2, <2>1, <2>2
<1>4. air' = air /\ points' = points /\ linked' = linked /\ heard' = heard /\ full' = full
  BY Zenon DEF ReceiveData
<1>5. {linked, motionTimer, heard, orphans, full} \subseteq BOOLEAN  BY DEF BleBits
<1>6. 0 \in 0..MaxCount /\ 0 \in 0..Packets(MaxPoints)
  <2>1. MaxPoints \in 0..MaxPoints /\ 0 \in 0..MaxPoints  BY BleAssumption
  <2>2. MaxCount \in Nat /\ Packets(MaxPoints) \in Nat  BY <2>1, RoundedBound, MorePackets
  <2> QED  BY <2>2
<1>7. CASE m.start
  <2>1. StartResponse(m.of)  BY <1>2, <1>7 DEF ReceiveData
  <2>2. m.of \in 0..MaxPoints  BY <1>3, <1>7, MessageOf
  <2>3. expected' \in {expected, Rounded(m.of)} /\ counted' \in {counted, 0} /\ ackOf' = 0 /\ txQueue' = txQueue
    BY <2>1 DEF StartResponse
  <2>4. motionTimer' \in BOOLEAN /\ orphans' \in BOOLEAN
    <3>1. /\ motionTimer' = TRUE \/ motionTimer' = motionTimer
          /\ orphans' = FALSE \/ orphans' = orphans
      BY <2>1, Zenon DEF StartResponse
    <3> QED  BY <1>5, <3>1
  <2>5. BleCounts'  BY <1>4, <1>6, <2>2, <2>3, RoundedBound DEF BleCounts
  <2>6. BleQueues'  BY <1>3, <1>4, <2>3 DEF BleQueues
  <2>7. BleBits'  BY <1>4, <1>5, <2>4 DEF BleBits
  <2> QED  BY <2>5, <2>6, <2>7
<1>8. CASE ~m.start
  <2>1. MotionData(m.of) /\ orphans' = (orphans \/ m.orphan)  BY <1>2, <1>8, Zenon DEF ReceiveData
  <2>2. m.of \in 1..Packets(MaxPoints) /\ Packets(MaxPoints) \in Nat
    <3>1. MaxPoints \in 0..MaxPoints  BY BleAssumption
    <3> QED  BY <1>3, <1>8, <3>1, MessageOf, MorePackets
  <2>3. expected' = expected /\ counted' \in 0..MaxCount /\ ackOf' \in {0, m.of}
    <3>1. counted' = IF counted + PerPacket > MaxCount THEN counted ELSE counted + PerPacket
      BY <2>1 DEF MotionData
    <3>2. counted \in 0..MaxCount /\ PerPacket \in Nat  BY BleAssumption DEF BleCounts
    <3>3. MaxCount \in Nat
      <4>1. MaxPoints \in 0..MaxPoints  BY BleAssumption
      <4> QED  BY <4>1, RoundedBound
    <3>4. counted' \in 0..MaxCount  BY <3>1, <3>2, <3>3
    <3>5. expected' = expected /\ ackOf' \in {0, m.of}  BY <2>1 DEF MotionData
    <3> QED  BY <3>4, <3>5
  <2>4. txQueue' \in Seq({"request", "ack"}) /\ Len(txQueue') <= TxQueue
    <3>1. SendToQueue("ack") \/ txQueue' = txQueue  BY <2>1, Zenon DEF MotionData
    <3>2. txQueue \in Seq({"request", "ack"}) /\ Len(txQueue) <= TxQueue  BY DEF BleQueues
    <3> QED  BY <3>1, <3>2, SendTyped
  <2>5. motionTimer' \in BOOLEAN /\ orphans' \in BOOLEAN
    <3>1. motionTimer' = TRUE \/ motionTimer' = motionTimer  BY <2>1, Zenon DEF MotionData
    <3>2. (orphans \/ m.orphan) \in BOOLEAN  OBVIOUS
    <3>3. orphans' \in BOOLEAN  BY <2>1, <3>2, Zenon
    <3> QED  BY <1>5, <3>1, <3>3
  <2>6. BleCounts'  BY <1>4, <1>6, <2>2, <2>3 DEF BleCounts
  <2>7. BleQueues'  BY <1>3, <1>4, <2>4 DEF BleQueues
  <2>8. BleBits'  BY <1>4, <1>5, <2>5 DEF BleBits
  <2> QED  BY <2>6, <2>7, <2>8
<1> QED  BY <1>7, <1>8

\* A packet that comes over the air
LEMMA DeliverTyped ==
  ASSUME BleQueues, BleCounts, BleBits, AirDelivers PROVE BleQueues' /\ BleCounts' /\ BleBits'
<1>1. air \in Seq(Messages) /\ air # <<>> /\ air' = Tail(air) /\ rxQueue \in Seq(Messages) /\ Len(rxQueue) <= RxQueue
  BY DEF AirDelivers, BleQueues
<1>2. linked' = linked /\ points' = points /\ bleBox' = bleBox  BY Zenon DEF AirDelivers
<1>3. PICK m : m = [Head(air) EXCEPT !.orphan = ~Head(air).start /\ ~heard]  OBVIOUS
<1>4. Head(air) \in Messages /\ air' \in Seq(Messages)  BY <1>1, TakeTyped
<1>5. m \in Messages
  <2>1. heard \in BOOLEAN  BY DEF BleBits
  <2> QED  BY <1>3, <1>4, <2>1, OrphanTyped
<1>6. full' = (Len(rxQueue) = RxQueue)  BY Zenon DEF AirDelivers
<1>7. full' \in BOOLEAN
  <2>1. (Len(rxQueue) = RxQueue) \in BOOLEAN  OBVIOUS
  <2> QED  BY <1>6, <2>1, Zenon
<1>8. rxQueue' \in Seq(Messages) /\ Len(rxQueue') <= RxQueue
  <2>1. Len(rxQueue) \in Nat /\ RxQueue \in Nat  BY <1>1, BleAssumption, LenProperties
  <2>2. CASE full'
    <3>1. rxQueue' = rxQueue  BY <2>2 DEF AirDelivers
    <3> QED  BY <1>1, <3>1
  <2>3. CASE ~full'
    <3>1. rxQueue' = Append(rxQueue, m)  BY <1>3, <2>3 DEF AirDelivers
    <3>2. Len(rxQueue) # RxQueue  BY <1>6, <2>3
    <3> QED  BY <1>1, <1>5, <2>1, <3>1, <3>2, AppendProperties
  <2> QED  BY <2>2, <2>3
<1>9. heard' \in BOOLEAN
  <2>1. heard \in BOOLEAN /\ (~full') \in BOOLEAN  BY DEF BleBits
  <2> QED  BY <2>1, Zenon DEF AirDelivers
<1>10. <<txQueue, expected, counted, motionTimer, ackOf, orphans>>' = <<txQueue, expected, counted, motionTimer, ackOf, orphans>>
  BY <1>2 DEF bleBox
<1>11. BleQueues'  BY <1>4, <1>8, <1>10 DEF BleQueues
<1>12. BleCounts'  BY <1>2, <1>10 DEF BleCounts
<1>13. BleBits'  BY <1>2, <1>7, <1>9, <1>10 DEF BleBits
<1> QED  BY <1>11, <1>12, <1>13

\* ble_tx_processing_task
LEMMA TransmitTyped ==
  ASSUME BleQueues, BleCounts, BleBits, TransmitData PROVE BleQueues' /\ BleCounts' /\ BleBits'
<1>1. /\ txQueue \in Seq({"request", "ack"}) /\ txQueue # <<>> /\ txQueue' = Tail(txQueue)
      /\ Len(txQueue) <= TxQueue
  BY DEF TransmitData, BleQueues
<1>2. txQueue' \in Seq({"request", "ack"}) /\ Len(txQueue') <= TxQueue
  <2>1. TxQueue \in Nat  BY BleAssumption
  <2> QED  BY <1>1, <2>1, TakeTyped
<1>3. points \in 0..MaxPoints /\ 0 \in 0..MaxPoints  BY BleAssumption DEF BleCounts
<1>4. points' \in 0..MaxPoints
  <2>1. points' \in {0, points}  BY DEF TransmitData
  <2> QED  BY <1>3, <2>1
<1>5. air' \in Seq(Messages)
  <2>1. air' = Answer \/ air' = air  BY DEF TransmitData
  <2>2. air \in Seq(Messages)  BY DEF BleQueues
  <2> QED  BY <1>3, <2>1, <2>2, AnswerTyped
<1>6. UNCHANGED <<linked, rxQueue, expected, counted, motionTimer, ackOf, orphans, heard, full>>
  BY Zenon DEF TransmitData
<1>7. BleQueues'  BY <1>2, <1>5, <1>6 DEF BleQueues
<1>8. BleCounts'  BY <1>4, <1>6 DEF BleCounts
<1>9. BleBits'  BY <1>6 DEF BleBits
<1> QED  BY <1>7, <1>8, <1>9

\* A request, of the timer or of the tracker task
LEMMA RequestTyped ==
  ASSUME BleQueues, BleCounts, BleBits, MotionTimeout \/ CaptureTick PROVE BleQueues' /\ BleCounts' /\ BleBits'
<1>1. SendToQueue("request")  BY DEF MotionTimeout, CaptureTick
<1>2. txQueue' \in Seq({"request", "ack"}) /\ Len(txQueue') <= TxQueue  BY <1>1, SendTyped DEF BleQueues
<1>3. UNCHANGED <<linked, rxQueue, expected, counted, ackOf, orphans, points, air, heard, full>>
  BY Zenon DEF MotionTimeout, CaptureTick
<1>4. motionTimer' \in BOOLEAN
  <2>1. motionTimer' = FALSE \/ motionTimer' = motionTimer  BY Zenon DEF MotionTimeout, CaptureTick
  <2> QED  BY <2>1 DEF BleBits
<1>5. BleQueues'  BY <1>2, <1>3 DEF BleQueues
<1>6. BleCounts'  BY <1>3 DEF BleCounts
<1>7. BleBits'  BY <1>3, <1>4 DEF BleBits
<1> QED  BY <1>5, <1>6, <1>7

\* The transfer keeps its types: both queues within their lengths, both counts below what
\* the largest transfer may count, and every message of a form that the tracker sends.
THEOREM BleTypeCorrect == BleSpec => []BleTypeOK
<1>1. BleInit => BleQueues /\ BleCounts /\ BleBits
  <2> SUFFICES ASSUME BleInit PROVE BleQueues /\ BleCounts /\ BleBits  OBVIOUS
  <2>1. txQueue = <<>> /\ rxQueue = <<>> /\ air = <<>> /\ expected = 0 /\ counted = 0 /\ points = 0 /\ ackOf = 0
    BY DEF BleInit
  <2>2. BleQueues
    <3>1. /\ <<>> \in Seq({"request", "ack"}) /\ <<>> \in Seq(Messages) /\ Len(<<>>) = 0
          /\ RxQueue \in Nat /\ TxQueue \in Nat
      BY EmptySeq, BleAssumption
    <3> QED  BY <2>1, <3>1 DEF BleQueues
  <2>3. BleCounts
    <3>1. MaxPoints \in Nat /\ MaxPoints \in 0..MaxPoints  BY BleAssumption
    <3>2. MaxCount \in Nat /\ Packets(MaxPoints) \in Nat  BY <3>1, RoundedBound, MorePackets
    <3>3. 0 \in 0..MaxCount /\ 0 \in 0..Packets(MaxPoints) /\ 0 \in 0..MaxPoints  BY <3>1, <3>2
    <3> QED  BY <2>1, <3>3 DEF BleCounts
  <2>4. BleBits
    <3>1. linked = FALSE /\ motionTimer = FALSE /\ heard = TRUE /\ orphans = FALSE /\ full = FALSE
      BY Zenon DEF BleInit
    <3> QED  BY <3>1 DEF BleBits
  <2> QED  BY <2>2, <2>3, <2>4
<1>2. ASSUME BleQueues, BleCounts, BleBits, [BleNext]_bleVars PROVE BleQueues' /\ BleCounts' /\ BleBits'
  <2>1. CASE Link
    <3>1. air' = <<>> /\ ackOf' = 0 /\ UNCHANGED <<rxQueue, txQueue, expected, counted, motionTimer, orphans, points, full>>
      BY <2>1, Zenon DEF Link
    <3>2. linked' \in BOOLEAN /\ heard' \in BOOLEAN
      <4>1. linked' = ~linked /\ heard' = (heard /\ ~\E i \in 1..Len(air) : air[i].start)
        BY <2>1, Zenon DEF Link
      <4>2. (~linked) \in BOOLEAN /\ (heard /\ ~\E i \in 1..Len(air) : air[i].start) \in BOOLEAN  OBVIOUS
      <4> QED  BY <4>1, <4>2, Zenon
    <3>3. 0 \in 0..Packets(MaxPoints)
      <4>1. MaxPoints \in 0..MaxPoints  BY BleAssumption
      <4> QED  BY <4>1, MorePackets
    <3>4. BleQueues'  BY <1>2, <3>1, EmptySeq DEF BleQueues
    <3>5. BleCounts'  BY <1>2, <3>1, <3>3 DEF BleCounts
    <3>6. BleBits'  BY <1>2, <3>1, <3>2 DEF BleBits
    <3> QED  BY <3>4, <3>5, <3>6
  <2>2. ASSUME NEW n \in 1..MaxPoints, Collect(n) PROVE BleQueues' /\ BleCounts' /\ BleBits'
    BY <1>2, <2>2, BleAssumption DEF Collect, bleBox, BleQueues, BleCounts, BleBits
  <2>3. CASE UNCHANGED bleVars  BY <1>2, <2>3 DEF bleVars, bleBox, BleQueues, BleCounts, BleBits
  <2> QED
    BY <1>2, <2>1, <2>2, <2>3, ReceiveTyped, DeliverTyped, TransmitTyped, RequestTyped DEF BleNext, BleWork
<1>3. BleQueues /\ BleCounts /\ BleBits => BleTypeOK  BY BleTypesOf
<1> QED  BY <1>1, <1>2, <1>3, PTL DEF BleSpec

-----------------------------------------------------------------------------
(* The parts together *)

\* Each part begins as it does by itself, and a step of the box is one of its own or none.
LEMMA PartsStart ==
  PartsInit => /\ TofInit /\ CatInit /\ BleInit /\ ConfigInit /\ ConsoleInit /\ CloudInit /\ LedInit
               /\ DiagInit /\ Init /\ TlsInit /\ SensorInit /\ FramesInit /\ KeyInit
BY Zenon DEF PartsInit

\* What is another part's leaves it as it is.
LEMMA PartsMove ==
  ASSUME [PartsNext]_partsVars
  PROVE  /\ [TofNext]_tofVars
         /\ [CatNext]_catVars
         /\ [BleNext]_bleVars
         /\ [ConfigNext]_configVars
         /\ [ConsoleNext]_consoleVars
         /\ [CloudNext]_cloudVars
         /\ [LedNext]_ledVars
         /\ [DiagNext]_diagVars
         /\ [Next]_vars
         /\ [TlsNext]_tlsVars
         /\ [SensorNext]_sensorVars
         /\ [FramesNext]_framesVars
         /\ [KeyNext]_keyVars
BY Zenon DEF PartsNext, partsVars

\* The behaviours of all the parts together, of which the run is one set of constants, are
\* behaviours of each: what the theorems say of a part, they say of the box.
THEOREM PartsBehave ==
  PartsSpec => /\ TofSpec /\ CatSpec /\ BleSpec /\ ConfigSpec /\ ConsoleSpec /\ CloudSpec /\ LedSpec
               /\ DiagSpec /\ Spec /\ TlsSpec /\ SensorSpec /\ FramesSpec /\ KeySpec
<1>1. PartsInit => /\ TofInit /\ CatInit /\ BleInit /\ ConfigInit /\ ConsoleInit /\ CloudInit /\ LedInit
                   /\ DiagInit /\ Init /\ TlsInit /\ SensorInit /\ FramesInit /\ KeyInit
  BY PartsStart
<1>2. [PartsNext]_partsVars => [TofNext]_tofVars  BY PartsMove
<1>3. [PartsNext]_partsVars => [CatNext]_catVars  BY PartsMove
<1>4. [PartsNext]_partsVars => [BleNext]_bleVars  BY PartsMove
<1>5. [PartsNext]_partsVars => [ConfigNext]_configVars  BY PartsMove
<1>6. [PartsNext]_partsVars => [ConsoleNext]_consoleVars  BY PartsMove
<1>7. [PartsNext]_partsVars => [CloudNext]_cloudVars  BY PartsMove
<1>8. [PartsNext]_partsVars => [LedNext]_ledVars  BY PartsMove
<1>9. [PartsNext]_partsVars => [DiagNext]_diagVars  BY PartsMove
<1>10. [PartsNext]_partsVars => [Next]_vars  BY PartsMove
<1>11. [PartsNext]_partsVars => [TlsNext]_tlsVars  BY PartsMove
<1>12. [PartsNext]_partsVars => [SensorNext]_sensorVars  BY PartsMove
<1>13. [PartsNext]_partsVars => [FramesNext]_framesVars  BY PartsMove
<1>14. [PartsNext]_partsVars => [KeyNext]_keyVars  BY PartsMove
<1> QED
  BY <1>1, <1>2, <1>3, <1>4, <1>5, <1>6, <1>7, <1>8, <1>9, <1>10, <1>11, <1>12, <1>13, <1>14, PTL
     DEF PartsSpec, TofSpec, CatSpec, BleSpec, ConfigSpec, ConsoleSpec, CloudSpec, LedSpec, DiagSpec, Spec, TlsSpec,
         SensorSpec, FramesSpec, KeySpec

\* Every part keeps its types, and every ring, buffer, queue, list and counter of it its bound.
THEOREM PartsTypeCorrect ==
  ASSUME RoomForAll PROVE PartsSpec => []PartsTypeOK
<1>1. TofSpec => []TofTypeOK
  <2>1. TofInv => TofTypeOK  BY DEF TofInv
  <2> QED  BY <2>1, TofInvariant, PTL
<1>2. CatSpec => []CatTypeOK  BY CatTypeCorrect
<1>3. BleSpec => []BleTypeOK  BY BleTypeCorrect
<1>4. ConfigSpec => []ConfigTypeOK
  <2>1. SaveInv => ConfigTypeOK  BY DEF SaveInv
  <2> QED  BY <2>1, SaveInvariant, PTL
<1>5. ConsoleSpec => []ConsoleTypeOK
  <2>1. ConsoleInv => ConsoleTypeOK  BY DEF ConsoleInv
  <2> QED  BY <2>1, ConsoleInvariant, PTL
<1>6. LedSpec => []LedTypeOK
  <2>1. LedInv => LedTypeOK  BY DEF LedInv
  <2> QED  BY <2>1, LedInvariant, PTL
<1>7. DiagSpec => []DiagTypeOK
  <2>1. DiagInv => DiagTypeOK  BY DEF DiagInv
  <2> QED  BY <2>1, DiagInvariant, PTL
<1>8. Spec => []TypeOK
  <2>1. StepInv => TypeOK  BY DEF StepInv
  <2> QED  BY <2>1, StepInvariant, PTL
<1>9. TlsSpec => []TlsTypeOK
  <2>1. TlsInv => TlsTypeOK  BY DEF TlsInv
  <2> QED  BY <2>1, TlsInvariant, PTL
<1>10. SensorSpec => []SensorTypeOK
  <2>1. SensorInv => SensorTypeOK  BY DEF SensorInv
  <2> QED  BY <2>1, SensorInvariant, PTL
<1>11. FramesSpec => []FramesTypeOK
  <2>1. FramesInv => FramesTypeOK  BY DEF FramesInv
  <2> QED  BY <2>1, FramesInvariant, PTL
<1>12. KeySpec => []KeyTypeOK
  <2>1. KeyInv => KeyTypeOK  BY DEF KeyInv
  <2> QED  BY <2>1, KeyInvariant, PTL
<1>13. CloudSpec => []CloudTypeOK  BY CloudTypeCorrect
<1>14. []PartsTypeOK <=>
        /\ []TofTypeOK /\ []CatTypeOK /\ []BleTypeOK /\ []ConfigTypeOK /\ []ConsoleTypeOK /\ []CloudTypeOK
        /\ []LedTypeOK /\ []DiagTypeOK /\ []TypeOK /\ []TlsTypeOK /\ []SensorTypeOK /\ []FramesTypeOK /\ []KeyTypeOK
  BY PTL DEF PartsTypeOK
<1> QED
  BY PartsBehave, <1>1, <1>2, <1>3, <1>4, <1>5, <1>6, <1>7, <1>8, <1>9, <1>10, <1>11, <1>12, <1>13, <1>14, PTL
=============================================================================

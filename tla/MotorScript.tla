----------------------------- MODULE MotorScript -----------------------------
(***************************************************************************)
(* The motor scenarios of main/motor.c, statement by statement.            *)
(*                                                                         *)
(* A scenario is straight-line code that posts motor messages, waits for   *)
(* them, looks at the stop flags and leaves by a goto when something is    *)
(* wrong.  Here it is a sequence of instructions, one for each statement   *)
(* that touches state other tasks see; module Scenario executes them.      *)
(* Logging and LED messages are left out, and so are the angles and speeds *)
(* of the motor messages: no property tells two angles apart.              *)
(***************************************************************************)
EXTENDS Integers, Sequences

\* An instruction: what it does, to which motors, with which argument, how far
\* it jumps, and the label its error path goes to ("none" until a segment's
\* OnFail names it).
Instr(op, ms, d, arg) ==
  [op |-> op, ms |-> ms, d |-> d, arg |-> arg, set |-> <<>>, skip |-> 1, fail |-> "none"]

AllMotors == {"plate", "main", "scoop", "waste", "spin"}

Send(m, d)     == Instr("send", {m}, d, "none")
StopAll        == Instr("send", AllMotors, "STOP", "none")
\* vTaskDelay of 30 ms and more: the command tasks take their messages meanwhile
Delay          == Instr("delay", {}, "STOP", "none")
\* wait_motor_operation, which begins with a delay of 150 ms
Wait(m, want)  == <<Delay, Instr("wait", {m}, "STOP", want)>>
\* The same wait, for a caller that goes on n instructions ahead when it fails.
Try(m, want, n) == <<Delay, [Instr("try", {m}, "STOP", want) EXCEPT !.skip = n]>>
Duration       == Instr("duration", {}, "STOP", "none")
CheckEstop     == Instr("check", {}, "STOP", "none")
EstopOnly      == Instr("estop", {}, "STOP", "none")
CheckTofPause  == Instr("tof", {}, "STOP", "none")
Seek(want)     == Instr("seek", {"spin"}, "STOP", want)
\* Continue if the sensors see m at place, else jump n instructions ahead.
IfAt(m, at, n) == [Instr("ifat", {m}, "STOP", at) EXCEPT !.skip = n]
Jump(n)        == [Instr("jump", {}, "STOP", "none") EXCEPT !.skip = n]
Label(label)   == Instr("label", {}, "STOP", label)
Goto(label)    == [Instr("goto", {}, "STOP", "none") EXCEPT !.fail = label]
Assign(flags)  == [Instr("set", {}, "STOP", "none") EXCEPT !.set = flags]
Latch          == Instr("latch", {}, "STOP", "none")
IfLatched(label) == [Instr("iflatched", {}, "STOP", "none") EXCEPT !.fail = label]
Return(ending) == Instr("return", {}, "STOP", ending)

\* A segment of code whose error exits all go to label.
OnFail(label, segment) ==
  [i \in DOMAIN segment |->
     [segment[i] EXCEPT !.fail = IF @ = "none" THEN label ELSE @]]

\* if (m is at place) segment, and if (m is not at place) segment.
When(m, at, segment)   == <<IfAt(m, at, Len(segment) + 1)>> \o segment
Unless(m, at, segment) == <<IfAt(m, at, 2), Jump(Len(segment) + 1)>> \o segment

-----------------------------------------------------------------------------
\* drive_main_cover_soft(dir, 100): the direction is posted once at full duty and
\* again at 70, 80, 90 and 100, and no flag is looked at in between.
DriveMainCoverSoft(d) ==
  <<Delay, Send("main", d), Delay>> \o <<Send("main", d), Delay>>
    \o <<Send("main", d), Delay>> \o <<Send("main", d), Delay>>
    \o <<Send("main", d), Delay>>

\* A message to m, the wait for it, and the STOP that follows when it succeeds.
Drive(m, d, want) ==
  <<Send(m, d)>> \o Wait(m, want) \o <<Send(m, "STOP")>>

\* A spindle move: MT_MIDDLE is no place, so only the end of the run ends the wait.
Spin(d) == <<Send("spin", d)>> \o Wait("spin", "middle")

(***************************************************************************)
(* scp_spin_find_st_origin: turn until the start slot is found.  On the    *)
(* slot it turns back off it and forward onto it again; off the slot it    *)
(* searches in direction d and then calls itself.  It looks at             *)
(* emergency_stop_flag only.                                               *)
(***************************************************************************)
FindOrigin(d) ==
  LET onSlot == <<Send("spin", "REVERSE"), Seek("off"), Send("spin", "STOP"),
                  Delay, EstopOnly,
                  Send("spin", "FORWARD"), Seek("on"), Send("spin", "STOP")>>
      search == <<Send("spin", d), Seek("on"), Send("spin", "STOP"),
                  Delay, EstopOnly>>
      head   == <<EstopOnly, IfAt("spin", "on", Len(onSlot) + 2)>>
      again  == Len(head) + Len(onSlot) + 1 + Len(search)
  IN  head \o onSlot \o <<Jump(Len(search) + 2)>> \o search \o <<Jump(-again)>>

\* The end of motor_calibration, for a scoop that is in and for one that is out.
ScoopInOrigin == FindOrigin("FORWARD")

ScoopOutOrigin ==
  FindOrigin("REVERSE") \o <<EstopOnly>>
    \o Spin("FORWARD") \o <<EstopOnly>>
    \o Drive("scoop", "REVERSE", "close") \o <<EstopOnly>>
    \o FindOrigin("REVERSE")

\* motor_calibration: it begins by clearing the emergency stop.
MotorCalibration ==
  <<Assign([estop |-> FALSE]), IfAt("scoop", "close", Len(ScoopInOrigin) + 2)>>
    \o ScoopInOrigin \o <<Jump(Len(ScoopOutOrigin) + 1)>> \o ScoopOutOrigin
    \o <<EstopOnly>> \o Spin("REVERSE") \o <<EstopOnly>>

\* motor_calibration_recovery
MotorCalibrationRecovery ==
  <<Assign([estop |-> FALSE])>>
    \o FindOrigin("REVERSE") \o <<EstopOnly, Delay>>
    \o Spin("FORWARD") \o <<Send("spin", "STOP"), Delay, EstopOnly>>
    \o Drive("scoop", "REVERSE", "close") \o <<Delay, EstopOnly>>
    \o FindOrigin("REVERSE") \o <<Delay>>
    \o Spin("REVERSE") \o <<Send("spin", "STOP"), Delay>>

\* calib_abort and calib_rec_abort, for a caller that goes on at label.
CalibrationAbort(label) ==
  <<Send("spin", "STOP"), Send("scoop", "STOP"), Goto(label)>>
-----------------------------------------------------------------------------
\* Mutant: the open sensor is not looked at after the wait.
CleanStartTrustsWait ==
  <<Assign([estop |-> FALSE, alwaysOn |-> FALSE, running |-> TRUE]),
    Assign([pause |-> FALSE, recov |-> FALSE, tof |-> TRUE]),
    Send("plate", "FORWARD")>>
    \o DriveMainCoverSoft("FORWARD") \o Try("main", "open", 4)
    \o <<Send("main", "STOP"), Delay, Jump(4),
         Send("main", "STOP"), Delay, Goto("exit"),
         Assign([alwaysOn |-> TRUE])>>

\* do_clean up to the first cycle: the wait's result is looked at only after the
\* STOP that follows it, and the sensor is read again.
CleanStart ==
  <<Assign([estop |-> FALSE, alwaysOn |-> FALSE, running |-> TRUE]),
    Assign([pause |-> FALSE, recov |-> FALSE, tof |-> TRUE]),
    Send("plate", "FORWARD")>>
    \o DriveMainCoverSoft("FORWARD") \o Try("main", "open", 4)
    \o <<Send("main", "STOP"), Delay, Jump(4),
         Send("main", "STOP"), Delay, Goto("exit"),
         IfAt("main", "open", 2), Jump(2), Goto("exit"),
         Assign([alwaysOn |-> TRUE])>>

\* The scoop out over the litter, the turn, the waste cover, the scoop back in.
Sift(c) ==
  (IF c = 1 THEN <<Send("spin", "FORWARD")>> ELSE <<>>)
    \o <<Duration, CheckEstop>> \o Drive("scoop", "FORWARD", "open")
    \o <<CheckEstop, Duration, CheckEstop>>
    \o Spin("REVERSE") \o Drive("waste", "FORWARD", "open")
    \o <<Delay, CheckTofPause>> \o Drive("scoop", "REVERSE", "close")

\* The turn over the waste bin, and the scoop out again, once more if the sensor
\* does not see it.
Dump ==
  Spin("REVERSE") \o Spin("FORWARD") \o Drive("scoop", "FORWARD", "open")
    \o Unless("scoop", "open", Drive("scoop", "FORWARD", "open"))

\* Mutant: a wait that succeeds is success, the close sensor is not looked at.
CloseRoundUnseen(done) ==
  Try("waste", "close", 5)
    \o <<Send("waste", "STOP"), Delay, Jump(done + 1), Jump(1)>>

\* One round of the waste cover's close loop.  A wait that fails, for an emergency
\* stop too, and a sensor that does not see the cover lead to the next round; done
\* is how far it is to the end of the loop.
CloseRound(done) ==
  Try("waste", "close", 5)
    \o <<Send("waste", "STOP"), Delay, IfAt("waste", "close", 2), Jump(done)>>

Reopen == <<Send("waste", "FORWARD"), Delay, Send("waste", "REVERSE"), Delay>>

\* The cover is closed while, in the first cycle, the spindle turns.
CloseWaste(c) ==
  LET third  == Reopen \o CloseRound(2) \o <<Goto("exit")>>
      second == Reopen \o CloseRound(Len(third) + 1) \o third
  IN  <<Send("waste", "REVERSE"), Delay>>
        \o (IF c = 1 THEN <<Send("spin", "FORWARD")>> ELSE <<>>)
        \o CloseRound(Len(second) + 1) \o second \o <<Delay>>

CleanCycle(c) == Sift(c) \o Dump \o CloseWaste(c)

\* Mutant: spin_mt_always_on stays set.
CleanFinishHoldsDriver ==
  Spin("FORWARD") \o <<CheckTofPause>>
    \o Drive("scoop", "REVERSE", "close") \o Spin("REVERSE")
    \o OnFail("calibAbort", MotorCalibration)
    \o DriveMainCoverSoft("REVERSE") \o Wait("main", "close")
    \o <<Send("main", "STOP"), Send("plate", "STOP"),
         Assign([tof |-> FALSE, running |-> FALSE]),
         Assign([pause |-> FALSE, recov |-> FALSE]), Return("cleaned")>>

\* After the second cycle: scoop home, calibration, main cover closed.
CleanFinish ==
  Spin("FORWARD") \o <<Assign([alwaysOn |-> FALSE]), CheckTofPause>>
    \o Drive("scoop", "REVERSE", "close") \o Spin("REVERSE")
    \o OnFail("calibAbort", MotorCalibration)
    \o DriveMainCoverSoft("REVERSE") \o Wait("main", "close")
    \o <<Send("main", "STOP"), Send("plate", "STOP"),
         Assign([tof |-> FALSE, running |-> FALSE]),
         Assign([pause |-> FALSE, recov |-> FALSE]), Return("cleaned")>>

\* Mutant: the error exit stops no motor.
CleanExitLeavesRunning ==
  <<Assign([alwaysOn |-> FALSE]), Latch, Assign([running |-> FALSE]),
    Assign([pause |-> FALSE, recov |-> FALSE]), IfLatched("recovery"), Return("error")>>

\* estop_exit: the request is remembered, the flags cleared, everything stopped.
CleanExit ==
  <<Assign([alwaysOn |-> FALSE]), Latch, Assign([running |-> FALSE]),
    Assign([pause |-> FALSE, recov |-> FALSE]), StopAll,
    IfLatched("recovery"), Return("error")>>

\* do_clean
CleanScript ==
  <<Label("clean")>>
    \o OnFail("exit", CleanStart \o CleanCycle(1) \o CleanCycle(2) \o CleanFinish)
    \o <<Label("calibAbort")>> \o CalibrationAbort("exit")
    \o <<Label("exit")>> \o CleanExit

-----------------------------------------------------------------------------
\* Mutant: the main cover is closed before the scoop is brought in.
RecoveryCoverFirst ==
  <<Assign([pause |-> FALSE]), Delay>>
    \o Unless("waste", "close", Drive("waste", "REVERSE", "close") \o <<Delay>>)
    \o When("main", "open", DriveMainCoverSoft("REVERSE") \o Wait("main", "close")
                               \o <<Send("main", "STOP"), Delay>>)
    \o OnFail("calibRecAbort", MotorCalibrationRecovery) \o <<Delay>>
    \o Unless("scoop", "close", Drive("scoop", "REVERSE", "close") \o <<Delay>>)
    \o <<Assign([running |-> FALSE, pause |-> FALSE]),
         Assign([recov |-> FALSE, estop |-> FALSE, tof |-> FALSE]),
         StopAll, Return("recovered")>>

\* do_clean_resume_recovery: the steps its sensors call for, then a reset of every flag.
Recovery ==
  <<Assign([pause |-> FALSE]), Delay>>
    \o Unless("waste", "close", Drive("waste", "REVERSE", "close") \o <<Delay>>)
    \o OnFail("calibRecAbort", MotorCalibrationRecovery) \o <<Delay>>
    \o Unless("scoop", "close", Drive("scoop", "REVERSE", "close") \o <<Delay>>)
    \o When("main", "open", DriveMainCoverSoft("REVERSE") \o Wait("main", "close")
                               \o <<Send("main", "STOP"), Delay>>)
    \o <<Assign([running |-> FALSE, pause |-> FALSE]),
         Assign([recov |-> FALSE, estop |-> FALSE, tof |-> FALSE]),
         StopAll, Return("recovered")>>

\* Mutant: recovery_abort resets the flags and stops no motor.
RecoveryAbortLeavesRunning ==
  <<Assign([running |-> FALSE, pause |-> FALSE]), Assign([recov |-> FALSE]),
    Assign([tof |-> FALSE]), Return("error")>>

RecoveryAbort ==
  <<Assign([running |-> FALSE, pause |-> FALSE]), Assign([recov |-> FALSE]),
    StopAll, Assign([tof |-> FALSE]), Return("error")>>

\* check_boot_origin_recovery goes on to the recovery unless all three are home.
BootCheck ==
  <<IfAt("waste", "close", 4), IfAt("main", "close", 3), IfAt("scoop", "close", 2),
    Return("aligned"), Assign([estop |-> FALSE]), Goto("recovery")>>

RecoveryScript ==
  <<Label("boot")>> \o BootCheck
    \o <<Label("recovery")>> \o OnFail("abort", Recovery)
    \o <<Label("calibRecAbort")>> \o CalibrationAbort("abort")
    \o <<Label("abort")>> \o RecoveryAbort

-----------------------------------------------------------------------------
\* Mutant: the scoop goes out first.
ManageStartScoopFirst ==
  <<Assign([tof |-> TRUE])>> \o Drive("scoop", "FORWARD", "open")
    \o DriveMainCoverSoft("FORWARD") \o Wait("main", "open")
    \o <<Send("main", "STOP"), Assign([tof |-> FALSE]), Return("opened")>>

\* do_manage_start and do_manage_finish: their error exits stop no motor.
ManageStart ==
  <<Assign([tof |-> TRUE])>> \o DriveMainCoverSoft("FORWARD") \o Wait("main", "open")
    \o <<Send("main", "STOP")>> \o Drive("scoop", "FORWARD", "open")
    \o <<Assign([tof |-> FALSE]), Return("opened")>>

ManageFinish ==
  <<Assign([tof |-> TRUE])>> \o Drive("scoop", "REVERSE", "close")
    \o DriveMainCoverSoft("REVERSE") \o Wait("main", "close")
    \o <<Send("main", "STOP"), Assign([tof |-> FALSE]), Return("shut")>>

ManageScript ==
  <<Label("manageStart")>> \o OnFail("manageExit", ManageStart)
    \o <<Label("manageFinish")>> \o OnFail("manageExit", ManageFinish)
    \o <<Label("manageExit"), Assign([tof |-> FALSE]), Return("error")>>

\* motor_calib_task, the console's S command
CalibrationScript ==
  <<Label("calibration")>> \o OnFail("calibExit", MotorCalibration)
    \o <<Return("calibrated"), Label("calibExit")>> \o CalibrationAbort("calibFailed")
    \o <<Label("calibFailed"), Return("error")>>

-----------------------------------------------------------------------------
\* All of motor.c, and where each label is in it.
MotorProgram == CleanScript \o RecoveryScript \o ManageScript \o CalibrationScript

MotorEntry ==
  LET program == MotorProgram
      where(l) == CHOOSE n \in DOMAIN program : program[n] = Label(l)
  IN [clean |-> where("clean"), calibAbort |-> where("calibAbort"), exit |-> where("exit"),
      boot |-> where("boot"), recovery |-> where("recovery"),
      calibRecAbort |-> where("calibRecAbort"), abort |-> where("abort"),
      manageStart |-> where("manageStart"), manageFinish |-> where("manageFinish"),
      manageExit |-> where("manageExit"), calibration |-> where("calibration"),
      calibExit |-> where("calibExit"), calibFailed |-> where("calibFailed")]
=============================================================================

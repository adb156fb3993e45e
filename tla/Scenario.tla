------------------------------ MODULE Scenario ------------------------------
(***************************************************************************)
(* The tasks that run the motor scenarios of main/motor.c, and the tasks   *)
(* that interrupt them: the key scanner (main/keyscan.c), which pauses and *)
(* resumes a cleaning, and the UART console (main/main.c), which can also  *)
(* stop everything.  They share volatile flags and the motor queues, and   *)
(* no lock.                                                                *)
(*                                                                         *)
(* A scenario is a sequence of instructions (module MotorScript for the    *)
(* real ones); a thread executes one statement of it per step, a loop that *)
(* reads a flag and later acts on it in two.                               *)
(***************************************************************************)
EXTENDS MotorChannel

CONSTANTS
  Program,     \* the instructions of all the scenarios
  Entry,       \* [labels -> DOMAIN Program]
  Threads,     \* the tasks that run scenarios
  Starts,      \* the labels at which a thread may start
  Hands,       \* the tasks that take orders: the key scanner, the console
  Orders,      \* what they may be told: "toggle", "estop", "other"
  MaxOrders,   \* bound: emergency stops, and presses that pause
  TofReadings, \* what get_fresh_tof_distance may return: see Tof below
  Prompt       \* a delay of 30 ms and more lets the command tasks catch up

Flags   == {"estop", "running", "pause", "recov", "alwaysOn", "tof"}
Labels  == DOMAIN Entry
Ops     == {"send", "delay", "wait", "try", "duration", "check", "estop", "tof", "seek",
            "ifat", "jump", "goto", "set", "latch", "iflatched", "return", "label"}
Results == {"none", "cleaned", "recovered", "aligned", "opened", "shut", "calibrated",
            "error"}
Readings == {"near", "far", "zero", "invalid"}

\* What an instruction must be for the threads to execute it.
WellFormed(n) ==
  LET i == Program[n] IN
  /\ i.op \in Ops
  /\ i.ms \subseteq Motors
  /\ i.d \in Directions
  /\ DOMAIN i.set \subseteq Flags
  /\ \A f \in DOMAIN i.set : i.set[f] \in BOOLEAN
  /\ i.op = "return" => i.arg \in Results
  /\ i.op \in {"ifat", "jump", "try"} => n + i.skip \in DOMAIN Program
  /\ i.op \in {"wait", "duration", "check", "estop", "tof", "seek", "goto", "iflatched"} =>
       i.fail \in Labels
  /\ i.op \notin {"return", "goto", "jump"} => n + 1 \in DOMAIN Program
  /\ i.op \in {"wait", "try", "seek", "ifat"} => \E m \in Motors : i.ms = {m}

ASSUME ProgramAssumption ==
  /\ DOMAIN Program \subseteq Nat \ {0}
  /\ \A n \in DOMAIN Program : WellFormed(n)
  /\ \A l \in Labels : Entry[l] \in DOMAIN Program
  /\ Starts \subseteq Labels
  /\ TofReadings \subseteq Readings
  /\ MaxOrders \in Nat
  /\ Prompt \in BOOLEAN

VARIABLES
  flag,     \* [Flags -> BOOLEAN], the flags of motor.c and the TOF sensor's enable
  pc,       \* [Threads -> position in Program], 0 when the thread is not running
  phase,    \* [Threads -> how far it is into the instruction at pc]
  latched,  \* [Threads -> BOOLEAN], is_recovery_mode
  result,   \* [Threads -> how its last scenario ended]
  hand,     \* [Hands -> how far it is into the order it is carrying out]
  orders,   \* emergency stops and pauses ordered so far
  late      \* [Threads -> motions commanded since emergency_stop_flag rose] (history)

task == <<flag, pc, phase, latched, result, late>>
vars == <<channel, task, hand, orders>>

Phases == {"start", "judge", "hold", "held"} \cup Readings
Grips  == {"idle", "seen", "pausing", "resuming", "stopping", "again"}

TypeOK ==
  /\ ChannelTypeOK
  /\ flag \in [Flags -> BOOLEAN]
  /\ pc \in [Threads -> DOMAIN Program \cup {0}]
  /\ phase \in [Threads -> Phases]
  /\ latched \in [Threads -> BOOLEAN]
  /\ result \in [Threads -> Results]
  /\ hand \in [Hands -> Grips]
  /\ orders \in 0..MaxOrders
  /\ late \in [Threads -> Nat]

Init ==
  /\ ChannelInit
  /\ flag = [f \in Flags |-> FALSE]
  /\ pc = [t \in Threads |-> 0]
  /\ phase = [t \in Threads |-> "start"]
  /\ latched = [t \in Threads |-> FALSE]
  /\ result = [t \in Threads |-> "none"]
  /\ hand = [h \in Hands |-> "idle"]
  /\ orders = 0
  /\ late = [t \in Threads |-> 0]

-----------------------------------------------------------------------------
\* Building blocks.
Running(t) == pc[t] # 0
Code(t)    == Program[pc[t]]
At(t, op)  == Running(t) /\ Code(t).op = op
Motor(t)   == CHOOSE m \in Motors : Code(t).ms = {m}

GoTo(t, n) == pc' = [pc EXCEPT ![t] = n] /\ phase' = [phase EXCEPT ![t] = "start"]
Ahead(t)   == GoTo(t, pc[t] + 1)
Fail(t)    == GoTo(t, IF Code(t).op = "try" THEN pc[t] + Code(t).skip
                      ELSE Entry[Code(t).fail])
Stay(t, p) == pc' = pc /\ phase' = [phase EXCEPT ![t] = p]

\* The flags become f; late counts from the moment emergency_stop_flag rises.
SetFlags(f) ==
  /\ flag' = f
  /\ late' = IF flag["estop"] /\ f["estop"] THEN late ELSE [t \in Threads |-> 0]

\* Nobody is in the middle of an order and no message is waiting.
Settled == Drained /\ \A h \in Hands : hand[h] = "idle"

\* Mutant: the loops look for a resume only.
StopAskedByResume == flag["recov"]

\* The condition at the head of every interruptible loop.
StopAsked == flag["estop"] \/ flag["recov"]

-----------------------------------------------------------------------------
\* One statement of the scenario that thread t runs.

\* send_*_msg, to one motor or, in a row without a delay, to all of them
SendStep(t) ==
  /\ At(t, "send")
  /\ queue' = Posted(Code(t).ms, Code(t).d)
  /\ late' = [late EXCEPT ![t] = IF flag["estop"] /\ Code(t).d \in Motions THEN @ + 1 ELSE @]
  /\ Ahead(t)
  /\ UNCHANGED <<motion, place, energised, flag, latched, result, hand, orders>>

DelayEnds(t) ==
  /\ At(t, "delay")
  /\ Prompt => Settled
  /\ Ahead(t)
  /\ UNCHANGED <<channel, flag, latched, result, late, hand, orders>>

\* The head of the loops of wait_motor_operation and wait_duration.  While the
\* pause lasts the thread sleeps here, looking at the stop flags only.
LookAtFlags(t) ==
  /\ Running(t) /\ Code(t).op \in {"wait", "try", "duration"} /\ phase[t] = "start"
  /\ IF StopAsked THEN Fail(t) ELSE ~flag["pause"] /\ Stay(t, "judge")
  /\ UNCHANGED <<channel, flag, latched, result, late, hand, orders>>

\* Mutant: the wait has no time-out.
WaitEndsWithoutTimeout(t) ==
  /\ Running(t) /\ Code(t).op \in {"wait", "try"} /\ phase[t] = "judge"
  /\ place[Motor(t)] = Code(t).arg \/ motion[Motor(t)] = "STOP"
  /\ Ahead(t)
  /\ UNCHANGED <<channel, flag, latched, result, late, hand, orders>>

\* The rest of the loop in its last round, 20 ms (wait_duration: 100 ms) later.
\* A motor that is not running counts as arrived once 300 ms have passed, and a
\* time-out may come at any time.
WaitEnds(t) ==
  /\ Running(t) /\ Code(t).op \in {"wait", "try"} /\ phase[t] = "judge"
  /\ \/ /\ \/ place[Motor(t)] = Code(t).arg
           \/ motion[Motor(t)] = "STOP"
        /\ Ahead(t)
     \/ Fail(t)
  /\ UNCHANGED <<channel, flag, latched, result, late, hand, orders>>

DurationEnds(t) ==
  /\ At(t, "duration") /\ phase[t] = "judge"
  /\ Ahead(t)
  /\ UNCHANGED <<channel, flag, latched, result, late, hand, orders>>

\* CHECK_ESTOP, and the plain tests of emergency_stop_flag in the calibrations
Check(t) ==
  /\ Running(t) /\ Code(t).op \in {"check", "estop"}
  /\ IF flag["estop"] \/ (Code(t).op = "check" /\ flag["recov"]) THEN Fail(t) ELSE Ahead(t)
  /\ UNCHANGED <<channel, flag, latched, result, late, hand, orders>>

\* The search loops of scp_spin_find_st_origin end with an emergency stop, with
\* the slot found, or after 30 s.
SeekEnds(t) ==
  /\ At(t, "seek")
  /\ IF flag["estop"]
       THEN queue' = Posted({"spin"}, "STOP") /\ Fail(t)
       ELSE queue' = queue /\ Ahead(t)
  /\ UNCHANGED <<motion, place, energised, flag, latched, result, late, hand, orders>>

\* CHECK_TOF_PAUSE.  The reading: an obstacle within 550 mm ("near"), none
\* ("far"), a sample of 0, or the -1 of an empty or invalid ring buffer.
TofRead(t) ==
  /\ At(t, "tof") /\ phase[t] = "start"
  /\ \E r \in TofReadings : Stay(t, r)
  /\ SetFlags([flag EXCEPT !["tof"] = TRUE])
  /\ UNCHANGED <<channel, latched, result, hand, orders>>

TofStop(t) ==
  /\ At(t, "tof") /\ phase[t] = "near"
  /\ queue' = Posted(Motors, "STOP")
  /\ Stay(t, "hold")
  /\ UNCHANGED <<motion, place, energised, flag, latched, result, late, hand, orders>>

TofHold(t) ==
  /\ At(t, "tof") /\ phase[t] = "hold"
  /\ SetFlags([flag EXCEPT !["pause"] = TRUE])
  /\ Stay(t, "held")
  /\ UNCHANGED <<channel, latched, result, hand, orders>>

\* The loop is left when the pause ends, whatever else has been asked for.
TofRelease(t) ==
  /\ At(t, "tof") /\ phase[t] = "held"
  /\ IF flag["pause"] THEN StopAsked /\ Fail(t) ELSE Ahead(t)
  /\ UNCHANGED <<channel, flag, latched, result, late, hand, orders>>

\* Everything but an obstacle is taken for a clear path.
TofClear(t) ==
  /\ At(t, "tof") /\ phase[t] \in Readings \ {"near"}
  /\ Ahead(t)
  /\ UNCHANGED <<channel, flag, latched, result, late, hand, orders>>

Branch(t) ==
  /\ Running(t)
  /\ \/ Code(t).op = "ifat" /\ place[Motor(t)] = Code(t).arg /\ Ahead(t)
     \/ Code(t).op = "ifat" /\ place[Motor(t)] # Code(t).arg /\ GoTo(t, pc[t] + Code(t).skip)
     \/ Code(t).op = "jump" /\ GoTo(t, pc[t] + Code(t).skip)
     \/ Code(t).op = "goto" /\ Fail(t)
     \/ Code(t).op = "iflatched" /\ (IF latched[t] THEN Fail(t) ELSE Ahead(t))
     \/ Code(t).op = "label" /\ Ahead(t)
  /\ UNCHANGED <<channel, flag, latched, result, late, hand, orders>>

SetStep(t) ==
  /\ At(t, "set")
  /\ SetFlags([f \in Flags |-> IF f \in DOMAIN Code(t).set THEN Code(t).set[f] ELSE flag[f]])
  /\ Ahead(t)
  /\ UNCHANGED <<channel, latched, result, hand, orders>>

LatchStep(t) ==
  /\ At(t, "latch")
  /\ latched' = [latched EXCEPT ![t] = flag["recov"]]
  /\ Ahead(t)
  /\ UNCHANGED <<channel, flag, result, late, hand, orders>>

\* Mutant: a scenario's return is missing, and it falls into the code that follows.
ReturnStepFallsThrough(t) ==
  /\ At(t, "return")
  /\ result' = [result EXCEPT ![t] = Code(t).arg]
  /\ latched' = [latched EXCEPT ![t] = FALSE]
  /\ Ahead(t)
  /\ UNCHANGED <<channel, flag, late, hand, orders>>

ReturnStep(t) ==
  /\ At(t, "return")
  /\ result' = [result EXCEPT ![t] = Code(t).arg]
  /\ latched' = [latched EXCEPT ![t] = FALSE]
  /\ GoTo(t, 0)
  /\ UNCHANGED <<channel, flag, late, hand, orders>>

\* A task is created to run the scenario at label l: ui_task, proximity_task and
\* the console do it.
Start(t, l) ==
  /\ ~Running(t)
  /\ GoTo(t, Entry[l])
  /\ result' = [result EXCEPT ![t] = "none"]
  /\ late' = [late EXCEPT ![t] = 0]
  /\ UNCHANGED <<channel, flag, latched, hand, orders>>

Statement(t) ==
  \/ SendStep(t) \/ DelayEnds(t) \/ LookAtFlags(t) \/ WaitEnds(t) \/ DurationEnds(t)
  \/ Check(t) \/ SeekEnds(t) \/ Branch(t) \/ SetStep(t) \/ LatchStep(t) \/ ReturnStep(t)
  \/ TofRead(t) \/ TofStop(t) \/ TofHold(t) \/ TofRelease(t) \/ TofClear(t)

-----------------------------------------------------------------------------
\* The key scanner and the console.

Grip(h, g) == hand' = [hand EXCEPT ![h] = g]

\* A short press of the clean key while clean_running_flag is set; W at the console
\* is an OtherCommand and then this.  Only a press that does not end a pause counts
\* against the bound.
SeeRunning(h) ==
  /\ "toggle" \in Orders /\ hand[h] = "idle" /\ flag["running"]
  /\ flag["pause"] \/ orders < MaxOrders
  /\ orders' = IF flag["pause"] THEN orders ELSE orders + 1
  /\ Grip(h, "seen")
  /\ UNCHANGED <<channel, task>>

\* toggle_clean_pause: the flag first, then the STOP messages; or the pause
\* flag first, then the request to recover.
Toggle(h) ==
  /\ hand[h] = "seen"
  /\ SetFlags([flag EXCEPT !["pause"] = ~@])
  /\ Grip(h, IF flag["pause"] THEN "resuming" ELSE "pausing")
  /\ UNCHANGED <<channel, pc, phase, latched, result, orders>>

RequestRecovery(h) ==
  /\ hand[h] = "resuming"
  /\ SetFlags([flag EXCEPT !["recov"] = TRUE])
  /\ Grip(h, "idle")
  /\ UNCHANGED <<channel, pc, phase, latched, result, orders>>

\* Z at the console: set_emergency_stop raises the flag, then posts the STOP
\* messages, and Z posts one more for the spindle.
RaiseEstop(h) ==
  /\ "estop" \in Orders /\ hand[h] = "idle" /\ orders < MaxOrders
  /\ orders' = orders + 1
  /\ SetFlags([flag EXCEPT !["estop"] = TRUE])
  /\ Grip(h, "stopping")
  /\ UNCHANGED <<channel, pc, phase, latched, result>>

PostStops(h) ==
  /\ hand[h] \in {"pausing", "stopping"}
  /\ queue' = Posted(Motors, "STOP")
  /\ Grip(h, IF hand[h] = "stopping" THEN "again" ELSE "idle")
  /\ UNCHANGED <<motion, place, energised, task, orders>>

StopSpinAgain(h) ==
  /\ hand[h] = "again"
  /\ queue' = Posted({"spin"}, "STOP")
  /\ Grip(h, "idle")
  /\ UNCHANGED <<motion, place, energised, task, orders>>

\* Process_Command clears the emergency stop before it looks which command it has,
\* unless it is Z; Y and an unknown command do nothing else to the machine.
OtherCommand(h) ==
  /\ "other" \in Orders /\ hand[h] = "idle" /\ flag["estop"]
  /\ SetFlags([flag EXCEPT !["estop"] = FALSE])
  /\ UNCHANGED <<channel, pc, phase, latched, result, hand, orders>>

Order(h) == SeeRunning(h) \/ RaiseEstop(h) \/ OtherCommand(h)

CarryOut(h) == Toggle(h) \/ RequestRecovery(h) \/ PostStops(h) \/ StopSpinAgain(h)

Machine(m) == MotorStep(m, flag["alwaysOn"]) /\ UNCHANGED <<task, hand, orders>>

Next ==
  \/ \E t \in Threads : Statement(t) \/ \E l \in Starts : Start(t, l)
  \/ \E h \in Hands : Order(h) \/ CarryOut(h)
  \/ \E m \in Motors : Machine(m)

(***************************************************************************)
(* Tasks are scheduled, queues are served, a motor at its sensor is        *)
(* stopped and a step count runs out.  Nobody has to press a key, no       *)
(* scenario has to start, and a part may jam: Travel is not fair.          *)
(***************************************************************************)
Served(m) ==
  /\ Handle(m, flag["alwaysOn"]) \/ AutoStop(m) \/ StepsDone(m, flag["alwaysOn"])
  /\ UNCHANGED <<task, hand, orders>>

Fairness ==
  /\ \A t \in Threads : WF_vars(Statement(t))
  /\ \A h \in Hands : WF_vars(CarryOut(h))
  /\ \A m \in Motors : WF_vars(Served(m))

Spec     == Init /\ [][Next]_vars
FairSpec == Spec /\ Fairness

-----------------------------------------------------------------------------
(* Properties *)

\* No scenario runs and every order and message has been carried out.
AtRest == (\A t \in Threads : ~Running(t)) /\ Settled

\* When everything is over no motor is left running, however the scenarios ended:
\* each error exit of motor.c must have stopped what its scenario had started.
Quiescent == AtRest => AllStopped

\* The scoop goes out only through the opened main cover: do_clean checks the
\* cover once, before the first cycle, and relies on it for four more moves.
ScoopNeedsOpenCover == motion["scoop"] = "FORWARD" => place["main"] = "open"

\* The main cover is never driven shut on a scoop that is not in: do_clean and the
\* recovery have only waits, which take a stopped motor for an arrived one.
CoverClosesOverScoopIn == motion["main"] = "REVERSE" => place["scoop"] = "close"

\* A cleaning that reports success has left the waste cover closed, through
\* pauses, time-outs and the retries of its close loop.
WasteClosedAfterClean ==
  \A t \in Threads : result[t] = "cleaned" => place["waste"] = "close"

\* After a cleaning or a recovery that succeeded the spindle driver is not left
\* energised, although it is held on between the moves of a cleaning.
DriverReleased ==
  AtRest /\ (\E t \in Threads : result[t] \in {"cleaned", "recovered"}) => ~energised

\* A scenario always comes to its end, unless somebody pauses it or the spindle's
\* start slot is searched for again and again: every wait has a time-out.
ScenarioEnds == \A t \in Threads : []<>(~Running(t) \/ flag["pause"] \/ At(t, "seek"))

\* An emergency stop that nobody clears ends all motion for good: a scenario that
\* went on commanding motors after the STOP messages stops them itself.
EstopStops == <>[]flag["estop"] => <>[]AllStopped

-----------------------------------------------------------------------------
(* What the help text of the firmware says, and the code does not always do: it is *)
(* checked by a run that must refute it.                                           *)

\* Z is an emergency stop (main.c:119): when the scenario it broke off is over,
\* nothing is left running.
EstopLeavesNothingRunning == flag["estop"] /\ AtRest => AllStopped
=============================================================================

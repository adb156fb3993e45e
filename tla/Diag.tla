--------------------------------- MODULE Diag ---------------------------------
(***************************************************************************)
(* The tests of the diagnostic mode (main/diag.c).  diag_process_task      *)
(* takes the motors through five of them: the clean key ends a test, and   *)
(* the other key drives the motor of the test the other way.  It runs      *)
(* alone, with the system's restart at its end.  A motor message is taken  *)
(* at once; the motors and the presses are the environment.                *)
(***************************************************************************)
EXTENDS Integers, Sequences

Tests      == {"rf", "plate", "scoop", "spin", "waste"}
DiagMotors == {"plate", "scoop", "spin", "waste"}

\* The statements that matter: a message to a motor, a wait, a look at a sensor that
\* skips what follows, the end of a test, and the restart.
Stmt(op, m, arg) == [op |-> op, m |-> m, arg |-> arg, n |-> 1]
Tell(m, d)       == <<Stmt("tell", m, d)>>
WaitDiag(m, at)  == <<Stmt("wait", m, at)>> \* wait_diag_operation
UntilEnd(m)      == <<Stmt("end", m, "none")>>
UnlessAt(m, at, stmts) == <<[Stmt("unless", m, at) EXCEPT !.n = Len(stmts) + 1]>> \o stmts

ScoopOut == UnlessAt("scoop", "open", Tell("scoop", "FORWARD") \o WaitDiag("scoop", "open"))

start_diag_mode(test) ==
  CASE test = "plate" -> Tell("plate", "FORWARD")
    [] test = "scoop" -> UnlessAt("scoop", "open", Tell("scoop", "FORWARD"))
    [] test = "spin"  -> ScoopOut \o Tell("spin", "FORWARD")
    [] test = "waste" -> ScoopOut \o UnlessAt("waste", "open", Tell("waste", "FORWARD"))
    [] OTHER -> <<>>

\* Mutant: the plate goes on turning.
finish_diag_modeLeavesPlate(test) ==
  CASE test = "scoop" -> ScoopOut
    [] test = "spin"  -> Tell("spin", "STOP")
    [] OTHER -> <<>>

\* The last test brings everything home: the waste cover, the spindle to its origin and on,
\* the scoop.
finish_diag_mode(test) ==
  CASE test = "plate" -> Tell("plate", "STOP")
    [] test = "scoop" -> ScoopOut
    [] test = "spin"  -> Tell("spin", "STOP")
    [] test = "waste" ->
         UnlessAt("waste", "close", Tell("waste", "REVERSE") \o WaitDiag("waste", "close")
                                      \o Tell("waste", "STOP"))
           \o UnlessAt("spin", "origin", Tell("spin", "FORWARD") \o <<Stmt("find", "spin", "origin")>>)
           \o Tell("spin", "REVERSE") \o UntilEnd("spin")
           \o Tell("scoop", "REVERSE") \o WaitDiag("scoop", "close") \o Tell("scoop", "STOP")
           \o Tell("spin", "REVERSE") \o UntilEnd("spin")
    [] OTHER -> <<>>

do_diag_mode(test) ==
  start_diag_mode(test) \o <<Stmt("test", test, "none")>> \o finish_diag_mode(test)

\* diag_process_task; the main cover's part is compiled out.
DiagProgram ==
  do_diag_mode("rf") \o do_diag_mode("plate") \o do_diag_mode("scoop")
    \o do_diag_mode("spin") \o do_diag_mode("waste") \o <<Stmt("restart", "none", "none")>>

VARIABLES
  at,        \* where diag_process_task is
  nextStep,  \* diag_next_step_f
  nextFunc,  \* diag_next_func_f
  func,      \* diag_func
  drive,     \* what each motor does
  where,     \* where it is, as the sensors see it
  leaving,   \* the waste cover has been told to open and has not left its place
  overlooked \* it was taken for closed then

diagTask == <<at, func, overlooked>>
diagVars == <<diagTask, nextStep, nextFunc, drive, where, leaving>>

DiagTypeOK ==
  /\ at \in 1..Len(DiagProgram) /\ func \in 0..1
  /\ {nextStep, nextFunc, leaving, overlooked} \subseteq BOOLEAN
  /\ drive \in [DiagMotors -> {"STOP", "FORWARD", "REVERSE"}]
  /\ where \in [{"scoop", "waste"} -> {"close", "middle", "open"}]

\* The scoop and the waste cover may have been left anywhere.
DiagInit ==
  /\ at = 1 /\ nextStep = FALSE /\ nextFunc = FALSE /\ func = 0
  /\ drive = [m \in DiagMotors |-> "STOP"]
  /\ where \in [{"scoop", "waste"} -> {"close", "middle", "open"}]
  /\ leaving = FALSE /\ overlooked = FALSE

Command(m, d) ==
  /\ drive' = [drive EXCEPT ![m] = d]
  /\ leaving' = IF m = "waste" THEN d = "FORWARD" /\ where[m] = "close" ELSE leaving

-----------------------------------------------------------------------------
(* diag_process_task *)

Next1(n) == at' = at + n

DoTell(i) ==
  /\ i.op = "tell" /\ Command(i.m, i.arg) /\ Next1(1)
  /\ UNCHANGED <<nextStep, nextFunc, func, where, overlooked>>

\* It waits no longer than the motor is given.
DoWait(i) ==
  /\ i.op = "wait" /\ (where[i.m] = i.arg \/ drive[i.m] = "STOP") /\ Next1(1)
  /\ UNCHANGED <<nextStep, nextFunc, func, drive, where, leaving, overlooked>>

DoUntilEnd(i) ==
  /\ i.op = "end" /\ drive[i.m] = "STOP" /\ Next1(1)
  /\ UNCHANGED <<nextStep, nextFunc, func, drive, where, leaving, overlooked>>

\* Where the spindle is, is not kept: its slots may be met at any time.
DoUnless(i) ==
  /\ i.op = "unless"
  /\ \E met \in IF i.m = "spin" THEN BOOLEAN ELSE {where[i.m] = i.arg} :
       /\ Next1(IF met THEN i.n ELSE 1)
       /\ overlooked' = (overlooked \/ (met /\ i.arg = "close" /\ leaving))
  /\ UNCHANGED <<nextStep, nextFunc, func, drive, where, leaving>>

\* The slots are found, and the spindle stopped, or its time is over.
DoFind(i) ==
  /\ i.op = "find" /\ Next1(1)
  /\ drive' = [drive EXCEPT !["spin"] = "STOP"]
  /\ UNCHANGED <<nextStep, nextFunc, func, where, leaving, overlooked>>

DoNextStep(i) ==
  /\ i.op = "test" /\ nextStep /\ nextStep' = FALSE /\ func' = 0 /\ Next1(1)
  /\ UNCHANGED <<nextFunc, drive, where, leaving, overlooked>>

\* next_diag_func: the scoop and the waste cover are told to go where they are not.
DoNextFunc(i) ==
  /\ i.op = "test" /\ ~nextStep /\ nextFunc /\ nextFunc' = FALSE
  /\ func' = 1 - func
  /\ LET d    == IF func' = 0 THEN "FORWARD" ELSE "REVERSE"
         goal == IF func' = 0 THEN "open" ELSE "close"
     IN IF i.m = "rf" \/ (i.m \in {"scoop", "waste"} /\ where[i.m] = goal)
        THEN UNCHANGED <<drive, leaving>> ELSE Command(i.m, d)
  /\ UNCHANGED <<at, nextStep, where, overlooked>>

ProcessTask ==
  LET i == DiagProgram[at] IN
  \/ DoTell(i) \/ DoWait(i) \/ DoUntilEnd(i) \/ DoUnless(i) \/ DoFind(i)
  \/ DoNextStep(i) \/ DoNextFunc(i)

-----------------------------------------------------------------------------
(* diag_cmd_task, and the motors *)

Press(step) ==
  /\ nextStep' = (nextStep \/ step) /\ nextFunc' = (nextFunc \/ ~step)
  /\ UNCHANGED <<diagTask, drive, where, leaving>>

\* A cover or scoop moves on, and stops at the end.
Moves(m) ==
  /\ drive[m] # "STOP"
  /\ LET end == IF drive[m] = "FORWARD" THEN "open" ELSE "close" IN
     /\ where' = [where EXCEPT ![m] = IF @ \in {"middle", end} THEN end ELSE "middle"]
     /\ drive' = IF where'[m] = end THEN [drive EXCEPT ![m] = "STOP"] ELSE drive
  /\ leaving' = (leaving /\ m # "waste")
  /\ UNCHANGED <<diagTask, nextStep, nextFunc>>

\* The time that it was given is over; the plate has no end.
RunEnds(m) ==
  /\ drive[m] # "STOP" /\ drive' = [drive EXCEPT ![m] = "STOP"]
  /\ leaving' = (leaving /\ m # "waste")
  /\ UNCHANGED <<diagTask, nextStep, nextFunc, where>>

DiagNext ==
  \/ ProcessTask \/ \E step \in BOOLEAN : Press(step)
  \/ \E m \in {"scoop", "waste"} : Moves(m)
  \/ \E m \in DiagMotors \ {"plate"} : RunEnds(m)

DiagSpec == DiagInit /\ [][DiagNext]_diagVars

-----------------------------------------------------------------------------
(* Properties *)

\* At the restart nothing runs, but a waste cover that was told to open by a press right
\* before that of the last step, and that was still seen closed then.
DiagLeavesQuiet ==
  DiagProgram[at].op = "restart" =>
    \A m \in DiagMotors : drive[m] = "STOP" \/ (m = "waste" /\ overlooked)
=============================================================================

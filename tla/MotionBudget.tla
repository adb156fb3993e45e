---------------------------- MODULE MotionBudget ----------------------------
(***************************************************************************)
(* How many motions a scenario may still command after an emergency stop.  *)
(*                                                                         *)
(* motor.c reads emergency_stop_flag at its waits and at a few checks, so  *)
(* a scenario goes on to its next look at the flag.  Cost[n] bounds what   *)
(* it commands on the way from instruction n; the assumption says that     *)
(* Cost is such a bound, one instruction at a time, and the invariant that *)
(* no interleaving of any number of threads and orders exceeds it.         *)
(***************************************************************************)
EXTENDS Scenario

CONSTANTS
  Cost,     \* [DOMAIN Program -> Nat], the motions ahead of an instruction
  MaxLate   \* the bound claimed for every scenario

\* How each instruction passes on the motions ahead of it, while the stop flag
\* is up: a look at the flag leads to the error exit, whatever comes next.
CostCovers(n) ==
  LET i == Program[n]
      covers(k) == Cost[n] >= Cost[k]
  IN /\ i.op = "send" => Cost[n] >= Cost[n + 1] + (IF i.d \in Motions THEN 1 ELSE 0)
     /\ i.op \in {"delay", "latch", "label", "tof", "ifat", "iflatched"} => covers(n + 1)
     /\ i.op = "set" => covers(n + 1) \/ ("estop" \in DOMAIN i.set /\ ~i.set["estop"])
     /\ i.op \in {"wait", "duration", "check", "estop", "seek", "tof", "goto", "iflatched"} =>
          covers(Entry[i.fail])
     /\ i.op \in {"try", "ifat", "jump"} => covers(n + i.skip)

ASSUME CostAssumption ==
  /\ MaxLate \in Nat
  /\ Cost \in [DOMAIN Program -> 0..MaxLate]
  /\ \A n \in DOMAIN Program : CostCovers(n)

\* Since emergency_stop_flag rose, no scenario has commanded more than MaxLate
\* motions: the waits, checks and search loops of motor.c bound its overrun.
EstopBudget == \A t \in Threads : late[t] <= MaxLate

\* What is left of thread t's budget covers what lies ahead of it; past a look at
\* the flag (phase "judge") both ways on are covered.
Covered(t) ==
  /\ ~flag["estop"] => late[t] = 0
  /\ late[t] <= MaxLate
  /\ Running(t) /\ phase[t] # "judge" => late[t] + Cost[pc[t]] <= MaxLate
  /\ Running(t) /\ phase[t] = "judge" =>
       /\ Code(t).op \in {"wait", "try", "duration"}
       /\ late[t] + Cost[pc[t] + 1] <= MaxLate
       /\ Code(t).op \in {"wait", "duration"} => late[t] + Cost[Entry[Code(t).fail]] <= MaxLate
       /\ Code(t).op = "try" => late[t] + Cost[pc[t] + Code(t).skip] <= MaxLate

\* The inductive form of EstopBudget.
BudgetInv == \A t \in Threads : Covered(t)
=============================================================================

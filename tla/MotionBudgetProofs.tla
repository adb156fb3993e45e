------------------------- MODULE MotionBudgetProofs -------------------------
(***************************************************************************)
(* The bound on what a scenario commands after an emergency stop, for any  *)
(* program and any Cost that covers it.  BudgetInv is inductive: a step of *)
(* a thread spends at most what Cost foresaw, a step of anybody else       *)
(* spends nothing, and a fall of the flag clears the account.              *)
(***************************************************************************)
EXTENDS MotionBudget, ScenarioProofs

\* Where a thread that obeys the program can be, and what its instruction costs.
LEMMA CostFacts ==
  ASSUME NEW n \in DOMAIN Program
  PROVE  /\ Cost[n] \in 0..MaxLate
         /\ CostCovers(n)
         /\ MaxLate \in Nat
         /\ Cost \in [DOMAIN Program -> 0..MaxLate]
BY CostAssumption

\* A flag assignment keeps an account or, unless it leaves the stop flag up,
\* clears it.
LEMMA FlagsAccount ==
  ASSUME TypeOK, NEW f \in [Flags -> BOOLEAN], SetFlags(f), NEW u \in Threads
  PROVE  /\ late'[u] = late[u] \/ late'[u] = 0
         /\ ~(flag["estop"] /\ f["estop"]) => late'[u] = 0
         /\ flag' = f
BY DEF TypeOK, SetFlags

\* Whoever does not move is still covered, as long as nothing is charged to it.
LEMMA StillCovered ==
  ASSUME TypeOK, NEW u \in Threads, Covered(u),
         pc'[u] = pc[u], phase'[u] = phase[u],
         late'[u] = late[u] \/ late'[u] = 0,
         ~flag'["estop"] => late'[u] = 0
  PROVE  Covered(u)'
<1>1. MaxLate \in Nat /\ Cost \in [DOMAIN Program -> 0..MaxLate]
  BY CostAssumption
<1>2. late[u] \in Nat /\ late'[u] \in Nat /\ late'[u] <= late[u]
  BY DEF TypeOK
<1>3. CASE ~Running(u)
  BY <1>1, <1>2, <1>3 DEF Covered, Running
<1>4. CASE Running(u) /\ phase[u] # "judge"
  <2>1. Cost[pc[u]] \in Nat
    BY <1>1, <1>4 DEF TypeOK, Running
  <2> QED BY <1>1, <1>2, <1>4, <2>1 DEF Covered, Running
<1>5. CASE Running(u) /\ phase[u] = "judge"
  <2>1. pc[u] \in DOMAIN Program
    BY <1>5 DEF TypeOK, Running
  <2>2. Code(u).op \in {"wait", "try", "duration"}
    BY <1>5 DEF Covered
  <2>3. /\ Cost[pc[u] + 1] \in Nat
        /\ Code(u).op \in {"wait", "duration"} => Cost[Entry[Code(u).fail]] \in Nat
        /\ Code(u).op = "try" => Cost[pc[u] + Code(u).skip] \in Nat
    BY <1>1, <2>1, <2>2, Targets DEF Code
  <2> QED BY <1>1, <1>2, <1>5, <2>2, <2>3 DEF Covered, Running, Code
<1> QED BY <1>3, <1>4, <1>5

\* A thread that comes to instruction n is covered if its account covers n.
LEMMA ArrivalCovered ==
  ASSUME TypeOK, NEW t \in Threads, NEW n \in DOMAIN Program \cup {0}, GoTo(t, n),
         late'[t] \in Nat, late'[t] <= MaxLate,
         ~flag'["estop"] => late'[t] = 0,
         n # 0 => late'[t] + Cost[n] <= MaxLate
  PROVE  Covered(t)'
<1>1. pc'[t] = n /\ phase'[t] = "start"
  BY DEF GoTo, TypeOK
<1> QED BY <1>1 DEF Covered, Running

\* Every statement leaves the thread that executes it covered.
LEMMA MoverCovered ==
  ASSUME TypeOK, NEW t \in Threads, Covered(t), Statement(t)
  PROVE  Covered(t)'
<1> DEFINE n == pc[t]
<1>1. /\ Running(t) /\ n \in DOMAIN Program
      /\ Code(t) = Program[n]
      /\ late[t] \in Nat /\ late[t] <= MaxLate
      /\ ~flag["estop"] => late[t] = 0
  BY DEF TypeOK, Running, Code, Covered, Statement, SendStep, DelayEnds, LookAtFlags, WaitEnds,
         DurationEnds, Check, SeekEnds, Branch, SetStep, LatchStep, ReturnStep, TofRead, TofStop,
         TofHold, TofRelease, TofClear, At
<1>2. /\ Cost \in [DOMAIN Program -> 0..MaxLate] /\ MaxLate \in Nat
      /\ CostCovers(n)
  BY <1>1, CostFacts
<1>3. phase[t] # "judge" => late[t] + Cost[n] <= MaxLate
  BY <1>1 DEF Covered
<1>4. Code(t).op \notin {"wait", "try", "duration"} => phase[t] # "judge"
  BY <1>1 DEF Covered
\* A statement that moves to n2, within the costs of n, and charges nothing.
<1>5. ASSUME NEW n2 \in DOMAIN Program \cup {0}, GoTo(t, n2), UNCHANGED <<flag, late>>,
             n2 # 0 => late[t] + Cost[n2] <= MaxLate
      PROVE  Covered(t)'
  BY <1>1, <1>5, ArrivalCovered
\* The two ways on that most instructions have.
<1>6. ASSUME Ahead(t), UNCHANGED <<flag, late>>, phase[t] # "judge",
             Code(t).op \in {"delay", "latch", "label", "tof", "ifat", "iflatched", "check",
                             "estop", "seek"},
             Code(t).op \in {"check", "estop", "seek"} => late[t] = 0
      PROVE  Covered(t)'
  <2>1. n + 1 \in DOMAIN Program
    BY <1>1, <1>6, Targets
  <2>2. late[t] + Cost[n + 1] <= MaxLate
    <3>1. CASE Code(t).op \in {"check", "estop", "seek"}
      BY <1>1, <1>2, <1>6, <2>1, <3>1
    <3>2. CASE Code(t).op \notin {"check", "estop", "seek"}
      <4>1. Cost[n] >= Cost[n + 1]
        BY <1>1, <1>2, <1>6, <3>2 DEF CostCovers
      <4> QED BY <1>1, <1>2, <1>3, <1>6, <2>1, <4>1
    <3> QED BY <3>1, <3>2
  <2> QED BY <1>5, <1>6, <2>1, <2>2 DEF Ahead
<1>7. ASSUME Fail(t), UNCHANGED <<flag, late>>, phase[t] # "judge",
             Code(t).op \in {"wait", "try", "duration", "check", "estop", "seek", "tof", "goto",
                             "iflatched"}
      PROVE  Covered(t)'
  <2>1. CASE Code(t).op = "try"
    <3>1. n + Code(t).skip \in DOMAIN Program /\ GoTo(t, n + Code(t).skip)
      BY <1>1, <1>7, <2>1, Targets DEF Fail
    <3>2. Cost[n] >= Cost[n + Code(t).skip]
      BY <1>1, <1>2, <2>1 DEF CostCovers
    <3>3. late[t] + Cost[n + Code(t).skip] <= MaxLate
      BY <1>1, <1>2, <1>3, <1>7, <3>1, <3>2
    <3> QED BY <1>5, <1>7, <3>1, <3>3
  <2>2. CASE Code(t).op # "try"
    <3>1. Entry[Code(t).fail] \in DOMAIN Program /\ GoTo(t, Entry[Code(t).fail])
      BY <1>1, <1>7, <2>2, Targets DEF Fail
    <3>2. Cost[n] >= Cost[Entry[Code(t).fail]]
      BY <1>1, <1>2, <1>7, <2>2 DEF CostCovers
    <3>3. late[t] + Cost[Entry[Code(t).fail]] <= MaxLate
      BY <1>1, <1>2, <1>3, <1>7, <3>1, <3>2
    <3> QED BY <1>5, <1>7, <3>1, <3>3
  <2> QED BY <2>1, <2>2
<1>8. CASE SendStep(t)
  <2>1. /\ Code(t).op = "send" /\ GoTo(t, n + 1) /\ flag' = flag
        /\ phase[t] # "judge" /\ n + 1 \in DOMAIN Program
    BY <1>1, <1>4, <1>8, Targets DEF SendStep, At, Ahead
  <2>2. Cost[n] >= Cost[n + 1] + (IF Code(t).d \in Motions THEN 1 ELSE 0)
    BY <1>1, <1>2, <2>1 DEF CostCovers
  <2>3. late'[t] = IF flag["estop"] /\ Code(t).d \in Motions THEN late[t] + 1 ELSE late[t]
    BY <1>8 DEF SendStep, TypeOK
  <2>4. /\ late'[t] \in Nat /\ late'[t] + Cost[n + 1] <= MaxLate
        /\ Cost[n + 1] \in Nat
        /\ ~flag["estop"] => late'[t] = 0
    BY <1>1, <1>2, <1>3, <2>1, <2>2, <2>3
  <2>5. late'[t] <= MaxLate
    BY <1>2, <2>4
  <2> QED BY <2>1, <2>4, <2>5, ArrivalCovered
<1>9. CASE DelayEnds(t)
  BY <1>4, <1>6, <1>9 DEF DelayEnds, At
<1>10. CASE LookAtFlags(t)
  <2>1. Code(t).op \in {"wait", "try", "duration"} /\ phase[t] = "start"
        /\ UNCHANGED <<flag, late>>
    BY <1>10 DEF LookAtFlags
  <2>2. CASE StopAsked
    BY <1>7, <1>10, <2>1, <2>2 DEF LookAtFlags
  <2>3. CASE ~StopAsked
    <3>1. /\ pc' = pc /\ phase'[t] = "judge"
          /\ late[t] = 0
      BY <1>1, <1>10, <2>3 DEF LookAtFlags, Stay, StopAsked, TypeOK
    <3>2. /\ n + 1 \in DOMAIN Program
          /\ Code(t).op \in {"wait", "duration"} => Entry[Code(t).fail] \in DOMAIN Program
          /\ Code(t).op = "try" => n + Code(t).skip \in DOMAIN Program
      BY <1>1, <2>1, Targets
    <3> QED BY <1>1, <1>2, <2>1, <3>1, <3>2 DEF Covered, Running, Code
  <2> QED BY <2>2, <2>3
<1>11. CASE WaitEnds(t) \/ DurationEnds(t)
  <2>1. /\ Code(t).op \in {"wait", "try", "duration"} /\ phase[t] = "judge"
        /\ UNCHANGED <<flag, late>>
        /\ \/ Ahead(t)
           \/ Code(t).op \in {"wait", "try"} /\ Fail(t)
    BY <1>11 DEF WaitEnds, DurationEnds, At
  <2>2. CASE Ahead(t)
    <3>1. n + 1 \in DOMAIN Program /\ late[t] + Cost[n + 1] <= MaxLate
      BY <1>1, <2>1, Targets DEF Covered
    <3> QED BY <1>5, <2>1, <2>2, <3>1 DEF Ahead
  <2>3. CASE Code(t).op = "try" /\ Fail(t)
    <3>1. n + Code(t).skip \in DOMAIN Program /\ late[t] + Cost[n + Code(t).skip] <= MaxLate
      BY <1>1, <2>1, <2>3, Targets DEF Covered
    <3> QED BY <1>5, <2>1, <2>3, <3>1 DEF Fail
  <2>4. CASE Code(t).op = "wait" /\ Fail(t)
    <3>1. /\ Entry[Code(t).fail] \in DOMAIN Program
          /\ late[t] + Cost[Entry[Code(t).fail]] <= MaxLate
      BY <1>1, <2>1, <2>4, Targets DEF Covered
    <3> QED BY <1>5, <2>1, <2>4, <3>1 DEF Fail
  <2> QED BY <2>1, <2>2, <2>3, <2>4
<1>12. CASE Check(t)
  <2>1. /\ Code(t).op \in {"check", "estop"} /\ UNCHANGED <<flag, late>>
        /\ Fail(t) \/ (Ahead(t) /\ ~flag["estop"])
    BY <1>12 DEF Check
  <2> QED BY <1>1, <1>4, <1>6, <1>7, <2>1
<1>13. CASE SeekEnds(t)
  <2>1. /\ Code(t).op = "seek" /\ UNCHANGED <<flag, late>>
        /\ Fail(t) \/ (Ahead(t) /\ ~flag["estop"])
    BY <1>13 DEF SeekEnds, At
  <2> QED BY <1>1, <1>4, <1>6, <1>7, <2>1
<1>14. CASE Branch(t)
  <2>1. /\ UNCHANGED <<flag, late>>
        /\ \/ Code(t).op \in {"ifat", "iflatched", "label"} /\ Ahead(t)
           \/ Code(t).op \in {"ifat", "jump"} /\ GoTo(t, n + Code(t).skip)
           \/ Code(t).op \in {"goto", "iflatched"} /\ Fail(t)
    BY <1>14 DEF Branch
  <2>2. CASE Code(t).op \in {"ifat", "jump"} /\ GoTo(t, n + Code(t).skip)
    <3>1. n + Code(t).skip \in DOMAIN Program
      BY <1>1, <2>2, Targets
    <3>2. Cost[n] >= Cost[n + Code(t).skip]
      BY <1>1, <1>2, <2>2 DEF CostCovers
    <3>3. late[t] + Cost[n + Code(t).skip] <= MaxLate
      BY <1>1, <1>2, <1>3, <1>4, <2>2, <3>1, <3>2
    <3> QED BY <1>5, <2>1, <2>2, <3>1, <3>3
  <2> QED BY <1>4, <1>6, <1>7, <2>1, <2>2
<1>15. CASE SetStep(t)
  <2> DEFINE f == [g \in Flags |-> IF g \in DOMAIN Code(t).set THEN Code(t).set[g] ELSE flag[g]]
  <2>1. /\ Code(t).op = "set" /\ GoTo(t, n + 1) /\ SetFlags(f)
        /\ phase[t] # "judge" /\ n + 1 \in DOMAIN Program
    BY <1>1, <1>4, <1>15, Targets DEF SetStep, At, Ahead
  <2>2. f \in [Flags -> BOOLEAN]
    BY <1>1, Targets DEF TypeOK
  <2> HIDE DEF f
  <2>3. /\ late'[t] = late[t] \/ late'[t] = 0
        /\ ~(flag["estop"] /\ f["estop"]) => late'[t] = 0
        /\ flag' = f
    BY <2>1, <2>2, FlagsAccount
  <2>4. late'[t] + Cost[n + 1] <= MaxLate
    <3>1. CASE Cost[n] >= Cost[n + 1]
      BY <1>1, <1>2, <1>3, <2>1, <2>3, <3>1
    <3>2. CASE "estop" \in DOMAIN Code(t).set /\ ~Code(t).set["estop"]
      <4>1. ~f["estop"]
        BY <3>2 DEF f, Flags
      <4> QED BY <1>2, <2>1, <2>3, <4>1
    <3> QED BY <1>1, <1>2, <2>1, <3>1, <3>2 DEF CostCovers
  <2> QED BY <1>1, <1>2, <2>1, <2>3, <2>4, ArrivalCovered
<1>16. CASE LatchStep(t)
  BY <1>4, <1>6, <1>16 DEF LatchStep, At
<1>17. CASE ReturnStep(t)
  BY <1>5, <1>17 DEF ReturnStep
<1>18. CASE TofRead(t)
  <2>1. /\ Code(t).op = "tof" /\ phase[t] # "judge" /\ pc' = pc /\ phase'[t] # "judge"
    BY <1>4, <1>18, ProgramAssumption DEF TofRead, At, Stay, TypeOK, Readings
  <2>2. /\ late'[t] = late[t] \/ late'[t] = 0
        /\ ~flag'["estop"] => late'[t] = 0
    <3>1. [flag EXCEPT !["tof"] = TRUE] \in [Flags -> BOOLEAN]
      BY DEF TypeOK
    <3> QED BY <1>18, <3>1, FlagsAccount DEF TofRead
  <2> QED BY <1>1, <1>2, <1>3, <2>1, <2>2 DEF Covered, Running
<1>19. CASE TofStop(t)
  <2>1. /\ Code(t).op = "tof" /\ phase[t] # "judge" /\ pc' = pc /\ phase'[t] # "judge"
        /\ UNCHANGED <<flag, late>>
    BY <1>4, <1>19 DEF TofStop, At, Stay, TypeOK
  <2> QED BY <1>1, <1>3, <2>1 DEF Covered, Running
<1>20. CASE TofHold(t)
  <2>1. /\ Code(t).op = "tof" /\ phase[t] # "judge" /\ pc' = pc /\ phase'[t] # "judge"
    BY <1>4, <1>20 DEF TofHold, At, Stay, TypeOK
  <2>2. /\ late'[t] = late[t] \/ late'[t] = 0
        /\ ~flag'["estop"] => late'[t] = 0
    <3>1. [flag EXCEPT !["pause"] = TRUE] \in [Flags -> BOOLEAN]
      BY DEF TypeOK
    <3> QED BY <1>20, <3>1, FlagsAccount DEF TofHold
  <2> QED BY <1>1, <1>2, <1>3, <2>1, <2>2 DEF Covered, Running
<1>21. CASE TofRelease(t)
  BY <1>4, <1>6, <1>7, <1>21 DEF TofRelease, At
<1>22. CASE TofClear(t)
  BY <1>4, <1>6, <1>22 DEF TofClear, At
<1> QED BY <1>8, <1>9, <1>10, <1>11, <1>12, <1>13, <1>14, <1>15, <1>16, <1>17, <1>18, <1>19,
           <1>20, <1>21, <1>22 DEF Statement

\* What a statement of thread t means for the others: nothing is charged to them.
LEMMA OthersCovered ==
  ASSUME TypeOK, NEW t \in Threads, NEW u \in Threads, u # t, Covered(u), Statement(t)
  PROVE  Covered(u)'
<1>1. pc'[u] = pc[u] /\ phase'[u] = phase[u]
  BY DEF TypeOK, Statement, SendStep, DelayEnds, LookAtFlags, WaitEnds, DurationEnds, Check,
         SeekEnds, Branch, SetStep, LatchStep, ReturnStep, TofRead, TofStop, TofHold, TofRelease,
         TofClear, Ahead, Fail, Stay, GoTo
<1>2. /\ late'[u] = late[u] \/ late'[u] = 0
      /\ ~flag'["estop"] => late'[u] = 0
  <2>1. CASE flag' = flag /\ late'[u] = late[u]
    BY <2>1 DEF Covered
  <2>2. CASE \E f \in [Flags -> BOOLEAN] : SetFlags(f)
    BY <2>2, FlagsAccount
  <2>3. ASSUME SetStep(t) PROVE \E f \in [Flags -> BOOLEAN] : SetFlags(f)
    <3>1. \A g \in DOMAIN Code(t).set : Code(t).set[g] \in BOOLEAN
      BY <2>3, Targets DEF SetStep, At, Running, Code, TypeOK
    <3>2. [g \in Flags |-> IF g \in DOMAIN Code(t).set THEN Code(t).set[g] ELSE flag[g]]
            \in [Flags -> BOOLEAN]
      BY <3>1 DEF TypeOK
    <3> QED BY <2>3, <3>2 DEF SetStep
  <2>4. ASSUME TofRead(t) \/ TofHold(t) PROVE \E f \in [Flags -> BOOLEAN] : SetFlags(f)
    <3>1. \A g \in Flags : [flag EXCEPT ![g] = TRUE] \in [Flags -> BOOLEAN]
      BY DEF TypeOK
    <3> QED BY <2>4, <3>1 DEF TofRead, TofHold, Flags
  <2>5. ASSUME SendStep(t) PROVE flag' = flag /\ late'[u] = late[u]
    BY <2>5 DEF SendStep, TypeOK
  <2> QED BY <2>1, <2>2, <2>3, <2>4, <2>5
          DEF Statement, DelayEnds, LookAtFlags, WaitEnds, DurationEnds, Check, SeekEnds, Branch,
              LatchStep, ReturnStep, TofStop, TofRelease, TofClear
<1> QED BY <1>1, <1>2, StillCovered

\* xTaskCreate of a scenario: the new thread begins with an account of its own.
LEMMA StartCovered ==
  ASSUME TypeOK, BudgetInv, NEW t \in Threads, NEW l \in Starts, Start(t, l)
  PROVE  BudgetInv'
<1> SUFFICES ASSUME NEW u \in Threads PROVE Covered(u)'
  BY DEF BudgetInv
<1>1. Covered(u)
  BY DEF BudgetInv
<1>2. CASE u = t
  <2>1. Entry[l] \in DOMAIN Program /\ GoTo(u, Entry[l]) /\ late'[u] = 0
    BY <1>2, ProgramAssumption DEF Start, TypeOK
  <2>2. MaxLate \in Nat /\ Cost[Entry[l]] \in 0..MaxLate
    BY <2>1, CostFacts
  <2> QED BY <2>1, <2>2, ArrivalCovered
<1>3. CASE u # t
  <2>1. pc'[u] = pc[u] /\ phase'[u] = phase[u] /\ late'[u] = late[u] /\ flag' = flag
    BY <1>3 DEF Start, GoTo, TypeOK
  <2> QED BY <1>1, <2>1, StillCovered DEF Covered
<1> QED BY <1>2, <1>3

\* The key scanner and the console command no motion of a thread, and Z opens new accounts.
LEMMA HandCovered ==
  ASSUME TypeOK, BudgetInv, NEW h \in Hands, Order(h) \/ CarryOut(h)
  PROVE  BudgetInv'
<1> SUFFICES ASSUME NEW u \in Threads PROVE Covered(u)'
  BY DEF BudgetInv
<1>1. Covered(u)
  BY DEF BudgetInv
<1>2. pc' = pc /\ phase' = phase
  BY DEF Order, CarryOut, SeeRunning, Toggle, RequestRecovery, RaiseEstop, PostStops,
         StopSpinAgain, OtherCommand, task
<1>3. CASE UNCHANGED <<flag, late>>
  BY <1>1, <1>2, <1>3, StillCovered DEF Covered
<1>4. CASE \E f \in [Flags -> BOOLEAN] : SetFlags(f)
  BY <1>1, <1>2, <1>4, FlagsAccount, StillCovered
<1>5. ASSUME Toggle(h) PROVE \E f \in [Flags -> BOOLEAN] : SetFlags(f)
  <2>1. [flag EXCEPT !["pause"] = ~@] \in [Flags -> BOOLEAN]
    BY DEF TypeOK, Flags
  <2> QED BY <1>5, <2>1 DEF Toggle
<1>6. ASSUME RequestRecovery(h) \/ RaiseEstop(h) \/ OtherCommand(h)
      PROVE  \E f \in [Flags -> BOOLEAN] : SetFlags(f)
  <2>1. \A g \in Flags, b \in BOOLEAN : [flag EXCEPT ![g] = b] \in [Flags -> BOOLEAN]
    BY DEF TypeOK
  <2> QED BY <1>6, <2>1 DEF RequestRecovery, RaiseEstop, OtherCommand, Flags
<1> QED BY <1>3, <1>4, <1>5, <1>6 DEF Order, CarryOut, SeeRunning, PostStops,
          StopSpinAgain, task

\* BudgetInv is inductive.
LEMMA BudgetInit == Init => BudgetInv
BY CostAssumption DEF Init, BudgetInv, Covered, Running

\* Every step of the threads, the hands and the motors keeps BudgetInv.
LEMMA BudgetStep == TypeOK /\ BudgetInv /\ [Next]_vars => BudgetInv'
<1> SUFFICES ASSUME TypeOK, BudgetInv, [Next]_vars PROVE BudgetInv'
  OBVIOUS
<1>1. ASSUME NEW t \in Threads, Statement(t) PROVE BudgetInv'
  BY <1>1, MoverCovered, OthersCovered DEF BudgetInv
<1>2. ASSUME NEW t \in Threads, NEW l \in Starts, Start(t, l) PROVE BudgetInv'
  BY <1>2, StartCovered
<1>3. ASSUME NEW h \in Hands, Order(h) \/ CarryOut(h) PROVE BudgetInv'
  BY <1>3, HandCovered
<1>4. ASSUME UNCHANGED task PROVE BudgetInv'
  BY <1>4 DEF BudgetInv, Covered, Running, Code, task
<1> QED BY <1>1, <1>2, <1>3, <1>4 DEF Next, Machine, vars

\* Every reachable state satisfies the inductive invariant.
THEOREM BudgetInvariant == Spec => []BudgetInv
<1>1. Init => TypeOK /\ BudgetInv
  BY TypeInit, BudgetInit
<1>2. TypeOK /\ BudgetInv /\ [Next]_vars => (TypeOK /\ BudgetInv)'
  BY TypeStep, BudgetStep
<1> QED BY <1>1, <1>2, PTL DEF Spec

\* No interleaving of the scenarios, the key, the console and the motors makes a
\* scenario command more than MaxLate motions after an emergency stop.
THEOREM BudgetCorrect == Spec => []EstopBudget
<1>1. BudgetInv => EstopBudget
  BY DEF BudgetInv, Covered, EstopBudget
<1> QED BY <1>1, BudgetInvariant, PTL
=============================================================================

--------------------------- MODULE ScenarioProofs ---------------------------
(***************************************************************************)
(* Theorems about the motor scenarios.                                     *)
(*                                                                         *)
(* Type correctness, for any program of instructions that satisfies the    *)
(* assumptions, any threads, hands, orders and queue length.               *)
(*                                                                         *)
(* The safety of the motors, for any program that has an annotation        *)
(* (module Interlock) which is right and keeps the promises in question,   *)
(* any hands and orders, one scenario at a time, while no queue is full: a *)
(* message that is dropped is not known to anybody.  MCInterlock computes  *)
(* the annotation of motor.c and has TLC check that it is one.             *)
(*                                                                         *)
(* That no queue is ever full, for any program whose messages pile up no   *)
(* higher than its loads (Interlock as well) and few enough orders of one  *)
(* hand; and so the safety of the motors without a word about the queues.  *)
(***************************************************************************)
EXTENDS Interlock, TLAPS

\* A message posted to any set of motors, kept or dropped, leaves queues of
\* directions no longer than their length.
LEMMA PostedType ==
  ASSUME ChannelTypeOK, NEW ms, NEW d \in Directions
  PROVE  /\ Posted(ms, d) \in [Motors -> Seq(Directions)]
         /\ \A m \in Motors : Len(Posted(ms, d)[m]) <= QueueLength
BY ChannelAssumption DEF ChannelTypeOK, Posted

\* The command tasks, the motors and the mechanism keep the channel typed.
LEMMA MotorStepType ==
  ASSUME ChannelTypeOK, NEW m \in Motors, NEW hold \in BOOLEAN, MotorStep(m, hold)
  PROVE  ChannelTypeOK'
<1> USE DEF ChannelTypeOK
<1>1. CASE Handle(m, hold)
  <2>1. /\ Head(queue[m]) \in Directions
        /\ Tail(queue[m]) \in Seq(Directions)
        /\ Len(Tail(queue[m])) <= QueueLength
    BY <1>1, ChannelAssumption DEF Handle
  <2>2. /\ queue' \in [Motors -> Seq(Directions)]
        /\ \A k \in Motors : Len(queue'[k]) <= QueueLength
        /\ motion' \in [Motors -> Directions]
    BY <1>1, <2>1 DEF Handle
  <2>3. energised' \in BOOLEAN /\ place' \in [Motors -> Positions]
    <3>1. CASE m # "spin"
      BY <1>1, <3>1 DEF Handle
    <3>2. CASE m = "spin"
      BY <1>1, <3>2, Zenon DEF Handle
    <3> QED BY <3>1, <3>2
  <2> QED BY <2>2, <2>3
<1>2. CASE AutoStop(m)
  BY <1>2 DEF AutoStop, Directions
<1>3. CASE StepsDone(m, hold)
  <2>1. queue' = queue /\ place' = place /\ motion' \in [Motors -> Directions]
    BY <1>3 DEF StepsDone, Directions
  <2>2. energised' \in BOOLEAN
    BY <1>3, Zenon DEF StepsDone
  <2> QED BY <2>1, <2>2
<1>4. CASE Travel(m)
  BY <1>4 DEF Travel, SlidTo, TurnedTo, Positions, EndStop
<1> QED BY <1>1, <1>2, <1>3, <1>4 DEF MotorStep

\* Where an instruction may lead is in the program.
LEMMA Targets ==
  ASSUME NEW n \in DOMAIN Program
  PROVE  /\ n # 0
         /\ Program[n].op \notin {"return", "goto", "jump"} => n + 1 \in DOMAIN Program
         /\ Program[n].op \in {"ifat", "jump", "try"} => n + Program[n].skip \in DOMAIN Program
         /\ Program[n].op \in {"wait", "duration", "check", "estop", "tof", "seek", "goto",
                                "iflatched"} => Entry[Program[n].fail] \in DOMAIN Program
         /\ Program[n].d \in Directions
         /\ Program[n].op = "return" => Program[n].arg \in Results
         /\ \A f \in DOMAIN Program[n].set : Program[n].set[f] \in BOOLEAN
<1>1. WellFormed(n)
  BY ProgramAssumption
<1>2. n # 0
  BY ProgramAssumption
<1>3. \A l \in Labels : Entry[l] \in DOMAIN Program
  BY ProgramAssumption
<1> QED BY <1>1, <1>2, <1>3 DEF WellFormed

\* The part of TypeOK that is about the tasks.
TaskTypeOK ==
  /\ flag \in [Flags -> BOOLEAN]
  /\ pc \in [Threads -> DOMAIN Program \cup {0}]
  /\ phase \in [Threads -> Phases]
  /\ latched \in [Threads -> BOOLEAN]
  /\ result \in [Threads -> Results]
  /\ hand \in [Hands -> Grips]
  /\ orders \in 0..MaxOrders
  /\ late \in [Threads -> Nat]

\* Leaving an instruction for one of the program, or staying in it.
LEMMA GoToType ==
  ASSUME TaskTypeOK, NEW t \in Threads, NEW n \in DOMAIN Program \cup {0}, GoTo(t, n)
  PROVE  /\ pc' \in [Threads -> DOMAIN Program \cup {0}]
         /\ phase' \in [Threads -> Phases]
BY DEF TaskTypeOK, GoTo, Phases

\* The next instruction is one of the program's.
LEMMA AheadType ==
  ASSUME TaskTypeOK, NEW t \in Threads, Running(t), Ahead(t),
         Code(t).op \notin {"return", "goto", "jump"}
  PROVE  /\ pc' \in [Threads -> DOMAIN Program \cup {0}]
         /\ phase' \in [Threads -> Phases]
<1>1. pc[t] \in DOMAIN Program
  BY DEF TaskTypeOK, Running
<1>2. pc[t] + 1 \in DOMAIN Program
  BY <1>1, Targets DEF Code
<1> QED BY <1>2, GoToType DEF Ahead

\* So is the one that an error exit leads to.
LEMMA FailType ==
  ASSUME TaskTypeOK, NEW t \in Threads, Running(t), Fail(t),
         Code(t).op \in {"wait", "try", "duration", "check", "estop", "tof", "seek", "goto",
                        "iflatched"}
  PROVE  /\ pc' \in [Threads -> DOMAIN Program \cup {0}]
         /\ phase' \in [Threads -> Phases]
<1>1. pc[t] \in DOMAIN Program
  BY DEF TaskTypeOK, Running
<1>2. (IF Code(t).op = "try" THEN pc[t] + Code(t).skip ELSE Entry[Code(t).fail])
        \in DOMAIN Program
  BY <1>1, Targets DEF Code
<1> QED BY <1>2, GoToType DEF Fail

\* A thread that stays where it is keeps its types.
LEMMA StayType ==
  ASSUME TaskTypeOK, NEW t \in Threads, NEW p \in Phases, Stay(t, p)
  PROVE  /\ pc' \in [Threads -> DOMAIN Program \cup {0}]
         /\ phase' \in [Threads -> Phases]
BY DEF TaskTypeOK, Stay

\* So do the flags and the account when the flags are assigned.
LEMMA SetFlagsType ==
  ASSUME TaskTypeOK, NEW f \in [Flags -> BOOLEAN], SetFlags(f)
  PROVE  flag' \in [Flags -> BOOLEAN] /\ late' \in [Threads -> Nat]
BY DEF TaskTypeOK, SetFlags

\* The motors' side of a step that leaves the channel alone, or only posts to it.
LEMMA ChannelStays ==
  ASSUME ChannelTypeOK, UNCHANGED channel
  PROVE  ChannelTypeOK'
BY DEF ChannelTypeOK, channel

\* A message that is posted, or dropped, leaves the motors' types as they are.
LEMMA ChannelPosted ==
  ASSUME ChannelTypeOK, NEW ms, NEW d \in Directions, queue' = Posted(ms, d),
         UNCHANGED <<motion, place, energised>>
  PROVE  ChannelTypeOK'
<1>1. /\ queue' \in [Motors -> Seq(Directions)]
      /\ \A m \in Motors : Len(queue'[m]) <= QueueLength
  BY PostedType
<1> QED BY <1>1 DEF ChannelTypeOK

\* Every statement of a scenario keeps the types.
LEMMA StatementType ==
  ASSUME TypeOK, NEW t \in Threads, Statement(t)
  PROVE  TypeOK'
<1>1. ChannelTypeOK /\ TaskTypeOK
  BY DEF TypeOK, TaskTypeOK
<1>2. ASSUME Running(t) PROVE Code(t).d \in Directions
  BY <1>1, <1>2, Targets DEF TaskTypeOK, Running, Code
<1>3. SUFFICES ChannelTypeOK' /\ TaskTypeOK'
  BY DEF TypeOK, TaskTypeOK
<1>4. CASE SendStep(t)
  <2>1. Running(t) /\ Code(t).op = "send" /\ Ahead(t)
    BY <1>4 DEF SendStep, At
  <2>2. ChannelTypeOK'
    BY <1>1, <1>2, <1>4, <2>1, ChannelPosted DEF SendStep
  <2>3. late' \in [Threads -> Nat]
    BY <1>1, <1>4 DEF SendStep, TaskTypeOK
  <2> QED BY <1>1, <1>4, <2>1, <2>2, <2>3, AheadType DEF SendStep, TaskTypeOK
<1>5. CASE DelayEnds(t)
  <2>1. Running(t) /\ Code(t).op = "delay" /\ Ahead(t)
    BY <1>5 DEF DelayEnds, At
  <2> QED BY <1>1, <1>5, <2>1, AheadType, ChannelStays DEF DelayEnds, TaskTypeOK
<1>6. CASE LookAtFlags(t)
  <2>1. Running(t) /\ (Fail(t) \/ Stay(t, "judge"))
        /\ Code(t).op \in {"wait", "try", "duration"}
    BY <1>6 DEF LookAtFlags
  <2>2. pc' \in [Threads -> DOMAIN Program \cup {0}] /\ phase' \in [Threads -> Phases]
    BY <1>1, <2>1, FailType, StayType DEF Phases
  <2> QED BY <1>1, <1>6, <2>2, ChannelStays DEF LookAtFlags, TaskTypeOK
<1>7. CASE WaitEnds(t)
  <2>1. Running(t) /\ (Fail(t) \/ Ahead(t)) /\ Code(t).op \in {"wait", "try"}
    BY <1>7 DEF WaitEnds
  <2>2. pc' \in [Threads -> DOMAIN Program \cup {0}] /\ phase' \in [Threads -> Phases]
    BY <1>1, <2>1, FailType, AheadType
  <2> QED BY <1>1, <1>7, <2>2, ChannelStays DEF WaitEnds, TaskTypeOK
<1>8. CASE DurationEnds(t)
  <2>1. Running(t) /\ Code(t).op = "duration" /\ Ahead(t)
    BY <1>8 DEF DurationEnds, At
  <2> QED BY <1>1, <1>8, <2>1, AheadType, ChannelStays DEF DurationEnds, TaskTypeOK
<1>9. CASE Check(t)
  <2>1. Running(t) /\ (Fail(t) \/ Ahead(t)) /\ Code(t).op \in {"check", "estop"}
    BY <1>9 DEF Check
  <2>2. pc' \in [Threads -> DOMAIN Program \cup {0}] /\ phase' \in [Threads -> Phases]
    BY <1>1, <2>1, FailType, AheadType
  <2> QED BY <1>1, <1>9, <2>2, ChannelStays DEF Check, TaskTypeOK
<1>10. CASE SeekEnds(t)
  <2>1. Running(t) /\ (Fail(t) \/ Ahead(t)) /\ Code(t).op = "seek"
    BY <1>10 DEF SeekEnds, At
  <2>2. pc' \in [Threads -> DOMAIN Program \cup {0}] /\ phase' \in [Threads -> Phases]
    BY <1>1, <2>1, FailType, AheadType
  <2>3. ChannelTypeOK'
    <3>1. CASE queue' = queue
      BY <1>1, <1>10, <3>1, ChannelStays DEF SeekEnds, channel
    <3>2. CASE queue' = Posted({"spin"}, "STOP")
      BY <1>1, <1>10, <3>2, ChannelPosted DEF SeekEnds, Directions
    <3> QED BY <1>10, <3>1, <3>2 DEF SeekEnds
  <2> QED BY <1>1, <1>10, <2>2, <2>3 DEF SeekEnds, TaskTypeOK
<1>11. CASE Branch(t)
  <2>1. /\ Running(t)
        /\ \/ Code(t).op \in {"ifat", "iflatched", "label"} /\ Ahead(t)
           \/ Code(t).op \in {"ifat", "jump"} /\ GoTo(t, pc[t] + Code(t).skip)
           \/ Code(t).op \in {"goto", "iflatched"} /\ Fail(t)
    BY <1>11 DEF Branch
  <2>2. pc' \in [Threads -> DOMAIN Program \cup {0}] /\ phase' \in [Threads -> Phases]
    <3>1. CASE Code(t).op \in {"ifat", "jump"} /\ GoTo(t, pc[t] + Code(t).skip)
      <4>1. pc[t] + Code(t).skip \in DOMAIN Program
        BY <1>1, <2>1, <3>1, Targets DEF TaskTypeOK, Running, Code
      <4> QED BY <1>1, <3>1, <4>1, GoToType
    <3> QED BY <1>1, <2>1, <3>1, FailType, AheadType
  <2> QED BY <1>1, <1>11, <2>2, ChannelStays DEF Branch, TaskTypeOK
<1>12. CASE SetStep(t)
  <2>1. Running(t) /\ Code(t).op = "set" /\ Ahead(t)
    BY <1>12 DEF SetStep, At
  <2>2. [f \in Flags |-> IF f \in DOMAIN Code(t).set THEN Code(t).set[f] ELSE flag[f]]
          \in [Flags -> BOOLEAN]
    <3>1. \A f \in DOMAIN Code(t).set : Code(t).set[f] \in BOOLEAN
      BY <1>1, <2>1, Targets DEF TaskTypeOK, Running, Code
    <3> QED BY <1>1, <3>1 DEF TaskTypeOK
  <2>3. flag' \in [Flags -> BOOLEAN] /\ late' \in [Threads -> Nat]
    BY <1>1, <1>12, <2>2, SetFlagsType DEF SetStep
  <2> QED BY <1>1, <1>12, <2>1, <2>3, AheadType, ChannelStays DEF SetStep, TaskTypeOK
<1>13. CASE LatchStep(t)
  <2>1. Running(t) /\ Code(t).op = "latch" /\ Ahead(t)
    BY <1>13 DEF LatchStep, At
  <2>2. latched' \in [Threads -> BOOLEAN]
    BY <1>1, <1>13 DEF LatchStep, TaskTypeOK, Flags
  <2> QED BY <1>1, <1>13, <2>1, <2>2, AheadType, ChannelStays DEF LatchStep, TaskTypeOK
<1>14. CASE ReturnStep(t)
  <2>1. Code(t).arg \in Results
    BY <1>1, <1>14, Targets DEF ReturnStep, At, TaskTypeOK, Running, Code
  <2>2. /\ result' \in [Threads -> Results]
        /\ latched' \in [Threads -> BOOLEAN]
    BY <1>1, <1>14, <2>1 DEF ReturnStep, TaskTypeOK
  <2>3. pc' \in [Threads -> DOMAIN Program \cup {0}] /\ phase' \in [Threads -> Phases]
    BY <1>1, <1>14, GoToType DEF ReturnStep
  <2> QED BY <1>1, <1>14, <2>2, <2>3, ChannelStays DEF ReturnStep, TaskTypeOK
<1>15. CASE TofRead(t)
  <2>1. pc' \in [Threads -> DOMAIN Program \cup {0}] /\ phase' \in [Threads -> Phases]
    BY <1>1, <1>15, StayType, ProgramAssumption DEF TofRead, Phases
  <2>2. flag' \in [Flags -> BOOLEAN] /\ late' \in [Threads -> Nat]
    <3>1. [flag EXCEPT !["tof"] = TRUE] \in [Flags -> BOOLEAN]
      BY <1>1 DEF TaskTypeOK
    <3> QED BY <1>1, <1>15, <3>1, SetFlagsType DEF TofRead
  <2> QED BY <1>1, <1>15, <2>1, <2>2, ChannelStays DEF TofRead, TaskTypeOK
<1>16. CASE TofStop(t)
  <2>1. ChannelTypeOK'
    BY <1>1, <1>16, ChannelPosted DEF TofStop, Directions
  <2>2. pc' \in [Threads -> DOMAIN Program \cup {0}] /\ phase' \in [Threads -> Phases]
    BY <1>1, <1>16, StayType DEF TofStop, Phases
  <2> QED BY <1>1, <1>16, <2>1, <2>2 DEF TofStop, TaskTypeOK
<1>17. CASE TofHold(t)
  <2>1. pc' \in [Threads -> DOMAIN Program \cup {0}] /\ phase' \in [Threads -> Phases]
    BY <1>1, <1>17, StayType DEF TofHold, Phases
  <2>2. flag' \in [Flags -> BOOLEAN] /\ late' \in [Threads -> Nat]
    <3>1. [flag EXCEPT !["pause"] = TRUE] \in [Flags -> BOOLEAN]
      BY <1>1 DEF TaskTypeOK
    <3> QED BY <1>1, <1>17, <3>1, SetFlagsType DEF TofHold
  <2> QED BY <1>1, <1>17, <2>1, <2>2, ChannelStays DEF TofHold, TaskTypeOK
<1>18. CASE TofRelease(t)
  <2>1. Running(t) /\ (Fail(t) \/ Ahead(t)) /\ Code(t).op = "tof"
    BY <1>18 DEF TofRelease, At
  <2> QED BY <1>1, <1>18, <2>1, FailType, AheadType, ChannelStays DEF TofRelease, TaskTypeOK
<1>19. CASE TofClear(t)
  <2>1. Running(t) /\ Ahead(t) /\ Code(t).op = "tof"
    BY <1>19 DEF TofClear, At
  <2> QED BY <1>1, <1>19, <2>1, AheadType, ChannelStays DEF TofClear, TaskTypeOK
<1> QED BY <1>4, <1>5, <1>6, <1>7, <1>8, <1>9, <1>10, <1>11, <1>12, <1>13, <1>14, <1>15,
           <1>16, <1>17, <1>18, <1>19 DEF Statement

\* So does a task that is created, an order that is given and one carried out.
LEMMA StartType ==
  ASSUME TypeOK, NEW t \in Threads, NEW l \in Starts, Start(t, l)
  PROVE  TypeOK'
<1>1. ChannelTypeOK /\ TaskTypeOK
  BY DEF TypeOK, TaskTypeOK
<1>2. Entry[l] \in DOMAIN Program
  BY ProgramAssumption
<1>3. pc' \in [Threads -> DOMAIN Program \cup {0}] /\ phase' \in [Threads -> Phases]
  BY <1>1, <1>2, GoToType DEF Start
<1>4. result' \in [Threads -> Results] /\ late' \in [Threads -> Nat]
  BY <1>1 DEF Start, TaskTypeOK, Results
<1>5. ChannelTypeOK'
  BY <1>1, ChannelStays DEF Start
<1> QED BY <1>1, <1>3, <1>4, <1>5 DEF Start, TaskTypeOK, TypeOK

\* The key scanner's and the console's steps keep every type.
LEMMA HandType ==
  ASSUME TypeOK, NEW h \in Hands, Order(h) \/ CarryOut(h)
  PROVE  TypeOK'
<1>1. ChannelTypeOK /\ TaskTypeOK
  BY DEF TypeOK, TaskTypeOK
<1>2. SUFFICES ChannelTypeOK' /\ TaskTypeOK'
  BY DEF TypeOK, TaskTypeOK
<1>3. \A f \in Flags, b \in BOOLEAN : [flag EXCEPT ![f] = b] \in [Flags -> BOOLEAN]
  BY <1>1 DEF TaskTypeOK
<1>4. \A g \in Grips : [hand EXCEPT ![h] = g] \in [Hands -> Grips]
  BY <1>1 DEF TaskTypeOK
<1>5. orders < MaxOrders => orders + 1 \in 0..MaxOrders
  BY <1>1, ProgramAssumption DEF TaskTypeOK
<1>6. CASE SeeRunning(h)
  <2>1. hand' \in [Hands -> Grips] /\ orders' \in 0..MaxOrders
    BY <1>1, <1>4, <1>5, <1>6 DEF SeeRunning, Grip, Grips, TaskTypeOK
  <2> QED BY <1>1, <1>6, <2>1, ChannelStays DEF SeeRunning, TaskTypeOK, task
<1>7. CASE Toggle(h)
  <2>1. [flag EXCEPT !["pause"] = ~@] \in [Flags -> BOOLEAN]
    BY <1>1 DEF TaskTypeOK, Flags
  <2>2. flag' \in [Flags -> BOOLEAN] /\ late' \in [Threads -> Nat]
    BY <1>1, <1>7, <2>1, SetFlagsType DEF Toggle
  <2>3. hand' \in [Hands -> Grips]
    BY <1>4, <1>7 DEF Toggle, Grip, Grips
  <2> QED BY <1>1, <1>7, <2>2, <2>3, ChannelStays DEF Toggle, TaskTypeOK
<1>8. CASE RequestRecovery(h)
  <2>1. flag' \in [Flags -> BOOLEAN] /\ late' \in [Threads -> Nat]
    BY <1>1, <1>3, <1>8, SetFlagsType DEF RequestRecovery, Flags
  <2>2. hand' \in [Hands -> Grips]
    BY <1>4, <1>8 DEF RequestRecovery, Grip, Grips
  <2> QED BY <1>1, <1>8, <2>1, <2>2, ChannelStays DEF RequestRecovery, TaskTypeOK
<1>9. CASE RaiseEstop(h)
  <2>1. flag' \in [Flags -> BOOLEAN] /\ late' \in [Threads -> Nat]
    BY <1>1, <1>3, <1>9, SetFlagsType DEF RaiseEstop, Flags
  <2>2. hand' \in [Hands -> Grips] /\ orders' \in 0..MaxOrders
    BY <1>4, <1>5, <1>9 DEF RaiseEstop, Grip, Grips
  <2> QED BY <1>1, <1>9, <2>1, <2>2, ChannelStays DEF RaiseEstop, TaskTypeOK
<1>10. CASE PostStops(h) \/ StopSpinAgain(h)
  <2>1. ChannelTypeOK'
    BY <1>1, <1>10, ChannelPosted DEF PostStops, StopSpinAgain, Directions
  <2>2. hand' \in [Hands -> Grips]
    BY <1>4, <1>10 DEF PostStops, StopSpinAgain, Grip, Grips
  <2> QED BY <1>1, <1>10, <2>1, <2>2 DEF PostStops, StopSpinAgain, TaskTypeOK, task
<1>11. CASE OtherCommand(h)
  <2>1. flag' \in [Flags -> BOOLEAN] /\ late' \in [Threads -> Nat]
    BY <1>1, <1>3, <1>11, SetFlagsType DEF OtherCommand, Flags
  <2> QED BY <1>1, <1>11, <2>1, ChannelStays DEF OtherCommand, TaskTypeOK
<1> QED BY <1>6, <1>7, <1>8, <1>9, <1>10, <1>11 DEF Order, CarryOut

\* The initial state and every step are typed; a stutter changes nothing.
LEMMA TypeInit == Init => TypeOK
<1> SUFFICES ASSUME Init PROVE TypeOK
  OBVIOUS
<1>1. ChannelTypeOK
  <2>1. /\ queue \in [Motors -> Seq(Directions)]
        /\ \A m \in Motors : Len(queue[m]) <= QueueLength
    BY ChannelAssumption DEF Init, ChannelInit
  <2>2. motion \in [Motors -> Directions] /\ place \in [Motors -> Positions]
    BY ChannelAssumption DEF Init, ChannelInit, Directions
  <2> QED BY <2>1, <2>2 DEF Init, ChannelInit, ChannelTypeOK
<1>2. /\ "start" \in Phases /\ "none" \in Results /\ "idle" \in Grips
      /\ 0 \in 0..MaxOrders
  BY ProgramAssumption DEF Phases, Results, Grips
<1>3. /\ flag \in [Flags -> BOOLEAN]
      /\ latched \in [Threads -> BOOLEAN]
  BY Zenon DEF Init
<1>4. /\ pc \in [Threads -> DOMAIN Program \cup {0}]
      /\ phase \in [Threads -> Phases]
      /\ result \in [Threads -> Results]
      /\ hand \in [Hands -> Grips]
      /\ orders \in 0..MaxOrders
      /\ late \in [Threads -> Nat]
  BY <1>2 DEF Init
<1> QED BY <1>1, <1>3, <1>4 DEF TypeOK

\* Every step keeps every type.
LEMMA TypeStep == TypeOK /\ [Next]_vars => TypeOK'
<1> SUFFICES ASSUME TypeOK, [Next]_vars PROVE TypeOK'
  OBVIOUS
<1>1. ASSUME NEW t \in Threads, Statement(t) PROVE TypeOK'
  BY <1>1, StatementType
<1>2. ASSUME NEW t \in Threads, NEW l \in Starts, Start(t, l) PROVE TypeOK'
  BY <1>2, StartType
<1>3. ASSUME NEW h \in Hands, Order(h) \/ CarryOut(h) PROVE TypeOK'
  BY <1>3, HandType
<1>4. ASSUME NEW m \in Motors, Machine(m) PROVE TypeOK'
  <2>1. flag["alwaysOn"] \in BOOLEAN
    BY DEF TypeOK, Flags
  <2>2. ChannelTypeOK'
    BY <1>4, <2>1, MotorStepType DEF Machine, TypeOK
  <2> QED BY <1>4, <2>2 DEF Machine, TypeOK, task
<1>5. CASE UNCHANGED vars
  BY <1>5, ChannelStays DEF vars, task, TypeOK
<1> QED BY <1>1, <1>2, <1>3, <1>4, <1>5 DEF Next

\* The scenarios, the orders and the motors stay within their types: no
\* instruction of any program leads out of it, and no queue grows past its length.
THEOREM TypeCorrect == Spec => []TypeOK
<1>1. Init => TypeOK
  BY TypeInit
<1>2. TypeOK /\ [Next]_vars => TypeOK'
  BY TypeStep
<1> QED BY <1>1, <1>2, PTL DEF Spec

-----------------------------------------------------------------------------
(* What is known of the motors at each statement *)

\* The messages left behind the first one, and the last of them.
LEMMA TailOrders ==
  ASSUME NEW q \in Seq(Directions), q # <<>>
  PROVE  /\ Head(q) \in {q[i] : i \in 1..Len(q)}
         /\ {Tail(q)[i] : i \in 1..Len(Tail(q))} \subseteq {q[i] : i \in 1..Len(q)}
         /\ \A d \in {q[i] : i \in 1..Len(q)} : d = Head(q) \/ d \in {Tail(q)[i] : i \in 1..Len(Tail(q))}
         /\ Tail(q) = <<>> => Head(q) = q[Len(q)]
         /\ Tail(q) # <<>> => Tail(q)[Len(Tail(q))] = q[Len(q)]
<1>1. Len(q) \in Nat \ {0} /\ Len(Tail(q)) = Len(q) - 1 /\ Head(q) = q[1]
  OBVIOUS
<1>2. \A i \in 1..Len(Tail(q)) : Tail(q)[i] = q[i + 1] /\ i + 1 \in 1..Len(q)
  BY <1>1
<1>3. \A i \in 1..Len(q) : i = 1 \/ (i - 1 \in 1..Len(Tail(q)) /\ q[i] = Tail(q)[i - 1])
  BY <1>1, <1>2
<1>4. Tail(q) = <<>> => Len(q) = 1
  BY <1>1
<1>5. Tail(q) # <<>> => Len(Tail(q)) \in 1..Len(Tail(q))
  BY <1>1
<1>6. 1 \in 1..Len(q)
  BY <1>1
<1>7. Head(q) \in {q[i] : i \in 1..Len(q)}
  BY <1>1, <1>6
<1>8. {Tail(q)[i] : i \in 1..Len(Tail(q))} \subseteq {q[i] : i \in 1..Len(q)}
  BY <1>2
<1>9. ASSUME NEW i \in 1..Len(q)
      PROVE  q[i] = Head(q) \/ q[i] \in {Tail(q)[j] : j \in 1..Len(Tail(q))}
  BY <1>1, <1>3
<1>10. Tail(q) = <<>> => Head(q) = q[Len(q)]
  BY <1>1, <1>4
<1>11. Tail(q) # <<>> => Tail(q)[Len(Tail(q))] = q[Len(q)]
  BY <1>1, <1>2, <1>5
<1> QED BY <1>7, <1>8, <1>9, <1>10, <1>11

\* A message put behind the others is one of them and the last.
LEMMA AppendOrders ==
  ASSUME NEW q \in Seq(Directions), NEW d \in Directions
  PROVE  /\ Append(q, d) # <<>>
         /\ Append(q, d)[Len(Append(q, d))] = d
         /\ {Append(q, d)[i] : i \in 1..Len(Append(q, d))} = {q[i] : i \in 1..Len(q)} \cup {d}
<1>1. /\ Len(Append(q, d)) = Len(q) + 1 /\ Len(q) \in Nat
      /\ Append(q, d)[Len(q) + 1] = d
      /\ \A i \in 1..Len(q) : Append(q, d)[i] = q[i]
  OBVIOUS
<1>2. 1..Len(q) + 1 = 1..Len(q) \cup {Len(q) + 1}
  BY <1>1
<1> QED BY <1>1, <1>2

\* A message posted to the motors of ms is the last of each, if its queue has room; the
\* other motors' messages are what they were.
LEMMA PostedOrders ==
  ASSUME ChannelTypeOK, NEW ms, NEW d \in Directions, queue' = Posted(ms, d),
         motion' = motion, NEW m \in Motors
  PROVE  /\ Queued(m)' \subseteq Queued(m) \cup (IF m \in ms THEN {d} ELSE {})
         /\ Queued(m) \subseteq Queued(m)'
         /\ m \in ms /\ Len(queue[m]) < QueueLength => LastOrder(m)' = d /\ d \in Queued(m)'
         /\ m \notin ms => LastOrder(m)' = LastOrder(m)
         /\ LastOrder(m)' \in {LastOrder(m), d}
<1>1. queue[m] \in Seq(Directions)
  BY DEF ChannelTypeOK
<1>2. queue'[m] = IF m \in ms /\ Len(queue[m]) < QueueLength THEN Append(queue[m], d) ELSE queue[m]
  BY DEF Posted
<1>3. CASE m \in ms /\ Len(queue[m]) < QueueLength
  <2>1. queue'[m] = Append(queue[m], d)
    BY <1>2, <1>3
  <2> QED BY <1>1, <1>3, <2>1, AppendOrders DEF Queued, LastOrder
<1>4. CASE ~(m \in ms /\ Len(queue[m]) < QueueLength)
  <2>1. queue'[m] = queue[m]
    BY <1>2, <1>4
  <2> QED BY <1>4, <2>1 DEF Queued, LastOrder
<1> QED BY <1>3, <1>4

\* The message that a command task takes is what its motor does then; the last order stays.
LEMMA HandledOrders ==
  ASSUME ChannelTypeOK, NEW m \in Motors, NEW hold, Handle(m, hold)
  PROVE  /\ Queued(m)' \subseteq Queued(m)
         /\ motion'[m] \in Queued(m)
         /\ \A d \in Queued(m) : d = motion'[m] \/ d \in Queued(m)'
         /\ LastOrder(m)' = LastOrder(m)
<1>1. queue[m] \in Seq(Directions) /\ queue[m] # <<>>
  BY DEF ChannelTypeOK, Handle
<1>2. queue'[m] = Tail(queue[m]) /\ motion'[m] = Head(queue[m])
  BY DEF ChannelTypeOK, Handle
<1>3. PICK q \in Seq(Directions) : q = queue[m]
  BY <1>1
<1>4. /\ Queued(m) = {q[i] : i \in 1..Len(q)}
      /\ Queued(m)' = {Tail(q)[i] : i \in 1..Len(Tail(q))}
  BY <1>2, <1>3 DEF Queued
<1>5. /\ LastOrder(m) = q[Len(q)]
      /\ LastOrder(m)' = IF Tail(q) = <<>> THEN Head(q) ELSE Tail(q)[Len(Tail(q))]
  BY <1>1, <1>2, <1>3 DEF LastOrder
<1>6. motion'[m] = Head(q) /\ q # <<>>
  BY <1>1, <1>2, <1>3
<1> QED BY <1>4, <1>5, <1>6, TailOrders

\* A motor that is not concerned stays as it is.
LEMMA Undisturbed ==
  ASSUME NEW m \in Motors, NEW f, queue'[m] = queue[m], motion'[m] = motion[m], place'[m] = place[m],
         IsTrue(m, f)
  PROVE  IsTrue(m, f)'
BY DEF IsTrue, Queued, LastOrder

\* What is known of a motor stays true while it does what it may do.
LEMMA MotorKeepsFact ==
  ASSUME ChannelTypeOK, NEW k, Stable(k), NEW m \in Motors, NEW hold, MotorStep(m, hold),
         IsTrue(m, k.motor[m])
  PROVE  IsTrue(m, k.motor[m])'
<1> DEFINE f == k.motor[m]
<1>1. /\ "STOP" \in f.last /\ "STOP" \in f.queued /\ f.queued \subseteq f.moves
      /\ \A p \in f.at, d \in f.moves \cap Motions : Beyond(m, p, d) \in f.at
  BY DEF Stable
<1>2. /\ motion[m] \in f.moves /\ place[m] \in f.at
      /\ Queued(m) \subseteq f.queued /\ LastOrder(m) \in f.last
  BY DEF IsTrue
<1> HIDE DEF f
<1>3. SUFFICES IsTrue(m, f)'
  BY DEF f
<1>4. CASE Handle(m, hold)
  <2>1. place' = place
    BY <1>4 DEF Handle
  <2> QED BY <1>1, <1>2, <1>4, <2>1, HandledOrders DEF IsTrue
<1>5. CASE AutoStop(m) \/ StepsDone(m, hold)
  <2>1. motion'[m] = "STOP" /\ queue' = queue /\ place' = place
    BY <1>5 DEF AutoStop, StepsDone, ChannelTypeOK
  <2>2. LastOrder(m)' \in {"STOP", LastOrder(m)} /\ Queued(m)' = Queued(m)
    BY <2>1 DEF LastOrder, Queued
  <2> QED BY <1>1, <1>2, <2>1, <2>2 DEF IsTrue
<1>6. CASE Travel(m)
  <2>1. queue' = queue /\ motion' = motion
    BY <1>6 DEF Travel
  <2>2. LastOrder(m)' = LastOrder(m) /\ Queued(m)' = Queued(m)
    BY <2>1 DEF LastOrder, Queued
  <2>3. motion[m] \in Motions
    BY <1>6 DEF Travel, ChannelTypeOK, Directions, Motions
  <2>4. place'[m] = Beyond(m, place[m], motion[m])
    BY <1>6 DEF Travel, ChannelTypeOK, Beyond, SlidTo, TurnedTo, Sliders
  <2>5. place'[m] \in f.at
    BY <1>1, <1>2, <2>3, <2>4
  <2> QED BY <1>2, <2>1, <2>2, <2>5 DEF IsTrue
<1> QED BY <1>4, <1>5, <1>6 DEF MotorStep

\* A driver that nobody holds on goes off with the spindle.
LEMMA MotorKeepsDriver ==
  ASSUME ChannelTypeOK, NEW m \in Motors, ~flag["alwaysOn"], MotorStep(m, flag["alwaysOn"]), Released
  PROVE  Released'
<1>0. /\ motion \in [Motors -> Directions] /\ "spin" \in Motors
  BY DEF ChannelTypeOK, Motors
<1>1. CASE m # "spin"
  <2>1. energised' = energised
    <3>1. CASE Handle(m, flag["alwaysOn"])
      BY <1>1, <3>1, Zenon DEF Handle
    <3>2. CASE StepsDone(m, flag["alwaysOn"])
      <4>1. energised' = (energised /\ (m = "spin" => flag["alwaysOn"])) /\ energised \in BOOLEAN
        BY <3>2, Zenon DEF StepsDone, ChannelTypeOK
      <4> QED BY <1>1, <4>1
    <3> QED BY <3>1, <3>2 DEF MotorStep, AutoStop, Travel
  <2>2. queue'["spin"] = queue["spin"] /\ motion'["spin"] = motion["spin"]
    BY <1>0, <1>1 DEF MotorStep, Handle, AutoStop, StepsDone, Travel, ChannelTypeOK
  <2>3. Queued("spin")' = Queued("spin")
    BY <2>2 DEF Queued
  <2> QED BY <2>1, <2>2, <2>3 DEF Released
<1>2. CASE m = "spin" /\ Handle(m, flag["alwaysOn"])
  <2>1. energised' /\ motion'["spin"] = "STOP" => energised /\ motion["spin"] = "STOP"
    <3>1. energised' => Head(queue["spin"]) # "STOP" \/ (energised /\ motion["spin"] = "STOP")
      BY <1>2, Zenon DEF Handle
    <3>2. motion'["spin"] = Head(queue["spin"])
      BY <1>0, <1>2 DEF Handle
    <3> QED BY <3>1, <3>2
  <2>2. "STOP" \notin Motions
    BY DEF Motions
  <2>3. motion'["spin"] = "STOP" /\ Queued("spin") \cap Motions # {} => Queued("spin")' \cap Motions # {}
    BY <1>2, <2>2, HandledOrders
  <2> QED BY <2>1, <2>3 DEF Released
<1>3. CASE m = "spin" /\ StepsDone(m, flag["alwaysOn"])
  <2>1. ~energised'
    BY <1>3, Zenon DEF StepsDone
  <2> QED BY <2>1 DEF Released
<1>4. CASE m = "spin" /\ Travel(m)
  <2>1. energised' = energised /\ queue' = queue /\ motion' = motion
    BY <1>4 DEF Travel
  <2> QED BY <2>1 DEF Released, Queued
<1>5. CASE m = "spin" /\ AutoStop(m)
  BY <1>5 DEF AutoStop, Sliders
<1> QED BY <1>1, <1>2, <1>3, <1>4, <1>5 DEF MotorStep

\* Whatever a motor does, what was known of all of them is still known.
LEMMA MotorKeeps ==
  ASSUME ChannelTypeOK, NEW k, Stable(k), NEW m \in Motors, Machine(m), Knows(k)
  PROVE  Knows(k)'
<1>1. MotorStep(m, flag["alwaysOn"]) /\ flag' = flag
  BY DEF Machine, task
<1>2. ASSUME NEW o \in Motors PROVE IsTrue(o, k.motor[o])'
  <2>1. IsTrue(o, k.motor[o])
    BY DEF Knows
  <2>2. CASE o = m
    BY <1>1, <2>1, <2>2, MotorKeepsFact
  <2>3. CASE o # m
    <3>1. queue'[o] = queue[o] /\ motion'[o] = motion[o] /\ place'[o] = place[o]
      BY <1>1, <2>3 DEF MotorStep, Handle, AutoStop, StepsDone, Travel, ChannelTypeOK
    <3> QED BY <2>1, <3>1, Undisturbed
  <2> QED BY <2>2, <2>3
<1>3. DriverIs(k.driver)'
  <2>1. ~flag["alwaysOn"] /\ Released => Released'
    BY <1>1, MotorKeepsDriver
  <2> QED BY <1>1, <2>1 DEF Knows, DriverIs, Grades
<1> QED BY <1>2, <1>3 DEF Knows

\* What is known does not change while no motor, queue or part does, nor spin_mt_always_on.
LEMMA Unmoved ==
  ASSUME NEW k, UNCHANGED channel, flag'["alwaysOn"] = flag["alwaysOn"], Knows(k)
  PROVE  Knows(k)'
BY DEF channel, Knows, IsTrue, DriverIs, Released, Queued, LastOrder

\* A STOP may always come in, whoever posts it, and may as well be dropped.
LEMMA StopKeeps ==
  ASSUME ChannelTypeOK, NEW k, Stable(k), NEW ms, queue' = Posted(ms, "STOP"),
         UNCHANGED <<motion, place, energised>>, flag'["alwaysOn"] = flag["alwaysOn"], Knows(k)
  PROVE  Knows(k)'
<1>1. "STOP" \in Directions /\ "spin" \in Motors
  BY DEF Directions, Motors
<1>2. ASSUME NEW m \in Motors PROVE IsTrue(m, k.motor[m])'
  <2>1. IsTrue(m, k.motor[m])
    BY DEF Knows
  <2>2. "STOP" \in k.motor[m].last /\ "STOP" \in k.motor[m].queued
    BY DEF Stable
  <2>3. /\ Queued(m)' \subseteq Queued(m) \cup {"STOP"}
        /\ LastOrder(m)' \in {LastOrder(m), "STOP"}
    BY <1>1, PostedOrders
  <2> QED BY <2>1, <2>2, <2>3 DEF IsTrue
<1>3. Released => Released'
  <2>1. Queued("spin") \subseteq Queued("spin")'
    BY <1>1, PostedOrders
  <2> QED BY <2>1 DEF Released
<1> QED BY <1>2, <1>3 DEF Knows, DriverIs

\* The key scanner and the console only ever stop motors.
LEMMA HandKeeps ==
  ASSUME TypeOK, NEW h \in Hands, Order(h) \/ CarryOut(h), NEW k, Stable(k), Knows(k)
  PROVE  Knows(k)'
<1>1. ChannelTypeOK /\ flag \in [Flags -> BOOLEAN]
  BY DEF TypeOK
<1>2. CASE PostStops(h) \/ StopSpinAgain(h)
  <2>1. PICK ms : queue' = Posted(ms, "STOP")
    BY <1>2 DEF PostStops, StopSpinAgain
  <2>2. UNCHANGED <<motion, place, energised, flag>>
    BY <1>2 DEF PostStops, StopSpinAgain, task
  <2> QED BY <1>1, <2>1, <2>2, StopKeeps
<1>3. CASE ~(PostStops(h) \/ StopSpinAgain(h))
  <2>1. UNCHANGED channel /\ flag'["alwaysOn"] = flag["alwaysOn"]
    BY <1>1, <1>3 DEF Order, CarryOut, SeeRunning, RaiseEstop, OtherCommand, Toggle, RequestRecovery,
                      SetFlags, task, Flags
  <2> QED BY <2>1, Unmoved
<1> QED BY <1>2, <1>3

\* Of any state at all in which k is known, no part is nowhere.
LEMMA KnownIsReached ==
  ASSUME NEW k, Knows(k)
  PROVE  Reached(k)
BY DEF Knows, Reached, IsTrue

\* Whoever knows k knows what covers it.
LEMMA CoveredIsKnown ==
  ASSUME NEW k, NEW l, Covers(k, l), Knows(k)
  PROVE  Knows(l)
<1>1. Reached(k)
  BY KnownIsReached
<1>2. /\ \A m \in Motors : FactIn(k.motor[m], l.motor[m])
      /\ GradeIn(k.driver, l.driver)
  BY <1>1 DEF Covers
<1>3. \A m \in Motors : IsTrue(m, l.motor[m])
  BY <1>2 DEF Knows, FactIn, IsTrue
<1>4. DriverIs(l.driver)
  BY <1>2 DEF GradeIn, Knows, DriverIs
<1> QED BY <1>3, <1>4 DEF Knows

\* So it is after a step.
LEMMA CoveredIsKnownThen ==
  ASSUME NEW k, NEW l, Covers(k, l), Knows(k)'
  PROVE  Knows(l)'
<1>1. Reached(k)
  BY DEF Knows, Reached, IsTrue
<1>2. /\ \A m \in Motors : FactIn(k.motor[m], l.motor[m])
      /\ GradeIn(k.driver, l.driver)
  BY <1>1 DEF Covers
<1>3. \A m \in Motors : IsTrue(m, l.motor[m])'
  BY <1>2 DEF Knows, FactIn, IsTrue
<1>4. DriverIs(l.driver)'
  BY <1>2 DEF GradeIn, Knows, DriverIs
<1> QED BY <1>3, <1>4 DEF Knows

\* What Changed changes, and what it leaves.
LEMMA ChangedIs ==
  ASSUME NEW k \in Known, NEW ms, NEW f
  PROVE  /\ \A m \in Motors : Changed(k, ms, f).motor[m] = IF m \in ms THEN f[m] ELSE k.motor[m]
         /\ Changed(k, ms, f).driver = k.driver
BY DEF Changed, Known

\* An order that is sent is the last one of its motors; one that moves the spindle will
\* switch the driver off with it, unless it is held on.
LEMMA SentIsKnown ==
  ASSUME ChannelTypeOK, RoomInQueues, NEW k \in Known, Stable(k), NEW i, i.d \in Directions,
         queue' = Posted(i.ms, i.d), UNCHANGED <<motion, place, energised, flag>>, Knows(k)
  PROVE  Knows(Sent(i, k))'
<1> DEFINE f == [m \in Motors |-> [k.motor[m] EXCEPT !.last = {i.d, "STOP"}, !.queued = @ \cup {i.d},
                                                     !.moves = @ \cup {i.d}]]
           sent == Changed(k, i.ms, f)
<1>1. /\ \A m \in Motors : Sent(i, k).motor[m] = IF m \in i.ms THEN f[m] ELSE k.motor[m]
      /\ Sent(i, k).driver = IF "spin" \in i.ms /\ i.d \in Motions /\ k.driver # "any"
                             THEN "released" ELSE k.driver
  BY ChangedIs DEF Sent, Changed, Known
<1>2. \A m \in Motors : /\ f[m].last = {i.d, "STOP"}
                        /\ f[m].queued = k.motor[m].queued \cup {i.d}
                        /\ f[m].moves = k.motor[m].moves \cup {i.d}
                        /\ f[m].at = k.motor[m].at
  BY DEF Known, Fact
<1> HIDE DEF f
<1>3. ASSUME NEW m \in Motors PROVE IsTrue(m, Sent(i, k).motor[m])'
  <2>1. IsTrue(m, k.motor[m]) /\ Len(queue[m]) < QueueLength
    BY DEF Knows, RoomInQueues
  <2>2. /\ Queued(m)' \subseteq Queued(m) \cup (IF m \in i.ms THEN {i.d} ELSE {})
        /\ LastOrder(m)' = IF m \in i.ms THEN i.d ELSE LastOrder(m)
    BY <2>1, PostedOrders
  <2> QED BY <1>1, <1>2, <2>1, <2>2 DEF IsTrue
<1>4. "spin" \in Motors /\ Len(queue["spin"]) < QueueLength
  BY DEF Motors, RoomInQueues
<1>5. Released => Released'
  <2>1. Queued("spin") \subseteq Queued("spin")'
    BY <1>4, PostedOrders
  <2> QED BY <2>1 DEF Released
<1>6. "spin" \in i.ms /\ i.d \in Motions => Released'
  <2>1. "spin" \in i.ms => i.d \in Queued("spin")'
    BY <1>4, PostedOrders
  <2> QED BY <2>1 DEF Released
<1>7. DriverIs(Sent(i, k).driver)'
  BY <1>1, <1>5, <1>6 DEF Knows, DriverIs
<1> QED BY <1>3, <1>7 DEF Knows

\* When every message has been taken, a motor does what it was told last, or stands.
LEMMA CaughtUpIsKnown ==
  ASSUME NEW k \in Known, Knows(k), Drained
  PROVE  Knows(CaughtUp(k))
<1> DEFINE f == [m \in Motors |-> [k.motor[m] EXCEPT !.queued = {"STOP"}, !.moves = k.motor[m].last]]
<1>0. CaughtUp(k) = Changed(k, Motors, f)
  BY DEF CaughtUp
<1>2. \A m \in Motors : /\ f[m].last = k.motor[m].last
                        /\ f[m].queued = {"STOP"}
                        /\ f[m].moves = k.motor[m].last
                        /\ f[m].at = k.motor[m].at
  BY DEF Known, Fact
<1> HIDE DEF f
<1>1. /\ \A m \in Motors : CaughtUp(k).motor[m] = f[m]
      /\ CaughtUp(k).driver = k.driver
  BY <1>0, ChangedIs
<1>3. ASSUME NEW m \in Motors PROVE IsTrue(m, CaughtUp(k).motor[m])
  <2>1. queue[m] = <<>>
    BY DEF Drained
  <2>2. Queued(m) = {} /\ LastOrder(m) = motion[m]
    BY <2>1 DEF Queued, LastOrder
  <2> QED BY <1>1, <1>2, <2>2 DEF Knows, IsTrue
<1> QED BY <1>1, <1>3 DEF Knows

\* What a sensor shows is where the part is.
LEMMA SeenIsKnown ==
  ASSUME NEW k \in Known, Knows(k), NEW i, NEW m \in Motors, i.ms = {m}, NEW places, place[m] \in places
  PROVE  Knows(SeenAt(i, k, places))
<1> DEFINE f == [o \in Motors |-> [k.motor[o] EXCEPT !.at = @ \cap places]]
<1>0. SeenAt(i, k, places) = Changed(k, i.ms, f)
  BY DEF SeenAt
<1>2. \A o \in Motors : /\ f[o].last = k.motor[o].last
                        /\ f[o].queued = k.motor[o].queued
                        /\ f[o].moves = k.motor[o].moves
                        /\ f[o].at = k.motor[o].at \cap places
  BY DEF Known, Fact
<1> HIDE DEF f
<1>1. /\ \A o \in Motors : SeenAt(i, k, places).motor[o] = IF o \in i.ms THEN f[o] ELSE k.motor[o]
      /\ SeenAt(i, k, places).driver = k.driver
  BY <1>0, ChangedIs
<1>3. \A o \in Motors : IsTrue(o, SeenAt(i, k, places).motor[o])
  BY <1>1, <1>2 DEF Knows, IsTrue
<1> QED BY <1>1, <1>3 DEF Knows

\* A motor that is found standing does no more than what is still in its queue.
LEMMA StoppedIsKnown ==
  ASSUME ChannelTypeOK, NEW k \in Known, Stable(k), Knows(k), NEW i, NEW m \in Motors, i.ms = {m},
         motion[m] = "STOP"
  PROVE  Knows(FoundStopped(i, k))
<1> DEFINE f == [o \in Motors |-> [k.motor[o] EXCEPT !.last = @ \cap k.motor[o].queued,
                                                     !.moves = k.motor[o].queued]]
<1>0. FoundStopped(i, k) = Changed(k, i.ms, f)
  BY DEF FoundStopped
<1>2. \A o \in Motors : /\ f[o].last = k.motor[o].last \cap k.motor[o].queued
                        /\ f[o].queued = k.motor[o].queued
                        /\ f[o].moves = k.motor[o].queued
                        /\ f[o].at = k.motor[o].at
  BY DEF Known, Fact
<1> HIDE DEF f
<1>1. /\ \A o \in Motors : FoundStopped(i, k).motor[o] = IF o \in i.ms THEN f[o] ELSE k.motor[o]
      /\ FoundStopped(i, k).driver = k.driver
  BY <1>0, ChangedIs
<1>3. IsTrue(m, k.motor[m]) /\ "STOP" \in k.motor[m].queued
  BY DEF Knows, Stable
<1>4. LastOrder(m) \in k.motor[m].queued
  <2>1. queue[m] \in Seq(Directions)
    BY DEF ChannelTypeOK
  <2>2. queue[m] # <<>> => Len(queue[m]) \in 1..Len(queue[m])
    BY <2>1
  <2>3. LastOrder(m) \in Queued(m) \cup {"STOP"}
    BY <2>2 DEF LastOrder, Queued
  <2> QED BY <1>3, <2>3 DEF IsTrue
<1>5. \A o \in Motors : IsTrue(o, FoundStopped(i, k).motor[o])
  BY <1>1, <1>2, <1>3, <1>4 DEF Knows, IsTrue
<1> QED BY <1>1, <1>5 DEF Knows

\* An assignment of spin_mt_always_on is all that a statement does to the driver's grade.
LEMMA AssignedIsKnown ==
  ASSUME NEW k \in Known, NEW i, UNCHANGED channel, Knows(k),
         flag'["alwaysOn"] = (IF "alwaysOn" \in DOMAIN i.set THEN i.set["alwaysOn"] ELSE flag["alwaysOn"])
  PROVE  Knows(Assigned(i, k))'
<1>1. \A m \in Motors : IsTrue(m, k.motor[m])'
  BY DEF channel, Knows, IsTrue, Queued, LastOrder
<1>2. Released' <=> Released
  BY DEF channel, Released, Queued
<1>3. CASE "alwaysOn" \notin DOMAIN i.set
  <2>1. Assigned(i, k) = k /\ flag'["alwaysOn"] = flag["alwaysOn"]
    BY <1>3 DEF Assigned
  <2> QED BY <2>1, Unmoved
<1>4. CASE "alwaysOn" \in DOMAIN i.set
  <2>1. /\ Assigned(i, k).motor = k.motor
        /\ Assigned(i, k).driver = IF i.set["alwaysOn"] THEN "any"
                                   ELSE IF k.driver = "any" THEN "down" ELSE k.driver
    BY <1>4 DEF Assigned, Known
  <2>2. flag'["alwaysOn"] = i.set["alwaysOn"]
    BY <1>4
  <2>3. DriverIs(k.driver)
    BY DEF Knows
  <2>4. DriverIs(Assigned(i, k).driver)'
    BY <1>2, <2>1, <2>2, <2>3 DEF DriverIs
  <2> QED BY <1>1, <2>1, <2>4 DEF Knows
<1> QED BY <1>3, <1>4

\* Where an instruction leads, what is known after it is covered: Annotated spelt out.
LEMMA WaysAreCovered ==
  ASSUME NEW facts, NEW ends, Annotated(facts, ends, Starts), NEW n \in DOMAIN Program, Reached(facts[n]),
         NEW i, i = Program[n], NEW k, k = facts[n]
  PROVE  /\ k \in Known /\ Stable(k)
         /\ i.op = "send" => Covers(Sent(i, k), facts[n + 1])
         /\ i.op = "delay" => Covers(CaughtUp(k), facts[n + 1])
         /\ i.op \in {"wait", "try"} => /\ Covers(SeenAt(i, k, {i.arg}), facts[n + 1])
                                        /\ Covers(FoundStopped(i, k), facts[n + 1])
         /\ i.op = "ifat" => /\ Covers(SeenAt(i, k, {i.arg}), facts[n + 1])
                             /\ Covers(SeenAt(i, k, Positions \ {i.arg}), facts[n + i.skip])
         /\ i.op = "set" => Covers(Assigned(i, k), facts[n + 1])
         /\ i.op \in {"duration", "check", "estop", "seek", "tof", "latch", "iflatched", "label"} =>
              Covers(k, facts[n + 1])
         /\ i.op \in {"wait", "duration", "check", "estop", "seek", "tof", "goto", "iflatched"} =>
              Covers(k, facts[Entry[i.fail]])
         /\ i.op \in {"try", "jump"} => Covers(k, facts[n + i.skip])
         /\ i.op = "return" => Covers(k, ends[i.arg])
<1>1. k \in Known /\ Stable(k)
  BY DEF Annotated
<1>2. i.op = "return" => Covers(k, ends[i.arg])
  BY DEF Annotated
<1>3. \A w \in Ways(n, k) : Covers(w[2], facts[w[1]])
  BY DEF Annotated
<1>4. \A p, after : <<p, after>> \in Ways(n, k) => Covers(after, facts[p])
  BY <1>3
<1>5. /\ i.op = "send" => <<n + 1, Sent(i, k)>> \in Ways(n, k)
      /\ i.op = "delay" => <<n + 1, CaughtUp(k)>> \in Ways(n, k)
      /\ i.op \in {"wait", "try", "ifat"} => <<n + 1, SeenAt(i, k, {i.arg})>> \in Ways(n, k)
      /\ i.op \in {"wait", "try"} => <<n + 1, FoundStopped(i, k)>> \in Ways(n, k)
      /\ i.op = "ifat" => <<n + i.skip, SeenAt(i, k, Positions \ {i.arg})>> \in Ways(n, k)
      /\ i.op = "set" => <<n + 1, Assigned(i, k)>> \in Ways(n, k)
      /\ i.op \in {"duration", "check", "estop", "seek", "tof", "latch", "iflatched", "label"} =>
           <<n + 1, k>> \in Ways(n, k)
      /\ i.op \in {"wait", "duration", "check", "estop", "seek", "tof", "goto", "iflatched"} =>
           <<Entry[i.fail], k>> \in Ways(n, k)
      /\ i.op \in {"try", "jump"} => <<n + i.skip, k>> \in Ways(n, k)
  BY Zenon DEF Ways
<1> QED BY <1>1, <1>2, <1>4, <1>5

\* Where a thread goes on from instruction n.
LEMMA Onward ==
  ASSUME TaskTypeOK, NEW t \in Threads, NEW n \in DOMAIN Program, pc[t] = n
  PROVE  /\ Running(t) /\ Code(t) = Program[n]
         /\ \A q : GoTo(t, q) => pc'[t] = q
         /\ \A p : Stay(t, p) => pc'[t] = n
         /\ Ahead(t) => pc'[t] = n + 1
         /\ Fail(t) => pc'[t] = IF Program[n].op = "try" THEN n + Program[n].skip ELSE Entry[Program[n].fail]
<1>1. n # 0
  BY Targets
<1> QED BY <1>1 DEF TaskTypeOK, Running, Code, GoTo, Stay, Ahead, Fail

\* A statement that is not a return leads to where what it has done is known.
LEMMA StatementKnows ==
  ASSUME TypeOK, RoomInQueues, Prompt, NEW facts, NEW ends, Annotated(facts, ends, Starts),
         NEW t \in Threads, Statement(t), ~ReturnStep(t),
         NEW n \in DOMAIN Program, pc[t] = n, Knows(facts[n])
  PROVE  result' = result /\ \E p \in DOMAIN Program : pc'[t] = p /\ Knows(facts[p])'
<1>1. ChannelTypeOK /\ TaskTypeOK /\ flag \in [Flags -> BOOLEAN]
  BY DEF TypeOK, TaskTypeOK
<1>2. PICK i : i = Program[n]
  OBVIOUS
<1>3. PICK k : k = facts[n]
  OBVIOUS
<1>4. Knows(k) /\ Reached(facts[n])
  BY <1>3, KnownIsReached
<1>5. Running(t) /\ Code(t) = i
  BY <1>1, <1>2, Onward
<1>6. /\ i.op \notin {"return", "goto", "jump"} => n + 1 \in DOMAIN Program
      /\ i.op \in {"ifat", "jump", "try"} => n + i.skip \in DOMAIN Program
      /\ i.op \in {"wait", "duration", "check", "estop", "tof", "seek", "goto", "iflatched"} =>
           Entry[i.fail] \in DOMAIN Program
      /\ i.d \in Directions
      /\ \A f \in DOMAIN i.set : i.set[f] \in BOOLEAN
  BY <1>2, Targets
<1>7. /\ k \in Known /\ Stable(k)
      /\ i.op = "send" => Covers(Sent(i, k), facts[n + 1])
      /\ i.op = "delay" => Covers(CaughtUp(k), facts[n + 1])
      /\ i.op \in {"wait", "try"} => /\ Covers(SeenAt(i, k, {i.arg}), facts[n + 1])
                                     /\ Covers(FoundStopped(i, k), facts[n + 1])
      /\ i.op = "ifat" => /\ Covers(SeenAt(i, k, {i.arg}), facts[n + 1])
                          /\ Covers(SeenAt(i, k, Positions \ {i.arg}), facts[n + i.skip])
      /\ i.op = "set" => Covers(Assigned(i, k), facts[n + 1])
      /\ i.op \in {"duration", "check", "estop", "seek", "tof", "latch", "iflatched", "label"} =>
           Covers(k, facts[n + 1])
      /\ i.op \in {"wait", "duration", "check", "estop", "seek", "tof", "goto", "iflatched"} =>
           Covers(k, facts[Entry[i.fail]])
      /\ i.op \in {"try", "jump"} => Covers(k, facts[n + i.skip])
  BY <1>2, <1>3, <1>4, WaysAreCovered
<1>8. i.op \in {"wait", "try", "ifat", "seek"} => Motor(t) \in Motors /\ i.ms = {Motor(t)}
  <2>1. WellFormed(n)
    BY ProgramAssumption
  <2>2. i.op \in {"wait", "try", "ifat", "seek"} => \E m \in Motors : i.ms = {m}
    BY <1>2, <2>1, Zenon DEF WellFormed
  <2> QED BY <1>5, <2>2 DEF Motor
<1>9. /\ Ahead(t) => pc'[t] = n + 1
      /\ Fail(t) => pc'[t] = IF i.op = "try" THEN n + i.skip ELSE Entry[i.fail]
      /\ \A q : GoTo(t, q) => pc'[t] = q
      /\ \A p : Stay(t, p) => pc'[t] = n
  BY <1>1, <1>2, Onward
<1> DEFINE Arrived == \E p \in DOMAIN Program : pc'[t] = p /\ Knows(facts[p])'
<1>10. ASSUME NEW p \in DOMAIN Program, pc'[t] = p, Knows(facts[p])' PROVE Arrived
  BY <1>10
<1>11. ASSUME UNCHANGED channel, flag'["alwaysOn"] = flag["alwaysOn"], Fail(t),
              i.op \in {"wait", "try", "duration", "check", "estop", "seek", "tof", "goto", "iflatched"}
       PROVE  Arrived
  <2>1. Knows(k)'
    BY <1>4, <1>11, Unmoved
  <2>2. PICK p : p = IF i.op = "try" THEN n + i.skip ELSE Entry[i.fail]
    OBVIOUS
  <2>3. p \in DOMAIN Program /\ Covers(k, facts[p]) /\ pc'[t] = p
    BY <1>6, <1>7, <1>9, <1>11, <2>2
  <2>4. Knows(facts[p])'
    BY <2>1, <2>3, CoveredIsKnownThen
  <2> QED BY <1>10, <2>3, <2>4
<1>12. ASSUME UNCHANGED channel, flag'["alwaysOn"] = flag["alwaysOn"], Ahead(t),
              i.op \notin {"return", "goto", "jump"},
              NEW l, Covers(l, facts[n + 1]), Knows(l)
       PROVE  Arrived
  <2>1. Knows(l)'
    BY <1>12, Unmoved
  <2>2. PICK p : p = n + 1
    OBVIOUS
  <2>3. p \in DOMAIN Program /\ Covers(l, facts[p]) /\ pc'[t] = p
    BY <1>6, <1>9, <1>12, <2>2
  <2>4. Knows(facts[p])'
    BY <2>1, <2>3, CoveredIsKnownThen
  <2> QED BY <1>10, <2>3, <2>4
<1>13. ASSUME NEW p, Stay(t, p), Knows(k)' PROVE Arrived
  <2>1. pc'[t] = n
    BY <1>9, <1>13
  <2> QED BY <1>3, <1>10, <1>13, <2>1
<1> HIDE DEF Arrived
<1>14. SUFFICES result' = result /\ Arrived
  BY DEF Arrived
<1>15. CASE SendStep(t)
  <2>1. /\ i.op = "send" /\ queue' = Posted(i.ms, i.d) /\ Ahead(t) /\ result' = result
        /\ UNCHANGED <<motion, place, energised, flag>>
    BY <1>5, <1>15 DEF SendStep, At
  <2>2. Knows(Sent(i, k))'
    BY <1>1, <1>4, <1>6, <1>7, <2>1, SentIsKnown
  <2>3. PICK p : p = n + 1
    OBVIOUS
  <2>4. p \in DOMAIN Program /\ Covers(Sent(i, k), facts[p]) /\ pc'[t] = p
    BY <1>6, <1>7, <1>9, <2>1, <2>3
  <2>5. Knows(facts[p])'
    BY <2>2, <2>4, CoveredIsKnownThen
  <2> QED BY <1>10, <2>1, <2>4, <2>5
<1>16. CASE DelayEnds(t)
  <2>1. /\ i.op = "delay" /\ Drained /\ Ahead(t) /\ result' = result
        /\ UNCHANGED channel /\ flag' = flag
    BY <1>5, <1>16 DEF DelayEnds, At, Settled
  <2>2. Knows(CaughtUp(k))
    BY <1>4, <1>7, <2>1, CaughtUpIsKnown
  <2> QED BY <1>7, <1>12, <2>1, <2>2
<1>17. CASE LookAtFlags(t)
  <2>1. /\ i.op \in {"wait", "try", "duration"} /\ (Fail(t) \/ Stay(t, "judge"))
        /\ UNCHANGED channel /\ flag' = flag /\ result' = result
    BY <1>5, <1>17 DEF LookAtFlags
  <2>2. Knows(k)'
    BY <1>4, <2>1, Unmoved
  <2> QED BY <1>11, <1>13, <2>1, <2>2
<1>18. CASE WaitEnds(t)
  <2>1. /\ i.op \in {"wait", "try"}
        /\ \/ (place[Motor(t)] = i.arg \/ motion[Motor(t)] = "STOP") /\ Ahead(t)
           \/ Fail(t)
        /\ UNCHANGED channel /\ flag' = flag /\ result' = result
    BY <1>5, <1>18 DEF WaitEnds
  <2>2. PICK m \in Motors : m = Motor(t)
    BY <1>8, <2>1
  <2>3. i.ms = {m}
    BY <1>8, <2>1, <2>2
  <2>4. CASE place[m] = i.arg /\ Ahead(t)
    <3>1. Knows(SeenAt(i, k, {i.arg}))
      BY <1>4, <1>7, <2>3, <2>4, SeenIsKnown
    <3> QED BY <1>7, <1>12, <2>1, <2>4, <3>1
  <2>5. CASE motion[m] = "STOP" /\ Ahead(t)
    <3>1. Knows(FoundStopped(i, k))
      BY <1>1, <1>4, <1>7, <2>3, <2>5, StoppedIsKnown
    <3> QED BY <1>7, <1>12, <2>1, <2>5, <3>1
  <2> QED BY <1>11, <2>1, <2>2, <2>4, <2>5
<1>19. CASE DurationEnds(t) \/ Check(t) \/ LatchStep(t) \/ TofRelease(t) \/ TofClear(t)
  <2>1. /\ \/ i.op \in {"duration", "check", "estop", "latch", "tof"} /\ Ahead(t)
           \/ i.op \in {"check", "estop", "tof"} /\ Fail(t)
        /\ UNCHANGED channel /\ flag' = flag /\ result' = result
    BY <1>5, <1>19 DEF DurationEnds, Check, LatchStep, TofRelease, TofClear, At
  <2> QED BY <1>4, <1>7, <1>11, <1>12, <2>1
<1>20. CASE SeekEnds(t)
  <2>1. /\ i.op = "seek" /\ UNCHANGED <<motion, place, energised, flag>> /\ result' = result
        /\ \/ queue' = Posted({"spin"}, "STOP") /\ Fail(t)
           \/ queue' = queue /\ Ahead(t)
    BY <1>5, <1>20 DEF SeekEnds, At
  <2>2. CASE queue' = Posted({"spin"}, "STOP") /\ Fail(t)
    <3>1. Knows(k)'
      BY <1>1, <1>4, <1>7, <2>1, <2>2, StopKeeps
    <3>2. PICK p : p = Entry[i.fail]
      OBVIOUS
    <3>3. p \in DOMAIN Program /\ Covers(k, facts[p]) /\ pc'[t] = p
      BY <1>6, <1>7, <1>9, <2>1, <2>2, <3>2
    <3>4. Knows(facts[p])'
      BY <3>1, <3>3, CoveredIsKnownThen
    <3> QED BY <1>10, <2>1, <3>3, <3>4
  <2>3. CASE queue' = queue /\ Ahead(t)
    BY <1>4, <1>7, <1>12, <2>1, <2>3 DEF channel
  <2> QED BY <2>1, <2>2, <2>3
<1>21. CASE Branch(t)
  <2>1. /\ \/ i.op = "ifat" /\ place[Motor(t)] = i.arg /\ Ahead(t)
           \/ i.op = "ifat" /\ place[Motor(t)] # i.arg /\ GoTo(t, n + i.skip)
           \/ i.op = "jump" /\ GoTo(t, n + i.skip)
           \/ i.op \in {"goto", "iflatched"} /\ Fail(t)
           \/ i.op \in {"iflatched", "label"} /\ Ahead(t)
        /\ UNCHANGED channel /\ flag' = flag /\ result' = result
    BY <1>5, <1>21 DEF Branch
  <2>2. CASE i.op = "ifat"
    <3>1. PICK m \in Motors : m = Motor(t)
      BY <1>8, <2>2
    <3>2. i.ms = {m} /\ place[m] \in Positions
      BY <1>1, <1>8, <2>2, <3>1 DEF ChannelTypeOK
    <3>3. CASE place[m] = i.arg /\ Ahead(t)
      <4>1. Knows(SeenAt(i, k, {i.arg}))
        BY <1>4, <1>7, <3>2, <3>3, SeenIsKnown
      <4> QED BY <1>7, <1>12, <2>1, <2>2, <3>3, <4>1
    <3>4. CASE place[m] # i.arg /\ GoTo(t, n + i.skip)
      <4>1. PICK l : l = SeenAt(i, k, Positions \ {i.arg})
        OBVIOUS
      <4>2. Knows(l)
        BY <1>4, <1>7, <3>2, <3>4, <4>1, SeenIsKnown
      <4>3. Knows(l)'
        BY <2>1, <4>2, Unmoved
      <4>4. PICK p : p = n + i.skip
        OBVIOUS
      <4>5. p \in DOMAIN Program /\ Covers(l, facts[p]) /\ pc'[t] = p
        BY <1>6, <1>7, <1>9, <2>2, <3>4, <4>1, <4>4
      <4>6. Knows(facts[p])'
        BY <4>3, <4>5, CoveredIsKnownThen
      <4> QED BY <1>10, <2>1, <4>5, <4>6
    <3> QED BY <2>1, <2>2, <3>1, <3>3, <3>4
  <2>3. CASE i.op = "jump"
    <3>1. Knows(k)'
      BY <1>4, <2>1, Unmoved
    <3>2. PICK p : p = n + i.skip
      OBVIOUS
    <3>3. p \in DOMAIN Program /\ Covers(k, facts[p]) /\ pc'[t] = p
      BY <1>6, <1>7, <1>9, <2>1, <2>3, <3>2
    <3>4. Knows(facts[p])'
      BY <3>1, <3>3, CoveredIsKnownThen
    <3> QED BY <1>10, <2>1, <3>3, <3>4
  <2>4. CASE i.op \in {"goto", "iflatched", "label"}
    BY <1>4, <1>7, <1>11, <1>12, <2>1, <2>4
  <2> QED BY <2>1, <2>2, <2>3, <2>4
<1>22. CASE SetStep(t)
  <2>1. i.op = "set" /\ UNCHANGED channel /\ Ahead(t) /\ result' = result
    BY <1>5, <1>22 DEF SetStep, At
  <2>2. flag'["alwaysOn"] = (IF "alwaysOn" \in DOMAIN i.set THEN i.set["alwaysOn"] ELSE flag["alwaysOn"])
    BY <1>5, <1>22 DEF SetStep, SetFlags, Flags
  <2>3. Knows(Assigned(i, k))'
    BY <1>4, <1>7, <2>1, <2>2, AssignedIsKnown
  <2>4. PICK p : p = n + 1
    OBVIOUS
  <2>5. p \in DOMAIN Program /\ Covers(Assigned(i, k), facts[p]) /\ pc'[t] = p
    BY <1>6, <1>7, <1>9, <2>1, <2>4
  <2>6. Knows(facts[p])'
    BY <2>3, <2>5, CoveredIsKnownThen
  <2> QED BY <1>10, <2>1, <2>5, <2>6
<1>23. CASE TofRead(t) \/ TofHold(t)
  <2>1. /\ UNCHANGED channel /\ result' = result
        /\ \E p : Stay(t, p)
    BY <1>23 DEF TofRead, TofHold
  <2>2. flag'["alwaysOn"] = flag["alwaysOn"]
    BY <1>1, <1>23 DEF TofRead, TofHold, SetFlags, Flags
  <2>3. Knows(k)'
    BY <1>4, <2>1, <2>2, Unmoved
  <2> QED BY <1>13, <2>1, <2>3
<1>24. CASE TofStop(t)
  <2>1. /\ queue' = Posted(Motors, "STOP") /\ Stay(t, "hold") /\ result' = result
        /\ UNCHANGED <<motion, place, energised, flag>>
    BY <1>24 DEF TofStop
  <2>2. Knows(k)'
    BY <1>1, <1>4, <1>7, <2>1, StopKeeps
  <2> QED BY <1>13, <2>1, <2>2
<1> QED BY <1>15, <1>16, <1>17, <1>18, <1>19, <1>20, <1>21, <1>22, <1>23, <1>24 DEF Statement

\* When the power comes on nothing runs and no message waits.
LEMMA KnownInit ==
  ASSUME NEW facts, NEW ends, Annotated(facts, ends, Starts), Init
  PROVE  KnownHere(facts, ends)
<1>1. PICK k : k = ends["none"]
  OBVIOUS
<1>2. Stable(k) /\ \A p \in Rests, m \in Motors : p[m] \in k.motor[m].at
  BY <1>1 DEF Annotated, Results
<1>3. ASSUME NEW m \in Motors PROVE IsTrue(m, k.motor[m])
  <2>1. queue[m] = <<>> /\ motion[m] = "STOP" /\ place[m] \in k.motor[m].at
    BY <1>2 DEF Init, ChannelInit
  <2>2. /\ "STOP" \in k.motor[m].last /\ "STOP" \in k.motor[m].queued
        /\ k.motor[m].queued \subseteq k.motor[m].moves
    BY <1>2 DEF Stable
  <2> QED BY <2>1, <2>2 DEF IsTrue, Queued, LastOrder
<1>4. DriverIs(k.driver)
  BY DEF Init, ChannelInit, DriverIs, Released, Flags
<1>5. Knows(k)
  BY <1>3, <1>4 DEF Knows
<1>6. 0 \notin DOMAIN Program
  BY ProgramAssumption
<1>7. \A t \in Threads : pc[t] = 0 /\ result[t] = "none"
  BY DEF Init
<1> QED BY <1>1, <1>5, <1>6, <1>7 DEF KnownHere

\* Every step of the one thread, of the hands and of the motors leaves what is known true.
LEMMA KnownStep ==
  ASSUME NEW facts, NEW ends, Annotated(facts, ends, Starts), Prompt, NEW u, Threads = {u},
         TypeOK, RoomInQueues, KnownHere(facts, ends), [Next]_vars
  PROVE  KnownHere(facts, ends)'
<1>1. ChannelTypeOK /\ TaskTypeOK
  BY DEF TypeOK, TaskTypeOK
<1>2. 0 \notin DOMAIN Program
  BY ProgramAssumption
<1>3. /\ \A n \in DOMAIN Program : Stable(facts[n])
      /\ \A r \in Results : Stable(ends[r])
  BY DEF Annotated
<1>4. \* A step that is not the thread's, and keeps what is known
      ASSUME pc' = pc, result' = result,
             ASSUME NEW k, Stable(k), Knows(k) PROVE Knows(k)'
      PROVE  KnownHere(facts, ends)'
  <2>1. ASSUME NEW t \in Threads, NEW n \in DOMAIN Program, pc'[t] = n
        PROVE  result'[t] = "none" /\ Knows(facts[n])'
    BY <1>3, <1>4, <2>1 DEF KnownHere
  <2>2. ASSUME NEW t \in Threads, NEW r \in Results, pc'[t] = 0, result'[t] = r
        PROVE  Knows(ends[r])'
    BY <1>3, <1>4, <2>2 DEF KnownHere
  <2> QED BY <2>1, <2>2 DEF KnownHere
<1>5. ASSUME Statement(u), ~ReturnStep(u) PROVE KnownHere(facts, ends)'
  <2>1. Running(u) /\ pc[u] \in DOMAIN Program
    BY <1>1, <1>5 DEF Statement, TaskTypeOK, At, Running, SendStep, DelayEnds, LookAtFlags, WaitEnds,
         DurationEnds, Check, SeekEnds, Branch, SetStep, LatchStep, TofRead, TofStop, TofHold,
         TofRelease, TofClear
  <2>2. PICK n \in DOMAIN Program : pc[u] = n
    BY <2>1
  <2>3. Knows(facts[n]) /\ result[u] = "none"
    BY <2>2 DEF KnownHere
  <2>4. PICK p \in DOMAIN Program : pc'[u] = p /\ Knows(facts[p])'
    BY <1>5, <2>2, <2>3, StatementKnows
  <2>5. result' = result
    BY <1>5, <2>2, <2>3, StatementKnows
  <2> QED BY <1>2, <2>3, <2>4, <2>5 DEF KnownHere
<1>6. ASSUME ReturnStep(u) PROVE KnownHere(facts, ends)'
  <2>1. Running(u) /\ pc[u] \in DOMAIN Program
    BY <1>1, <1>6 DEF ReturnStep, At, TaskTypeOK, Running
  <2>2. PICK n \in DOMAIN Program : pc[u] = n
    BY <2>1
  <2>3. PICK i : i = Program[n]
    OBVIOUS
  <2>4. PICK k : k = facts[n]
    OBVIOUS
  <2>5. Knows(k) /\ Reached(facts[n])
    BY <2>2, <2>4, KnownIsReached DEF KnownHere
  <2>6. i.op = "return" /\ Code(u) = i
    BY <1>6, <2>2, <2>3 DEF ReturnStep, At, Code
  <2>7. Covers(k, ends[i.arg])
    BY <2>3, <2>4, <2>5, <2>6, WaysAreCovered
  <2>8. Knows(k)'
    BY <1>6, <2>5, Unmoved DEF ReturnStep
  <2>9. Knows(ends[i.arg])'
    BY <2>7, <2>8, CoveredIsKnownThen
  <2>10. pc'[u] = 0 /\ result'[u] = i.arg
    BY <1>1, <1>6, <2>6 DEF ReturnStep, GoTo, TaskTypeOK
  <2> QED BY <1>2, <2>9, <2>10 DEF KnownHere
<1>7. ASSUME NEW l \in Starts, Start(u, l) PROVE KnownHere(facts, ends)'
  <2>1. pc[u] = 0 /\ result[u] \in Results
    BY <1>1, <1>7 DEF Start, Running, TaskTypeOK
  <2>2. PICK r \in Results : result[u] = r
    BY <2>1
  <2>3. Knows(ends[r])
    BY <2>1, <2>2 DEF KnownHere
  <2>4. PICK n : n = Entry[l]
    OBVIOUS
  <2>5. n \in DOMAIN Program /\ Covers(ends[r], facts[n])
    BY <2>4, ProgramAssumption DEF Annotated
  <2>6. Knows(ends[r])'
    BY <1>7, <2>3, Unmoved DEF Start
  <2>7. Knows(facts[n])'
    BY <2>5, <2>6, CoveredIsKnownThen
  <2>8. pc'[u] = n /\ result'[u] = "none"
    BY <1>1, <1>7, <2>4 DEF Start, GoTo, TaskTypeOK
  <2> QED BY <1>2, <2>5, <2>7, <2>8 DEF KnownHere
<1>8. ASSUME NEW h \in Hands, Order(h) \/ CarryOut(h) PROVE KnownHere(facts, ends)'
  <2>1. pc' = pc /\ result' = result
    BY <1>8 DEF Order, CarryOut, SeeRunning, RaiseEstop, OtherCommand, Toggle, RequestRecovery, PostStops,
                StopSpinAgain, task
  <2>2. ASSUME NEW k, Stable(k), Knows(k) PROVE Knows(k)'
    BY <1>8, <2>2, HandKeeps
  <2> QED BY <1>4, <2>1, <2>2
<1>9. ASSUME NEW m \in Motors, Machine(m) PROVE KnownHere(facts, ends)'
  <2>1. pc' = pc /\ result' = result
    BY <1>9 DEF Machine, task
  <2>2. ASSUME NEW k, Stable(k), Knows(k) PROVE Knows(k)'
    BY <1>1, <1>9, <2>2, MotorKeeps
  <2> QED BY <1>4, <2>1, <2>2
<1>10. CASE UNCHANGED vars
  <2>1. pc' = pc /\ result' = result /\ UNCHANGED channel /\ flag' = flag
    BY <1>10 DEF vars, task
  <2>2. ASSUME NEW k, Stable(k), Knows(k) PROVE Knows(k)'
    BY <2>1, <2>2, Unmoved
  <2> QED BY <1>4, <2>1, <2>2
<1> QED BY <1>5, <1>6, <1>7, <1>8, <1>9, <1>10 DEF Next

\* For any program with an annotation that is right, and for whatever the hands do: while
\* no queue is full, what the annotation says of a statement of motor.c is true there.
THEOREM KnownInvariant ==
  ASSUME NEW facts, NEW ends, Annotated(facts, ends, Starts), Prompt, NEW u, Threads = {u}
  PROVE  Spec /\ []RoomInQueues => []KnownHere(facts, ends)
<1>1. Init => KnownHere(facts, ends)
  BY KnownInit
<1>2. TypeOK /\ RoomInQueues /\ KnownHere(facts, ends) /\ [Next]_vars => KnownHere(facts, ends)'
  BY KnownStep
<1> QED BY <1>1, <1>2, TypeCorrect, PTL DEF Spec

\* No error exit of motor.c leaves a motor running: once the scenario, the orders and the
\* messages are over, all stand.
THEOREM QuiescentCorrect ==
  ASSUME NEW facts, NEW ends, Annotated(facts, ends, Starts), EndsStopped(ends), Prompt,
         NEW u, Threads = {u}
  PROVE  Spec /\ []RoomInQueues => []Quiescent
<1>1. TypeOK /\ KnownHere(facts, ends) => Quiescent
  <2> SUFFICES ASSUME TypeOK, KnownHere(facts, ends), AtRest, NEW m \in Motors
               PROVE  motion[m] = "STOP"
    BY DEF Quiescent, AllStopped
  <2>1. pc[u] = 0 /\ result[u] \in Results
    BY DEF AtRest, Running, TypeOK
  <2>2. Knows(ends[result[u]])
    BY <2>1 DEF KnownHere
  <2>3. ends[result[u]].motor[m].last = {"STOP"}
    BY <2>1, <2>2, KnownIsReached DEF EndsStopped
  <2>4. LastOrder(m) = "STOP"
    BY <2>2, <2>3 DEF Knows, IsTrue
  <2> QED BY <2>4 DEF LastOrder, AtRest, Settled, Drained
<1> QED BY <1>1, KnownInvariant, TypeCorrect, PTL

\* A cleaning that reports success has left the waste cover closed.
THEOREM WasteClosedCorrect ==
  ASSUME NEW facts, NEW ends, Annotated(facts, ends, Starts), EndsClosed(ends), Prompt,
         NEW u, Threads = {u}
  PROVE  Spec /\ []RoomInQueues => []WasteClosedAfterClean
<1>1. TypeOK /\ KnownHere(facts, ends) => WasteClosedAfterClean
  <2> SUFFICES ASSUME TypeOK, KnownHere(facts, ends), result[u] = "cleaned"
               PROVE  place["waste"] = "close"
    BY DEF WasteClosedAfterClean
  <2>1. pc[u] = 0
    BY DEF TypeOK, KnownHere
  <2>2. Knows(ends["cleaned"])
    BY <2>1 DEF KnownHere, Results
  <2>3. place["waste"] \in ends["cleaned"].motor["waste"].at
    BY <2>2 DEF Knows, IsTrue, Motors
  <2> QED BY <2>3 DEF EndsClosed
<1> QED BY <1>1, KnownInvariant, TypeCorrect, PTL

\* After a cleaning or a recovery that succeeded the spindle's driver is off.
THEOREM DriverReleasedCorrect ==
  ASSUME NEW facts, NEW ends, Annotated(facts, ends, Starts), EndsStopped(ends), EndsReleased(ends),
         Prompt, NEW u, Threads = {u}
  PROVE  Spec /\ []RoomInQueues => []DriverReleased
<1>1. TypeOK /\ KnownHere(facts, ends) => DriverReleased
  <2> SUFFICES ASSUME TypeOK, KnownHere(facts, ends), AtRest, result[u] \in {"cleaned", "recovered"}
               PROVE  ~energised
    BY DEF DriverReleased
  <2>1. pc[u] = 0 /\ result[u] \in Results /\ "spin" \in Motors
    BY DEF AtRest, Running, TypeOK, Motors
  <2>2. Knows(ends[result[u]]) /\ Reached(ends[result[u]])
    BY <2>1, KnownIsReached DEF KnownHere
  <2>3. queue["spin"] = <<>>
    BY <2>1 DEF AtRest, Settled, Drained
  <2>4. motion["spin"] = "STOP"
    BY <2>1, <2>2, <2>3 DEF EndsStopped, Knows, IsTrue, LastOrder
  <2>5. Queued("spin") = {}
    BY <2>3 DEF Queued
  <2>6. Released
    BY <2>2 DEF EndsReleased, Knows, DriverIs
  <2> QED BY <2>4, <2>5, <2>6 DEF Released
<1> QED BY <1>1, KnownInvariant, TypeCorrect, PTL

\* The scoop is not on its way out and has no order to go; the main cover is open and has
\* no order to close.
ScoopStaysIn == motion["scoop"] # "FORWARD" /\ "FORWARD" \notin Queued("scoop")

CoverStaysOpen ==
  place["main"] = "open" /\ motion["main"] # "REVERSE" /\ "REVERSE" \notin Queued("main")

\* The motors and the command tasks add no order: what stays in or open goes on doing so.
LEMMA MachineInterlocked ==
  ASSUME ChannelTypeOK, NEW m \in Motors, Machine(m), ScoopStaysIn \/ CoverStaysOpen
  PROVE  (ScoopStaysIn \/ CoverStaysOpen)'
<1>1. MotorStep(m, flag["alwaysOn"])
  BY DEF Machine
<1>2. ASSUME NEW o \in Motors
      PROVE  /\ motion'[o] \in {motion[o], "STOP"} \cup Queued(o)
             /\ Queued(o)' \subseteq Queued(o)
  <2>1. CASE Handle(m, flag["alwaysOn"]) /\ o = m
    BY <2>1, HandledOrders
  <2>2. CASE Handle(m, flag["alwaysOn"]) /\ o # m
    <3>1. queue'[o] = queue[o] /\ motion'[o] = motion[o]
      BY <2>2 DEF Handle, ChannelTypeOK
    <3> QED BY <3>1 DEF Queued
  <2>3. CASE ~Handle(m, flag["alwaysOn"])
    <3>1. queue' = queue /\ motion'[o] \in {motion[o], "STOP"}
      BY <1>1, <2>3 DEF MotorStep, AutoStop, StepsDone, Travel, ChannelTypeOK
    <3> QED BY <3>1 DEF Queued
  <2> QED BY <2>1, <2>2, <2>3
<1>3. "scoop" \in Motors /\ "main" \in Motors
  BY DEF Motors
<1>4. ScoopStaysIn => ScoopStaysIn'
  BY <1>2, <1>3 DEF ScoopStaysIn
<1>5. ASSUME CoverStaysOpen PROVE CoverStaysOpen'
  <2>1. place'["main"] = "open"
    <3>1. CASE m = "main" /\ Travel(m)
      <4>1. motion["main"] = "FORWARD"
        BY <1>5, <3>1 DEF Travel, CoverStaysOpen, ChannelTypeOK, Directions, Motions
      <4> QED BY <1>5, <3>1, <4>1 DEF Travel, CoverStaysOpen, EndStop
    <3>2. CASE ~(m = "main" /\ Travel(m))
      BY <1>1, <1>3, <1>5, <3>2 DEF MotorStep, Handle, AutoStop, StepsDone, Travel, CoverStaysOpen, ChannelTypeOK
    <3> QED BY <3>1, <3>2
  <2>2. motion'["main"] # "REVERSE" /\ "REVERSE" \notin Queued("main")'
    BY <1>2, <1>3, <1>5 DEF CoverStaysOpen
  <2> QED BY <2>1, <2>2 DEF CoverStaysOpen
<1> QED BY <1>4, <1>5

\* A message that is neither FORWARD for the scoop nor REVERSE for the main cover, and one
\* of these while the other may not move, changes nothing in that.
LEMMA PostInterlocked ==
  ASSUME ChannelTypeOK, NEW ms, NEW d \in Directions, queue' = Posted(ms, d),
         UNCHANGED <<motion, place>>, ScoopStaysIn \/ CoverStaysOpen,
         "scoop" \in ms /\ d = "FORWARD" => CoverStaysOpen,
         "main" \in ms /\ d = "REVERSE" => ScoopStaysIn
  PROVE  (ScoopStaysIn \/ CoverStaysOpen)'
<1>1. \A o \in Motors : Queued(o)' \subseteq Queued(o) \cup (IF o \in ms THEN {d} ELSE {})
  BY PostedOrders
<1>2. "scoop" \in Motors /\ "main" \in Motors
  BY DEF Motors
<1>3. ScoopStaysIn /\ ~("scoop" \in ms /\ d = "FORWARD") => ScoopStaysIn'
  BY <1>1, <1>2 DEF ScoopStaysIn
<1>4. CoverStaysOpen /\ ~("main" \in ms /\ d = "REVERSE") => CoverStaysOpen'
  BY <1>1, <1>2 DEF CoverStaysOpen
<1> QED BY <1>3, <1>4

\* The scenario sends the scoop out only when it knows the cover open, and closes the cover
\* only when it knows that the scoop is not going out.
LEMMA StepInterlocked ==
  ASSUME NEW facts, NEW ends, Annotated(facts, ends, Starts), Interlocked(facts), NEW u, Threads = {u},
         TypeOK, KnownHere(facts, ends), ScoopStaysIn \/ CoverStaysOpen, [Next]_vars
  PROVE  (ScoopStaysIn \/ CoverStaysOpen)'
<1>1. ChannelTypeOK /\ TaskTypeOK
  BY DEF TypeOK, TaskTypeOK
<1>2. ASSUME UNCHANGED <<queue, motion, place>> PROVE (ScoopStaysIn \/ CoverStaysOpen)'
  BY <1>2 DEF ScoopStaysIn, CoverStaysOpen, Queued
<1>3. ASSUME NEW ms, queue' = Posted(ms, "STOP"), UNCHANGED <<motion, place>>
      PROVE  (ScoopStaysIn \/ CoverStaysOpen)'
  <2>1. "STOP" \in Directions
    BY DEF Directions
  <2> QED BY <1>1, <1>3, <2>1, PostInterlocked
<1>4. CASE SendStep(u)
  <2>1. Running(u) /\ pc[u] \in DOMAIN Program
    BY <1>1, <1>4 DEF SendStep, At, Running, TaskTypeOK
  <2>2. PICK n \in DOMAIN Program : pc[u] = n
    BY <2>1
  <2>3. PICK i : i = Program[n]
    OBVIOUS
  <2>4. PICK k : k = facts[n]
    OBVIOUS
  <2>5. /\ i.op = "send" /\ queue' = Posted(i.ms, i.d) /\ UNCHANGED <<motion, place>>
        /\ i.d \in Directions
    <3>1. Code(u) = i
      BY <2>2, <2>3 DEF Code
    <3>2. i.d \in Directions
      BY <2>3, Targets
    <3> QED BY <1>4, <3>1, <3>2 DEF SendStep, At
  <2>6. Knows(k) /\ Reached(facts[n])
    BY <2>2, <2>4, KnownIsReached DEF KnownHere
  <2>7. /\ "scoop" \in i.ms /\ i.d = "FORWARD" =>
             k.motor["main"].at = {"open"} /\ "REVERSE" \notin k.motor["main"].moves
        /\ "main" \in i.ms /\ i.d = "REVERSE" => "FORWARD" \notin k.motor["scoop"].moves
    BY <2>3, <2>4, <2>5, <2>6 DEF Interlocked
  <2>8. Stable(k)
    BY <2>4 DEF Annotated
  <2>9. \A m \in Motors : /\ motion[m] \in k.motor[m].moves /\ Queued(m) \subseteq k.motor[m].moves
                          /\ place[m] \in k.motor[m].at
    BY <2>6, <2>8 DEF Knows, IsTrue, Stable
  <2>10. "scoop" \in Motors /\ "main" \in Motors
    BY DEF Motors
  <2>11. "scoop" \in i.ms /\ i.d = "FORWARD" => CoverStaysOpen
    BY <2>7, <2>9, <2>10 DEF CoverStaysOpen
  <2>12. "main" \in i.ms /\ i.d = "REVERSE" => ScoopStaysIn
    BY <2>7, <2>9, <2>10 DEF ScoopStaysIn
  <2> QED BY <1>1, <2>5, <2>11, <2>12, PostInterlocked
<1>5. ASSUME Statement(u), ~SendStep(u) PROVE (ScoopStaysIn \/ CoverStaysOpen)'
  <2>1. /\ motion' = motion /\ place' = place
        /\ queue' = queue \/ \E ms : queue' = Posted(ms, "STOP")
    BY <1>5 DEF Statement, DelayEnds, LookAtFlags, WaitEnds, DurationEnds, Check, SeekEnds, Branch,
         SetStep, LatchStep, ReturnStep, TofRead, TofStop, TofHold, TofRelease, TofClear, channel
  <2> QED BY <1>2, <1>3, <2>1
<1>6. ASSUME NEW l \in Starts, Start(u, l) PROVE (ScoopStaysIn \/ CoverStaysOpen)'
  BY <1>2, <1>6 DEF Start, channel
<1>7. ASSUME NEW h \in Hands, Order(h) \/ CarryOut(h) PROVE (ScoopStaysIn \/ CoverStaysOpen)'
  <2>1. /\ motion' = motion /\ place' = place
        /\ queue' = queue \/ \E ms : queue' = Posted(ms, "STOP")
    BY <1>7 DEF Order, CarryOut, SeeRunning, RaiseEstop, OtherCommand, Toggle, RequestRecovery, PostStops,
                StopSpinAgain, channel
  <2> QED BY <1>2, <1>3, <2>1
<1>8. ASSUME NEW m \in Motors, Machine(m) PROVE (ScoopStaysIn \/ CoverStaysOpen)'
  BY <1>1, <1>8, MachineInterlocked
<1>9. CASE UNCHANGED vars
  BY <1>2, <1>9 DEF vars, channel
<1> QED BY <1>4, <1>5, <1>6, <1>7, <1>8, <1>9 DEF Next

\* The scoop goes out only through the open main cover, although do_clean looks at the cover
\* once and relies on it for four more moves.
THEOREM ScoopNeedsOpenCoverCorrect ==
  ASSUME NEW facts, NEW ends, Annotated(facts, ends, Starts), Interlocked(facts), Prompt,
         NEW u, Threads = {u}
  PROVE  Spec /\ []RoomInQueues => []ScoopNeedsOpenCover
<1>1. Init => ScoopStaysIn \/ CoverStaysOpen
  BY DEF Init, ChannelInit, ScoopStaysIn, Queued, Motors
<1>2. TypeOK /\ KnownHere(facts, ends) /\ (ScoopStaysIn \/ CoverStaysOpen) /\ [Next]_vars
        => (ScoopStaysIn \/ CoverStaysOpen)'
  BY StepInterlocked
<1>3. ScoopStaysIn \/ CoverStaysOpen => ScoopNeedsOpenCover
  BY DEF ScoopStaysIn, CoverStaysOpen, ScoopNeedsOpenCover
<1> QED BY <1>1, <1>2, <1>3, KnownInvariant, TypeCorrect, PTL DEF Spec

-----------------------------------------------------------------------------
(* Room in the queues *)

\* The STOP messages for motor m that hand h is about to post.
ToPost(h, m) ==
  IF hand[h] = "pausing" \/ (hand[h] = "seen" /\ ~flag["pause"]) THEN 1
  ELSE IF hand[h] = "stopping" THEN (IF m = "spin" THEN 2 ELSE 1)
  ELSE IF hand[h] = "again" /\ m = "spin" THEN 1 ELSE 0

\* The one that a thread has posted that holds before an obstacle.
HeldUp(t) == IF At(t, "tof") /\ phase[t] \in {"hold", "held"} THEN 1 ELSE 0

\* What the scenario may have put into the queue, and what the orders may have.
Share(loads, left, t, m) == IF pc[t] = 0 THEN left[m] ELSE loads[pc[t]][m] + HeldUp(t)
Due(m) == PerOrder(m, Orders) * orders

\* Each message that waits, or is about to be posted, is the scenario's or an order's.
LoadsAreRight(loads, left, u, h) ==
  \A m \in Motors : Len(queue[m]) + ToPost(h, m) <= Share(loads, left, u, m) + Due(m)

\* What an order posts, so many times, is a number.
LEMMA OrdersAreFew ==
  ASSUME TypeOK, NEW m \in Motors
  PROVE  /\ Due(m) \in Nat /\ PerOrder(m, Orders) * MaxOrders \in Nat
         /\ Due(m) <= PerOrder(m, Orders) * MaxOrders
<1>1. orders \in Nat /\ MaxOrders \in Nat /\ orders <= MaxOrders  BY ProgramAssumption DEF TypeOK
<1>2. CASE PerOrder(m, Orders) = 1
  <2>1. Due(m) = orders /\ PerOrder(m, Orders) * MaxOrders = MaxOrders  BY <1>1, <1>2 DEF Due
  <2> QED  BY <1>1, <2>1
<1>3. CASE PerOrder(m, Orders) = 2
  <2>1. Due(m) = orders + orders /\ PerOrder(m, Orders) * MaxOrders = MaxOrders + MaxOrders  BY <1>1, <1>3 DEF Due
  <2> QED  BY <1>1, <2>1
<1> QED  BY <1>2, <1>3 DEF PerOrder

\* The counts are numbers.
LEMMA CountsAreNumbers ==
  ASSUME TypeOK, NEW t \in Threads, NEW h \in Hands, NEW m \in Motors
  PROVE  Len(queue[m]) \in Nat /\ ToPost(h, m) \in 0..2 /\ HeldUp(t) \in 0..1
<1>1. queue[m] \in Seq(Directions)  BY DEF TypeOK, ChannelTypeOK
<1>2. Len(queue[m]) \in Nat  BY <1>1
<1>3. ToPost(h, m) \in 0..2  BY DEF ToPost
<1>4. HeldUp(t) \in 0..1  BY DEF HeldUp
<1> QED  BY <1>2, <1>3, <1>4

\* A message makes a queue longer by one at most.
LEMMA PostedLength ==
  ASSUME TypeOK, NEW ms, NEW d \in Directions, NEW m \in Motors
  PROVE  Len(Posted(ms, d)[m]) <= Len(queue[m]) + (IF m \in ms THEN 1 ELSE 0)
<1>1. queue[m] \in Seq(Directions)  BY DEF TypeOK, ChannelTypeOK
<1>2. Len(Append(queue[m], d)) = Len(queue[m]) + 1 /\ Len(queue[m]) \in Nat  BY <1>1
<1>3. Posted(ms, d)[m] = IF m \in ms /\ Len(queue[m]) < QueueLength THEN Append(queue[m], d) ELSE queue[m]
  BY DEF Posted
<1>4. CASE m \in ms
  <2>1. Len(Posted(ms, d)[m]) = Len(queue[m]) + 1 \/ Len(Posted(ms, d)[m]) = Len(queue[m])  BY <1>2, <1>3
  <2> QED  BY <1>2, <1>4, <2>1
<1>5. CASE m \notin ms
  <2>1. Posted(ms, d)[m] = queue[m]  BY <1>3, <1>5
  <2> QED  BY <1>2, <1>5, <2>1
<1> QED  BY <1>4, <1>5

\* What a hand is about to post depends on how far it is, and on the pause.
LEMMA SameToPost ==
  ASSUME NEW h \in Hands, NEW m \in Motors, hand' = hand, flag'["pause"] = flag["pause"]
  PROVE  ToPost(h, m)' = ToPost(h, m)
BY DEF ToPost

\* Where the instructions lead is where Leads says.
LEMMA LeadsOn ==
  ASSUME NEW n \in DOMAIN Program
  PROVE  /\ Program[n].op \notin {"return", "goto", "jump"} => n + 1 \in Leads(n) /\ n + 1 \in DOMAIN Program
         /\ Program[n].op \in {"wait", "duration", "check", "estop", "tof", "seek", "goto", "iflatched"} =>
              Entry[Program[n].fail] \in Leads(n) /\ Entry[Program[n].fail] \in DOMAIN Program
         /\ Program[n].op \in {"ifat", "jump", "try"} =>
              n + Program[n].skip \in Leads(n) /\ n + Program[n].skip \in DOMAIN Program
<1>1. Program[n].op \in Ops  BY ProgramAssumption DEF WellFormed
<1> QED  BY <1>1, Targets DEF Leads

\* The thread goes on: what it and the hand have added is what the way may add.
LEMMA GoesOnWithRoom ==
  ASSUME TypeOK, NEW loads, NEW left, Loaded(loads, left, Starts), NEW u, Threads = {u}, NEW h, Hands = {h},
         LoadsAreRight(loads, left, u, h), NEW n \in DOMAIN Program, pc[u] = n, Program[n].op # "delay",
         NEW p \in DOMAIN Program, p \in Leads(n), GoTo(u, p), orders' = orders,
         \A m \in Motors : /\ Len(queue'[m]) + ToPost(h, m)' + HeldUp(u) <= Len(queue[m]) + ToPost(h, m) + Adds(n, p, m)
                           /\ Len(queue'[m]) \in Nat /\ ToPost(h, m)' \in Nat
  PROVE  LoadsAreRight(loads, left, u, h)'
<1> SUFFICES ASSUME NEW m \in Motors
             PROVE  Len(queue'[m]) + ToPost(h, m)' <= Share(loads, left, u, m)' + Due(m)'
  BY DEF LoadsAreRight
<1>1. pc'[u] = p /\ phase'[u] = "start"  BY DEF GoTo, TypeOK
<1>2. n # 0 /\ p # 0  BY ProgramAssumption
<1>3. HeldUp(u)' = 0  BY <1>1 DEF HeldUp
<1>4. loads[n][m] \in Nat /\ loads[p][m] \in Nat /\ Adds(n, p, m) \in Nat
  BY DEF Loaded, Adds
<1>5. loads[n][m] + Adds(n, p, m) <= loads[p][m]
  <2>1. Waiting(n, p, m, loads[n][m]) <= loads[p][m]  BY DEF Loaded
  <2> QED  BY <2>1 DEF Waiting
<1>6. Share(loads, left, u, m)' = loads[p][m]  BY <1>1, <1>2, <1>3, <1>4 DEF Share
<1>7. Share(loads, left, u, m) = loads[n][m] + HeldUp(u)  BY <1>2 DEF Share
<1>8. Due(m)' = Due(m)  BY DEF Due
<1>9. Len(queue[m]) + ToPost(h, m) <= loads[n][m] + HeldUp(u) + Due(m)  BY <1>7 DEF LoadsAreRight
<1>10. Len(queue[m]) \in Nat /\ ToPost(h, m) \in Nat /\ HeldUp(u) \in Nat /\ Due(m) \in Nat
  BY CountsAreNumbers, OrdersAreFew
<1>11. /\ Len(queue'[m]) + ToPost(h, m)' + HeldUp(u) <= Len(queue[m]) + ToPost(h, m) + Adds(n, p, m)
       /\ Len(queue'[m]) \in Nat /\ ToPost(h, m)' \in Nat
  OBVIOUS
<1>12. \A a, b, c, d, e, f, g, k, x \in Nat :
         a + b + c <= d + e + f /\ g + f <= k /\ d + e <= g + c + x => a + b <= k + x
  OBVIOUS
<1>13. Len(queue'[m]) + ToPost(h, m)' <= loads[p][m] + Due(m)
  BY <1>4, <1>5, <1>9, <1>10, <1>11, <1>12, Zenon
<1> QED  BY <1>6, <1>8, <1>13

\* The thread stays where it is.
LEMMA StaysWithRoom ==
  ASSUME TypeOK, NEW loads, NEW left, Loaded(loads, left, Starts), NEW u, Threads = {u}, NEW h, Hands = {h},
         LoadsAreRight(loads, left, u, h), pc' = pc, HeldUp(u)' \in 0..1,
         \A m \in Motors : /\ Len(queue'[m]) + ToPost(h, m)' + HeldUp(u) + Due(m)
                                <= Len(queue[m]) + ToPost(h, m) + HeldUp(u)' + Due(m)'
                           /\ Len(queue'[m]) \in Nat /\ ToPost(h, m)' \in Nat /\ Due(m)' \in Nat
  PROVE  LoadsAreRight(loads, left, u, h)'
<1> SUFFICES ASSUME NEW m \in Motors
             PROVE  Len(queue'[m]) + ToPost(h, m)' <= Share(loads, left, u, m)' + Due(m)'
  BY DEF LoadsAreRight
<1>1. Len(queue[m]) + ToPost(h, m) <= Share(loads, left, u, m) + Due(m)  BY DEF LoadsAreRight
<1>2. Len(queue[m]) \in Nat /\ ToPost(h, m) \in Nat /\ HeldUp(u) \in Nat /\ Due(m) \in Nat
  BY CountsAreNumbers, OrdersAreFew
<1>3. /\ Len(queue'[m]) + ToPost(h, m)' + HeldUp(u) + Due(m) <= Len(queue[m]) + ToPost(h, m) + HeldUp(u)' + Due(m)'
      /\ Len(queue'[m]) \in Nat /\ ToPost(h, m)' \in Nat /\ Due(m)' \in Nat
  OBVIOUS
<1>4. CASE pc[u] = 0
  <2>1. HeldUp(u) = 0 /\ HeldUp(u)' = 0  BY <1>4 DEF HeldUp, At, Running
  <2>2. Share(loads, left, u, m) = left[m] /\ Share(loads, left, u, m)' = left[m]  BY <1>4 DEF Share
  <2>3. left[m] \in Nat  BY DEF Loaded
  <2> QED  BY <1>1, <1>2, <1>3, <2>1, <2>2, <2>3, SMTT(30)
<1>5. CASE pc[u] # 0
  <2>1. pc[u] \in DOMAIN Program  BY <1>5 DEF TypeOK
  <2>2. loads[pc[u]][m] \in Nat  BY <2>1 DEF Loaded
  <2>3. Share(loads, left, u, m) = loads[pc[u]][m] + HeldUp(u)  BY <1>5 DEF Share
  <2>4. Share(loads, left, u, m)' = loads[pc[u]][m] + HeldUp(u)'  BY <1>5 DEF Share
  <2>5. HeldUp(u)' \in Nat  OBVIOUS
  <2>6. Len(queue[m]) + ToPost(h, m) <= (loads[pc[u]][m] + HeldUp(u)) + Due(m)  BY <1>1, <2>3
  <2>7. PICK a, b, c, d, e, f, g, x, y \in Nat :
          /\ a = Len(queue'[m]) /\ b = ToPost(h, m)' /\ c = HeldUp(u) /\ d = Len(queue[m]) /\ e = ToPost(h, m)
          /\ f = HeldUp(u)' /\ g = loads[pc[u]][m] /\ x = Due(m) /\ y = Due(m)'
    BY <1>2, <1>3, <2>2, <2>5, Zenon
  <2>8. Len(queue'[m]) + ToPost(h, m)' <= (loads[pc[u]][m] + HeldUp(u)') + Due(m)'
    <3>1. a + b + c + x <= d + e + f + y  BY <1>3, <2>7, Zenon
    <3>2. d + e <= (g + c) + x  BY <2>6, <2>7, Zenon
    <3>3. a + b <= (g + f) + y  BY <3>1, <3>2
    <3> QED  BY <2>7, <3>3, Zenon
  <2> QED  BY <2>4, <2>8
<1> QED  BY <1>4, <1>5

\* They still are after a step.
LEMMA CountsStayNumbers ==
  ASSUME TypeOK', NEW t \in Threads, NEW h \in Hands, NEW m \in Motors
  PROVE  Len(queue'[m]) \in Nat /\ ToPost(h, m)' \in 0..2 /\ HeldUp(t)' \in 0..1 /\ Due(m)' \in Nat
<1>1. queue'[m] \in Seq(Directions) /\ orders' \in Nat  BY ProgramAssumption DEF TypeOK, ChannelTypeOK
<1>2. Len(queue'[m]) \in Nat  BY <1>1
<1>3. ToPost(h, m)' \in 0..2  BY DEF ToPost
<1>4. HeldUp(t)' \in 0..1  BY DEF HeldUp
<1>5. Due(m)' \in Nat
  <2>1. PICK k \in Nat : k = orders'  BY <1>1
  <2>2. PICK j \in 1..2 : j = PerOrder(m, Orders)  BY DEF PerOrder
  <2>3. Due(m)' = j * k  BY <2>1, <2>2 DEF Due
  <2>4. j * k \in Nat
    <3>1. CASE j = 1  BY <3>1
    <3>2. CASE j = 2  BY <3>2
    <3> QED  BY <3>1, <3>2
  <2> QED  BY <2>3, <2>4
<1> QED  BY <1>2, <1>3, <1>4, <1>5

\* Nothing is posted, and the thread goes on: a press that had to end the pause still has to.
LEMMA GoesOnQuietly ==
  ASSUME TypeOK, TypeOK', NEW loads, NEW left, Loaded(loads, left, Starts), NEW u, Threads = {u}, NEW h,
         Hands = {h}, LoadsAreRight(loads, left, u, h), NEW n \in DOMAIN Program, pc[u] = n,
         Program[n].op # "delay", NEW p \in DOMAIN Program, p \in Leads(n), GoTo(u, p),
         queue' = queue, flag'["pause"] = flag["pause"], hand' = hand, orders' = orders
  PROVE  LoadsAreRight(loads, left, u, h)'
<1> SUFFICES ASSUME NEW m \in Motors
             PROVE  /\ Len(queue'[m]) + ToPost(h, m)' + HeldUp(u) <= Len(queue[m]) + ToPost(h, m) + Adds(n, p, m)
                    /\ Len(queue'[m]) \in Nat /\ ToPost(h, m)' \in Nat
  BY GoesOnWithRoom
<1>1. /\ Len(queue[m]) \in Nat /\ ToPost(h, m) \in Nat /\ HeldUp(u) \in 0..1
  BY CountsAreNumbers
<1>2. ToPost(h, m)' = ToPost(h, m) /\ Len(queue'[m]) = Len(queue[m])  BY SameToPost
<1>3. HeldUp(u) <= Adds(n, p, m)
  <2>1. CASE Program[n].op = "tof"  BY <1>1, <2>1 DEF Adds
  <2>2. CASE Program[n].op # "tof"
    <3>1. HeldUp(u) = 0  BY <2>2 DEF HeldUp, At, Code
    <3> QED  BY <3>1 DEF Adds
  <2> QED  BY <2>1, <2>2
<1>4. Adds(n, p, m) \in Nat  BY DEF Adds
<1> QED  BY <1>1, <1>2, <1>3, <1>4

\* Nothing is posted, and the thread stays.
LEMMA StaysQuietly ==
  ASSUME TypeOK, TypeOK', NEW loads, NEW left, Loaded(loads, left, Starts), NEW u, Threads = {u}, NEW h,
         Hands = {h}, LoadsAreRight(loads, left, u, h), pc' = pc, HeldUp(u)' = HeldUp(u),
         queue' = queue, flag'["pause"] = flag["pause"], hand' = hand, orders' = orders
  PROVE  LoadsAreRight(loads, left, u, h)'
<1>1. HeldUp(u) \in 0..1 /\ HeldUp(u)' \in 0..1  BY CountsAreNumbers, CountsStayNumbers DEF Motors
<1> SUFFICES ASSUME NEW m \in Motors
             PROVE  /\ Len(queue'[m]) + ToPost(h, m)' + HeldUp(u) + Due(m)
                         <= Len(queue[m]) + ToPost(h, m) + HeldUp(u)' + Due(m)'
                    /\ Len(queue'[m]) \in Nat /\ ToPost(h, m)' \in Nat /\ Due(m)' \in Nat
  BY <1>1, StaysWithRoom
<1>2. Len(queue'[m]) \in Nat /\ ToPost(h, m)' \in Nat /\ Due(m)' \in Nat  BY CountsStayNumbers
<1>3. ToPost(h, m)' = ToPost(h, m) /\ Len(queue'[m]) = Len(queue[m])  BY SameToPost
<1>4. Due(m)' = Due(m)  BY DEF Due
<1> QED  BY <1>1, <1>2, <1>3, <1>4

\* A new value of the pause is one message more at most, and none more when the pause is on.
LEMMA PauseChanges ==
  ASSUME NEW h \in Hands, NEW m \in Motors, hand' = hand
  PROVE  /\ ToPost(h, m) \in Nat /\ ToPost(h, m)' \in Nat
         /\ ToPost(h, m)' <= ToPost(h, m) + 1
         /\ flag'["pause"] => ToPost(h, m)' <= ToPost(h, m)
BY DEF ToPost

\* Every statement of a scenario accounts for what it posts.
LEMMA StatementRoom ==
  ASSUME TypeOK, TypeOK', Prompt, NEW loads, NEW left, Loaded(loads, left, Starts), NEW u, Threads = {u}, NEW h,
         Hands = {h}, LoadsAreRight(loads, left, u, h), Statement(u)
  PROVE  LoadsAreRight(loads, left, u, h)'
<1>1. PICK n : n = pc[u]
  OBVIOUS
<1>2. n \in DOMAIN Program /\ n # 0 /\ Running(u) /\ Code(u) = Program[n]
  <2>1. Running(u)
    BY DEF Statement, SendStep, DelayEnds, LookAtFlags, WaitEnds, DurationEnds, Check, SeekEnds, Branch, SetStep,
           LatchStep, ReturnStep, TofRead, TofStop, TofHold, TofRelease, TofClear, At
  <2>2. n \in DOMAIN Program /\ n # 0  BY <1>1, <2>1 DEF Running, TypeOK
  <2> QED  BY <1>1, <2>1, <2>2 DEF Code
<1>3. ASSUME Program[n].op \notin {"return", "goto", "jump"}
      PROVE  n + 1 \in Leads(n) /\ n + 1 \in DOMAIN Program
  BY <1>2, <1>3, LeadsOn
<1>4. ASSUME Program[n].op \in {"wait", "duration", "check", "estop", "tof", "seek", "goto", "iflatched", "try"}
      PROVE  \E p \in DOMAIN Program : p \in Leads(n) /\ (Fail(u) => GoTo(u, p))
  <2>1. CASE Program[n].op = "try"
    <3>1. n + Program[n].skip \in Leads(n) /\ n + Program[n].skip \in DOMAIN Program  BY <1>2, <2>1, LeadsOn
    <3>2. Fail(u) => GoTo(u, n + Program[n].skip)  BY <1>1, <1>2, <2>1 DEF Fail
    <3> QED  BY <3>1, <3>2
  <2>2. CASE Program[n].op # "try"
    <3>1. Entry[Program[n].fail] \in Leads(n) /\ Entry[Program[n].fail] \in DOMAIN Program
      BY <1>2, <1>4, <2>2, LeadsOn
    <3>2. Fail(u) => GoTo(u, Entry[Program[n].fail])  BY <1>2, <2>2 DEF Fail
    <3> QED  BY <3>1, <3>2
  <2> QED  BY <2>1, <2>2
<1>5. ASSUME queue' = queue, flag' = flag, hand' = hand, orders' = orders, Program[n].op # "delay",
             Program[n].op \notin {"return", "goto", "jump"}, Ahead(u)
      PROVE  LoadsAreRight(loads, left, u, h)'
  <2>1. GoTo(u, n + 1)  BY <1>1, <1>5 DEF Ahead
  <2>2. n + 1 \in Leads(n) /\ n + 1 \in DOMAIN Program  BY <1>3, <1>5
  <2> QED  BY <1>1, <1>2, <1>5, <2>1, <2>2, GoesOnQuietly
<1>6. ASSUME queue' = queue, flag' = flag, hand' = hand, orders' = orders, Fail(u),
             Program[n].op \in {"wait", "duration", "check", "estop", "tof", "seek", "goto", "iflatched", "try"}
      PROVE  LoadsAreRight(loads, left, u, h)'
  <2>1. PICK p \in DOMAIN Program : p \in Leads(n) /\ GoTo(u, p)  BY <1>4, <1>6
  <2> QED  BY <1>1, <1>2, <1>6, <2>1, GoesOnQuietly
<1>7. ASSUME pc' = pc, phase' = [phase EXCEPT ![u] = phase'[u]], hand' = hand
      PROVE  HeldUp(u)' = IF Program[n].op = "tof" /\ phase'[u] \in {"hold", "held"} THEN 1 ELSE 0
  BY <1>1, <1>2, <1>7 DEF HeldUp, At, Running, Code
<1>8. HeldUp(u) = IF Program[n].op = "tof" /\ phase[u] \in {"hold", "held"} THEN 1 ELSE 0
  BY <1>1, <1>2 DEF HeldUp, At, Running, Code
<1>9. CASE SendStep(u)
  <2>1. Program[n].op = "send" /\ GoTo(u, n + 1) /\ hand' = hand /\ flag' = flag /\ orders' = orders
        /\ queue' = Posted(Program[n].ms, Program[n].d)
    BY <1>1, <1>2, <1>9 DEF SendStep, At, Ahead
  <2>2. n + 1 \in Leads(n) /\ n + 1 \in DOMAIN Program  BY <1>3, <2>1
  <2>3. ASSUME NEW m \in Motors
        PROVE  /\ Len(queue'[m]) + ToPost(h, m)' + HeldUp(u) <= Len(queue[m]) + ToPost(h, m) + Adds(n, n + 1, m)
               /\ Len(queue'[m]) \in Nat /\ ToPost(h, m)' \in Nat
    <3>1. Len(queue'[m]) \in Nat /\ ToPost(h, m)' \in Nat  BY CountsStayNumbers
    <3>2. Len(queue[m]) \in Nat /\ ToPost(h, m) \in Nat  BY CountsAreNumbers
    <3>3. ToPost(h, m)' = ToPost(h, m)  BY <2>1, SameToPost
    <3>4. HeldUp(u) = 0  BY <1>8, <2>1
    <3>5. Program[n].d \in Directions  BY <1>2, Targets
    <3>6. Len(queue'[m]) <= Len(queue[m]) + (IF m \in Program[n].ms THEN 1 ELSE 0)
      BY <2>1, <3>5, PostedLength
    <3>7. Adds(n, n + 1, m) = (IF m \in Program[n].ms THEN 1 ELSE 0) /\ Adds(n, n + 1, m) \in Nat
      BY <2>1 DEF Adds
    <3>8. Len(queue'[m]) <= Len(queue[m]) + Adds(n, n + 1, m)  BY <3>6, <3>7
    <3> QED  BY <3>1, <3>2, <3>3, <3>4, <3>7, <3>8
  <2> QED  BY <1>1, <1>2, <2>1, <2>2, <2>3, GoesOnWithRoom
<1>10. CASE DelayEnds(u)
  <2>1. Program[n].op = "delay" /\ GoTo(u, n + 1) /\ hand' = hand /\ flag' = flag /\ orders' = orders
        /\ queue' = queue /\ Settled
    BY <1>1, <1>2, <1>10 DEF DelayEnds, At, Ahead, channel
  <2>2. n + 1 \in Leads(n) /\ n + 1 \in DOMAIN Program /\ n + 1 # 0  BY <1>3, <2>1, ProgramAssumption
  <2>3. pc'[u] = n + 1  BY <2>1 DEF GoTo, TypeOK
  <2>4. HeldUp(u)' = 0  BY <2>1 DEF GoTo, TypeOK, HeldUp
  <2> SUFFICES ASSUME NEW m \in Motors
               PROVE  Len(queue'[m]) + ToPost(h, m)' <= Share(loads, left, u, m)' + Due(m)'
    BY DEF LoadsAreRight
  <2>5. queue'[m] = << >>  BY <2>1 DEF Settled, Drained
  <2>6. Len(queue'[m]) = 0  BY <2>5
  <2>7. hand[h] = "idle"  BY <2>1 DEF Settled
  <2>8. ToPost(h, m)' = 0  BY <2>1, <2>7 DEF ToPost
  <2>9. loads[n + 1][m] \in Nat  BY <2>2 DEF Loaded
  <2>10. Share(loads, left, u, m)' = loads[n + 1][m]  BY <2>2, <2>3, <2>4, <2>9 DEF Share
  <2>11. Due(m)' \in Nat  BY CountsStayNumbers
  <2> QED  BY <2>6, <2>8, <2>9, <2>10, <2>11
<1>11. CASE LookAtFlags(u)
  <2>1. Program[n].op \in {"wait", "try", "duration"} /\ queue' = queue /\ flag' = flag /\ hand' = hand
        /\ orders' = orders /\ (Fail(u) \/ Stay(u, "judge"))
    BY <1>2, <1>11 DEF LookAtFlags, channel
  <2>2. CASE Fail(u)  BY <1>6, <2>1, <2>2
  <2>3. CASE Stay(u, "judge")
    <3>1. pc' = pc /\ HeldUp(u)' = HeldUp(u)  BY <1>7, <1>8, <2>1, <2>3 DEF Stay, TypeOK
    <3> QED  BY <2>1, <3>1, StaysQuietly
  <2> QED  BY <2>1, <2>2, <2>3
<1>12. CASE WaitEnds(u)
  <2>1. Program[n].op \in {"wait", "try"} /\ queue' = queue /\ flag' = flag /\ hand' = hand
        /\ orders' = orders /\ (Ahead(u) \/ Fail(u))
    BY <1>2, <1>12 DEF WaitEnds, channel
  <2> QED  BY <1>5, <1>6, <2>1
<1>13. CASE DurationEnds(u)
  <2>1. Program[n].op = "duration" /\ queue' = queue /\ flag' = flag /\ hand' = hand
        /\ orders' = orders /\ Ahead(u)
    BY <1>2, <1>13 DEF DurationEnds, At, channel
  <2> QED  BY <1>5, <2>1
<1>14. CASE Check(u)
  <2>1. Program[n].op \in {"check", "estop"} /\ queue' = queue /\ flag' = flag /\ hand' = hand
        /\ orders' = orders /\ (Ahead(u) \/ Fail(u))
    BY <1>2, <1>14 DEF Check, channel
  <2> QED  BY <1>5, <1>6, <2>1
<1>15. CASE SeekEnds(u)
  <2>1. Program[n].op = "seek" /\ flag' = flag /\ hand' = hand /\ orders' = orders
        /\ \/ queue' = queue /\ Ahead(u)
           \/ queue' = Posted({"spin"}, "STOP") /\ Fail(u)
    BY <1>2, <1>15 DEF SeekEnds, At
  <2>2. CASE queue' = queue /\ Ahead(u)  BY <1>5, <2>1, <2>2
  <2>3. CASE queue' = Posted({"spin"}, "STOP") /\ Fail(u)
    <3>1. GoTo(u, Entry[Program[n].fail])  BY <1>2, <2>1, <2>3 DEF Fail
    <3>2. Entry[Program[n].fail] \in Leads(n) /\ Entry[Program[n].fail] \in DOMAIN Program  BY <1>2, <2>1, LeadsOn
    <3>3. ASSUME NEW m \in Motors
          PROVE  /\ Len(queue'[m]) + ToPost(h, m)' + HeldUp(u)
                      <= Len(queue[m]) + ToPost(h, m) + Adds(n, Entry[Program[n].fail], m)
                 /\ Len(queue'[m]) \in Nat /\ ToPost(h, m)' \in Nat
      <4>1. Len(queue'[m]) \in Nat /\ ToPost(h, m)' \in Nat  BY CountsStayNumbers
      <4>2. Len(queue[m]) \in Nat /\ ToPost(h, m) \in Nat  BY CountsAreNumbers
      <4>3. ToPost(h, m)' = ToPost(h, m)  BY <2>1, SameToPost
      <4>4. HeldUp(u) = 0  BY <1>8, <2>1
      <4>5. "STOP" \in Directions  BY DEF Directions
      <4>6. Len(queue'[m]) <= Len(queue[m]) + (IF m \in {"spin"} THEN 1 ELSE 0)
        BY <2>3, <4>5, PostedLength
      <4>7. PICK k \in Nat : k = Adds(n, Entry[Program[n].fail], m) /\ k = IF m \in {"spin"} THEN 1 ELSE 0
        BY <2>1 DEF Adds
      <4>8. Len(queue'[m]) <= Len(queue[m]) + k  BY <4>6, <4>7
      <4>9. Len(queue'[m]) + ToPost(h, m)' + HeldUp(u) <= Len(queue[m]) + ToPost(h, m) + k
        BY <4>1, <4>2, <4>3, <4>4, <4>8
      <4> QED  BY <4>1, <4>7, <4>9, Zenon
    <3> QED  BY <1>1, <1>2, <2>1, <3>1, <3>2, <3>3, GoesOnWithRoom
  <2> QED  BY <2>1, <2>2, <2>3
<1>16. CASE Branch(u)
  <2>1. queue' = queue /\ flag' = flag /\ hand' = hand /\ orders' = orders
    BY <1>16 DEF Branch, channel
  <2>2. \/ Program[n].op \in {"ifat", "iflatched", "label"} /\ Ahead(u)
        \/ Program[n].op \in {"ifat", "jump"} /\ GoTo(u, n + Program[n].skip)
        \/ Program[n].op \in {"goto", "iflatched"} /\ Fail(u)
    BY <1>1, <1>2, <1>16 DEF Branch
  <2>3. CASE Program[n].op \in {"ifat", "iflatched", "label"} /\ Ahead(u)  BY <1>5, <2>1, <2>3
  <2>4. CASE Program[n].op \in {"ifat", "jump"} /\ GoTo(u, n + Program[n].skip)
    <3>1. n + Program[n].skip \in Leads(n) /\ n + Program[n].skip \in DOMAIN Program  BY <1>2, <2>4, LeadsOn
    <3> QED  BY <1>1, <1>2, <2>1, <2>4, <3>1, GoesOnQuietly
  <2>5. CASE Program[n].op \in {"goto", "iflatched"} /\ Fail(u)  BY <1>6, <2>1, <2>5
  <2> QED  BY <2>2, <2>3, <2>4, <2>5
<1>17. CASE SetStep(u)
  <2>1. Program[n].op = "set" /\ queue' = queue /\ GoTo(u, n + 1) /\ hand' = hand /\ orders' = orders
        /\ flag' = [f \in Flags |-> IF f \in DOMAIN Program[n].set THEN Program[n].set[f] ELSE flag[f]]
    BY <1>1, <1>2, <1>17 DEF SetStep, At, Ahead, SetFlags, channel
  <2>2. n + 1 \in Leads(n) /\ n + 1 \in DOMAIN Program  BY <1>3, <2>1
  <2>3. ASSUME NEW m \in Motors
        PROVE  /\ Len(queue'[m]) + ToPost(h, m)' + HeldUp(u) <= Len(queue[m]) + ToPost(h, m) + Adds(n, n + 1, m)
               /\ Len(queue'[m]) \in Nat /\ ToPost(h, m)' \in Nat
    <3>1. Len(queue'[m]) \in Nat /\ ToPost(h, m)' \in Nat /\ Len(queue'[m]) = Len(queue[m])
      BY <2>1, CountsStayNumbers
    <3>2. Len(queue[m]) \in Nat /\ ToPost(h, m) \in Nat  BY CountsAreNumbers
    <3>3. HeldUp(u) = 0  BY <1>8, <2>1
    <3>4. ToPost(h, m)' <= ToPost(h, m) + Adds(n, n + 1, m) /\ Adds(n, n + 1, m) \in Nat
      <4>1. CASE "pause" \in DOMAIN Program[n].set /\ ~Program[n].set["pause"]
        <5>1. Adds(n, n + 1, m) = 1  BY <2>1, <4>1 DEF Adds
        <5> QED  BY <2>1, <5>1, PauseChanges
      <4>2. CASE "pause" \in DOMAIN Program[n].set /\ Program[n].set["pause"]
        <5>1. flag'["pause"] = Program[n].set["pause"]  BY <2>1, <4>2 DEF Flags
        <5>2. flag'["pause"]  BY <4>2, <5>1
        <5>3. ToPost(h, m)' <= ToPost(h, m)  BY <2>1, <5>2, PauseChanges
        <5>4. Adds(n, n + 1, m) \in Nat  BY DEF Adds
        <5> QED  BY <3>1, <3>2, <5>3, <5>4
      <4>3. CASE "pause" \notin DOMAIN Program[n].set
        <5>1. flag'["pause"] = flag["pause"]  BY <2>1, <4>3 DEF Flags
        <5>2. ToPost(h, m)' = ToPost(h, m)  BY <2>1, <5>1, SameToPost
        <5>3. Adds(n, n + 1, m) \in Nat  BY DEF Adds
        <5> QED  BY <3>1, <3>2, <5>2, <5>3
      <4> QED  BY <4>1, <4>2, <4>3
    <3> QED  BY <3>1, <3>2, <3>3, <3>4
  <2> QED  BY <1>1, <1>2, <2>1, <2>2, <2>3, GoesOnWithRoom
<1>18. CASE LatchStep(u)
  <2>1. Program[n].op = "latch" /\ queue' = queue /\ flag' = flag /\ hand' = hand /\ orders' = orders /\ Ahead(u)
    BY <1>2, <1>18 DEF LatchStep, At, channel
  <2> QED  BY <1>5, <2>1
<1>19. CASE ReturnStep(u)
  <2>1. Program[n].op = "return" /\ queue' = queue /\ flag' = flag /\ hand' = hand /\ orders' = orders /\ GoTo(u, 0)
    BY <1>2, <1>19 DEF ReturnStep, At, channel
  <2>2. pc'[u] = 0  BY <2>1 DEF GoTo, TypeOK
  <2> SUFFICES ASSUME NEW m \in Motors
               PROVE  Len(queue'[m]) + ToPost(h, m)' <= Share(loads, left, u, m)' + Due(m)'
    BY DEF LoadsAreRight
  <2>3. Share(loads, left, u, m)' = left[m]  BY <2>2 DEF Share
  <2>4. loads[n][m] <= left[m] /\ loads[n][m] \in Nat /\ left[m] \in Nat  BY <1>2, <2>1 DEF Loaded
  <2>5. HeldUp(u) = 0  BY <1>8, <2>1
  <2>6. Share(loads, left, u, m) = loads[n][m]  BY <1>1, <1>2, <2>4, <2>5 DEF Share
  <2>7. ToPost(h, m)' = ToPost(h, m) /\ Len(queue'[m]) = Len(queue[m]) /\ Due(m)' = Due(m)
    BY <2>1, SameToPost DEF Due
  <2>8. Len(queue[m]) \in Nat /\ ToPost(h, m) \in Nat /\ Due(m) \in Nat  BY CountsAreNumbers, OrdersAreFew
  <2>9. Len(queue[m]) + ToPost(h, m) <= loads[n][m] + Due(m)  BY <2>6 DEF LoadsAreRight
  <2> QED  BY <2>3, <2>4, <2>7, <2>8, <2>9
<1>20. CASE TofRead(u)
  <2>1. PICK r \in TofReadings : Stay(u, r)  BY <1>20 DEF TofRead
  <2>2. Program[n].op = "tof" /\ phase[u] = "start" /\ queue' = queue /\ hand' = hand /\ orders' = orders
        /\ flag' = [flag EXCEPT !["tof"] = TRUE]
    BY <1>2, <1>20 DEF TofRead, At, SetFlags, channel
  <2>3. flag'["pause"] = flag["pause"]  BY <2>2 DEF TypeOK, Flags
  <2>4. r \in Readings  BY ProgramAssumption
  <2>5. pc' = pc /\ HeldUp(u)' = HeldUp(u)  BY <1>7, <1>8, <2>1, <2>2, <2>4 DEF Stay, TypeOK, Readings
  <2> QED  BY <2>2, <2>3, <2>5, StaysQuietly
<1>21. CASE TofStop(u)
  <2>1. Program[n].op = "tof" /\ phase[u] = "near" /\ hand' = hand /\ orders' = orders /\ flag' = flag
        /\ queue' = Posted(Motors, "STOP") /\ Stay(u, "hold")
    BY <1>2, <1>21 DEF TofStop, At
  <2>2. pc' = pc /\ HeldUp(u) = 0 /\ HeldUp(u)' = 1  BY <1>7, <1>8, <2>1 DEF Stay, TypeOK
  <2>3. ASSUME NEW m \in Motors
        PROVE  /\ Len(queue'[m]) + ToPost(h, m)' + HeldUp(u) + Due(m)
                    <= Len(queue[m]) + ToPost(h, m) + HeldUp(u)' + Due(m)'
               /\ Len(queue'[m]) \in Nat /\ ToPost(h, m)' \in Nat /\ Due(m)' \in Nat
    <3>1. Len(queue'[m]) \in Nat /\ ToPost(h, m)' \in Nat /\ Due(m)' \in Nat  BY CountsStayNumbers
    <3>2. Len(queue[m]) \in Nat /\ ToPost(h, m) \in Nat  BY CountsAreNumbers
    <3>3. ToPost(h, m)' = ToPost(h, m) /\ Due(m)' = Due(m)  BY <2>1, SameToPost DEF Due
    <3>4. "STOP" \in Directions  BY DEF Directions
    <3>5. Len(queue'[m]) <= Len(queue[m]) + 1  BY <2>1, <3>4, PostedLength
    <3> QED  BY <2>2, <3>1, <3>2, <3>3, <3>5
  <2>4. HeldUp(u)' \in 0..1  BY <2>2
  <2> QED  BY <2>2, <2>3, <2>4, StaysWithRoom
<1>22. CASE TofHold(u)
  <2>1. Program[n].op = "tof" /\ phase[u] = "hold" /\ hand' = hand /\ orders' = orders /\ queue' = queue
        /\ flag' = [flag EXCEPT !["pause"] = TRUE] /\ Stay(u, "held")
    BY <1>2, <1>22 DEF TofHold, At, SetFlags, channel
  <2>2. pc' = pc /\ HeldUp(u) = 1 /\ HeldUp(u)' = 1  BY <1>7, <1>8, <2>1 DEF Stay, TypeOK
  <2>3. flag'["pause"]  BY <2>1 DEF TypeOK, Flags
  <2>4. ASSUME NEW m \in Motors
        PROVE  /\ Len(queue'[m]) + ToPost(h, m)' + HeldUp(u) + Due(m)
                    <= Len(queue[m]) + ToPost(h, m) + HeldUp(u)' + Due(m)'
               /\ Len(queue'[m]) \in Nat /\ ToPost(h, m)' \in Nat /\ Due(m)' \in Nat
    <3>1. Len(queue'[m]) \in Nat /\ ToPost(h, m)' \in Nat /\ Due(m)' \in Nat  BY CountsStayNumbers
    <3>2. Len(queue[m]) \in Nat /\ ToPost(h, m) \in Nat  BY CountsAreNumbers
    <3>3. ToPost(h, m)' <= ToPost(h, m)  BY <2>1, <2>3, PauseChanges
    <3>4. Due(m)' = Due(m) /\ queue'[m] = queue[m]  BY <2>1 DEF Due
    <3> QED  BY <2>2, <3>1, <3>2, <3>3, <3>4
  <2>5. HeldUp(u)' \in 0..1  BY <2>2
  <2> QED  BY <2>2, <2>4, <2>5, StaysWithRoom
<1>23. CASE TofRelease(u)
  <2>1. Program[n].op = "tof" /\ queue' = queue /\ flag' = flag /\ hand' = hand /\ orders' = orders
        /\ (Ahead(u) \/ Fail(u))
    BY <1>2, <1>23 DEF TofRelease, At, channel
  <2> QED  BY <1>5, <1>6, <2>1
<1>24. CASE TofClear(u)
  <2>1. Program[n].op = "tof" /\ queue' = queue /\ flag' = flag /\ hand' = hand /\ orders' = orders /\ Ahead(u)
    BY <1>2, <1>24 DEF TofClear, At, channel
  <2> QED  BY <1>5, <2>1
<1> QED
  BY <1>9, <1>10, <1>11, <1>12, <1>13, <1>14, <1>15, <1>16, <1>17, <1>18, <1>19, <1>20, <1>21, <1>22, <1>23, <1>24
     DEF Statement

\* A scenario that starts finds what the ones before it have left.
LEMMA StartRoom ==
  ASSUME TypeOK, TypeOK', NEW loads, NEW left, Loaded(loads, left, Starts), NEW u, Threads = {u}, NEW h,
         Hands = {h}, LoadsAreRight(loads, left, u, h), NEW l \in Starts, Start(u, l)
  PROVE  LoadsAreRight(loads, left, u, h)'
<1> SUFFICES ASSUME NEW m \in Motors
             PROVE  Len(queue'[m]) + ToPost(h, m)' <= Share(loads, left, u, m)' + Due(m)'
  BY DEF LoadsAreRight
<1>1. pc[u] = 0 /\ GoTo(u, Entry[l]) /\ queue' = queue /\ flag' = flag /\ hand' = hand /\ orders' = orders
  BY DEF Start, Running, channel
<1>2. Entry[l] \in DOMAIN Program /\ Entry[l] # 0  BY ProgramAssumption
<1>3. pc'[u] = Entry[l] /\ phase'[u] = "start"  BY <1>1 DEF GoTo, TypeOK
<1>4. left[m] <= loads[Entry[l]][m] /\ left[m] \in Nat /\ loads[Entry[l]][m] \in Nat  BY <1>2 DEF Loaded
<1>5. HeldUp(u)' = 0  BY <1>3 DEF HeldUp
<1>6. Share(loads, left, u, m)' = loads[Entry[l]][m]  BY <1>2, <1>3, <1>4, <1>5 DEF Share
<1>7. Share(loads, left, u, m) = left[m]  BY <1>1 DEF Share
<1>8. Len(queue[m]) + ToPost(h, m) <= left[m] + Due(m)  BY <1>7 DEF LoadsAreRight
<1>9. ToPost(h, m)' = ToPost(h, m) /\ Len(queue'[m]) = Len(queue[m]) /\ Due(m)' = Due(m)
  BY <1>1, SameToPost DEF Due
<1>10. Len(queue[m]) \in Nat /\ ToPost(h, m) \in Nat /\ Due(m) \in Nat  BY CountsAreNumbers, OrdersAreFew
<1> QED  BY <1>4, <1>6, <1>8, <1>9, <1>10

\* An order more is so many messages more.
LEMMA DueGrows ==
  ASSUME TypeOK, NEW m \in Motors, orders' = orders + 1
  PROVE  Due(m) \in Nat /\ PerOrder(m, Orders) \in 1..2 /\ Due(m)' = Due(m) + PerOrder(m, Orders)
<1>1. orders \in Nat  BY ProgramAssumption DEF TypeOK
<1>2. CASE PerOrder(m, Orders) = 1
  BY <1>1, <1>2 DEF Due
<1>3. CASE PerOrder(m, Orders) = 2
  BY <1>1, <1>3 DEF Due
<1> QED  BY <1>2, <1>3 DEF PerOrder

\* The scenario stays as it is.
LEMMA OthersWithRoom ==
  ASSUME TypeOK, TypeOK', NEW loads, NEW left, Loaded(loads, left, Starts), NEW u, Threads = {u}, NEW h,
         Hands = {h}, LoadsAreRight(loads, left, u, h), pc' = pc, phase' = phase,
         \A m \in Motors : Len(queue'[m]) + ToPost(h, m)' + Due(m) <= Len(queue[m]) + ToPost(h, m) + Due(m)'
  PROVE  LoadsAreRight(loads, left, u, h)'
<1>1. HeldUp(u)' = HeldUp(u)  BY DEF HeldUp, At, Running, Code
<1>2. HeldUp(u) \in 0..1 /\ HeldUp(u)' \in 0..1  BY CountsAreNumbers, CountsStayNumbers DEF Motors
<1>3. ASSUME NEW m \in Motors
      PROVE  /\ Len(queue'[m]) + ToPost(h, m)' + HeldUp(u) + Due(m)
                  <= Len(queue[m]) + ToPost(h, m) + HeldUp(u)' + Due(m)'
             /\ Len(queue'[m]) \in Nat /\ ToPost(h, m)' \in Nat /\ Due(m)' \in Nat
  <2>1. Len(queue'[m]) \in Nat /\ ToPost(h, m)' \in Nat /\ Due(m)' \in Nat  BY CountsStayNumbers
  <2>2. Len(queue[m]) \in Nat /\ ToPost(h, m) \in Nat /\ Due(m) \in Nat  BY CountsAreNumbers, OrdersAreFew
  <2> QED  BY <1>1, <1>2, <2>1, <2>2
<1> QED  BY <1>2, <1>3, StaysWithRoom

\* The hand accounts for what it posts from the moment it takes an order.
LEMMA HandRoom ==
  ASSUME TypeOK, TypeOK', NEW loads, NEW left, Loaded(loads, left, Starts), NEW u, Threads = {u}, NEW h,
         Hands = {h}, LoadsAreRight(loads, left, u, h), Order(h) \/ CarryOut(h)
  PROVE  LoadsAreRight(loads, left, u, h)'
<1>1. pc' = pc /\ phase' = phase
  BY DEF Order, CarryOut, SeeRunning, Toggle, RequestRecovery, RaiseEstop, PostStops, StopSpinAgain, OtherCommand, task
<1> SUFFICES ASSUME NEW m \in Motors
             PROVE  Len(queue'[m]) + ToPost(h, m)' + Due(m) <= Len(queue[m]) + ToPost(h, m) + Due(m)'
  BY <1>1, OthersWithRoom
<1>2. Len(queue'[m]) \in Nat /\ ToPost(h, m)' \in Nat /\ Due(m)' \in Nat  BY CountsStayNumbers
<1>3. Len(queue[m]) \in Nat /\ ToPost(h, m) \in Nat /\ Due(m) \in Nat  BY CountsAreNumbers, OrdersAreFew
<1>4. "STOP" \in Directions  BY DEF Directions
<1>5. flag["pause"] \in BOOLEAN  BY DEF TypeOK, Flags
<1>6. CASE SeeRunning(h)
  <2>1. hand[h] = "idle" /\ hand'[h] = "seen" /\ flag' = flag /\ queue' = queue
    BY <1>6 DEF SeeRunning, Grip, channel, task, TypeOK
  <2>2. ToPost(h, m) = 0  BY <2>1 DEF ToPost
  <2>3. CASE flag["pause"]
    <3>1. orders' = orders  BY <1>6, <2>3 DEF SeeRunning
    <3>2. ToPost(h, m)' = 0  BY <2>1, <2>3 DEF ToPost
    <3>3. Due(m)' = Due(m)  BY <3>1 DEF Due
    <3> QED  BY <1>2, <1>3, <2>1, <2>2, <3>2, <3>3
  <2>4. CASE ~flag["pause"]
    <3>1. orders' = orders + 1  BY <1>6, <2>4 DEF SeeRunning
    <3>2. ToPost(h, m)' = 1  BY <2>1, <2>4 DEF ToPost
    <3>3. PerOrder(m, Orders) \in 1..2 /\ Due(m)' = Due(m) + PerOrder(m, Orders)  BY <3>1, DueGrows
    <3>4. Due(m) + 1 <= Due(m)'  BY <1>3, <3>3
    <3> QED  BY <1>2, <1>3, <2>1, <2>2, <3>2, <3>4
  <2> QED  BY <2>3, <2>4
<1>7. CASE Toggle(h)
  <2>1. /\ hand[h] = "seen" /\ queue' = queue /\ orders' = orders
        /\ hand'[h] = IF flag["pause"] THEN "resuming" ELSE "pausing"
    BY <1>7 DEF Toggle, Grip, channel, TypeOK
  <2>2. ToPost(h, m)' = ToPost(h, m)
    <3>1. CASE flag["pause"]  BY <2>1, <3>1 DEF ToPost
    <3>2. CASE ~flag["pause"]  BY <2>1, <3>2 DEF ToPost
    <3> QED  BY <3>1, <3>2
  <2>3. Due(m)' = Due(m)  BY <2>1 DEF Due
  <2> QED  BY <1>2, <1>3, <2>1, <2>2, <2>3
<1>8. CASE RequestRecovery(h)
  <2>1. /\ hand[h] = "resuming" /\ queue' = queue /\ orders' = orders /\ hand'[h] = "idle"
    BY <1>8 DEF RequestRecovery, Grip, channel, TypeOK
  <2>2. ToPost(h, m)' = 0 /\ ToPost(h, m) = 0  BY <2>1 DEF ToPost
  <2>3. Due(m)' = Due(m)  BY <2>1 DEF Due
  <2> QED  BY <1>2, <1>3, <2>1, <2>2, <2>3
<1>9. CASE RaiseEstop(h)
  <2>1. /\ hand[h] = "idle" /\ queue' = queue /\ orders' = orders + 1 /\ hand'[h] = "stopping" /\ "estop" \in Orders
    BY <1>9 DEF RaiseEstop, Grip, channel, TypeOK
  <2>2. ToPost(h, m)' = PerOrder(m, Orders) /\ ToPost(h, m) = 0  BY <2>1 DEF ToPost, PerOrder
  <2>3. PerOrder(m, Orders) \in 1..2 /\ Due(m)' = Due(m) + PerOrder(m, Orders)  BY <2>1, DueGrows
  <2> QED  BY <1>2, <1>3, <2>1, <2>2, <2>3
<1>10. CASE PostStops(h)
  <2>1. /\ hand[h] \in {"pausing", "stopping"} /\ queue' = Posted(Motors, "STOP") /\ orders' = orders
        /\ hand'[h] = IF hand[h] = "stopping" THEN "again" ELSE "idle"
    BY <1>10 DEF PostStops, Grip, TypeOK
  <2>2. Len(queue'[m]) <= Len(queue[m]) + 1  BY <1>4, <2>1, PostedLength
  <2>3. ToPost(h, m)' + 1 = ToPost(h, m)  BY <2>1 DEF ToPost
  <2>4. Due(m)' = Due(m)  BY <2>1 DEF Due
  <2> QED  BY <1>2, <1>3, <2>2, <2>3, <2>4
<1>11. CASE StopSpinAgain(h)
  <2>1. /\ hand[h] = "again" /\ queue' = Posted({"spin"}, "STOP") /\ orders' = orders /\ hand'[h] = "idle"
    BY <1>11 DEF StopSpinAgain, Grip, TypeOK
  <2>2. Len(queue'[m]) <= Len(queue[m]) + (IF m \in {"spin"} THEN 1 ELSE 0)  BY <1>4, <2>1, PostedLength
  <2>3. ToPost(h, m)' = 0 /\ ToPost(h, m) = IF m = "spin" THEN 1 ELSE 0  BY <2>1 DEF ToPost
  <2>4. Due(m)' = Due(m)  BY <2>1 DEF Due
  <2>5. CASE m = "spin"  BY <1>2, <1>3, <2>2, <2>3, <2>4, <2>5
  <2>6. CASE m # "spin"  BY <1>2, <1>3, <2>2, <2>3, <2>4, <2>6
  <2> QED  BY <2>5, <2>6
<1>12. CASE OtherCommand(h)
  <2>1. hand' = hand /\ queue' = queue /\ orders' = orders /\ hand[h] = "idle"
    BY <1>12 DEF OtherCommand, channel
  <2>2. ToPost(h, m)' = 0 /\ ToPost(h, m) = 0  BY <2>1 DEF ToPost
  <2>3. Due(m)' = Due(m)  BY <2>1 DEF Due
  <2> QED  BY <1>2, <1>3, <2>1, <2>2, <2>3
<1> QED  BY <1>6, <1>7, <1>8, <1>9, <1>10, <1>11, <1>12 DEF Order, CarryOut

\* The command tasks only take messages.
LEMMA MachineRoom ==
  ASSUME TypeOK, TypeOK', NEW loads, NEW left, Loaded(loads, left, Starts), NEW u, Threads = {u}, NEW h,
         Hands = {h}, LoadsAreRight(loads, left, u, h), NEW k \in Motors, Machine(k)
  PROVE  LoadsAreRight(loads, left, u, h)'
<1>1. pc' = pc /\ phase' = phase /\ flag' = flag /\ hand' = hand /\ orders' = orders
  BY DEF Machine, task
<1> SUFFICES ASSUME NEW m \in Motors
             PROVE  Len(queue'[m]) + ToPost(h, m)' + Due(m) <= Len(queue[m]) + ToPost(h, m) + Due(m)'
  BY <1>1, OthersWithRoom
<1>2. Len(queue'[m]) \in Nat /\ Len(queue[m]) \in Nat /\ ToPost(h, m) \in Nat /\ Due(m) \in Nat
  BY CountsAreNumbers, CountsStayNumbers, OrdersAreFew
<1>3. ToPost(h, m)' = ToPost(h, m) /\ Due(m)' = Due(m)  BY <1>1, SameToPost DEF Due
<1>4. Len(queue'[m]) <= Len(queue[m])
  <2>1. queue[k] \in Seq(Directions) /\ queue \in [Motors -> Seq(Directions)]  BY DEF TypeOK, ChannelTypeOK
  <2>2. CASE Handle(k, flag["alwaysOn"])
    <3>1. queue[k] # << >> /\ queue' = [queue EXCEPT ![k] = Tail(@)]  BY <2>2 DEF Handle
    <3>2. Len(Tail(queue[k])) = Len(queue[k]) - 1 /\ Len(queue[k]) \in Nat  BY <2>1, <3>1
    <3>3. queue'[m] = IF m = k THEN Tail(queue[k]) ELSE queue[m]  BY <2>1, <3>1
    <3> QED  BY <1>2, <3>2, <3>3
  <2>3. CASE ~Handle(k, flag["alwaysOn"])
    <3>1. queue' = queue
      BY <2>3 DEF Machine, MotorStep, AutoStop, StepsDone, Travel
    <3> QED  BY <1>2, <3>1
  <2> QED  BY <2>2, <2>3
<1> QED  BY <1>2, <1>3, <1>4

\* At first nothing waits.
LEMMA RoomInit ==
  ASSUME TypeOK, Init, NEW loads, NEW left, Loaded(loads, left, Starts), NEW u, Threads = {u}, NEW h, Hands = {h}
  PROVE  LoadsAreRight(loads, left, u, h)
<1> SUFFICES ASSUME NEW m \in Motors
             PROVE  Len(queue[m]) + ToPost(h, m) <= Share(loads, left, u, m) + Due(m)
  BY DEF LoadsAreRight
<1>1. queue[m] = << >> /\ pc[u] = 0 /\ hand[h] = "idle"  BY DEF Init, ChannelInit
<1>2. Len(queue[m]) = 0  BY <1>1
<1>3. ToPost(h, m) = 0  BY <1>1 DEF ToPost
<1>4. Share(loads, left, u, m) = left[m] /\ left[m] \in Nat  BY <1>1 DEF Share, Loaded
<1>5. Due(m) \in Nat  BY OrdersAreFew
<1> QED  BY <1>2, <1>3, <1>4, <1>5

\* Every step accounts for what it posts.
LEMMA RoomStep ==
  ASSUME TypeOK, TypeOK', Prompt, NEW loads, NEW left, Loaded(loads, left, Starts), NEW u, Threads = {u}, NEW h,
         Hands = {h}, LoadsAreRight(loads, left, u, h), [Next]_vars
  PROVE  LoadsAreRight(loads, left, u, h)'
<1>1. CASE Statement(u)  BY <1>1, StatementRoom
<1>2. CASE \E l \in Starts : Start(u, l)  BY <1>2, StartRoom
<1>3. CASE Order(h) \/ CarryOut(h)  BY <1>3, HandRoom
<1>4. CASE \E k \in Motors : Machine(k)  BY <1>4, MachineRoom
<1>5. CASE UNCHANGED vars
  BY <1>5 DEF vars, channel, task, LoadsAreRight, ToPost, Share, Due, HeldUp, At, Running, Code
<1> QED  BY <1>1, <1>2, <1>3, <1>4, <1>5 DEF Next

\* What the scenario and the orders may have put into a queue does not fill it.
LEMMA LoadsLeaveRoom ==
  ASSUME TypeOK, NEW loads, NEW left, Loaded(loads, left, Starts), HaveRoom(loads, left, Orders, MaxOrders),
         NEW u, Threads = {u}, NEW h, Hands = {h}, LoadsAreRight(loads, left, u, h)
  PROVE  RoomInQueues
<1> SUFFICES ASSUME NEW m \in Motors
             PROVE  Len(queue[m]) < QueueLength
  BY DEF RoomInQueues
<1>1. Len(queue[m]) \in Nat /\ ToPost(h, m) \in Nat /\ HeldUp(u) \in 0..1  BY CountsAreNumbers
<1>2. PICK most \in Nat : most = PerOrder(m, Orders) * MaxOrders /\ Due(m) \in Nat /\ Due(m) <= most
  BY OrdersAreFew
<1>3. Len(queue[m]) + ToPost(h, m) <= Share(loads, left, u, m) + Due(m)  BY DEF LoadsAreRight
<1>4. QueueLength \in Nat  BY ChannelAssumption
<1>5. CASE pc[u] = 0
  <2>1. Share(loads, left, u, m) = left[m] /\ left[m] \in Nat  BY <1>5 DEF Share, Loaded
  <2>2. left[m] + most < QueueLength  BY <1>2 DEF HaveRoom
  <2> QED  BY <1>1, <1>2, <1>3, <1>4, <2>1, <2>2
<1>6. CASE pc[u] # 0
  <2>1. PICK n \in DOMAIN Program : n = pc[u]  BY <1>6 DEF TypeOK
  <2>2. loads[n][m] \in Nat /\ Share(loads, left, u, m) = loads[n][m] + HeldUp(u)
    BY <1>6, <2>1 DEF Share, Loaded
  <2>3. loads[n][m] + HeldUp(u) + most < QueueLength
    <3>1. CASE HeldUp(u) = 0
      <4>1. loads[n][m] + most < QueueLength  BY <1>2 DEF HaveRoom
      <4> QED  BY <1>2, <2>2, <3>1, <4>1
    <3>2. CASE HeldUp(u) = 1
      <4>1. Program[n].op = "tof"  BY <2>1, <3>2 DEF HeldUp, At, Running, Code
      <4>2. PICK p \in DOMAIN Program : p \in Leads(n)  BY <4>1, LeadsOn
      <4>3. Adds(n, p, m) = 1  BY <4>1 DEF Adds
      <4>4. loads[n][m] + 1 <= loads[p][m] /\ loads[p][m] \in Nat
        <5>1. Waiting(n, p, m, loads[n][m]) <= loads[p][m] /\ loads[p][m] \in Nat  BY <4>2 DEF Loaded
        <5> QED  BY <4>1, <4>3, <5>1 DEF Waiting
      <4>5. loads[p][m] + most < QueueLength  BY <1>2 DEF HaveRoom
      <4> QED  BY <1>2, <1>4, <2>2, <3>2, <4>4, <4>5
    <3> QED  BY <1>1, <3>1, <3>2
  <2> QED  BY <1>1, <1>2, <1>3, <1>4, <2>2, <2>3
<1> QED  BY <1>5, <1>6

\* The messages of a scenario and of so many orders never fill a queue, so that send_*_msg
\* drops none: the delays of the scenarios let the command tasks catch up in time.
THEOREM RoomCorrect ==
  ASSUME NEW loads, NEW left, Loaded(loads, left, Starts), HaveRoom(loads, left, Orders, MaxOrders), Prompt,
         NEW u, Threads = {u}, NEW h, Hands = {h}
  PROVE  Spec => []RoomInQueues
<1>1. TypeOK /\ Init => LoadsAreRight(loads, left, u, h)
  BY RoomInit
<1>2. TypeOK /\ TypeOK' /\ LoadsAreRight(loads, left, u, h) /\ [Next]_vars => LoadsAreRight(loads, left, u, h)'
  BY RoomStep
<1>3. TypeOK /\ LoadsAreRight(loads, left, u, h) => RoomInQueues
  BY LoadsLeaveRoom
<1> QED BY <1>1, <1>2, <1>3, TypeCorrect, PTL DEF Spec

\* With so many orders the scenarios keep all four promises, without a word about the queues:
\* motors at rest, the scoop behind an open cover, the waste cover closed, the driver off.
THEOREM SafeWithFewOrders ==
  ASSUME NEW facts, NEW ends, Annotated(facts, ends, Starts), EndsStopped(ends), EndsClosed(ends),
         EndsReleased(ends), Interlocked(facts),
         NEW loads, NEW left, Loaded(loads, left, Starts), HaveRoom(loads, left, Orders, MaxOrders), Prompt,
         NEW u, Threads = {u}, NEW h, Hands = {h}
  PROVE  Spec => [](Quiescent /\ ScoopNeedsOpenCover /\ WasteClosedAfterClean /\ DriverReleased)
<1>1. Spec => []RoomInQueues
  BY RoomCorrect
<1>2. Spec /\ []RoomInQueues => []Quiescent
  BY QuiescentCorrect
<1>3. Spec /\ []RoomInQueues => []ScoopNeedsOpenCover
  BY ScoopNeedsOpenCoverCorrect
<1>4. Spec /\ []RoomInQueues => []WasteClosedAfterClean
  BY WasteClosedCorrect
<1>5. Spec /\ []RoomInQueues => []DriverReleased
  BY DriverReleasedCorrect
<1> QED BY <1>1, <1>2, <1>3, <1>4, <1>5, PTL
=============================================================================

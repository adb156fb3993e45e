----------------------------- MODULE MCScenario -----------------------------
(* The scenarios of main/motor.c as module Scenario runs them. *)
EXTENDS MotionBudget, MotorScript

\* Where the parts may be: anywhere; as a recovery leaves them, the main cover
\* anywhere; as a cleaning leaves them that is broken off under the open main cover,
\* and of these the ones with the waste cover closed.
Anywhere  == {p \in [Motors -> Positions] : \A m \in Motors : p[m] \in Places(m)}
Ready     == {p \in Anywhere : p["waste"] = "close" /\ p["scoop"] = "close"}
Opened    == {p \in Anywhere : p["main"] = "open"}
BrokenOff == {p \in Opened : p["waste"] = "close"}

\* What the cfg substitutes is a LET: TLC then takes its value, and does not expand the
\* text of the script again wherever its coverage statistics meet Program.
MCProgram == LET program == MotorProgram IN program
MCEntry   == LET entry == MotorEntry IN entry

\* The least Cost, from the last instruction of code to the first: after holds the
\* costs of the instructions that follow i.  The one jump back, to the head of
\* scp_spin_find_st_origin, meets a look at the flag there.
CostBefore(i, after, code, entry) ==
  LET n     == Len(code) - Len(after)
      at(k) == IF k > n THEN after[k - n] ELSE after[entry[code[k].fail] - n]
      larger(a, b) == IF a > b THEN a ELSE b
      cost == CASE i.op = "send" -> at(n + 1) + (IF i.d \in Motions THEN 1 ELSE 0)
                [] i.op \in {"delay", "latch", "label"} -> at(n + 1)
                [] i.op = "set" -> IF "estop" \in DOMAIN i.set /\ ~i.set["estop"]
                                   THEN 0 ELSE at(n + 1)
                [] i.op \in {"wait", "duration", "check", "estop", "seek", "goto"} ->
                     at(entry[i.fail])
                [] i.op \in {"tof", "iflatched"} -> larger(at(n + 1), at(entry[i.fail]))
                [] i.op = "ifat" -> larger(at(n + 1), at(n + i.skip))
                [] i.op \in {"try", "jump"} -> at(n + i.skip)
                [] OTHER -> 0
  IN <<cost>> \o after

\* A fold from the right, in halves; the test has TLC evaluate the right half first.
ScriptCost ==
  LET code  == MotorProgram
      entry == MotorEntry
      costs[first \in Nat, last \in Nat, after \in Seq(Nat)] ==
        IF first = last THEN CostBefore(code[first], after, code, entry)
        ELSE LET half  == (first + last) \div 2
                 right == costs[half + 1, last, after]
             IN IF right = <<>> THEN <<>> ELSE costs[first, half, right]
  IN costs[1, Len(code), <<>>]

MCCost == LET cost == ScriptCost IN cost
=============================================================================

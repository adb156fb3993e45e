----------------------------- MODULE MCInterlock -----------------------------
(***************************************************************************)
(* What is known at each statement of main/motor.c, computed from its      *)
(* start to its end until nothing new comes in, and that it is enough: for *)
(* the cleaning, the recovery and the calibration, from wherever the parts *)
(* are.  (The management scenarios stop no motor when they fail.)          *)
(***************************************************************************)
EXTENDS MCScenario, Interlock

Unreached == [motor |-> [m \in Motors |-> [last |-> {"STOP"}, queued |-> {"STOP"}, moves |-> {"STOP"}, at |-> {}]],
              driver |-> "released"]

\* Where the part can be in the end when the motor does what it may do
Further(m, f) == f.at \cup {Beyond(m, p, d) : p \in f.at, d \in f.moves \cap Motions}

FactJoin(m, f, g) ==
  LET both == [last |-> f.last \cup g.last, queued |-> f.queued \cup g.queued,
               moves |-> f.moves \cup g.moves \cup f.queued \cup g.queued, at |-> f.at \cup g.at]
      once == [both EXCEPT !.at = Further(m, both)]
  IN [once EXCEPT !.at = Further(m, once)]

Joined(k, l) ==
  IF ~Reached(k) THEN l ELSE
  [motor  |-> [m \in Motors |-> FactJoin(m, k.motor[m], l.motor[m])],
   driver |-> IF GradeIn(k.driver, l.driver) THEN l.driver
              ELSE IF GradeIn(l.driver, k.driver) THEN k.driver ELSE "any"]

\* What instruction n tells the ones that it leads to
RECURSIVE Tell(_, _)
Tell(ways, facts) ==
  IF ways = {} THEN facts
  ELSE LET w == CHOOSE w \in ways : TRUE
       IN Tell(ways \ {w}, [facts EXCEPT ![w[1]] = Joined(w[2], @)])

\* From first to last, in halves; the test has TLC evaluate the left half first.
RECURSIVE Sweep(_, _, _)
Sweep(first, last, facts) ==
  IF first = last
  THEN IF Reached(facts[first]) THEN Tell(Ways(first, facts[first]), facts) ELSE facts
  ELSE LET half == (first + last) \div 2
           left == Sweep(first, half, facts)
       IN IF DOMAIN left = {} THEN left ELSE Sweep(half + 1, last, left)

\* What a scenario that ends with r leaves
Ends(facts) ==
  LET returns(r) == {n \in DOMAIN Program : Program[n].op = "return" /\ Program[n].arg = r}
      join[ns \in SUBSET DOMAIN Program] ==
        IF ns = {} THEN Unreached
        ELSE LET n == CHOOSE n \in ns : TRUE IN Joined(facts[n], join[ns \ {n}])
      standing == [motor  |-> [m \in Motors |-> [last |-> {"STOP"}, queued |-> {"STOP"}, moves |-> {"STOP"},
                                                 at |-> {p[m] : p \in Rests}]],
                   driver |-> "released"]
  IN [r \in Results |-> IF r = "none" THEN standing ELSE join[returns(r)]]

RECURSIVE Begun(_, _, _)
Begun(ways, ends, facts) ==
  IF ways = {} THEN facts
  ELSE LET w == CHOOSE w \in ways : TRUE
       IN Begun(ways \ {w}, ends, [facts EXCEPT ![Entry[w[2]]] = Joined(ends[w[1]], @)])

RECURSIVE Settle(_, _)
Settle(facts, starts) ==
  LET begun == Begun(Results \X starts, Ends(facts), facts)
      swept == Sweep(1, Len(Program), begun)
  IN IF swept = facts THEN facts ELSE Settle(swept, starts)

\* do_clean, check_boot_origin_recovery with the recovery, and motor_calib_task
Guarded == {"clean", "boot", "recovery", "calibration"}

\* What may wait in the queues, from nothing until nothing more comes in
Most(S) == CHOOSE k \in S : \A j \in S : j <= k

RECURSIVE Pile(_, _, _, _)
Pile(loads, left, before, starts) ==
  LET coming(p, m) ==
        {0} \cup {Waiting(n, p, m, loads[n][m]) : n \in before[p]}
            \cup {left[m] : l \in {l \in starts : Entry[l] = p}}
      piled == [p \in DOMAIN Program |-> [m \in Motors |-> Most(coming(p, m))]]
      over  == [m \in Motors |->
                  Most({0} \cup {loads[n][m] : n \in {n \in DOMAIN Program : Program[n].op = "return"}})]
  IN IF piled = loads /\ over = left THEN [at |-> loads, left |-> left]
     ELSE Pile(piled, over, before, starts)

Piled(starts) ==
  LET leads  == [n \in DOMAIN Program |-> Leads(n)]
      before == [p \in DOMAIN Program |-> {n \in DOMAIN Program : p \in leads[n]}]
      none   == [m \in Motors |-> 0]
  IN Pile([n \in DOMAIN Program |-> none], none, before, starts)

\* The annotation is right and keeps every promise that the theorems of ScenarioProofs ask for.
ASSUME ScriptKeepsItsPromises ==
  LET facts == Settle([n \in DOMAIN Program |-> Unreached], Guarded)
      ends  == Ends(facts)
  IN /\ Annotated(facts, ends, Guarded)
     /\ EndsStopped(ends) /\ Interlocked(facts) /\ EndsClosed(ends) /\ EndsReleased(ends)

\* motor_calib_task is left out: broken off before its first delay, and begun again and again,
\* it would post without end.
Unhurried == {"clean", "boot", "recovery", "manageStart", "manageFinish"}

\* No queue is filled by three presses of the key, or by one order of any kind: where no more
\* are given the theorems of ScenarioProofs hold without a word about the queues.
ASSUME QueuesHaveRoom ==
  LET piled == Piled(Unhurried)
  IN /\ Loaded(piled.at, piled.left, Unhurried)
     /\ HaveRoom(piled.at, piled.left, {"toggle"}, 3)
     /\ HaveRoom(piled.at, piled.left, {"toggle", "estop", "other"}, 1)
=============================================================================

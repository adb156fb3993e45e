------------------------------ MODULE Interlock ------------------------------
(***************************************************************************)
(* What the scenarios of main/motor.c rely on at each of their statements: *)
(* what has been ordered of each motor, where its part can be, and whether *)
(* the spindle's driver is released once it stands.                        *)
(*                                                                         *)
(* facts[n] is what is known at instruction n, ends[r] after a scenario    *)
(* that ended with r.  Annotated says that they are right for the program, *)
(* one instruction at a time, whatever the key scanner, the console and    *)
(* the motors do meanwhile; the promises say what they must be for the     *)
(* motors to be safe.                                                      *)
(***************************************************************************)
EXTENDS Scenario

\* What may be known of a motor
Fact ==
  [last   : SUBSET Directions, \* the last order that it has, or what it does if it has none
   queued : SUBSET Directions, \* the messages in its queue
   moves  : SUBSET Directions, \* what it does and may yet do
   at     : SUBSET Positions]  \* where its part can be

\* What may be known of spin_mt_always_on and the driver: nothing; the flag is down; the
\* flag is down and the driver goes off with the motor.
Grades == {"any", "down", "released"}

Known == [motor : [Motors -> Fact], driver : Grades]

-----------------------------------------------------------------------------
(* What the facts say of a state *)

LastOrder(m) == IF queue[m] = <<>> THEN motion[m] ELSE queue[m][Len(queue[m])]

Queued(m) == {queue[m][i] : i \in 1..Len(queue[m])}

IsTrue(m, f) ==
  /\ motion[m] \in f.moves /\ place[m] \in f.at
  /\ Queued(m) \subseteq f.queued
  /\ LastOrder(m) \in f.last

\* A driver that is on while the spindle stands has a move to come.
Released == energised /\ motion["spin"] = "STOP" => Queued("spin") \cap Motions # {}

DriverIs(grade) ==
  /\ grade # "any" => ~flag["alwaysOn"]
  /\ grade = "released" => Released

Knows(k) == (\A m \in Motors : IsTrue(m, k.motor[m])) /\ DriverIs(k.driver)

\* What is known of the motors where each thread is, or after the scenario that it ended
KnownHere(facts, ends) ==
  \A t \in Threads :
    /\ \A n \in DOMAIN Program : pc[t] = n => result[t] = "none" /\ Knows(facts[n])
    /\ \A r \in Results : pc[t] = 0 /\ result[t] = r => Knows(ends[r])

\* xQueueSend has room for the next message: none has been dropped.
RoomInQueues == \A m \in Motors : Len(queue[m]) < QueueLength

-----------------------------------------------------------------------------
(* What can be known after a statement; i is the instruction, k what was known before *)

Changed(k, ms, f) == [k EXCEPT !.motor = [m \in Motors |-> IF m \in ms THEN f[m] ELSE @[m]]]

\* The message is the last one.
Sent(i, k) ==
  [Changed(k, i.ms, [m \in Motors |->
             [k.motor[m] EXCEPT !.last = {i.d, "STOP"}, !.queued = @ \cup {i.d}, !.moves = @ \cup {i.d}]])
     EXCEPT !.driver = IF "spin" \in i.ms /\ i.d \in Motions /\ @ # "any" THEN "released" ELSE @]

\* The command tasks have caught up: a motor does what it was told last, or stands.
CaughtUp(k) ==
  Changed(k, Motors, [m \in Motors |->
            [k.motor[m] EXCEPT !.queued = {"STOP"}, !.moves = k.motor[m].last]])

\* The sensor has been seen, or has not been.
SeenAt(i, k, places) ==
  Changed(k, i.ms, [m \in Motors |-> [k.motor[m] EXCEPT !.at = @ \cap places]])

\* The motor was found standing.
FoundStopped(i, k) ==
  Changed(k, i.ms, [m \in Motors |->
            [k.motor[m] EXCEPT !.last = @ \cap k.motor[m].queued, !.moves = k.motor[m].queued]])

Assigned(i, k) ==
  IF "alwaysOn" \notin DOMAIN i.set THEN k
  ELSE [k EXCEPT !.driver = IF i.set["alwaysOn"] THEN "any" ELSE IF @ = "any" THEN "down" ELSE @]

\* No state is known to be here while a part can be nowhere.
Reached(k) == \A m \in Motors : k.motor[m].at # {}

\* Where instruction n leads, and what is known there if k is before it
Ways(n, k) ==
  LET i     == Program[n]
      to(p, after) == {<<p, after>>}
      ahead(ops, after) == IF i.op \in ops THEN to(n + 1, after) ELSE {}
      fails(ops) == IF i.op \in ops THEN to(Entry[i.fail], k) ELSE {}
      skips(ops, after) == IF i.op \in ops THEN to(n + i.skip, after) ELSE {}
  IN ahead({"send"}, Sent(i, k))
       \cup ahead({"delay"}, CaughtUp(k))
       \cup ahead({"wait", "try", "ifat"}, SeenAt(i, k, {i.arg}))
       \cup ahead({"wait", "try"}, FoundStopped(i, k))
       \cup ahead({"set"}, Assigned(i, k))
       \cup ahead({"duration", "check", "estop", "seek", "tof", "latch", "iflatched", "label"}, k)
       \cup fails({"wait", "duration", "check", "estop", "seek", "tof", "goto", "iflatched"})
       \cup skips({"try", "jump"}, k)
       \cup skips({"ifat"}, SeenAt(i, k, Positions \ {i.arg}))

-----------------------------------------------------------------------------
(* When the annotation is right *)

FactIn(f, g) ==
  f.last \subseteq g.last /\ f.queued \subseteq g.queued /\ f.moves \subseteq g.moves /\ f.at \subseteq g.at

GradeIn(g, h) == h \in {"any", g} \/ (g = "released" /\ h = "down")

\* Whoever knows k knows l, if k is true of any state at all.
Covers(k, l) ==
  Reached(k) => (\A m \in Motors : FactIn(k.motor[m], l.motor[m])) /\ GradeIn(k.driver, l.driver)

\* Where a part at p comes to when its motor does d
Beyond(m, p, d) ==
  IF m \in Sliders THEN (IF p = EndStop(d) THEN p ELSE IF p = "mid" THEN EndStop(d) ELSE "mid")
  ELSE IF m = "spin" THEN (IF p = "on" THEN "off" ELSE "on") ELSE p

\* The motors run on and stop, and whoever has a hand on the box may stop them, at any time.
Stable(k) ==
  \A m \in Motors :
    LET f == k.motor[m] IN
    /\ "STOP" \in f.last /\ "STOP" \in f.queued /\ f.queued \subseteq f.moves
    /\ \A p \in f.at, d \in f.moves \cap Motions : Beyond(m, p, d) \in f.at

Annotated(facts, ends, starts) ==
  /\ facts \in [DOMAIN Program -> Known] /\ ends \in [Results -> Known]
  /\ \A n \in DOMAIN Program : Stable(facts[n])
  /\ \A r \in Results : Stable(ends[r])
  /\ \A p \in Rests, m \in Motors : p[m] \in ends["none"].motor[m].at
  /\ \A r \in Results, l \in starts : Covers(ends[r], facts[Entry[l]])
  /\ \A n \in DOMAIN Program : Reached(facts[n]) => \A w \in Ways(n, facts[n]) : Covers(w[2], facts[w[1]])
  /\ \A n \in DOMAIN Program : Program[n].op = "return" => Covers(facts[n], ends[Program[n].arg])

-----------------------------------------------------------------------------
(* Room in the queues *)

\* Where instruction n leads
Leads(n) ==
  LET i == Program[n]
      to(ops, p) == IF i.op \in ops THEN {p} ELSE {}
  IN to(Ops \ {"return", "goto", "jump"}, n + 1)
       \cup (IF i.op \in {"wait", "duration", "check", "estop", "tof", "seek", "goto", "iflatched"}
             THEN {Entry[i.fail]} ELSE {})
       \cup to({"ifat", "jump", "try"}, n + i.skip)

\* How many messages for motor m may wait more when instruction n leads on to p: the ones it
\* posts, and the STOP of a press that was to end the pause and finds it ended by n.
Adds(n, p, m) ==
  LET i == Program[n] IN
  IF \/ i.op = "send" /\ m \in i.ms
     \/ i.op = "seek" /\ m = "spin" /\ p = Entry[i.fail]
     \/ i.op = "tof"
     \/ i.op = "set" /\ "pause" \in DOMAIN i.set /\ ~i.set["pause"]
  THEN 1 ELSE 0

\* A delay is over when the queues are empty.
Waiting(n, p, m, load) == IF Program[n].op = "delay" THEN 0 ELSE load + Adds(n, p, m)

\* loads[n] bounds the messages that wait at instruction n, and left those that wait after a
\* scenario, but for the STOP messages of the orders.
Loaded(loads, left, starts) ==
  /\ loads \in [DOMAIN Program -> [Motors -> Nat]] /\ left \in [Motors -> Nat]
  /\ \A n \in DOMAIN Program, m \in Motors :
       /\ \A p \in Leads(n) : Waiting(n, p, m, loads[n][m]) <= loads[p][m]
       /\ Program[n].op = "return" => loads[n][m] <= left[m]
  /\ \A l \in starts, m \in Motors : left[m] <= loads[Entry[l]][m]

\* What an order posts, when told are the orders that are given: Z stops the spindle twice.
PerOrder(m, told) == IF m = "spin" /\ "estop" \in told THEN 2 ELSE 1

\* So many orders fill no queue.
HaveRoom(loads, left, told, many) ==
  \A m \in Motors :
    /\ left[m] + PerOrder(m, told) * many < QueueLength
    /\ \A n \in DOMAIN Program : loads[n][m] + PerOrder(m, told) * many < QueueLength

-----------------------------------------------------------------------------
(* The promises *)

\* However a scenario ends, the last thing that a motor was told is to stop.
EndsStopped(ends) ==
  \A r \in Results : Reached(ends[r]) => \A m \in Motors : ends[r].motor[m].last = {"STOP"}

\* The scoop is sent out only while the main cover is open and not to be closed, and the
\* cover is closed only while the scoop is not on its way out.
Interlocked(facts) ==
  \A n \in DOMAIN Program : Program[n].op = "send" /\ Reached(facts[n]) =>
    /\ "scoop" \in Program[n].ms /\ Program[n].d = "FORWARD" =>
         facts[n].motor["main"].at = {"open"} /\ "REVERSE" \notin facts[n].motor["main"].moves
    /\ "main" \in Program[n].ms /\ Program[n].d = "REVERSE" =>
         "FORWARD" \notin facts[n].motor["scoop"].moves

\* After a cleaning the waste cover is closed, and stays so.
EndsClosed(ends) == ends["cleaned"].motor["waste"].at \subseteq {"close"}

\* After a cleaning or a recovery the driver goes off with the spindle.
EndsReleased(ends) ==
  \A r \in {"cleaned", "recovered"} : Reached(ends[r]) => ends[r].driver = "released"
=============================================================================

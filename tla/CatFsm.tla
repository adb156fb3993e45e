------------------------------- MODULE CatFsm -------------------------------
(***************************************************************************)
(* The cat state machine on the load cells (process_cat_detection_fsm in   *)
(* main/loadcell.c): it learns the weight of the empty box as a moving     *)
(* mean, sees a cat step on and off, and asks the UI for a cleaning a      *)
(* while after.  The cat, what it leaves and the cleaning are the          *)
(* environment.  Weights are in units of the exit threshold (300 g).       *)
(***************************************************************************)
EXTENDS Integers, Sequences

CONSTANTS
  CatWindow, \* CAT_RING_BUFFER_SIZE
  Learn,     \* CAT_INIT_SAMPLE_COUNT
  Entry,     \* CAT_ENTRY_THRESHOLD_G
  Exit,      \* CAT_EXIT_THRESHOLD_G
  Delay,     \* CAT_CLEAN_DELAY_SEC, in samples
  CatWeight, \* of the cat
  MaxLitter, \* how much it leaves, at most, until the next cleaning
  MaxVisits  \* how often it comes, at most, while the ring goes on

ASSUME CatAssumption ==
  /\ {CatWindow, Learn, Entry, Exit, Delay, CatWeight} \subseteq Nat \ {0} /\ {MaxLitter, MaxVisits} \subseteq Nat
  /\ Learn <= CatWindow /\ Exit < Entry

VARIABLES
  cat,        \* the cat is in the box
  visits,     \* how often it has come since the ring was reset
  litter,     \* what it has left there
  catState,   \* g_cat_state
  weights,    \* g_ring_buffer, the oldest first; its mean is g_baseline_weight
  away,       \* the samples since g_exit_timestamp_us
  running,    \* is_clean_running()
  wasRunning, \* g_prev_clean_running
  paused,     \* clean_pause_flag or clean_resume_recovery_requested
  asked,      \* this sample has posted UI_CLEAN_CMD
  quiet       \* no sample of the first mean was taken with the cat in the box

catBox  == <<cat, visits, litter, running, paused>>
catVars == <<catBox, catState, weights, away, wasRunning, asked, quiet>>

CatTypeOK ==
  /\ {cat, running, wasRunning, paused, asked, quiet} \subseteq BOOLEAN
  /\ litter \in 0..MaxLitter /\ visits \in 0..MaxVisits /\ away \in 0..Delay
  /\ catState \in {"INIT", "IDLE", "OCCUPIED", "WAIT_CLEAN"}
  /\ weights \in Seq(0..MaxLitter + CatWeight) /\ Len(weights) <= CatWindow

CatInit ==
  /\ cat \in BOOLEAN /\ visits = 0 /\ litter = 0 /\ running = FALSE /\ paused = FALSE
  /\ catState = "INIT" /\ weights = <<>> /\ away = 0 /\ wasRunning = FALSE
  /\ asked = FALSE /\ quiet = TRUE

\* Mutant: a full ring goes on growing.
PushUnbounded(w) == Append(weights, w)

\* push_cat_ring_buffer
Push(w) == Append(IF Len(weights) < CatWindow THEN weights ELSE Tail(weights), w)

Total(ws) ==
  LET sum[i \in 0..Len(ws)] == IF i = 0 THEN 0 ELSE sum[i - 1] + ws[i] IN sum[Len(ws)]

\* w >= mean + d and w <= mean + d
AtLeast(w, ws, d) == (w - d) * Len(ws) >= Total(ws)
AtMost(w, ws, d)  == (w - d) * Len(ws) <= Total(ws)

-----------------------------------------------------------------------------
(* process_cat_detection_fsm, by g_cat_state; `ring` is what reset_cat_ring_buffer has left *)

Learning(w, ring) ==
  /\ weights' = Append(ring, w)
  /\ catState' = IF Len(ring) + 1 >= Learn THEN "IDLE" ELSE "INIT"
  /\ quiet' = ((ring = <<>> \/ quiet) /\ ~cat')
  /\ asked' = FALSE /\ UNCHANGED away

IdleBox(w) ==
  /\ IF AtMost(w, weights, 0 - Entry) THEN weights' = <<>> /\ catState' = "INIT"
     ELSE /\ weights' = Push(w)
          /\ catState' = IF AtLeast(w, weights', Entry) THEN "OCCUPIED" ELSE "IDLE"
  /\ asked' = FALSE /\ UNCHANGED <<away, quiet>>

\* The mean is frozen.
Occupied(w) ==
  /\ IF AtMost(w, weights, Exit) THEN catState' = "WAIT_CLEAN" /\ away' = 0
     ELSE UNCHANGED <<catState, away>>
  /\ asked' = FALSE /\ UNCHANGED <<weights, quiet>>

\* Mutant: a cat that comes back does not end the countdown.
WaitCleanRegardless(w) ==
  /\ weights' = Push(w)
  /\ asked' = (away >= Delay)
  /\ catState' = IF away >= Delay THEN "IDLE" ELSE "WAIT_CLEAN"
  /\ UNCHANGED quiet

WaitClean(w) ==
  /\ weights' = Push(w)
  /\ asked' = (away >= Delay /\ ~AtLeast(w, weights', Entry))
  /\ catState' = IF AtLeast(w, weights', Entry) THEN "OCCUPIED"
                 ELSE IF away >= Delay THEN "IDLE" ELSE "WAIT_CLEAN"
  /\ UNCHANGED quiet

CleaningEnded == wasRunning /\ ~running

\* A sample that finds the machine at rest, during a cleaning or a pause
Skipped ==
  /\ weights' = IF CleaningEnded THEN <<>> ELSE weights
  /\ catState' = IF CleaningEnded THEN "INIT" ELSE catState
  /\ asked' = FALSE /\ UNCHANGED quiet

\* Mutant: the countdown begins again with every sample.
CountdownRestarts == away' = 0

Countdown == away' = IF away < Delay THEN away + 1 ELSE away

\* The next "SS:" line of the sensor board: the cat may have moved, and left something.
Sample(c, l) ==
  /\ l = litter \/ (cat /\ l = litter + 1)
  /\ cat' = c /\ litter' = l
  /\ LET w == l + (IF c THEN CatWeight ELSE 0) IN
     IF running \/ paused THEN Skipped /\ Countdown
     ELSE \/ CleaningEnded /\ Learning(w, <<>>)
          \/ ~CleaningEnded /\ catState = "INIT" /\ Learning(w, weights)
          \/ ~CleaningEnded /\ catState = "IDLE" /\ IdleBox(w)
          \/ ~CleaningEnded /\ catState = "OCCUPIED" /\ Occupied(w)
          \/ ~CleaningEnded /\ catState = "WAIT_CLEAN" /\ WaitClean(w) /\ Countdown
  /\ wasRunning' = running
  /\ (c /\ ~cat) => visits < MaxVisits
  /\ visits' = IF Len(weights') <= 1 THEN 0 ELSE visits + (IF c /\ ~cat THEN 1 ELSE 0)
  /\ UNCHANGED <<running, paused>>

-----------------------------------------------------------------------------
(* The scenario task, external here: it cleans, pauses and goes on *)

Clean(begin) ==
  /\ running = ~begin /\ running' = begin
  /\ litter' = IF begin THEN litter ELSE 0
  /\ asked' = FALSE
  /\ UNCHANGED <<cat, visits, paused, catState, weights, away, wasRunning, quiet>>

Hold(begin) ==
  /\ paused = ~begin /\ paused' = begin /\ asked' = FALSE
  /\ UNCHANGED <<cat, visits, litter, running, catState, weights, away, wasRunning, quiet>>

CatSample == \E c \in BOOLEAN, l \in 0..MaxLitter : Sample(c, l)

CatNext == CatSample \/ \E begin \in BOOLEAN : Clean(begin) \/ Hold(begin)

CatSpec     == CatInit /\ [][CatNext]_catVars
CatFairness == WF_catVars(CatSample)
CatFairSpec == CatSpec /\ CatFairness

-----------------------------------------------------------------------------
(* Properties *)

\* No cleaning is asked for with the cat in the box, if the box was empty while the mean
\* was learned.
NeverCleansOccupied == asked /\ quiet => ~cat

\* A visit ends with a cleaning, asked for or begun by somebody, or with a new mean, when
\* the cat stays away.
VisitIsCleaned ==
  <>[](~cat /\ ~paused) => [](catState = "OCCUPIED" => <>(asked \/ running \/ catState = "INIT"))
=============================================================================

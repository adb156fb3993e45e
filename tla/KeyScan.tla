------------------------------- MODULE KeyScan -------------------------------
(***************************************************************************)
(* The key task of main/keyscan.c: three keys, polled one after the other, *)
(* what a press of 3, 5 or 10 seconds means, alone or with another key,    *)
(* and the time before the box is ready, in which presses are measured but *)
(* not acted on.  What becomes of a command is UiDispatch.                 *)
(***************************************************************************)
EXTENDS Integers, FiniteSets

CONSTANTS
  TIME_THRES_3S, TIME_THRES_5S, TIME_THRES_10S \* in units of time that runs between two scans

ASSUME KeyAssumption ==
  /\ {TIME_THRES_3S, TIME_THRES_5S, TIME_THRES_10S} \subseteq Nat \ {0}
  /\ TIME_THRES_3S < TIME_THRES_5S /\ TIME_THRES_5S < TIME_THRES_10S

\* keys[0], keys[1], keys[2]
KEY_CLEAN == 0
KEY_CHANGE == 1
KEY_SET == 2
Keys == {KEY_CLEAN, KEY_CHANGE, KEY_SET}
KeyThresholds == {TIME_THRES_3S, TIME_THRES_5S, TIME_THRES_10S}
KeyCommands == {"clean", "manage_start", "manage_finish", "tare_zero", "pairing", "factory"}
NoCommand == "none"

VARIABLES
  scanned,    \* i: the key whose turn it is
  is_pressed,
  duration,   \* current_time - press_start_time, while it is pressed
  triggered,  \* event_triggered_3s, 5s, 10s
  is_ready,   \* g_is_system_ready
  given       \* how often a command was posted in the present press of a key

keyVars == <<scanned, is_pressed, duration, triggered, is_ready, given>>

KeyTypeOK ==
  /\ scanned \in Keys /\ is_ready \in BOOLEAN
  /\ is_pressed \in [Keys -> BOOLEAN] /\ duration \in [Keys -> 0..TIME_THRES_10S]
  /\ triggered \in [Keys -> SUBSET KeyThresholds]
  /\ given \in [Keys -> [KeyCommands -> 0..2]]

NothingGiven == [c \in KeyCommands |-> 0]

KeyInit ==
  /\ scanned = KEY_CLEAN /\ is_ready = FALSE
  /\ is_pressed = [k \in Keys |-> FALSE] /\ duration = [k \in Keys |-> 0]
  /\ triggered = [k \in Keys |-> {}] /\ given = [k \in Keys |-> NothingGiven]

-----------------------------------------------------------------------------
\* Time runs between two scans, however many of them a unit has.
TimePasses ==
  /\ scanned = KEY_CLEAN /\ \E k \in Keys : is_pressed[k] /\ duration[k] < TIME_THRES_10S
  /\ duration' = [k \in Keys |-> IF is_pressed[k] /\ duration[k] < TIME_THRES_10S THEN duration[k] + 1 ELSE duration[k]]
  /\ UNCHANGED <<scanned, is_pressed, triggered, is_ready, given>>

\* proximity_task
SystemReady ==
  /\ ~is_ready /\ is_ready' = TRUE
  /\ UNCHANGED <<scanned, is_pressed, duration, triggered, given>>

-----------------------------------------------------------------------------
(* key_polling_task *)

NextKey == scanned' = (scanned + 1) % Cardinality(Keys)

Alone(k) == \A other \in Keys \ {k} : ~is_pressed[other]

\* Of two keys that are let go, it is the one that is seen last.
ShortPress(k) ==
  IF ~Alone(k) THEN NoCommand
  ELSE CASE k = KEY_CLEAN -> "clean" [] k = KEY_CHANGE -> "manage_finish" [] k = KEY_SET -> "tare_zero"

LongPress(k, threshold) ==
  CASE threshold = TIME_THRES_10S ->
         IF {KEY_CLEAN, KEY_CHANGE} \subseteq {k} \cup {o \in Keys : TIME_THRES_10S \in triggered[o]}
         THEN "factory" ELSE NoCommand
    [] threshold = TIME_THRES_5S -> IF k = KEY_SET /\ Alone(k) THEN "pairing" ELSE NoCommand
    [] threshold = TIME_THRES_3S -> IF k = KEY_CHANGE /\ Alone(k) THEN "manage_start" ELSE NoCommand

Give(k, command) ==
  given' = IF command = NoCommand \/ given[k][command] = 2 THEN given
           ELSE [given EXCEPT ![k][command] = @ + 1]

PressKey(k) ==
  /\ ~is_pressed[k]
  /\ is_pressed' = [is_pressed EXCEPT ![k] = TRUE]
  /\ duration' = [duration EXCEPT ![k] = 0]
  /\ triggered' = [triggered EXCEPT ![k] = {}]
  /\ given' = [given EXCEPT ![k] = NothingGiven]

\* Mutant: a threshold that has been passed is not noted.
ReachedAgain(k) == {t \in KeyThresholds : duration[k] >= t}

\* Thresholds that a key has passed and that nothing was done about: the longest comes first.
Reached(k) == {t \in KeyThresholds \ triggered[k] : duration[k] >= t}

HoldKey(k) ==
  /\ is_pressed[k]
  /\ IF is_ready /\ Reached(k) # {}
     THEN LET threshold == CHOOSE t \in Reached(k) : \A u \in Reached(k) : u <= t
          IN /\ triggered' = [triggered EXCEPT ![k] = @ \cup {threshold}]
             /\ Give(k, LongPress(k, threshold))
     ELSE UNCHANGED <<triggered, given>>
  /\ UNCHANGED <<is_pressed, duration>>

ReleaseKey(k) ==
  /\ is_pressed[k]
  /\ Give(k, IF is_ready /\ triggered[k] = {} THEN ShortPress(k) ELSE NoCommand)
  /\ is_pressed' = [is_pressed EXCEPT ![k] = FALSE]
  /\ triggered' = [triggered EXCEPT ![k] = {}]
  /\ duration' = [duration EXCEPT ![k] = 0]

ScanKey ==
  /\ NextKey
  /\ \/ PressKey(scanned) \/ HoldKey(scanned) \/ ReleaseKey(scanned)
     \/ ~is_pressed[scanned] /\ UNCHANGED <<is_pressed, duration, triggered, given>>
  /\ UNCHANGED is_ready

KeyNext == TimePasses \/ SystemReady \/ ScanKey

KeySpec == KeyInit /\ [][KeyNext]_keyVars

-----------------------------------------------------------------------------
(* Properties *)

\* A press gives one command at most, and once, also when it began before the box was ready
\* and when a late scan finds that two thresholds have passed; only the factory restore may
\* come after another one.  And the flags that decide on the restore are those of presses
\* that have lasted ten seconds and have not ended.
OneCommandPerPress ==
  \A k \in Keys :
    /\ \A c \in KeyCommands : given[k][c] <= 1
    /\ Cardinality({c \in KeyCommands \ {"factory"} : given[k][c] > 0}) <= 1
    /\ TIME_THRES_10S \in triggered[k] => is_pressed[k] /\ duration[k] = TIME_THRES_10S
=============================================================================

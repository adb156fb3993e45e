------------------------------- MODULE TofRing -------------------------------
(***************************************************************************)
(* The ring buffer of TOF distances (main/sensor.c).  The sensor task      *)
(* appends (tof_proc); the scenario task clears the ring, waits for some   *)
(* samples and takes the least (get_fresh_tof_distance in main/motor.c).   *)
(* The ring has no lock, so each access to it is a step of its own.  Of a  *)
(* sample, the model keeps when it was received and not its distance.      *)
(***************************************************************************)
EXTENDS Naturals

CONSTANTS
  RingSize, \* TOF_RING_BUF_SIZE
  Enough    \* how many samples get_fresh_tof_distance waits for

ASSUME TofAssumption == RingSize \in Nat \ {0} /\ Enough \in 1..RingSize

\* -1 marks an empty slot; what was received before the last call is old.
Samples == {"unset", "old", "new"}

VARIABLES
  ring,      \* g_tof_ring_buf
  ringIdx,   \* g_tof_ring_idx
  ringCount, \* g_tof_ring_count
  writer,    \* where tof_proc is
  sample,    \* its argument
  wIdx,      \* its idx
  wCount,    \* the g_tof_ring_count that it has read to increment it
  reader,    \* where get_fresh_tof_distance is
  rPos,      \* the slot that its loop is at
  stale,     \* how many old samples get_tof_distance has found
  fresh,     \* and how many new ones
  timedOut,  \* there are not enough samples, or nobody has asked yet
  apart      \* no append has overlapped the reset

tofWriter == <<writer, sample, wIdx, wCount>>
tofReader == <<reader, rPos, stale, fresh, timedOut>>
tofVars   == <<ring, ringIdx, ringCount, tofWriter, tofReader, apart>>

Slot == 0..RingSize - 1

TofTypeOK ==
  /\ ring \in [Slot -> Samples] /\ ringIdx \in Slot
  /\ ringCount \in 0..RingSize
  /\ writer \in {"idle", "store", "advance", "look", "count"} /\ sample \in {"old", "new"}
  /\ wIdx \in Slot /\ wCount \in 0..RingSize - 1
  /\ reader \in {"idle", "clear", "clearIdx", "clearCount", "wait", "scan"}
  /\ rPos \in Slot /\ {stale, fresh} \subseteq 0..RingSize
  /\ {timedOut, apart} \subseteq BOOLEAN

TofInit ==
  /\ ring = [s \in Slot |-> "unset"] /\ ringIdx = 0 /\ ringCount = 0
  /\ writer = "idle" /\ sample = "new" /\ wIdx = 0 /\ wCount = 0
  /\ reader = "idle" /\ rPos = 0 /\ stale = 0 /\ fresh = 0 /\ timedOut = TRUE /\ apart = TRUE

Resetting == reader \in {"clear", "clearIdx", "clearCount"}

-----------------------------------------------------------------------------
(* tof_proc *)

TofReceive ==
  /\ writer = "idle"
  /\ sample' = "new" /\ wIdx' = ringIdx /\ writer' = "store"
  /\ apart' = (apart /\ ~Resetting)
  /\ UNCHANGED <<ring, ringIdx, ringCount, wCount, tofReader>>

StoreSample ==
  /\ writer = "store"
  /\ ring' = [ring EXCEPT ![wIdx] = sample] /\ writer' = "advance"
  /\ UNCHANGED <<ringIdx, ringCount, sample, wIdx, wCount, tofReader, apart>>

AdvanceIdx ==
  /\ writer = "advance"
  /\ ringIdx' = (wIdx + 1) % RingSize /\ writer' = "look"
  /\ UNCHANGED <<ring, ringCount, sample, wIdx, wCount, tofReader, apart>>

\* g_tof_ring_count++, unless the ring is full
LookAtCount ==
  /\ writer = "look"
  /\ IF ringCount < RingSize THEN writer' = "count" /\ wCount' = ringCount
     ELSE writer' = "idle" /\ UNCHANGED wCount
  /\ UNCHANGED <<ring, ringIdx, ringCount, sample, wIdx, tofReader, apart>>

StoreCount ==
  /\ writer = "count"
  /\ ringCount' = wCount + 1 /\ writer' = "idle" /\ wCount' = 0
  /\ UNCHANGED <<ring, ringIdx, sample, wIdx, tofReader, apart>>

-----------------------------------------------------------------------------
(* get_fresh_tof_distance: reset_tof_ring_buffer, the wait, get_tof_distance *)

\* From here on, what has been received before is old.
GetFresh ==
  /\ reader = "idle"
  /\ reader' = "clear" /\ rPos' = 0 /\ timedOut' = FALSE
  /\ stale' = 0 /\ fresh' = 0
  /\ apart' = (writer = "idle")
  /\ sample' = "old"
  /\ ring' = [s \in Slot |-> IF ring[s] = "unset" THEN "unset" ELSE "old"]
  /\ UNCHANGED <<ringIdx, ringCount, writer, wIdx, wCount>>

\* Mutant: the slots keep what they hold.
ClearCountOnly ==
  /\ reader = "clear" /\ reader' = "clearIdx" /\ rPos' = 0
  /\ UNCHANGED <<ring, ringIdx, ringCount, tofWriter, stale, fresh, timedOut, apart>>

ClearSlot ==
  /\ reader = "clear"
  /\ ring' = [ring EXCEPT ![rPos] = "unset"]
  /\ IF rPos = RingSize - 1 THEN reader' = "clearIdx" /\ rPos' = 0
     ELSE rPos' = rPos + 1 /\ UNCHANGED reader
  /\ UNCHANGED <<ringIdx, ringCount, tofWriter, stale, fresh, timedOut, apart>>

ClearIdx ==
  /\ reader = "clearIdx"
  /\ ringIdx' = 0 /\ reader' = "clearCount"
  /\ UNCHANGED <<ring, ringCount, tofWriter, rPos, stale, fresh, timedOut, apart>>

ClearCount ==
  /\ reader = "clearCount"
  /\ ringCount' = 0 /\ reader' = "wait"
  /\ UNCHANGED <<ring, ringIdx, tofWriter, rPos, stale, fresh, timedOut, apart>>

\* get_tof_distance looks at no slot when the count is 0.
WaitForSamples(expired) ==
  /\ reader = "wait" /\ (ringCount >= Enough \/ expired)
  /\ timedOut' = (ringCount < Enough)
  /\ reader' = IF ringCount = 0 THEN "idle" ELSE "scan"
  /\ UNCHANGED <<ring, ringIdx, ringCount, tofWriter, rPos, stale, fresh, apart>>

ScanSlot ==
  /\ reader = "scan"
  /\ stale' = stale + (IF ring[rPos] = "old" THEN 1 ELSE 0)
  /\ fresh' = fresh + (IF ring[rPos] = "new" THEN 1 ELSE 0)
  /\ IF rPos = RingSize - 1 THEN reader' = "idle" /\ rPos' = 0
     ELSE rPos' = rPos + 1 /\ UNCHANGED reader
  /\ UNCHANGED <<ring, ringIdx, ringCount, tofWriter, timedOut, apart>>

-----------------------------------------------------------------------------
TofWriterNext ==
  TofReceive \/ StoreSample \/ AdvanceIdx \/ LookAtCount \/ StoreCount

TofReaderNext ==
  \/ GetFresh \/ ClearSlot \/ ClearIdx \/ ClearCount \/ ScanSlot
  \/ \E expired \in BOOLEAN : WaitForSamples(expired)

TofNext == TofWriterNext \/ TofReaderNext

TofSpec == TofInit /\ [][TofNext]_tofVars

-----------------------------------------------------------------------------
(* Properties *)

\* Where no append has overlapped the reset, what get_tof_distance takes the least of are
\* new samples, and as many of them as get_fresh_tof_distance has waited for.  Where one
\* has, at most one sample is old: the one that tof_proc had in its hand when the ring was
\* cleared.  (The count that it stores may then be that of the full ring, and the wait is
\* over at once.)
FreshSamples ==
  /\ stale <= (IF apart THEN 0 ELSE 1)
  /\ reader = "idle" /\ apart /\ ~timedOut => fresh >= Enough
=============================================================================

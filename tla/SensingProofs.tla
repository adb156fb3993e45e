---------------------------- MODULE SensingProofs ----------------------------
(***************************************************************************)
(* What is proved of the sensors' way into the box: the ring of distances  *)
(* (TofRing), the line from the sensor board (SensorLine), and the cat     *)
(* that the load cells see (CatFsm).                                       *)
(***************************************************************************)
EXTENDS TofRing, SensorLine, CatFsm, SequenceTheorems, WellFoundedInduction, TLAPS

-----------------------------------------------------------------------------
(* TofRing *)

\* How far get_tof_distance has counted.
Counted ==
  /\ reader \notin {"clear", "scan"} => rPos = 0
  /\ reader \in {"clear", "clearIdx", "clearCount", "wait"} => stale = 0 /\ fresh = 0
  /\ stale + fresh <= IF reader = "scan" THEN rPos ELSE RingSize

\* The slots that the reset is through with, and that the scan has still to look at.
InPlay(s) == (reader = "clear" => s < rPos) /\ (reader = "scan" => s >= rPos)
OldInPlay(s) == InPlay(s) /\ ring[s] = "old"

\* tof_proc is about to store what it had in its hand when the ring was cleared.
OldInHand == writer = "store" /\ sample = "old"

\* An old sample is in that hand, or in one slot, or counted.
OneOld ==
  /\ stale <= 1
  /\ reader # "idle" => /\ \A s, u \in Slot : OldInPlay(s) /\ OldInPlay(u) => s = u
                        /\ stale = 1 \/ OldInHand => \A s \in Slot : ~OldInPlay(s)
                        /\ OldInHand => stale = 0

\* The slots below the count hold new samples, and the next one goes into the slot after them.
Filled ==
  /\ \A s \in Slot : s < ringCount => ring[s] = "new"
  /\ writer \in {"idle", "store", "advance"} /\ ringCount < RingSize => ringIdx = ringCount
  /\ writer \in {"store", "advance"} => wIdx = ringIdx
  /\ writer = "look" => ringIdx = (wIdx + 1) % RingSize /\ (ringCount < RingSize => wIdx = ringCount)
  /\ writer = "count" => ringIdx = (wIdx + 1) % RingSize /\ wIdx = ringCount /\ wCount = ringCount
  /\ writer \in {"advance", "look", "count"} => ring[wIdx] = "new"

\* With no append in the reset: nothing is old after it, and what is counted was waited for.
FilledApart ==
  apart =>
    /\ stale = 0
    /\ Resetting => writer = "idle" /\ \A s \in Slot : InPlay(s) => ring[s] = "unset"
    /\ reader = "clearCount" => ringIdx = 0
    /\ writer = "store" => sample = "new"
    /\ reader \in {"wait", "scan"} => Filled /\ \A s \in Slot : ring[s] # "old"
    /\ reader = "scan" /\ ~timedOut =>
         ringCount >= Enough /\ fresh >= IF rPos < Enough THEN rPos ELSE Enough
    /\ reader = "idle" /\ ~timedOut => fresh >= Enough

TofInv == TofTypeOK /\ Counted /\ OneOld /\ FilledApart

\* The index that follows a slot wraps round at the end of the ring (tof_proc).
LEMMA SlotAfter ==
  ASSUME NEW i \in Slot
  PROVE  (i + 1) % RingSize = IF i = RingSize - 1 THEN 0 ELSE i + 1
<1>1. RingSize \in Nat \ {0} /\ i \in 0..RingSize - 1
  BY TofAssumption DEF Slot
<1>2. CASE i = RingSize - 1
  BY <1>1, <1>2
<1>3. CASE i # RingSize - 1
  BY <1>1, <1>3
<1> QED BY <1>2, <1>3

\* Before the first call the ring is empty, and nothing has been counted.
LEMMA TofInitGood == TofInit => TofInv
<1> SUFFICES ASSUME TofInit PROVE TofInv
  OBVIOUS
<1>1. TofTypeOK
  BY TofAssumption DEF TofInit, TofTypeOK, Slot, Samples
<1>2. Counted /\ OneOld /\ FilledApart
  BY TofAssumption DEF TofInit, Counted, OneOld, FilledApart, Resetting, Filled
<1> QED BY <1>1, <1>2 DEF TofInv

\* Neither of two counts is more than what both come to.
LEMMA PartOfSum ==
  ASSUME NEW a \in Nat, NEW b \in Nat, NEW c \in Nat, a + b <= c
  PROVE  a <= c /\ b <= c
OBVIOUS

\* What tof_proc does, whatever the reader is at, keeps the invariant.
LEMMA TofWriterGood == ASSUME TofInv, TofWriterNext PROVE TofInv'
<1>0. /\ TofTypeOK /\ Counted /\ OneOld /\ FilledApart
      /\ RingSize \in Nat \ {0} /\ Enough \in 1..RingSize
  BY TofAssumption DEF TofInv
<1>1. CASE TofReceive
  <2>1. TofTypeOK' /\ Counted'
    BY <1>0, <1>1 DEF TofReceive, tofReader, TofTypeOK, Counted, Slot, Samples
  <2>2. OneOld'
    BY <1>0, <1>1 DEF TofReceive, tofReader, TofTypeOK, OneOld, OldInHand, OldInPlay, InPlay
  <2>3. FilledApart'
    BY <1>0, <1>1 DEF TofReceive, tofReader, TofTypeOK, FilledApart, Filled, Resetting, InPlay
  <2> QED BY <2>1, <2>2, <2>3 DEF TofInv
<1>2. CASE StoreSample
  <2>1. TofTypeOK' /\ Counted'
    BY <1>0, <1>2 DEF StoreSample, tofReader, TofTypeOK, Counted, Slot, Samples
  <2>2. OneOld'
    BY <1>0, <1>2 DEF StoreSample, tofReader, TofTypeOK, OneOld, OldInHand, OldInPlay, InPlay
  <2>3. FilledApart'
    BY <1>0, <1>2 DEF StoreSample, tofReader, TofTypeOK, FilledApart, Filled, Resetting, InPlay, Slot
  <2> QED BY <2>1, <2>2, <2>3 DEF TofInv
<1>3. CASE AdvanceIdx
  <2>0. (wIdx + 1) % RingSize \in Slot
    BY <1>0, SlotAfter DEF TofTypeOK, Slot
  <2>1. TofTypeOK' /\ Counted'
    BY <1>0, <1>3, <2>0 DEF AdvanceIdx, tofReader, TofTypeOK, Counted
  <2>2. OneOld'
    BY <1>0, <1>3 DEF AdvanceIdx, tofReader, TofTypeOK, OneOld, OldInHand, OldInPlay, InPlay
  <2>3. FilledApart'
    BY <1>0, <1>3 DEF AdvanceIdx, tofReader, TofTypeOK, FilledApart, Filled, Resetting, InPlay
  <2> QED BY <2>1, <2>2, <2>3 DEF TofInv
<1>4. CASE LookAtCount
  <2>1. TofTypeOK' /\ Counted'
    BY <1>0, <1>4 DEF LookAtCount, tofReader, TofTypeOK, Counted
  <2>2. OneOld'
    BY <1>0, <1>4 DEF LookAtCount, tofReader, TofTypeOK, OneOld, OldInHand, OldInPlay, InPlay
  <2>3. FilledApart'
    BY <1>0, <1>4 DEF LookAtCount, tofReader, TofTypeOK, FilledApart, Filled, Resetting, InPlay
  <2> QED BY <2>1, <2>2, <2>3 DEF TofInv
<1>5. CASE StoreCount
  <2>0. (wIdx + 1) % RingSize = IF wIdx = RingSize - 1 THEN 0 ELSE wIdx + 1
    BY <1>0, SlotAfter DEF TofTypeOK
  <2>1. TofTypeOK' /\ Counted'
    BY <1>0, <1>5 DEF StoreCount, tofReader, TofTypeOK, Counted
  <2>2. OneOld'
    BY <1>0, <1>5 DEF StoreCount, tofReader, TofTypeOK, OneOld, OldInHand, OldInPlay, InPlay
  <2>3. FilledApart'
    BY <1>0, <1>5, <2>0 DEF StoreCount, tofReader, TofTypeOK, FilledApart, Filled, Resetting, InPlay, Slot
  <2> QED BY <2>1, <2>2, <2>3 DEF TofInv
<1> QED BY <1>1, <1>2, <1>3, <1>4, <1>5 DEF TofWriterNext

\* What the scenario task does, whatever tof_proc is at, keeps the invariant.
LEMMA TofReaderGood == ASSUME TofInv, TofReaderNext PROVE TofInv'
<1>0. /\ TofTypeOK /\ Counted /\ OneOld /\ FilledApart
      /\ RingSize \in Nat \ {0} /\ Enough \in 1..RingSize
  BY TofAssumption DEF TofInv
<1>1. CASE GetFresh
  <2>1. apart' \in BOOLEAN /\ (apart' => writer = "idle")
    BY <1>1, Zenon DEF GetFresh
  <2>2. ring' \in [Slot -> Samples]
    BY <1>1, Zenon DEF GetFresh, Samples
  <2>3. /\ reader' = "clear" /\ rPos' = 0 /\ timedOut' = FALSE /\ stale' = 0 /\ fresh' = 0
        /\ sample' = "old" /\ UNCHANGED <<ringIdx, ringCount, writer, wIdx, wCount>>
    BY <1>1 DEF GetFresh
  <2>4. TofTypeOK' /\ Counted'
    <3>1. {timedOut, apart}' \subseteq BOOLEAN
      BY <2>1, <2>3, Zenon
    <3>2. Counted'
      BY <1>0, <2>3 DEF Counted
    <3> QED BY <1>0, <2>2, <2>3, <3>1, <3>2 DEF TofTypeOK, Slot
  <2>5. OneOld'
    BY <1>0, <2>3 DEF TofTypeOK, OneOld, OldInHand, OldInPlay, InPlay, Slot
  <2>6. FilledApart'
    BY <1>0, <2>1, <2>3 DEF TofTypeOK, FilledApart, Resetting, InPlay, Slot
  <2> QED BY <2>4, <2>5, <2>6 DEF TofInv
<1>2. CASE ClearSlot
  <2>1. TofTypeOK' /\ Counted'
    BY <1>0, <1>2 DEF ClearSlot, tofWriter, TofTypeOK, Counted, Slot, Samples
  <2>2. OneOld'
    BY <1>0, <1>2 DEF ClearSlot, tofWriter, TofTypeOK, Counted, OneOld, OldInHand, OldInPlay, InPlay, Slot, Samples
  <2>3. FilledApart'
    BY <1>0, <1>2 DEF ClearSlot, tofWriter, TofTypeOK, Counted, FilledApart, Filled, Resetting, InPlay, Slot
  <2> QED BY <2>1, <2>2, <2>3 DEF TofInv
<1>3. CASE ClearIdx
  <2>1. TofTypeOK' /\ Counted'
    BY <1>0, <1>3 DEF ClearIdx, tofWriter, TofTypeOK, Counted, Slot, Samples
  <2>2. OneOld'
    BY <1>0, <1>3 DEF ClearIdx, tofWriter, TofTypeOK, Counted, OneOld, OldInHand, OldInPlay, InPlay, Slot, Samples
  <2>3. FilledApart'
    BY <1>0, <1>3 DEF ClearIdx, tofWriter, TofTypeOK, Counted, FilledApart, Filled, Resetting, InPlay, Slot
  <2> QED BY <2>1, <2>2, <2>3 DEF TofInv
<1>4. CASE ClearCount
  <2>1. TofTypeOK' /\ Counted'
    BY <1>0, <1>4 DEF ClearCount, tofWriter, TofTypeOK, Counted, Slot, Samples
  <2>2. OneOld'
    BY <1>0, <1>4 DEF ClearCount, tofWriter, TofTypeOK, Counted, OneOld, OldInHand, OldInPlay, InPlay, Slot, Samples
  <2>3. FilledApart'
    BY <1>0, <1>4 DEF ClearCount, tofWriter, TofTypeOK, Counted, FilledApart, Filled, Resetting, InPlay, Slot
  <2> QED BY <2>1, <2>2, <2>3 DEF TofInv
<1>5. CASE ScanSlot
  <2>1. TofTypeOK' /\ Counted'
    <3>1. /\ reader = "scan" /\ rPos \in Nat /\ rPos <= RingSize - 1
          /\ stale \in Nat /\ fresh \in Nat /\ stale + fresh <= rPos
      BY <1>0, <1>5 DEF ScanSlot, TofTypeOK, Counted, Slot
    <3>2. /\ stale' \in Nat /\ fresh' \in Nat /\ stale' + fresh' <= rPos + 1
      BY <1>5, <3>1 DEF ScanSlot
    <3>3. \/ reader' = "idle" /\ rPos' = 0
          \/ reader' = "scan" /\ rPos' = rPos + 1 /\ rPos + 1 <= RingSize - 1
      BY <1>0, <1>5, <3>1 DEF ScanSlot
    <3>4. stale' \in 0..RingSize /\ fresh' \in 0..RingSize
      <4>1. RingSize \in Nat /\ rPos + 1 <= RingSize
        BY <1>0, <3>1
      <4>2. stale' <= rPos + 1 /\ fresh' <= rPos + 1
        <5>1. rPos + 1 \in Nat
          BY <3>1
        <5> QED BY <3>2, <5>1, PartOfSum
      <4> QED BY <3>1, <3>2, <4>1, <4>2
    <3>5. TofTypeOK'
      <4>1. rPos' \in Slot /\ reader' \in {"idle", "scan"}
        BY <1>0, <3>1, <3>3 DEF Slot
      <4> QED BY <1>0, <1>5, <3>4, <4>1 DEF ScanSlot, tofWriter, TofTypeOK
    <3>6. Counted'
      <4>1. rPos + 1 <= RingSize /\ RingSize \in Nat
        BY <1>0, <3>1
      <4>2. stale' + fresh' <= IF reader' = "scan" THEN rPos' ELSE RingSize
        <5>1. PICK e : e = stale' + fresh'
          OBVIOUS
        <5>2. PICK p : p = rPos + 1
          OBVIOUS
        <5>3. e \in Int /\ p \in Int
          BY <3>1, <3>2, <5>1, <5>2
        <5>4. e <= p
          BY <3>2, <5>1, <5>2, Zenon
        <5>5. p <= RingSize
          BY <4>1, <5>2, Zenon
        <5>6. e <= RingSize
          BY <4>1, <5>3, <5>4, <5>5
        <5>7. CASE reader' = "scan"
          BY <3>3, <5>1, <5>2, <5>4, <5>7, Zenon
        <5>8. CASE reader' # "scan"
          BY <5>1, <5>6, <5>8, Zenon
        <5> QED BY <5>7, <5>8
      <4> QED BY <3>3, <4>2 DEF Counted
    <3> QED BY <3>5, <3>6
  <2>2. OneOld'
    <3>1. /\ reader = "scan" /\ rPos \in Slot /\ rPos \in Nat
          /\ \A s \in Slot : s \in Int
          /\ rPos' \in Nat /\ (reader' # "idle" => reader' = "scan" /\ rPos' = rPos + 1)
          /\ ring' = ring /\ OldInHand' = OldInHand
      BY <1>0, <1>5 DEF ScanSlot, tofWriter, TofTypeOK, OldInHand, Slot
    <3>2. /\ OldInPlay(rPos) <=> ring[rPos] = "old"
          /\ \A s \in Slot : reader' # "idle" /\ OldInPlay(s)' => OldInPlay(s) /\ s # rPos
      BY <3>1 DEF OldInPlay, InPlay
    <3>3. CASE ring[rPos] = "old"
      <4>1. OldInPlay(rPos) /\ stale = 0 /\ ~OldInHand
        BY <1>0, <3>1, <3>2, <3>3 DEF OneOld, TofTypeOK
      <4>2. stale' = 1
        BY <1>5, <3>3, <4>1 DEF ScanSlot
      <4>3. reader' # "idle" => \A s \in Slot : ~OldInPlay(s)'
        BY <1>0, <3>1, <3>2, <4>1 DEF OneOld
      <4> QED BY <3>1, <4>1, <4>2, <4>3 DEF OneOld
    <3>4. CASE ring[rPos] # "old"
      <4>1. stale' = stale
        BY <1>0, <1>5, <3>4 DEF ScanSlot, TofTypeOK
      <4> QED BY <1>0, <3>1, <3>2, <4>1 DEF OneOld
    <3> QED BY <3>3, <3>4
  <2>3. FilledApart'
    BY <1>0, <1>5 DEF ScanSlot, tofWriter, TofTypeOK, Counted, FilledApart, Filled, Resetting, InPlay, Slot
  <2> QED BY <2>1, <2>2, <2>3 DEF TofInv
<1>6. ASSUME NEW expired \in BOOLEAN, WaitForSamples(expired) PROVE TofInv'
  <2>1. TofTypeOK' /\ Counted'
    BY <1>0, <1>6 DEF WaitForSamples, tofWriter, TofTypeOK, Counted
  <2>2. OneOld'
    BY <1>0, <1>6 DEF WaitForSamples, tofWriter, TofTypeOK, Counted, OneOld, OldInHand, OldInPlay, InPlay, Slot
  <2>3. FilledApart'
    BY <1>0, <1>6 DEF WaitForSamples, tofWriter, TofTypeOK, Counted, FilledApart, Filled, Resetting, InPlay, Slot
  <2> QED BY <2>1, <2>2, <2>3 DEF TofInv
<1> QED BY <1>1, <1>2, <1>3, <1>4, <1>5, <1>6 DEF TofReaderNext

\* What tof_proc and get_fresh_tof_distance do to each other's ring, step by step, never
\* leads out of the invariant.
THEOREM TofInvariant == TofSpec => []TofInv
<1>1. TofInv /\ [TofNext]_tofVars => TofInv'
  <2>1. SUFFICES ASSUME TofInv, [TofNext]_tofVars PROVE TofInv'
    OBVIOUS
  <2>2. CASE UNCHANGED tofVars
    BY <2>1, <2>2 DEF tofVars, tofWriter, tofReader, TofInv, TofTypeOK, Counted, OneOld, OldInHand,
       OldInPlay, InPlay, FilledApart, Filled, Resetting
  <2> QED BY <2>1, <2>2, TofWriterGood, TofReaderGood DEF TofNext
<1> QED BY <1>1, TofInitGood, PTL DEF TofSpec

\* However the appends of the sensor task and the reset and the scan of the scenario task
\* interleave: at most one sample that is older than the reset is taken for a fresh one, and
\* none if no append overlaps the reset; and a wait that ends in time has its samples.
THEOREM FreshSamplesCorrect == TofSpec => []FreshSamples
<1>1. TofInv => FreshSamples
  BY DEF TofInv, TofTypeOK, OneOld, FilledApart, FreshSamples
<1> QED BY <1>1, TofInvariant, PTL

-----------------------------------------------------------------------------
(* Numbers *)

\* What makes induction possible here: a set of numbers that is not empty has a least one.
LEMMA Least ==
  ASSUME NEW T \in SUBSET Nat, T # {}
  PROVE  \E x \in T : \A y \in T : x <= y
<1>1. \E x \in T : \A y \in T : <<y, x>> \notin OpToRel(<, Nat)
  BY WFMin, NatLessThanWellFounded, Zenon
<1>2. PICK x \in T : \A y \in T : <<y, x>> \notin OpToRel(<, Nat)
  BY <1>1, Zenon
<1>3. ASSUME NEW y \in T PROVE x <= y
  <2>1. x \in Nat /\ y \in Nat /\ <<y, x>> \notin {ss \in Nat \X Nat : ss[1] < ss[2]}
    BY <1>2 DEF OpToRel
  <2> QED BY <2>1
<1> QED BY <1>3

\* The newlines that LineTo and Unfinished choose from have a last one.
LEMMA Greatest ==
  ASSUME NEW T \in SUBSET Int, NEW n \in Int, T # {}, \A t \in T : t <= n
  PROVE  \E x \in T : \A y \in T : y <= x
<1> DEFINE U == {n - t : t \in T}
<1>1. U \in SUBSET Nat /\ U # {}
  <2>1. \A t \in T : n - t \in Nat
    OBVIOUS
  <2> QED BY <2>1
<1> HIDE DEF U
<1>2. PICK u \in U : \A v \in U : u <= v
  BY <1>1, Least
<1>3. PICK x \in T : u = n - x
  BY <1>2 DEF U
<1>4. \A y \in T : n - y \in U
  BY DEF U
<1>5. \A y \in T : u <= n - y
  BY <1>2, <1>4
<1>6. \A y \in T : y <= x
  BY <1>3, <1>5
<1> QED BY <1>6

\* Division with a remainder, as the board's place in its line needs it (boardAt),
LEMMA DivMod ==
  ASSUME NEW a \in Nat, NEW b \in Nat \ {0}
  PROVE  a = b * (a \div b) + (a % b) /\ a % b \in 0..b - 1 /\ a \div b \in Nat
OBVIOUS

\* which is unique,
LEMMA DivModUnique ==
  ASSUME NEW b \in Nat \ {0}, NEW q \in Nat, NEW r \in 0..b - 1, NEW p \in Nat, NEW s \in 0..b - 1,
         b * q + r = b * p + s
  PROVE  q = p /\ r = s
<1>1. ASSUME q < p PROVE FALSE
  <2>1. b * (q + 1) <= b * p
    BY <1>1
  <2> QED BY <2>1
<1>2. ASSUME p < q PROVE FALSE
  <2>1. b * (p + 1) <= b * q
    BY <1>2
  <2> QED BY <2>1
<1> QED BY <1>1, <1>2

\* keeps within the lines and their length,
LEMMA BoardInLine ==
  ASSUME NEW L \in Nat \ {0}, NEW R \in Nat \ {0}, NEW a \in 0..R * L - 1
  PROVE  a \div L \in 0..R - 1 /\ a % L \in 0..L - 1 /\ (a + 1) % (R * L) \in 0..R * L - 1
OBVIOUS

\* and goes on by one in the same line, unless that is at its end.
LEMMA BoardGoesOn ==
  ASSUME NEW L \in Nat \ {0}, NEW R \in Nat \ {0}, NEW a \in 0..R * L - 1, (a % L) + 1 # L
  PROVE  /\ ((a + 1) % (R * L)) \div L = a \div L
         /\ ((a + 1) % (R * L)) % L = (a % L) + 1
<1> DEFINE q == a \div L r == a % L
<1>1. a = L * q + r /\ r \in 0..L - 2 /\ q \in 0..R - 1
  <2>1. a \in Nat
    OBVIOUS
  <2>2. a = L * (a \div L) + (a % L)
    BY <2>1, DivMod
  <2>3. a \div L \in 0..R - 1 /\ a % L \in 0..L - 1
    BY BoardInLine
  <2> QED BY <2>2, <2>3
<1> HIDE DEF q, r
<1>2. L * q + L <= R * L
  <2>1. L * (q + 1) <= L * R
    BY <1>1
  <2>2. L * (q + 1) = L * q + L /\ L * R = R * L
    BY <1>1
  <2> QED BY <2>1, <2>2
<1>3. a + 1 \in 0..R * L - 1
  BY <1>1, <1>2
<1>4. (a + 1) % (R * L) = a + 1
  BY <1>3
<1>5. a + 1 = L * ((a + 1) \div L) + ((a + 1) % L) /\ (a + 1) % L \in 0..L - 1 /\ (a + 1) \div L \in Nat
  <2>1. a + 1 \in Nat
    BY <1>3
  <2> QED BY <2>1, DivMod
<1>6. L * ((a + 1) \div L) + ((a + 1) % L) = L * q + (r + 1)
  BY <1>1, <1>5
<1>7. q \in Nat /\ r + 1 \in 0..L - 1
  BY <1>1
<1>8. (a + 1) \div L = q /\ (a + 1) % L = r + 1
  <2> DEFINE p == (a + 1) \div L s == (a + 1) % L
  <2>1. p \in Nat /\ s \in 0..L - 1 /\ L * p + s = L * q + (r + 1)
    BY <1>5, <1>6
  <2> HIDE DEF p, s
  <2>2. p = q /\ s = r + 1
    BY <2>1, <1>7, DivModUnique
  <2> QED BY <2>2 DEF p, s
<1> QED BY <1>4, <1>8 DEF q, r

-----------------------------------------------------------------------------
(* SensorLine *)

\* What the box has of the board's stream and has not parsed
Pieces == uartBuf \o fifo

\* Two characters with no gap and no newline from the one to the other are of one line, and
\* as far apart in it.
Joined(b) ==
  \A j, k \in 1..Len(b) :
    /\ j < k
    /\ \A g \in j + 1..k : ~b[g].gap
    /\ \A g \in j..k - 1 : b[g].i # LineLength
    => b[k].line = b[j].line /\ b[k].i = b[j].i + (k - j)

\* What the board sends next follows what it has sent last, if that is in the box.
BoardGoesOnFrom(b) ==
  ~lostOne /\ b # <<>> /\ b[Len(b)].i # LineLength =>
    (boardAt \div LineLength) + 1 = b[Len(b)].line /\ (boardAt % LineLength) + 1 = b[Len(b)].i + 1

SensorInv == SensorTypeOK /\ Joined(Pieces) /\ BoardGoesOnFrom(Pieces) /\ WholeReadings

\* A part of what is joined is joined.
LEMMA PartIsJoined ==
  ASSUME NEW b \in Seq(Char), Joined(b), NEW m \in 1..Len(b) + 1, NEW n \in m - 1..Len(b)
  PROVE  /\ SubSeq(b, m, n) \in Seq(Char) /\ Len(SubSeq(b, m, n)) = n - m + 1
         /\ \A k \in 1..n - m + 1 : SubSeq(b, m, n)[k] = b[m + k - 1]
         /\ Joined(SubSeq(b, m, n))
<1> DEFINE c == SubSeq(b, m, n)
<1>1. /\ c \in Seq(Char) /\ Len(c) = n - m + 1
      /\ \A k \in 1..n - m + 1 : c[k] = b[m + k - 1]
  BY SubSeqProperties
<1> HIDE DEF c
<1>2. ASSUME NEW j \in 1..Len(c), NEW k \in 1..Len(c), j < k,
             \A g \in j + 1..k : ~c[g].gap, \A g \in j..k - 1 : c[g].i # LineLength
      PROVE  c[k].line = c[j].line /\ c[k].i = c[j].i + (k - j)
  <2> DEFINE J == m + j - 1
             K == m + k - 1
  <2>0. j < k /\ Len(b) \in Nat /\ j \in 1..n - m + 1 /\ k \in 1..n - m + 1
    BY <1>1, <1>2
  <2>1. J \in 1..Len(b) /\ K \in 1..Len(b) /\ J < K /\ c[j] = b[J] /\ c[k] = b[K] /\ K - J = k - j
    BY <1>1, <2>0
  <2>2. ASSUME NEW g \in J + 1..K PROVE ~b[g].gap
    <3>1. g - m + 1 \in j + 1..k /\ g - m + 1 \in 1..n - m + 1 /\ m + (g - m + 1) - 1 = g
      BY <2>0
    <3>2. c[g - m + 1] = b[g]
      BY <1>1, <3>1
    <3> QED BY <3>1, <3>2, <1>2
  <2>3. ASSUME NEW g \in J..K - 1 PROVE b[g].i # LineLength
    <3>1. g - m + 1 \in j..k - 1 /\ g - m + 1 \in 1..n - m + 1 /\ m + (g - m + 1) - 1 = g
      BY <2>0
    <3>2. c[g - m + 1] = b[g]
      BY <1>1, <3>1
    <3> QED BY <3>1, <3>2, <1>2
  <2> QED BY <2>1, <2>2, <2>3 DEF Joined
<1>3. Joined(c)
  BY <1>2 DEF Joined
<1> QED BY <1>1, <1>3 DEF c

\* get_line takes what lies between two newlines.
LEMMA LineIsPart ==
  ASSUME NEW b \in Seq(Char), NEW p \in Newlines(b)
  PROVE  \E start \in 1..p : /\ LineTo(b, p) = SubSeq(b, start, p)
                             /\ \A g \in start..p - 1 : b[g].i # LineLength
<1> DEFINE before == {q \in Newlines(b) : q < p}
<1>1. p \in 1..Len(b) /\ before \in SUBSET Int /\ \A q \in before : q \in 1..p - 1
  BY DEF Newlines
<1>2. \A g \in 1..p - 1 : b[g].i = LineLength => g \in before
  BY <1>1 DEF Newlines
<1>3. CASE before = {}
  <2>1. LineTo(b, p) = SubSeq(b, 1, p)
    BY <1>3 DEF LineTo
  <2> QED BY <1>1, <1>2, <1>3, <2>1
<1>4. CASE before # {}
  <2> DEFINE last == CHOOSE q \in before : \A r \in before : r <= q
  <2>1. \E q \in before : \A r \in before : r <= q
    <3>1. p \in Int /\ \A q \in before : q <= p
      BY <1>1
    <3> HIDE DEF before
    <3> QED BY <1>1, <1>4, <3>1, Greatest
  <2>2. last \in before /\ \A r \in before : r <= last
    BY <2>1
  <2>3. LineTo(b, p) = SubSeq(b, 1 + last, p)
    BY <1>4 DEF LineTo
  <2> HIDE DEF last
  <2>4. 1 + last \in 1..p
    BY <1>1, <2>2
  <2>5. \A g \in 1 + last..p - 1 : b[g].i # LineLength
    <3> SUFFICES ASSUME NEW g \in 1 + last..p - 1, b[g].i = LineLength PROVE FALSE
      OBVIOUS
    <3>1. g \in 1..p - 1 /\ g > last /\ last \in Int
      BY <1>1, <2>2
    <3> QED BY <1>2, <2>2, <3>1
  <2> QED BY <2>3, <2>4, <2>5
<1> QED BY <1>3, <1>4

\* What sensor_data_parser takes for a reading, of a joined stream, is a whole line or has
\* a gap in it.
LEMMA LineIsWhole ==
  ASSUME NEW b \in Seq(Char), Joined(b), NEW p \in Newlines(b), IsReading(LineTo(b, p))
  PROVE  /\ LineTo(b, p) \in Seq(Char)
         /\ \/ \E k \in 2..Len(LineTo(b, p)) : LineTo(b, p)[k].gap
            \/ /\ Len(LineTo(b, p)) = LineLength
               /\ \A k \in DOMAIN LineTo(b, p) :
                    LineTo(b, p)[k].line = LineTo(b, p)[1].line /\ LineTo(b, p)[k].i = k
<1> DEFINE s == LineTo(b, p)
<1>1. PICK start \in 1..p : s = SubSeq(b, start, p) /\ \A g \in start..p - 1 : b[g].i # LineLength
  BY LineIsPart
<1>2. p \in 1..Len(b) /\ b[p].i = LineLength
  BY DEF Newlines
<1>3. start \in 1..Len(b) + 1 /\ p \in start - 1..Len(b)
  BY <1>2
<1>4. /\ s \in Seq(Char) /\ Len(s) = p - start + 1
      /\ \A k \in 1..p - start + 1 : s[k] = b[start + k - 1]
  BY <1>1, <1>3, PartIsJoined
<1>5. s[1].i = 1
  BY DEF IsReading
<1> HIDE DEF s
<1>6. b[start].i = 1 /\ s[1] = b[start]
  BY <1>2, <1>4, <1>5
<1>7. ASSUME \A k \in 2..Len(s) : ~s[k].gap
      PROVE  Len(s) = LineLength /\ \A k \in DOMAIN s : s[k].line = s[1].line /\ s[k].i = k
  <2>1. \A g \in start + 1..p : ~b[g].gap
    <3> SUFFICES ASSUME NEW g \in start + 1..p PROVE ~b[g].gap
      OBVIOUS
    <3>1. g - start + 1 \in 2..Len(s) /\ g - start + 1 \in 1..p - start + 1 /\ start + (g - start + 1) - 1 = g
      BY <1>2, <1>4
    <3>2. s[g - start + 1] = b[g]
      BY <1>4, <3>1
    <3> QED BY <1>7, <3>1, <3>2
  <2>2. ASSUME NEW k \in 2..Len(s) PROVE s[k].line = s[1].line /\ s[k].i = k
    <3>1. /\ start + k - 1 \in 1..Len(b) /\ start \in 1..Len(b) /\ start < start + k - 1
          /\ start + k - 1 <= p /\ k \in 1..p - start + 1
      BY <1>2, <1>4
    <3>2. /\ \A g \in start + 1..start + k - 1 : ~b[g].gap
          /\ \A g \in start..start + k - 1 - 1 : b[g].i # LineLength
      BY <1>1, <1>2, <2>1, <3>1
    <3>3. b[start + k - 1].line = b[start].line /\ b[start + k - 1].i = b[start].i + ((start + k - 1) - start)
      BY <3>1, <3>2 DEF Joined
    <3>4. s[k] = b[start + k - 1]
      BY <1>4, <3>1
    <3> QED BY <1>6, <3>3, <3>4
  <2>3. \A k \in DOMAIN s : s[k].line = s[1].line /\ s[k].i = k
    <3>1. DOMAIN s = 1..Len(s)
      BY <1>4
    <3> QED BY <1>4, <1>5, <2>2, <3>1
  <2>4. Len(s) \in DOMAIN s /\ s[Len(s)] = b[p]
    <3>1. Len(s) \in 1..p - start + 1 /\ start + Len(s) - 1 = p /\ DOMAIN s = 1..Len(s)
      BY <1>2, <1>4
    <3> QED BY <1>4, <3>1
  <2> QED BY <1>2, <2>3, <2>4
<1> QED BY <1>4, <1>7 DEF s

\* What uart1_to_uart0_task keeps for the next read is the end of what it has.
LEMMA UnfinishedIsEnd ==
  ASSUME NEW b \in Seq(Char)
  PROVE  \E m \in 1..Len(b) + 1 : Unfinished(b) = SubSeq(b, m, Len(b))
<1>1. CASE Newlines(b) = {}
  <2>1. Unfinished(b) = b /\ b = SubSeq(b, 1, Len(b)) /\ 1 \in 1..Len(b) + 1
    BY <1>1, SubSeqFull DEF Unfinished
  <2> QED BY <2>1
<1>2. CASE Newlines(b) # {}
  <2> DEFINE last == CHOOSE q \in Newlines(b) : \A r \in Newlines(b) : r <= q
  <2>1. \E q \in Newlines(b) : \A r \in Newlines(b) : r <= q
    <3>1. Newlines(b) \in SUBSET Int /\ Len(b) \in Int /\ \A q \in Newlines(b) : q <= Len(b)
      BY DEF Newlines
    <3> QED BY <1>2, <3>1, Greatest
  <2>2. last \in 1..Len(b)
    BY <2>1 DEF Newlines
  <2>3. Unfinished(b) = SubSeq(b, 1 + last, Len(b))
    BY <1>2 DEF Unfinished
  <2> HIDE DEF last
  <2>4. 1 + last \in 1..Len(b) + 1
    BY <2>2
  <2> QED BY <2>3, <2>4
<1> QED BY <1>1, <1>2

\* One more piece is one more character on.
LEMMA OneMore ==
  ASSUME NEW i \in Int, NEW m \in Int, NEW j \in Int
  PROVE  (i + (m - j)) + 1 = i + ((m + 1) - j)
OBVIOUS

\* The board sends the next character of the line, or the first of the next one; what the
\* driver has no room for leaves a gap.
LEMMA BoardSendsGood == ASSUME SensorInv, BoardSends PROVE SensorInv'
<1> DEFINE new == [line |-> (boardAt \div LineLength) + 1, i |-> (boardAt % LineLength) + 1, gap |-> lostOne]
<1>1. /\ LineLength \in Nat \ {0} /\ Readings \in Nat \ {0} /\ UartFifo \in Nat
      /\ boardAt \in 0..Readings * LineLength - 1 /\ fifo \in Seq(Char) /\ uartBuf \in Seq(Char)
  BY SensorAssumption DEF SensorInv, SensorTypeOK
<1>2. boardAt' \in 0..Readings * LineLength - 1
  BY <1>1, BoardInLine DEF BoardSends
<1>3. new \in Char
  <2>1. boardAt \div LineLength \in 0..Readings - 1 /\ boardAt % LineLength \in 0..LineLength - 1
    BY <1>1, BoardInLine
  <2>2. (boardAt \div LineLength) + 1 \in 1..Readings /\ (boardAt % LineLength) + 1 \in 1..LineLength
    BY <1>1, <2>1
  <2>3. lostOne \in BOOLEAN
    BY DEF SensorInv, SensorTypeOK
  <2> QED BY <2>2, <2>3 DEF Char
<1>4. readings' = {} /\ uartBuf' = uartBuf
  BY DEF BoardSends
<1>5. CASE Len(fifo) = UartFifo
  <2>1. fifo' = fifo /\ lostOne' = TRUE
    BY <1>5 DEF BoardSends
  <2>2. SensorTypeOK'
    BY <1>2, <1>4, <2>1 DEF SensorInv, SensorTypeOK
  <2>3. Pieces' = Pieces
    BY <1>4, <2>1 DEF Pieces
  <2>4. Joined(Pieces)' /\ WholeReadings'
    BY <1>4, <2>3 DEF SensorInv, Joined, WholeReadings
  <2>5. BoardGoesOnFrom(Pieces)'
    BY <2>1 DEF BoardGoesOnFrom
  <2> QED BY <2>2, <2>4, <2>5 DEF SensorInv
<1>6. CASE Len(fifo) # UartFifo
  <2>1. fifo' = Append(fifo, new) /\ lostOne' = FALSE
    BY <1>6 DEF BoardSends
  <2>2. Len(fifo) < UartFifo
    BY <1>1, <1>6 DEF SensorInv, SensorTypeOK
  <2>3. SensorTypeOK'
    <3>1. fifo' \in Seq(Char) /\ Len(fifo') <= UartFifo
      BY <1>1, <1>3, <2>1, <2>2, AppendProperties
    <3> QED BY <1>2, <1>4, <2>1, <3>1 DEF SensorInv, SensorTypeOK
  <2>4. Pieces' = Append(Pieces, new)
    <3>1. uartBuf \o Append(fifo, new) = Append(uartBuf \o fifo, new)
      BY <1>1, <1>3
    <3> QED BY <1>4, <2>1, <3>1 DEF Pieces
  <2>5. /\ Pieces \in Seq(Char) /\ Pieces' \in Seq(Char) /\ Len(Pieces') = Len(Pieces) + 1
        /\ \A k \in 1..Len(Pieces) : Pieces'[k] = Pieces[k]
        /\ Pieces'[Len(Pieces) + 1] = new
    <3>1. Pieces \in Seq(Char)
      BY <1>1 DEF Pieces
    <3> QED BY <2>4, <3>1, <1>3
  <2>6. Joined(Pieces')
    <3> SUFFICES ASSUME NEW j \in 1..Len(Pieces'), NEW k \in 1..Len(Pieces'), j < k,
                        \A g \in j + 1..k : ~Pieces'[g].gap, \A g \in j..k - 1 : Pieces'[g].i # LineLength
                 PROVE  Pieces'[k].line = Pieces'[j].line /\ Pieces'[k].i = Pieces'[j].i + (k - j)
      BY DEF Joined
    <3> DEFINE n == Len(Pieces)
    <3>0. n \in Nat /\ j \in 1..n
      BY <2>5
    <3>1. CASE k # n + 1
      <4>1. k \in 1..n /\ \A g \in j + 1..k : g \in 1..n /\ \A h \in j..k - 1 : h \in 1..n
        BY <2>5, <3>1
      <4>2. (\A g \in j + 1..k : ~Pieces[g].gap) /\ (\A g \in j..k - 1 : Pieces[g].i # LineLength)
        BY <2>5, <3>0, <3>1, <4>1
      <4> QED BY <2>5, <3>0, <4>1, <4>2 DEF SensorInv, Joined
    <3>2. CASE k = n + 1
      <4>1. Pieces'[k] = new /\ ~lostOne
        <5>1. k \in j + 1..k /\ Pieces'[k] = new
          BY <2>5, <3>0, <3>2
        <5> QED BY <5>1
      <4>2. Pieces[n].i # LineLength /\ n \in 1..n
        BY <2>5, <3>0, <3>2
      <4>3. new.line = Pieces[n].line /\ new.i = Pieces[n].i + 1
        <5>1. Pieces # <<>>
          BY <2>5, <3>0
        <5> QED BY <4>1, <4>2, <5>1 DEF SensorInv, BoardGoesOnFrom
      <4>4. CASE j = n
        <5>1. Pieces'[j] = Pieces[n] /\ k - j = 1
          BY <2>5, <3>2, <4>2, <4>4
        <5> QED BY <4>1, <4>3, <5>1
      <4>5. CASE j # n
        <5>1. j < n /\ Pieces'[j] = Pieces[j]
          BY <2>5, <3>0, <4>5
        <5>2. (\A g \in j + 1..n : ~Pieces[g].gap) /\ (\A g \in j..n - 1 : Pieces[g].i # LineLength)
          <6>1. \A g \in j + 1..n : g \in 1..n /\ g \in j + 1..k
            BY <3>0, <3>2
          <6>2. \A g \in j..n - 1 : g \in 1..n /\ g \in j..k - 1
            BY <3>0, <3>2
          <6> QED BY <2>5, <6>1, <6>2
        <5>3. Pieces[n].line = Pieces[j].line /\ Pieces[n].i = Pieces[j].i + (n - j)
          BY <3>0, <4>2, <5>1, <5>2 DEF SensorInv, Joined
        <5>4. Pieces[j].i \in Int
          <6>1. Pieces[j] \in Char
            BY <2>5, <3>0
          <6>2. \A c \in Char : c.i \in 1..LineLength
            BY DEF Char
          <6> QED BY <1>1, <6>1, <6>2
        <5>5. new.line = Pieces[j].line
          BY <4>3, <5>3
        <5>6. PICK i \in Int : i = Pieces[j].i
          BY <5>4
        <5>7. new.i = (i + (n - j)) + 1
          BY <4>3, <5>3, <5>6
        <5>8. (i + (n - j)) + 1 = i + ((n + 1) - j)
          <6>1. n \in Int /\ j \in Int
            BY <3>0
          <6> HIDE DEF n
          <6> QED BY <6>1, <5>6, OneMore
        <5>9. new.i = Pieces[j].i + (k - j)
          BY <3>2, <5>6, <5>7, <5>8
        <5> QED BY <4>1, <5>1, <5>5, <5>9
      <4> QED BY <4>4, <4>5
    <3> QED BY <3>1, <3>2
  <2>7. BoardGoesOnFrom(Pieces)'
    <3> SUFFICES ASSUME (boardAt % LineLength) + 1 # LineLength
                 PROVE  /\ (boardAt' \div LineLength) + 1 = new.line
                        /\ (boardAt' % LineLength) + 1 = new.i + 1
      BY <2>5 DEF BoardGoesOnFrom
    <3>1. /\ boardAt' \div LineLength = boardAt \div LineLength
          /\ boardAt' % LineLength = (boardAt % LineLength) + 1
      BY <1>1, BoardGoesOn DEF BoardSends
    <3> QED BY <3>1
  <2> QED BY <1>4, <2>3, <2>6, <2>7 DEF SensorInv, WholeReadings, Joined
<1> QED BY <1>5, <1>6

\* Whatever uart_read_bytes returns, the lines that come out of the buffer are whole, and what
\* stays in it goes on with what the driver holds.
LEMMA ReadUartGood ==
  ASSUME SensorInv, NEW len \in 1..UartSize, ReadUart(len)
  PROVE  SensorInv'
<1> DEFINE chunk == SubSeq(fifo, 1, len)
           b     == Received(chunk)
           u     == Len(uartBuf)
           n     == u + len
<1>1. /\ fifo \in Seq(Char) /\ uartBuf \in Seq(Char) /\ len \in 1..Len(fifo) /\ len <= UartSize
      /\ Len(uartBuf) <= UartSize /\ Len(fifo) <= UartFifo /\ UartSize \in Nat /\ UartFifo \in Nat
  BY SensorAssumption DEF SensorInv, SensorTypeOK, ReadUart
<1>2. /\ Pieces \in Seq(Char) /\ Len(Pieces) = u + Len(fifo) /\ n \in 1..Len(Pieces) /\ u \in Nat
      /\ \A k \in 1..u : Pieces[k] = uartBuf[k]
      /\ \A k \in 1..Len(fifo) : Pieces[u + k] = fifo[k]
  BY <1>1 DEF Pieces
<1>3. chunk \in Seq(Char) /\ Len(chunk) = len /\ \A k \in 1..len : chunk[k] = fifo[k]
  BY <1>1, SubSeqProperties
<1>4. \E x \in {1, u + 1} : b = SubSeq(Pieces, x, n) /\ n - x + 1 <= UartSize
  <2>1. CASE u + len <= UartSize
    <3>1. b = uartBuf \o chunk
      BY <1>3, <2>1 DEF Received
    <3>2. uartBuf \o chunk = SubSeq(Pieces, 1, n)
      <4>1. uartBuf \o chunk \in Seq(Char) /\ SubSeq(Pieces, 1, n) \in Seq(Char)
        BY <1>1, <1>2, <1>3, SubSeqProperties
      <4>2. Len(uartBuf \o chunk) = n /\ Len(SubSeq(Pieces, 1, n)) = n
        BY <1>1, <1>2, <1>3, SubSeqProperties
      <4>3. ASSUME NEW k \in 1..n PROVE (uartBuf \o chunk)[k] = SubSeq(Pieces, 1, n)[k]
        <5>1. SubSeq(Pieces, 1, n)[k] = Pieces[k]
          BY <1>2, SubSeqProperties
        <5>2. CASE k <= u
          <6>1. (uartBuf \o chunk)[k] = uartBuf[k] /\ k \in 1..u
            BY <1>1, <1>2, <1>3, <5>2
          <6> QED BY <1>2, <5>1, <6>1
        <5>3. CASE k > u
          <6>1. (uartBuf \o chunk)[k] = chunk[k - u] /\ k - u \in 1..len /\ u + (k - u) = k
            BY <1>1, <1>2, <1>3, <5>3
          <6>2. k - u \in 1..Len(fifo)
            BY <1>1, <6>1
          <6> QED BY <1>2, <1>3, <5>1, <6>1, <6>2
        <5> QED BY <1>2, <5>2, <5>3
      <4> QED BY <4>1, <4>2, <4>3, SeqEqual
    <3> QED BY <1>2, <2>1, <3>1, <3>2
  <2>2. CASE ~(u + len <= UartSize)
    <3>1. b = chunk
      BY <1>3, <2>2 DEF Received
    <3>2. chunk = SubSeq(Pieces, u + 1, n)
      <4>1. SubSeq(Pieces, u + 1, n) \in Seq(Char) /\ Len(SubSeq(Pieces, u + 1, n)) = len
        BY <1>1, <1>2, SubSeqProperties
      <4>2. ASSUME NEW k \in 1..len PROVE chunk[k] = SubSeq(Pieces, u + 1, n)[k]
        <5>1. SubSeq(Pieces, u + 1, n)[k] = Pieces[u + 1 + k - 1] /\ u + 1 + k - 1 = u + k
          BY <1>1, <1>2, SubSeqProperties
        <5> QED BY <1>1, <1>2, <1>3, <5>1
      <4> QED BY <1>3, <4>1, <4>2, SeqEqual
    <3>3. n - (u + 1) + 1 = len
      BY <1>1
    <3> QED BY <1>1, <3>1, <3>2, <3>3
  <2> QED BY <2>1, <2>2
<1> HIDE DEF b, u, n
<1>5. PICK x \in {1, u + 1} : b = SubSeq(Pieces, x, n) /\ n - x + 1 <= UartSize
  BY <1>4
<1>0. /\ u \in Nat /\ u = Len(uartBuf) /\ n = u + len /\ len \in Nat /\ n <= Len(Pieces)
      /\ x \in 1..u + 1 /\ x \in 1..Len(Pieces) + 1 /\ n \in x - 1..Len(Pieces)
  BY <1>1, <1>2, <1>5 DEF u, n
<1>6. /\ b \in Seq(Char) /\ Len(b) = n - x + 1 /\ Joined(b)
      /\ \A k \in 1..n - x + 1 : b[k] = Pieces[x + k - 1]
  BY <1>0, <1>2, <1>5, PartIsJoined DEF SensorInv
<1>7. /\ readings' = {s \in {LineTo(b, p) : p \in Newlines(b)} : IsReading(s)}
      /\ uartBuf' = Unfinished(b) /\ fifo' = SubSeq(fifo, len + 1, Len(fifo))
      /\ UNCHANGED <<boardAt, lostOne>>
  BY DEF ReadUart, b
<1>8. WholeReadings' /\ readings' \subseteq Seq(Char)
  <2>1. ASSUME NEW s \in readings'
        PROVE  /\ s \in Seq(Char)
               /\ \/ \E k \in 2..Len(s) : s[k].gap
                  \/ Len(s) = LineLength /\ \A k \in DOMAIN s : s[k].line = s[1].line /\ s[k].i = k
    <3>1. PICK p \in Newlines(b) : s = LineTo(b, p) /\ IsReading(LineTo(b, p))
      BY <1>7
    <3> QED BY <1>6, <3>1, LineIsWhole
  <2> QED BY <2>1 DEF WholeReadings
<1>9. PICK m \in 1..Len(b) + 1 : uartBuf' = SubSeq(b, m, Len(b))
  BY <1>6, <1>7, UnfinishedIsEnd
<1>10. /\ uartBuf' \in Seq(Char) /\ Len(uartBuf') = Len(b) - m + 1
       /\ \A k \in 1..Len(b) - m + 1 : uartBuf'[k] = b[m + k - 1]
  <2>1. Len(b) \in m - 1..Len(b)
    BY <1>6
  <2> QED BY <1>6, <1>9, <2>1, SubSeqProperties
<1>11. /\ fifo' \in Seq(Char) /\ Len(fifo') = Len(fifo) - len
       /\ \A k \in 1..Len(fifo) - len : fifo'[k] = fifo[len + k]
  <2>1. /\ fifo' \in Seq(Char) /\ Len(fifo') = Len(fifo) - (len + 1) + 1
        /\ \A k \in 1..Len(fifo) - (len + 1) + 1 : fifo'[k] = fifo[(len + 1) + k - 1]
    BY <1>1, <1>7, SubSeqProperties
  <2>2. len \in Nat /\ Len(fifo) \in Nat /\ Len(fifo) - (len + 1) + 1 = Len(fifo) - len
    BY <1>1
  <2>3. \A k \in 1..Len(fifo) - len : (len + 1) + k - 1 = len + k
    BY <2>2
  <2>4. ASSUME NEW k \in 1..Len(fifo) - len PROVE fifo'[k] = fifo[len + k]
    <3>1. fifo'[k] = fifo[(len + 1) + k - 1]
      BY <2>1, <2>2
    <3> QED BY <3>1, <2>3
  <2> QED BY <2>1, <2>2, <2>4
<1>12. SensorTypeOK'
  <2>1. Len(uartBuf') <= UartSize /\ Len(fifo') <= UartFifo
    BY <1>1, <1>2, <1>5, <1>6, <1>10, <1>11
  <2> QED BY <1>7, <1>8, <1>10, <1>11, <2>1 DEF SensorInv, SensorTypeOK
<1> DEFINE y == x + m - 1
<1>13. y \in 1..n + 1 /\ y \in 1..Len(Pieces) + 1 /\ Len(Pieces) \in y - 1..Len(Pieces)
  <2>1. PICK w \in Nat : w = Len(Pieces)
    BY <1>2, LenProperties
  <2>2. PICK h \in Nat : h = Len(b)
    BY <1>6, LenProperties
  <2>3. m \in 1..h + 1 /\ h = n - x + 1 /\ x \in 1..w + 1 /\ x \in 1..u + 1 /\ n = u + len
        /\ u \in Nat /\ len \in Nat /\ n <= w
    BY <1>0, <1>6, <1>9, <2>1, <2>2
  <2>4. x + m - 1 \in 1..n + 1
    BY <2>2, <2>3
  <2>5. y \in 1..n + 1
    BY <2>4
  <2> HIDE DEF y
  <2>6. y \in 1..w + 1 /\ w \in y - 1..w
    BY <2>1, <2>3, <2>5
  <2> QED BY <2>1, <2>5, <2>6
<1>17. /\ m \in Nat /\ x \in Nat /\ Len(b) = n - x + 1
       /\ Len(uartBuf') = Len(b) - m + 1 /\ Len(uartBuf') \in Nat
       /\ Len(fifo') = Len(fifo) - len /\ Len(fifo') \in Nat
       /\ Len(uartBuf') + Len(fifo') = Len(Pieces) - y + 1
  <2>1. x \in Nat /\ Len(b) = n - x + 1 /\ Len(b) \in Nat /\ m \in 1..Len(b) + 1
    BY <1>0, <1>6
  <2>2. Len(uartBuf') = Len(b) - m + 1 /\ Len(fifo') = Len(fifo) - len /\ len <= Len(fifo) /\ Len(fifo) \in Nat
    BY <1>1, <1>10, <1>11
  <2>3. Len(Pieces) = u + Len(fifo) /\ n = u + len /\ u \in Nat /\ len \in Nat
    BY <1>0, <1>2
  <2> QED BY <2>1, <2>2, <2>3
<1>14. Pieces' = SubSeq(Pieces, y, Len(Pieces))
  <2> DEFINE q == SubSeq(Pieces, y, Len(Pieces))
  <2>1. /\ q \in Seq(Char) /\ Len(q) = Len(Pieces) - y + 1
        /\ \A k \in 1..Len(Pieces) - y + 1 : q[k] = Pieces[y + k - 1]
    BY <1>2, <1>13, SubSeqProperties
  <2> HIDE DEF q
  <2>2. Pieces' \in Seq(Char) /\ Len(Pieces') = Len(uartBuf') + Len(fifo')
    <3>1. uartBuf' \in Seq(Char) /\ fifo' \in Seq(Char)
      BY <1>10, <1>11
    <3> QED BY <3>1, ConcatProperties DEF Pieces
  <2>3. Len(Pieces') = Len(q)
    BY <1>17, <2>1, <2>2
  <2>4. ASSUME NEW k \in 1..Len(q) PROVE Pieces'[k] = q[k]
    <3>0. q[k] = Pieces[y + k - 1]
      BY <2>1
    <3>1. CASE k <= Len(uartBuf')
      <4>1. Pieces'[k] = uartBuf'[k] /\ k \in 1..Len(b) - m + 1
        <5>1. uartBuf' \in Seq(Char) /\ fifo' \in Seq(Char) /\ k \in 1..Len(uartBuf')
          BY <1>10, <1>11, <1>17, <2>1, <3>1
        <5>2. (uartBuf' \o fifo')[k] = uartBuf'[k]
          BY <5>1, ConcatProperties
        <5> QED BY <1>10, <5>1, <5>2 DEF Pieces
      <4>2. Pieces'[k] = b[m + k - 1] /\ m + k - 1 \in 1..n - x + 1
        BY <1>6, <1>10, <4>1
      <4>3. b[m + k - 1] = Pieces[x + (m + k - 1) - 1] /\ x + (m + k - 1) - 1 = y + k - 1
        BY <1>2, <1>5, <1>6, <4>2
      <4> QED BY <3>0, <4>2, <4>3
    <3>2. CASE k > Len(uartBuf')
      <4> DEFINE h == k - Len(uartBuf')
      <4>1. h \in 1..Len(fifo')
        <5>1. PICK p \in Nat : p = Len(uartBuf')
          BY <1>17
        <5>2. PICK r \in Nat : r = Len(fifo')
          BY <1>17
        <5>3. k \in 1..p + r /\ k > p
          BY <2>2, <2>3, <3>2, <5>1, <5>2
        <5>4. k - p \in 1..r
          BY <5>3
        <5> QED BY <5>1, <5>2, <5>4
      <4>2. Pieces'[k] = fifo'[h]
        <5>1. k \in 1..Len(uartBuf') + Len(fifo') /\ ~(k <= Len(uartBuf'))
          BY <1>17, <2>2, <2>3, <3>2
        <5>2. uartBuf' \in Seq(Char) /\ fifo' \in Seq(Char)
          BY <1>10, <1>11
        <5>3. (uartBuf' \o fifo')[k] = fifo'[k - Len(uartBuf')]
          BY <5>1, <5>2, ConcatProperties
        <5> QED BY <5>3 DEF Pieces
      <4>3. fifo'[h] = fifo[len + h] /\ len + h \in 1..Len(fifo)
        <5>1. h \in 1..Len(fifo) - len /\ len + h \in 1..Len(fifo)
          BY <1>0, <1>1, <1>11, <4>1
        <5> QED BY <1>11, <5>1
      <4>4. u + (len + h) = y + k - 1
        BY <1>0, <1>17
      <4> HIDE DEF h
      <4> QED BY <1>2, <3>0, <4>2, <4>3, <4>4
    <3> QED BY <1>10, <2>1, <3>1, <3>2
  <2>5. Pieces' = q
    BY <2>1, <2>2, <2>3, <2>4, SeqEqual
  <2> QED BY <2>5 DEF q
<1>15. /\ Joined(Pieces') /\ Len(Pieces') = Len(Pieces) - y + 1
       /\ \A k \in 1..Len(Pieces) - y + 1 : Pieces'[k] = Pieces[y + k - 1]
  BY <1>2, <1>13, <1>14, PartIsJoined DEF SensorInv
<1>16. BoardGoesOnFrom(Pieces)'
  <2> SUFFICES ASSUME Pieces' # <<>> PROVE BoardGoesOnFrom(Pieces)'
    BY DEF BoardGoesOnFrom
  <2>1. Pieces' \in Seq(Char)
    BY <1>10, <1>11 DEF Pieces
  <2>2. Len(Pieces') # 0 /\ Len(Pieces') \in Nat
    BY <2>1
  <2>3. Len(Pieces') \in 1..Len(Pieces) - y + 1 /\ y + Len(Pieces') - 1 = Len(Pieces)
    BY <1>13, <1>15, <2>2
  <2>4. Pieces'[Len(Pieces')] = Pieces[Len(Pieces)]
    BY <1>15, <2>3
  <2>5. Pieces # <<>>
    BY <1>2
  <2> QED BY <1>7, <2>4, <2>5 DEF SensorInv, BoardGoesOnFrom
<1> QED BY <1>8, <1>12, <1>15, <1>16 DEF SensorInv, Joined

\* From the first character on, the buffers hold pieces of the board's stream that belong
\* together, and nothing else is taken for a line.
THEOREM SensorInvariant == SensorSpec => []SensorInv
<1>1. SensorInit => SensorInv
  <2> SUFFICES ASSUME SensorInit PROVE SensorInv
    OBVIOUS
  <2>1. SensorTypeOK
    <3>1. 0 \in 0..Readings * LineLength - 1
      <4>1. Readings * LineLength >= 1 * LineLength
        BY SensorAssumption
      <4> QED BY SensorAssumption, <4>1
    <3>2. fifo \in Seq(Char) /\ uartBuf \in Seq(Char) /\ Len(fifo) = 0 /\ Len(uartBuf) = 0
      BY DEF SensorInit
    <3>3. boardAt \in 0..Readings * LineLength - 1 /\ lostOne \in BOOLEAN /\ readings \subseteq Seq(Char)
      BY <3>1 DEF SensorInit
    <3>4. UartFifo \in Nat /\ UartSize \in Nat
      BY SensorAssumption
    <3> QED BY <3>2, <3>3, <3>4 DEF SensorTypeOK
  <2>2. Len(Pieces) = 0
    BY DEF SensorInit, Pieces
  <2> QED BY <2>1, <2>2 DEF SensorInit, SensorInv, Joined, BoardGoesOnFrom, WholeReadings, Pieces
<1>2. SensorInv /\ [SensorNext]_sensorVars => SensorInv'
  <2> SUFFICES ASSUME SensorInv, [SensorNext]_sensorVars PROVE SensorInv'
    OBVIOUS
  <2>1. ASSUME NEW len \in 1..UartSize, ReadRunsOver(len) PROVE SensorInv'
    <3>1. fifo' = <<>> /\ uartBuf' = <<>> /\ readings' = {} /\ UNCHANGED <<boardAt, lostOne>>
      BY <2>1 DEF ReadRunsOver
    <3>2. SensorTypeOK'
      BY <3>1, SensorAssumption DEF SensorInv, SensorTypeOK
    <3>3. Len(Pieces') = 0 /\ Pieces' = <<>>
      BY <3>1 DEF Pieces
    <3> QED BY <3>1, <3>2, <3>3 DEF SensorInv, Joined, BoardGoesOnFrom, WholeReadings
  <2>2. CASE UNCHANGED sensorVars
    <3>1. UNCHANGED <<boardAt, lostOne, fifo, uartBuf, readings>> /\ Pieces' = Pieces
      BY <2>2 DEF sensorVars, Pieces
    <3>2. SensorTypeOK' /\ WholeReadings'
      BY <3>1 DEF SensorInv, SensorTypeOK, WholeReadings
    <3> QED BY <3>1, <3>2 DEF SensorInv, Joined, BoardGoesOnFrom
  <2> QED BY <2>1, <2>2, BoardSendsGood, ReadUartGood DEF SensorNext
<1> QED BY <1>1, <1>2, PTL DEF SensorSpec

\* A reading that loadcell_proc, tof_proc and set_pt_status get is one line of the board, or
\* has a gap that the UART driver has left: for every length of a line, of a read and of
\* the buffers, also when a read takes the place of what it has no room for, and after one
\* that has filled the buffer to its last byte.
THEOREM WholeReadingsCorrect == SensorSpec => []WholeReadings
<1>1. SensorInv => WholeReadings
  BY DEF SensorInv
<1> QED BY <1>1, SensorInvariant, PTL

-----------------------------------------------------------------------------
(* Sums of readings (Total) *)

\* The partial sums of the readings
SumsOf(ws, f) == f = [i \in 0..Len(ws) |-> IF i = 0 THEN 0 ELSE f[i - 1] + ws[i]]

\* Total is the last of them.
LEMMA TotalIsASum ==
  ASSUME NEW ws \in Seq(Nat)
  PROVE  \E f : SumsOf(ws, f) /\ Total(ws) = f[Len(ws)]
<1>1. Len(ws) \in Nat  BY LenProperties
<1> DEFINE Upto(n, f) == f = [i \in 0..n |-> IF i = 0 THEN 0 ELSE f[i - 1] + ws[i]]
           Bad == {n \in Nat : ~\E f : Upto(n, f)}
<1>2. Bad = {}
  <2> SUFFICES ASSUME Bad # {} PROVE FALSE  OBVIOUS
  <2>1. Bad \in SUBSET Nat  OBVIOUS
  <2>2. PICK n \in Bad : \A y \in Bad : n <= y
    <3> HIDE DEF Bad
    <3> QED  BY <2>1, Least
  <2>3. n \in Nat /\ ~\E f : Upto(n, f)  BY <2>2
  <2>4. n # 0
    <3>1. Upto(0, [i \in 0..0 |-> 0])  OBVIOUS
    <3> QED  BY <3>1, <2>3
  <2>5. n - 1 \in Nat /\ n - 1 \notin Bad
    <3>1. n - 1 \in Nat /\ ~(n <= n - 1)  BY <2>3, <2>4
    <3> HIDE DEF Bad
    <3> QED  BY <3>1, <2>2
  <2>6. PICK f : Upto(n - 1, f)  BY <2>5
  <2> DEFINE g == [i \in 0..n |-> IF i < n THEN f[i] ELSE f[n - 1] + ws[n]]
  <2>7. \A i \in 0..n - 1 : f[i] = IF i = 0 THEN 0 ELSE f[i - 1] + ws[i]
    <3>1. \A h, k : Upto(k, h) => \A i \in 0..k : h[i] = IF i = 0 THEN 0 ELSE h[i - 1] + ws[i]  OBVIOUS
    <3> QED  BY <3>1, <2>6
  <2>8. \A i \in 0..n : g[i] = IF i = 0 THEN 0 ELSE g[i - 1] + ws[i]
    <3> SUFFICES ASSUME NEW i \in 0..n PROVE g[i] = IF i = 0 THEN 0 ELSE g[i - 1] + ws[i]  OBVIOUS
    <3>1. CASE i = n
      <4>1. g[n] = f[n - 1] + ws[n] /\ g[n - 1] = f[n - 1]  BY <2>3, <2>4
      <4> QED  BY <3>1, <4>1, <2>4
    <3>2. CASE i # n
      <4>1. i \in 0..n - 1 /\ g[i] = f[i] /\ (i # 0 => g[i - 1] = f[i - 1])  BY <3>2, <2>3
      <4> QED  BY <4>1, <2>7
    <3> QED  BY <3>1, <3>2
  <2>9. Upto(n, g)
    <3>1. g = [i \in 0..n |-> g[i]]  OBVIOUS
    <3> HIDE DEF g
    <3> QED  BY <3>1, <2>8
  <2> QED  BY <2>3, <2>9
<1>3. \E f : SumsOf(ws, f)
  <2>1. Len(ws) \notin Bad  BY <1>2
  <2> QED  BY <1>1, <2>1 DEF SumsOf
<1>4. SumsOf(ws, CHOOSE f : SumsOf(ws, f))  BY <1>3, Zenon
<1>5. Total(ws) = (CHOOSE f : SumsOf(ws, f))[Len(ws)]  BY Zenon DEF Total, SumsOf
<1> QED  BY <1>4, <1>5

\* The partial sums, one by one: they are numbers.
LEMMA PartialSums ==
  ASSUME NEW ws \in Seq(Nat), NEW f, SumsOf(ws, f)
  PROVE  /\ Len(ws) \in Nat /\ f[0] = 0
         /\ \A i \in 1..Len(ws) : f[i] = f[i - 1] + ws[i] /\ ws[i] \in Nat
         /\ \A i \in 0..Len(ws) : f[i] \in Nat
<1>1. Len(ws) \in Nat /\ \A i \in 1..Len(ws) : ws[i] \in Nat  BY LenProperties, ElementOfSeq
<1>2. \A i \in 0..Len(ws) : f[i] = IF i = 0 THEN 0 ELSE f[i - 1] + ws[i]
  <2>1. PICK n : n = Len(ws)  OBVIOUS
  <2>2. f = [i \in 0..n |-> IF i = 0 THEN 0 ELSE f[i - 1] + ws[i]]  BY <2>1 DEF SumsOf
  <2>3. \A h, k : h = [i \in 0..k |-> IF i = 0 THEN 0 ELSE h[i - 1] + ws[i]] =>
          \A i \in 0..k : h[i] = IF i = 0 THEN 0 ELSE h[i - 1] + ws[i]
    OBVIOUS
  <2>4. \A i \in 0..n : f[i] = IF i = 0 THEN 0 ELSE f[i - 1] + ws[i]  BY <2>2, <2>3
  <2> QED  BY <2>1, <2>4
<1>3. f[0] = 0  BY <1>1, <1>2
<1>4. \A i \in 1..Len(ws) : f[i] = f[i - 1] + ws[i]  BY <1>1, <1>2
<1> DEFINE Bad == {n \in Nat : n <= Len(ws) /\ f[n] \notin Nat}
<1>5. Bad = {}
  <2> SUFFICES ASSUME Bad # {} PROVE FALSE  OBVIOUS
  <2>1. Bad \in SUBSET Nat  OBVIOUS
  <2>2. PICK n \in Bad : \A y \in Bad : n <= y
    <3> HIDE DEF Bad
    <3> QED  BY <2>1, Least
  <2>3. n \in Nat /\ n <= Len(ws) /\ f[n] \notin Nat  BY <2>2
  <2>4. n - 1 \in Nat /\ n \in 1..Len(ws) /\ n - 1 <= Len(ws) /\ ~(n <= n - 1)  BY <1>1, <1>3, <2>3
  <2>5. n - 1 \notin Bad
    <3> HIDE DEF Bad
    <3> QED  BY <2>2, <2>4
  <2>6. f[n - 1] \in Nat  BY <2>4, <2>5
  <2> QED  BY <1>1, <1>4, <2>3, <2>4, <2>6
<1>6. \A i \in 0..Len(ws) : f[i] \in Nat
  <2> SUFFICES ASSUME NEW i \in 0..Len(ws) PROVE f[i] \in Nat  OBVIOUS
  <2>1. i \in Nat /\ i <= Len(ws) /\ i \notin Bad
    <3>1. i \notin Bad  BY <1>5
    <3> QED  BY <1>1, <3>1
  <2> QED  BY <2>1
<1> QED  BY <1>1, <1>3, <1>4, <1>6

\* Nothing adds up to nothing.
LEMMA TotalEmpty == Total(<<>>) = 0
<1>1. <<>> \in Seq(Nat) /\ Len(<<>>) = 0  BY EmptySeq
<1>2. PICK f : SumsOf(<<>>, f) /\ Total(<<>>) = f[Len(<<>>)]  BY <1>1, TotalIsASum
<1>3. f[0] = 0  BY <1>1, <1>2, PartialSums
<1> QED  BY <1>1, <1>2, <1>3

\* One more reading adds to the sum of those before it.
LEMMA TotalAppend ==
  ASSUME NEW ws \in Seq(Nat), NEW w \in Nat
  PROVE  Total(ws) \in Nat /\ Total(Append(ws, w)) = Total(ws) + w
<1>1. PICK us : us = Append(ws, w)  OBVIOUS
<1>2. /\ us \in Seq(Nat) /\ Len(us) = Len(ws) + 1 /\ us[Len(ws) + 1] = w /\ Len(ws) \in Nat
      /\ \A i \in 1..Len(ws) : us[i] = ws[i]
  BY <1>1, AppendProperties, LenProperties
<1>3. PICK f : SumsOf(ws, f) /\ Total(ws) = f[Len(ws)]  BY TotalIsASum
<1>4. PICK g : SumsOf(us, g) /\ Total(us) = g[Len(us)]  BY <1>2, TotalIsASum
<1>5. /\ f[0] = 0 /\ (\A i \in 1..Len(ws) : f[i] = f[i - 1] + ws[i])
      /\ \A i \in 0..Len(ws) : f[i] \in Nat
  BY <1>3, PartialSums
<1>6. /\ g[0] = 0 /\ (\A i \in 1..Len(us) : g[i] = g[i - 1] + us[i])
  BY <1>2, <1>4, PartialSums
<1> DEFINE Bad == {n \in Nat : n <= Len(ws) /\ f[n] # g[n]}
<1>7. Bad = {}
  <2> SUFFICES ASSUME Bad # {} PROVE FALSE  OBVIOUS
  <2>1. Bad \in SUBSET Nat  OBVIOUS
  <2>2. PICK n \in Bad : \A y \in Bad : n <= y
    <3> HIDE DEF Bad
    <3> QED  BY <2>1, Least
  <2>3. n \in Nat /\ n <= Len(ws) /\ f[n] # g[n]  BY <2>2
  <2>4. n - 1 \in Nat /\ n \in 1..Len(ws) /\ n \in 1..Len(us) /\ n - 1 <= Len(ws) /\ ~(n <= n - 1)
    BY <1>2, <1>5, <1>6, <2>3
  <2>5. n - 1 \notin Bad
    <3> HIDE DEF Bad
    <3> QED  BY <2>2, <2>4
  <2>6. f[n - 1] = g[n - 1]  BY <2>4, <2>5
  <2> QED  BY <1>2, <1>5, <1>6, <2>3, <2>4, <2>6
<1>8. f[Len(ws)] = g[Len(ws)]
  <2>1. Len(ws) \notin Bad  BY <1>7
  <2> QED  BY <2>1, <1>2
<1>9. g[Len(us)] = g[Len(ws)] + w
  <2>1. Len(us) \in 1..Len(us) /\ Len(us) - 1 = Len(ws)  BY <1>2
  <2>2. g[Len(us)] = g[Len(us) - 1] + us[Len(us)]  BY <2>1, <1>6
  <2> QED  BY <2>1, <2>2, <1>2
<1>10. f[Len(ws)] \in Nat  BY <1>2, <1>5
<1> QED  BY <1>1, <1>3, <1>4, <1>8, <1>9, <1>10

-----------------------------------------------------------------------------
(* CatFsm: the ring of weights *)

Suffix(ws, m) == SubSeq(ws, m + 1, Len(ws))

\* Of the last readings, however many, at most k have the cat in them.
Light(ws, k) ==
  \A m \in 0..Len(ws) : Total(Suffix(ws, m)) <= (Len(ws) - m) * MaxLitter + k * CatWeight

\* The ends of a ring, and of one that has got or lost a reading
LEMMA SuffixIs ==
  ASSUME NEW ws \in Seq(Nat), NEW m \in 0..Len(ws)
  PROVE  /\ Suffix(ws, m) \in Seq(Nat) /\ Len(Suffix(ws, m)) = Len(ws) - m
         /\ \A i \in 1..Len(ws) - m : Suffix(ws, m)[i] = ws[m + i]
<1>1. Len(ws) \in Nat  BY LenProperties
<1>2. \A i \in m + 1..Len(ws) : ws[i] \in Nat  BY <1>1, ElementOfSeq
<1>3. PICK s : s = SubSeq(ws, m + 1, Len(ws))  OBVIOUS
<1>4. /\ s \in Seq(Nat) /\ Len(s) = IF m + 1 <= Len(ws) THEN Len(ws) - (m + 1) + 1 ELSE 0
      /\ \A i \in 1..Len(ws) - (m + 1) + 1 : s[i] = ws[(m + 1) + i - 1]
  <2>1. m + 1 \in Int /\ Len(ws) \in Int  BY <1>1
  <2> QED  BY <2>1, <1>2, <1>3, SubSeqProperties
<1>5. Len(s) = Len(ws) - m /\ Len(ws) - (m + 1) + 1 = Len(ws) - m  BY <1>1, <1>4
<1>6. \A i \in 1..Len(ws) - m : s[i] = ws[m + i]
  <2> SUFFICES ASSUME NEW i \in 1..Len(ws) - m PROVE s[i] = ws[m + i]  OBVIOUS
  <2>1. s[i] = ws[(m + 1) + i - 1]  BY <1>4, <1>5
  <2>2. (m + 1) + i - 1 = m + i  BY <1>1
  <2> QED  BY <2>1, <2>2
<1> QED  BY <1>3, <1>4, <1>5, <1>6 DEF Suffix

\* A reading more at the end
LEMMA SuffixAppend ==
  ASSUME NEW ws \in Seq(Nat), NEW w \in Nat, NEW m \in 0..Len(ws)
  PROVE  Suffix(Append(ws, w), m) = Append(Suffix(ws, m), w)
<1>1. PICK us, s, t : us = Append(ws, w) /\ s = Suffix(ws, m) /\ t = Append(Suffix(ws, m), w)  OBVIOUS
<1>2. /\ us \in Seq(Nat) /\ Len(us) = Len(ws) + 1 /\ us[Len(ws) + 1] = w /\ Len(ws) \in Nat
      /\ \A i \in 1..Len(ws) : us[i] = ws[i]
  BY <1>1, AppendProperties, LenProperties
<1>3. /\ s \in Seq(Nat) /\ Len(s) = Len(ws) - m /\ \A i \in 1..Len(ws) - m : s[i] = ws[m + i]
  BY <1>1, SuffixIs
<1>4. /\ t \in Seq(Nat) /\ Len(t) = Len(s) + 1 /\ t[Len(s) + 1] = w
      /\ \A i \in 1..Len(s) : t[i] = s[i]
  BY <1>1, <1>3, AppendProperties
<1>5. PICK u : u = Suffix(us, m)  OBVIOUS
<1>6. /\ u \in Seq(Nat) /\ Len(u) = Len(us) - m /\ \A i \in 1..Len(us) - m : u[i] = us[m + i]
  <2>1. m \in 0..Len(us)  BY <1>2
  <2> QED  BY <2>1, <1>2, <1>5, SuffixIs
<1>7. Len(t) = Len(u)  BY <1>2, <1>3, <1>4, <1>6
<1>8. ASSUME NEW i \in 1..Len(t) PROVE t[i] = u[i]
  <2>1. u[i] = us[m + i]  BY <1>6, <1>7
  <2>2. CASE i = Len(s) + 1
    <3>1. m + i = Len(ws) + 1  BY <2>2, <1>2, <1>3
    <3> QED  BY <2>1, <2>2, <3>1, <1>2, <1>4
  <2>3. CASE i # Len(s) + 1
    <3>0. Len(s) = Len(ws) - m /\ Len(s) \in Nat /\ m \in Nat /\ Len(t) = Len(s) + 1
      BY <1>2, <1>3, <1>4
    <3>1. i \in 1..Len(s)  BY <2>3, <3>0
    <3>2. i \in 1..Len(ws) - m  BY <3>0, <3>1
    <3>3. m + i \in 1..Len(ws)  BY <1>2, <3>0, <3>1
    <3>4. t[i] = s[i]  BY <3>1, <1>4
    <3>5. s[i] = ws[m + i]  BY <3>2, <1>3
    <3>6. us[m + i] = ws[m + i]  BY <3>3, <1>2
    <3> QED  BY <2>1, <3>4, <3>5, <3>6
  <2> QED  BY <2>2, <2>3
<1>9. t = u  BY <1>4, <1>6, <1>7, <1>8, SeqEqual
<1> QED  BY <1>1, <1>5, <1>9

\* A reading less at the start
LEMMA SuffixTail ==
  ASSUME NEW ws \in Seq(Nat), ws # <<>>, NEW m \in 0..Len(ws) - 1
  PROVE  Suffix(Tail(ws), m) = Suffix(ws, m + 1)
<1>1. PICK us, s, u : us = Tail(ws) /\ s = Suffix(ws, m + 1) /\ u = Suffix(us, m)  OBVIOUS
<1>2. /\ us \in Seq(Nat) /\ Len(us) = Len(ws) - 1 /\ Len(ws) \in Nat
      /\ \A i \in 1..Len(ws) - 1 : us[i] = ws[i + 1]
  BY <1>1, HeadTailProperties, LenProperties
<1>3. m + 1 \in 0..Len(ws) /\ m \in 0..Len(us)  BY <1>2
<1>4. /\ s \in Seq(Nat) /\ Len(s) = Len(ws) - (m + 1) /\ \A i \in 1..Len(ws) - (m + 1) : s[i] = ws[(m + 1) + i]
  BY <1>1, <1>3, SuffixIs
<1>5. /\ u \in Seq(Nat) /\ Len(u) = Len(us) - m /\ \A i \in 1..Len(us) - m : u[i] = us[m + i]
  BY <1>1, <1>2, <1>3, SuffixIs
<1>6. Len(s) = Len(u)  BY <1>2, <1>4, <1>5
<1>7. ASSUME NEW i \in 1..Len(s) PROVE s[i] = u[i]
  <2>1. s[i] = ws[(m + 1) + i] /\ u[i] = us[m + i]  BY <1>4, <1>5, <1>6
  <2>2. m + i \in 1..Len(ws) - 1 /\ (m + i) + 1 = (m + 1) + i  BY <1>2, <1>4
  <2>3. us[m + i] = ws[(m + i) + 1]  BY <2>2, <1>2
  <2> QED  BY <2>1, <2>2, <2>3
<1>8. s = u  BY <1>4, <1>5, <1>6, <1>7, SeqEqual
<1> QED  BY <1>1, <1>8

\* All the readings are an end of the ring.
LEMMA SuffixAll ==
  ASSUME NEW ws \in Seq(Nat)
  PROVE  Suffix(ws, 0) = ws
<1>1. PICK s : s = Suffix(ws, 0)  OBVIOUS
<1>2. 0 \in 0..Len(ws) /\ Len(ws) \in Nat  BY LenProperties
<1>3. s \in Seq(Nat) /\ Len(s) = Len(ws) - 0 /\ \A i \in 1..Len(ws) - 0 : s[i] = ws[0 + i]
  BY <1>1, <1>2, SuffixIs
<1>4. Len(s) = Len(ws) /\ \A i \in 1..Len(s) : s[i] = ws[i]  BY <1>2, <1>3
<1>5. s = ws  BY <1>3, <1>4, SeqEqual
<1> QED  BY <1>1, <1>5

\* A reading without the cat keeps the count, one with it adds one.
LEMMA LightAppend ==
  ASSUME NEW ws \in Seq(Nat), NEW k \in Nat, NEW d \in {0, 1}, Light(ws, k),
         NEW w \in Nat, w <= MaxLitter + d * CatWeight
  PROVE  Light(Append(ws, w), k + d)
<1>1. PICK us : us = Append(ws, w)  OBVIOUS
<1>2. us \in Seq(Nat) /\ Len(us) = Len(ws) + 1 /\ Len(ws) \in Nat
  BY <1>1, AppendProperties, LenProperties
<1>3. MaxLitter \in Nat /\ CatWeight \in Nat  BY CatAssumption
<1>4. ASSUME NEW m \in 0..Len(us)
      PROVE  Total(Suffix(us, m)) <= (Len(us) - m) * MaxLitter + (k + d) * CatWeight
  <2>1. CASE m = Len(us)
    <3>1. Suffix(us, m) \in Seq(Nat) /\ Len(Suffix(us, m)) = Len(us) - m  BY <1>2, SuffixIs
    <3>2. Len(Suffix(us, m)) = 0  BY <3>1, <2>1, <1>2
    <3>3. Suffix(us, m) = <<>>  BY <3>1, <3>2, EmptySeq
    <3>4. Total(Suffix(us, m)) = 0  BY <3>3, TotalEmpty
    <3>5. (Len(us) - m) * MaxLitter = 0  BY <2>1, <1>2, <1>3
    <3>6. (k + d) * CatWeight \in Nat  BY <1>3
    <3> QED  BY <3>4, <3>5, <3>6
  <2>2. CASE m # Len(us)
    <3>1. m \in 0..Len(ws)  BY <2>2, <1>2
    <3>2. Suffix(us, m) = Append(Suffix(ws, m), w)  BY <3>1, <1>1, SuffixAppend
    <3>3. Suffix(ws, m) \in Seq(Nat)  BY <3>1, SuffixIs
    <3>4. Total(Suffix(ws, m)) \in Nat /\ Total(Suffix(us, m)) = Total(Suffix(ws, m)) + w
      BY <3>2, <3>3, TotalAppend
    <3>5. Total(Suffix(ws, m)) <= (Len(ws) - m) * MaxLitter + k * CatWeight  BY <3>1 DEF Light
    <3>6. (Len(us) - m) * MaxLitter = (Len(ws) - m) * MaxLitter + MaxLitter  BY <1>2, <1>3
    <3>7. (k + d) * CatWeight = k * CatWeight + d * CatWeight  BY <1>3
    <3>8. (Len(ws) - m) * MaxLitter \in Int /\ k * CatWeight \in Int /\ d * CatWeight \in Int
      BY <1>2, <1>3
    <3> QED  BY <3>4, <3>5, <3>6, <3>7, <3>8, <1>3
  <2> QED  BY <2>1, <2>2
<1>5. Light(us, k + d)  BY <1>4 DEF Light
<1> QED  BY <1>1, <1>5

\* The reading that falls out of the ring raises nothing.
LEMMA LightTail ==
  ASSUME NEW ws \in Seq(Nat), ws # <<>>, NEW k \in Nat, Light(ws, k)
  PROVE  Light(Tail(ws), k)
<1>1. PICK us : us = Tail(ws)  OBVIOUS
<1>2. us \in Seq(Nat) /\ Len(us) = Len(ws) - 1 /\ Len(ws) \in Nat
  BY <1>1, HeadTailProperties, LenProperties
<1>3. ASSUME NEW m \in 0..Len(us)
      PROVE  Total(Suffix(us, m)) <= (Len(us) - m) * MaxLitter + k * CatWeight
  <2>1. m \in 0..Len(ws) - 1 /\ m + 1 \in 0..Len(ws) /\ Len(ws) - (m + 1) = Len(us) - m  BY <1>2
  <2>2. Suffix(us, m) = Suffix(ws, m + 1)  BY <2>1, <1>1, SuffixTail
  <2>3. Total(Suffix(ws, m + 1)) <= (Len(ws) - (m + 1)) * MaxLitter + k * CatWeight  BY <2>1 DEF Light
  <2> QED  BY <2>1, <2>2, <2>3
<1>4. Light(us, k)  BY <1>3 DEF Light
<1> QED  BY <1>1, <1>4

\* push_cat_ring_buffer lengthens the ring until it is full.
LEMMA RingPushed ==
  ASSUME NEW ws \in Seq(Nat), weights = ws, Len(ws) <= CatWindow, NEW w \in Nat
  PROVE  /\ Push(w) \in Seq(Nat)
         /\ Len(Push(w)) = IF Len(ws) < CatWindow THEN Len(ws) + 1 ELSE CatWindow
<1>1. Len(ws) \in Nat /\ CatWindow \in Nat /\ CatWindow # 0  BY CatAssumption, LenProperties
<1>2. CASE Len(ws) < CatWindow
  <2>1. Push(w) = Append(ws, w)  BY <1>2 DEF Push
  <2>2. Append(ws, w) \in Seq(Nat) /\ Len(Append(ws, w)) = Len(ws) + 1  BY AppendProperties
  <2> QED  BY <2>1, <2>2, <1>2
<1>3. CASE ~(Len(ws) < CatWindow)
  <2>1. Push(w) = Append(Tail(ws), w)  BY <1>3 DEF Push
  <2>2. ws # <<>>  BY <1>1, <1>3, EmptySeq
  <2>3. Tail(ws) \in Seq(Nat) /\ Len(Tail(ws)) = Len(ws) - 1  BY <2>2, HeadTailProperties
  <2>4. Append(Tail(ws), w) \in Seq(Nat) /\ Len(Append(Tail(ws), w)) = Len(Tail(ws)) + 1
    BY <2>3, AppendProperties
  <2>5. Len(ws) = CatWindow  BY <1>1, <1>3
  <2>6. Len(Append(Tail(ws), w)) = CatWindow  BY <1>1, <2>3, <2>4, <2>5
  <2> QED  BY <2>1, <2>4, <2>6, <1>3
<1> QED  BY <1>2, <1>3

\* ... and counts as much as its new reading.
LEMMA PushLight ==
  ASSUME NEW ws \in Seq(Nat), weights = ws, Len(ws) <= CatWindow, NEW k \in Nat, Light(ws, k),
         NEW d \in {0, 1}, NEW w \in Nat, w <= MaxLitter + d * CatWeight
  PROVE  Light(Push(w), k + d)
<1>1. Len(ws) \in Nat /\ CatWindow \in Nat /\ CatWindow # 0  BY CatAssumption, LenProperties
<1>2. CASE Len(ws) < CatWindow
  <2>1. Push(w) = Append(ws, w)  BY <1>2 DEF Push
  <2>2. Light(Append(ws, w), k + d)  BY LightAppend
  <2> QED  BY <2>1, <2>2
<1>3. CASE ~(Len(ws) < CatWindow)
  <2>1. Push(w) = Append(Tail(ws), w)  BY <1>3 DEF Push
  <2>2. ws # <<>>  BY <1>1, <1>3, EmptySeq
  <2>3. PICK ts : ts = Tail(ws)  OBVIOUS
  <2>4. ts \in Seq(Nat)  BY <2>2, <2>3, HeadTailProperties
  <2>5. Light(ts, k)  BY <2>2, <2>3, LightTail
  <2>6. Light(Append(ts, w), k + d)  BY <2>4, <2>5, LightAppend
  <2> QED  BY <2>1, <2>3, <2>6
<1> QED  BY <1>2, <1>3

\* k of the visits have left a reading in the ring, which is as much longer or full; and a
\* cat that is in the box has been seen, or its reading is still to come.
Seen(k) ==
  /\ Light(weights, k)
  /\ Len(weights) = CatWindow \/ Len(weights) >= Learn + k
  /\ cat => catState = "OCCUPIED" \/ k < visits

CatTyped ==
  /\ {cat, running, wasRunning, paused, asked, quiet} \subseteq BOOLEAN
  /\ litter \in 0..MaxLitter /\ visits \in 0..MaxVisits
  /\ catState \in {"INIT", "IDLE", "OCCUPIED", "WAIT_CLEAN"}
  /\ weights \in Seq(Nat) /\ Len(weights) <= CatWindow

\* What a ring that is being filled, and one that is full enough for a mean, have seen
RingFilling == Len(weights) < Learn /\ (quiet => Light(weights, 0))
RingLearned == Len(weights) >= Learn /\ (quiet => \E k \in 0..visits : Seen(k))

CatInv ==
  /\ CatTyped /\ NeverCleansOccupied
  /\ catState = "INIT" => RingFilling
  /\ catState # "INIT" => RingLearned

\* A cat weighs enough more than what makes it one for the mean that its visits raise, in
\* the first readings and in a full ring.
CatStandsOut ==
  /\ Learn > 1
  /\ (CatWeight - Entry - MaxLitter) * Learn >= MaxVisits * (Entry + MaxLitter)
  /\ (CatWeight - Entry - MaxLitter) * CatWindow >= MaxVisits * CatWeight

\* The larger factor gives the larger product.
LEMMA Product ==
  ASSUME NEW a \in Nat, NEW b \in Int, NEW c \in Int, b <= c
  PROVE  a * b <= a * c
<1>1. c - b \in Nat  BY SMT
<1>2. a * (c - b) \in Nat  BY <1>1
<1>3. a * (c - b) = a * c - a * b  BY SMT
<1>4. a * b \in Int /\ a * c \in Int  BY SMT
<1> QED  BY <1>2, <1>3, <1>4

\* The readings with the cat do not raise the mean to where the cat goes unnoticed.
LEMMA Margin ==
  ASSUME CatStandsOut, NEW k \in 0..MaxVisits, NEW n \in Nat, n >= Learn,
         n = CatWindow \/ n >= Learn + k
  PROVE  /\ CatWeight - Entry - MaxLitter \in Nat
         /\ k * CatWeight <= (CatWeight - Entry - MaxLitter) * n
<1> DEFINE D == CatWeight - Entry - MaxLitter
<1>1. /\ {MaxLitter, MaxVisits, CatWeight, Entry, Learn, CatWindow, k} \subseteq Nat
      /\ k <= MaxVisits /\ D \in Int /\ Learn > 0 /\ n \in Nat
  BY CatAssumption
<1>2. D * Learn >= MaxVisits * (Entry + MaxLitter) /\ D * CatWindow >= MaxVisits * CatWeight
  BY DEF CatStandsOut
<1>3. CatWeight = D + (Entry + MaxLitter)  BY <1>1
<1>4. D \in Nat
  <2> SUFFICES ASSUME ~(D >= 0) PROVE FALSE  BY <1>1
  <2>1. MaxVisits * (Entry + MaxLitter) \in Nat  BY <1>1
  <2>2. -D - 1 \in Nat  BY <1>1
  <2>3. (-D - 1) * Learn \in Nat  BY <1>1, <2>2
  <2>4. D * Learn = -((-D - 1) * Learn) - Learn  BY <1>1
  <2>5. D * Learn \in Int  BY <1>1
  <2> QED  BY <1>1, <1>2, <2>1, <2>3, <2>4, <2>5
<1> HIDE DEF D
<1>5. Entry + MaxLitter \in Nat  BY <1>1
<1>6. CASE n = CatWindow
  <2>1. CatWeight * k <= CatWeight * MaxVisits  BY <1>1, Product
  <2>2. k * CatWeight = CatWeight * k /\ MaxVisits * CatWeight = CatWeight * MaxVisits  BY <1>1
  <2>3. /\ k * CatWeight \in Int /\ MaxVisits * CatWeight \in Int /\ D * CatWindow \in Int
    BY <1>1
  <2>4. k * CatWeight <= D * n  BY <2>1, <2>2, <2>3, <1>2, <1>6
  <2> QED  BY <2>4, <1>4 DEF D
<1>7. CASE n >= Learn + k
  <2> DEFINE E == Entry + MaxLitter
  <2>1. E \in Nat /\ CatWeight = D + E  BY <1>3, <1>5
  <2> HIDE DEF E
  <2>2. D * (Learn + k) <= D * n  BY <1>1, <1>4, <1>7, Product
  <2>3. D * (Learn + k) = D * Learn + D * k  BY <1>1
  <2>4. E * k <= E * MaxVisits  BY <1>1, <2>1, Product
  <2>5. k * CatWeight = D * k + E * k
    <3>1. k * (D + E) = D * k + E * k  BY <1>1, <2>1
    <3> QED  BY <3>1, <2>1
  <2>6. E * MaxVisits <= D * Learn
    <3>1. E * MaxVisits = MaxVisits * E  BY <1>1, <2>1
    <3>2. D * Learn >= MaxVisits * E  BY <1>2 DEF E
    <3>3. D * Learn \in Int /\ MaxVisits * E \in Int  BY <1>1, <2>1
    <3> QED  BY <3>1, <3>2, <3>3
  <2>7. /\ D * Learn \in Int /\ D * k \in Int /\ E * k \in Int /\ E * MaxVisits \in Int
        /\ D * n \in Int
    BY <1>1, <2>1
  <2>8. k * CatWeight <= D * n  BY <2>2, <2>3, <2>4, <2>5, <2>6, <2>7
  <2> QED  BY <2>8, <1>4 DEF D
<1> QED  BY <1>6, <1>7

\* The cat is noticed when it comes, and while it stays.
LEMMA Noticed ==
  ASSUME CatStandsOut, NEW ws \in Seq(Nat), NEW k \in 0..MaxVisits, Light(ws, k),
         Len(ws) >= Learn, Len(ws) = CatWindow \/ Len(ws) >= Learn + k,
         NEW l \in 0..MaxLitter
  PROVE  AtLeast(l + CatWeight, ws, Entry) /\ ~AtMost(l + CatWeight, ws, Exit)
<1> DEFINE D == CatWeight - Entry - MaxLitter
<1>1. PICK n : n = Len(ws)  OBVIOUS
<1>2. n \in Nat /\ n >= Learn /\ (n = CatWindow \/ n >= Learn + k)  BY <1>1, LenProperties
<1>3. /\ MaxLitter \in Nat /\ CatWeight \in Nat /\ Entry \in Nat /\ Exit \in Nat
      /\ Learn \in Nat /\ k \in Nat /\ n \in Nat
      /\ Learn > 0 /\ n > 0 /\ Exit < Entry
  BY <1>2, CatAssumption
<1>4. D \in Nat /\ k * CatWeight <= D * n
  <2>1. CatWeight - Entry - MaxLitter \in Nat /\ k * CatWeight <= (CatWeight - Entry - MaxLitter) * n
    BY <1>2, Margin
  <2> QED  BY <2>1
<1>5. Total(ws) <= n * MaxLitter + k * CatWeight
  <2>1. 0 \in 0..Len(ws)  BY <1>1, <1>2
  <2>2. Total(Suffix(ws, 0)) <= (Len(ws) - 0) * MaxLitter + k * CatWeight  BY <2>1 DEF Light
  <2>3. Suffix(ws, 0) = ws /\ Len(ws) - 0 = n  BY <1>1, <1>2, SuffixAll
  <2> QED  BY <2>2, <2>3
<1>6. Total(ws) \in Nat
  <2>1. 0 \in Nat  OBVIOUS
  <2> QED  BY <2>1, TotalAppend
<1>7. PICK a : a = CatWeight - Entry  OBVIOUS
<1>8. a \in Nat /\ a = D + MaxLitter
  <2>1. CatWeight - Entry - MaxLitter \in Nat  BY <1>4
  <2>2. a = (CatWeight - Entry - MaxLitter) + MaxLitter  BY <1>3, <1>7
  <2>3. a \in Nat  BY <2>1, <2>2, <1>3
  <2> QED  BY <2>2, <2>3
<1> HIDE DEF D
<1>9. n * a = n * MaxLitter + D * n
  <2>1. n * (D + MaxLitter) = n * MaxLitter + D * n  BY <1>3, <1>4
  <2> QED  BY <2>1, <1>8
<1>10. Total(ws) <= n * a
  <2>1. n * MaxLitter \in Int /\ k * CatWeight \in Int  BY <1>3
  <2>2. D * n \in Int  BY <1>3, <1>4
  <2>3. n * a \in Int  BY <1>3, <1>8
  <2> QED  BY <2>1, <2>2, <2>3, <1>4, <1>5, <1>6, <1>9
<1>11. AtLeast(l + CatWeight, ws, Entry)
  <2>1. (l + CatWeight) - Entry \in Int /\ a <= (l + CatWeight) - Entry  BY <1>3, <1>7, <1>8
  <2>2. n * a <= n * ((l + CatWeight) - Entry)  BY <2>1, <1>3, <1>8, Product
  <2>3. n * ((l + CatWeight) - Entry) = ((l + CatWeight) - Entry) * n  BY <2>1, <1>3
  <2>4. n * a \in Int /\ ((l + CatWeight) - Entry) * n \in Int  BY <2>1, <1>3, <1>8
  <2>5. ((l + CatWeight) - Entry) * n >= Total(ws)  BY <2>2, <2>3, <2>4, <1>6, <1>10
  <2> QED  BY <2>5, <1>1 DEF AtLeast
<1>12. ~AtMost(l + CatWeight, ws, Exit)
  <2>1. (l + CatWeight) - Exit \in Int /\ a + 1 <= (l + CatWeight) - Exit /\ a + 1 \in Int
    BY <1>3, <1>7, <1>8
  <2>2. n * (a + 1) <= n * ((l + CatWeight) - Exit)  BY <2>1, <1>3, <1>8, Product
  <2>3. n * ((l + CatWeight) - Exit) = ((l + CatWeight) - Exit) * n  BY <2>1, <1>3
  <2>4. n * (a + 1) = n * a + n  BY <1>3, <1>8
  <2>5. n * a \in Int /\ ((l + CatWeight) - Exit) * n \in Int  BY <2>1, <1>3, <1>8
  <2>6. ~(((l + CatWeight) - Exit) * n <= Total(ws))  BY <2>2, <2>3, <2>4, <2>5, <1>3, <1>6, <1>10
  <2> QED  BY <2>6, <1>1 DEF AtMost
<1> QED  BY <1>11, <1>12

\* An empty ring has no cat in it.
LEMMA LightEmpty == Light(<<>>, 0)
<1>1. <<>> \in Seq(Nat) /\ Len(<<>>) = 0  BY EmptySeq
<1>2. MaxLitter \in Nat /\ CatWeight \in Nat  BY CatAssumption
<1>3. ASSUME NEW m \in 0..Len(<<>>)
      PROVE  Total(Suffix(<<>>, m)) <= (Len(<<>>) - m) * MaxLitter + 0 * CatWeight
  <2>1. m = 0  BY <1>1
  <2>2. Suffix(<<>>, m) = <<>>  BY <1>1, <2>1, SuffixAll
  <2>3. Total(Suffix(<<>>, m)) = 0  BY <2>2, TotalEmpty
  <2>4. (Len(<<>>) - m) * MaxLitter = 0 /\ 0 * CatWeight = 0  BY <1>1, <1>2, <2>1
  <2> QED  BY <2>3, <2>4
<1> QED  BY <1>3 DEF Light

\* What a sample says of the cat and its visits
Comes(c) ==
  /\ cat' = c /\ ((c /\ ~cat) => visits < MaxVisits)
  /\ visits' = IF Len(weights') <= 1 THEN 0 ELSE visits + (IF c /\ ~cat THEN 1 ELSE 0)

\* A visit is counted, and none is forgotten while the ring goes on.
LEMMA VisitsCounted ==
  ASSUME CatTyped, NEW c \in BOOLEAN, Comes(c), weights' \in Seq(Nat)
  PROVE  /\ visits' \in 0..MaxVisits
         /\ Len(weights') > 1 => visits' >= visits /\ (c /\ ~cat => visits' = visits + 1)
<1>1. visits \in 0..MaxVisits /\ MaxVisits \in Nat  BY CatAssumption DEF CatTyped
<1>2. PICK n : n = Len(weights')  OBVIOUS
<1>3. n \in Nat  BY <1>2, LenProperties
<1>4. CASE c /\ ~cat
  <2>1. visits < MaxVisits /\ visits' = IF n <= 1 THEN 0 ELSE visits + 1  BY <1>2, <1>4 DEF Comes
  <2> QED  BY <1>1, <1>2, <1>3, <2>1
<1>5. CASE ~(c /\ ~cat)
  <2>1. visits' = IF n <= 1 THEN 0 ELSE visits + 0  BY <1>2, <1>5 DEF Comes
  <2> QED  BY <1>1, <1>2, <1>3, <1>5, <2>1
<1> QED  BY <1>4, <1>5

\* What process_cat_detection_fsm leaves behind
Kept ==
  /\ weights' \in Seq(Nat) /\ Len(weights') <= CatWindow
  /\ catState' \in {"INIT", "IDLE", "OCCUPIED", "WAIT_CLEAN"}
  /\ {asked', quiet'} \subseteq BOOLEAN
  /\ asked' /\ quiet' => ~cat'
  /\ catState' = "INIT" => RingFilling'
  /\ catState' # "INIT" => RingLearned'

\* A sample of an empty box, and one of a box with the cat in it
LEMMA WeightOf ==
  ASSUME NEW c \in BOOLEAN, NEW l \in 0..MaxLitter
  PROVE  /\ l + (IF c THEN CatWeight ELSE 0) \in Nat
         /\ l + (IF c THEN CatWeight ELSE 0) <= MaxLitter + (IF c THEN 1 ELSE 0) * CatWeight
         /\ c => l + (IF c THEN CatWeight ELSE 0) = l + CatWeight
<1>1. MaxLitter \in Nat /\ CatWeight \in Nat  BY CatAssumption
<1>2. CASE c
  <2>1. 1 * CatWeight = CatWeight  BY <1>1
  <2> QED  BY <1>1, <1>2, <2>1
<1>3. CASE ~c
  <2>1. 0 * CatWeight = 0  BY <1>1
  <2> QED  BY <1>1, <1>3, <2>1
<1> QED  BY <1>2, <1>3

\* A reading in a ring that is full enough for a mean is one of the empty box, or it shows
\* the cat.
LEMMA PushSeen ==
  ASSUME CatStandsOut, CatTyped, RingLearned, quiet, catState # "OCCUPIED",
         NEW c \in BOOLEAN, Comes(c), NEW l \in 0..MaxLitter,
         NEW w, w = l + (IF c THEN CatWeight ELSE 0), weights' = Push(w)
  PROVE  /\ \E k \in 0..visits' : /\ Light(weights', k)
                                  /\ Len(weights') = CatWindow \/ Len(weights') >= Learn + k
         /\ c => AtLeast(w, weights', Entry)
<1> DEFINE d == IF c THEN 1 ELSE 0
<1>1. /\ Learn \in Nat /\ CatWindow \in Nat /\ Learn > 1 /\ Learn <= CatWindow /\ MaxVisits \in Nat
      /\ MaxLitter \in Nat /\ CatWeight \in Nat
  BY CatAssumption DEF CatStandsOut
<1>2. PICK ws : ws = weights  OBVIOUS
<1>3. ws \in Seq(Nat) /\ Len(ws) <= CatWindow /\ Len(ws) >= Learn /\ Len(ws) \in Nat
  BY <1>2, LenProperties DEF CatTyped, RingLearned
<1>4. PICK k \in 0..visits : Seen(k)  BY DEF RingLearned
<1>5. /\ Light(ws, k) /\ (Len(ws) = CatWindow \/ Len(ws) >= Learn + k)
      /\ (cat => k < visits) /\ k \in Nat /\ visits \in 0..MaxVisits /\ k <= visits
  <2>1. visits \in 0..MaxVisits  BY DEF CatTyped
  <2> QED  BY <1>2, <1>4, <1>1, <2>1 DEF Seen
<1>6. w \in Nat /\ w <= MaxLitter + d * CatWeight /\ (c => w = l + CatWeight)  BY WeightOf
<1>7. PICK us : us = Push(w)  OBVIOUS
<1>8. us \in Seq(Nat) /\ Len(us) = IF Len(ws) < CatWindow THEN Len(ws) + 1 ELSE CatWindow
  <2>1. weights = ws  BY <1>2
  <2> QED  BY <2>1, <1>3, <1>6, <1>7, RingPushed
<1>9. d \in {0, 1}  OBVIOUS
<1> HIDE DEF d
<1>10. Light(us, k + d)
  <2>1. weights = ws  BY <1>2
  <2> QED  BY <2>1, <1>3, <1>5, <1>6, <1>7, <1>9, PushLight
<1>11. Len(us) >= Learn /\ Len(us) > 1 /\ (Len(us) = CatWindow \/ Len(us) >= Learn + (k + d))
  <2>1. CASE Len(ws) < CatWindow
    <3>1. Len(us) = Len(ws) + 1 /\ Len(ws) >= Learn + k  BY <2>1, <1>3, <1>5, <1>8
    <3> QED  BY <3>1, <1>1, <1>3, <1>5, <1>9
  <2>2. CASE ~(Len(ws) < CatWindow)
    <3>1. Len(us) = CatWindow  BY <2>2, <1>8
    <3> QED  BY <3>1, <1>1
  <2> QED  BY <2>1, <2>2
<1>12. /\ visits' \in 0..MaxVisits /\ visits' >= visits /\ (c /\ ~cat => visits' = visits + 1)
  <2>1. weights' = us  BY <1>7
  <2>2. weights' \in Seq(Nat) /\ Len(weights') > 1  BY <2>1, <1>8, <1>11
  <2> QED  BY <2>2, VisitsCounted
<1>13. k + d \in 0..visits'
  <2>1. CASE c
    <3>1. d = 1  BY <2>1 DEF d
    <3>2. CASE cat  BY <3>1, <3>2, <1>5, <1>12
    <3>3. CASE ~cat
      <4>1. visits' = visits + 1  BY <2>1, <3>3, <1>12
      <4> QED  BY <4>1, <3>1, <1>5
    <3> QED  BY <3>2, <3>3
  <2>2. CASE ~c
    <3>1. d = 0  BY <2>2 DEF d
    <3> QED  BY <3>1, <1>5, <1>12
  <2> QED  BY <2>1, <2>2
<1>14. ASSUME c PROVE AtLeast(w, us, Entry)
  <2>1. PICK j : j = k + d  OBVIOUS
  <2>2. j \in 0..MaxVisits  BY <2>1, <1>1, <1>12, <1>13
  <2>3. Light(us, j) /\ (Len(us) = CatWindow \/ Len(us) >= Learn + j)  BY <2>1, <1>10, <1>11
  <2>4. AtLeast(l + CatWeight, us, Entry)  BY <2>2, <2>3, <1>8, <1>11, Noticed
  <2> QED  BY <2>4, <1>6, <1>14
<1>15. weights' = us  BY <1>7
<1> QED  BY <1>10, <1>11, <1>13, <1>14, <1>15

\* A reading of the first mean
LEMMA LearningKeeps ==
  ASSUME CatStandsOut, CatTyped, NEW c \in BOOLEAN, Comes(c), NEW l \in 0..MaxLitter,
         NEW w, w = l + (IF c THEN CatWeight ELSE 0),
         NEW ws \in Seq(Nat), Len(ws) < Learn, ws # <<>> /\ quiet => Light(ws, 0), Learning(w, ws)
  PROVE  Kept
<1>1. /\ Learn \in Nat /\ CatWindow \in Nat /\ Learn <= CatWindow
      /\ MaxLitter \in Nat /\ CatWeight \in Nat /\ Len(ws) \in Nat
  BY CatAssumption, LenProperties
<1>2. w \in Nat /\ (~c => w <= MaxLitter)
  <2>1. w \in Nat  BY WeightOf
  <2>2. CASE ~c  BY <2>2, <1>1
  <2> QED  BY <2>1, <2>2
<1>3. PICK us : us = Append(ws, w)  OBVIOUS
<1>4. weights' = us  BY <1>3 DEF Learning
<1>5. us \in Seq(Nat) /\ Len(us) = Len(ws) + 1  BY <1>2, <1>3, AppendProperties
<1>6. catState' = IF Len(us) >= Learn THEN "IDLE" ELSE "INIT"  BY <1>5 DEF Learning
<1>7. asked' = FALSE /\ cat' = c  BY DEF Learning, Comes
<1>8. quiet' = ((ws = <<>> \/ quiet) /\ ~cat')  BY DEF Learning
<1>9. quiet' \in BOOLEAN /\ (quiet' => (ws = <<>> \/ quiet) /\ ~c)  BY <1>7, <1>8, Zenon
<1>10. ASSUME quiet' PROVE Light(us, 0)
  <2>1. Light(ws, 0)
    <3>1. CASE ws = <<>>  BY <3>1, LightEmpty
    <3>2. CASE ws # <<>>  BY <3>2, <1>9, <1>10
    <3> QED  BY <3>1, <3>2
  <2>2. 0 \in Nat /\ 0 \in {0, 1} /\ MaxLitter + 0 * CatWeight = MaxLitter  BY <1>1
  <2>3. w <= MaxLitter + 0 * CatWeight  BY <1>2, <1>9, <1>10, <2>2
  <2>4. Light(Append(ws, w), 0 + 0)  BY <2>1, <2>2, <2>3, <1>2, LightAppend
  <2>5. 0 + 0 = 0  OBVIOUS
  <2> QED  BY <2>4, <2>5, <1>3
<1>11. visits' \in 0..MaxVisits
  <2>1. weights' \in Seq(Nat)  BY <1>4, <1>5
  <2> QED  BY <2>1, VisitsCounted
<1>12. /\ weights' \in Seq(Nat) /\ Len(weights') <= CatWindow /\ Len(weights') \in Nat
       /\ catState' \in {"INIT", "IDLE", "OCCUPIED", "WAIT_CLEAN"}
  BY <1>1, <1>4, <1>5, <1>6
<1>13. ASSUME catState' = "INIT" PROVE RingFilling'
  <2>1. ~(Len(us) >= Learn)  BY <1>6, <1>13
  <2>2. Len(weights') < Learn  BY <2>1, <1>1, <1>4, <1>5
  <2> QED  BY <2>2, <1>4, <1>10 DEF RingFilling
<1>14. ASSUME catState' # "INIT" PROVE RingLearned'
  <2>1. Len(us) >= Learn  BY <1>6, <1>14
  <2>2. Len(weights') >= Learn /\ Len(weights') >= Learn + 0  BY <2>1, <1>1, <1>4, <1>5
  <2>3. ASSUME quiet' PROVE \E k \in 0..visits' : Seen(k)'
    <3>1. Light(weights', 0)  BY <2>3, <1>4, <1>10
    <3>2. ~cat'  BY <2>3, <1>7, <1>9
    <3>3. Seen(0)'  BY <2>2, <3>1, <3>2 DEF Seen
    <3>4. 0 \in 0..visits'  BY <1>11
    <3> QED  BY <3>3, <3>4
  <2> QED  BY <2>2, <2>3 DEF RingLearned
<1>15. {asked', quiet'} \subseteq BOOLEAN /\ ~asked'  BY <1>7, <1>9
<1> QED  BY <1>12, <1>13, <1>14, <1>15 DEF Kept

\* A reading that goes into a ring that is full enough, and what the machine makes of it:
\* the same reasoning for the empty box and for the countdown
LEMMA PushedKeeps ==
  ASSUME CatStandsOut, CatTyped, RingLearned, catState # "OCCUPIED",
         NEW c \in BOOLEAN, Comes(c), NEW l \in 0..MaxLitter,
         NEW w, w = l + (IF c THEN CatWeight ELSE 0), weights' = Push(w),
         quiet' = quiet, asked' \in BOOLEAN, asked' => ~AtLeast(w, weights', Entry),
         catState' \in {"IDLE", "OCCUPIED", "WAIT_CLEAN"},
         AtLeast(w, weights', Entry) => catState' = "OCCUPIED"
  PROVE  Kept
<1>1. /\ Learn \in Nat /\ CatWindow \in Nat /\ Learn <= CatWindow  BY CatAssumption
<1>2. w \in Nat  BY WeightOf
<1>3. PICK ws : ws = weights  OBVIOUS
<1>4. ws \in Seq(Nat) /\ Len(ws) <= CatWindow /\ Len(ws) >= Learn /\ Len(ws) \in Nat
  BY <1>3, LenProperties DEF CatTyped, RingLearned
<1>5. PICK us : us = Push(w)  OBVIOUS
<1>6. us \in Seq(Nat) /\ Len(us) = IF Len(ws) < CatWindow THEN Len(ws) + 1 ELSE CatWindow
  <2>1. weights = ws  BY <1>3
  <2> QED  BY <2>1, <1>2, <1>4, <1>5, RingPushed
<1>7. weights' = us  BY <1>5
<1>8. weights' \in Seq(Nat) /\ Len(weights') <= CatWindow /\ Len(weights') >= Learn
  BY <1>1, <1>4, <1>6, <1>7
<1>9. quiet \in BOOLEAN  BY DEF CatTyped
<1>10. cat' = c  BY DEF Comes
<1>11. ASSUME quiet
       PROVE  /\ \E k \in 0..visits' : /\ Light(weights', k)
                                       /\ Len(weights') = CatWindow \/ Len(weights') >= Learn + k
              /\ c => AtLeast(w, weights', Entry)
  BY <1>11, PushSeen
<1>12. ASSUME quiet' PROVE \E k \in 0..visits' : Seen(k)'
  <2>1. quiet  BY <1>12
  <2>2. c => catState' = "OCCUPIED"  BY <2>1, <1>11
  <2>3. PICK k \in 0..visits' : /\ Light(weights', k)
                                /\ Len(weights') = CatWindow \/ Len(weights') >= Learn + k
    BY <2>1, <1>11
  <2>4. Seen(k)'  BY <2>2, <2>3, <1>10 DEF Seen
  <2> QED  BY <2>4
<1>13. RingLearned'  BY <1>8, <1>12 DEF RingLearned
<1>14. asked' /\ quiet' => ~cat'
  <2> SUFFICES ASSUME asked', quiet', cat' PROVE FALSE  OBVIOUS
  <2>1. quiet /\ c  BY <1>10
  <2>2. AtLeast(w, weights', Entry)  BY <2>1, <1>11
  <2> QED  BY <2>2
<1>15. {asked', quiet'} \subseteq BOOLEAN  BY <1>9
<1>16. catState' # "INIT" /\ catState' \in {"INIT", "IDLE", "OCCUPIED", "WAIT_CLEAN"}  OBVIOUS
<1> QED  BY <1>8, <1>13, <1>14, <1>15, <1>16 DEF Kept

\* A ring that begins again
LEMMA ResetKeeps ==
  ASSUME CatTyped, weights' = <<>>, catState' = "INIT", asked' = FALSE, quiet' = quiet
  PROVE  Kept
<1>1. Learn \in Nat /\ Learn > 0 /\ CatWindow \in Nat  BY CatAssumption
<1>2. <<>> \in Seq(Nat) /\ Len(<<>>) = 0  BY EmptySeq
<1>3. weights' \in Seq(Nat) /\ Len(weights') <= CatWindow /\ Len(weights') < Learn  BY <1>1, <1>2
<1>4. Light(weights', 0)  BY LightEmpty
<1>5. RingFilling'  BY <1>3, <1>4 DEF RingFilling
<1>6. quiet \in BOOLEAN  BY DEF CatTyped
<1>7. {asked', quiet'} \subseteq BOOLEAN /\ ~asked'  BY <1>6
<1>8. catState' = "INIT" /\ catState' \in {"INIT", "IDLE", "OCCUPIED", "WAIT_CLEAN"}  OBVIOUS
<1> QED  BY <1>3, <1>5, <1>7, <1>8 DEF Kept

\* CAT_STATE_IDLE
LEMMA IdleKeeps ==
  ASSUME CatStandsOut, CatTyped, RingLearned, catState = "IDLE",
         NEW c \in BOOLEAN, Comes(c), NEW l \in 0..MaxLitter,
         NEW w, w = l + (IF c THEN CatWeight ELSE 0), IdleBox(w)
  PROVE  Kept
<1>1. asked' = FALSE /\ quiet' = quiet  BY DEF IdleBox
<1>2. CASE AtMost(w, weights, 0 - Entry)
  <2>1. weights' = <<>> /\ catState' = "INIT"  BY <1>2 DEF IdleBox
  <2> QED  BY <2>1, <1>1, ResetKeeps
<1>3. CASE ~AtMost(w, weights, 0 - Entry)
  <2>1. /\ weights' = Push(w)
        /\ catState' = IF AtLeast(w, weights', Entry) THEN "OCCUPIED" ELSE "IDLE"
    BY <1>3 DEF IdleBox
  <2>2. catState' \in {"IDLE", "OCCUPIED", "WAIT_CLEAN"}  BY <2>1
  <2>3. AtLeast(w, weights', Entry) => catState' = "OCCUPIED"  BY <2>1
  <2>4. asked' \in BOOLEAN /\ (asked' => ~AtLeast(w, weights', Entry))  BY <1>1
  <2>5. catState # "OCCUPIED"  OBVIOUS
  <2> QED  BY <2>1, <2>2, <2>3, <2>4, <2>5, <1>1, PushedKeeps
<1> QED  BY <1>2, <1>3

\* CAT_STATE_WAIT_CLEAN
LEMMA WaitKeeps ==
  ASSUME CatStandsOut, CatTyped, RingLearned, catState = "WAIT_CLEAN",
         NEW c \in BOOLEAN, Comes(c), NEW l \in 0..MaxLitter,
         NEW w, w = l + (IF c THEN CatWeight ELSE 0), WaitClean(w)
  PROVE  Kept
<1>1. weights' = Push(w) /\ quiet' = quiet  BY DEF WaitClean
<1>2. catState' = IF AtLeast(w, weights', Entry) THEN "OCCUPIED"
                  ELSE IF away >= Delay THEN "IDLE" ELSE "WAIT_CLEAN"
  BY DEF WaitClean
<1>3. catState' \in {"IDLE", "OCCUPIED", "WAIT_CLEAN"}  BY <1>2
<1>4. AtLeast(w, weights', Entry) => catState' = "OCCUPIED"  BY <1>2
<1>5. asked' = (away >= Delay /\ ~AtLeast(w, weights', Entry))  BY DEF WaitClean
<1>6. asked' \in BOOLEAN /\ (asked' => ~AtLeast(w, weights', Entry))  BY <1>5, Zenon
<1>7. catState # "OCCUPIED"  OBVIOUS
<1> QED  BY <1>1, <1>3, <1>4, <1>6, <1>7, PushedKeeps

\* A sample that leaves the ring as it is: of the visits it still counts, none is forgotten.
LEMMA StillSeen ==
  ASSUME CatStandsOut, CatTyped, RingLearned, NEW c \in BOOLEAN, Comes(c),
         weights' = weights, quiet' = quiet,
         quiet /\ c => catState' = "OCCUPIED" \/ (catState' = catState)
  PROVE  RingLearned'
<1>1. PICK n : n = Len(weights)  OBVIOUS
<1>2. n \in Nat /\ n >= Learn /\ n > 1
  <2>1. Learn \in Nat /\ Learn > 1  BY CatAssumption DEF CatStandsOut
  <2>2. n \in Nat  BY <1>1, LenProperties DEF CatTyped
  <2>3. n >= Learn  BY <1>1 DEF RingLearned
  <2> QED  BY <2>1, <2>2, <2>3
<1>3. weights' \in Seq(Nat) /\ Len(weights') = n  BY <1>1 DEF CatTyped
<1>4. visits' \in 0..MaxVisits /\ visits' >= visits /\ (c /\ ~cat => visits' = visits + 1)
  <2>1. Len(weights') > 1  BY <1>2, <1>3
  <2> QED  BY <2>1, <1>3, VisitsCounted
<1>5. visits \in Nat /\ cat' = c  BY CatAssumption DEF CatTyped, Comes
<1>6. ASSUME quiet PROVE \E k \in 0..visits' : Seen(k)'
  <2>1. PICK k \in 0..visits : Seen(k)  BY <1>6 DEF RingLearned
  <2>2. /\ Light(weights, k) /\ (Len(weights) = CatWindow \/ Len(weights) >= Learn + k)
        /\ (cat => catState = "OCCUPIED" \/ k < visits)
    BY <2>1 DEF Seen
  <2>3. k \in Nat /\ k <= visits /\ k \in 0..visits'  BY <2>1, <1>4, <1>5
  <2>4. ASSUME c PROVE catState' = "OCCUPIED" \/ k < visits'
    <3>1. CASE ~cat
      <4>1. visits' = visits + 1  BY <3>1, <2>4, <1>4
      <4> QED  BY <4>1, <2>3, <1>5
    <3>2. CASE cat /\ k < visits
      <4>1. visits' \in Int /\ visits' >= visits  BY <1>4
      <4> QED  BY <3>2, <4>1, <2>3, <1>5
    <3>3. CASE cat /\ catState = "OCCUPIED"  BY <3>3, <2>4, <1>6
    <3> QED  BY <3>1, <3>2, <3>3, <2>2
  <2>5. /\ Light(weights', k) /\ (Len(weights') = CatWindow \/ Len(weights') >= Learn + k)
    BY <2>2
  <2>6. Seen(k)'  BY <2>4, <2>5, <1>5 DEF Seen
  <2> QED  BY <2>3, <2>6
<1>7. Len(weights') >= Learn  BY <1>2, <1>3
<1> QED  BY <1>6, <1>7 DEF RingLearned

\* CAT_STATE_OCCUPIED: while the cat stays, its weight is above the frozen mean.
LEMMA OccupiedKeeps ==
  ASSUME CatStandsOut, CatTyped, RingLearned, catState = "OCCUPIED",
         NEW c \in BOOLEAN, Comes(c), NEW l \in 0..MaxLitter,
         NEW w, w = l + (IF c THEN CatWeight ELSE 0), Occupied(w)
  PROVE  Kept
<1>1. weights' = weights /\ quiet' = quiet /\ asked' = FALSE  BY DEF Occupied
<1>2. catState' = IF AtMost(w, weights, Exit) THEN "WAIT_CLEAN" ELSE catState  BY DEF Occupied
<1>3. ASSUME quiet, c PROVE ~AtMost(w, weights, Exit)
  <2>1. PICK ws : ws = weights  OBVIOUS
  <2>2. PICK k \in 0..visits : Seen(k)  BY <1>3 DEF RingLearned
  <2>3. ws \in Seq(Nat) /\ Len(ws) >= Learn  BY <2>1 DEF CatTyped, RingLearned
  <2>4. Light(ws, k) /\ (Len(ws) = CatWindow \/ Len(ws) >= Learn + k)  BY <2>1, <2>2 DEF Seen
  <2>5. k \in 0..MaxVisits
    <3>1. visits \in 0..MaxVisits /\ MaxVisits \in Nat  BY CatAssumption DEF CatTyped
    <3> QED  BY <3>1, <2>2
  <2>6. ~AtMost(l + CatWeight, ws, Exit)  BY <2>3, <2>4, <2>5, Noticed
  <2>7. w = l + CatWeight  BY <1>3
  <2> QED  BY <2>1, <2>6, <2>7
<1>4. RingLearned'
  <2>1. quiet /\ c => catState' = "OCCUPIED" \/ (catState' = catState)  BY <1>2, <1>3
  <2> QED  BY <2>1, <1>1, StillSeen
<1>5. catState' \in {"INIT", "IDLE", "OCCUPIED", "WAIT_CLEAN"} /\ catState' # "INIT"  BY <1>2
<1>6. weights' \in Seq(Nat) /\ Len(weights') <= CatWindow  BY <1>1 DEF CatTyped
<1>7. quiet \in BOOLEAN  BY DEF CatTyped
<1>8. {asked', quiet'} \subseteq BOOLEAN /\ ~asked'  BY <1>1, <1>7
<1> QED  BY <1>4, <1>5, <1>6, <1>8 DEF Kept

\* A sample during a cleaning or a pause
LEMMA SkippedKeeps ==
  ASSUME CatStandsOut, CatInv, NEW c \in BOOLEAN, Comes(c), Skipped
  PROVE  Kept
<1>1. CatTyped  BY DEF CatInv
<1>2. asked' = FALSE /\ quiet' = quiet  BY DEF Skipped
<1>3. CASE CleaningEnded
  <2>1. weights' = <<>> /\ catState' = "INIT"  BY <1>3 DEF Skipped
  <2> QED  BY <2>1, <1>1, <1>2, ResetKeeps
<1>4. CASE ~CleaningEnded
  <2>1. weights' = weights /\ catState' = catState  BY <1>4 DEF Skipped
  <2>2. /\ weights' \in Seq(Nat) /\ Len(weights') <= CatWindow
        /\ catState' \in {"INIT", "IDLE", "OCCUPIED", "WAIT_CLEAN"}
    BY <2>1, <1>1 DEF CatTyped
  <2>3. quiet \in BOOLEAN  BY <1>1 DEF CatTyped
  <2>4. {asked', quiet'} \subseteq BOOLEAN /\ ~asked'  BY <2>3, <1>2
  <2>5. ASSUME catState' = "INIT" PROVE RingFilling'
    <3>1. RingFilling  BY <2>1, <2>5 DEF CatInv
    <3> QED  BY <3>1, <2>1, <1>2 DEF RingFilling
  <2>6. ASSUME catState' # "INIT" PROVE RingLearned'
    <3>1. RingLearned  BY <2>1, <2>6 DEF CatInv
    <3>2. quiet /\ c => catState' = "OCCUPIED" \/ (catState' = catState)  BY <2>1
    <3> QED  BY <3>1, <3>2, <2>1, <1>1, <1>2, StillSeen
  <2> QED  BY <2>2, <2>4, <2>5, <2>6 DEF Kept
<1> QED  BY <1>3, <1>4

\* The next "SS:" line
LEMMA SampleKeeps ==
  ASSUME CatStandsOut, CatInv, NEW c \in BOOLEAN, NEW l \in 0..MaxLitter, Sample(c, l)
  PROVE  CatInv'
<1>1. CatTyped  BY DEF CatInv
<1>2. /\ Comes(c) /\ cat' = c /\ litter' = l
      /\ wasRunning' = running /\ running' = running /\ paused' = paused
  BY DEF Sample, Comes
<1>3. PICK w : w = l + (IF c THEN CatWeight ELSE 0)  OBVIOUS
<1>4. Kept
  <2>1. CASE running \/ paused
    <3>1. Skipped  BY <2>1 DEF Sample
    <3> QED  BY <3>1, <1>2, SkippedKeeps
  <2>2. CASE ~(running \/ paused)
    <3>1. \/ CleaningEnded /\ Learning(w, <<>>)
          \/ catState = "INIT" /\ Learning(w, weights)
          \/ catState = "IDLE" /\ IdleBox(w)
          \/ catState = "OCCUPIED" /\ Occupied(w)
          \/ catState = "WAIT_CLEAN" /\ WaitClean(w)
      BY <2>2, <1>3 DEF Sample
    <3>2. CASE Learning(w, <<>>)
      <4>1. PICK ws : ws = <<>>  OBVIOUS
      <4>2. /\ ws \in Seq(Nat) /\ Len(ws) = 0 /\ Learn \in Nat /\ Learn # 0
        BY <4>1, EmptySeq, CatAssumption
      <4>3. Len(ws) < Learn /\ (ws # <<>> /\ quiet => Light(ws, 0))  BY <4>1, <4>2
      <4>4. Learning(w, ws)  BY <3>2, <4>1
      <4> QED  BY <4>2, <4>3, <4>4, <1>1, <1>2, <1>3, LearningKeeps
    <3>3. CASE catState = "INIT" /\ Learning(w, weights)
      <4>1. PICK ws : ws = weights  OBVIOUS
      <4>2. RingFilling  BY <3>3 DEF CatInv
      <4>3. ws \in Seq(Nat) /\ Len(ws) < Learn /\ (ws # <<>> /\ quiet => Light(ws, 0))
        BY <4>1, <4>2, <1>1 DEF CatTyped, RingFilling
      <4>4. Learning(w, ws)  BY <3>3, <4>1
      <4> QED  BY <4>3, <4>4, <1>1, <1>2, <1>3, LearningKeeps
    <3>4. CASE catState = "IDLE" /\ IdleBox(w)
      <4>1. RingLearned  BY <3>4 DEF CatInv
      <4> QED  BY <3>4, <4>1, <1>1, <1>2, <1>3, IdleKeeps
    <3>5. CASE catState = "OCCUPIED" /\ Occupied(w)
      <4>1. RingLearned  BY <3>5 DEF CatInv
      <4> QED  BY <3>5, <4>1, <1>1, <1>2, <1>3, OccupiedKeeps
    <3>6. CASE catState = "WAIT_CLEAN" /\ WaitClean(w)
      <4>1. RingLearned  BY <3>6 DEF CatInv
      <4> QED  BY <3>6, <4>1, <1>1, <1>2, <1>3, WaitKeeps
    <3> QED  BY <3>1, <3>2, <3>3, <3>4, <3>5, <3>6
  <2> QED  BY <2>1, <2>2
<1>5. CatTyped'
  <2>1. visits' \in 0..MaxVisits
    <3>1. weights' \in Seq(Nat)  BY <1>4 DEF Kept
    <3> QED  BY <3>1, <1>1, <1>2, VisitsCounted
  <2>2. {running, wasRunning, paused, cat, asked, quiet} \subseteq BOOLEAN  BY <1>1 DEF CatTyped
  <2>3. {asked', quiet'} \subseteq BOOLEAN  BY <1>4 DEF Kept
  <2>4. {cat', running', wasRunning', paused', asked', quiet'} \subseteq BOOLEAN
    BY <1>2, <2>2, <2>3
  <2>5. litter' \in 0..MaxLitter  BY <1>2
  <2>6. /\ weights' \in Seq(Nat) /\ Len(weights') <= CatWindow
        /\ catState' \in {"INIT", "IDLE", "OCCUPIED", "WAIT_CLEAN"}
    BY <1>4 DEF Kept
  <2> QED  BY <2>1, <2>4, <2>5, <2>6 DEF CatTyped
<1>6. NeverCleansOccupied'  BY <1>4 DEF Kept, NeverCleansOccupied
<1>7. (catState = "INIT" => RingFilling)' /\ (catState # "INIT" => RingLearned)'  BY <1>4 DEF Kept
<1> QED  BY <1>5, <1>6, <1>7 DEF CatInv

\* A cleaning and a pause leave the machine alone.
LEMMA CatStep == ASSUME CatStandsOut, CatInv, [CatNext]_catVars PROVE CatInv'
<1>1. CASE CatSample
  <2>1. PICK c \in BOOLEAN, l \in 0..MaxLitter : Sample(c, l)  BY <1>1 DEF CatSample
  <2> QED  BY <2>1, SampleKeeps
<1>2. CASE ~CatSample
  <2>1. /\ <<cat, visits, catState, weights, quiet>>' = <<cat, visits, catState, weights, quiet>>
        /\ wasRunning' = wasRunning
    BY <1>2 DEF CatNext, Clean, Hold, catVars, catBox
  <2>2. {cat, running, wasRunning, paused, asked, quiet} \subseteq BOOLEAN /\ 0 \in 0..MaxLitter
        /\ litter \in 0..MaxLitter
    BY CatAssumption DEF CatInv, CatTyped
  <2>3. litter' \in 0..MaxLitter  BY <1>2, <2>2 DEF CatNext, Clean, Hold, catVars, catBox
  <2>4. running' \in BOOLEAN /\ paused' \in BOOLEAN
    BY <1>2, <2>2 DEF CatNext, Clean, Hold, catVars, catBox
  <2>5. asked' = FALSE \/ asked' = asked  BY <1>2 DEF CatNext, Clean, Hold, catVars, catBox
  <2>6. CatTyped'
    <3>1. {cat', running', wasRunning', paused', asked', quiet'} \subseteq BOOLEAN
      BY <2>1, <2>2, <2>4, <2>5
    <3> QED  BY <2>1, <2>3, <3>1 DEF CatInv, CatTyped
  <2>7. NeverCleansOccupied'
    <3>1. asked /\ quiet => ~cat  BY DEF CatInv, NeverCleansOccupied
    <3>2. cat' = cat /\ quiet' = quiet  BY <2>1
    <3>3. asked' => asked  BY <2>5
    <3>4. asked' /\ quiet' => ~cat'  BY <3>1, <3>2, <3>3
    <3> QED  BY <3>4 DEF NeverCleansOccupied
  <2>8. (catState = "INIT" => RingFilling)'  BY <2>1 DEF CatInv, RingFilling
  <2>9. (catState # "INIT" => RingLearned)'
    <3>1. ASSUME NEW k, Seen(k) PROVE Seen(k)'  BY <3>1, <2>1 DEF Seen
    <3> QED  BY <2>1, <3>1 DEF CatInv, RingLearned
  <2> QED  BY <2>6, <2>7, <2>8, <2>9 DEF CatInv
<1> QED  BY <1>1, <1>2

\* The inductive invariant of the cat state machine: what the ring has seen of the cat
THEOREM CatInvariant == ASSUME CatStandsOut PROVE CatSpec => []CatInv
<1>1. CatInit => CatInv
  <2> SUFFICES ASSUME CatInit PROVE CatInv  OBVIOUS
  <2>1. Learn \in Nat /\ Learn # 0 /\ {CatWindow, MaxLitter, MaxVisits} \subseteq Nat  BY CatAssumption
  <2>2. <<>> \in Seq(Nat) /\ Len(<<>>) = 0  BY EmptySeq
  <2>3. Len(weights) = 0 /\ Len(weights) < Learn  BY <2>1, <2>2 DEF CatInit
  <2>4. RingFilling  BY <2>3, LightEmpty DEF CatInit, RingFilling
  <2>5. CatTyped
    <3>1. {cat, running, wasRunning, paused, asked, quiet} \subseteq BOOLEAN  BY DEF CatInit
    <3>2. litter \in 0..MaxLitter /\ visits \in 0..MaxVisits  BY <2>1 DEF CatInit
    <3>3. weights \in Seq(Nat) /\ Len(weights) <= CatWindow  BY <2>1, <2>2, <2>3 DEF CatInit
    <3> QED  BY <3>1, <3>2, <3>3 DEF CatInit, CatTyped
  <2>6. NeverCleansOccupied  BY DEF CatInit, NeverCleansOccupied
  <2> QED  BY <2>4, <2>5, <2>6 DEF CatInv, CatInit
<1>2. CatInv /\ [CatNext]_catVars => CatInv'  BY CatStep
<1> QED  BY <1>1, <1>2, PTL DEF CatSpec

\* However the cat comes and goes and whatever it leaves, no cleaning is asked for with the
\* cat in the box: process_cat_detection_fsm posts UI_CLEAN_CMD only when the box is empty,
\* if it was empty while the mean was learned and a cat stands out from the mean.
THEOREM NeverCleansOccupiedCorrect ==
  ASSUME CatStandsOut PROVE CatSpec => []NeverCleansOccupied
<1>1. CatInv => NeverCleansOccupied  BY DEF CatInv
<1> QED  BY <1>1, CatInvariant, PTL
=============================================================================

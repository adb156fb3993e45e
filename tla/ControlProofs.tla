---------------------------- MODULE ControlProofs ----------------------------
(***************************************************************************)
(* Proofs about the parts of the box that turn what its user wants into    *)
(* commands and settings, and show it to him: the deferred save of         *)
(* AppConfig, the scan of the keys (KeyScan), the LED task (LedShow), the  *)
(* lines of the console (ConsoleLine) and the diagnostic mode (Diag).      *)
(***************************************************************************)
EXTENDS AppConfig, KeyScan, LedShow, ConsoleLine, Diag, SequenceTheorems, FiniteSetTheorems, TLAPS

(***************************************************************************)
(* AppConfig: the words of the settings                                    *)
(***************************************************************************)

\* Both declarations of app_config_t have eleven words; the reset reason is main.h's first one,
\* where app_config_flash.h's initializer puts 50; and what either initializer gives is a value.
LEMMA Layouts ==
  /\ Len(MainLayout) = 11 /\ Len(FlashLayout) = 11 /\ Words = 1..11
  /\ \A w \in Words : Default(MainLayout[w]) \in Values /\ Default(FlashLayout[w]) \in Values
  /\ Default(FlashLayout[1]) = 50
<1>1. Thresholds = <<"m1_jam_current", "m2_jam_current", "m3_jam_current", "m4_jam_current", "m5_jam_current">>
  BY DEF Thresholds
<1>2. Len(MainLayout) = 11 /\ Len(FlashLayout) = 11  BY <1>1 DEF MainLayout, FlashLayout
<1>3. Words = 1..11  BY <1>2 DEF Words
<1>4. \A w \in Words : Default(MainLayout[w]) \in Values  BY DEF Values
<1>5. /\ FlashLayout[1] = "MIN_VALID_WASTE_RAW" /\ FlashLayout[2] = "CLUMPING_WAIT_MIN"
      /\ FlashLayout[3] = "m1_jam_current" /\ FlashLayout[4] = "m2_jam_current"
      /\ FlashLayout[5] = "m3_jam_current" /\ FlashLayout[6] = "m4_jam_current"
      /\ FlashLayout[7] = "m5_jam_current" /\ FlashLayout[8] = "CAT_ENTRY_MIN_WEIGHT"
      /\ FlashLayout[9] = "WASTE_TYPE_RATIO_TH" /\ FlashLayout[10] = "EFFECTIVE_DWELL_TIME"
      /\ FlashLayout[11] = "reset_reason"
  BY <1>1 DEF FlashLayout
<1>6. /\ MainLayout[1] = "reset_reason"
      /\ MainLayout[2] = "MIN_VALID_WASTE_RAW" /\ MainLayout[3] = "CLUMPING_WAIT_MIN"
      /\ MainLayout[4] = "m1_jam_current" /\ MainLayout[5] = "m2_jam_current"
      /\ MainLayout[6] = "m3_jam_current" /\ MainLayout[7] = "m4_jam_current"
      /\ MainLayout[8] = "m5_jam_current" /\ MainLayout[9] = "CAT_ENTRY_MIN_WEIGHT"
      /\ MainLayout[10] = "WASTE_TYPE_RATIO_TH" /\ MainLayout[11] = "EFFECTIVE_DWELL_TIME"
  BY <1>1 DEF MainLayout
<1>7. \A w \in Words : \E x \in Words : FlashLayout[w] = MainLayout[x]
  <2>1. SUFFICES ASSUME NEW w \in 1..11 PROVE \E x \in 1..11 : FlashLayout[w] = MainLayout[x]
    BY <1>3
  <2>2. CASE w < 11
    <3>1. FlashLayout[w] = MainLayout[w + 1] /\ w + 1 \in 1..11  BY <1>5, <1>6, <2>2
    <3> QED  BY <3>1
  <2>3. CASE w = 11
    <3>1. FlashLayout[w] = MainLayout[1]  BY <1>5, <1>6, <2>3
    <3> QED  BY <3>1
  <2> QED  BY <2>2, <2>3
<1>8. \A w \in Words : Default(FlashLayout[w]) \in Values
  <2>1. SUFFICES ASSUME NEW w \in Words PROVE Default(FlashLayout[w]) \in Values  OBVIOUS
  <2>2. PICK x \in Words : FlashLayout[w] = MainLayout[x]  BY <1>7
  <2> QED  BY <1>4, <2>2
<1>9. Default("MIN_VALID_WASTE_RAW") = 50  BY DEF Default
<1> QED  BY <1>2, <1>3, <1>4, <1>5, <1>8, <1>9

\* The reasons of system_reset and the cleared one are values, and only a restore gives 3.
LEMMA ReasonsAreValues ==
  /\ \A c \in Callers : Reason(c) \in Values /\ Reason(c) \in {1, 3}
  /\ 0..4 \subseteq Values
<1>1. 0..4 \subseteq Values  BY DEF Values
<1> QED  BY <1>1 DEF Reason

\* What is left of a sequence without its first element, behind another one: what the two
\* calls of CopyWords put together.
LEMMA FirstReplaced ==
  ASSUME NEW S, NEW s \in Seq(S), NEW v \in S, NEW n \in Nat, Len(s) = n, n > 0
  PROVE  /\ <<v>> \o Tail(s) \in Seq(S) /\ Len(<<v>> \o Tail(s)) = n
         /\ (<<v>> \o Tail(s))[1] = v
         /\ \A k \in 2..n : (<<v>> \o Tail(s))[k] = s[k]
<1>1. s # <<>>  BY EmptySeq
<1>2. /\ Tail(s) \in Seq(S) /\ Len(Tail(s)) = n - 1
      /\ \A k \in 1..Len(Tail(s)) : Tail(s)[k] = s[k + 1]
  BY <1>1, HeadTailProperties
<1>3. <<v>> \in Seq(S) /\ Len(<<v>>) = 1 /\ <<v>>[1] = v  OBVIOUS
<1> DEFINE all == <<v>> \o Tail(s)
<1> HIDE DEF all
<1>4. /\ all \in Seq(S) /\ Len(all) = Len(<<v>>) + Len(Tail(s))
      /\ \A k \in 1..Len(<<v>>) + Len(Tail(s)) :
           all[k] = IF k <= Len(<<v>>) THEN <<v>>[k] ELSE Tail(s)[k - Len(<<v>>)]
  BY ONLY <1>2, <1>3, ConcatProperties DEF all
<1>5. Len(<<v>>) + Len(Tail(s)) = n  BY <1>2, <1>3
<1>6. all[1] = v
  <2>1. 1 \in 1..Len(<<v>>) + Len(Tail(s)) /\ 1 <= Len(<<v>>)  BY <1>3, <1>5
  <2>2. all[1] = <<v>>[1]  BY <1>4, <2>1
  <2> QED  BY <1>3, <2>2
<1>7. ASSUME NEW k \in 2..n PROVE all[k] = s[k]
  <2>1. k \in 1..n /\ ~(k <= 1) /\ k - 1 \in 1..n - 1 /\ (k - 1) + 1 = k  OBVIOUS
  <2>2. all[k] = Tail(s)[k - 1]  BY <1>3, <1>4, <1>5, <2>1
  <2>3. Tail(s)[k - 1] = s[(k - 1) + 1]  BY <1>2, <2>1
  <2> QED  BY <2>1, <2>2, <2>3
<1> QED  BY <1>4, <1>5, <1>6, <1>7 DEF all

\* nvs_set_blob puts what it has read first before the rest.
LEMMA CopiedWords ==
  ASSUME NEW words \in [Words -> Values], NEW v \in Values
  PROVE  /\ <<v>> \o Tail(words) \in Seq(Values) /\ Len(<<v>> \o Tail(words)) = 11
         /\ <<v>> \o Tail(words) \in [Words -> Values]
         /\ <<v>> \o Tail(words) = [words EXCEPT ![1] = v]
<1> DEFINE all == <<v>> \o Tail(words)
<1>1. Words = 1..11  BY Layouts
<1>2. words \in Seq(Values) /\ Len(words) = 11
  <2>1. words = [w \in 1..11 |-> words[w]] /\ \A w \in 1..11 : words[w] \in Values  BY <1>1
  <2>2. [w \in 1..11 |-> words[w]] \in Seq(Values) /\ Len([w \in 1..11 |-> words[w]]) = 11
    BY <2>1
  <2> QED  BY <2>1, <2>2
<1>3. /\ all \in Seq(Values) /\ Len(all) = 11 /\ all[1] = v
      /\ \A w \in 2..11 : all[w] = words[w]
  <2>1. PICK n \in Nat : n = 11  OBVIOUS
  <2>2. v \in Values /\ n > 0 /\ words \in Seq(Values) /\ Len(words) = n  BY <1>2, <2>1
  <2>3. /\ all \in Seq(Values) /\ Len(all) = n /\ all[1] = v
        /\ \A k \in 2..n : all[k] = words[k]
    BY ONLY <2>2, FirstReplaced
  <2> HIDE DEF all
  <2> QED  BY <2>1, <2>3
<1> HIDE DEF all
<1>4. all \in [1..11 -> Values]
  <2>1. all \in [1..Len(all) -> Values]  BY <1>3, LenProperties
  <2> QED  BY <1>3, <2>1
<1>5. [words EXCEPT ![1] = v] \in [1..11 -> Values]  BY <1>1
<1>6. \A w \in 1..11 : all[w] = [words EXCEPT ![1] = v][w]
  <2>1. SUFFICES ASSUME NEW w \in 1..11 PROVE all[w] = [words EXCEPT ![1] = v][w]  OBVIOUS
  <2>2. CASE w = 1  BY <1>1, <1>3, <2>2
  <2>3. CASE w # 1
    <3>1. w \in 2..11  BY <2>3
    <3> QED  BY <1>1, <1>3, <2>3, <3>1
  <2> QED  BY <2>2, <2>3
<1>7. all = [words EXCEPT ![1] = v]  BY <1>4, <1>5, <1>6
<1> QED  BY <1>1, <1>3, <1>4, <1>7 DEF all

-----------------------------------------------------------------------------
(* The inductive invariant of AppConfig *)

\* What nvs_set_blob has read is the first word, or all of them.
ImageRight ==
  /\ saver = "copy" => image = <<>> \/ \E v \in Values : image = <<v>>
  /\ saver = "commit" => image \in [Words -> Values]

\* While nobody is between a change and its flag, and the flag is down, what flash_task has
\* put into the flash or into its image is what the RAM has.
Saved ==
  ~saveFlag /\ (\A c \in Callers : resetter[c] \in {"away", "waiting"}) =>
    /\ saver = "asleep" => flash = ram
    /\ saver = "copy" => image = <<>> \/ image = <<ram[1]>>
    /\ saver = "commit" => image = ram

\* The reasons of the tasks that are in system_reset
Given == {Reason(d) : d \in {e \in Callers : resetter[e] # "away"}}

\* The image was begun before any of them had given its reason.
Stale == image # <<>> /\ image[1] \notin Given

\* While a task waits for its restart, a reason is in the flash, or on its way, and there is
\* time enough: for the save that has been begun, and for another if that one is stale.
ReasonOnItsWay ==
  /\ (\E c \in Callers : resetter[c] # "away") => ram[1] \in Given
  /\ \A c \in Callers : resetter[c] = "waiting" =>
       /\ saver = "asleep" => flash[1] \in Given \/ (saveFlag /\ due[c] > nap + SaveTicks)
       /\ saver # "asleep" /\ Stale => saveFlag /\ due[c] > NapTicks + 2 * SaveTicks - busy
       /\ saver # "asleep" /\ ~Stale => flash[1] \in Given \/ due[c] > SaveTicks - busy
  /\ reasons # {} => seen \in reasons

Restored(words) == \A w \in Words \ {1} : words[w] = Default(MainLayout[w])

AllAway == \A c \in Callers : resetter[c] = "away"

\* The save of check_boot_mode is over when it has waited; then flash_task has nothing to do
\* until a task in system_reset raises the flag, with its changes made.  So no save ever
\* reads a "factory" with the settings that were there before.
OneAfterTheOther ==
  /\ \A c, d \in Callers : resetter[c] # "away" /\ resetter[d] # "away" => c = d
  /\ (\A c \in Callers : resetter[c] # "waiting") =>
       \/ saver = "asleep" /\ ~saveFlag
       \/ /\ AllAway
          /\ saver = "asleep" => nap = 0 /\ booting = BootTicks
          /\ saver # "asleep" => ~saveFlag /\ booting + busy = BootTicks

SettingsWithReason ==
  /\ ram[1] = REASON_FACTORY_RESTORE /\ (\A c \in Callers : resetter[c] # "settings") => Restored(ram)
  /\ seen = REASON_FACTORY_RESTORE => Restored(ram)
  /\ saver = "copy" /\ image # <<>> => (image[1] = REASON_FACTORY_RESTORE => Restored(ram))
  /\ saver = "commit" /\ image[1] = REASON_FACTORY_RESTORE => Restored(image)
  /\ flash[1] = REASON_FACTORY_RESTORE => Restored(flash)

SaveInv == ConfigTypeOK /\ ImageRight /\ Saved /\ ReasonOnItsWay

ConfigInv == SaveInv /\ (~crowded => OneAfterTheOther /\ SettingsWithReason)

\* check_boot_mode waits longer than its save takes (500 ms).
BootWaitsForItsSave == BootTicks > SaveTicks

-----------------------------------------------------------------------------
(* The steps of AppConfig, one conjunct after the other *)

\* load_app_configuration and check_boot_mode, whatever the flash was left with
LEMMA BootKeepsInvariant ==
  ASSUME ConfigAssumption, SaveInv, BootFrom(flash),
         reasons' \subseteq {Reason(c) : c \in Callers}, reasons' # {} => flash[1] \in reasons'
  PROVE  SaveInv' /\ (ConfigInv => ConfigInv')
<1>1. Words = 1..11 /\ 0 \in Values /\ 1 \in Words  BY Layouts, ReasonsAreValues
<1>2. /\ flash' = flash /\ crowded' = crowded /\ seen' = flash[1]
      /\ ram' = [flash EXCEPT ![1] = 0]
      /\ saveFlag' = (flash[1] # 0) /\ booting' = (IF flash[1] # 0 THEN BootTicks ELSE 0)
      /\ saver' = "asleep" /\ image' = <<>> /\ nap' = 0 /\ busy' = 0
      /\ resetter' = [c \in Callers |-> "away"] /\ due' = [c \in Callers |-> 0]
  BY DEF BootFrom, Reset_reason, REASON_NORMAL
<1>3. flash \in [Words -> Values]  BY DEF SaveInv, ConfigTypeOK
<1>4. ConfigTypeOK'
  <2>1. ram' \in [Words -> Values] /\ seen' \in Values  BY <1>1, <1>2, <1>3
  <2>2. saveFlag' \in BOOLEAN  BY <1>2
  <2>3. image' \in Seq(Values) /\ Len(image') <= Len(MainLayout)  BY <1>2, Layouts
  <2>4. /\ nap' \in 0..NapTicks /\ busy' \in 0..SaveTicks /\ booting' \in 0..BootTicks
        /\ due' \in [Callers -> 0..ResetTicks]
        /\ resetter' \in [Callers -> {"away", "settings", "flag", "waiting"}]
    BY <1>2 DEF ConfigAssumption
  <2>5. crowded' \in BOOLEAN  BY <1>2 DEF SaveInv, ConfigTypeOK
  <2> QED  BY <1>2, <1>3, <2>1, <2>2, <2>3, <2>4, <2>5 DEF ConfigTypeOK
<1>5. ImageRight'  BY <1>2 DEF ImageRight
<1>6. Saved'
  <2>1. flash[1] = 0 => ram' = flash  BY <1>1, <1>2, <1>3
  <2> QED  BY <1>2, <2>1 DEF Saved
<1>7. ReasonOnItsWay'  BY <1>2 DEF ReasonOnItsWay
<1>8. ASSUME ConfigInv, ~crowded' PROVE OneAfterTheOther' /\ SettingsWithReason'
  <2>1. OneAfterTheOther'
    <3>1. saveFlag' => booting' = BootTicks  BY <1>2
    <3> QED  BY <1>2, <3>1 DEF OneAfterTheOther, AllAway
  <2>2. flash[1] = REASON_FACTORY_RESTORE => Restored(flash)
    BY <1>2, <1>8 DEF ConfigInv, SettingsWithReason
  <2>3. Restored(flash) => Restored(ram)'  BY <1>2, <1>3 DEF Restored
  <2>4. ram'[1] = 0  BY <1>1, <1>2, <1>3
  <2>5. Restored(flash)' <=> Restored(flash)  BY <1>2 DEF Restored
  <2>6. SettingsWithReason'
    BY <1>2, <2>2, <2>3, <2>4, <2>5 DEF SettingsWithReason, REASON_FACTORY_RESTORE
  <2> QED  BY <2>1, <2>6
<1> QED  BY <1>4, <1>5, <1>6, <1>7, <1>8 DEF ConfigInv, SaveInv

\* The first boot, with what the initializer of app_config_flash.h has put into the flash
LEMMA ConfigInitRight ==
  ASSUME ConfigAssumption, ConfigInit
  PROVE  ConfigInv
<1>1. Words = 1..11 /\ 0 \in Values /\ 1 \in Words  BY Layouts, ReasonsAreValues
<1>2. flash \in [Words -> Values] /\ flash[1] = 50  BY <1>1, Layouts DEF ConfigInit
<1>3. ram = [flash EXCEPT ![1] = 0] /\ seen = 50
  BY <1>2 DEF ConfigInit, Reset_reason, REASON_NORMAL
<1>4. ConfigTypeOK
  <2>1. ram \in [Words -> Values] /\ seen \in Values  BY <1>1, <1>2, <1>3
  <2>2. image \in Seq(Values) /\ Len(image) <= Len(MainLayout)  BY Layouts DEF ConfigInit
  <2>3. /\ nap \in 0..NapTicks /\ busy \in 0..SaveTicks /\ booting \in 0..BootTicks
        /\ due \in [Callers -> 0..ResetTicks]
        /\ resetter \in [Callers -> {"away", "settings", "flag", "waiting"}]
        /\ saver \in {"asleep", "copy", "commit"} /\ reasons = {}
        /\ saveFlag = TRUE /\ crowded = FALSE
    BY DEF ConfigAssumption, ConfigInit
  <2> QED  BY <1>2, <2>1, <2>2, <2>3 DEF ConfigTypeOK
<1>5. ImageRight /\ Saved  BY DEF ImageRight, Saved, ConfigInit
<1>6. ReasonOnItsWay  BY DEF ReasonOnItsWay, ConfigInit
<1>7. OneAfterTheOther  BY DEF OneAfterTheOther, AllAway, ConfigInit
<1>8. ram[1] = 0  BY <1>1, <1>2, <1>3
<1>9. SettingsWithReason
  BY <1>2, <1>3, <1>8 DEF SettingsWithReason, ConfigInit, REASON_FACTORY_RESTORE
<1> QED  BY <1>4, <1>5, <1>6, <1>7, <1>9 DEF ConfigInv, SaveInv

\* Every step but a boot keeps the types, and what has been read is the first word or all.
LEMMA ConfigStepTyped ==
  ASSUME ConfigAssumption, SaveInv,
         Wake \/ CopyWords \/ Commit \/ Tick
           \/ \E c \in Callers : GiveReason(c) \/ RestoreSettings(c) \/ AskForSave(c)
  PROVE  ConfigTypeOK' /\ ImageRight'
<1>1. Words = 1..11 /\ 0 \in Values /\ 1 \in Words /\ Len(MainLayout) = 11
  BY Layouts, ReasonsAreValues
<1>2. ConfigTypeOK /\ ImageRight  BY DEF SaveInv
<1>3. CASE Wake
  <2>1. image' \in Seq(Values) /\ Len(image') <= Len(MainLayout)
    <3>1. CASE saveFlag
      <4>1. image' = <<>>  BY <1>3, <3>1 DEF Wake
      <4> QED  BY <1>1, <4>1
    <3>2. CASE ~saveFlag
      <4>1. image' = image  BY <1>3, <3>2 DEF Wake
      <4> QED  BY <1>2, <4>1 DEF ConfigTypeOK
    <3> QED  BY <3>1, <3>2
  <2>2. nap' \in 0..NapTicks /\ busy' \in 0..SaveTicks
    BY <1>2, <1>3 DEF Wake, ConfigTypeOK, ConfigAssumption
  <2>3. saver' \in {"asleep", "copy", "commit"} /\ saveFlag' \in BOOLEAN /\ ImageRight'
    BY <1>2, <1>3 DEF Wake, ConfigTypeOK, ImageRight
  <2> QED  BY <1>2, <1>3, <2>1, <2>2, <2>3 DEF Wake, ConfigTypeOK
<1>4. CASE CopyWords
  <2>1. CASE image = <<>>
    <3>1. image' = <<ram[1]>> /\ saver' = "copy" /\ ram[1] \in Values
      BY <1>1, <1>2, <1>4, <2>1 DEF CopyWords, ConfigTypeOK
    <3>2. image' \in Seq(Values) /\ Len(image') <= Len(MainLayout)  BY <1>1, <3>1
    <3> QED  BY <1>2, <1>4, <3>1, <3>2 DEF CopyWords, ConfigTypeOK, ImageRight
  <2>2. CASE image # <<>>
    <3>1. PICK v \in Values : image = <<v>>  BY <1>2, <1>4, <2>2 DEF CopyWords, ImageRight
    <3>2. image' = <<v>> \o Tail(ram) /\ saver' = "commit" /\ ram \in [Words -> Values]
      BY <1>2, <1>4, <2>2, <3>1 DEF CopyWords, ConfigTypeOK
    <3>3. image' \in Seq(Values) /\ Len(image') <= Len(MainLayout) /\ image' \in [Words -> Values]
      <4>1. /\ <<v>> \o Tail(ram) \in Seq(Values) /\ Len(<<v>> \o Tail(ram)) = 11
            /\ <<v>> \o Tail(ram) \in [Words -> Values]
        BY <3>2, CopiedWords
      <4>2. PICK all : all = <<v>> \o Tail(ram)  OBVIOUS
      <4>3. all \in Seq(Values) /\ Len(all) = 11 /\ all \in [Words -> Values] /\ image' = all
        BY ONLY <3>2, <4>1, <4>2
      <4>4. Len(all) = Len(MainLayout) /\ Len(MainLayout) \in Nat  BY ONLY <1>1, <4>3
      <4>5. Len(all) <= Len(MainLayout)  BY ONLY <4>4
      <4> QED  BY ONLY <4>3, <4>5, Zenon
    <3> QED  BY <1>2, <1>4, <3>2, <3>3 DEF CopyWords, ConfigTypeOK, ImageRight
  <2> QED  BY <2>1, <2>2
<1>5. CASE Commit
  <2>1. flash' \in [Words -> Values] /\ image' \in Seq(Values) /\ Len(image') <= Len(MainLayout)
    BY <1>1, <1>2, <1>5 DEF Commit, ImageRight
  <2>2. nap' \in 0..NapTicks /\ busy' \in 0..SaveTicks  BY <1>5 DEF Commit, ConfigAssumption
  <2> QED  BY <1>2, <1>5, <2>1, <2>2 DEF Commit, ConfigTypeOK, ImageRight
<1>6. CASE Tick
  <2>1. nap' \in 0..NapTicks /\ busy' \in 0..SaveTicks
    BY <1>2, <1>6 DEF Tick, ConfigTypeOK, ConfigAssumption
  <2>2. booting' \in 0..BootTicks  BY <1>2, <1>6 DEF Tick, ConfigTypeOK, ConfigAssumption, Less
  <2>3. due' \in [Callers -> 0..ResetTicks]
    BY <1>2, <1>6 DEF Tick, ConfigTypeOK, ConfigAssumption, Less
  <2> QED  BY <1>2, <1>6, <2>1, <2>2, <2>3 DEF Tick, ConfigTypeOK, ImageRight
<1>7. ASSUME NEW c \in Callers, GiveReason(c) PROVE ConfigTypeOK' /\ ImageRight'
  <2>1. ram' \in [Words -> Values]
    BY <1>1, <1>2, <1>7, ReasonsAreValues DEF GiveReason, ConfigTypeOK
  <2>2. resetter' \in [Callers -> {"away", "settings", "flag", "waiting"}]
    BY <1>2, <1>7 DEF GiveReason, ConfigTypeOK
  <2>3. crowded' \in BOOLEAN  BY <1>7 DEF GiveReason
  <2> QED  BY <1>2, <1>7, <2>1, <2>2, <2>3 DEF GiveReason, configTask, ConfigTypeOK, ImageRight
<1>8. ASSUME NEW c \in Callers, RestoreSettings(c) PROVE ConfigTypeOK' /\ ImageRight'
  <2>1. ram' \in [Words -> Values]
    BY <1>1, <1>2, <1>8, Layouts DEF RestoreSettings, ConfigTypeOK
  <2>2. resetter' \in [Callers -> {"away", "settings", "flag", "waiting"}]
    BY <1>2, <1>8 DEF RestoreSettings, ConfigTypeOK
  <2> QED  BY <1>2, <1>8, <2>1, <2>2 DEF RestoreSettings, configTask, ConfigTypeOK, ImageRight
<1>9. ASSUME NEW c \in Callers, AskForSave(c) PROVE ConfigTypeOK' /\ ImageRight'
  <2>1. due' \in [Callers -> 0..ResetTicks]
    BY <1>2, <1>9 DEF AskForSave, WaitTicks, ConfigTypeOK, ConfigAssumption
  <2>2. resetter' \in [Callers -> {"away", "settings", "flag", "waiting"}]
    BY <1>2, <1>9 DEF AskForSave, ConfigTypeOK
  <2> QED  BY <1>2, <1>9, <2>1, <2>2 DEF AskForSave, configTask, ConfigTypeOK, ImageRight
<1> QED  BY <1>3, <1>4, <1>5, <1>6, <1>7, <1>8, <1>9

\* The flag is cleared before the save reads, and raised after the change: what a save has
\* missed is asked for again.
LEMMA ConfigStepSaved ==
  ASSUME ConfigAssumption, SaveInv,
         Wake \/ CopyWords \/ Commit \/ Tick
           \/ \E c \in Callers : GiveReason(c) \/ RestoreSettings(c) \/ AskForSave(c)
  PROVE  Saved'
<1>1. ConfigTypeOK /\ ImageRight /\ Saved  BY DEF SaveInv
<1>2. CASE Wake  BY <1>1, <1>2 DEF Wake, Saved
<1>3. CASE CopyWords
  <2>1. CASE image = <<>>  BY <1>3, <2>1 DEF CopyWords, Saved
  <2>2. CASE image # <<>> /\ ~saveFlag /\ \A c \in Callers : resetter[c] \in {"away", "waiting"}
    <3>1. image = <<ram[1]>> /\ ram \in [Words -> Values] /\ saver' = "commit" /\ ram' = ram
      BY <1>1, <1>3, <2>2 DEF CopyWords, Saved, ConfigTypeOK
    <3>2. ram[1] \in Values /\ Words = 1..11  BY <3>1, Layouts
    <3>3. <<ram[1]>> \o Tail(ram) = [ram EXCEPT ![1] = ram[1]]  BY <3>1, <3>2, CopiedWords
    <3>4. [ram EXCEPT ![1] = ram[1]] = ram  BY <3>1
    <3>5. image' = ram  BY <1>3, <2>2, <3>1, <3>3, <3>4 DEF CopyWords
    <3> QED  BY <3>1, <3>5 DEF Saved
  <2>3. CASE ~(~saveFlag /\ \A c \in Callers : resetter[c] \in {"away", "waiting"})
    BY <1>3, <2>3 DEF CopyWords, Saved
  <2> QED  BY <2>1, <2>2, <2>3
<1>4. CASE Commit  BY <1>1, <1>4 DEF Commit, Saved
<1>5. CASE Tick  BY <1>1, <1>5 DEF Tick, Saved
<1>6. ASSUME NEW c \in Callers, GiveReason(c) PROVE Saved'
  <2>1. resetter'[c] \in {"settings", "flag"}  BY <1>1, <1>6 DEF GiveReason, ConfigTypeOK
  <2> QED  BY <2>1 DEF Saved
<1>7. ASSUME NEW c \in Callers, RestoreSettings(c) PROVE Saved'
  <2>1. resetter'[c] = "flag"  BY <1>1, <1>7 DEF RestoreSettings, ConfigTypeOK
  <2> QED  BY <2>1 DEF Saved
<1>8. ASSUME NEW c \in Callers, AskForSave(c) PROVE Saved'
  BY <1>8 DEF AskForSave, Saved
<1> QED  BY <1>2, <1>3, <1>4, <1>5, <1>6, <1>7, <1>8

\* Who is in system_reset stays there until a boot, and has given a reason once.
LEMMA GivenReasons ==
  ASSUME ConfigTypeOK
  PROVE  /\ UNCHANGED resetter => Given' = Given
         /\ \A c \in Callers : RestoreSettings(c) \/ AskForSave(c) =>
              Given' = Given /\ \A d \in Callers : resetter'[d] = "away" <=> resetter[d] = "away"
         /\ \A c \in Callers : GiveReason(c) =>
              /\ Given' = Given \cup {Reason(c)}
              /\ \A d \in Callers : resetter'[d] = "waiting" <=> resetter[d] = "waiting"
         /\ \A c \in Callers : resetter[c] # "away" => Reason(c) \in Given
<1>1. UNCHANGED resetter => Given' = Given  BY DEF Given
<1>2. ASSUME NEW c \in Callers, RestoreSettings(c) \/ AskForSave(c)
      PROVE  Given' = Given /\ \A d \in Callers : resetter'[d] = "away" <=> resetter[d] = "away"
  <2>1. \A d \in Callers : resetter'[d] = "away" <=> resetter[d] = "away"
    BY <1>2 DEF RestoreSettings, AskForSave, ConfigTypeOK
  <2> QED  BY <2>1 DEF Given
<1>3. ASSUME NEW c \in Callers, GiveReason(c)
      PROVE  /\ Given' = Given \cup {Reason(c)}
             /\ \A d \in Callers : resetter'[d] = "waiting" <=> resetter[d] = "waiting"
  <2>1. \A d \in Callers : resetter'[d] # "away" <=> resetter[d] # "away" \/ d = c
    BY <1>3 DEF GiveReason, ConfigTypeOK
  <2>2. \A d \in Callers : resetter'[d] = "waiting" <=> resetter[d] = "waiting"
    BY <1>3 DEF GiveReason, ConfigTypeOK
  <2>3. {e \in Callers : resetter'[e] # "away"} = {e \in Callers : resetter[e] # "away"} \cup {c}
    BY <2>1
  <2> QED  BY <2>2, <2>3 DEF Given
<1>4. \A c \in Callers : resetter[c] # "away" => Reason(c) \in Given  BY DEF Given
<1> QED  BY <1>1, <1>2, <1>3, <1>4

\* The time that a waiting task has left is enough for what flash_task has still to do: it
\* clears the flag, reads and commits in no more time than the tasks in between allow it.
LEMMA ConfigStepReason ==
  ASSUME ConfigAssumption, SaveInv,
         Wake \/ CopyWords \/ Commit \/ Tick
           \/ \E c \in Callers : GiveReason(c) \/ RestoreSettings(c) \/ AskForSave(c)
  PROVE  ReasonOnItsWay'
<1> DEFINE Waits(c) ==
      /\ saver = "asleep" => flash[1] \in Given \/ (saveFlag /\ due[c] > nap + SaveTicks)
      /\ saver # "asleep" /\ Stale => saveFlag /\ due[c] > NapTicks + 2 * SaveTicks - busy
      /\ saver # "asleep" /\ ~Stale => flash[1] \in Given \/ due[c] > SaveTicks - busy
<1>1. ConfigTypeOK /\ ImageRight /\ ReasonOnItsWay /\ Words = 1..11  BY Layouts DEF SaveInv
<1>2. /\ nap \in 0..NapTicks /\ busy \in 0..SaveTicks /\ NapTicks \in Nat \ {0}
      /\ SaveTicks \in Nat \ {0} /\ ResetTicks \in Nat /\ ResetTicks > 2 * SaveTicks + 2 * NapTicks
      /\ \A c \in Callers : due[c] \in 0..ResetTicks
      /\ saver \in {"asleep", "copy", "commit"}
  BY <1>1 DEF ConfigTypeOK, ConfigAssumption
<1>3. /\ \A c \in Callers : resetter[c] = "waiting" => Waits(c)
      /\ (\E c \in Callers : resetter[c] # "away") => ram[1] \in Given
      /\ reasons # {} => seen \in reasons
  BY <1>1 DEF ReasonOnItsWay
<1>4. CASE Wake
  <2>1. UNCHANGED <<resetter, ram, flash, due, reasons, seen>> /\ Given' = Given
    BY <1>1, <1>4, GivenReasons DEF Wake
  <2>2. ASSUME NEW c \in Callers, resetter[c] = "waiting" PROVE Waits(c)'
    <3>1. saver = "asleep" /\ nap = 0 /\ Waits(c)  BY <1>3, <1>4, <2>2 DEF Wake
    <3>2. CASE saveFlag
      <4>1. saver' = "copy" /\ busy' = 0 /\ image' = <<>> /\ ~Stale'
        BY <1>4, <3>2 DEF Wake, Stale
      <4>2. flash[1] \in Given \/ due[c] > SaveTicks - 0  BY <1>2, <3>1
      <4> QED  BY <2>1, <4>1, <4>2
    <3>3. CASE ~saveFlag
      <4>1. saver' = "asleep" /\ flash[1] \in Given  BY <1>4, <3>1, <3>3 DEF Wake
      <4> QED  BY <2>1, <4>1
    <3> QED  BY <3>2, <3>3
  <2> QED  BY <1>3, <2>1, <2>2 DEF ReasonOnItsWay
<1>5. CASE CopyWords
  <2>1. /\ UNCHANGED <<resetter, ram, flash, due, reasons, seen, saveFlag, busy, nap>>
        /\ Given' = Given /\ saver = "copy" /\ saver' # "asleep"
    BY <1>1, <1>5, GivenReasons DEF CopyWords
  <2>2. ASSUME NEW c \in Callers, resetter[c] = "waiting" PROVE Waits(c)'
    <3>1. Waits(c) /\ ram[1] \in Given  BY <1>3, <2>2
    <3>2. CASE image = <<>>
      <4>1. image' = <<ram[1]>>  BY <1>5, <3>2 DEF CopyWords
      <4>2. ~Stale /\ ~Stale'  BY <2>1, <3>1, <3>2, <4>1 DEF Stale
      <4> QED  BY <2>1, <3>1, <4>2
    <3>3. CASE image # <<>>
      <4>1. PICK v \in Values : image = <<v>>  BY <1>1, <2>1, <3>3 DEF ImageRight
      <4>2. image' = <<v>> \o Tail(ram)  BY <1>5, <3>3, <4>1 DEF CopyWords
      <4>3. ram \in [Words -> Values] /\ 1 \in Words  BY <1>1 DEF ConfigTypeOK
      <4>4. <<v>> \o Tail(ram) = [ram EXCEPT ![1] = v]  BY <4>3, CopiedWords
      <4>5. image'[1] = v /\ image[1] = v  BY <4>1, <4>2, <4>3, <4>4
      <4>6. image' # <<>>
        <5>1. Len(<<v>> \o Tail(ram)) = 11  BY <4>3, CopiedWords
        <5>2. Len(<<>>) = 0  BY EmptySeq
        <5> QED  BY ONLY <4>2, <5>1, <5>2
      <4>7. Stale' <=> Stale  BY <2>1, <3>3, <4>5, <4>6 DEF Stale
      <4> QED  BY <2>1, <3>1, <4>7
    <3> QED  BY <3>2, <3>3
  <2> QED  BY <1>3, <2>1, <2>2 DEF ReasonOnItsWay
<1>6. CASE Commit
  <2>1. /\ UNCHANGED <<resetter, ram, due, reasons, seen, saveFlag>> /\ Given' = Given
        /\ saver = "commit" /\ saver' = "asleep" /\ flash' = image /\ nap' = NapTicks
    BY <1>1, <1>6, GivenReasons DEF Commit
  <2>2. ASSUME NEW c \in Callers, resetter[c] = "waiting" PROVE Waits(c)'
    <3>1. Waits(c)  BY <1>3, <2>2
    <3>2. CASE image[1] \in Given  BY <2>1, <3>2
    <3>3. CASE image[1] \notin Given
      <4>1. image # <<>>
        <5>1. image \in [1..11 -> Values]  BY <1>1, <2>1 DEF ImageRight
        <5>2. DOMAIN image = 1..11 /\ DOMAIN <<>> = {}  BY <5>1
        <5>3. 1 \in 1..11  OBVIOUS
        <5> QED  BY <5>2, <5>3
      <4>2. Stale  BY <3>3, <4>1 DEF Stale
      <4>3. saveFlag /\ due[c] > NapTicks + SaveTicks  BY <1>2, <2>1, <3>1, <4>2
      <4> QED  BY <2>1, <4>3
    <3> QED  BY <3>2, <3>3
  <2> QED  BY <1>3, <2>1, <2>2 DEF ReasonOnItsWay
<1>7. CASE Tick
  <2>1. /\ UNCHANGED <<resetter, ram, flash, reasons, seen, saveFlag, saver, image>>
        /\ Given' = Given /\ (Stale' <=> Stale)
    BY <1>1, <1>7, GivenReasons DEF Tick, Stale
  <2>2. ASSUME NEW c \in Callers, resetter[c] = "waiting" PROVE Waits(c)'
    <3>1. Waits(c)  BY <1>3, <2>2
    <3>2. due'[c] = due[c] - 1 /\ due[c] > 0  BY <1>2, <1>7, <2>2 DEF Tick, Less
    <3>3. CASE saver = "asleep"
      <4>1. nap' = nap - 1  BY <1>7, <3>3 DEF Tick
      <4> QED  BY <1>2, <2>1, <3>1, <3>2, <3>3, <4>1
    <3>4. CASE saver # "asleep"
      <4>1. busy' = busy + 1  BY <1>7, <3>4 DEF Tick
      <4> QED  BY <1>2, <2>1, <3>1, <3>2, <3>4, <4>1
    <3> QED  BY <3>3, <3>4
  <2> QED  BY <1>3, <2>1, <2>2 DEF ReasonOnItsWay
<1>8. ASSUME NEW c \in Callers, GiveReason(c) PROVE ReasonOnItsWay'
  <2>1. /\ UNCHANGED <<flash, saveFlag, saver, image, nap, busy, due, reasons, seen>>
        /\ Given' = Given \cup {Reason(c)}
        /\ \A d \in Callers : resetter'[d] = "waiting" <=> resetter[d] = "waiting"
    BY <1>1, <1>8, GivenReasons DEF GiveReason, configTask
  <2>2. ram'[1] = Reason(c)  BY <1>1, <1>8 DEF GiveReason, ConfigTypeOK
  <2>3. ASSUME NEW d \in Callers, resetter[d] = "waiting" PROVE Waits(d)'
    <3>1. Waits(d) /\ (Stale' => Stale)  BY <1>3, <2>1, <2>3 DEF Stale
    <3>2. CASE saver # "asleep" /\ Stale /\ ~Stale'
      <4>1. due[d] > SaveTicks - busy  BY <1>2, <3>1, <3>2
      <4> QED  BY <2>1, <3>2, <4>1
    <3> QED  BY <2>1, <3>1, <3>2
  <2> QED  BY <1>3, <2>1, <2>2, <2>3 DEF ReasonOnItsWay
<1>9. ASSUME NEW c \in Callers, RestoreSettings(c) PROVE ReasonOnItsWay'
  <2>1. /\ UNCHANGED <<flash, saveFlag, saver, image, nap, busy, due, reasons, seen>>
        /\ Given' = Given /\ (Stale' <=> Stale)
        /\ \A d \in Callers : resetter'[d] = "away" <=> resetter[d] = "away"
    BY <1>1, <1>9, GivenReasons DEF RestoreSettings, configTask, Stale
  <2>2. ram'[1] = ram[1]  BY <1>1, <1>9 DEF RestoreSettings
  <2>3. \A d \in Callers : resetter'[d] = "waiting" => resetter[d] = "waiting"
    BY <1>1, <1>9 DEF RestoreSettings, ConfigTypeOK
  <2>4. ASSUME NEW d \in Callers, resetter'[d] = "waiting" PROVE Waits(d)'
    BY <1>3, <2>1, <2>3, <2>4
  <2> QED  BY <1>3, <2>1, <2>2, <2>4 DEF ReasonOnItsWay
<1>10. ASSUME NEW c \in Callers, AskForSave(c) PROVE ReasonOnItsWay'
  <2>1. /\ UNCHANGED <<ram, flash, saver, image, nap, busy, reasons, seen>> /\ saveFlag' = TRUE
        /\ Given' = Given /\ (Stale' <=> Stale)
        /\ \A d \in Callers : resetter'[d] = "away" <=> resetter[d] = "away"
    BY <1>1, <1>10, GivenReasons DEF AskForSave, configTask, Stale
  <2>2. due'[c] = ResetTicks /\ \A d \in Callers \ {c} : due'[d] = due[d]
    BY <1>1, <1>10 DEF AskForSave, WaitTicks, ConfigTypeOK
  <2>3. \A d \in Callers \ {c} : resetter'[d] = resetter[d]
    BY <1>1, <1>10 DEF AskForSave, ConfigTypeOK
  <2>4. ASSUME NEW d \in Callers, resetter'[d] = "waiting" PROVE Waits(d)'
    <3>1. CASE d = c
      <4>1. /\ due'[d] > nap + SaveTicks /\ due'[d] > NapTicks + 2 * SaveTicks - busy
            /\ due'[d] > SaveTicks - busy
        BY <1>2, <2>2, <3>1
      <4> QED  BY <2>1, <4>1
    <3>2. CASE d # c
      <4>1. Waits(d) /\ due'[d] = due[d]  BY <1>3, <2>2, <2>3, <2>4, <3>2
      <4> QED  BY <2>1, <4>1
    <3> QED  BY <3>1, <3>2
  <2> QED  BY <1>3, <2>1, <2>4 DEF ReasonOnItsWay
<1> QED  BY <1>4, <1>5, <1>6, <1>7, <1>8, <1>9, <1>10

\* Until two tasks are in system_reset at once, the flag is raised only by check_boot_mode,
\* whose save is over when it returns, and by a task that has made its changes.
LEMMA ConfigStepOrder ==
  ASSUME ConfigAssumption, BootWaitsForItsSave, ConfigInv, ~crowded',
         Wake \/ CopyWords \/ Commit \/ Tick
           \/ \E c \in Callers : GiveReason(c) \/ RestoreSettings(c) \/ AskForSave(c)
  PROVE  OneAfterTheOther'
<1>1. ~crowded
  BY DEF Wake, CopyWords, Commit, Tick, GiveReason, RestoreSettings, AskForSave
<1>2. ConfigTypeOK /\ OneAfterTheOther  BY <1>1 DEF ConfigInv, SaveInv
<1>3. /\ nap \in 0..NapTicks /\ busy \in 0..SaveTicks /\ booting \in 0..BootTicks
      /\ SaveTicks \in Nat /\ BootTicks \in Nat /\ BootTicks > SaveTicks
      /\ saver \in {"asleep", "copy", "commit"} /\ saveFlag \in BOOLEAN
  BY <1>2 DEF ConfigTypeOK, ConfigAssumption, BootWaitsForItsSave
<1> DEFINE Calm ==
      \/ saver = "asleep" /\ ~saveFlag
      \/ /\ AllAway
         /\ saver = "asleep" => nap = 0 /\ booting = BootTicks
         /\ saver # "asleep" => ~saveFlag /\ booting + busy = BootTicks
<1>4. ASSUME UNCHANGED resetter, Calm => Calm' PROVE OneAfterTheOther'
  BY <1>2, <1>4 DEF OneAfterTheOther
<1>5. CASE Wake
  <2>1. UNCHANGED resetter  BY <1>5 DEF Wake
  <2>2. ASSUME Calm PROVE Calm'
    <3>1. CASE saveFlag
      <4>1. AllAway' /\ booting = BootTicks
        BY <1>5, <2>2, <3>1 DEF Wake, AllAway
      <4>2. saver' = "copy" /\ saveFlag' = FALSE /\ busy' = 0 /\ booting' = booting
        BY <1>5, <3>1 DEF Wake
      <4> QED  BY <1>3, <4>1, <4>2
    <3>2. CASE ~saveFlag  BY <1>5, <3>2 DEF Wake
    <3> QED  BY <3>1, <3>2
  <2> QED  BY <1>4, <2>1, <2>2
<1>6. CASE CopyWords
  <2>1. UNCHANGED <<resetter, booting, busy, saveFlag>> /\ saver # "asleep" /\ saver' # "asleep"
    BY <1>6 DEF CopyWords
  <2> QED  BY <1>4, <2>1 DEF AllAway
<1>7. CASE Commit
  <2>1. UNCHANGED <<resetter, saveFlag>> /\ saver # "asleep" /\ saver' = "asleep"
    BY <1>7 DEF Commit
  <2> QED  BY <1>4, <2>1
<1>8. CASE Tick
  <2>1. UNCHANGED <<resetter, saver, saveFlag>>  BY <1>8 DEF Tick
  <2>2. ASSUME Calm PROVE Calm'
    <3>1. CASE saver = "asleep"
      <4>1. nap > 0  BY <1>8, <3>1 DEF Tick
      <4> QED  BY <1>3, <2>1, <2>2, <3>1, <4>1
    <3>2. CASE saver # "asleep"
      <4>1. busy' = busy + 1 /\ busy < SaveTicks  BY <1>8, <3>2 DEF Tick
      <4>2. AllAway /\ ~saveFlag /\ booting + busy = BootTicks  BY <2>2, <3>2
      <4>3. booting' = booting - 1  BY <1>3, <1>8, <4>1, <4>2 DEF Tick, Less
      <4>4. AllAway'  BY <2>1, <4>2 DEF AllAway
      <4>5. booting' + busy' = BootTicks  BY <1>3, <4>1, <4>2, <4>3
      <4> QED  BY <2>1, <3>2, <4>2, <4>4, <4>5
    <3> QED  BY <3>1, <3>2
  <2> QED  BY <1>4, <2>1, <2>2
<1>9. ASSUME NEW c \in Callers, GiveReason(c) PROVE OneAfterTheOther'
  <2>1. AllAway
    BY <1>9 DEF GiveReason, AllAway
  <2>2. \A d \in Callers : resetter'[d] # "away" <=> d = c
    BY <1>2, <1>9, <2>1 DEF GiveReason, ConfigTypeOK, AllAway
  <2>3. Calm  BY <1>2, <2>1 DEF OneAfterTheOther, AllAway
  <2>4. booting = 0 /\ UNCHANGED <<saver, saveFlag, busy, booting>>
    BY <1>9 DEF GiveReason, configTask
  <2>5. saver' = "asleep" /\ ~saveFlag'  BY <1>3, <2>3, <2>4
  <2> QED  BY <2>2, <2>5 DEF OneAfterTheOther
<1>10. ASSUME NEW c \in Callers, RestoreSettings(c) PROVE OneAfterTheOther'
  <2>1. resetter[c] = "settings" /\ UNCHANGED <<saver, saveFlag>>
    BY <1>10 DEF RestoreSettings, configTask
  <2>2. \A d \in Callers : resetter'[d] = "away" <=> resetter[d] = "away"
    BY <1>2, <1>10 DEF RestoreSettings, ConfigTypeOK
  <2>3. \A d \in Callers : resetter[d] # "waiting"  BY <1>2, <2>1 DEF OneAfterTheOther
  <2>4. saver = "asleep" /\ ~saveFlag  BY <1>2, <2>1, <2>3 DEF OneAfterTheOther, AllAway
  <2>5. \A d, e \in Callers : resetter'[d] # "away" /\ resetter'[e] # "away" => d = e
    BY <1>2, <2>2 DEF OneAfterTheOther
  <2> QED  BY <2>1, <2>4, <2>5 DEF OneAfterTheOther
<1>11. ASSUME NEW c \in Callers, AskForSave(c) PROVE OneAfterTheOther'
  <2>1. \A d \in Callers : resetter'[d] = "away" <=> resetter[d] = "away"
    BY <1>2, <1>11 DEF AskForSave, ConfigTypeOK
  <2>2. resetter'[c] = "waiting"  BY <1>2, <1>11 DEF AskForSave, ConfigTypeOK
  <2>3. \A d, e \in Callers : resetter'[d] # "away" /\ resetter'[e] # "away" => d = e
    BY <1>2, <2>1 DEF OneAfterTheOther
  <2> QED  BY <2>2, <2>3 DEF OneAfterTheOther
<1> QED  BY <1>5, <1>6, <1>7, <1>8, <1>9, <1>10, <1>11

\* So a save that reads "factory" finds the factory settings as well.
LEMMA ConfigStepSettings ==
  ASSUME ConfigAssumption, BootWaitsForItsSave, ConfigInv, ~crowded',
         Wake \/ CopyWords \/ Commit \/ Tick
           \/ \E c \in Callers : GiveReason(c) \/ RestoreSettings(c) \/ AskForSave(c)
  PROVE  SettingsWithReason'
<1>1. ~crowded
  BY DEF Wake, CopyWords, Commit, Tick, GiveReason, RestoreSettings, AskForSave
<1>2. ConfigTypeOK /\ ImageRight /\ OneAfterTheOther /\ SettingsWithReason /\ Words = 1..11
  BY <1>1, Layouts DEF ConfigInv, SaveInv
<1>3. /\ UNCHANGED ram => (Restored(ram)' <=> Restored(ram))
      /\ UNCHANGED flash => (Restored(flash)' <=> Restored(flash))
      /\ UNCHANGED image => (Restored(image)' <=> Restored(image))
  BY DEF Restored
<1>4. CASE Wake
  <2>1. UNCHANGED <<ram, flash, resetter, seen>> /\ saver = "asleep"
        /\ (saver' = "asleep" \/ (saver' = "copy" /\ image' = <<>>))
    BY <1>4 DEF Wake
  <2> QED  BY <1>2, <1>3, <2>1 DEF SettingsWithReason
<1>5. CASE CopyWords
  <2>1. UNCHANGED <<ram, flash, resetter, seen>> /\ saver = "copy"  BY <1>5 DEF CopyWords
  <2>2. CASE image = <<>>
    <3>1. image' = <<ram[1]>> /\ saver' = "copy"  BY <1>5, <2>2 DEF CopyWords
    <3>2. \A c \in Callers : resetter[c] # "settings"
      BY <1>2, <2>1 DEF OneAfterTheOther, AllAway
    <3>3. image'[1] = REASON_FACTORY_RESTORE => Restored(ram)'
      BY <1>2, <1>3, <2>1, <3>1, <3>2 DEF SettingsWithReason
    <3> QED  BY <1>2, <1>3, <2>1, <3>1, <3>3 DEF SettingsWithReason
  <2>3. CASE image # <<>>
    <3>1. PICK v \in Values : image = <<v>>  BY <1>2, <2>1, <2>3 DEF ImageRight
    <3>2. image' = <<v>> \o Tail(ram) /\ saver' = "commit"  BY <1>5, <2>3, <3>1 DEF CopyWords
    <3>3. ram \in [Words -> Values] /\ 1 \in Words  BY <1>2 DEF ConfigTypeOK
    <3>4. image' = [ram EXCEPT ![1] = v]  BY <3>2, <3>3, CopiedWords
    <3>5. image'[1] = v /\ image[1] = v /\ (Restored(image)' <=> Restored(ram))
      BY <3>1, <3>3, <3>4 DEF Restored
    <3>6. image'[1] = REASON_FACTORY_RESTORE => Restored(image)'
      BY <1>2, <2>1, <2>3, <3>5 DEF SettingsWithReason
    <3> QED  BY <1>2, <1>3, <2>1, <3>2, <3>6 DEF SettingsWithReason
  <2> QED  BY <2>2, <2>3
<1>6. CASE Commit
  <2>1. /\ UNCHANGED <<ram, resetter, seen>> /\ saver = "commit" /\ saver' = "asleep"
        /\ flash' = image
    BY <1>6 DEF Commit
  <2>2. Restored(flash)' <=> Restored(image)  BY <2>1 DEF Restored
  <2> QED  BY <1>2, <1>3, <2>1, <2>2 DEF SettingsWithReason
<1>7. CASE Tick
  <2>1. UNCHANGED <<ram, flash, resetter, seen, saver, image>>  BY <1>7 DEF Tick
  <2> QED  BY <1>2, <1>3, <2>1 DEF SettingsWithReason
<1>8. ASSUME NEW c \in Callers, GiveReason(c) PROVE SettingsWithReason'
  <2>1. UNCHANGED <<flash, seen, saver, image>>  BY <1>8 DEF GiveReason, configTask
  <2>2. ram' = [ram EXCEPT ![1] = Reason(c)] /\ ram \in [Words -> Values]
    BY <1>2, <1>8 DEF GiveReason, ConfigTypeOK
  <2>3. ram'[1] = Reason(c) /\ (Restored(ram)' <=> Restored(ram))
    BY <1>2, <2>2 DEF Restored
  <2>4. Reason(c) = REASON_FACTORY_RESTORE => resetter'[c] = "settings"
    BY <1>2, <1>8 DEF GiveReason, ConfigTypeOK
  <2> QED  BY <1>2, <1>3, <2>1, <2>3, <2>4 DEF SettingsWithReason
<1>9. ASSUME NEW c \in Callers, RestoreSettings(c) PROVE SettingsWithReason'
  <2>1. UNCHANGED <<flash, seen, saver, image>>  BY <1>9 DEF RestoreSettings, configTask
  <2>2. Restored(ram)'
    BY <1>9 DEF RestoreSettings, Restored
  <2> QED  BY <1>2, <1>3, <2>1, <2>2 DEF SettingsWithReason
<1>10. ASSUME NEW c \in Callers, AskForSave(c) PROVE SettingsWithReason'
  <2>1. UNCHANGED <<ram, flash, seen, saver, image>>  BY <1>10 DEF AskForSave, configTask
  <2>2. \A d \in Callers : resetter[d] = "settings" => resetter'[d] = "settings"
    BY <1>2, <1>10 DEF AskForSave, ConfigTypeOK
  <2> QED  BY <1>2, <1>3, <2>1, <2>2 DEF SettingsWithReason
<1> QED  BY <1>4, <1>5, <1>6, <1>7, <1>8, <1>9, <1>10

\* When the time is over, the reason is in the flash, and no save is behind it: the wait of
\* system_reset is longer than what is left to be done.
LEMMA RestartGivesReason ==
  ASSUME ConfigAssumption, SaveInv, NEW c \in Callers, Restart(c)
  PROVE  reasons' \subseteq {Reason(d) : d \in Callers} /\ flash[1] \in reasons'
<1>1. resetter[c] = "waiting" /\ due[c] = 0 /\ reasons' = Given  BY DEF Restart, Given
<1>2. /\ nap \in 0..NapTicks /\ busy \in 0..SaveTicks /\ NapTicks \in Nat /\ SaveTicks \in Nat
  BY DEF SaveInv, ConfigTypeOK, ConfigAssumption
<1>3. flash[1] \in Given
  <2>1. /\ saver = "asleep" => flash[1] \in Given \/ 0 > nap + SaveTicks
        /\ saver # "asleep" /\ Stale => 0 > NapTicks + 2 * SaveTicks - busy
        /\ saver # "asleep" /\ ~Stale => flash[1] \in Given \/ 0 > SaveTicks - busy
    BY <1>1 DEF SaveInv, ReasonOnItsWay
  <2>2. ~(0 > nap + SaveTicks) /\ ~(0 > NapTicks + 2 * SaveTicks - busy) /\ ~(0 > SaveTicks - busy)
    BY <1>2
  <2> QED  BY <2>1, <2>2
<1>4. Given \subseteq {Reason(d) : d \in Callers}  BY DEF Given
<1> QED  BY <1>1, <1>3, <1>4

\* Whatever BootTicks is: no step and no power cut loses a change or a reason.
LEMMA SaveStep ==
  ASSUME ConfigAssumption, SaveInv, [ConfigNext]_configVars
  PROVE  SaveInv'
<1>1. CASE Wake \/ CopyWords \/ Commit \/ Tick
             \/ \E c \in Callers : GiveReason(c) \/ RestoreSettings(c) \/ AskForSave(c)
  BY <1>1, ConfigStepTyped, ConfigStepSaved, ConfigStepReason DEF SaveInv
<1>2. ASSUME NEW c \in Callers, Restart(c) PROVE SaveInv'
  BY <1>2, RestartGivesReason, BootKeepsInvariant DEF Restart
<1>3. CASE PowerCut  BY <1>3, BootKeepsInvariant DEF PowerCut
<1>4. CASE UNCHANGED configVars
  BY <1>4 DEF configVars, configTask, SaveInv, ConfigTypeOK, ImageRight, Saved, ReasonOnItsWay,
              Stale, Given
<1> QED  BY <1>1, <1>2, <1>3, <1>4 DEF ConfigNext, ResetNext

\* And when the boot's own save is over before a task can be in system_reset, a "factory"
\* never goes without its settings.
LEMMA ConfigStep ==
  ASSUME ConfigAssumption, BootWaitsForItsSave, ConfigInv, [ConfigNext]_configVars
  PROVE  ConfigInv'
<1>0. SaveInv /\ SaveInv'  BY SaveStep DEF ConfigInv
<1>1. CASE Wake \/ CopyWords \/ Commit \/ Tick
             \/ \E c \in Callers : GiveReason(c) \/ RestoreSettings(c) \/ AskForSave(c)
  <2>1. ~crowded' => OneAfterTheOther'  BY <1>1, ConfigStepOrder
  <2>2. ~crowded' => SettingsWithReason'  BY <1>1, ConfigStepSettings
  <2> QED  BY <1>0, <2>1, <2>2 DEF ConfigInv
<1>2. ASSUME NEW c \in Callers, Restart(c) PROVE ConfigInv'
  BY <1>0, <1>2, RestartGivesReason, BootKeepsInvariant DEF Restart
<1>3. CASE PowerCut  BY <1>0, <1>3, BootKeepsInvariant DEF PowerCut
<1>4. CASE UNCHANGED configVars
  BY <1>0, <1>4 DEF configVars, configTask, ConfigInv, OneAfterTheOther, SettingsWithReason, AllAway,
                    Restored
<1> QED  BY <1>1, <1>2, <1>3, <1>4 DEF ConfigNext, ResetNext

\* AppConfig: in every behaviour, with every number of tasks in system_reset and power cuts
\* anywhere, the deferred save is never behind by more than a raised flag, and a task that
\* waits for its restart has the time that its reason needs.
THEOREM SaveInvariant == ConfigSpec => []SaveInv
<1> USE ConfigAssumption
<1>1. ConfigInit => SaveInv  BY ConfigInitRight DEF ConfigInv
<1>2. SaveInv /\ [ConfigNext]_configVars => SaveInv'  BY SaveStep
<1> QED  BY <1>1, <1>2, PTL DEF ConfigSpec

\* No change of the settings is forgotten: flash_task clears the request before it reads.
THEOREM NoChangeForgottenCorrect == ConfigSpec => []NoChangeForgotten
<1>1. SaveInv => NoChangeForgotten  BY DEF SaveInv, Saved, NoChangeForgotten
<1> QED  BY <1>1, SaveInvariant, PTL

\* The whole of it, with a boot that waits (500 ms) longer than its save takes.
THEOREM ConfigInvariant ==
  ASSUME BootWaitsForItsSave PROVE ConfigSpec => []ConfigInv
<1> USE ConfigAssumption
<1>1. ConfigInit => ConfigInv  BY ConfigInitRight
<1>2. ConfigInv /\ [ConfigNext]_configVars => ConfigInv'  BY ConfigStep
<1> QED  BY <1>1, <1>2, PTL DEF ConfigSpec

\* A boot after system_reset finds a reason that was given, and a boot that finds "factory"
\* finds the factory settings, unless two tasks have been in system_reset at once.
THEOREM RestartFindsItsReasonCorrect ==
  ASSUME BootWaitsForItsSave PROVE ConfigSpec => []RestartFindsItsReason
<1>1. ConfigInv => RestartFindsItsReason
  BY DEF ConfigInv, SaveInv, ReasonOnItsWay, SettingsWithReason, Restored, RestartFindsItsReason
<1> QED  BY <1>1, ConfigInvariant, PTL

(***************************************************************************)
(* KeyScan: one command per press                                          *)
(***************************************************************************)

\* What a press of k has been good for while it lasts: a command that its threshold gives.
LongGiven(k) ==
  /\ given[k]["factory"] <= (IF TIME_THRES_10S \in triggered[k] THEN 1 ELSE 0)
  /\ given[k]["pairing"] <= (IF k = KEY_SET /\ TIME_THRES_5S \in triggered[k] THEN 1 ELSE 0)
  /\ given[k]["manage_start"] <= (IF k = KEY_CHANGE /\ TIME_THRES_3S \in triggered[k] THEN 1 ELSE 0)
  /\ \A c \in {"clean", "manage_finish", "tare_zero"} : given[k][c] = 0

\* The flags are those of the press that lasts, and only a release without a flag, hence
\* without a command, is a short press.
PressRight(k) ==
  /\ triggered[k] \subseteq {t \in KeyThresholds : t <= duration[k]}
  /\ is_pressed[k] => LongGiven(k)
  /\ ~is_pressed[k] => triggered[k] = {} /\ duration[k] = 0
  /\ \A c \in KeyCommands : given[k][c] <= 1
  /\ \A c, d \in KeyCommands \ {"factory"} : given[k][c] > 0 /\ given[k][d] > 0 => c = d

KeyInv == KeyTypeOK /\ \A k \in Keys : PressRight(k)

-----------------------------------------------------------------------------
(* What a threshold and a release may give *)

\* A threshold gives the command of its own, if any, and only to the key that has it.
LEMMA LongPresses ==
  ASSUME KeyAssumption, NEW k \in Keys, NEW t \in KeyThresholds
  PROVE  /\ LongPress(k, t) \in {"factory", "pairing", "manage_start", NoCommand}
         /\ LongPress(k, t) = "factory" => t = TIME_THRES_10S
         /\ LongPress(k, t) = "pairing" => t = TIME_THRES_5S /\ k = KEY_SET
         /\ LongPress(k, t) = "manage_start" => t = TIME_THRES_3S /\ k = KEY_CHANGE
<1>1. /\ TIME_THRES_3S # TIME_THRES_5S /\ TIME_THRES_3S # TIME_THRES_10S
      /\ TIME_THRES_5S # TIME_THRES_10S
  BY DEF KeyAssumption
<1>2. CASE t = TIME_THRES_10S
  <2>1. LongPress(k, t) \in {"factory", NoCommand}  BY <1>1, <1>2, Zenon DEF LongPress
  <2> QED  BY <1>2, <2>1 DEF NoCommand
<1>3. CASE t = TIME_THRES_5S
  <2>1. \/ LongPress(k, t) = NoCommand
        \/ LongPress(k, t) = "pairing" /\ k = KEY_SET
    BY <1>1, <1>3, Zenon DEF LongPress
  <2> QED  BY <1>3, <2>1 DEF NoCommand
<1>4. CASE t = TIME_THRES_3S
  <2>1. \/ LongPress(k, t) = NoCommand
        \/ LongPress(k, t) = "manage_start" /\ k = KEY_CHANGE
    BY <1>1, <1>4, Zenon DEF LongPress
  <2> QED  BY <1>4, <2>1 DEF NoCommand
<1> QED  BY <1>2, <1>3, <1>4 DEF KeyThresholds

\* A short press gives a command that no threshold gives.
LEMMA ShortPresses ==
  ASSUME NEW k \in Keys
  PROVE  ShortPress(k) \in {"clean", "manage_finish", "tare_zero", NoCommand}
<1>1. KEY_CLEAN # KEY_CHANGE /\ KEY_CLEAN # KEY_SET /\ KEY_CHANGE # KEY_SET
  BY DEF KEY_CLEAN, KEY_CHANGE, KEY_SET
<1>2. CASE k = KEY_CLEAN
  <2>1. ShortPress(k) = NoCommand \/ ShortPress(k) = "clean"  BY <1>1, <1>2, Zenon DEF ShortPress
  <2> QED  BY <2>1
<1>3. CASE k = KEY_CHANGE
  <2>1. ShortPress(k) = NoCommand \/ ShortPress(k) = "manage_finish"
    BY <1>1, <1>3, Zenon DEF ShortPress
  <2> QED  BY <2>1
<1>4. CASE k = KEY_SET
  <2>1. ShortPress(k) = NoCommand \/ ShortPress(k) = "tare_zero"
    BY <1>1, <1>4, Zenon DEF ShortPress
  <2> QED  BY <2>1
<1> QED  BY <1>2, <1>3, <1>4 DEF Keys

\* Of the thresholds that were passed, the longest is one of them.
LEMMA LongestReached ==
  ASSUME KeyAssumption, NEW R \in SUBSET KeyThresholds, R # {}
  PROVE  (CHOOSE t \in R : \A u \in R : u <= t) \in R
<1>1. \E t \in R : \A u \in R : u <= t
  <2>1. CASE TIME_THRES_10S \in R  BY <2>1 DEF KeyAssumption, KeyThresholds
  <2>2. CASE TIME_THRES_10S \notin R /\ TIME_THRES_5S \in R
    BY <2>2 DEF KeyAssumption, KeyThresholds
  <2>3. CASE TIME_THRES_10S \notin R /\ TIME_THRES_5S \notin R
    BY <2>3 DEF KeyAssumption, KeyThresholds
  <2> QED  BY <2>1, <2>2, <2>3
<1> QED  BY <1>1

-----------------------------------------------------------------------------
(* The steps of KeyScan *)

\* Give counts the command for this key, and for no other.
LEMMA GiveCounts ==
  ASSUME KeyTypeOK, NEW k \in Keys, NEW command \in KeyCommands \cup {NoCommand}, Give(k, command)
  PROVE  /\ given' \in [Keys -> [KeyCommands -> 0..2]]
         /\ \A j \in Keys \ {k} : given'[j] = given[j]
         /\ \A c \in KeyCommands : given'[k][c] = given[k][c]
                                     \/ (c = command /\ given'[k][c] = given[k][c] + 1)
<1>1. given \in [Keys -> [KeyCommands -> 0..2]]  BY DEF KeyTypeOK
<1>2. CASE command = NoCommand \/ given[k][command] = 2
  <2>1. given' = given  BY <1>2 DEF Give
  <2> QED  BY <1>1, <2>1
<1>3. CASE ~(command = NoCommand \/ given[k][command] = 2)
  <2>1. command \in KeyCommands /\ given[k][command] \in 0..1  BY <1>1, <1>3
  <2>2. given' = [given EXCEPT ![k][command] = given[k][command] + 1]  BY <1>3 DEF Give
  <2>3. given[k][command] + 1 \in 0..2  BY <2>1
  <2> QED  BY <1>1, <2>1, <2>2, <2>3
<1> QED  BY <1>2, <1>3

\* A scan of one key leaves what the others have as it was.
LEMMA OtherKeys ==
  ASSUME NEW j \in Keys, PressRight(j), is_pressed'[j] = is_pressed[j], duration'[j] = duration[j],
         triggered'[j] = triggered[j], given'[j] = given[j]
  PROVE  PressRight(j)'
BY DEF PressRight, LongGiven

\* key_scan_task and the hand keep KeyInv: every press is counted from its first scan, and what it
\* has given is what its length has reached.
LEMMA KeyStep ==
  ASSUME KeyAssumption, KeyInv, [KeyNext]_keyVars
  PROVE  KeyInv'
<1>1. KeyTypeOK /\ \A k \in Keys : PressRight(k)  BY DEF KeyInv
<1>2. /\ {TIME_THRES_3S, TIME_THRES_5S, TIME_THRES_10S} \subseteq Nat \ {0}
      /\ TIME_THRES_3S < TIME_THRES_5S /\ TIME_THRES_5S < TIME_THRES_10S
  BY DEF KeyAssumption
<1>3. CASE TimePasses
  <2>1. UNCHANGED <<scanned, is_pressed, triggered, is_ready, given>>  BY <1>3 DEF TimePasses
  <2>2. \A k \in Keys : /\ duration[k] \in 0..TIME_THRES_10S /\ duration'[k] \in 0..TIME_THRES_10S
                        /\ duration[k] <= duration'[k]
                        /\ ~is_pressed[k] => duration'[k] = duration[k]
    BY <1>1, <1>2, <1>3 DEF TimePasses, KeyTypeOK
  <2>3. duration' \in [Keys -> 0..TIME_THRES_10S]
    <3>1. duration' = [k \in Keys |-> duration'[k]]  BY <1>3 DEF TimePasses
    <3> QED  BY <2>2, <3>1
  <2>4. ASSUME NEW k \in Keys PROVE PressRight(k)'
    <3>1. \A t \in KeyThresholds : t <= duration[k] => t <= duration'[k]
      BY <1>2, <2>2 DEF KeyThresholds
    <3>2. PressRight(k)  BY <1>1
    <3> QED  BY <2>1, <2>2, <3>1, <3>2 DEF PressRight, LongGiven
  <2>5. KeyTypeOK'  BY <1>1, <2>1, <2>3 DEF KeyTypeOK
  <2> QED  BY <2>4, <2>5 DEF KeyInv
<1>4. CASE SystemReady
  <2>1. UNCHANGED <<scanned, is_pressed, triggered, duration, given>> /\ is_ready' = TRUE
    BY <1>4 DEF SystemReady
  <2> QED  BY <1>1, <2>1 DEF KeyInv, KeyTypeOK, PressRight, LongGiven
<1>5. CASE ScanKey
  <2>1. PICK k \in Keys : k = scanned  BY <1>1 DEF KeyTypeOK
  <2>2. scanned' \in Keys /\ is_ready' \in BOOLEAN
    <3>1. Keys = 0..2  BY DEF Keys, KEY_CLEAN, KEY_CHANGE, KEY_SET
    <3>2. Cardinality(Keys) = 3
      <4>1. PICK a \in Int, b \in Int : a = 0 /\ b = 2  OBVIOUS
      <4>2. Cardinality(a..b) = IF a > b THEN 0 ELSE b - a + 1  BY FS_Interval
      <4> QED  BY <3>1, <4>1, <4>2
    <3> QED  BY <1>1, <1>5, <3>1, <3>2 DEF ScanKey, NextKey, KeyTypeOK
  <2>3. SUFFICES ASSUME PressKey(k) \/ HoldKey(k) \/ ReleaseKey(k)
                 PROVE  /\ is_pressed' \in [Keys -> BOOLEAN]
                        /\ duration' \in [Keys -> 0..TIME_THRES_10S]
                        /\ triggered' \in [Keys -> SUBSET KeyThresholds]
                        /\ given' \in [Keys -> [KeyCommands -> 0..2]]
                        /\ \A j \in Keys : PressRight(j)'
    <3>1. CASE UNCHANGED <<is_pressed, duration, triggered, given>>
      BY <1>1, <2>2, <3>1 DEF KeyInv, KeyTypeOK, PressRight, LongGiven
    <3> QED  BY <1>5, <2>1, <2>2, <2>3, <3>1 DEF ScanKey, KeyInv, KeyTypeOK
  <2>4. /\ is_pressed \in [Keys -> BOOLEAN] /\ duration \in [Keys -> 0..TIME_THRES_10S]
        /\ triggered \in [Keys -> SUBSET KeyThresholds]
        /\ given \in [Keys -> [KeyCommands -> 0..2]] /\ PressRight(k)
    BY <1>1 DEF KeyTypeOK
  <2>5. CASE PressKey(k)
    <3>1. /\ is_pressed' = [is_pressed EXCEPT ![k] = TRUE] /\ duration' = [duration EXCEPT ![k] = 0]
          /\ triggered' = [triggered EXCEPT ![k] = {}]
          /\ given' = [given EXCEPT ![k] = NothingGiven]
      BY <2>5 DEF PressKey
    <3>2. NothingGiven \in [KeyCommands -> 0..2] /\ \A c \in KeyCommands : NothingGiven[c] = 0
      BY DEF NothingGiven
    <3>3. PressRight(k)'
      <4>1. triggered'[k] = {} /\ is_pressed'[k] /\ given'[k] = NothingGiven  BY <2>4, <3>1
      <4> QED  BY <3>2, <4>1 DEF PressRight, LongGiven, KeyCommands
    <3>4. ASSUME NEW j \in Keys \ {k} PROVE PressRight(j)'
      BY <1>1, <2>4, <3>1, OtherKeys
    <3> QED  BY <1>2, <2>4, <3>1, <3>2, <3>3, <3>4
  <2>6. CASE HoldKey(k)
    <3>1. is_pressed[k] /\ UNCHANGED <<is_pressed, duration>> /\ LongGiven(k)
      BY <2>4, <2>6 DEF HoldKey, PressRight
    <3>2. CASE is_ready /\ Reached(k) # {}
      <4>1. PICK t : t = CHOOSE d \in Reached(k) : \A u \in Reached(k) : u <= d  OBVIOUS
      <4>2. triggered' = [triggered EXCEPT ![k] = triggered[k] \cup {t}] /\ Give(k, LongPress(k, t))
        BY <2>6, <3>2, <4>1 DEF HoldKey
      <4>3. t \in Reached(k)
        <5>1. Reached(k) \in SUBSET KeyThresholds  BY DEF Reached
        <5> QED  BY <3>2, <4>1, <5>1, LongestReached
      <4>4. t \in KeyThresholds /\ t \notin triggered[k] /\ duration[k] >= t  BY <4>3 DEF Reached
      <4>5. PICK command : command = LongPress(k, t)  OBVIOUS
      <4>6. /\ command \in {"factory", "pairing", "manage_start", NoCommand}
            /\ command = "factory" => t = TIME_THRES_10S
            /\ command = "pairing" => t = TIME_THRES_5S /\ k = KEY_SET
            /\ command = "manage_start" => t = TIME_THRES_3S /\ k = KEY_CHANGE
        BY <4>4, <4>5, LongPresses
      <4>7. /\ given' \in [Keys -> [KeyCommands -> 0..2]]
            /\ \A j \in Keys \ {k} : given'[j] = given[j]
            /\ \A c \in KeyCommands : given'[k][c] = given[k][c]
                                        \/ (c = command /\ given'[k][c] = given[k][c] + 1)
        <5>1. command \in KeyCommands \cup {NoCommand} /\ Give(k, command)
          BY <4>2, <4>5, <4>6 DEF KeyCommands
        <5> QED  BY <1>1, <5>1, GiveCounts
      <4>8. triggered'[k] = triggered[k] \cup {t} /\ triggered' \in [Keys -> SUBSET KeyThresholds]
        BY <2>4, <4>2, <4>4
      <4>9. LongGiven(k)'
        <5>1. \A c \in KeyCommands : given[k][c] \in 0..2 /\ given'[k][c] \in 0..2  BY <2>4, <4>7
        <5>2. given'[k]["factory"] <= (IF TIME_THRES_10S \in triggered'[k] THEN 1 ELSE 0)
          BY <3>1, <4>4, <4>6, <4>7, <4>8, <5>1 DEF LongGiven, KeyCommands
        <5>3. given'[k]["pairing"] <= (IF k = KEY_SET /\ TIME_THRES_5S \in triggered'[k] THEN 1 ELSE 0)
          BY <3>1, <4>4, <4>6, <4>7, <4>8, <5>1 DEF LongGiven, KeyCommands
        <5>4. given'[k]["manage_start"]
                <= (IF k = KEY_CHANGE /\ TIME_THRES_3S \in triggered'[k] THEN 1 ELSE 0)
          BY <3>1, <4>4, <4>6, <4>7, <4>8, <5>1 DEF LongGiven, KeyCommands
        <5>5. \A c \in {"clean", "manage_finish", "tare_zero"} : given'[k][c] = 0
          BY <3>1, <4>6, <4>7 DEF LongGiven, KeyCommands, NoCommand
        <5> QED  BY <5>2, <5>3, <5>4, <5>5 DEF LongGiven
      <4>10. PressRight(k)'
        <5>1. triggered'[k] \subseteq {u \in KeyThresholds : u <= duration'[k]}
          <6>1. t \in Nat /\ duration[k] \in Nat  BY <1>2, <2>4, <4>4 DEF KeyThresholds
          <6>2. triggered[k] \subseteq {u \in KeyThresholds : u <= duration[k]}
            BY <2>4 DEF PressRight
          <6> QED  BY <3>1, <4>4, <4>8, <6>1, <6>2
        <5>2. \A c \in KeyCommands : given'[k][c] \in 0..2  BY <4>7
        <5>3. \A c \in KeyCommands : given'[k][c] <= 1
          BY <4>9, <5>2 DEF LongGiven, KeyCommands
        <5>4. \A c, d \in KeyCommands \ {"factory"} : given'[k][c] > 0 /\ given'[k][d] > 0 => c = d
          <6>1. \A c \in KeyCommands \ {"factory"} : given'[k][c] > 0 =>
                  (c = "pairing" /\ k = KEY_SET) \/ (c = "manage_start" /\ k = KEY_CHANGE)
            BY <4>9, <5>2 DEF LongGiven, KeyCommands
          <6> QED  BY <6>1 DEF KEY_SET, KEY_CHANGE
        <5>5. is_pressed'[k]  BY <3>1
        <5> QED  BY <4>9, <5>1, <5>3, <5>4, <5>5 DEF PressRight
      <4>11. ASSUME NEW j \in Keys \ {k} PROVE PressRight(j)'
        BY <1>1, <2>4, <3>1, <4>2, <4>7, OtherKeys
      <4> QED  BY <2>4, <3>1, <4>7, <4>8, <4>10, <4>11
    <3>3. CASE ~(is_ready /\ Reached(k) # {})
      <4>1. UNCHANGED <<triggered, given>>  BY <2>6, <3>3 DEF HoldKey
      <4> QED  BY <1>1, <2>4, <3>1, <4>1, OtherKeys
    <3> QED  BY <3>2, <3>3
  <2>7. CASE ReleaseKey(k)
    <3>1. PICK command : command = IF is_ready /\ triggered[k] = {} THEN ShortPress(k) ELSE NoCommand
      OBVIOUS
    <3>2. /\ is_pressed[k] /\ Give(k, command) /\ is_pressed' = [is_pressed EXCEPT ![k] = FALSE]
          /\ triggered' = [triggered EXCEPT ![k] = {}] /\ duration' = [duration EXCEPT ![k] = 0]
          /\ LongGiven(k)
      BY <2>4, <2>7, <3>1 DEF ReleaseKey, PressRight
    <3>3. command \in {"clean", "manage_finish", "tare_zero", NoCommand}
      BY <3>1, ShortPresses
    <3>4. /\ given' \in [Keys -> [KeyCommands -> 0..2]]
          /\ \A j \in Keys \ {k} : given'[j] = given[j]
          /\ \A c \in KeyCommands : given'[k][c] = given[k][c]
                                      \/ (c = command /\ given'[k][c] = given[k][c] + 1)
      <4>1. command \in KeyCommands \cup {NoCommand}  BY <3>3 DEF KeyCommands
      <4> QED  BY <1>1, <3>2, <4>1, GiveCounts
    <3>5. \A c \in KeyCommands : given[k][c] \in 0..2 /\ given'[k][c] \in 0..2  BY <2>4, <3>4
    <3>6. PressRight(k)'
      <4>1. ~is_pressed'[k] /\ triggered'[k] = {} /\ duration'[k] = 0  BY <2>4, <3>2
      <4>2. CASE command = NoCommand
        <5>1. \A c \in KeyCommands : given'[k][c] = given[k][c]
          BY <3>4, <4>2 DEF KeyCommands, NoCommand
        <5> QED  BY <2>4, <4>1, <5>1 DEF PressRight
      <4>3. CASE command # NoCommand
        <5>1. triggered[k] = {}  BY <3>1, <4>3
        <5>2. \A c \in KeyCommands : given[k][c] = 0
          BY <3>2, <3>5, <5>1 DEF LongGiven, KeyCommands
        <5>3. \A c \in KeyCommands : given'[k][c] = 0 \/ (c = command /\ given'[k][c] = 1)
          BY <3>4, <5>2
        <5> QED  BY <4>1, <5>3 DEF PressRight
      <4> QED  BY <4>2, <4>3
    <3>7. ASSUME NEW j \in Keys \ {k} PROVE PressRight(j)'
      BY <1>1, <2>4, <3>2, <3>4, OtherKeys
    <3>8. /\ is_pressed' \in [Keys -> BOOLEAN] /\ duration' \in [Keys -> 0..TIME_THRES_10S]
          /\ triggered' \in [Keys -> SUBSET KeyThresholds]
      <4>1. 0 \in 0..TIME_THRES_10S  BY <1>2
      <4> QED  BY <2>4, <3>2, <4>1
    <3>9. \A j \in Keys : PressRight(j)'  BY <3>6, <3>7
    <3> QED  BY <3>4, <3>8, <3>9
  <2> QED  BY <2>3, <2>5, <2>6, <2>7
<1>6. CASE UNCHANGED keyVars
  BY <1>1, <1>6 DEF keyVars, KeyInv, KeyTypeOK, PressRight, LongGiven
<1> QED  BY <1>3, <1>4, <1>5, <1>6 DEF KeyNext

\* The invariant of the key task: every scan, also a late one that finds several thresholds
\* passed, acts on what belongs to the press that lasts.
THEOREM KeyInvariant == KeySpec => []KeyInv
<1> USE KeyAssumption
<1>1. KeyInit => KeyInv
  <2>1. SUFFICES ASSUME KeyInit PROVE KeyInv  OBVIOUS
  <2>2. NothingGiven \in [KeyCommands -> 0..2] /\ \A c \in KeyCommands : NothingGiven[c] = 0
    BY DEF NothingGiven
  <2>3. 0 \in 0..TIME_THRES_10S  BY DEF KeyAssumption
  <2>4. KeyTypeOK  BY <2>1, <2>2, <2>3 DEF KeyInit, KeyTypeOK, Keys
  <2>5. ASSUME NEW k \in Keys PROVE PressRight(k)
    <3>1. ~is_pressed[k] /\ triggered[k] = {} /\ duration[k] = 0 /\ given[k] = NothingGiven
      BY <2>1 DEF KeyInit
    <3> QED  BY <2>2, <3>1 DEF PressRight
  <2> QED  BY <2>4, <2>5 DEF KeyInv
<1>2. KeyInv /\ [KeyNext]_keyVars => KeyInv'  BY KeyStep
<1> QED  BY <1>1, <1>2, PTL DEF KeySpec

\* A press gives one command at most, and once, but for a factory restore; and a flag of ten
\* seconds is that of a key that is still held, for as long.
THEOREM OneCommandPerPressCorrect == KeySpec => []OneCommandPerPress
<1>1. KeyInv => OneCommandPerPress
  <2>1. SUFFICES ASSUME KeyInv, NEW k \in Keys
                 PROVE  /\ \A c \in KeyCommands : given[k][c] <= 1
                        /\ Cardinality({c \in KeyCommands \ {"factory"} : given[k][c] > 0}) <= 1
                        /\ TIME_THRES_10S \in triggered[k] =>
                             is_pressed[k] /\ duration[k] = TIME_THRES_10S
    BY DEF OneCommandPerPress
  <2>2. KeyTypeOK /\ PressRight(k)  BY <2>1 DEF KeyInv
  <2>3. Cardinality({c \in KeyCommands \ {"factory"} : given[k][c] > 0}) <= 1
    <3> DEFINE G == {c \in KeyCommands \ {"factory"} : given[k][c] > 0}
    <3>1. \A c, d \in G : c = d  BY <2>2 DEF PressRight
    <3> HIDE DEF G
    <3>2. CASE G = {}
      <4>1. Cardinality(G) = 0  BY <3>2, FS_EmptySet
      <4> QED  BY <4>1 DEF G
    <3>3. CASE G # {}
      <4>1. PICK c \in G : TRUE  BY <3>3
      <4>2. G = {c}  BY <3>1, <4>1
      <4>3. Cardinality(G) = 1  BY <4>2, FS_Singleton
      <4> QED  BY <4>3 DEF G
    <3> QED  BY <3>2, <3>3
  <2>4. ASSUME TIME_THRES_10S \in triggered[k]
        PROVE  is_pressed[k] /\ duration[k] = TIME_THRES_10S
    <3>1. is_pressed[k]  BY <2>2, <2>4 DEF PressRight
    <3>2. TIME_THRES_10S <= duration[k] /\ duration[k] \in 0..TIME_THRES_10S
      BY <2>1, <2>2, <2>4 DEF PressRight, KeyTypeOK
    <3>3. TIME_THRES_10S \in Nat  BY KeyAssumption DEF KeyAssumption
    <3> QED  BY <3>1, <3>2, <3>3
  <2> QED  BY <2>2, <2>3, <2>4 DEF PressRight
<1> QED  BY <1>1, KeyInvariant, PTL

(***************************************************************************)
(* LedShow: the last command is shown                                      *)
(***************************************************************************)

\* A stage of what the last command asks for, with the light that the stage before it has
\* left: its own, the end of LOCK after an UNLOCK, or nothing more to show.
ShowsTold(m) ==
  \/ /\ m = IdleMode /\ told \notin Repeating \cup Animation
     /\ light = EndsWith(told)
  \/ \E k \in 0..Len(Lights[told]) : m = Mode(told, k) /\ (k > 0 => light = Lights[told][k])
  \/ \E k \in 1..2 : told = "UNLOCK" /\ m = Mode("LOCK", k) /\ (k = 2 => light = "off")

\* While nothing has come between what led_process_task has read and what it stores
ToldRight ==
  told # "none" /\ ~overtaken =>
    /\ following = NoMode => ShowsTold(ledMode)
    /\ following # NoMode => /\ ShowsTold(following) /\ ledMode # IdleMode
                             /\ told \in Repeating \cup Animation => ledMode.show = told

LedInv == LedTypeOK /\ ToldRight

-----------------------------------------------------------------------------
(* The lights, stage by stage *)

\* How many stages a mode has, and what it ends with: what the arithmetic on stages needs.
LEMMA LightsOfShows ==
  /\ Shows = {"NORMAL", "INUSE", "BINFULL", "INITOK", "LOCK", "UNLOCK", "INVALID", "QCQUIT",
              "CLEANING", "MANAGE", "PAIRING", "ERROR", "QCMODE", "PAUSE"}
  /\ \A s \in Shows : /\ Len(Lights[s]) \in Nat \ {0}
                      /\ \A k \in 1..Len(Lights[s]) : Lights[s][k] \in
                           {"off", "white", "red", "green", "blue", "yellow"}
  /\ \A s \in AtOnce \cup Animation \cup {"UNLOCK"} : Len(Lights[s]) = 1
  /\ Len(Lights["LOCK"]) = 2 /\ Lights["LOCK"][2] = "off"
<1>1. Shows = {"NORMAL", "INUSE", "BINFULL", "INITOK", "LOCK", "UNLOCK", "INVALID", "QCQUIT",
               "CLEANING", "MANAGE", "PAIRING", "ERROR", "QCMODE", "PAUSE"}
  BY DEF Shows, Lights
<1>2. /\ Lights["NORMAL"] = <<"white">> /\ Lights["INUSE"] = <<"green">>
      /\ Lights["BINFULL"] = <<"red">> /\ Lights["INITOK"] = <<"white", "off">>
      /\ Lights["LOCK"] = <<"red", "off">> /\ Lights["UNLOCK"] = <<"white">>
      /\ Lights["INVALID"] = <<"red", "off", "red", "off">>
      /\ Lights["QCQUIT"] = <<"green", "off", "green", "off", "green">>
      /\ Lights["CLEANING"] = <<"blue">> /\ Lights["MANAGE"] = <<"yellow">>
      /\ Lights["PAIRING"] = <<"blue", "red">> /\ Lights["ERROR"] = <<"red", "off">>
      /\ Lights["QCMODE"] = <<"white", "off">> /\ Lights["PAUSE"] = <<"yellow", "off">>
  BY DEF Lights
<1> DEFINE Colors == {"off", "white", "red", "green", "blue", "yellow"}
           Right(l) == Len(l) \in Nat \ {0} /\ \A k \in 1..Len(l) : l[k] \in Colors
<1>3. /\ Right(<<"white">>) /\ Right(<<"green">>) /\ Right(<<"red">>) /\ Right(<<"blue">>)
      /\ Right(<<"yellow">>) /\ Right(<<"white", "off">>) /\ Right(<<"red", "off">>)
      /\ Right(<<"blue", "red">>) /\ Right(<<"yellow", "off">>)
  OBVIOUS
<1>4. Right(<<"red", "off", "red", "off">>) /\ Right(<<"green", "off", "green", "off", "green">>)
  OBVIOUS
<1> HIDE DEF Right
<1>5. \A s \in Shows : Right(Lights[s])  BY <1>1, <1>2, <1>3, <1>4
<1>6. \A s \in AtOnce \cup Animation \cup {"UNLOCK"} : Len(Lights[s]) = 1
  BY <1>2 DEF AtOnce, Animation
<1>7. Len(Lights["LOCK"]) = 2 /\ Lights["LOCK"][2] = "off"  BY <1>2
<1> QED  BY <1>1, <1>5, <1>6, <1>7 DEF Right

\* The modes of led_process_task, by their show and stage; the one that stands for none is
\* not among them.
LEMMA ModesAreStages ==
  /\ \A m : m \in LedModes <=>
       m = IdleMode \/ \E s \in Shows : \E k \in 0..Len(Lights[s]) : m = Mode(s, k)
  /\ \A s, k : Mode(s, k).show = s /\ Mode(s, k).stage = k
  /\ NoMode \notin LedModes /\ \A s \in Shows : \A k : Mode(s, k) # NoMode /\ Mode(s, k) # IdleMode
<1>1. \A s, k : Mode(s, k).show = s /\ Mode(s, k).stage = k  BY DEF Mode
<1>2. IdleMode.show = "IDLE" /\ NoMode.show = "none"  BY <1>1 DEF IdleMode, NoMode
<1>3. \A m : m \in LedModes <=>
        m = IdleMode \/ \E s \in Shows : \E k \in 0..Len(Lights[s]) : m = Mode(s, k)
  BY DEF LedModes
<1>4. \A s \in Shows : s # "none" /\ s # "IDLE"  BY LightsOfShows
<1>5. \A s \in Shows : \A k : Mode(s, k) # NoMode /\ Mode(s, k) # IdleMode
  BY <1>1, <1>2, <1>4
<1>6. IdleMode # NoMode  BY <1>2
<1> QED  BY <1>1, <1>3, <1>5, <1>6

\* What led_process_task draws and stores next is a mode of the strip and a colour.
LEMMA StageTyped ==
  ASSUME LedTypeOK, ledMode # IdleMode
  PROVE  /\ After(ledMode) \in LedModes
         /\ Drawn(ledMode) \in {"off", "white", "red", "green", "blue", "yellow"}
<1>0. PICK s \in Shows : \E k \in 0..Len(Lights[s]) : ledMode = Mode(s, k)
  BY ModesAreStages DEF LedTypeOK
<1>1. PICK k \in 0..Len(Lights[s]) : ledMode = Mode(s, k)  BY <1>0
<1>2. ledMode.show = s /\ ledMode.stage = k  BY <1>1, ModesAreStages
<1>3. /\ Len(Lights[s]) \in Nat \ {0} /\ "LOCK" \in Shows /\ Len(Lights["LOCK"]) = 2
      /\ \A j \in 1..Len(Lights[s]) :
           Lights[s][j] \in {"off", "white", "red", "green", "blue", "yellow"}
  BY LightsOfShows
<1>4. After(ledMode) \in LedModes
  <2>1. \/ After(ledMode) = IdleMode
        \/ After(ledMode) = Mode(s, 1)
        \/ After(ledMode) = Mode("LOCK", 1)
        \/ After(ledMode) = Mode(s, k + 1) /\ k < Len(Lights[s])
        \/ After(ledMode) = Mode(s, 0)
    BY <1>2 DEF After
  <2>2. 1 \in 0..Len(Lights["LOCK"]) /\ 1 \in 0..Len(Lights[s]) /\ 0 \in 0..Len(Lights[s])
    BY <1>3
  <2>3. k < Len(Lights[s]) => k + 1 \in 0..Len(Lights[s])  BY <1>1, <1>3
  <2> QED  BY <1>3, <2>1, <2>2, <2>3, ModesAreStages
<1>5. Drawn(ledMode) \in {"off", "white", "red", "green", "blue", "yellow"}
  <2>1. k < Len(Lights[s]) => k + 1 \in 1..Len(Lights[s])  BY <1>1, <1>3
  <2>2. k < Len(Lights[s]) =>
          Lights[s][k + 1] \in {"off", "white", "red", "green", "blue", "yellow"}
    BY <1>3, <2>1
  <2>3. light \in {"off", "white", "red", "green", "blue", "yellow"}  BY DEF LedTypeOK
  <2> QED  BY <1>2, <2>2, <2>3 DEF Drawn
<1> QED  BY <1>4, <1>5

\* A turn goes from a stage of what was told to the next one, with the light in between.
LEMMA StageToStage ==
  ASSUME LedTypeOK, told \in Shows, ShowsTold(ledMode), ledMode # IdleMode,
         light' = Drawn(ledMode), told' = told, NEW m, m = After(ledMode)
  PROVE  ShowsTold(m)'
<1>1. /\ Len(Lights[told]) \in Nat \ {0}
      /\ \A s \in AtOnce \cup Animation \cup {"UNLOCK"} : Len(Lights[s]) = 1
      /\ Len(Lights["LOCK"]) = 2 /\ Lights["LOCK"][2] = "off" /\ "LOCK" \in Shows
  BY LightsOfShows
<1> DEFINE L == Lights[told]
<1>2. CASE told = "UNLOCK" /\ \E k \in 1..2 : ledMode = Mode("LOCK", k) /\ (k = 2 => light = "off")
  <2>1. PICK k \in 1..2 : ledMode = Mode("LOCK", k) /\ (k = 2 => light = "off")  BY <1>2
  <2>2. ledMode.show = "LOCK" /\ ledMode.stage = k  BY <2>1, ModesAreStages
  <2>3. CASE k = 1
    <3>1. After(ledMode) = Mode("LOCK", 2)
      BY <1>1, <2>2, <2>3 DEF After, AtOnce, Animation
    <3>2. Drawn(ledMode) = "off"  BY <1>1, <2>2, <2>3 DEF Drawn
    <3> QED  BY <1>2, <3>1, <3>2 DEF ShowsTold
  <2>4. CASE k = 2
    <3>1. After(ledMode) = IdleMode
      <4>1. ~(ledMode.stage < Len(Lights[ledMode.show]))
        <5>1. PICK show, stage : show = ledMode.show /\ stage = ledMode.stage  OBVIOUS
        <5>2. show = "LOCK" /\ stage = 2  BY <2>2, <2>4, <5>1
        <5>3. Len(Lights[show]) = 2  BY ONLY <1>1, <5>2
        <5> QED  BY <5>1, <5>2, <5>3
      <4>2. ledMode.show \notin AtOnce \cup Animation \cup {"UNLOCK"} \cup Repeating
        BY <2>2 DEF AtOnce, Animation, Repeating
      <4> QED  BY <4>1, <4>2 DEF After
    <3>2. Drawn(ledMode) = light  BY <1>1, <2>2, <2>4 DEF Drawn
    <3>3. EndsWith(told) = "off" /\ told \notin Repeating \cup Animation
      BY <1>2 DEF EndsWith, Repeating, Animation
    <3> QED  BY <2>1, <2>4, <3>1, <3>2, <3>3 DEF ShowsTold, EndsWith
  <2> QED  BY <2>1, <2>3, <2>4
<1>3. CASE \E k \in 0..Len(L) : ledMode = Mode(told, k) /\ (k > 0 => light = L[k])
  <2>1. PICK k \in 0..Len(L) : ledMode = Mode(told, k) /\ (k > 0 => light = L[k])  BY <1>3
  <2>2. ledMode.show = told /\ ledMode.stage = k  BY <2>1, ModesAreStages
  <2>3. k < Len(L) => Drawn(ledMode) = L[k + 1]  BY <2>2 DEF Drawn
  <2>4. k = Len(L) => L[k] = light /\ Drawn(ledMode) = IF told = "QCQUIT" THEN "white" ELSE light
    BY <1>1, <2>1, <2>2 DEF Drawn
  <2>5. CASE told \in AtOnce \cup Animation
    <3>1. Len(L) = 1 /\ told # "QCQUIT" /\ told # "UNLOCK"  BY <1>1, <2>5 DEF AtOnce, Animation
    <3>2. Drawn(ledMode) = L[1]  BY <2>1, <2>3, <2>4, <3>1
    <3>3. CASE told \in AtOnce
      <4>1. m = IdleMode /\ told \notin Repeating \cup Animation
        BY <2>2, <3>3 DEF After, AtOnce, Repeating, Animation
      <4>2. EndsWith(told) = L[1]  BY <3>1 DEF EndsWith
      <4>3. EndsWith(told') = EndsWith(told)  OBVIOUS
      <4> QED  BY <3>2, <4>1, <4>2, <4>3 DEF ShowsTold, EndsWith
    <3>4. CASE told \in Animation
      <4>1. m = Mode(told, 1)  BY <2>2, <3>4 DEF After, AtOnce, Animation
      <4>2. 1 \in 0..Len(L)  BY <3>1
      <4> QED  BY <3>2, <4>1, <4>2 DEF ShowsTold
    <3> QED  BY <2>5, <3>3, <3>4
  <2>6. CASE told = "UNLOCK"
    <3>1. m = Mode("LOCK", 1)  BY <2>2, <2>6 DEF After, AtOnce, Animation
    <3> QED  BY <2>6, <3>1 DEF ShowsTold
  <2>7. CASE told \notin AtOnce \cup Animation \cup {"UNLOCK"} /\ k < Len(L)
    <3>1. m = Mode(told, k + 1)  BY <2>2, <2>7 DEF After
    <3>2. k + 1 \in 0..Len(L)  BY <1>1, <2>7
    <3> QED  BY <2>3, <2>7, <3>1, <3>2 DEF ShowsTold
  <2>8. CASE told \notin AtOnce \cup Animation \cup {"UNLOCK"} /\ k = Len(L)
    <3>1. m = IF told \in Repeating THEN Mode(told, 0) ELSE IdleMode
      BY <2>2, <2>8 DEF After
    <3>2. CASE told \in Repeating
      <4>1. 0 \in 0..Len(L) /\ ~(0 > 0)  BY <1>1
      <4> QED  BY <3>1, <3>2, <4>1 DEF ShowsTold
    <3>3. CASE told \notin Repeating
      <4>1. Drawn(ledMode) = EndsWith(told)  BY <2>4, <2>8 DEF EndsWith
      <4> QED  BY <2>8, <3>1, <3>3, <4>1 DEF ShowsTold, EndsWith
    <3> QED  BY <3>2, <3>3
  <2>9. k < Len(L) \/ k = Len(L)  BY <1>1, <2>1
  <2> QED  BY <2>5, <2>6, <2>7, <2>8, <2>9
<1> QED  BY <1>2, <1>3 DEF ShowsTold

\* A repeating or animated command stays what is shown, in every stage.
LEMMA RepeatingStays ==
  ASSUME told \in Repeating \cup Animation, NEW m, ShowsTold(m)
  PROVE  m.show = told
<1>1. told # "UNLOCK"  BY DEF Repeating, Animation
<1>2. PICK k : m = Mode(told, k)  BY <1>1 DEF ShowsTold
<1> QED  BY <1>2, ModesAreStages

\* led_ctrl_task and its senders keep LedInv: the queue holds what was ordered, and the mode follows it.
LEMMA LedStep ==
  ASSUME LedAssumption, LedInv, [LedNext]_ledVars
  PROVE  LedInv'
<1>1. LedTypeOK /\ ToldRight /\ ledQueue \in Seq(Shows) /\ LedQueue \in Nat \ {0}
  BY DEF LedInv, LedTypeOK, LedAssumption
<1>2. ASSUME NEW show \in Shows, SendLed(show) PROVE LedInv'
  <2>1. UNCHANGED <<ledMode, light, following, told, overtaken>>  BY <1>2 DEF SendLed
  <2>2. ledQueue' \in Seq(Shows) /\ Len(ledQueue') <= LedQueue
    <3>1. Len(ledQueue) < LedQueue /\ ledQueue' = Append(ledQueue, show)  BY <1>2 DEF SendLed
    <3>2. Append(ledQueue, show) \in Seq(Shows) /\ Len(Append(ledQueue, show)) = Len(ledQueue) + 1
      BY <1>1, AppendProperties
    <3>3. Len(ledQueue) \in Nat  BY <1>1, LenProperties
    <3> QED  BY <1>1, <3>1, <3>2, <3>3
  <2> QED  BY <1>1, <2>1, <2>2 DEF LedInv, LedTypeOK, ToldRight, ShowsTold, EndsWith
<1>3. CASE LedTask
  <2>1. PICK show : show = Head(ledQueue)  OBVIOUS
  <2>2. /\ ledQueue # <<>> /\ ledQueue' = Tail(ledQueue) /\ ledMode' = Mode(show, 0)
        /\ told' = show /\ overtaken' = (following # NoMode) /\ UNCHANGED <<light, following>>
    BY <1>3, <2>1 DEF LedTask
  <2>3. /\ show \in Shows /\ ledQueue' \in Seq(Shows) /\ Len(ledQueue') <= LedQueue
    <3>1. /\ Head(ledQueue) \in Shows /\ Tail(ledQueue) \in Seq(Shows)
          /\ Len(Tail(ledQueue)) = Len(ledQueue) - 1
      BY <1>1, <2>2, HeadTailProperties
    <3>2. Len(ledQueue) \in Nat /\ Len(ledQueue) <= LedQueue
      BY <1>1, LenProperties DEF LedTypeOK
    <3> QED  BY <1>1, <2>1, <2>2, <3>1, <3>2
  <2>4. 0 \in 0..Len(Lights[show]) /\ ~(0 > 0)  BY <2>3, LightsOfShows
  <2>5. ledMode' \in LedModes  BY <2>2, <2>3, <2>4, ModesAreStages
  <2>6. overtaken' \in BOOLEAN  BY <2>2
  <2>7. LedTypeOK'  BY <1>1, <2>2, <2>3, <2>5, <2>6 DEF LedTypeOK
  <2>8. ToldRight'
    <3>1. SUFFICES ASSUME ~overtaken' PROVE following' = NoMode /\ ShowsTold(ledMode)'
      BY DEF ToldRight
    <3>2. following' = NoMode
      <4>1. following = NoMode  BY <2>2, <3>1
      <4> QED  BY <2>2, <4>1
    <3>3. ShowsTold(ledMode)'  BY <2>2, <2>4 DEF ShowsTold
    <3> QED  BY <3>2, <3>3
  <2> QED  BY <2>7, <2>8 DEF LedInv
<1>4. CASE ShowStage
  <2>1. /\ following = NoMode /\ ledMode # IdleMode /\ light' = Drawn(ledMode)
        /\ following' = After(ledMode) /\ UNCHANGED <<ledQueue, ledMode, told, overtaken>>
    BY <1>4 DEF ShowStage
  <2>2. /\ following' \in LedModes
        /\ light' \in {"off", "white", "red", "green", "blue", "yellow"}
    BY <1>1, <2>1, StageTyped
  <2>3. LedTypeOK'  BY <1>1, <2>1, <2>2 DEF LedTypeOK
  <2>4. ToldRight'
    <3>1. SUFFICES ASSUME told # "none", ~overtaken
                   PROVE  /\ ShowsTold(following)' /\ ledMode' # IdleMode
                          /\ told' \in Repeating \cup Animation => ledMode'.show = told'
      BY <2>1, <2>2, ModesAreStages DEF ToldRight
    <3>2. told \in Shows /\ ShowsTold(ledMode)  BY <1>1, <2>1, <3>1 DEF LedTypeOK, ToldRight
    <3>3. PICK m : m = After(ledMode)  OBVIOUS
    <3>4. ShowsTold(m)'  BY <1>1, <2>1, <3>2, <3>3, StageToStage
    <3>5. ShowsTold(following)'  BY <2>1, <3>3, <3>4 DEF ShowsTold
    <3>6. told \in Repeating \cup Animation => ledMode.show = told  BY <3>2, RepeatingStays
    <3> QED  BY <2>1, <3>5, <3>6
  <2> QED  BY <2>3, <2>4 DEF LedInv
<1>5. CASE SetOpmode
  <2>1. /\ following # NoMode /\ ledMode' = following /\ following' = NoMode
        /\ UNCHANGED <<ledQueue, light, told, overtaken>>
    BY <1>5 DEF SetOpmode
  <2>2. LedTypeOK'  BY <1>1, <2>1 DEF LedTypeOK
  <2>3. ToldRight'  BY <1>1, <2>1 DEF ToldRight, ShowsTold, EndsWith
  <2> QED  BY <2>2, <2>3 DEF LedInv
<1>6. CASE UNCHANGED ledVars
  BY <1>6 DEF ledVars, LedInv, LedTypeOK, ToldRight, ShowsTold, EndsWith
<1> QED  BY <1>2, <1>3, <1>4, <1>5, <1>6 DEF LedNext

\* The invariant of the light: with a queue of any length
THEOREM LedInvariant == LedSpec => []LedInv
<1> USE LedAssumption
<1>1. LedInit => LedInv
  <2>1. SUFFICES ASSUME LedInit PROVE LedInv  OBVIOUS
  <2>2. ledQueue \in Seq(Shows) /\ Len(ledQueue) <= LedQueue
    <3>1. ledQueue = <<>> /\ Len(<<>>) = 0  BY <2>1, EmptySeq DEF LedInit
    <3> QED  BY <3>1 DEF LedAssumption
  <2>3. ledMode \in LedModes  BY <2>1, ModesAreStages DEF LedInit
  <2> QED  BY <2>1, <2>2, <2>3 DEF LedInit, LedInv, LedTypeOK, ToldRight
<1>2. LedInv /\ [LedNext]_ledVars => LedInv'  BY LedStep
<1> QED  BY <1>1, <1>2, PTL DEF LedSpec

\* A command that led_process_task has not overwritten is shown: an error, a pause or a
\* pairing until the next command, any other to its last light.
THEOREM LastCommandShownCorrect == LedSpec => []LastCommandShown
<1>1. LedInv => LastCommandShown
  <2>1. SUFFICES ASSUME LedInv, told # "none", ~overtaken
                 PROVE  /\ told \in Repeating \cup Animation => ledMode.show = told
                        /\ ledMode = IdleMode => light = EndsWith(told)
    BY DEF LastCommandShown, Repeating
  <2>2. LedTypeOK /\ ToldRight /\ told \in Shows  BY <2>1 DEF LedInv, LedTypeOK
  <2>3. CASE following = NoMode
    <3>1. ShowsTold(ledMode)  BY <2>1, <2>2, <2>3 DEF ToldRight
    <3>2. "LOCK" \in Shows  BY LightsOfShows
    <3>3. ledMode = IdleMode => light = EndsWith(told)
      BY <2>2, <3>1, <3>2, ModesAreStages DEF ShowsTold
    <3> QED  BY <3>1, <3>3, RepeatingStays
  <2>4. CASE following # NoMode  BY <2>1, <2>2, <2>4 DEF ToldRight
  <2> QED  BY <2>3, <2>4
<1> QED  BY <1>1, LedInvariant, PTL

(***************************************************************************)
(* ConsoleLine: a command runs as it was sent                              *)
(***************************************************************************)

Slots == 0..RxSize - 1

NextSlot(k) == IF k + 1 = RxSize THEN 0 ELSE k + 1

\* What has been popped, or not been pushed yet; a slot of it is emptied.
FreeSlot(k) == IF rxTail <= rxHead THEN k < rxTail \/ rxHead <= k ELSE rxHead <= k /\ k < rxTail

\* c is what was sent after b, unless something in between was dropped.
Follows(b, c) == c.gap \/ IF IsNewline(b) THEN c.i = 1 ELSE c.n = b.n /\ c.i = b.i + 1

\* c is what parse_buf waits for.
FitsParser(c) ==
  c.gap \/ IF parseBuf = <<>> THEN c.i = 1
           ELSE c.n = parseBuf[Len(parseBuf)].n /\ c.i = parseBuf[Len(parseBuf)].i + 1

\* Neighbours in the ring were neighbours in what was sent; the slot that is kept free is
\* between its ends.
RingRight ==
  /\ \A k \in Slots : FreeSlot(k) => rxRing[k] = Dollar
  /\ \A k \in Slots : rxRing[k] # Dollar /\ rxRing[NextSlot(k)] # Dollar =>
                        Follows(rxRing[k], rxRing[NextSlot(k)])
  /\ ~dropped => \A k \in Slots : NextSlot(k) = rxHead => rxRing[k] \in {Dollar, sent}

\* What is in parse_buf, if nothing has emptied it, is the beginning of a line, and the ring,
\* or what is sent next, goes on with it.
ParserRight ==
  ~cut =>
    /\ (\A k \in 1..Len(parseBuf) : ~parseBuf[k].gap) =>
         \A k \in 1..Len(parseBuf) : parseBuf[k].i = k /\ parseBuf[k].n = parseBuf[1].n
    /\ rxRing[rxTail] # Dollar => FitsParser(rxRing[rxTail])
    /\ rxHead = rxTail /\ ~dropped =>
         IF parseBuf = <<>> THEN IsNewline(sent) ELSE parseBuf[Len(parseBuf)] = sent

ConsoleInv ==
  /\ ConsoleTypeOK /\ RingRight /\ ParserRight
  /\ sent.i <= sent.n + 1
  /\ \A k \in 1..Len(parseBuf) : ~IsNewline(parseBuf[k])

-----------------------------------------------------------------------------
(* RingBuffer_Push and RingBuffer_Pop *)

\* The places of the ring, one after the other: head and tail are moved modulo its size.
LEMMA SlotArithmetic ==
  ASSUME ConsoleAssumption, NEW k \in Slots
  PROVE  /\ (k + 1) % RxSize = NextSlot(k) /\ NextSlot(k) \in Slots /\ NextSlot(k) # k
         /\ \A j \in Slots : NextSlot(j) = NextSlot(k) => j = k
<1>1. RxSize \in Nat /\ RxSize > 1  BY DEF ConsoleAssumption
<1>2. CASE k + 1 = RxSize
  <2>1. RxSize % RxSize = 0  BY <1>1
  <2> QED  BY <1>1, <1>2, <2>1 DEF Slots, NextSlot
<1>3. CASE k + 1 # RxSize
  <2>1. k + 1 \in 0..RxSize - 1  BY <1>1, <1>3 DEF Slots
  <2>2. (k + 1) % RxSize = k + 1  BY <1>1, <2>1
  <2> QED  BY <1>1, <1>3, <2>1, <2>2 DEF Slots, NextSlot
<1> QED  BY <1>2, <1>3

\* A '$' is no character of a line.
LEMMA DollarIsNoChar == Dollar \notin Chars /\ ~IsNewline(Dollar)
BY DEF Dollar, Chars, IsNewline

\* A push puts the next character behind the last, or drops it, and then says so.
LEMMA PushKeeps ==
  ASSUME ConsoleAssumption, ConsoleInv, NEW c \in Chars \cup {Dollar}, PushChar(c),
         UNCHANGED <<rxTail, parseBuf, cut>>,
         \/ c = Dollar /\ UNCHANGED <<sent, dropped>>
         \/ /\ c \in Chars /\ sent' = c /\ dropped' = RingIsFull
            /\ dropped => c.gap
            /\ ~dropped => Follows(sent, c)
  PROVE  /\ rxRing' \in [Slots -> Chars \cup {Dollar}] /\ rxHead' \in Slots
         /\ RingRight' /\ ParserRight'
<1>1. /\ rxRing \in [Slots -> Chars \cup {Dollar}] /\ rxHead \in Slots /\ rxTail \in Slots
      /\ RxSize \in Nat /\ RxSize > 1 /\ {dropped, cut} \subseteq BOOLEAN
      /\ RingRight /\ ParserRight
  BY DEF ConsoleInv, ConsoleTypeOK, ConsoleAssumption, Slots
<1>2. RingIsFull <=> NextSlot(rxHead) = rxTail  BY <1>1, SlotArithmetic DEF RingIsFull
<1>3. \A k \in Slots : /\ NextSlot(k) \in Slots /\ NextSlot(k) # k
                       /\ \A j \in Slots : NextSlot(j) = NextSlot(k) => j = k
  BY SlotArithmetic
<1>4. CASE RingIsFull
  <2>1. rxRing' = rxRing /\ rxHead' = rxHead  BY <1>4 DEF PushChar
  <2>2. rxHead # rxTail  BY <1>1, <1>2, <1>3, <1>4
  <2>3. ~dropped' => ~dropped /\ sent' = sent  BY <1>4
  <2>4. RingRight'  BY <1>1, <2>1, <2>3 DEF RingRight, FreeSlot, Follows, IsNewline
  <2>5. ParserRight'  BY <1>1, <2>1, <2>2 DEF ParserRight, FitsParser
  <2> QED  BY <1>1, <2>1, <2>4, <2>5
<1>5. CASE ~RingIsFull
  <2>1. rxRing' = [rxRing EXCEPT ![rxHead] = c] /\ rxHead' = NextSlot(rxHead)
    BY <1>1, <1>5, SlotArithmetic DEF PushChar
  <2>2. /\ rxRing' \in [Slots -> Chars \cup {Dollar}] /\ rxHead' \in Slots
        /\ rxRing'[rxHead] = c /\ \A k \in Slots \ {rxHead} : rxRing'[k] = rxRing[k]
    BY <1>1, <1>3, <2>1
  <2>3. NextSlot(rxHead) # rxTail  BY <1>2, <1>5
  <2>4. FreeSlot(rxHead) /\ FreeSlot(NextSlot(rxHead))
    BY <1>1, <2>3 DEF FreeSlot, NextSlot, Slots
  <2>5. rxRing[rxHead] = Dollar /\ rxRing[NextSlot(rxHead)] = Dollar
    BY <1>1, <1>3, <2>4 DEF RingRight
  <2>6. \A k \in Slots : FreeSlot(k)' => FreeSlot(k) /\ k # rxHead
    BY <1>1, <2>1, <2>3 DEF FreeSlot, NextSlot, Slots
  <2>7. RingRight'
    <3>1. \A k \in Slots : FreeSlot(k)' => rxRing'[k] = Dollar
      BY <1>1, <2>2, <2>6 DEF RingRight
    <3>2. ASSUME NEW k \in Slots, rxRing'[k] # Dollar, rxRing'[NextSlot(k)] # Dollar
          PROVE  Follows(rxRing'[k], rxRing'[NextSlot(k)])
      <4>1. CASE k = rxHead
        <5>1. rxRing'[NextSlot(k)] = rxRing[NextSlot(k)]  BY <1>3, <2>2, <4>1
        <5> QED  BY <2>5, <3>2, <4>1, <5>1
      <4>2. CASE k # rxHead /\ NextSlot(k) = rxHead
        <5>1. rxRing'[NextSlot(k)] = c /\ rxRing'[k] = rxRing[k] /\ c \in Chars
          BY <2>2, <3>2, <4>2
        <5>2. CASE dropped  BY <3>2, <5>1, <5>2 DEF Follows
        <5>3. CASE ~dropped
          <6>1. rxRing[k] = sent  BY <1>1, <3>2, <4>2, <5>1, <5>3 DEF RingRight
          <6>2. Follows(sent, c)  BY <3>2, <5>1, <5>3
          <6> QED  BY <5>1, <6>1, <6>2
        <5> QED  BY <5>2, <5>3
      <4>3. CASE k # rxHead /\ NextSlot(k) # rxHead
        <5>1. rxRing'[NextSlot(k)] = rxRing[NextSlot(k)] /\ rxRing'[k] = rxRing[k]
          BY <1>3, <2>2, <4>3
        <5> QED  BY <1>1, <3>2, <5>1 DEF RingRight
      <4> QED  BY <4>1, <4>2, <4>3
    <3>3. ASSUME NEW k \in Slots, NextSlot(k) = rxHead' PROVE rxRing'[k] \in {Dollar, sent'}
      <4>1. k = rxHead  BY <1>1, <1>3, <2>1, <3>3
      <4> QED  BY <2>2, <4>1
    <3>4. \A k \in Slots : Follows(rxRing[k], rxRing[NextSlot(k)])'
                             <=> Follows(rxRing'[k], rxRing'[NextSlot(k)])
      BY DEF Follows, IsNewline
    <3> QED  BY <3>1, <3>2, <3>3, <3>4 DEF RingRight
  <2>8. ParserRight'
    <3>1. rxHead' # rxTail'  BY <2>1, <2>3
    <3>2. ASSUME ~cut, rxRing'[rxTail] # Dollar PROVE FitsParser(rxRing'[rxTail])
      <4>1. CASE rxTail # rxHead
        <5>1. rxRing'[rxTail] = rxRing[rxTail]  BY <1>1, <2>2, <4>1
        <5> QED  BY <1>1, <3>2, <5>1 DEF ParserRight
      <4>2. CASE rxTail = rxHead
        <5>1. rxRing'[rxTail] = c /\ c \in Chars  BY <2>2, <3>2, <4>2
        <5>2. CASE dropped  BY <3>2, <5>1, <5>2 DEF FitsParser
        <5>3. CASE ~dropped
          <6>1. IF parseBuf = <<>> THEN IsNewline(sent) ELSE parseBuf[Len(parseBuf)] = sent
            BY <1>1, <3>2, <4>2, <5>3 DEF ParserRight
          <6>2. Follows(sent, c)  BY <3>2, <5>1, <5>3
          <6>3. parseBuf # <<>> => ~IsNewline(sent)
            <7>1. parseBuf # <<>> => Len(parseBuf) \in 1..Len(parseBuf)
              BY EmptySeq DEF ConsoleInv, ConsoleTypeOK
            <7> QED  BY <6>1, <7>1 DEF ConsoleInv
          <6> QED  BY <5>1, <6>1, <6>2, <6>3 DEF FitsParser, Follows
        <5> QED  BY <5>2, <5>3
      <4> QED  BY <4>1, <4>2
    <3>3. FitsParser(rxRing[rxTail])' <=> FitsParser(rxRing'[rxTail])  BY DEF FitsParser
    <3> QED  BY <1>1, <3>1, <3>2, <3>3 DEF ParserRight
  <2> QED  BY <2>2, <2>7, <2>8
<1> QED  BY <1>4, <1>5

\* A pop takes the first character, and what is behind it goes on where it ends.
LEMMA PopKeeps ==
  ASSUME ConsoleAssumption, ConsoleInv, ParseChar
  PROVE  /\ rxRing' \in [Slots -> Chars \cup {Dollar}] /\ rxTail' \in Slots
         /\ RingRight'
         /\ rxRing[rxTail] # Dollar =>
              /\ rxRing'[rxTail'] # Dollar => Follows(rxRing[rxTail], rxRing'[rxTail'])
              /\ rxHead' = rxTail' /\ ~dropped => rxRing[rxTail] = sent
<1>1. /\ rxRing \in [Slots -> Chars \cup {Dollar}] /\ rxHead \in Slots /\ rxTail \in Slots
      /\ RxSize \in Nat /\ RxSize > 1 /\ RingRight
  BY DEF ConsoleInv, ConsoleTypeOK, ConsoleAssumption, Slots
<1>2. \A k \in Slots : /\ NextSlot(k) \in Slots /\ NextSlot(k) # k
                       /\ \A j \in Slots : NextSlot(j) = NextSlot(k) => j = k
  BY SlotArithmetic
<1>3. /\ rxHead # rxTail /\ rxTail' = NextSlot(rxTail)
      /\ rxRing' = [rxRing EXCEPT ![rxTail] = Dollar] /\ UNCHANGED <<rxHead, sent, dropped>>
  BY <1>1, SlotArithmetic DEF ParseChar
<1>4. /\ rxRing' \in [Slots -> Chars \cup {Dollar}] /\ rxTail' \in Slots
      /\ rxRing'[rxTail] = Dollar /\ \A k \in Slots \ {rxTail} : rxRing'[k] = rxRing[k]
  BY <1>1, <1>2, <1>3
<1>5. \A k \in Slots : FreeSlot(k)' => FreeSlot(k) \/ k = rxTail
  BY <1>1, <1>3 DEF FreeSlot, NextSlot, Slots
<1>6. RingRight'
  <2>1. \A k \in Slots : FreeSlot(k)' => rxRing'[k] = Dollar  BY <1>1, <1>4, <1>5 DEF RingRight
  <2>2. \A k \in Slots : rxRing'[k] # Dollar => rxRing'[k] = rxRing[k]  BY <1>4
  <2>3. \A k \in Slots : rxRing'[k] # Dollar /\ rxRing'[NextSlot(k)] # Dollar =>
                           Follows(rxRing'[k], rxRing'[NextSlot(k)])
    BY <1>1, <1>2, <2>2 DEF RingRight
  <2>4. ~dropped => \A k \in Slots : NextSlot(k) = rxHead => rxRing'[k] \in {Dollar, sent}
    BY <1>1, <2>2 DEF RingRight
  <2>5. \A k \in Slots : Follows(rxRing[k], rxRing[NextSlot(k)])'
                           <=> Follows(rxRing'[k], rxRing'[NextSlot(k)])
    BY DEF Follows, IsNewline
  <2> QED  BY <1>3, <2>1, <2>3, <2>4, <2>5 DEF RingRight
<1>7. ASSUME rxRing[rxTail] # Dollar, rxRing'[rxTail'] # Dollar
      PROVE  Follows(rxRing[rxTail], rxRing'[rxTail'])
  <2>1. rxRing'[rxTail'] = rxRing[NextSlot(rxTail)]  BY <1>1, <1>2, <1>3, <1>4
  <2> QED  BY <1>1, <1>7, <2>1 DEF RingRight
<1>8. ASSUME rxRing[rxTail] # Dollar, rxHead' = rxTail', ~dropped PROVE rxRing[rxTail] = sent
  BY <1>1, <1>3, <1>8 DEF RingRight
<1> QED  BY <1>4, <1>6, <1>7, <1>8

\* What the parser does with it: the buffer grows by what fits, a newline runs it, and what
\* finds it full, or a '$', empties it.
LEMMA ParseKeeps ==
  ASSUME ConsoleAssumption, ConsoleInv, ParseChar
  PROVE  /\ ParserRight' /\ \A k \in 1..Len(parseBuf') : ~IsNewline(parseBuf'[k])
         /\ parseBuf' \in Seq(Chars) /\ Len(parseBuf') < ParseSize /\ ran' \in Seq(Chars)
         /\ cut' \in BOOLEAN /\ reading' \in BOOLEAN
         /\ ran' # <<>> /\ ~cut /\ (\A k \in 1..Len(ran') : ~ran'[k].gap) =>
              \A k \in 1..Len(ran') : ran'[k].i = k /\ ran'[k].n = Len(ran') - 1
<1>1. /\ parseBuf \in Seq(Chars) /\ Len(parseBuf) < ParseSize /\ Len(parseBuf) \in Nat
      /\ rxRing \in [Slots -> Chars \cup {Dollar}] /\ rxTail \in Slots
      /\ {cut, reading, dropped} \subseteq BOOLEAN
      /\ ParserRight /\ ParseSize \in Nat \ {0}
      /\ \A k \in 1..Len(parseBuf) : ~IsNewline(parseBuf[k])
  BY LenProperties DEF ConsoleInv, ConsoleTypeOK, ConsoleAssumption, Slots
<1>2. PICK c : c = rxRing[rxTail]  OBVIOUS
<1>3. /\ rxTail' \in Slots /\ UNCHANGED <<rxHead, sent, dropped>>
      /\ c # Dollar => /\ rxRing'[rxTail'] # Dollar => Follows(c, rxRing'[rxTail'])
                       /\ rxHead' = rxTail' /\ ~dropped => c = sent
  BY <1>2, PopKeeps DEF ParseChar
<1>4. <<>> \in Seq(Chars) /\ Len(<<>>) = 0  BY EmptySeq
<1>5. ASSUME parseBuf' = <<>>, cut' = TRUE, ran' = <<>>, reading' \in BOOLEAN
      PROVE  /\ ParserRight' /\ \A k \in 1..Len(parseBuf') : ~IsNewline(parseBuf'[k])
             /\ parseBuf' \in Seq(Chars) /\ Len(parseBuf') < ParseSize /\ ran' \in Seq(Chars)
             /\ cut' \in BOOLEAN /\ reading' \in BOOLEAN
    BY <1>1, <1>4, <1>5 DEF ParserRight
<1>6. CASE c = Dollar
  <2>1. parseBuf' = <<>> /\ cut' = TRUE /\ ran' = <<>> /\ reading' = TRUE
    BY <1>2, <1>6 DEF ParseChar
  <2> QED  BY <1>5, <2>1
<1>7. CASE c # Dollar /\ Len(parseBuf) >= ParseSize - 1
  <2>1. parseBuf' = <<>> /\ cut' = TRUE /\ ran' = <<>> /\ reading' = reading
    BY <1>1, <1>2, <1>7 DEF ParseChar, Store
  <2> QED  BY <1>1, <1>5, <2>1
<1>8. CASE c # Dollar /\ Len(parseBuf) < ParseSize - 1
  <2> DEFINE more == Append(parseBuf, c)
  <2>1. c \in Chars  BY <1>1, <1>2, <1>8
  <2>2. /\ more \in Seq(Chars) /\ Len(more) = Len(parseBuf) + 1 /\ more[Len(parseBuf) + 1] = c
        /\ \A k \in 1..Len(parseBuf) : more[k] = parseBuf[k]
    BY <1>1, <2>1, AppendProperties
  <2>3. /\ IsNewline(c) => ran' = more /\ parseBuf' = <<>> /\ cut' = FALSE
        /\ ~IsNewline(c) => parseBuf' = more /\ ran' = <<>> /\ cut' = cut
        /\ reading' = reading
    BY <1>2, <1>8 DEF ParseChar, Store
  <2> HIDE DEF more
  <2>4. ASSUME ~cut, \A k \in 1..Len(more) : ~more[k].gap
        PROVE  \A k \in 1..Len(more) : more[k].i = k /\ more[k].n = c.n
    <3>1. \A k \in 1..Len(parseBuf) : k \in 1..Len(more)  BY <1>1, <2>2
    <3>2. \A k \in 1..Len(parseBuf) : parseBuf[k].i = k /\ parseBuf[k].n = parseBuf[1].n
      BY <1>1, <2>2, <2>4, <3>1 DEF ParserRight
    <3>3. FitsParser(c) /\ ~c.gap
      <4>1. FitsParser(c)  BY <1>1, <1>2, <1>8, <2>4 DEF ParserRight
      <4>2. Len(parseBuf) + 1 \in 1..Len(more)  BY <1>1, <2>2
      <4> QED  BY <2>2, <2>4, <4>1, <4>2
    <3>4. c.i = Len(parseBuf) + 1 /\ \A k \in 1..Len(parseBuf) : parseBuf[k].n = c.n
      <4>1. CASE parseBuf = <<>>
        <5>1. Len(parseBuf) = 0  BY <1>4, <4>1
        <5> QED  BY <3>3, <4>1, <5>1 DEF FitsParser
      <4>2. CASE parseBuf # <<>>
        <5>1. Len(parseBuf) \in 1..Len(parseBuf)  BY <1>1, <4>2, EmptySeq
        <5> QED  BY <3>2, <3>3, <4>2, <5>1 DEF FitsParser
      <4> QED  BY <4>1, <4>2
    <3>5. \A k \in 1..Len(more) : k \in 1..Len(parseBuf) \/ k = Len(parseBuf) + 1  BY <1>1, <2>2
    <3> QED  BY <2>2, <3>2, <3>4, <3>5
  <2>5. CASE IsNewline(c)
    <3>1. ran' = more /\ parseBuf' = <<>> /\ cut' = FALSE /\ reading' = reading  BY <2>3, <2>5
    <3>2. rxRing'[rxTail'] # Dollar => FitsParser(rxRing[rxTail])'
      BY <1>3, <1>8, <2>5, <3>1 DEF FitsParser, Follows
    <3>3. rxHead' = rxTail' /\ ~dropped' => IsNewline(sent)'
      <4>1. rxHead' = rxTail' /\ ~dropped' => c = sent'  BY <1>3, <1>8
      <4> QED  BY <2>5, <4>1 DEF IsNewline
    <3>4. ParserRight'  BY <1>4, <3>1, <3>2, <3>3 DEF ParserRight
    <3>5. ASSUME ~cut, \A k \in 1..Len(more) : ~more[k].gap
          PROVE  \A k \in 1..Len(more) : more[k].i = k /\ more[k].n = Len(more) - 1
      <4>1. \A k \in 1..Len(more) : more[k].i = k /\ more[k].n = c.n  BY <2>4, <3>5
      <4>2. c.i = Len(more)  BY <1>1, <2>2, <4>1
      <4>3. c.n \in Nat /\ c.i = c.n + 1
        <5>1. c.n \in 1..MaxLine  BY <2>1 DEF Chars
        <5> QED  BY <2>5, <5>1 DEF IsNewline
      <4>4. c.n = Len(more) - 1  BY <4>2, <4>3
      <4> QED  BY <4>1, <4>4
    <3>6. /\ \A k \in 1..Len(parseBuf') : ~IsNewline(parseBuf'[k])
          /\ parseBuf' \in Seq(Chars) /\ Len(parseBuf') < ParseSize
      BY <1>1, <1>4, <3>1
    <3>7. ran' \in Seq(Chars) /\ cut' \in BOOLEAN /\ reading' \in BOOLEAN  BY <1>1, <2>2, <3>1
    <3>8. ~cut /\ (\A k \in 1..Len(ran') : ~ran'[k].gap) =>
            \A k \in 1..Len(ran') : ran'[k].i = k /\ ran'[k].n = Len(ran') - 1
      BY <3>1, <3>5
    <3> QED  BY <3>4, <3>6, <3>7, <3>8
  <2>6. CASE ~IsNewline(c)
    <3>1. parseBuf' = more /\ ran' = <<>> /\ cut' = cut /\ reading' = reading  BY <2>3, <2>6
    <3>2. \A k \in 1..Len(more) : ~IsNewline(more[k])
      <4>1. \A k \in 1..Len(more) : k \in 1..Len(parseBuf) \/ k = Len(parseBuf) + 1  BY <1>1, <2>2
      <4> QED  BY <1>1, <2>2, <2>6, <4>1
    <3>3. Len(more) < ParseSize /\ Len(more) \in Nat  BY <1>1, <1>8, <2>2
    <3>4. more # <<>> /\ more[Len(more)] = c /\ 1 \in 1..Len(more)  BY <1>1, <1>4, <2>2
    <3>5. rxRing'[rxTail'] # Dollar => FitsParser(rxRing[rxTail])'
      BY <1>3, <1>8, <2>6, <3>1, <3>4 DEF FitsParser, Follows
    <3>6. rxHead' = rxTail' /\ ~dropped' => parseBuf'[Len(parseBuf')] = sent'
      BY <1>3, <1>8, <3>1, <3>4
    <3>7. ~cut /\ (\A k \in 1..Len(more) : ~more[k].gap) =>
            \A k \in 1..Len(more) : more[k].i = k /\ more[k].n = more[1].n
      BY <2>4, <3>4
    <3>8. ParserRight'  BY <3>1, <3>4, <3>5, <3>6, <3>7 DEF ParserRight
    <3> QED  BY <1>1, <1>4, <2>2, <3>1, <3>2, <3>3, <3>8
  <2> QED  BY <2>5, <2>6
<1>9. Len(parseBuf) >= ParseSize - 1 \/ Len(parseBuf) < ParseSize - 1  BY <1>1
<1> QED  BY <1>6, <1>7, <1>8, <1>9

\* The UART driver, uart_rx_task and the parser keep ConsoleInv: what is buffered is the line that is
\* being sent, up to where it has come.
LEMMA ConsoleStep ==
  ASSUME ConsoleAssumption, ConsoleInv, [ConsoleNext]_consoleVars
  PROVE  ConsoleInv'
<1>1. /\ ConsoleTypeOK /\ RingRight /\ ParserRight
      /\ \A k \in 1..Len(parseBuf) : ~IsNewline(parseBuf[k])
      /\ sent.i <= sent.n + 1
  BY DEF ConsoleInv
<1>2. /\ sent \in Chars /\ MaxLine \in Nat \ {0} /\ {reading, dropped, cut} \subseteq BOOLEAN
      /\ <<>> \in Seq(Chars) /\ Dollar \in Chars \cup {Dollar} /\ Slots = 0..RxSize - 1
  BY <1>1, EmptySeq DEF ConsoleTypeOK, ConsoleAssumption, Slots
<1>3. ASSUME NEW n \in 1..MaxLine, PushNext(n) PROVE ConsoleInv'
  <2>1. /\ sent' = [n |-> n, i |-> IF IsNewline(sent) THEN 1 ELSE sent.i + 1, gap |-> dropped]
        /\ IsNewline(sent) \/ n = sent.n
        /\ PushChar(sent') /\ dropped' = RingIsFull /\ ran' = <<>>
        /\ UNCHANGED <<rxTail, parseBuf, reading, cut>>
    BY <1>3 DEF PushNext
  <2>2. sent.n \in 1..MaxLine /\ sent.i \in 1..MaxLine + 1  BY <1>2 DEF Chars
  <2>3. sent'.i \in 1..MaxLine + 1 /\ sent'.i <= sent'.n + 1
    <3>1. CASE IsNewline(sent)
      <4>1. sent'.i = 1 /\ sent'.n = n  BY <2>1, <3>1
      <4> QED  BY <1>2, <4>1
    <3>2. CASE ~IsNewline(sent)
      <4>1. sent'.i = sent.i + 1 /\ sent'.n = sent.n  BY <2>1, <3>2
      <4>2. ~(sent.i = sent.n + 1)  BY <2>2, <3>2 DEF IsNewline
      <4> QED  BY <1>1, <1>2, <2>2, <4>1, <4>2
    <3> QED  BY <3>1, <3>2
  <2>4. sent' \in Chars
    <3>1. (IF IsNewline(sent) THEN 1 ELSE sent.i + 1) \in 1..MaxLine + 1  BY <2>1, <2>3
    <3> QED  BY <1>2, <2>1, <3>1 DEF Chars
  <2>5. PICK c \in Chars : c = sent'  BY <2>4
  <2>6. (dropped => c.gap) /\ (~dropped => Follows(sent, c))  BY <2>1, <2>5 DEF Follows
  <2>7. /\ rxRing' \in [Slots -> Chars \cup {Dollar}] /\ rxHead' \in Slots
        /\ RingRight' /\ ParserRight'
    <3>1. PushChar(c) /\ c \in Chars \cup {Dollar} /\ UNCHANGED <<rxTail, parseBuf, cut>>
          /\ sent' = c
      BY <2>1, <2>5
    <3> QED  BY <2>1, <2>6, <3>1, PushKeeps
  <2>8. dropped' \in BOOLEAN  BY <2>1 DEF RingIsFull
  <2> QED  BY <1>1, <1>2, <2>1, <2>3, <2>4, <2>7, <2>8 DEF ConsoleInv, ConsoleTypeOK
<1>4. CASE PushDollar
  <2>1. /\ PushChar(Dollar) /\ ran' = <<>>
        /\ UNCHANGED <<rxTail, parseBuf, reading, sent, dropped, cut>>
    BY <1>4 DEF PushDollar
  <2>2. PICK c : c = Dollar  OBVIOUS
  <2>3. /\ rxRing' \in [Slots -> Chars \cup {Dollar}] /\ rxHead' \in Slots
        /\ RingRight' /\ ParserRight'
    BY <1>2, <2>1, <2>2, PushKeeps
  <2> QED  BY <1>1, <1>2, <2>1, <2>3 DEF ConsoleInv, ConsoleTypeOK
<1>5. CASE ReadIsOver \/ NothingToParse
  <2>1. /\ ran' = <<>> /\ reading' \in BOOLEAN
        /\ UNCHANGED <<rxRing, rxHead, rxTail, parseBuf, sent, dropped, cut>>
    BY <1>5 DEF ReadIsOver, NothingToParse
  <2> QED  BY <1>1, <1>2, <2>1 DEF ConsoleInv, ConsoleTypeOK, RingRight, ParserRight, FreeSlot, Follows,
                                   FitsParser, IsNewline
<1>6. CASE ParseChar
  <2>1. /\ rxRing' \in [Slots -> Chars \cup {Dollar}] /\ rxTail' \in Slots /\ RingRight'
    BY <1>6, PopKeeps
  <2>2. /\ ParserRight' /\ \A k \in 1..Len(parseBuf') : ~IsNewline(parseBuf'[k])
        /\ parseBuf' \in Seq(Chars) /\ Len(parseBuf') < ParseSize /\ ran' \in Seq(Chars)
        /\ cut' \in BOOLEAN /\ reading' \in BOOLEAN
    BY <1>6, ParseKeeps
  <2>3. UNCHANGED <<rxHead, sent, dropped>>  BY <1>6 DEF ParseChar
  <2> QED  BY <1>1, <1>2, <2>1, <2>2, <2>3 DEF ConsoleInv, ConsoleTypeOK
<1>7. CASE UNCHANGED consoleVars
  BY <1>1, <1>7 DEF consoleVars, ConsoleInv, ConsoleTypeOK, RingRight, ParserRight, FreeSlot, Follows,
              FitsParser, IsNewline
<1> QED  BY <1>3, <1>4, <1>5, <1>6, <1>7 DEF ConsoleNext

\* The invariant of the console: the ring and the parser's buffer together hold a stretch of
\* what was sent, whatever their sizes, but for the gaps that are marked.
THEOREM ConsoleInvariant == ConsoleSpec => []ConsoleInv
<1> USE ConsoleAssumption
<1>1. ConsoleInit => ConsoleInv
  <2>1. SUFFICES ASSUME ConsoleInit PROVE ConsoleInv  OBVIOUS
  <2>2. /\ rxRing = [k \in Slots |-> Dollar] /\ rxHead = 0 /\ rxTail = 0 /\ parseBuf = <<>>
        /\ sent = [n |-> 1, i |-> 2, gap |-> FALSE] /\ ran = <<>>
        /\ reading = TRUE /\ dropped = FALSE /\ cut = FALSE
    BY <2>1 DEF ConsoleInit, Slots
  <2>3. <<>> \in Seq(Chars) /\ Len(<<>>) = 0  BY EmptySeq
  <2>4. sent \in Chars /\ IsNewline(sent) /\ sent.i <= sent.n + 1
    BY <2>2 DEF Chars, IsNewline, ConsoleAssumption
  <2>5. 0 \in Slots /\ RxSize \in Nat /\ ParseSize \in Nat \ {0}  BY DEF Slots, ConsoleAssumption
  <2>6. \A k \in Slots : NextSlot(k) \in Slots  BY SlotArithmetic
  <2>7. ConsoleTypeOK  BY <2>2, <2>3, <2>4, <2>5 DEF ConsoleTypeOK, Slots
  <2>8. RingRight  BY <2>2, <2>6 DEF RingRight
  <2>9. ParserRight  BY <2>2, <2>3, <2>4, <2>5 DEF ParserRight
  <2> QED  BY <2>2, <2>3, <2>4, <2>7, <2>8, <2>9 DEF ConsoleInv
<1>2. ConsoleInv /\ [ConsoleNext]_consoleVars => ConsoleInv'  BY ConsoleStep
<1> QED  BY <1>1, <1>2, PTL DEF ConsoleSpec

\* What uart_parser runs without a '$', a gap or an overlong line before it is a line as it
\* was sent, from its first character to its newline.
THEOREM WholeCommandsCorrect == ConsoleSpec => WholeCommands
<1> USE ConsoleAssumption
<1>1. ConsoleInv /\ [ConsoleNext]_consoleVars =>
        [ran' # <<>> /\ ~cut /\ (\A k \in 1..Len(ran') : ~ran'[k].gap) =>
           \A k \in 1..Len(ran') : ran'[k].i = k /\ ran'[k].n = Len(ran') - 1]_consoleVars
  <2>1. SUFFICES ASSUME ConsoleInv, ConsoleNext, ran' # <<>>, ~cut,
                        \A k \in 1..Len(ran') : ~ran'[k].gap
                 PROVE  \A k \in 1..Len(ran') : ran'[k].i = k /\ ran'[k].n = Len(ran') - 1
    OBVIOUS
  <2>2. ParseChar
    BY <2>1 DEF ConsoleNext, PushNext, PushDollar, ReadIsOver, NothingToParse
  <2> QED  BY <2>1, <2>2, ParseKeeps
<1> QED  BY <1>1, ConsoleInvariant, PTL DEF ConsoleSpec, WholeCommands

-----------------------------------------------------------------------------
(* Diag: the diagnostic mode leaves nothing running                        *)

Skipping(m, arg, n) == [op |-> "unless", m |-> m, arg |-> arg, n |-> n]

\* The program once its parts are written out, each in its brackets as diag_process_task
\* puts them one after the other.
Out == <<Skipping("scoop", "open", 3), Stmt("tell", "scoop", "FORWARD"), Stmt("wait", "scoop", "open")>>
TestPlate ==
  <<Stmt("tell", "plate", "FORWARD")>> \o <<Stmt("test", "plate", "none")>> \o <<Stmt("tell", "plate", "STOP")>>
TestScoop ==
  <<Skipping("scoop", "open", 2), Stmt("tell", "scoop", "FORWARD")>> \o <<Stmt("test", "scoop", "none")>> \o Out
TestSpin ==
  Out \o <<Stmt("tell", "spin", "FORWARD")>> \o <<Stmt("test", "spin", "none")>> \o <<Stmt("tell", "spin", "STOP")>>
WayHome ==
  <<Skipping("waste", "close", 4), Stmt("tell", "waste", "REVERSE"), Stmt("wait", "waste", "close"),
    Stmt("tell", "waste", "STOP")>>
    \o <<Skipping("spin", "origin", 3), Stmt("tell", "spin", "FORWARD"), Stmt("find", "spin", "origin")>>
    \o <<Stmt("tell", "spin", "REVERSE")>> \o <<Stmt("end", "spin", "none")>>
    \o <<Stmt("tell", "scoop", "REVERSE")>> \o <<Stmt("wait", "scoop", "close")>> \o <<Stmt("tell", "scoop", "STOP")>>
    \o <<Stmt("tell", "spin", "REVERSE")>> \o <<Stmt("end", "spin", "none")>>
TestWaste ==
  Out \o <<Skipping("waste", "open", 2), Stmt("tell", "waste", "FORWARD")>> \o <<Stmt("test", "waste", "none")>>
    \o WayHome
Tested ==
  <<Stmt("test", "rf", "none")>> \o TestPlate \o TestScoop \o TestSpin \o TestWaste
    \o <<Stmt("restart", "none", "none")>>

\* A statement in front of a piece of 1.
LEMMA Glue2 == \A a, b : <<a>> \o <<b>> = <<a, b>>
<1> SUFFICES ASSUME NEW a, NEW b PROVE <<a>> \o <<b>> = <<a, b>>  OBVIOUS
<1> DEFINE S == {a, b}
<1>1. <<a>> \o <<b>> \in Seq(S) /\ <<a, b>> \in Seq(S)  OBVIOUS
<1>2. /\ Len(<<a>> \o <<b>>) = Len(<<a, b>>)
      /\ \A i \in 1..Len(<<a>> \o <<b>>) : (<<a>> \o <<b>>)[i] = <<a, b>>[i]
  OBVIOUS
<1> HIDE DEF S
<1> QED  BY <1>1, <1>2, SeqEqual, Zenon

\* A statement in front of a piece of 2.
LEMMA Glue3 == \A a, b, c : <<a>> \o <<b, c>> = <<a, b, c>>
<1> SUFFICES ASSUME NEW a, NEW b, NEW c PROVE <<a>> \o <<b, c>> = <<a, b, c>>  OBVIOUS
<1> DEFINE S == {a, b, c}
<1>1. <<a>> \o <<b, c>> \in Seq(S) /\ <<a, b, c>> \in Seq(S)  OBVIOUS
<1>2. /\ Len(<<a>> \o <<b, c>>) = Len(<<a, b, c>>)
      /\ \A i \in 1..Len(<<a>> \o <<b, c>>) : (<<a>> \o <<b, c>>)[i] = <<a, b, c>>[i]
  OBVIOUS
<1> HIDE DEF S
<1> QED  BY <1>1, <1>2, SeqEqual, Zenon

\* A statement in front of a piece of 3.
LEMMA Glue4 == \A a, b, c, d : <<a>> \o <<b, c, d>> = <<a, b, c, d>>
<1> SUFFICES ASSUME NEW a, NEW b, NEW c, NEW d PROVE <<a>> \o <<b, c, d>> = <<a, b, c, d>>  OBVIOUS
<1> DEFINE S == {a, b, c, d}
<1>1. <<a>> \o <<b, c, d>> \in Seq(S) /\ <<a, b, c, d>> \in Seq(S)  OBVIOUS
<1>2. /\ Len(<<a>> \o <<b, c, d>>) = Len(<<a, b, c, d>>)
      /\ \A i \in 1..Len(<<a>> \o <<b, c, d>>) : (<<a>> \o <<b, c, d>>)[i] = <<a, b, c, d>>[i]
  OBVIOUS
<1> HIDE DEF S
<1> QED  BY <1>1, <1>2, SeqEqual, Zenon

\* A sensor that is met skips a block of 1.
LEMMA Block1 == \A m, arg, a : UnlessAt(m, arg, <<a>>) = <<Skipping(m, arg, 2), a>>
<1> SUFFICES ASSUME NEW m, NEW arg, NEW a
             PROVE  UnlessAt(m, arg, <<a>>) = <<Skipping(m, arg, 2), a>>
  OBVIOUS
<1>1. Len(<<a>>) + 1 = 2  OBVIOUS
<1>2. [Stmt("unless", m, arg) EXCEPT !.n = 2] = Skipping(m, arg, 2)  BY DEF Stmt, Skipping
<1> QED  BY <1>1, <1>2, Glue2, Zenon DEF UnlessAt

\* A sensor that is met skips a block of 2.
LEMMA Block2 == \A m, arg, a, b : UnlessAt(m, arg, <<a, b>>) = <<Skipping(m, arg, 3), a, b>>
<1> SUFFICES ASSUME NEW m, NEW arg, NEW a, NEW b
             PROVE  UnlessAt(m, arg, <<a, b>>) = <<Skipping(m, arg, 3), a, b>>
  OBVIOUS
<1>1. Len(<<a, b>>) + 1 = 3  OBVIOUS
<1>2. [Stmt("unless", m, arg) EXCEPT !.n = 3] = Skipping(m, arg, 3)  BY DEF Stmt, Skipping
<1> QED  BY <1>1, <1>2, Glue3, Zenon DEF UnlessAt

\* A sensor that is met skips a block of 3.
LEMMA Block3 == \A m, arg, a, b, c : UnlessAt(m, arg, <<a, b, c>>) = <<Skipping(m, arg, 4), a, b, c>>
<1> SUFFICES ASSUME NEW m, NEW arg, NEW a, NEW b, NEW c
             PROVE  UnlessAt(m, arg, <<a, b, c>>) = <<Skipping(m, arg, 4), a, b, c>>
  OBVIOUS
<1>1. Len(<<a, b, c>>) + 1 = 4  OBVIOUS
<1>2. [Stmt("unless", m, arg) EXCEPT !.n = 4] = Skipping(m, arg, 4)  BY DEF Stmt, Skipping
<1>3. UnlessAt(m, arg, <<a, b, c>>) = <<Skipping(m, arg, 4)>> \o <<a, b, c>>  BY <1>1, <1>2, Zenon DEF UnlessAt
<1> QED  BY <1>3, Glue4, Zenon

\* Each test of diag_process_task, with its parts written out.
LEMMA TestsWrittenOut ==
  /\ do_diag_mode("rf") = <<>> \o <<Stmt("test", "rf", "none")>> \o <<>>
  /\ do_diag_mode("plate") = TestPlate /\ do_diag_mode("scoop") = TestScoop
  /\ do_diag_mode("spin") = TestSpin /\ do_diag_mode("waste") = TestWaste
<1> DEFINE Fwd(m) == Stmt("tell", m, "FORWARD")
<1>1. /\ \A m, d : Tell(m, d) = <<Stmt("tell", m, d)>>
      /\ \A m, d : WaitDiag(m, d) = <<Stmt("wait", m, d)>>
      /\ \A m : UntilEnd(m) = <<Stmt("end", m, "none")>>
  BY Zenon DEF Tell, WaitDiag, UntilEnd
<1>2. ScoopOut = Out
  <2>1. ScoopOut = UnlessAt("scoop", "open", <<Fwd("scoop")>> \o <<Stmt("wait", "scoop", "open")>>)
    BY <1>1, Zenon DEF ScoopOut
  <2>2. ScoopOut = UnlessAt("scoop", "open", <<Fwd("scoop"), Stmt("wait", "scoop", "open")>>)  BY <2>1, Glue2, Zenon
  <2> QED  BY <2>2, Block2, Zenon DEF Out
<1>3. do_diag_mode("rf") = <<>> \o <<Stmt("test", "rf", "none")>> \o <<>>
  BY Zenon DEF do_diag_mode, start_diag_mode, finish_diag_mode
<1>4. do_diag_mode("plate") = TestPlate
  BY <1>1, Zenon DEF do_diag_mode, start_diag_mode, finish_diag_mode, TestPlate
<1>5. do_diag_mode("scoop") = TestScoop
  <2>1. start_diag_mode("scoop") = UnlessAt("scoop", "open", Tell("scoop", "FORWARD"))  BY Zenon DEF start_diag_mode
  <2>2. start_diag_mode("scoop") = <<Skipping("scoop", "open", 2), Fwd("scoop")>>  BY <1>1, <2>1, Block1, Zenon
  <2>3. finish_diag_mode("scoop") = Out  BY <1>2, Zenon DEF finish_diag_mode
  <2> QED  BY <2>2, <2>3, Zenon DEF do_diag_mode, TestScoop
<1>6. do_diag_mode("spin") = TestSpin
  <2>1. start_diag_mode("spin") = Out \o <<Fwd("spin")>>  BY <1>1, <1>2, Zenon DEF start_diag_mode
  <2>2. finish_diag_mode("spin") = <<Stmt("tell", "spin", "STOP")>>  BY <1>1, Zenon DEF finish_diag_mode
  <2> QED  BY <2>1, <2>2, Zenon DEF do_diag_mode, TestSpin
<1>7. do_diag_mode("waste") = TestWaste
  <2>1. start_diag_mode("waste") = ScoopOut \o UnlessAt("waste", "open", Tell("waste", "FORWARD"))
    BY Zenon DEF start_diag_mode
  <2>2. start_diag_mode("waste") = Out \o <<Skipping("waste", "open", 2), Fwd("waste")>>
    BY <1>1, <1>2, <2>1, Block1, Zenon
  <2> DEFINE Rev    == Stmt("tell", "waste", "REVERSE")
             Shut   == Stmt("wait", "waste", "close")
             Halt   == Stmt("tell", "waste", "STOP")
             Find   == Stmt("find", "spin", "origin")
  <2>3. <<Rev>> \o <<Shut>> \o <<Halt>> = <<Rev, Shut, Halt>>
    <3>1. <<Rev>> \o <<Shut>> \o <<Halt>> = <<Rev>> \o (<<Shut>> \o <<Halt>>)
      <4>1. <<Rev>> \in Seq({Rev, Shut, Halt}) /\ <<Shut>> \in Seq({Rev, Shut, Halt}) /\ <<Halt>> \in Seq({Rev, Shut, Halt})
        OBVIOUS
      <4> HIDE DEF Rev, Shut, Halt
      <4> QED  BY <4>1, ConcatAssociative
    <3> QED  BY <3>1, Glue2, Glue3, Zenon
  <2>4. UnlessAt("waste", "close", Tell("waste", "REVERSE") \o WaitDiag("waste", "close") \o Tell("waste", "STOP"))
          = <<Skipping("waste", "close", 4), Rev, Shut, Halt>>
    BY <1>1, <2>3, Block3, Zenon
  <2>5. UnlessAt("spin", "origin", Tell("spin", "FORWARD") \o <<Find>>)
          = <<Skipping("spin", "origin", 3), Fwd("spin"), Find>>
    <3>1. Tell("spin", "FORWARD") \o <<Find>> = <<Fwd("spin"), Find>>  BY <1>1, Glue2, Zenon
    <3> QED  BY <3>1, Block2, Zenon
  <2>6. finish_diag_mode("waste") =
          UnlessAt("waste", "close", Tell("waste", "REVERSE") \o WaitDiag("waste", "close") \o Tell("waste", "STOP"))
            \o UnlessAt("spin", "origin", Tell("spin", "FORWARD") \o <<Find>>)
            \o Tell("spin", "REVERSE") \o UntilEnd("spin")
            \o Tell("scoop", "REVERSE") \o WaitDiag("scoop", "close") \o Tell("scoop", "STOP")
            \o Tell("spin", "REVERSE") \o UntilEnd("spin")
    BY Zenon DEF finish_diag_mode
  <2>7. finish_diag_mode("waste") = WayHome  BY <1>1, <2>4, <2>5, <2>6, Zenon DEF WayHome
  <2> QED  BY <2>2, <2>7, Zenon DEF do_diag_mode, TestWaste
<1> QED  BY <1>3, <1>4, <1>5, <1>6, <1>7

\* What the proof uses of the program: where a motor is told something, and how far a
\* statement goes on.
LEMMA ProgramShape ==
  /\ Len(DiagProgram) = 37
  /\ \A i \in 1..37 : DiagProgram[i].op = "unless" =>
       \/ i \in {5, 8, 11, 17, 20} /\ DiagProgram[i].n \in 2..3
       \/ i = 27 /\ DiagProgram[i].n = 3
       \/ i = 23 /\ DiagProgram[i].n = 4 /\ DiagProgram[i].m = "waste" /\ DiagProgram[i].arg = "close"
  /\ \A i \in 1..37 : DiagProgram[i].op = "tell" =>
       DiagProgram[i].m \in DiagMotors /\ DiagProgram[i].arg \in {"STOP", "FORWARD", "REVERSE"}
  /\ \A i \in 1..37 : DiagProgram[i].op = "test" => i <= 22 /\ DiagProgram[i].m \in Tests
  /\ \A i \in 1..37 : DiagProgram[i].op = "find" => i = 29
  /\ \A i \in 1..37 : DiagProgram[i].op \in {"tell", "test"} /\ DiagProgram[i].m = "plate" => i <= 4
  /\ \A i \in 1..37 : DiagProgram[i].op \in {"tell", "test"} /\ DiagProgram[i].m = "scoop" => i <= 34
  /\ \A i \in 1..37 : DiagProgram[i].op \in {"tell", "test"} /\ DiagProgram[i].m = "waste" => i \in {21, 22, 24, 26}
  /\ DiagProgram[4] = Stmt("tell", "plate", "STOP") /\ DiagProgram[21] = Stmt("tell", "waste", "FORWARD")
  /\ DiagProgram[22] = Stmt("test", "waste", "none") /\ DiagProgram[26] = Stmt("tell", "waste", "STOP")
  /\ DiagProgram[34] = Stmt("tell", "scoop", "STOP") /\ DiagProgram[36] = Stmt("end", "spin", "none")
  /\ \A i \in 1..37 : DiagProgram[i].op = "restart" <=> i = 37
<1>1. DiagProgram = (<<>> \o <<Stmt("test", "rf", "none")>> \o <<>>) \o TestPlate \o TestScoop \o TestSpin \o TestWaste
                      \o <<Stmt("restart", "none", "none")>>
  BY TestsWrittenOut, Zenon DEF DiagProgram
<1>2. <<>> \o <<Stmt("test", "rf", "none")>> \o <<>> = <<Stmt("test", "rf", "none")>>
  <2> DEFINE t == Stmt("test", "rf", "none")
  <2>1. <<t>> \in Seq({t})  OBVIOUS
  <2> HIDE DEF t
  <2>2. <<>> \o <<t>> = <<t>> /\ <<t>> \o <<>> = <<t>>  BY <2>1, ConcatEmptySeq
  <2> QED  BY <2>2, Zenon DEF t
<1>3. DiagProgram = Tested  BY <1>1, <1>2, Zenon DEF Tested
<1> USE DEF Tested, Out, TestPlate, TestScoop, TestSpin, TestWaste, WayHome, Stmt, Skipping, DiagMotors, Tests
<1>4. Len(Tested) = 37  OBVIOUS
<1>5. \A i \in 1..37 : Tested[i].op = "unless" =>
        \/ i \in {5, 8, 11, 17, 20} /\ Tested[i].n \in 2..3
        \/ i = 27 /\ Tested[i].n = 3
        \/ i = 23 /\ Tested[i].n = 4 /\ Tested[i].m = "waste" /\ Tested[i].arg = "close"
  <2>1. \A i \in 1..37 : Tested[i].op = "unless" => i \in {5, 8, 11, 17, 20, 23, 27}  OBVIOUS
  <2>2. /\ Tested[5].n = 2 /\ Tested[8].n = 3 /\ Tested[11].n = 3 /\ Tested[17].n = 3 /\ Tested[20].n = 2
        /\ Tested[23] = Skipping("waste", "close", 4) /\ Tested[27].n = 3
    OBVIOUS
  <2> HIDE DEF Tested
  <2> QED  BY <2>1, <2>2
<1>6. \A i \in 1..37 : Tested[i].op = "tell" =>
        Tested[i].m \in DiagMotors /\ Tested[i].arg \in {"STOP", "FORWARD", "REVERSE"}
  <2>1. \A i \in 1..37 : Tested[i].op = "tell" => Tested[i].m \in DiagMotors  OBVIOUS
  <2>2. \A i \in 1..37 : Tested[i].op = "tell" => i \in {2, 4, 6, 9, 12, 14, 16, 18, 21, 24, 26, 28, 30, 32, 34, 35}
    OBVIOUS
  <2>3. \A i \in {2, 6, 9, 12, 14, 18, 21, 28} : Tested[i].arg = "FORWARD"  OBVIOUS
  <2>4. \A i \in {4, 16, 26, 34} : Tested[i].arg = "STOP"  OBVIOUS
  <2>5. \A i \in {24, 30, 32, 35} : Tested[i].arg = "REVERSE"  OBVIOUS
  <2> HIDE DEF Tested
  <2> QED  BY <2>1, <2>2, <2>3, <2>4, <2>5
<1>7. \A i \in 1..37 : Tested[i].op = "test" => i <= 22 /\ Tested[i].m \in Tests
  OBVIOUS
<1>8. \A i \in 1..37 : Tested[i].op = "find" => i = 29
  OBVIOUS
<1>9. \A i \in 1..37 : Tested[i].op \in {"tell", "test"} /\ Tested[i].m = "plate" => i <= 4
  OBVIOUS
<1>10. \A i \in 1..37 : Tested[i].op \in {"tell", "test"} /\ Tested[i].m = "scoop" => i <= 34
  OBVIOUS
<1>11. \A i \in 1..37 : Tested[i].op \in {"tell", "test"} /\ Tested[i].m = "waste" => i \in {21, 22, 24, 26}
  OBVIOUS
<1>12. /\ Tested[4] = Stmt("tell", "plate", "STOP") /\ Tested[21] = Stmt("tell", "waste", "FORWARD")
       /\ Tested[22] = Stmt("test", "waste", "none") /\ Tested[26] = Stmt("tell", "waste", "STOP")
  /\ Tested[34] = Stmt("tell", "scoop", "STOP") /\ Tested[36] = Stmt("end", "spin", "none")
  OBVIOUS
<1>13. \A i \in 1..37 : Tested[i].op = "restart" <=> i = 37
  OBVIOUS
<1> HIDE DEF Tested
<1> QED  BY <1>3, <1>4, <1>5, <1>6, <1>7, <1>8, <1>9, <1>10, <1>11, <1>12, <1>13, Zenon

\* What is stopped by where the task is: each test ends with its motor told to stop, or
\* found at rest, and nothing after it tells it to go.  A waste cover on its way out is
\* either stopped by the last step or was overlooked by it.
DiagInv ==
  /\ DiagTypeOK
  /\ at >= 5  => drive["plate"] = "STOP"
  /\ at >= 35 => drive["scoop"] = "STOP"
  /\ at = 37  => drive["spin"] = "STOP"
  /\ at >= 27 => drive["waste"] = "STOP" \/ overlooked
  /\ at <= 23 /\ drive["waste"] # "STOP" /\ where["waste"] = "close" => leaving

\* A motor at rest stays so while nothing tells it.
LEMMA DiagTold ==
  ASSUME DiagTypeOK, NEW m \in DiagMotors, NEW d \in {"STOP", "FORWARD", "REVERSE"}, Command(m, d)
  PROVE  /\ drive' \in [DiagMotors -> {"STOP", "FORWARD", "REVERSE"}] /\ leaving' \in BOOLEAN
         /\ drive'[m] = d /\ \A k \in DiagMotors \ {m} : drive'[k] = drive[k]
         /\ m = "waste" /\ d = "FORWARD" /\ where["waste"] = "close" => leaving'
         /\ m # "waste" /\ leaving => leaving'
<1>1. /\ drive' \in [DiagMotors -> {"STOP", "FORWARD", "REVERSE"}]
      /\ drive'[m] = d /\ \A k \in DiagMotors \ {m} : drive'[k] = drive[k]
  BY DEF DiagTypeOK, Command
<1>2. leaving \in BOOLEAN  BY DEF DiagTypeOK
<1>3. leaving' = IF m = "waste" THEN d = "FORWARD" /\ where[m] = "close" ELSE leaving  BY Zenon DEF Command
<1>4. CASE m = "waste"
  <2>1. leaving' = (d = "FORWARD" /\ where["waste"] = "close")  BY <1>3, <1>4, Zenon
  <2>2. leaving' \in BOOLEAN  BY <2>1, Zenon
  <2>3. d = "FORWARD" /\ where["waste"] = "close" => leaving'  BY <2>1, Zenon
  <2> QED  BY <1>1, <1>4, <2>2, <2>3, Zenon
<1>5. CASE m # "waste"
  <2>1. leaving' = leaving  BY <1>3, <1>5, Zenon
  <2> QED  BY <1>1, <1>2, <1>5, <2>1, Zenon
<1> QED  BY <1>4, <1>5, Zenon

\* A statement that leaves the motors alone, and goes on to a place behind.
LEMMA GoesOn ==
  ASSUME DiagInv, at' \in 1..37, at' > at,
         UNCHANGED <<drive, where, leaving>>, func' \in 0..1, nextStep' \in BOOLEAN, nextFunc' \in BOOLEAN,
         overlooked' \in BOOLEAN, overlooked => overlooked',
         at < 5 => at' < 5, at < 35 => at' < 35, at = 36 => drive["spin"] = "STOP",
         at < 27 /\ at' >= 27 => drive["waste"] = "STOP" \/ overlooked', at < 36 => at' < 37
  PROVE  DiagInv'
<1>1. Len(DiagProgram) = 37  BY ProgramShape
<1>2. DiagTypeOK'  BY <1>1 DEF DiagInv, DiagTypeOK
<1>3. at \in 1..37  BY <1>1 DEF DiagInv, DiagTypeOK
<1>4. (at >= 5  => drive["plate"] = "STOP")'  BY <1>3 DEF DiagInv
<1>5. (at >= 35 => drive["scoop"] = "STOP")'  BY <1>3 DEF DiagInv
<1>6. (at = 37  => drive["spin"] = "STOP")'  BY <1>3 DEF DiagInv
<1>7. (at >= 27 => drive["waste"] = "STOP" \/ overlooked)'
  <2>1. CASE at >= 27
    <3>1. drive["waste"] = "STOP" \/ overlooked  BY <2>1 DEF DiagInv
    <3> QED  BY <3>1
  <2>2. CASE at < 27  BY <2>2
  <2> QED  BY <1>3, <2>1, <2>2
<1>8. (at <= 23 /\ drive["waste"] # "STOP" /\ where["waste"] = "close" => leaving)'
  <2>1. at' <= 23 => at <= 23  BY <1>3
  <2>2. at <= 23 /\ drive["waste"] # "STOP" /\ where["waste"] = "close" => leaving  BY DEF DiagInv
  <2> QED  BY <2>1, <2>2
<1> QED  BY <1>2, <1>4, <1>5, <1>6, <1>7, <1>8 DEF DiagInv

\* One step of diag_process_task.
LEMMA DiagTask == ASSUME DiagInv, ProcessTask PROVE DiagInv'
<1> DEFINE s == DiagProgram[at]
<1>1. Len(DiagProgram) = 37  BY ProgramShape
<1>2. /\ at \in 1..37 /\ func \in 0..1
      /\ drive \in [DiagMotors -> {"STOP", "FORWARD", "REVERSE"}]
      /\ where \in [{"scoop", "waste"} -> {"close", "middle", "open"}]
  BY <1>1 DEF DiagInv, DiagTypeOK
<1>3. nextStep \in BOOLEAN /\ nextFunc \in BOOLEAN /\ leaving \in BOOLEAN /\ overlooked \in BOOLEAN
  BY DEF DiagInv, DiagTypeOK
<1>4. ASSUME DoTell(s) PROVE DiagInv'
  <2>1. s.op = "tell" /\ Command(s.m, s.arg) /\ at' = at + 1 /\ UNCHANGED <<nextStep, nextFunc, func, where, overlooked>>
    BY <1>4 DEF DoTell, Next1
  <2>2. s.m \in DiagMotors /\ s.arg \in {"STOP", "FORWARD", "REVERSE"}  BY <1>2, <2>1, ProgramShape
  <2>3. at # 37 /\ at # 36
    <3>1. DiagProgram[37].op = "restart"  BY ProgramShape
    <3>2. DiagProgram[36].op = "end"  BY ProgramShape DEF Stmt
    <3> QED  BY <2>1, <3>1, <3>2
  <2>4. /\ s.m = "plate" => at <= 4 /\ (at = 4 => s.arg = "STOP")
        /\ at = 4 => s.m = "plate"
        /\ s.m = "scoop" => at <= 34 /\ (at = 34 => s.arg = "STOP")
        /\ at = 34 => s.m = "scoop"
        /\ s.m = "waste" => at \in {21, 24, 26}
        /\ at = 21 => s.arg = "FORWARD"
        /\ at = 26 => s.m = "waste" /\ s.arg = "STOP"
    <3>2. s.m = "plate" => at <= 4  BY <1>2, <2>1, ProgramShape
    <3>3. s.m = "scoop" => at <= 34  BY <1>2, <2>1, ProgramShape
    <3>4. s.m = "waste" => at \in {21, 22, 24, 26}  BY <1>2, <2>1, ProgramShape
    <3>5. at # 22  BY <2>1, ProgramShape DEF Stmt
    <3>6. at = 4 => s.m = "plate" /\ s.arg = "STOP"  BY ProgramShape DEF Stmt
    <3>7. at = 34 => s.m = "scoop" /\ s.arg = "STOP"  BY ProgramShape DEF Stmt
    <3>8. (at = 21 => s.arg = "FORWARD") /\ (at = 26 => s.m = "waste" /\ s.arg = "STOP")  BY ProgramShape DEF Stmt
    <3> QED  BY <3>2, <3>3, <3>4, <3>5, <3>6, <3>7, <3>8
  <2>5. /\ drive' \in [DiagMotors -> {"STOP", "FORWARD", "REVERSE"}] /\ leaving' \in BOOLEAN
        /\ drive'[s.m] = s.arg /\ \A k \in DiagMotors \ {s.m} : drive'[k] = drive[k]
        /\ s.m = "waste" /\ s.arg = "FORWARD" /\ where["waste"] = "close" => leaving'
        /\ s.m # "waste" /\ leaving => leaving'
    <3>1. DiagTypeOK  BY DEF DiagInv
    <3> HIDE DEF s
    <3> QED  BY <2>1, <2>2, <3>1, DiagTold, Zenon
  <2> HIDE DEF s
  <2>6. DiagTypeOK'  BY <1>1, <1>2, <1>3, <2>1, <2>3, <2>5 DEF DiagTypeOK
  <2>7. (at >= 5  => drive["plate"] = "STOP")'
    <3>1. CASE at <= 4  BY <1>2, <2>1, <2>4, <2>5, <3>1 DEF DiagMotors
    <3>2. CASE at > 4  BY <1>2, <2>1, <2>4, <2>5, <3>2 DEF DiagMotors, DiagInv
    <3> QED  BY <1>2, <3>1, <3>2
  <2>8. (at >= 35 => drive["scoop"] = "STOP")'
    <3>1. CASE at <= 34  BY <1>2, <2>1, <2>4, <2>5, <3>1 DEF DiagMotors
    <3>2. CASE at > 34  BY <1>2, <2>1, <2>4, <2>5, <3>2 DEF DiagMotors, DiagInv
    <3> QED  BY <1>2, <3>1, <3>2
  <2>9. (at = 37  => drive["spin"] = "STOP")'  BY <1>2, <2>1, <2>3
  <2>10. (at >= 27 => drive["waste"] = "STOP" \/ overlooked)'
    <3>1. CASE at <= 25  BY <1>2, <2>1, <3>1
    <3>2. CASE at = 26
      <4>1. drive'["waste"] = "STOP"  BY <2>4, <2>5, <3>2
      <4> QED  BY <4>1
    <3>3. CASE at > 26
      <4>1. drive["waste"] = "STOP" \/ overlooked  BY <1>2, <3>3 DEF DiagInv
      <4>2. drive'["waste"] = drive["waste"]  BY <2>4, <2>5, <3>3 DEF DiagMotors
      <4>3. overlooked' = overlooked  BY <2>1
      <4> QED  BY <4>1, <4>2, <4>3, Zenon
    <3> QED  BY <1>2, <3>1, <3>2, <3>3
  <2>11. (at <= 23 /\ drive["waste"] # "STOP" /\ where["waste"] = "close" => leaving)'
    <3> SUFFICES ASSUME at' <= 23, drive'["waste"] # "STOP", where'["waste"] = "close" PROVE leaving'
      OBVIOUS
    <3>1. where' = where /\ at <= 23  BY <1>2, <2>1
    <3>2. CASE s.m = "waste"
      <4>1. at = 21  BY <1>2, <2>1, <2>4, <3>2
      <4>2. s.arg = "FORWARD" /\ where["waste"] = "close"  BY <2>4, <3>1, <4>1
      <4> QED  BY <2>5, <3>2, <4>2, Zenon
    <3>3. CASE s.m # "waste"
      <4>1. drive["waste"] # "STOP"  BY <2>5, <3>3 DEF DiagMotors
      <4>2. leaving  BY <3>1, <4>1 DEF DiagInv
      <4> QED  BY <2>5, <3>3, <4>2, Zenon
    <3> QED  BY <3>2, <3>3
  <2> QED  BY <2>6, <2>7, <2>8, <2>9, <2>10, <2>11 DEF DiagInv
<1>5. ASSUME DoWait(s) \/ DoUntilEnd(s) PROVE DiagInv'
  <2>1. /\ s.op \in {"wait", "end"} /\ at' = at + 1
        /\ UNCHANGED <<nextStep, nextFunc, func, drive, where, leaving, overlooked>>
    BY <1>5 DEF DoWait, DoUntilEnd, Next1
  <2>2. at # 37 /\ at # 4 /\ at # 34 /\ at # 26
    <3>1. DiagProgram[37].op = "restart"  BY ProgramShape
    <3>2. DiagProgram[4].op = "tell" /\ DiagProgram[34].op = "tell" /\ DiagProgram[26].op = "tell"
      BY ProgramShape DEF Stmt
    <3> QED  BY <2>1, <3>1, <3>2
  <2>3. at = 36 => drive["spin"] = "STOP"
    <3> SUFFICES ASSUME at = 36 PROVE drive["spin"] = "STOP"  OBVIOUS
    <3>1. s = Stmt("end", "spin", "none")  BY ProgramShape
    <3>2. s.op = "end" /\ s.m = "spin"  BY <3>1 DEF Stmt
    <3>3. DoUntilEnd(s)  BY <1>5, <3>2 DEF DoWait
    <3> QED  BY <3>2, <3>3 DEF DoUntilEnd
  <2> HIDE DEF s
  <2>4. at' \in 1..37 /\ at' > at  BY <1>2, <2>1, <2>2
  <2>5. (at < 5 => at' < 5) /\ (at < 35 => at' < 35) /\ (at < 36 => at' < 37) /\ (at < 27 => at' < 27)
    BY <1>2, <2>1, <2>2
  <2>6. func' \in 0..1 /\ nextStep' \in BOOLEAN /\ nextFunc' \in BOOLEAN /\ overlooked' \in BOOLEAN
    BY <1>2, <1>3, <2>1
  <2>7. overlooked => overlooked'  BY <2>1
  <2>8. UNCHANGED <<drive, where, leaving>>  BY <2>1
  <2>9. at < 27 /\ at' >= 27 => drive["waste"] = "STOP" \/ overlooked'  BY <1>2, <2>4, <2>5
  <2> QED  BY <2>3, <2>4, <2>5, <2>6, <2>7, <2>8, <2>9, GoesOn
<1>6. ASSUME DoUnless(s) PROVE DiagInv'
  <2>1. s.op = "unless" /\ UNCHANGED <<nextStep, nextFunc, func, drive, where, leaving>>  BY <1>6 DEF DoUnless
  <2>2. PICK met \in IF s.m = "spin" THEN BOOLEAN ELSE {where[s.m] = s.arg} :
          /\ Next1(IF met THEN s.n ELSE 1)
          /\ overlooked' = (overlooked \/ (met /\ s.arg = "close" /\ leaving))
    BY <1>6, Zenon DEF DoUnless
  <2>3. met \in BOOLEAN  BY <2>2, Zenon
  <2>4. at' = at + (IF met THEN s.n ELSE 1)  BY <2>2, Zenon DEF Next1
  <2>5. \/ at \in {5, 8, 11, 17, 20} /\ s.n \in 2..3
        \/ at = 27 /\ s.n = 3
        \/ at = 23 /\ s.n = 4 /\ s.m = "waste" /\ s.arg = "close"
    BY <1>2, <2>1, ProgramShape
  <2>6. overlooked' \in BOOLEAN /\ (overlooked => overlooked')  BY <2>2, Zenon
  <2>7. func' \in 0..1 /\ nextStep' \in BOOLEAN /\ nextFunc' \in BOOLEAN  BY <1>2, <1>3, <2>1
  <2>8. at < 27 /\ at' >= 27 => drive["waste"] = "STOP" \/ overlooked'
    <3> SUFFICES ASSUME at < 27, at' >= 27, drive["waste"] # "STOP" PROVE overlooked'
      OBVIOUS
    <3> HIDE DEF s
    <3>1. at = 23 /\ met /\ s.m = "waste" /\ s.arg = "close"
      <4>1. CASE met
        <5>1. at' = at + s.n  BY <2>4, <4>1
        <5>2. at = 23 /\ s.m = "waste" /\ s.arg = "close"  BY <1>2, <2>5, <5>1
        <5> QED  BY <4>1, <5>2
      <4>2. CASE ~met
        <5>1. at' = at + 1  BY <2>4, <4>2
        <5>2. FALSE  BY <1>2, <2>5, <5>1
        <5> QED  BY <5>2
      <4> QED  BY <4>1, <4>2
    <3>2. met = (where["waste"] = "close")  BY <2>2, <3>1, Zenon
    <3>3. where["waste"] = "close"  BY <3>1, <3>2, Zenon
    <3>4. leaving  BY <3>1, <3>3 DEF DiagInv
    <3> QED  BY <2>2, <3>1, <3>4, Zenon
  <2>9. UNCHANGED <<drive, where, leaving>>  BY <2>1
  <2> HIDE DEF s
  <2>10. at' = at + s.n \/ at' = at + 1
    <3>1. CASE met  BY <2>4, <3>1
    <3>2. CASE ~met  BY <2>4, <3>2
    <3> QED  BY <3>1, <3>2
  <2>11. at' \in 1..37 /\ at' > at /\ (at < 5 => at' < 5) /\ (at < 35 => at' < 35) /\ at # 36 /\ (at < 36 => at' < 37)
    <3>1. CASE at' = at + 1  BY <1>2, <2>5, <3>1
    <3>2. CASE at' = at + s.n  BY <1>2, <2>5, <3>2
    <3> QED  BY <2>10, <3>1, <3>2
  <2> QED  BY <2>6, <2>7, <2>8, <2>9, <2>11, GoesOn
<1>7. ASSUME DoFind(s) PROVE DiagInv'
  <2>1. /\ s.op = "find" /\ at' = at + 1 /\ drive' = [drive EXCEPT !["spin"] = "STOP"]
        /\ UNCHANGED <<nextStep, nextFunc, func, where, leaving, overlooked>>
    BY <1>7 DEF DoFind, Next1
  <2>2. at = 29 /\ at' = 30  BY <1>2, <2>1, ProgramShape
  <2>3. drive' \in [DiagMotors -> {"STOP", "FORWARD", "REVERSE"}]
        /\ \A k \in DiagMotors \ {"spin"} : drive'[k] = drive[k]
    BY <1>2, <2>1 DEF DiagMotors
  <2>4. DiagTypeOK'  BY <1>1, <1>2, <1>3, <2>1, <2>2, <2>3 DEF DiagTypeOK
  <2>5. drive["plate"] = "STOP" /\ (drive["waste"] = "STOP" \/ overlooked)  BY <2>2 DEF DiagInv
  <2>6. drive'["plate"] = "STOP" /\ drive'["waste"] = drive["waste"]  BY <2>3, <2>5 DEF DiagMotors
  <2>7. drive'["waste"] = "STOP" \/ overlooked'
    <3>1. overlooked' = overlooked  BY <2>1
    <3> QED  BY <2>5, <2>6, <3>1, Zenon
  <2> HIDE DEF s
  <2> QED  BY <2>2, <2>4, <2>6, <2>7 DEF DiagInv
<1>8. ASSUME DoNextStep(s) PROVE DiagInv'
  <2>1. /\ s.op = "test" /\ at' = at + 1 /\ nextStep' = FALSE /\ func' = 0
        /\ UNCHANGED <<nextFunc, drive, where, leaving, overlooked>>
    BY <1>8 DEF DoNextStep, Next1
  <2>2. at <= 22 /\ at # 4
    <3>1. DiagProgram[4].op = "tell"  BY ProgramShape DEF Stmt
    <3> QED  BY <1>2, <2>1, <3>1, ProgramShape
  <2> HIDE DEF s
  <2>3. at' \in 1..37 /\ at' > at /\ (at < 5 => at' < 5) /\ (at < 35 => at' < 35) /\ (at < 36 => at' < 37) /\ at' < 27
    BY <1>2, <2>1, <2>2
  <2>4. func' \in 0..1 /\ nextStep' \in BOOLEAN /\ nextFunc' \in BOOLEAN /\ overlooked' \in BOOLEAN
    <3>1. func' \in 0..1 /\ nextFunc' \in BOOLEAN /\ overlooked' \in BOOLEAN  BY <1>3, <2>1
    <3>2. nextStep' \in BOOLEAN  BY <2>1, Zenon
    <3> QED  BY <3>1, <3>2
  <2>5. overlooked => overlooked'  BY <2>1
  <2>6. UNCHANGED <<drive, where, leaving>>  BY <2>1
  <2>7. (at = 36 => drive["spin"] = "STOP") /\ (at < 27 /\ at' >= 27 => drive["waste"] = "STOP" \/ overlooked')
    BY <2>2, <2>3
  <2> QED  BY <2>3, <2>4, <2>5, <2>6, <2>7, GoesOn
<1>9. ASSUME DoNextFunc(s) PROVE DiagInv'
  <2>1. s.op = "test" /\ at' = at /\ nextFunc' = FALSE /\ func' = 1 - func /\ nextStep' = nextStep
        /\ where' = where /\ overlooked' = overlooked
    BY <1>9 DEF DoNextFunc
  <2>2. at <= 22 /\ s.m \in Tests /\ (s.m = "plate" => at <= 4)  BY <1>2, <2>1, ProgramShape
  <2> DEFINE d == IF func' = 0 THEN "FORWARD" ELSE "REVERSE"
             goal == IF func' = 0 THEN "open" ELSE "close"
  <2>3. func' \in 0..1  BY <1>2, <2>1
  <2>4. IF s.m = "rf" \/ (s.m \in {"scoop", "waste"} /\ where[s.m] = goal)
        THEN UNCHANGED <<drive, leaving>> ELSE Command(s.m, d)
    BY <1>9, Zenon DEF DoNextFunc
  <2>5. /\ drive' \in [DiagMotors -> {"STOP", "FORWARD", "REVERSE"}] /\ leaving' \in BOOLEAN
        /\ at >= 5 => drive'["plate"] = drive["plate"]
        /\ drive'["waste"] # "STOP" /\ where["waste"] = "close" => leaving'
    <3>1. CASE s.m = "rf" \/ (s.m \in {"scoop", "waste"} /\ where[s.m] = goal)
      <4>1. drive' = drive /\ leaving' = leaving  BY <2>4, <3>1
      <4>2. drive["waste"] # "STOP" /\ where["waste"] = "close" => leaving  BY <1>2, <2>2 DEF DiagInv
      <4>3. drive'["waste"] # "STOP" /\ where["waste"] = "close" => leaving'  BY <4>1, <4>2, Zenon
      <4> QED  BY <1>2, <1>3, <4>1, <4>3
    <3>2. CASE ~(s.m = "rf" \/ (s.m \in {"scoop", "waste"} /\ where[s.m] = goal))
      <4>1. Command(s.m, d)  BY <2>4, <3>2
      <4>2. s.m \in DiagMotors  BY <2>2, <3>2 DEF Tests, DiagMotors
      <4>3. d \in {"STOP", "FORWARD", "REVERSE"}  OBVIOUS
      <4>4. s.m = "waste" /\ where["waste"] = "close" => d = "FORWARD"  BY <2>3, <3>2
      <4>5. DiagTypeOK  BY DEF DiagInv
      <4> HIDE DEF s, d, goal
      <4>6. /\ drive' \in [DiagMotors -> {"STOP", "FORWARD", "REVERSE"}] /\ leaving' \in BOOLEAN
            /\ \A k \in DiagMotors \ {s.m} : drive'[k] = drive[k]
            /\ s.m = "waste" /\ d = "FORWARD" /\ where["waste"] = "close" => leaving'
            /\ s.m # "waste" /\ leaving => leaving'
        BY <4>1, <4>2, <4>3, <4>5, DiagTold, Zenon
      <4>7. at >= 5 => drive'["plate"] = drive["plate"]  BY <1>2, <2>2, <4>6 DEF DiagMotors
      <4>8. CASE s.m = "waste"
        <5>1. where["waste"] = "close" => leaving'  BY <4>4, <4>6, <4>8, Zenon
        <5> QED  BY <4>6, <4>7, <5>1, Zenon
      <4>9. CASE s.m # "waste"
        <5>1. drive'["waste"] = drive["waste"]  BY <4>6, <4>9 DEF DiagMotors
        <5>2. drive["waste"] # "STOP" /\ where["waste"] = "close" => leaving  BY <1>2, <2>2 DEF DiagInv
        <5>3. drive'["waste"] # "STOP" /\ where["waste"] = "close" => leaving'  BY <4>6, <4>9, <5>1, <5>2, Zenon
        <5> QED  BY <4>6, <4>7, <5>3, Zenon
      <4> QED  BY <4>8, <4>9
    <3> QED  BY <3>1, <3>2
  <2> HIDE DEF s
  <2>6. DiagTypeOK'  BY <1>1, <1>2, <1>3, <2>1, <2>3, <2>5 DEF DiagTypeOK
  <2>7. (at >= 5  => drive["plate"] = "STOP")'
    <3>1. at >= 5  => drive["plate"] = "STOP"  BY DEF DiagInv
    <3> QED  BY <2>1, <2>5, <3>1
  <2>8. (at <= 23 /\ drive["waste"] # "STOP" /\ where["waste"] = "close" => leaving)'
    <3>1. where'["waste"] = where["waste"]  BY <2>1
    <3> QED  BY <2>5, <3>1, Zenon
  <2>9. (at >= 35 => drive["scoop"] = "STOP")' /\ (at = 37  => drive["spin"] = "STOP")'
        /\ (at >= 27 => drive["waste"] = "STOP" \/ overlooked)'
    BY <1>2, <2>1, <2>2
  <2> QED  BY <2>6, <2>7, <2>8, <2>9 DEF DiagInv
<1>10. DoTell(s) \/ DoWait(s) \/ DoUntilEnd(s) \/ DoUnless(s) \/ DoFind(s) \/ DoNextStep(s) \/ DoNextFunc(s)
  BY Zenon DEF ProcessTask
<1> HIDE DEF s
<1> QED  BY <1>4, <1>5, <1>6, <1>7, <1>8, <1>9, <1>10, Zenon

\* A press, and a motor that moves on or comes to rest.
LEMMA DiagOutside ==
  ASSUME DiagInv,
         \/ \E step \in BOOLEAN : Press(step)
         \/ \E m \in {"scoop", "waste"} : Moves(m)
         \/ \E m \in DiagMotors \ {"plate"} : RunEnds(m)
  PROVE  DiagInv'
<1>1. Len(DiagProgram) = 37  BY ProgramShape
<1>2. /\ at \in 1..37 /\ func \in 0..1
      /\ drive \in [DiagMotors -> {"STOP", "FORWARD", "REVERSE"}]
      /\ where \in [{"scoop", "waste"} -> {"close", "middle", "open"}]
  BY <1>1 DEF DiagInv, DiagTypeOK
<1>3. nextStep \in BOOLEAN /\ nextFunc \in BOOLEAN /\ leaving \in BOOLEAN /\ overlooked \in BOOLEAN
  BY DEF DiagInv, DiagTypeOK
<1>4. ASSUME NEW step \in BOOLEAN, Press(step) PROVE DiagInv'
  <2>1. /\ nextStep' = (nextStep \/ step) /\ nextFunc' = (nextFunc \/ ~step)
        /\ UNCHANGED <<at, func, overlooked, drive, where, leaving>>
    BY <1>4, Zenon DEF Press, diagTask
  <2>2. nextStep' \in BOOLEAN /\ nextFunc' \in BOOLEAN  BY <2>1, Zenon
  <2> QED  BY <2>1, <2>2 DEF DiagInv, DiagTypeOK
<1>5. ASSUME NEW m \in {"scoop", "waste"}, Moves(m) PROVE DiagInv'
  <2> DEFINE end == IF drive[m] = "FORWARD" THEN "open" ELSE "close"
  <2>1. /\ drive[m] # "STOP" /\ UNCHANGED <<at, func, overlooked, nextStep, nextFunc>>
        /\ where' = [where EXCEPT ![m] = IF @ \in {"middle", end} THEN end ELSE "middle"]
        /\ drive' = IF where'[m] = end THEN [drive EXCEPT ![m] = "STOP"] ELSE drive
    BY <1>5 DEF Moves, diagTask
  <2>2. leaving' = (leaving /\ m # "waste")  BY <1>5, Zenon DEF Moves
  <2>3. leaving' \in BOOLEAN  BY <2>2, Zenon
  <2>4. where' \in [{"scoop", "waste"} -> {"close", "middle", "open"}]  BY <1>2, <2>1
  <2>5. /\ drive' \in [DiagMotors -> {"STOP", "FORWARD", "REVERSE"}]
        /\ \A k \in DiagMotors : drive'[k] = drive[k] \/ drive'[k] = "STOP"
    BY <1>2, <2>1 DEF DiagMotors
  <2>6. DiagTypeOK'  BY <1>1, <1>2, <1>3, <2>1, <2>3, <2>4, <2>5 DEF DiagTypeOK
  <2>7. (at >= 5  => drive["plate"] = "STOP")' /\ (at >= 35 => drive["scoop"] = "STOP")' /\ (at = 37  => drive["spin"] = "STOP")'
    BY <2>1, <2>5 DEF DiagInv, DiagMotors
  <2>8. (at >= 27 => drive["waste"] = "STOP" \/ overlooked)'
    BY <2>1, <2>5 DEF DiagInv, DiagMotors
  <2>9. (at <= 23 /\ drive["waste"] # "STOP" /\ where["waste"] = "close" => leaving)'
    <3> SUFFICES ASSUME at' <= 23, drive'["waste"] # "STOP", where'["waste"] = "close" PROVE leaving'
      OBVIOUS
    <3>1. m # "waste"
      <4> SUFFICES ASSUME m = "waste" PROVE FALSE  OBVIOUS
      <4>1. where'["waste"] = IF where["waste"] \in {"middle", end} THEN end ELSE "middle"  BY <1>2, <2>1
      <4>2. end = "close"  BY <4>1
      <4>3. drive'["waste"] = "STOP"  BY <1>2, <2>1, <4>2 DEF DiagMotors
      <4> QED  BY <4>3
    <3>2. drive["waste"] # "STOP" /\ where["waste"] = "close" /\ at <= 23
      <4>1. m = "scoop"  BY <3>1
      <4> QED  BY <1>2, <2>1, <2>5, <4>1 DEF DiagMotors
    <3>3. leaving  BY <3>2 DEF DiagInv
    <3> QED  BY <2>2, <3>1, <3>3, Zenon
  <2> QED  BY <2>6, <2>7, <2>8, <2>9 DEF DiagInv
<1>6. ASSUME NEW m \in DiagMotors \ {"plate"}, RunEnds(m) PROVE DiagInv'
  <2>1. /\ drive' = [drive EXCEPT ![m] = "STOP"] /\ UNCHANGED <<at, func, overlooked, nextStep, nextFunc, where>>
    BY <1>6 DEF RunEnds, diagTask
  <2>2. leaving' = (leaving /\ m # "waste")  BY <1>6, Zenon DEF RunEnds
  <2>3. leaving' \in BOOLEAN  BY <2>2, Zenon
  <2>4. /\ drive' \in [DiagMotors -> {"STOP", "FORWARD", "REVERSE"}]
        /\ drive'[m] = "STOP" /\ \A k \in DiagMotors : drive'[k] = drive[k] \/ drive'[k] = "STOP"
    BY <1>2, <2>1 DEF DiagMotors
  <2>5. DiagTypeOK'  BY <1>1, <1>2, <1>3, <2>1, <2>3, <2>4 DEF DiagTypeOK
  <2>6. (at >= 5  => drive["plate"] = "STOP")' /\ (at >= 35 => drive["scoop"] = "STOP")' /\ (at = 37  => drive["spin"] = "STOP")'
    BY <2>1, <2>4 DEF DiagInv, DiagMotors
  <2>7. (at >= 27 => drive["waste"] = "STOP" \/ overlooked)'
    BY <2>1, <2>4 DEF DiagInv, DiagMotors
  <2>8. (at <= 23 /\ drive["waste"] # "STOP" /\ where["waste"] = "close" => leaving)'
    <3> SUFFICES ASSUME at' <= 23, drive'["waste"] # "STOP", where'["waste"] = "close" PROVE leaving'
      OBVIOUS
    <3>1. m # "waste"  BY <2>4
    <3>2. drive["waste"] # "STOP" /\ where["waste"] = "close" /\ at <= 23
      BY <2>1, <2>4 DEF DiagMotors
    <3>3. leaving  BY <3>2 DEF DiagInv
    <3> QED  BY <2>2, <3>1, <3>3, Zenon
  <2> QED  BY <2>5, <2>6, <2>7, <2>8 DEF DiagInv
<1> QED  BY <1>4, <1>5, <1>6

\* Wherever the scoop and the waste cover were left, and whatever is pressed in whatever
\* test, the task leaves each motor it has done with at rest, and keeps count of the cover
\* that is on its way out (main/diag.c, diag_process_task).
THEOREM DiagInvariant == DiagSpec => []DiagInv
<1>1. ASSUME DiagInit PROVE DiagInv
  <2>1. Len(DiagProgram) = 37  BY ProgramShape
  <2>2. \A m \in DiagMotors : drive[m] = "STOP"  BY <1>1 DEF DiagInit
  <2>3. DiagTypeOK
    <3>1. nextStep \in BOOLEAN /\ nextFunc \in BOOLEAN /\ leaving \in BOOLEAN /\ overlooked \in BOOLEAN
      BY <1>1, Zenon DEF DiagInit
    <3>2. /\ at = 1 /\ func = 0 /\ drive = [m \in DiagMotors |-> "STOP"]
          /\ where \in [{"scoop", "waste"} -> {"close", "middle", "open"}]
      BY <1>1, Zenon DEF DiagInit
    <3> QED  BY <2>1, <3>1, <3>2 DEF DiagTypeOK
  <2>4. at = 1 /\ drive["waste"] = "STOP"  BY <1>1, <2>2 DEF DiagInit, DiagMotors
  <2> QED  BY <2>3, <2>4 DEF DiagInv
<1>2. ASSUME DiagInv, [DiagNext]_diagVars PROVE DiagInv'
  <2>1. CASE ProcessTask  BY <1>2, <2>1, DiagTask
  <2>2. CASE UNCHANGED diagVars
    BY <1>2, <2>2 DEF DiagInv, DiagTypeOK, diagVars, diagTask
  <2>3. CASE \/ \E step \in BOOLEAN : Press(step)
             \/ \E m \in {"scoop", "waste"} : Moves(m)
             \/ \E m \in DiagMotors \ {"plate"} : RunEnds(m)
    BY <1>2, <2>3, DiagOutside
  <2> QED  BY <1>2, <2>1, <2>2, <2>3 DEF DiagNext
<1> QED  BY <1>1, <1>2, PTL DEF DiagSpec

\* At the restart that ends the diagnostic mode no motor runs, but a waste cover that a
\* press sent out right before the last step, and that was still seen closed then
\* (main/diag.c, finish_diag_mode).
THEOREM DiagLeavesQuietCorrect == DiagSpec => []DiagLeavesQuiet
<1>1. ASSUME DiagInv PROVE DiagLeavesQuiet
  <2>1. at \in 1..37  BY <1>1, ProgramShape DEF DiagInv, DiagTypeOK
  <2>2. DiagProgram[at].op = "restart" => at = 37  BY <2>1, ProgramShape
  <2>3. at = 37 => \A m \in DiagMotors : drive[m] = "STOP" \/ (m = "waste" /\ overlooked)
    BY <1>1 DEF DiagInv, DiagMotors
  <2> QED  BY <2>2, <2>3 DEF DiagLeavesQuiet
<1> QED  BY <1>1, DiagInvariant, PTL
=============================================================================

------------------------------ MODULE AppConfig ------------------------------
(***************************************************************************)
(* The settings (app_config) and how they reach the flash: the deferred    *)
(* save of main/app_config_flash.c, the reset reason that main.c leaves    *)
(* for the next boot, and power cuts.  app_config_flash.h and main.h both  *)
(* declare app_config_t, with the fields in a different order: what one    *)
(* file stores under a name another may read under the next one.           *)
(***************************************************************************)
EXTENDS Integers, Sequences

CONSTANTS
  Callers,   \* who calls system_reset: "diag", "factory" (ui.c, console), "ota"
  NapTicks,  \* the period of flash_task
  SaveTicks, \* how long a save takes, at most, what preempts it included
  ResetTicks, \* how long system_reset waits
  BootTicks  \* how long check_boot_mode waits

ASSUME ConfigAssumption ==
  /\ Callers \subseteq {"diag", "factory", "ota"}
  /\ {NapTicks, SaveTicks, ResetTicks, BootTicks} \subseteq Nat \ {0}
  /\ ResetTicks > 2 * SaveTicks + 2 * NapTicks

VARIABLES
  ram,       \* app_config: its words
  flash,     \* the blob in NVS
  saveFlag,  \* app_save_flag
  saver,     \* where flash_task is
  image,     \* the words that nvs_set_blob has read
  nap,       \* ticks that flash_task still sleeps
  busy,      \* ticks that its save has taken
  booting,   \* ticks that check_boot_mode still waits
  resetter,  \* where each caller is in system_reset
  due,       \* ticks that it still waits
  seen,      \* what check_boot_mode has found in reset_reason
  reasons,   \* the reasons given before an orderly restart; {} after a power cut
  crowded    \* two tasks have been in system_reset at once

configTask == <<saver, image, nap, busy>>
configVars == <<ram, flash, saveFlag, configTask, booting, resetter, due, seen, reasons, crowded>>

-----------------------------------------------------------------------------
(* The two declarations of app_config_t; the fields that both have at the same place are left out *)

Thresholds == <<"m1_jam_current", "m2_jam_current", "m3_jam_current", "m4_jam_current", "m5_jam_current">>

\* app_config_flash.h
FlashLayout ==
  <<"MIN_VALID_WASTE_RAW", "CLUMPING_WAIT_MIN">> \o Thresholds
    \o <<"CAT_ENTRY_MIN_WEIGHT", "WASTE_TYPE_RATIO_TH", "EFFECTIVE_DWELL_TIME", "reset_reason">>

\* main.h
MainLayout ==
  <<"reset_reason", "MIN_VALID_WASTE_RAW", "CLUMPING_WAIT_MIN">> \o Thresholds
    \o <<"CAT_ENTRY_MIN_WEIGHT", "WASTE_TYPE_RATIO_TH", "EFFECTIVE_DWELL_TIME">>

Words == 1..Len(MainLayout)

\* The values that app_config's initializer and system_reset give
Default(field) ==
  CASE field = "MIN_VALID_WASTE_RAW" -> 50
    [] field = "CLUMPING_WAIT_MIN" -> 10
    [] field = "CAT_ENTRY_MIN_WEIGHT" -> 500
    [] field = "WASTE_TYPE_RATIO_TH" -> 20
    [] field = "EFFECTIVE_DWELL_TIME" -> 5
    [] field = "reset_reason" -> 0
    [] OTHER -> 495

Values == {Default(MainLayout[w]) : w \in Words} \cup 0..4

\* REASON_...: main.h's are 1 and 3; http_ota.c takes REASON_OTA from app_config_flash.h.
Reason(caller) == IF caller = "diag" THEN 1 ELSE 3
REASON_NORMAL  == 0
REASON_FACTORY_RESTORE == 3

Reset_reason(words) == words[1]

-----------------------------------------------------------------------------
ConfigTypeOK ==
  /\ {ram, flash} \subseteq [Words -> Values]
  /\ {saveFlag, crowded} \subseteq BOOLEAN
  /\ saver \in {"asleep", "copy", "commit"} /\ image \in Seq(Values) /\ Len(image) <= Len(MainLayout)
  /\ nap \in 0..NapTicks /\ busy \in 0..SaveTicks /\ booting \in 0..BootTicks
  /\ resetter \in [Callers -> {"away", "settings", "flag", "waiting"}] /\ due \in [Callers -> 0..ResetTicks]
  /\ seen \in Values /\ reasons \subseteq {Reason(c) : c \in Callers}

\* load_app_configuration and check_boot_mode, up to its wait; nobody else writes then.
BootFrom(blob) ==
  LET unusual == Reset_reason(blob) # REASON_NORMAL IN
  /\ seen' = Reset_reason(blob)
  /\ ram' = [blob EXCEPT ![1] = REASON_NORMAL]
  /\ saveFlag' = unusual /\ booting' = IF unusual THEN BootTicks ELSE 0
  /\ saver' = "asleep" /\ image' = <<>> /\ nap' = 0 /\ busy' = 0
  /\ resetter' = [c \in Callers |-> "away"] /\ due' = [c \in Callers |-> 0]
  /\ UNCHANGED <<flash, crowded>>

\* The first boot finds no blob: it writes app_config as initialised, and its first word is
\* no reset reason for the file that declares it.
ConfigInit ==
  /\ flash = [w \in Words |-> Default(FlashLayout[w])]
  /\ seen = Reset_reason(flash) /\ ram = [flash EXCEPT ![1] = REASON_NORMAL]
  /\ saveFlag = TRUE /\ booting = BootTicks
  /\ saver = "asleep" /\ image = <<>> /\ nap = 0 /\ busy = 0
  /\ resetter = [c \in Callers |-> "away"] /\ due = [c \in Callers |-> 0]
  /\ reasons = {} /\ crowded = FALSE

PowerCut == reasons' = {} /\ BootFrom(flash)

-----------------------------------------------------------------------------
(* flash_task *)

Wake ==
  /\ saver = "asleep" /\ nap = 0
  /\ saveFlag' = FALSE
  /\ IF saveFlag THEN saver' = "copy" /\ busy' = 0 /\ image' = <<>> /\ UNCHANGED nap
     ELSE nap' = NapTicks /\ UNCHANGED <<saver, busy, image>>
  /\ UNCHANGED <<ram, flash, booting, resetter, due, seen, reasons, crowded>>

\* nvs_set_blob reads the words one after the other; those that change together in this
\* model, all but the first, it reads together.
CopyWords ==
  /\ saver = "copy"
  /\ image' = IF image = <<>> THEN <<ram[1]>> ELSE image \o Tail(ram)
  /\ saver' = IF image = <<>> THEN "copy" ELSE "commit"
  /\ UNCHANGED <<ram, flash, saveFlag, nap, busy, booting, resetter, due, seen, reasons, crowded>>

\* Mutant: what is set during a save is forgotten.
CommitClears ==
  /\ saver = "commit"
  /\ flash' = image /\ saver' = "asleep" /\ nap' = NapTicks /\ busy' = 0 /\ image' = <<>>
  /\ saveFlag' = FALSE
  /\ UNCHANGED <<ram, booting, resetter, due, seen, reasons, crowded>>

Commit ==
  /\ saver = "commit"
  /\ flash' = image /\ saver' = "asleep" /\ nap' = NapTicks /\ busy' = 0 /\ image' = <<>>
  /\ UNCHANGED <<ram, saveFlag, booting, resetter, due, seen, reasons, crowded>>

-----------------------------------------------------------------------------
(* system_reset *)

GiveReason(c) ==
  /\ booting = 0 /\ resetter[c] = "away"
  /\ ram' = [ram EXCEPT ![1] = Reason(c)]
  /\ resetter' = [resetter EXCEPT ![c] = IF Reason(c) = REASON_FACTORY_RESTORE THEN "settings" ELSE "flag"]
  /\ crowded' = (crowded \/ \E d \in Callers : resetter[d] # "away")
  /\ UNCHANGED <<flash, saveFlag, configTask, booting, due, seen, reasons>>

RestoreSettings(c) ==
  /\ resetter[c] = "settings" /\ resetter' = [resetter EXCEPT ![c] = "flag"]
  /\ ram' = [w \in Words |-> IF w = 1 THEN ram[1] ELSE Default(MainLayout[w])]
  /\ UNCHANGED <<flash, saveFlag, configTask, booting, due, seen, reasons, crowded>>

\* Mutant: the restart does not wait for the save.
WaitTicksShort(c) == NapTicks

WaitTicks(c) == ResetTicks

AskForSave(c) ==
  /\ resetter[c] = "flag" /\ resetter' = [resetter EXCEPT ![c] = "waiting"]
  /\ saveFlag' = TRUE /\ due' = [due EXCEPT ![c] = WaitTicks(c)]
  /\ UNCHANGED <<ram, flash, configTask, booting, seen, reasons, crowded>>

\* esp_restart
Restart(c) ==
  /\ resetter[c] = "waiting" /\ due[c] = 0
  /\ reasons' = {Reason(d) : d \in {e \in Callers : resetter[e] # "away"}}
  /\ BootFrom(flash)

-----------------------------------------------------------------------------
Less(n) == IF n = 0 THEN 0 ELSE n - 1

\* A tick passes when nobody has to act in it: a save has its time, and who sleeps wakes.
Tick ==
  /\ \A c \in Callers : resetter[c] = "waiting" => due[c] > 0
  /\ IF saver = "asleep" THEN nap > 0 /\ nap' = nap - 1 /\ UNCHANGED busy
     ELSE busy < SaveTicks /\ busy' = busy + 1 /\ UNCHANGED nap
  /\ booting' = Less(booting) /\ due' = [c \in Callers |-> Less(due[c])]
  /\ UNCHANGED <<ram, flash, saveFlag, saver, image, resetter, seen, reasons, crowded>>

ResetNext == \E c \in Callers :
  GiveReason(c) \/ RestoreSettings(c) \/ AskForSave(c) \/ Restart(c)

ConfigNext == Wake \/ CopyWords \/ Commit \/ ResetNext \/ Tick \/ PowerCut

ConfigSpec == ConfigInit /\ [][ConfigNext]_configVars

-----------------------------------------------------------------------------
(* Properties *)

\* No change is forgotten: once the flag is down and the task sleeps, the flash has what
\* the RAM has, unless somebody is between a change and its flag.
NoChangeForgotten ==
  saver = "asleep" /\ ~saveFlag /\ (\A c \in Callers : resetter[c] \in {"away", "waiting"})
    => flash = ram

\* A boot finds a reason that a restart was asked for.  If that is "factory", it finds
\* main.h's factory settings as well, unless two tasks have been in system_reset at once:
\* the deferred save has put both into the flash before the restart, or neither, and a
\* power cut in between has not torn them apart.
RestartFindsItsReason ==
  /\ reasons # {} => seen \in reasons
  /\ seen = REASON_FACTORY_RESTORE /\ ~crowded =>
       \A w \in Words \ {1} : ram[w] = Default(MainLayout[w])
=============================================================================

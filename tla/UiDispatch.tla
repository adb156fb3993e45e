----------------------------- MODULE UiDispatch -----------------------------
(***************************************************************************)
(* Who may run a scenario: ui_task (main/ui.c) takes commands from a queue *)
(* and creates a task for each that may run; the key scanner               *)
(* (main/keyscan.c), the cat state machine (main/loadcell.c) and the boot  *)
(* post the commands; proximity_task declares the system ready and then    *)
(* runs the boot recovery itself.                                          *)
(*                                                                         *)
(* A scenario is here only what the others see of it: its run flag, the    *)
(* three flags of a cleaning, and whether a pause holds it.  What it does  *)
(* to the motors is module Scenario.                                       *)
(***************************************************************************)
EXTENDS Naturals, Sequences

CONSTANTS
  Tasks,       \* the tasks that may exist at once beside ui_task
  QueueLength, \* of ui_cmd_msg
  Prompt       \* a created task executes its first statement within 10 ms

ASSUME DispatchAssumption == QueueLength \in Nat \ {0} /\ Prompt \in BOOLEAN

Commands  == {"clean", "manageFinish", "tareZero", "manageStart", "pairing", "factory"}
Managing  == {"manageStart", "manageFinish"}
CleanFlags == {"running", "pause", "recov"}

VARIABLES
  cmds,        \* ui_cmd_msg
  ui,          \* where ui_task is: "receive", "mark" (before ui_manage_f = true), "delay"
  kind,        \* [Tasks -> the command it was created for], "none" when it does not exist
  at,          \* [Tasks -> where it is]
  runFlag,     \* [Commands -> BOOLEAN], clean_task_run and the five others
  ui_manage_f, \* management has begun and has not been finished
  flag,        \* clean_running_flag, clean_pause_flag, clean_resume_recovery_requested
  boot,        \* where proximity_task is: "waiting", "checking", "recovering", "done"
  ready,       \* g_is_system_ready
  key,         \* what the key scanner is about to do: post a command, toggle the pause
  cat,         \* g_cat_state
  catSaw,      \* g_prev_clean_running
  catPosts     \* the cat state machine is about to post UI_CLEAN_CMD

tasks == <<kind, at, runFlag, ui_manage_f>>
cats  == <<cat, catSaw, catPosts>>
vars  == <<cmds, ui, tasks, flag, boot, ready, key, cats>>

Places == {"starting", "flagged", "working", "brokenOff", "recovering", "ending"}

TypeOK ==
  /\ cmds \in Seq(Commands) /\ Len(cmds) <= QueueLength
  /\ ui \in {"receive", "mark", "delay"}
  /\ kind \in [Tasks -> Commands \cup {"none"}]
  /\ at \in [Tasks -> Places]
  /\ runFlag \in [Commands -> BOOLEAN]
  /\ ui_manage_f \in BOOLEAN
  /\ flag \in [CleanFlags -> BOOLEAN]
  /\ boot \in {"waiting", "checking", "recovering", "done"}
  /\ ready \in BOOLEAN
  /\ key \in Commands \cup {"idle", "toggle", "resuming"}
  /\ cat \in {"init", "idle", "occupied", "waitClean"}
  /\ catSaw \in BOOLEAN
  /\ catPosts \in BOOLEAN

\* The memory after a restart; the first command is there when the restart was that
\* of a factory reset.
Fresh(c, u, k, a, r, m, f, b, s, y, g, w, p) ==
  /\ c \in {<<>>, <<"pairing">>}
  /\ u = "receive"
  /\ k = [t \in Tasks |-> "none"]
  /\ a = [t \in Tasks |-> "starting"]
  /\ r = [n \in Commands |-> FALSE]
  /\ m = FALSE
  /\ f = [n \in CleanFlags |-> FALSE]
  /\ b = "waiting"
  /\ s = FALSE
  /\ y = "idle"
  /\ g = "init"
  /\ w = FALSE
  /\ p = FALSE

Init ==
  Fresh(cmds, ui, kind, at, runFlag, ui_manage_f, flag, boot, ready, key, cat, catSaw, catPosts)

-----------------------------------------------------------------------------
Alive(t)    == kind[t] # "none"
IsAt(t, p)  == Alive(t) /\ at[t] = p
Doing(t, c) == kind[t] = c /\ at[t] = "working"
FreeTask    == CHOOSE t \in Tasks : ~Alive(t)
Move(t, p)  == at' = [at EXCEPT ![t] = p]

\* Mutant: a full queue is not reckoned with.
PostedUnbounded(c) == Append(cmds, c)

\* send_ui_cmd_msg: a full queue drops the command, after 100 ms
Posted(c) == IF Len(cmds) < QueueLength THEN Append(cmds, c) ELSE cmds

\* A loop that waits for a motor goes on unless it is paused; a resume ends it.
NotHeld == ~flag["pause"] \/ flag["recov"]

AllClear == [n \in CleanFlags |-> FALSE]

-----------------------------------------------------------------------------
(* ui_task *)

\* Mutant: the flag of ui_manage_finish_task is forgotten.
check_run_flagForgetsFinish(manage) ==
  (\A c \in Commands \ {"manageFinish"} : ~runFlag[c]) /\ ui_manage_f = manage

check_run_flag(manage) == (\A c \in Commands : ~runFlag[c]) /\ ui_manage_f = manage

\* Mutant: a cleaning is let through whether the box is in management or not.
check_task_runnableAnyClean(c) ==
  IF c = "clean" THEN \A n \in Commands : ~runFlag[n] ELSE check_run_flag(c = "manageFinish")

check_task_runnable(c) == check_run_flag(c = "manageFinish")

\* One round of the loop up to its delay.  Nobody looks at what xTaskCreate returns.
Receive ==
  /\ ui = "receive" /\ cmds # <<>>
  /\ cmds' = Tail(cmds)
  /\ LET c == Head(cmds) IN
       IF check_task_runnable(c)
       THEN /\ \/ (\E t \in Tasks : ~Alive(t)) /\ kind' = [kind EXCEPT ![FreeTask] = c]
               \/ kind' = kind
            /\ ui' = IF c = "manageStart" THEN "mark" ELSE "delay"
       ELSE ui' = "delay" /\ kind' = kind
  /\ UNCHANGED <<at, runFlag, ui_manage_f, flag, boot, ready, key, cats>>

MarkManage ==
  /\ ui = "mark"
  /\ ui_manage_f' = TRUE
  /\ ui' = "delay"
  /\ UNCHANGED <<cmds, kind, at, runFlag, flag, boot, ready, key, cats>>

DelayEnds ==
  /\ ui = "delay"
  /\ Prompt => \A t \in Tasks : ~IsAt(t, "starting")
  /\ ui' = "receive"
  /\ UNCHANGED <<cmds, tasks, flag, boot, ready, key, cats>>

-----------------------------------------------------------------------------
(* The tasks that ui_task creates *)

Begin(t) ==
  /\ IsAt(t, "starting")
  /\ Move(t, "flagged")
  /\ runFlag' = [runFlag EXCEPT ![kind[t]] = TRUE]
  /\ UNCHANGED <<cmds, ui, kind, ui_manage_f, flag, boot, ready, key, cats>>

\* The work begins: do_clean resets the three flags
Enter(t) ==
  /\ IsAt(t, "flagged")
  /\ Move(t, "working")
  /\ flag' = IF kind[t] = "clean" THEN [AllClear EXCEPT !["running"] = TRUE] ELSE flag
  /\ UNCHANGED <<cmds, ui, kind, runFlag, ui_manage_f, boot, ready, key, cats>>

\* CHECK_TOF_PAUSE has seen an obstacle
Obstacle(t) ==
  /\ Doing(t, "clean") /\ NotHeld
  /\ flag' = [flag EXCEPT !["pause"] = TRUE]
  /\ UNCHANGED <<cmds, ui, tasks, boot, ready, key, cats>>

\* do_clean returns, its work done or broken off by an error
CleanEnds(t) ==
  /\ Doing(t, "clean") /\ NotHeld
  /\ flag' = AllClear
  /\ Move(t, "ending")
  /\ UNCHANGED <<cmds, ui, kind, runFlag, ui_manage_f, boot, ready, key, cats>>

\* estop_exit with a recovery requested
CleanBrokenOff(t) ==
  /\ Doing(t, "clean") /\ flag["recov"]
  /\ flag' = AllClear
  /\ Move(t, "brokenOff")
  /\ UNCHANGED <<cmds, ui, kind, runFlag, ui_manage_f, boot, ready, key, cats>>

\* do_clean_resume_recovery, called by do_clean
RecoveryBegins(t) ==
  /\ IsAt(t, "brokenOff")
  /\ flag' = [flag EXCEPT !["pause"] = FALSE]
  /\ Move(t, "recovering")
  /\ UNCHANGED <<cmds, ui, kind, runFlag, ui_manage_f, boot, ready, key, cats>>

RecoveryEnds(t) ==
  /\ IsAt(t, "recovering") /\ NotHeld
  /\ flag' = AllClear
  /\ Move(t, "ending")
  /\ UNCHANGED <<cmds, ui, kind, runFlag, ui_manage_f, boot, ready, key, cats>>

\* do_manage_start and do_manage_finish wait for motors as do_clean does
ManageEnds(t) ==
  /\ IsAt(t, "working") /\ kind[t] \in Managing /\ NotHeld
  /\ ui_manage_f' = (kind[t] = "manageStart" /\ ui_manage_f)
  /\ Move(t, "ending")
  /\ UNCHANGED <<cmds, ui, kind, runFlag, flag, boot, ready, key, cats>>

ShortTaskEnds(t) ==
  /\ IsAt(t, "working") /\ kind[t] \in {"tareZero", "pairing"}
  /\ Move(t, "ending")
  /\ UNCHANGED <<cmds, ui, kind, runFlag, ui_manage_f, flag, boot, ready, key, cats>>

\* ui_factory_task ends in system_reset
Restart(t) ==
  /\ Doing(t, "factory")
  /\ Fresh(cmds', ui', kind', at', runFlag', ui_manage_f', flag', boot', ready', key', cat',
           catSaw', catPosts')

\* Mutant: the task deletes itself and leaves its run flag set.
DeleteKeepsFlag(t) ==
  /\ IsAt(t, "ending")
  /\ kind' = [kind EXCEPT ![t] = "none"]
  /\ Move(t, "starting")
  /\ UNCHANGED <<cmds, ui, runFlag, ui_manage_f, flag, boot, ready, key, cats>>

Delete(t) ==
  /\ IsAt(t, "ending")
  /\ kind' = [kind EXCEPT ![t] = "none"]
  /\ Move(t, "starting")
  /\ runFlag' = [runFlag EXCEPT ![kind[t]] = FALSE]
  /\ UNCHANGED <<cmds, ui, ui_manage_f, flag, boot, ready, key, cats>>

-----------------------------------------------------------------------------
(* proximity_task, which without weights from the load cells sees no cat *)

check_operating == ui_manage_f \/ \E c \in Commands : runFlag[c]

BecomeReady ==
  /\ boot = "waiting" /\ ~check_operating
  /\ ready' = TRUE
  /\ boot' = "checking"
  /\ UNCHANGED <<cmds, ui, tasks, flag, key, cats>>

\* check_boot_origin_recovery; the parts may be in their origin or not
BootCheck ==
  /\ boot = "checking"
  /\ \/ boot' = "done" /\ flag' = flag
     \/ boot' = "recovering" /\ flag' = [flag EXCEPT !["pause"] = FALSE]
  /\ UNCHANGED <<cmds, ui, tasks, ready, key, cats>>

BootRecoveryEnds ==
  /\ boot = "recovering" /\ NotHeld
  /\ flag' = AllClear
  /\ boot' = "done"
  /\ UNCHANGED <<cmds, ui, tasks, ready, key, cats>>

-----------------------------------------------------------------------------
(* The key scanner *)

\* A short or long press of a key, or of two.  The clean key pauses and resumes a
\* cleaning that runs; what it saw may no longer hold when it acts on it.
Press(c) ==
  /\ ready /\ key = "idle"
  /\ key' = IF c = "clean" /\ flag["running"] THEN "toggle" ELSE c
  /\ UNCHANGED <<cmds, ui, tasks, flag, boot, ready, cats>>

PostKey ==
  /\ key \in Commands
  /\ cmds' = Posted(key)
  /\ key' = "idle"
  /\ UNCHANGED <<ui, tasks, flag, boot, ready, cats>>

\* toggle_clean_pause: the flag, and for a resume the request in a second step
Toggle ==
  /\ key = "toggle"
  /\ flag' = [flag EXCEPT !["pause"] = ~@]
  /\ key' = IF flag["pause"] THEN "resuming" ELSE "idle"
  /\ UNCHANGED <<cmds, ui, tasks, boot, ready, cats>>

RequestRecovery ==
  /\ key = "resuming"
  /\ flag' = [flag EXCEPT !["recov"] = TRUE]
  /\ key' = "idle"
  /\ UNCHANGED <<cmds, ui, tasks, boot, ready, cats>>

-----------------------------------------------------------------------------
(* process_cat_detection_fsm: the weights are whatever they are *)

\* The first sample after a change of clean_running_flag; after a cleaning the baseline
\* is taken anew.
CatLooks ==
  /\ ~catPosts /\ catSaw # flag["running"]
  /\ catSaw' = flag["running"]
  /\ cat' = IF flag["running"] THEN cat ELSE "init"
  /\ UNCHANGED <<cmds, ui, tasks, flag, boot, ready, key, catPosts>>

CatStep(from, to) ==
  /\ ~catPosts /\ ~catSaw /\ \A n \in CleanFlags : ~flag[n]
  /\ cat = from /\ cat' = to
  /\ UNCHANGED <<cmds, ui, tasks, flag, boot, ready, key, catSaw>>

Cat ==
  /\ \/ CatStep("init", "idle")           \* thirty samples
     \/ CatStep("idle", "init")           \* 1 kg less than the baseline
     \/ CatStep("idle", "occupied")       \* 1 kg more than it
     \/ CatStep("occupied", "waitClean")  \* within 300 g of it
     \/ CatStep("waitClean", "occupied")  \* 1 kg more than it again
  /\ catPosts' = catPosts

\* Three minutes have passed, many times what proximity_task needs to become ready
CatGone == ready /\ CatStep("waitClean", "idle") /\ catPosts' = TRUE

CatPost ==
  /\ catPosts
  /\ cmds' = Posted("clean")
  /\ catPosts' = FALSE
  /\ UNCHANGED <<ui, tasks, flag, boot, ready, key, cat, catSaw>>

-----------------------------------------------------------------------------
UiStep == Receive \/ MarkManage \/ DelayEnds

\* Everything a task does but for the obstacle, which need not come
TaskStep(t) ==
  \/ Begin(t) \/ Enter(t) \/ CleanEnds(t) \/ CleanBrokenOff(t) \/ RecoveryBegins(t)
  \/ RecoveryEnds(t) \/ ManageEnds(t) \/ ShortTaskEnds(t) \/ Restart(t) \/ Delete(t)

BootStep == BecomeReady \/ BootCheck \/ BootRecoveryEnds
KeyStep  == PostKey \/ Toggle \/ RequestRecovery

Next ==
  \/ UiStep
  \/ \E t \in Tasks : TaskStep(t) \/ Obstacle(t)
  \/ BootStep
  \/ KeyStep \/ \E c \in Commands : Press(c)
  \/ CatLooks \/ Cat \/ CatGone \/ CatPost

(***************************************************************************)
(* Every task is scheduled and a scenario that nothing holds ends, which   *)
(* is ScenarioEnds of module Scenario.  Nobody has to press a key and no   *)
(* cat has to come.                                                        *)
(***************************************************************************)
Fairness ==
  /\ WF_vars(UiStep) /\ WF_vars(BootStep) /\ WF_vars(KeyStep) /\ WF_vars(CatPost)
  /\ \A t \in Tasks : WF_vars(TaskStep(t))

Spec     == Init /\ [][Next]_vars
FairSpec == Spec /\ Fairness

-----------------------------------------------------------------------------
(* Properties *)

(***************************************************************************)
(* OneUiTask and NothingElseInManagement rest on Prompt: ui_task sleeps    *)
(* 10 ms after each command, and the task it has created, of the same      *)
(* priority, sets its run flag in that time.                               *)
(***************************************************************************)

\* ui_task never has two of its tasks at work at once, although the run flag that
\* excludes the second is set by the first one itself, after its creation.
OneUiTask == \A t, u \in Tasks : Alive(t) /\ Alive(u) => t = u

\* While the box stands open for management no cleaning, taring, pairing or factory
\* reset goes on, though start and finish set and clear ui_manage_f in two tasks.
NothingElseInManagement ==
  ui_manage_f => \A t \in Tasks : Alive(t) => kind[t] \in Managing

\* The box never refuses a cleaning for good: no run flag is left behind, through
\* refused, doubled and dropped commands; management and a pause wait for a key.
CleanableAgain == []<>(check_task_runnable("clean") \/ ui_manage_f \/ flag["pause"])

\* A press of the clean key during a pause resumes (motor.c:109): a scenario that the
\* pause holds is one that the key scanner takes for a cleaning that runs.
PressEndsPause ==
  flag["pause"] /\ (\E t \in Tasks : IsAt(t, "recovering") \/ Doing(t, "clean")) =>
    flag["running"]

-----------------------------------------------------------------------------
(* The inductive invariant of the dispatcher *)

\* Before the next command is taken, a created task has set its run flag.
StartersSeen == ui = "receive" => \A t \in Tasks : ~IsAt(t, "starting")

\* A task past its first statement is known by its run flag.
FlagOfTask == \A t \in Tasks : Alive(t) /\ at[t] # "starting" => runFlag[kind[t]]

\* Between its creation and ui_manage_f = true only the opening itself can be at work.
MarkForStart == ui = "mark" => \A t \in Tasks : Alive(t) => kind[t] = "manageStart"

\* A task that does not exist has not begun.
NotBegun == \A t \in Tasks : ~Alive(t) => at[t] = "starting"

\* What ui_task relies on when it lets a command through, at every moment.
DispatchInv ==
  /\ TypeOK /\ OneUiTask /\ NothingElseInManagement
  /\ StartersSeen /\ FlagOfTask /\ MarkForStart /\ NotBegun
=============================================================================

-------------------------- MODULE UiDispatchProofs --------------------------
(* The dispatcher excludes what it means to exclude, for any number of tasks and *)
(* any queue: DispatchInv of module UiDispatch is inductive.                     *)
EXTENDS UiDispatch, TLAPS

\* No task exists when every run flag is down and no created task is still to begin:
\* what check_run_flag, which sees the flags only, may conclude from them.
LEMMA NobodyAlive ==
  ASSUME StartersSeen, FlagOfTask, TypeOK, ui = "receive", NEW m \in BOOLEAN, check_run_flag(m)
  PROVE  \A t \in Tasks : ~Alive(t)
<1>1. SUFFICES ASSUME NEW t \in Tasks, Alive(t) PROVE FALSE
  OBVIOUS
<1>2. kind[t] \in Commands
  BY <1>1 DEF TypeOK, Alive
<1>3. runFlag[kind[t]]
  BY <1>1 DEF StartersSeen, FlagOfTask, IsAt
<1>4. QED
  BY <1>2, <1>3 DEF check_run_flag

\* A command that waits is a command, and what is left of the queue is a queue.
LEMMA QueueTypes ==
  ASSUME TypeOK
  PROVE  /\ cmds # <<>> => /\ Head(cmds) \in Commands
                           /\ Tail(cmds) \in Seq(Commands) /\ Len(Tail(cmds)) <= QueueLength
         /\ \A c \in Commands : Posted(c) \in Seq(Commands) /\ Len(Posted(c)) <= QueueLength
<1>1. cmds \in Seq(Commands) /\ Len(cmds) <= QueueLength /\ QueueLength \in Nat \ {0}
  BY DispatchAssumption DEF TypeOK
<1>2. ASSUME cmds # <<>>
      PROVE  /\ Head(cmds) \in Commands
             /\ Tail(cmds) \in Seq(Commands) /\ Len(Tail(cmds)) <= QueueLength
  BY <1>1, <1>2
<1>3. ASSUME NEW c \in Commands
      PROVE  Posted(c) \in Seq(Commands) /\ Len(Posted(c)) <= QueueLength
  BY <1>1 DEF Posted
<1>4. QED
  BY <1>2, <1>3

\* The invariant holds after a start and after a restart.
LEMMA FreshGood ==
  ASSUME NEW c, NEW u, NEW k, NEW a, NEW r, NEW m, NEW f, NEW b, NEW s, NEW y, NEW g, NEW w,
         NEW p, Fresh(c, u, k, a, r, m, f, b, s, y, g, w, p)
  PROVE  /\ c \in Seq(Commands) /\ Len(c) <= QueueLength
         /\ u = "receive"
         /\ k \in [Tasks -> Commands \cup {"none"}] /\ \A t \in Tasks : k[t] = "none"
         /\ a \in [Tasks -> Places] /\ \A t \in Tasks : a[t] = "starting"
         /\ r \in [Commands -> BOOLEAN]
         /\ f \in [CleanFlags -> BOOLEAN]
<1>1. "pairing" \in Commands /\ QueueLength \in Nat \ {0}
  BY DispatchAssumption DEF Commands
<1>2. c \in Seq(Commands) /\ Len(c) <= QueueLength
  <2>1. CASE c = <<>>
    BY <1>1, <2>1
  <2>2. CASE c = <<"pairing">>
    BY <1>1, <2>2
  <2>3. QED
    BY <2>1, <2>2 DEF Fresh
<1>3. QED
  BY <1>2 DEF Fresh, Places

\* Before the first command nothing runs.
LEMMA InitGood == Init => DispatchInv
<1>1. SUFFICES ASSUME Init PROVE DispatchInv
  OBVIOUS
<1>2. Fresh(cmds, ui, kind, at, runFlag, ui_manage_f, flag, boot, ready, key, cat, catSaw,
            catPosts)
  BY <1>1 DEF Init
<1>3. \A t \in Tasks : ~Alive(t)
  BY <1>2, FreshGood DEF Alive
<1>4. TypeOK
  BY <1>2, FreshGood DEF TypeOK, Fresh
<1>5. NotBegun
  BY <1>2, FreshGood DEF NotBegun
<1>6. QED
  BY <1>3, <1>4, <1>5 DEF DispatchInv, OneUiTask, NothingElseInManagement, StartersSeen,
                          FlagOfTask, MarkForStart, IsAt

-----------------------------------------------------------------------------
(* One lemma per group of actions. *)

\* A command lets a task through only when no other is alive.
LEMMA ReceiveGood == DispatchInv /\ Receive => DispatchInv'
<1>1. SUFFICES ASSUME DispatchInv, Receive PROVE DispatchInv'
  OBVIOUS
<1>. DEFINE c == Head(cmds)
<1>2. /\ c \in Commands
      /\ Tail(cmds) \in Seq(Commands) /\ Len(Tail(cmds)) <= QueueLength
  BY <1>1, QueueTypes DEF Receive, DispatchInv
<1>3. TypeOK'
  <2>1. kind' \in [Tasks -> Commands \cup {"none"}]
    BY <1>1, <1>2 DEF Receive, DispatchInv, TypeOK
  <2>2. ui' \in {"receive", "mark", "delay"}
    BY <1>1 DEF Receive
  <2>3. QED
    BY <1>1, <1>2, <2>1, <2>2 DEF Receive, DispatchInv, TypeOK, cats
<1>4. CASE kind' = kind
  <2>1. ui' # "receive" /\ (ui' = "mark" => \A t \in Tasks : ~Alive(t))
    <3>1. CASE check_task_runnable(c)
      BY <1>1, <3>1, NobodyAlive DEF Receive, DispatchInv, check_task_runnable
    <3>2. CASE ~check_task_runnable(c)
      BY <1>1, <3>2 DEF Receive
    <3>3. QED
      BY <3>1, <3>2
  <2>2. QED
    BY <1>1, <1>3, <1>4, <2>1 DEF Receive, DispatchInv, OneUiTask, NothingElseInManagement,
       StartersSeen, FlagOfTask, MarkForStart, NotBegun, Alive
<1>5. CASE kind' # kind
  <2>1. /\ check_task_runnable(c)
        /\ ui' = IF c = "manageStart" THEN "mark" ELSE "delay"
    BY <1>1, <1>5 DEF Receive
  <2>2. PICK n \in Tasks : kind' = [kind EXCEPT ![n] = c]
    <3>1. FreeTask \in Tasks
      BY <1>1, <1>5 DEF Receive, FreeTask
    <3>2. QED
      BY <1>1, <1>5, <3>1 DEF Receive
  <2>3. \A t \in Tasks : ~Alive(t)
    BY <1>1, <2>1, NobodyAlive DEF Receive, DispatchInv, check_task_runnable
  <2>4. \A t \in Tasks : Alive(t)' => t = n /\ kind'[t] = c
    BY <1>1, <2>2, <2>3 DEF DispatchInv, TypeOK, Alive
  <2>5. at' = at /\ at[n] = "starting"
    BY <1>1, <2>3 DEF Receive, DispatchInv, NotBegun
  <2>6. OneUiTask' /\ FlagOfTask'
    BY <2>4, <2>5 DEF OneUiTask, FlagOfTask
  <2>7. NothingElseInManagement'
    <3>1. ui_manage_f' = ui_manage_f /\ (ui_manage_f => c = "manageFinish")
      BY <1>1, <2>1 DEF Receive, check_task_runnable, check_run_flag
    <3>2. QED
      BY <2>4, <3>1 DEF NothingElseInManagement, Managing
  <2>8. StartersSeen' /\ MarkForStart'
    BY <2>1, <2>4 DEF StartersSeen, MarkForStart
  <2>9. NotBegun'
    BY <1>1, <2>2, <2>5 DEF DispatchInv, NotBegun, TypeOK, Alive
  <2>10. QED
    BY <1>3, <2>6, <2>7, <2>8, <2>9 DEF DispatchInv
<1>6. QED
  BY <1>4, <1>5

\* ui_task sets the management flag only when nothing else is at work.
LEMMA MarkGood == DispatchInv /\ MarkManage => DispatchInv'
<1>1. SUFFICES ASSUME DispatchInv, MarkManage PROVE DispatchInv'
  OBVIOUS
<1>2. TypeOK'
  BY <1>1 DEF DispatchInv, MarkManage, TypeOK, cats
<1>3. NothingElseInManagement'
  BY <1>1 DEF DispatchInv, MarkManage, MarkForStart, NothingElseInManagement, Managing, Alive
<1>4. QED
  BY <1>1, <1>2, <1>3 DEF DispatchInv, MarkManage, OneUiTask, StartersSeen, FlagOfTask,
                          MarkForStart, NotBegun, Alive, IsAt

\* After the delay of ui_task the task that it has created has set its flag, if tasks are prompt.
LEMMA DelayGood == Prompt /\ DispatchInv /\ DelayEnds => DispatchInv'
<1>1. SUFFICES ASSUME Prompt, DispatchInv, DelayEnds PROVE DispatchInv'
  OBVIOUS
<1>2. TypeOK'
  BY <1>1 DEF DispatchInv, DelayEnds, tasks, cats, TypeOK
<1>3. StartersSeen'
  BY <1>1 DEF DelayEnds, tasks, cats, StartersSeen, IsAt, Alive
<1>4. QED
  BY <1>1, <1>2, <1>3 DEF DispatchInv, DelayEnds, tasks, cats, OneUiTask, NothingElseInManagement,
                          FlagOfTask, MarkForStart, NotBegun, Alive

\* A created task raises its flag.
LEMMA BeginGood == ASSUME NEW t \in Tasks PROVE DispatchInv /\ Begin(t) => DispatchInv'
<1>1. SUFFICES ASSUME DispatchInv, Begin(t) PROVE DispatchInv'
  OBVIOUS
<1>2. kind[t] \in Commands
  BY <1>1 DEF DispatchInv, Begin, IsAt, Alive, TypeOK
<1>3. TypeOK'
  BY <1>1, <1>2 DEF DispatchInv, Begin, Move, TypeOK, Places, cats
<1>4. FlagOfTask' /\ StartersSeen' /\ NotBegun'
  <2>1. FlagOfTask'
    BY <1>1, <1>2 DEF DispatchInv, Begin, Move, TypeOK, FlagOfTask, IsAt, Alive
  <2>2. StartersSeen'
    BY <1>1 DEF DispatchInv, Begin, Move, TypeOK, StartersSeen, IsAt, Alive
  <2>3. NotBegun'
    BY <1>1 DEF DispatchInv, Begin, Move, TypeOK, NotBegun, IsAt, Alive
  <2>4. QED
    BY <2>1, <2>2, <2>3
<1>5. QED
  BY <1>1, <1>3, <1>4 DEF DispatchInv, Begin, OneUiTask, NothingElseInManagement, MarkForStart,
                          Alive

\* The steps of a task between its first statement and its last.
Working(t) ==
  \/ Enter(t) \/ Obstacle(t) \/ CleanEnds(t) \/ CleanBrokenOff(t) \/ RecoveryBegins(t)
  \/ RecoveryEnds(t) \/ ManageEnds(t) \/ ShortTaskEnds(t)

\* A task at work clears its flag only where it ends.
LEMMA WorkingGood == ASSUME NEW t \in Tasks PROVE DispatchInv /\ Working(t) => DispatchInv'
<1>1. SUFFICES ASSUME DispatchInv, Working(t) PROVE DispatchInv'
  OBVIOUS
<1>2. /\ Alive(t) /\ at[t] # "starting"
      /\ \E p \in Places \ {"starting"} : at' = [at EXCEPT ![t] = p]
  <2>1. at = [at EXCEPT ![t] = at[t]] /\ at[t] \in Places
    BY <1>1 DEF DispatchInv, TypeOK
  <2>2. CASE Obstacle(t)
    BY <2>1, <2>2 DEF Obstacle, Doing, tasks, cats, Alive, Places
  <2>3. CASE ~Obstacle(t)
    BY <1>1, <2>3 DEF Working, Enter, CleanEnds, CleanBrokenOff, RecoveryBegins, RecoveryEnds,
       ManageEnds, ShortTaskEnds, Doing, IsAt, Alive, Move, Places
  <2>4. QED
    BY <2>2, <2>3
<1>3. /\ UNCHANGED <<cmds, ui, kind, runFlag, boot, ready, key, cat, catSaw, catPosts>>
      /\ ui_manage_f' \in BOOLEAN /\ (ui_manage_f' => ui_manage_f)
      /\ flag' \in [CleanFlags -> BOOLEAN]
  <2>1. UNCHANGED <<cmds, ui, kind, runFlag, boot, ready, key, cat, catSaw, catPosts>>
    BY <1>1 DEF Working, Enter, Obstacle, CleanEnds, CleanBrokenOff, RecoveryBegins,
       RecoveryEnds, ManageEnds, ShortTaskEnds, tasks, cats
  <2>2. ui_manage_f' \in BOOLEAN /\ (ui_manage_f' => ui_manage_f)
    <3>1. CASE ManageEnds(t)
      BY <1>1, <3>1, Zenon DEF DispatchInv, TypeOK, ManageEnds
    <3>2. CASE ~ManageEnds(t)
      <4>1. ui_manage_f' = ui_manage_f
        BY <1>1, <3>2 DEF Working, Enter, Obstacle, CleanEnds, CleanBrokenOff, RecoveryBegins,
           RecoveryEnds, ShortTaskEnds, tasks, cats
      <4>2. QED
        BY <1>1, <4>1 DEF DispatchInv, TypeOK
    <3>3. QED
      BY <3>1, <3>2
  <2>3. flag' \in [CleanFlags -> BOOLEAN]
    BY <1>1 DEF DispatchInv, TypeOK, Working, Enter, Obstacle, CleanEnds, CleanBrokenOff,
       RecoveryBegins, RecoveryEnds, ManageEnds, ShortTaskEnds, AllClear, CleanFlags, tasks, cats
  <2>4. QED
    BY <2>1, <2>2, <2>3
<1>4. TypeOK'
  BY <1>1, <1>2, <1>3 DEF DispatchInv, TypeOK
<1>5. FlagOfTask' /\ StartersSeen' /\ NotBegun'
  BY <1>1, <1>2, <1>3 DEF DispatchInv, TypeOK, FlagOfTask, StartersSeen, NotBegun, Alive, IsAt
<1>6. QED
  BY <1>1, <1>3, <1>4, <1>5 DEF DispatchInv, OneUiTask, NothingElseInManagement, MarkForStart,
                                Alive

\* The last task takes its flag down, which is nobody else's: there is nobody else.
LEMMA DeleteGood == ASSUME NEW t \in Tasks PROVE DispatchInv /\ Delete(t) => DispatchInv'
<1>1. SUFFICES ASSUME DispatchInv, Delete(t) PROVE DispatchInv'
  OBVIOUS
<1>2. TypeOK'
  BY <1>1 DEF DispatchInv, Delete, Move, TypeOK, Places, IsAt, Alive, cats
<1>3. \A u \in Tasks : ~Alive(u)'
  BY <1>1 DEF DispatchInv, Delete, OneUiTask, TypeOK, IsAt, Alive
<1>4. NotBegun'
  BY <1>1 DEF DispatchInv, Delete, Move, OneUiTask, NotBegun, TypeOK, IsAt, Alive
<1>5. QED
  BY <1>2, <1>3, <1>4 DEF DispatchInv, OneUiTask, NothingElseInManagement, StartersSeen,
                          FlagOfTask, MarkForStart, IsAt

\* A restart leaves nothing at work.
LEMMA RestartGood == ASSUME NEW t \in Tasks PROVE Restart(t) => DispatchInv'
<1>1. SUFFICES ASSUME Restart(t) PROVE DispatchInv'
  OBVIOUS
<1>2. Fresh(cmds', ui', kind', at', runFlag', ui_manage_f', flag', boot', ready', key', cat',
            catSaw', catPosts')
  BY <1>1 DEF Restart
<1>3. \A u \in Tasks : ~Alive(u)'
  BY <1>2, FreshGood DEF Alive
<1>4. TypeOK'
  BY <1>2, FreshGood DEF TypeOK, Fresh
<1>5. NotBegun'
  BY <1>2, FreshGood DEF NotBegun
<1>6. QED
  BY <1>3, <1>4, <1>5 DEF DispatchInv, OneUiTask, NothingElseInManagement, StartersSeen,
                          FlagOfTask, MarkForStart, IsAt

\* Whoever posts commands, toggles the pause or recovers touches no task.
Outside ==
  BootStep \/ KeyStep \/ (\E c \in Commands : Press(c)) \/ CatLooks \/ Cat \/ CatGone \/ CatPost

\* The keys, the boot check and the proximity task only post commands.
LEMMA OutsideGood == DispatchInv /\ Outside => DispatchInv'
<1>1. SUFFICES ASSUME DispatchInv, Outside PROVE DispatchInv'
  OBVIOUS
<1>. USE DEF Outside, BootStep, BecomeReady, BootCheck, BootRecoveryEnds, KeyStep, PostKey,
         Toggle, RequestRecovery, Press, CatLooks, Cat, CatStep, CatGone, CatPost, cats
<1>2. UNCHANGED <<ui, kind, at, runFlag, ui_manage_f>>
  BY <1>1 DEF tasks
<1>3. cmds' \in Seq(Commands) /\ Len(cmds') <= QueueLength
  <2>1. cmds' = cmds \/ \E c \in Commands : cmds' = Posted(c)
    BY <1>1 DEF Commands
  <2>2. QED
    BY <1>1, <2>1, QueueTypes DEF DispatchInv, TypeOK
<1>4. flag' \in [CleanFlags -> BOOLEAN]
  BY <1>1 DEF DispatchInv, TypeOK, AllClear, CleanFlags
<1>5. boot' \in {"waiting", "checking", "recovering", "done"} /\ ready' \in BOOLEAN
  BY <1>1 DEF DispatchInv, TypeOK
<1>6. key' \in Commands \cup {"idle", "toggle", "resuming"}
  BY <1>1 DEF DispatchInv, TypeOK
<1>7. cat' \in {"init", "idle", "occupied", "waitClean"}
  BY <1>1 DEF DispatchInv, TypeOK
<1>8. catSaw' \in BOOLEAN /\ catPosts' \in BOOLEAN
  <2>1. catSaw' = catSaw \/ catSaw' = flag["running"]
    BY <1>1
  <2>2. catPosts' = catPosts \/ catPosts' = TRUE \/ catPosts' = FALSE
    BY <1>1
  <2>3. catSaw \in BOOLEAN /\ flag["running"] \in BOOLEAN /\ catPosts \in BOOLEAN
    BY <1>1 DEF DispatchInv, TypeOK, CleanFlags
  <2>4. QED
    BY <2>1, <2>2, <2>3
<1>9. TypeOK'
  BY <1>1, <1>2, <1>3, <1>4, <1>5, <1>6, <1>7, <1>8 DEF DispatchInv, TypeOK
<1>10. QED
  BY <1>1, <1>2, <1>9 DEF DispatchInv, OneUiTask, NothingElseInManagement, StartersSeen,
                          FlagOfTask, MarkForStart, NotBegun, Alive, IsAt

-----------------------------------------------------------------------------
\* If a created task is always prompt, the dispatcher's invariant holds for ever,
\* whatever is pressed, posted, dropped, refused or restarted (ui.c).
THEOREM DispatchInvariant == ASSUME Prompt PROVE Spec => []DispatchInv
<1>1. Init => DispatchInv
  BY InitGood
<1>2. DispatchInv /\ [Next]_vars => DispatchInv'
  <2>1. SUFFICES ASSUME DispatchInv, [Next]_vars PROVE DispatchInv'
    OBVIOUS
  <2>2. CASE UiStep
    BY <2>1, <2>2, ReceiveGood, MarkGood, DelayGood DEF UiStep
  <2>3. ASSUME NEW t \in Tasks, TaskStep(t) \/ Obstacle(t) PROVE DispatchInv'
    BY <2>1, <2>3, BeginGood, WorkingGood, DeleteGood, RestartGood DEF TaskStep, Working
  <2>4. CASE Outside
    BY <2>1, <2>4, OutsideGood
  <2>5. CASE UNCHANGED vars
    BY <2>1, <2>5 DEF vars, tasks, cats, DispatchInv, TypeOK, OneUiTask, NothingElseInManagement,
       StartersSeen, FlagOfTask, MarkForStart, NotBegun, Alive, IsAt
  <2>6. QED
    BY <2>1, <2>2, <2>3, <2>4, <2>5 DEF Next, Outside
<1>3. QED
  BY <1>1, <1>2, PTL DEF Spec

\* No two tasks of ui_task are ever at work at once.
THEOREM OneUiTaskCorrect == ASSUME Prompt PROVE Spec => []OneUiTask
<1>1. DispatchInv => OneUiTask
  BY DEF DispatchInv
<1>2. QED
  BY <1>1, DispatchInvariant, PTL

\* Nothing but management happens while the box stands open for it.
THEOREM ManagementCorrect == ASSUME Prompt PROVE Spec => []NothingElseInManagement
<1>1. DispatchInv => NothingElseInManagement
  BY DEF DispatchInv
<1>2. QED
  BY <1>1, DispatchInvariant, PTL

\* The command queue never grows past its length, and every task of ui_task is in one of its
\* places, with the marks that its starter has left (ui.c).
THEOREM DispatchTypeCorrect == ASSUME Prompt PROVE Spec => []TypeOK
<1>1. DispatchInv => TypeOK
  BY DEF DispatchInv
<1>2. QED
  BY <1>1, DispatchInvariant, PTL
=============================================================================

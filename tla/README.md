# Verification of the cat litter box firmware

The firmware runs on an ESP32-S3 under FreeRTOS. It drives five motors that sift a
litter box, reads photo sensors, a time-of-flight (TOF) sensor and load cells over a
UART, and takes orders from keys, a console, BLE and MQTT. The tasks share `volatile`
flags and message queues, and almost no locks. These modules model what moves (the motor
tasks, the scenarios of `motor.c`, the tasks that interrupt them), what decides that it
moves (keys, dispatcher, cat state machine), and what the box does beside it: sensors,
settings, BLE, Wi-Fi, the cloud connection with MQTT and PKCS #11 under it, light and
diagnostics.

## 1. Inventory

Paths are relative to `src/main/` unless they begin with `components/`.

| Component | State | Operations | Talks to | Hard behaviour | Correct when | Module |
|---|---|---|---|---|---|---|
| Motor scenarios (`motor.c`) | `emergency_stop_flag`, `clean_running_flag`, `clean_pause_flag`, `clean_resume_recovery_requested`, `spin_mt_always_on`; the position in a scenario | `do_clean`, `do_clean_resume_recovery`, `motor_calibration(_recovery)`, `do_manage_start/finish`, `toggle_clean_pause`, `set/clear_emergency_stop` | posts to the motor queues; polls run flags and photo sensors | a stop, pause or resume between any two statements; a dozen error exits | nothing is left running or energised, cover and scoop keep their order, every scenario ends, a stop really stops | `MotorScript`, `Scenario`, `MotionBudget`, `Interlock` |
| DC motor tasks (`dc_motor_control.c`) | three queues of 10, run and direction flags | `send_*_msg`, `plate_cmd_task`, `scpinout_cmd_task`, `main_cmd_task` | photo sensors stop a motion | a full queue drops a message silently; STOP posted against FORWARD | a motor does what the last message says, or has been stopped by its sensor | `MotorChannel` |
| Stepper tasks (`step_motor_control.c`) | two queues of 10, step counters, run flags, pulse timers, driver enable | `waste_motor_cmd_task`, `scpspin_motor_cmd_task`, timer callback, MCPWM interrupt | as above; reads `spin_mt_always_on` from an interrupt | the pulse counter on core 0 races with the command task on core 1, without a lock | flag, timer and driver tell the same story; a motion ends; it looks atomic from outside | `StepMotor` |
| Keys (`keyscan.c`) | per-key press state and thresholds | `key_polling_task` | UI queue, `toggle_clean_pause`, diagnostics | three thresholds, two-key commands, presses before the box is ready; looks at `clean_running_flag`, then toggles | one command per press; the order reaches the scenario that was running | `KeyScan`, `Scenario`, `UiDispatch` |
| Console, boot, reset (`main.c`) | UART ring buffer, parser, boot mode | `uart_process`, `uart_parser`, `Process_Command`, `check_boot_origin_recovery`, `check_boot_mode`, `system_reset` | creates scenario tasks; sets and clears the stop | full ring in the middle of a line; every command but Z clears the emergency stop | a line runs as it was sent; boot brings the parts home | `ConsoleLine`, `Scenario`, `AppConfig` |
| UI dispatcher (`ui.c`) | run flags, `ui_manage_f`, `g_is_system_ready` | `ui_task` and six created tasks, `proximity_task` | creates the scenario tasks | run flags set by the created task; four creators of cleanings | one scenario at a time | `UiDispatch` |
| Photo and TOF sensors (`sensor.c`, `main.c`) | the second UART's line buffer, photo bits, ring buffer of 10 samples | `uart1_to_uart0_task`, `sensor_data_parser`, `tof_proc`, `reset_tof_ring_buffer`, `get_tof_distance` | read by the scenarios | lines cut anywhere; reset while the parser appends | no reading made of two lines; no stale sample after a reset | `SensorLine`, `TofRing` |
| Load cells (`loadcell.c`) | cat state machine, baseline window, tare | `loadcell_proc`, `process_cat_detection_fsm`, `execute_tare` | posts `UI_CLEAN_CMD` | the cat comes back; litter is added; a cleaning is refused | a cleaning after the cat has left, never asked for with the cat inside | `CatFsm` |
| Diagnostics (`diag.c`) | mode, step, `next_step`/`next_func` flags | two tasks, `wait_diag_operation`, `finish_diag_mode` | posts motor messages by itself | presses are latched | motors stopped on exit | `Diag` |
| Configuration flash, NVS (`app_config_flash.c`, `app_nvs.c`) | settings in RAM and flash, save requests | `flash_task`, `request_*`, load and save | `system_reset` | the request is cleared before the save; a restart or power cut in between; two layouts of one struct | a requested save happens before the restart; a boot finds the reason | `AppConfig` |
| BLE, tracker (`ble/`) | connection, two queues, motion transfer, table of 20 tags | parser, rx/tx tasks, `vTrackerCaptureTask` | Wi-Fi, MQTT, load cell | a stalled transfer is asked for again | only a whole transfer is acknowledged; it ends | `BleMotion`, `CloudLink` |
| Wi-Fi (`wifi/wifi_task.c`) | event group, retry counter, `s_allow_reconnect` | event handler, `Wifi_Connect`, `Wifi_Disconnect` | cloud task, BLE | bits that nobody clears, a flag that is never set again | back online after a loss | `CloudLink` |
| Cloud task (`provisioning/aws_iot_task.c`, `fleet_provisioning_with_csr_demo.c`) | the session, failures so far | connection loop, service loop | Wi-Fi, MQTT, TLS | retries, restart after eleven | as above | `CloudLink`, `MqttSession` |
| MQTT session (`provisioning/mqtt_operations.c`, `components/coreMQTT`) | record tables, outgoing slots, buffer with index | `EstablishMqttSession`, `PublishToTopic`, `SubscribeToTopic`, `MQTT_ProcessLoop` | broker | lost acknowledgements, resumed and lost sessions, packets in pieces | what is accepted is kept until acknowledged; a duplicate is handed over once; packets are whole | `MqttRecords`, `MqttSession`, `MqttFrames`, `Delivery` |
| TLS and PKCS #11 (`provisioning/mbedtls_pkcs11_posix.c`, `components/corePKCS11`) | one session of the module, its open search and operation, list of objects | connect, find, read, sign, back-off | flash, broker | an attempt leaves something open for the next | an attempt fails for its own cause only | `TlsConnect` |
| LED (`led.c`) | mode, queue, mutex | `led_task`, `led_process_task` | all tasks post | a command between reading and storing | the last command is shown | `LedShow` |
| MQTT messages, OTA, UV lamp, current monitor | see section 7 | | | | | |

`PROJECT.json` lists every component with its status, and every hazard with its line. The
default build defines `FEATURE_TOF` only; the code behind `FEATURE_AWS_IOT` (BLE, Wi-Fi,
cloud) is compiled with it, and started when the feature is defined.

## 2. Plan

Done, in this order: `MotorChannel`, `MotorScript`, `Scenario`, `MotionBudget` with their
runs and proofs; `UiDispatch` with its proofs; then the parts around them: `StepMotor`
(refines `MotorChannel`), `TofRing`, `SensorLine`, `KeyScan`, `CatFsm`, `ConsoleLine`,
`AppConfig`, `LedShow`, `Diag`; and the network: `BleMotion`, `CloudLink`, `TlsConnect`,
`MqttRecords`, `MqttSession` (refines `Delivery`), `MqttFrames`.

Then the proofs (section 5): the invariants that the runs check, for every value of the
constants, and both refinements. Every safety property of a run has its theorem now but for
one (`CoverClosesOverScoopIn`), and section 5 gives the reason. The modules were written for that: they are
parameterised by constants with named assumptions (all but `Diag`, which has none), and only
`MCInterlock`, which no theorem uses, declares recursive operators.

What would be worth doing next:

1. `RoomCorrect` for orders that are some distance apart instead of few, and with the
   calibration in it.
2. An annotation for `CoverClosesOverScoopIn` that counts the stops of a motor and tells the
   time before a look at the pause flag from the time after it.
3. The action properties behind the invariants: for instance, that a step of the key scanner
   never takes back a command, and that no step of the dispatcher starts a second task.
4. An interlock for the management scenarios, whose error exits stop no motor: what a cleaning
   that begins after one may rely on.

## 3. Modules

| Module | Models | Shape |
|---|---|---|
| `MotorChannel` | the queues, the command tasks, the auto stop, the step counts, the parts | variables `queue`, `motion`, `place`, `energised`; actions `Handle`, `AutoStop`, `StepsDone`, `Travel` per motor |
| `MotorScript` | the scenarios of `motor.c` and the boot check, as sequences of instructions | constant operators only; `MotorProgram` is all of it, `MotorEntry` its labels |
| `Scenario` | the tasks that execute instructions, the flags, the key scanner, the console | EXTENDS `MotorChannel`; one action per kind of statement, one per half of an order |
| `MotionBudget` | the bound on motions commanded after an emergency stop | EXTENDS `Scenario`; `Cost` per instruction, `BudgetInv` |
| `Interlock` | what the scenarios rely on at each of their statements, and what a right annotation of a program is | EXTENDS `Scenario`; `Ways` leads from one instruction to the next, `Annotated` and the promises are about one instruction at a time |
| `MCScenario` | constants for TLC, the least `Cost` of the real program | EXTENDS `MotionBudget`, `MotorScript` |
| `MCInterlock` | the annotation of the real program, and that it keeps its promises | EXTENDS `MCScenario`, `Interlock`; a fixpoint, computed by recursive operators |
| `UiDispatch` | `ui_task`, the tasks it creates, the keys, the cat state machine, the boot handshake | stands alone: a scenario is its run flag, its three flags and whether a pause holds it |
| `StepMotor` | the two command tasks, the esp_timer callback and the MCPWM interrupt | one action per access to a shared variable; INSTANCE of `MotorChannel` with a refinement mapping |
| `TofRing` | the ring of distances, its reset and the wait for new samples | one action per word |
| `SensorLine` | UART driver, line buffer, parser of the sensor board's lines | characters by their place in a line |
| `KeyScan` | `key_polling_task` | one action per key of a scan, and time |
| `CatFsm` | `process_cat_detection_fsm`, the moving mean | one sample per step; the cat, its litter and the cleaning are the environment |
| `ConsoleLine` | ring, parser, end of line | characters by their place in a line |
| `AppConfig` | settings in RAM and flash, `flash_task`, `system_reset`, boot | one action per word of a save, power cuts anywhere |
| `BleMotion` | rx and tx queues and tasks, motion transfer, time-outs, connect and disconnect | the tracker and the air are the environment |
| `CloudLink` | Wi-Fi event handler and calls, the cloud task's loops | access point, broker, phone and power are the environment |
| `TlsConnect` | `aws_iot_provisioning_main` down to the PKCS #11 module and its flash | one action per call |
| `MqttRecords` | `core_mqtt_state.c`: reserve, update, compact, find | operators on sequences, no variables |
| `MqttSession` | the session over the records: publish, subscribe, acknowledge, resend, keep-alive | EXTENDS `MqttRecords`; a call is a step, the broker and the network are the environment |
| `MqttFrames` | the stream, the buffer and its index, the discarding of large packets | bytes by their place in a packet |
| `Delivery` | what the outbox promises | abstract specification, implemented by `MqttSession` |
| `LedShow` | `led_task`, `led_process_task`, the mutex | one action per stage |
| `Diag` | the five tests and the restart | instructions, as in `Scenario` |
| `MCParts` | the modules from `StepMotor` to `Diag` without MQTT's session, in one run | a behaviour is one of one part (`part`), and the others stand still: they share no state |
| `ScenarioProofs` (with `Interlock`), `MotionBudgetProofs`, `UiDispatchProofs`, `SensingProofs` (`TofRing`, `SensorLine`, `CatFsm`), `ControlProofs` (`AppConfig`, `KeyScan`, `LedShow`, `ConsoleLine`, `Diag`), `MqttProofs`, `LinkProofs` (`TlsConnect`, `BleMotion`, `MqttFrames`), `PartsProofs` (`StepMotor`, `CloudLink`, `MCParts`) | theorems | EXTEND the modules they are about; `PartsProofs` also the proofs of the other parts |

How they fit together. `Scenario` takes a message to a stepper, its last step and its
sensor's stop for one step each; `StepMotor` shows that they may be (`Implements`).
`UiDispatch` takes a scenario for its run flag; `ScenarioEnds` says that it ends. It takes
the key scanner's commands and the cat's as they come; `KeyScan` and `CatFsm` say when they
come. `Scenario` sees distances and photo bits; `TofRing` and `SensorLine` say where they
are from. `MqttSession` takes packets whole and in order; `MqttFrames` shows when it may.
`CloudLink` takes a session for an outcome; `TlsConnect` and `MqttSession` are its inside.

How code becomes instructions. `Send(m, d)` is a `send_*_msg`; `Delay` a `vTaskDelay` of
30 ms and more; `Wait(m, want)` is `wait_motor_operation`; `Try` the same for a caller that
handles the failure; `Check` is `CHECK_ESTOP`; `EstopOnly` an
`if (emergency_stop_flag) goto`; `CheckTofPause` the macro of that name; `Seek` a search
loop of `scp_spin_find_st_origin`; `IfAt` a test of the photo sensors. `OnFail(label, ...)`
names the `goto` target of a stretch of code, so each error exit of `motor.c` is a label.
The recursion of `scp_spin_find_st_origin` is a tail call and becomes a jump back.

Between two instructions any other task may run. Within one, a loop that reads a flag and
acts on it 20 to 100 ms later is two steps (`LookAtFlags`, then `WaitEnds`), so a flag can
change in between. A wait is modelled by its last round: earlier rounds change nothing.
A row of STOP messages is one step: they go to different queues, and no task reads two of
them. Three flag assignments in a row are at most two steps, split where another task can
tell.

### The dispatcher

`Receive` is one round of `ui_task`: it takes a command, asks `check_task_runnable`, and may
create a task (`kind[t]` is the command; xTaskCreate may fail and nobody looks).
`MarkManage` is the statement after the creation of `ui_manage_start_task`, `DelayEnds` the
10 ms at the end of the round. A task goes through `Begin` (its run flag), `Enter` (the
scenario's first statements), its work, and `Delete`. `do_clean` ends with `CleanEnds`, or,
with a resume asked for, with `CleanBrokenOff`, `RecoveryBegins`, `RecoveryEnds`; `NotHeld`
is what its waits look at. A factory reset is `Restart`: all memory is as after the boot.
The key scanner sees `clean_running_flag` in `Press` and acts in a later step; the cat state
machine decides in `CatGone` and posts in `CatPost`. `proximity_task` becomes ready once,
and runs the boot recovery itself, beside everything the keys may have started by then.

### Abstractions in the parts

- *StepMotor*: a message may come at any moment, over a running motion and into the last
  step of one. The pulses of a motion are counted, their duration is not; a motion of the
  spindle may have none (`do_clean` orders one of angle 0, `motor.c:420`: its first pulse ends
  it). `Pulse` is one step, but for a count that the command task overwrites between its load
  and its store (`LostCount`); the order of adjacent stores of run flag and direction is left
  out, and so is the speed command of the diagnostics. The motors share nothing but
  `spin_mt_always_on`, so the runs order them one at a time (`Together`).
- *TofRing*, *ConsoleLine*, *SensorLine*, *MqttFrames* keep of a datum where it comes from
  (a sample's age, a character's place in its line, a byte's place in its packet) and not
  its value: the properties are about mixing and losing.
- *CatFsm*: weights in units of 300 g; one sample per step; the mean in integers.
- *AppConfig*: of the struct, the reset reason and two words whose meaning differs between
  the two headers; time in ticks of `flash_task`'s period.
- *BleMotion*: of a packet, its kind and number; *CloudLink*: of credentials, whether they
  are right; *TlsConnect*: of objects, their labels and handles.
- *MqttSession*: QoS 1 only, as the box uses; of a payload, which message it is, or that
  its memory is no longer that message's (with `Intact = FALSE`, as in all its runs, the one
  or the other when a packet is sent again).
- *KeyScan*: time comes in units of a threshold's difference, between two scans; how many
  scans a unit has is left open. The counts `given` are not in the code; they are what the
  property is about.

### What is left out

- In the dispatcher: the console (J, W, Z), the diagnostics mode, and `proximity_task`'s own
  cleanings, which need load cells that the default build never initialises.
- LED messages, logs, angles, speeds and durations. A time-out may come at any moment, a
  step count may end at any moment, so every timing that the code can meet is covered.
- The pins and PWM behind a motion; the `energised` flag stands for the two enable pins of
  the spindle driver.
- `motor_scpspin_test` and the console's direct motor commands A to P, which move a motor
  under a scenario's feet by design.
- The photo sensor bits are seen by the scenarios as they are (the board repeats them every
  few ms).
- `SCP_SPIN_ED` is not modelled: no wait asks for the spindle's place.

## 4. Runs

The first four use `MCScenario` (`scenarios_tof` with `MCInterlock`), queue length 10, one scenario thread and one hand (the key
scanner or the console), and `Prompt = TRUE`. Times are with two workers and coverage
statistics.

| Run | Behaviours | Interruption | Starts from | Checks | States, time |
|---|---|---|---|---|---|
| `clean_estop` | clean, again and again | one Z, any other command after it | anywhere (54 placements) | `Quiescent`, `ScoopNeedsOpenCover`, `WasteClosedAfterClean`, `DriverReleased`, `EstopBudget` | 3.1 M, 2 min |
| `clean_pause` | clean | one pause, its resume | scoop in, waste cover closed (6) | `Quiescent`, `CoverClosesOverScoopIn` | 6.6 M, 3.5 min |
| `scenarios_tof` | clean, both managements, calibration, in any order | TOF pauses and faults; resumes | anywhere | `TypeOK`, `ScoopNeedsOpenCover`, `ScenarioEnds`, and the assumptions `ScriptKeepsItsPromises`, `QueuesHaveRoom` | 0.4 M, 1 min |
| `recovery` | boot check and recovery | one Z, any other command | main cover open, waste cover closed (6) | `CoverClosesOverScoopIn`, `EstopStops` | 0.9 M, 3 min |
| `dispatch` (`UiDispatch`) | every kind of task | all keys, the cat, an obstacle, a factory reset, at any moment | power on, or a restart | `TypeOK`, `OneUiTask`, `NothingElseInManagement`, `CleanableAgain` | 1.4 M, 2 min |
| `mqtt` (`MqttSession`) | two messages and a command through any number of sessions | cuts, failing sends, a broker that forgets the session, power cuts | power on | `MqttTypeOK`, `KeptCanBeAcknowledged`, `AcknowledgedIsHanded`, `KeepsItsPromise` | 3.3 M, 1.5 min |
| `mqtt_live` (`MqttSession`) | one message, one command; from some moment on nothing fails | as above, before that moment | power on | `Delivered` | 0.2 M, 1.5 min |
| `parts` (`MCParts`) | thirteen parts, one at a time | each its own (section 3) | each its own | the properties below, and `PartsTypeOK` | 0.44 M, 3.5 min |

and the four runs that must find a violation (section 6): `manage_estop`,
`press_ends_pause`, `resend_freed`, `spindle_astray`.

What the scenario runs show. However a scenario ends (done, time-out, stop, pause and
recovery) no motor keeps running (`Quiescent`) and after success the spindle driver is off
(`DriverReleased`), although `spin_mt_always_on` makes the interrupt and the STOP leave it
on for most of a cleaning and `scpspin_stop` does nothing when the spindle has already
ended. The scoop leaves only under an open main cover (`ScoopNeedsOpenCover`): `do_clean`
checks the cover once and makes four more moves minutes later. The main cover closes only
over a scoop that is in (`CoverClosesOverScoopIn`) although a wait takes any stopped motor
for an arrived one. A cleaning that reports success has closed the waste cover, through
three rounds in which a time-out, a stopped motor and an emergency stop all look alike. A
stop that nobody clears ends all motion for good (`EstopStops`), even though a scenario may
still be posting the messages of a soft start; and it posts at most seven of them
(`EstopBudget`).

`dispatch` shows that the run flags do exclude: although each is set by the task it stands
for, after its creation, `ui_task` never has two tasks at work (`OneUiTask`), nothing else
goes on in management although `ui_manage_f` is set by one task and cleared by another
(`NothingElseInManagement`), and no order of presses, drops, failed creations, pauses and
recoveries leaves a flag behind that refuses cleanings for good (`CleanableAgain`).

`mqtt` shows that the outbox of the box keeps what it has accepted until the broker has
answered a packet of it, and of no other message, or the session is lost (`KeepsItsPromise`,
the refinement of `Delivery`): through resends, packet ids that wrap around, records with
holes, and sends that fail half way. What that packet contained is another matter: a packet
that is sent again may hold freed memory (`resend_freed`), which `Delivery` allows unless
`Intact` holds. What is kept
has a record that lets its acknowledgement through (`KeptCanBeAcknowledged`), and what the
broker is told is done has been handed over (`AcknowledgedIsHanded`). `mqtt_live` shows
that the state which a bad network leaves does not stand in the way once it is good. The
two are apart because liveness on two messages takes longer than all else together.

`parts` shows:

| Part | Property | It says |
|---|---|---|
| StepMotor | `StoriesAgree`, `MotionEnds`, `Implements` | run flag, pulse timer and driver agree when nobody is at work, however task and pulse counter interleave and whenever motions are ordered, unless the start of one has met the last step of another (`met`); but for that and for a count begun anew for ever, every motion ends; the two tasks do what `MotorChannel` says in one step |
| TofRing | `FreshSamples` | after a reset the distance is of new samples, but for the one sample the parser had in its hand |
| SensorLine | `WholeReadings` | a reading is one line of the board, however the characters come in |
| KeyScan | `OneCommandPerPress` | of three thresholds and two-key commands, one press gives one command |
| CatFsm | `NeverCleansOccupied`, `VisitIsCleaned` | no cleaning is asked for with the cat inside; every visit is followed by one |
| ConsoleLine | `WholeCommands` | a line runs as it was sent, though the ring drops characters |
| AppConfig | `NoChangeForgotten`, `RestartFindsItsReason` | a change that is asked for between a look at the flag and the save is saved; a boot finds a reason somebody asked for, with its settings, through power cuts |
| BleMotion | `AckedIsLast`, `TransferEnds` | a broken transfer does not count for the next; it ends |
| CloudLink | `OnlineAgain` | back to the broker after any loss, or given up, which section 6 lists the ways into |
| TlsConnect | `FailsForACause` | no attempt fails for what an earlier one has left |
| MqttFrames | `FramesAreWhole` | packets are whole and in order, and the buffer never fills up with what nobody can handle |
| LedShow | `LastCommandShown` | the last command that is not overtaken is shown |
| Diag | `DiagLeavesQuiet` | the motors rest at the restart |

### Bounds

- *One thread.* `ui_task` starts one scenario at a time: `OneUiTask` of `UiDispatch`. The
  proofs of `TypeOK` and `EstopBudget` hold for any number, those about the interlock for one.
- *One order* (`MaxOrders = 1`): one emergency stop or one pause. A resume, and a command
  that clears the stop, are not counted, so a scenario sees the stop, sees it cleared
  before it looks, or sees only one of the two. `Quiescent`, `DriverReleased` and
  `EstopBudget` were also checked with two stops from one placement (10.6 M states).
- *Placements*: every part anywhere is 3 x 3 x 3 for the sliders and 2 for the spindle.
  `clean_estop` and `scenarios_tof` begin from all of them. `clean_pause` begins as a
  recovery or a cleaning leaves the parts, but repeats the cleaning for ever, so that later
  ones begin wherever an earlier one was broken off. The recovery begins under the open
  main cover, where a power cut leaves a cleaning and where all its steps are needed.
- *Queue length* 10, as in the code; no queue is ever full in these runs (`RoomInQueues`,
  which TLC found to be an invariant of them), since a delay lets the command tasks catch up. `TypeCorrect` and `BudgetCorrect` also cover
  full queues (the other theorems about scenarios assume that there are none, or prove it for
  few orders, see section 5), and `StepMotor` runs with queues of one that fill up.
- *Dispatcher*: a queue of two commands (ten in the code), so that it is full, doubled and
  empty; two places for tasks, one more than the code should ever use. No count of orders
  or of restarts is bounded: the state space is finite.
- *MQTT*: two records and two slots (ten and five in the code), so that tables fill up and
  have holes; packet ids up to 3, so that they wrap around onto one still in use; three
  packets on the way before a new one is begun (`InFlight`); one topic, one id of the
  broker. Sessions and cuts are not bounded.
- *Step motors*: motions of up to three steps, of none for the spindle; a queue of one; the
  waste cover or the spindle (`Together`). Three steps tell a first pulse from one between
  and from the last. Motions are ordered over running ones, as the close loop of `do_clean`
  (`motor.c:377`), the diagnosis and the console do, and at every statement of the task and
  of the pulse counter. When the start of a motion meets the last step of another (`met`),
  flag, timer and driver are left to whoever comes last: `StoriesAgree` and `MotionEnds` do
  not hold then, and `spindle_astray` shows how bad it is. In a cleaning it needs bad luck:
  REVERSE comes 500 ms into FORWARD, 41 pulses of 1120; FORWARD follows on a REVERSE that
  has ended (13.4 s, with 15 s to wait), or on a running one when an emergency stop ends the
  wait, and meets its last pulse only if the stop falls there. The spindle is ordered to turn
  after a wait for its last motion, behind a STOP, or (`motor.c:306`) by time alone: 95 s and
  a scoop out after the motion before. The console and the diagnosis order motions at any time.
- *TOF ring* of three, two samples to wait for: it fills up, wraps around and is read
  half full. Time-outs of the wait at any moment.
- *Sensor line*: lines of four characters, a buffer of six, a UART FIFO of eight, readings
  numbered modulo four, at most one lost piece at a time: lines come whole, cut at each
  place, one and a half at a time, and too many.
- *Keys*: thresholds after 1, 2 and 3 units, so that a slow scan may find two passed.
- *Cat*: mean of the last four of which two must be there; entry at 3 units (1 kg), exit at 1, a cat
  of 8, litter of 1 a visit, two visits, a countdown of two samples.
- *Console*: ring and parser of three characters, lines of one or two and a newline: full,
  cut and empty ones.
- *Settings*: two callers of `system_reset` (`diag`, `ota`); `flash_task` sleeps 1 tick and
  saves in 1, the reset waits 5 and a boot takes 4: the ratios of the code. The factory
  restore is reached through OTA's reason, see section 6.
- *BLE*: two points in a packet (nine), at most three points: one packet, two, and a number
  that divides. Queues of two (ten).
- *Cloud*: one retry of the handler (five), two failures before the restart (ten; the eleventh restarts), two
  PKCS #11 sessions (ten).
- *TLS*: one retry of the back-off (five), four objects (six).
- *MQTT stream*: a buffer of five bytes (8192), so that the largest packet that fits is 5
  and the smallest that does not is 6; six bytes on the way, so that two packets come in
  one read; packets numbered modulo three.
- *LED*: a queue of one; every command at every stage.

In `Scenario`, `Prompt` is an assumption about time: during a delay of 30 ms and more the
command tasks, which wait at most 10 ms for a message and do nothing that blocks, take the
messages posted before it, and the key task or the console task, which does not delay
inside an order, finishes the order it has begun: no task that could keep the processor
from them stays ready that long. Without the assumption a STOP of the key could be posted
minutes after its flag.

In `UiDispatch`, `Prompt` says that a created task (priority 10, as `ui_task`, on two cores)
executes its first statement while `ui_task` sleeps its 10 ms. And `CatGone` waits for
`ready`: the countdown takes three minutes, `proximity_task` about seven seconds. Without
the second, an automatic cleaning paused by an obstacle would keep the keys blocked.

`MaxLate` is 7 where `EstopBudget` is checked; `clean_pause` and `recovery`, which do not
check it, leave it at a loose 12.

### Fairness

Always weak, and only of tasks, which FreeRTOS schedules when they are ready (they all
block or delay), and of hardware that counts.

- `Scenario`: each thread's statements, the second halves of orders, and the motor tasks
  serving a message, a sensor or a step count. A time-out is an alternative of `WaitEnds`, so
  nothing else is needed for `ScenarioEnds`. Not assumed: that a key is pressed, that a
  scenario starts, that a part moves (`Travel`: it may jam), or that the start slot is
  found. `ScenarioEnds` therefore excludes a thread that is paused or is in a search loop:
  the code waits for a key in the first case, and in the second calls itself every 30 s
  without a bound.
- `UiDispatch`: `ui_task`, the created tasks' steps (that a scenario which no pause holds
  comes to its end is `ScenarioEnds`, the search loop apart), `proximity_task`, and a press or
  a post that has begun. Not assumed: presses, cats, obstacles. `CleanableAgain` leaves out
  management and pauses, which wait for a key.
- `MqttSession`: the one task, and that a broker reads what has come. That nothing fails
  any more is a premise of `Delivered` (`steady`), as is in `CloudLink` that access point
  and broker are up, in `CatFsm` that the cat stays away and nobody has paused, in
  `BleMotion` that the tracker stays and the queues have room.
- `CatFsm`: a sample (the board sends them for ever). `BleMotion`: the two tasks, the two
  timers, the air. `CloudLink`: the Wi-Fi driver with its handler, the cloud task.
- `StepMotor`: the command tasks, and the timer's callback and the MCPWM interrupt while
  their timer is on.

### Mutants

Each property has a plausible bug that its run must find: a missing STOP in an error exit,
a sensor not read again after a wait, the cover moved before the scoop, a retry loop that
gives up silently, a time-out dropped, a search that stays open when it finds nothing, a
session's records that outlive it, a threshold that is not noted. They stand before the
definition they change, under the comment `Mutant`.

## 5. Proofs

Each theorem is proved for every value of the constants that the named assumption of its
module allows. What it assumes beyond that is in the table; a theorem with an empty entry
assumes nothing else.

| Module | Theorems about runs' properties | For every | Assumes |
|---|---|---|---|
| `ScenarioProofs` | `TypeCorrect` | program, threads, hands, orders, queue length | |
| | `QuiescentCorrect`, `ScoopNeedsOpenCoverCorrect`, `WasteClosedCorrect`, `DriverReleasedCorrect` | program with a right annotation, hands, orders, queue length | `Prompt`, one scenario at a time, `RoomInQueues` |
| | `RoomCorrect` | program with right loads, queue length with room for its orders | `Prompt`, one scenario at a time, one hand |
| | `SafeWithFewOrders` (the four above) | program with a right annotation and right loads | the same; nothing about the queues |
| `MotionBudgetProofs` | `BudgetCorrect` | program with a right `Cost`, threads, hands, orders, queue length | |
| `UiDispatchProofs` | `OneUiTaskCorrect`, `ManagementCorrect`, `DispatchTypeCorrect` | set of tasks, queue length | `Prompt` |
| `SensingProofs` | `FreshSamplesCorrect` | ring size, number of samples to wait for | |
| | `WholeReadingsCorrect` | length of a line, of the buffers, of a read | |
| | `NeverCleansOccupiedCorrect` | window, thresholds, countdown, cat, litter, visits | `CatStandsOut` |
| `ControlProofs` | `NoChangeForgottenCorrect` | set of callers, all times | |
| | `RestartFindsItsReasonCorrect` | the same | `BootWaitsForItsSave` |
| | `OneCommandPerPressCorrect` | thresholds in order | |
| | `LastCommandShownCorrect` | queue length | |
| | `WholeCommandsCorrect` (action property) | sizes of ring and parser, lengths of lines | |
| | `DiagLeavesQuietCorrect` | (there are no constants) | |
| `MqttProofs` | `KeptCanBeAcknowledgedCorrect`, `AcknowledgedIsHandedCorrect` | number of records, slots, packet ids, messages | |
| | `OutboxKeepsItsPromise` (refinement) | the same, freed memory intact or not | |
| | `MqttTypeCorrect` | the same | |
| `LinkProofs` | `FailsForACauseCorrect` | number of attempts, list length | `RoomForAll` |
| | `AckedIsLastCorrect` | points in a packet, tracker, queue lengths | |
| | `FramesAreWholeCorrect` | size of the buffer, cuts of the stream | |
| `PartsProofs` | `StoriesAgreeCorrect`, `MotorsImplementChannel` (refinement) | queue length, step count, set of motors | |
| | `PartsTypeCorrect` | all of the parts' constants | `RoomForAll` |

Why the code justifies what is assumed, and that it is needed:

- `Prompt`: section 4.
- *One scenario at a time*: `OneUiTaskCorrect`.
- `RoomInQueues` (no motor queue is full when a message is posted): a message to a full queue
  is dropped without a word, and a dropped STOP leaves a motor running. It is a premise on
  behaviours, not on states: those theorems read `Spec /\ []RoomInQueues => []P`. For few
  orders it is a theorem itself, `RoomCorrect`: of ten places, the scenarios of `motor.c`
  (calibration apart) never need more than six, so three presses, or one order of any kind,
  find room (`QueuesHaveRoom`, which TLC computes). For many it is an assumption about time:
  nobody presses a key several times within the 30 ms of a delay. `RoomCorrect` is about one
  hand, because the model does not know how long a hand takes for an order, and two that
  toggle the same flag may each end the other's pause without a bound. The calibration is
  not in it because it could, for all the model knows, be broken off before its first delay
  and begun again without end; by hand, from the console, that takes longer than a delay.
- `BootWaitsForItsSave`: `check_boot_mode` waits 500 ms for a save of a few. With a save that
  takes longer TLC finds the power cut that tears reason and settings apart.
- `CatStandsOut`: the mean may rise by one reading of the cat for each visit that the ring
  still counts, and the cat must weigh more than what makes it a cat for that mean, in the
  shortest ring and in a full one. With the code's figures (30 and 200 samples, 1 kg) it
  holds for a cat of 3 kg and litter of 200 g up to 45 visits in one ring. In the run it
  holds with equality, and with a cat that weighs one unit less TLC finds a cleaning asked
  for with the cat in the box.
- `RoomForAll`: the list has room for four objects; the code's has six. With three TLC finds
  an attempt that fails for what an earlier one has left.

The inductive invariants were checked by TLC on the constants of the runs before they were
proved, but for those that say nothing beyond the types and the one about the queues' loads. There is one step per action, and under it one per conjunct that it disturbs.

*Scenarios: the annotation.* `Quiescent` and its relatives depend on the whole program: which
messages are pending at an error exit, and which parts may be where. `Interlock` says it
like a proof outline: `facts[n]` is what is known at instruction `n` of each motor (the last
order that it has, the messages in its queue, what it may yet do, where its part can be)
and of the spindle's driver. `Annotated` says that the facts follow from each other, one
instruction at a time, and are *stable*: the motors run on, and keys and console stop them,
at any moment. The inductive invariant `KnownHere` (`KnownInvariant`) is that they are true
where each thread is. `ScoopNeedsOpenCover` needs one thing more: either the scoop has no
order to go out, or the cover is open and has none to close. The theorems hold for every
program with an annotation that keeps the promises (`EndsStopped`, `Interlocked`,
`EndsClosed`, `EndsReleased`). That the real program has one is computed, not proved:
`MCInterlock` finds the least annotation of `motor.c`'s cleaning, recovery, boot check and
calibration, and TLC checks in the run `scenarios_tof` that it is right and keeps them
(`ScriptKeepsItsPromises`). With a mutant of the program (an exit that leaves a motor
running, a start that trusts a wait, a close round that is not looked at, a finish that
holds the driver, a recovery that aborts without stopping) it does not. The management
scenarios are not in it: their error exits stop nothing (finding 1).

*Scenarios: the budget.* `EstopBudget` alone is not inductive: a thread in the middle of a
soft start with `late = MaxLate` would exceed it. `Cost[n]` bounds the motions on the way
from instruction `n` to the next look at the flag and through the error exit behind it;
`CostAssumption` states that locally, and the invariant is `late[t] + Cost[pc[t]] <=
MaxLate`. Past its look at the flag (phase `judge`) a wait may still succeed on what it saw
before the stop, so there both ways on must be covered. A `set` that clears the flag, as
`motor_calibration` does, resets `late`. TLC computes the least `Cost` of the real program
(`ScriptCost`), checks `CostAssumption` for it, and finds that 7 suffices: the waste cover's
REVERSE and the spindle's turn, two reopening rounds of two messages each (every round's
wait fails at once because of the stop), and, when a resume had been asked for too, the
REVERSE with which the recovery begins.

*Scenarios: the queues.* How many messages wait for a motor depends on the program, too:
`loads[n]` is a bound for it at instruction `n`, `left` one for what a scenario leaves behind.
`Loaded` says that they follow from each other: an instruction adds the messages it posts,
and a delay empties the queues (that is what `Prompt` is for). An order can come at any
moment and is counted apart. The invariant `LoadsAreRight` is that the messages in a queue,
with those that a hand or a paused thread has yet to post, are no more than `Share`, the load
of the place where the thread is, and `Due`, what the orders given so far may post. One case
is not a bound of that kind: a thread may end the pause that a press was to end, so that the
press begins a new one, with a STOP that no order has paid for; `Adds` charges it to the
instruction that ended the pause. `SafeWithFewOrders` puts it together with the annotation,
and its premises are met together: for cleaning, recovery and boot check TLC finds both.

*Dispatcher.* `check_run_flag` sees flags, not tasks, so `OneUiTask` is not inductive.
`DispatchInv` adds that a task past its first statement has its flag up (`FlagOfTask`), that
none is before it when `ui_task` takes a command (`StartersSeen`, the only use of `Prompt`),
that until `ui_manage_f` is set only the opening itself can be at work (`MarkForStart`), and
that a task that does not exist has not begun (`NotBegun`). Then no flag up means nobody
there (lemma `NobodyAlive`), and a task that ends takes down a flag that is nobody else's.

*Step motors.* `StepInv` relates, for each motor, how far the command task has got with its
message to how far the pulse counter has got with the end of a motion: whichever of the two
ends it, the other one finds the flag down and does nothing more to the driver. A motion that
is set up over a running one keeps its timer and its driver, and only when the last step
falls between the run flag and the start of the timer do the two undo each other's work;
from there on (`met`), until a STOP is through or the next motion begins, `StepInv` says
nothing of flag, timer and driver but what the task's own place implies. For the refinement
`ChannelInv` adds that the spindle's driver is what the last message said about it. Each
step of `StepMotor` is one of `MotorChannel`, a stutter, or, for a spindle that has met,
`Astray`: it turns or comes to its end without being told. That is the one thing the
scenarios are not shown to live with: what keeps their spindle from it is that they wait,
stop or let 95 s pass before its next motion, and the waits are in time, which is not modelled.

*Sensors.* `TofInv` follows the reset of the ring through its three stores, with an append
between any two: at most one slot can hold what is older than the reset. `SensorInv` says
that UART FIFO and line buffer together hold characters that follow each other in what the
board has sent. `CatInv` bounds the sum of *every* end of the ring of weights by what its
length and a number `k` of visits explain, for a `k` of at most the visits counted and with
a ring that is at least `k` longer than the first mean or full; of the newest reading alone
nothing inductive can be said, because a full ring drops its oldest.

*Keys, settings, light, console.* `KeyInv` derives what a press has given from how long it
lasts. `SaveInv` relates the request, the image that is being written and the flash: the
settings in use are in the flash, or in the image, or a request is up. `ConfigInv` adds, as
long as two resets do not overlap, that the reason arrives with its settings. `LedInv` says
which mode shows the last command while a task is between reading and storing it;
`ConsoleInv` that ring and parser hold one stretch of what was sent. `DiagInv` says what
each test has left on at each of its instructions, so that `finish_diag_mode` stops all that
can still run.

*MQTT.* A packet that is on its way under the id of a kept message has that message or
garbage in it, and one that is answered has been read (`OutboundSame`): this holds whether
or not freed memory stays intact, and so does the refinement. `SessionInv` is about four tables at once: slots, outgoing and incoming records of
the box, what the broker has not had acknowledged, and the packets between them in both
directions. Its parts: ids are apart, each packet that a table waits for is on its way at
most once, and what is on its way means the same to both ends. The lemmas about
`MqttRecords` show that reserving, updating and compacting change the record of one id only.
Of the types, only the number of packets on the way takes an argument (`FewUnderWay`): a
connection begins with the CONNACK and at most all that the broker publishes again, or no
sender begins with more than `InFlight` under way; on top of that, what is sent without
looking whether there is room, the resends of the slots and the subscriptions. The proof
corrected the bound: `InFlight + Slots + Topics`, which held in the run, is exceeded when the
broker has more ids to publish again than `InFlight`.

*Links.* `TlsInv`: nothing is open in the PKCS #11 session but what the attempt is in the
middle of, and the list names no object twice. `BleInv`: of the packets of one transfer,
those in the queue and those in the air, taken together, are in order and none has been
counted. `FramesInv`: buffer and stream, taken together, are whole packets in order, and the
box stands at the first byte of one or inside one that it discards.

*All the parts.* `MCParts` interleaves nothing: each of its behaviours is one of one part
while the others stand still. `PartsBehave` proves that, so that every theorem about a part
is one about `PartsSpec`, and `PartsTypeCorrect` collects the types: where a part's invariant
does not contain them (cloud, cat, BLE) they have a theorem of their own, `CloudTypeCorrect`,
`CatTypeCorrect`, `BleTypeCorrect`.

Sums, folds and the records' compaction are recursive functions; facts about them are proved
by looking at the least counterexample (lemma `Least`, which instantiates the library's
well-foundedness of `Nat`), since induction itself is out of the provers' reach.

Only model-checked:

- *Liveness* (`ScenarioEnds`, `EstopStops`, `CleanableAgain`, `Delivered`, `VisitIsCleaned`,
  `TransferEnds`, `OnlineAgain`, `MotionEnds`): it rests on fairness and ENABLED, which the
  prover cannot reason about.
- `CoverClosesOverScoopIn`: it does not hold for every number of orders. Two emergency stops
  that are both cleared violate it (section 6), so it is claimed for one, and for pauses.
- That `motor.c`'s program has a right annotation, a right `Cost` and right loads: facts about
  one program, which TLC computes.

## 6. Where the code does not do what it says

Found by a run:

1. `manage_estop`: "Z : Emergency Stop" (`main.c:119`). `do_manage_start` stopped in its soft
   start sets the cover going again and leaves by `manage_start_exit`, which stops nothing.
   The cover runs on to its sensor; if it jams it runs for ever.
2. `press_ends_pause`: "[RESUME] Cleaning Button Pressed during PAUSE" (`motor.c:109`). The
   keys are enabled before the boot recovery runs, and a cleaning may be started beside it.
   The recovery's end clears `clean_running_flag` under that cleaning; when an obstacle then
   pauses it, the key scanner no longer takes a press for a resume, and `ui_task` refuses
   the UI_CLEAN_CMD it posts instead. Only the console or a power cycle gets the box out.
   (The race between `is_clean_running` and `toggle_clean_pause` can leave the same state.)
3. `resend_freed`: outgoing publishes "are kept until a successful ack is received"
   (`mqtt_operations.c:232`). What is kept are pointers, to a topic on the stack of
   `Send_cJSON_Messege` and to a payload it frees; a packet that is resent in the next
   session has whatever is there by then. The message counts as delivered all the same
   (`KeepsItsPromise`): the broker has answered its packet.
4. `spindle_astray`: "Z : Emergency Stop" (`main.c:119`) posts a STOP to the spindle. When a
   motion is ordered while another one ends (two lines "MS ..." of the console, or the two
   motions of the diagnosis), the interrupt of the last step may clear `scpspin_motor_run`
   after `scpspin_move` has set it and before it starts the timer. The spindle then turns
   without counting, and no STOP ends it: `scpspin_stop` returns at once for a run flag that is
   down (`step_motor_control.c:284`). Only the next motion does, by its end. The waste cover
   fares better: its callback does not turn it without the flag, and `waste_motor_stop` looks at
   nothing; at worst it stands still with its flag up until the wait for it times out.

Seen while modelling, and either excluded by name from a property or without one:

*Motors.* "Stopping ALL motors..." (`motor.c:99`): a scenario in the soft start
(`motor.c:143`) goes on posting while paused, and one in the origin search goes on turning the
spindle: neither looks at `clean_pause_flag`. CAT_STATE_OCCUPIED "forbids cleaning
absolutely" (`loadcell.h:15`), but `get_cat_detect_state` is called nowhere: a press, or a
countdown's command overtaken by the cat's return, starts `do_clean` with the cat in the box.
A cover between its sensors is out of origin for the boot check (`main.c:173`) but not open
for the recovery (`motor.c:517`), which returns success and leaves it there. With *two*
emergency stops that are both cleared by another command, the first, in
`motor_calibration_recovery`'s wait for the scoop, stops the scoop on its way and is cleared
before the wait looks, so the stopped scoop counts as arrived; the second does the same to
the wait of Step 3, and the main cover closes on a scoop that is out.
`CoverClosesOverScoopIn` is therefore claimed only for one stop (`recovery`) and for pauses.
A pause at the very last wait of `do_clean` ends it with the cover half closed and a success.
"Clear! Distance > 550 mm. Safe to proceed." (`motor.c:54`) is said of every distance outside
1..550, also of 0 and of the -1 of a sensor that gives no samples; `Scenario` lets both pass
as the code does.

*Keys.* Of two keys let go before 3 s, the one that is seen last gives its short command.
A key held for more than 10 s when the box becomes ready posts the commands of 5 s and 3 s
afterwards, one per scan; a key held long and let go just after readiness acts as a short
press. All three keys for 10 s post UI_FACTORY_CMD twice.

*Cat.* Entries within the window raise the mean; a refill of 1 kg and more looks like a cat
that stays for ever; the state machine is idle again whether or not `ui_task` accepts its
command; `cell_mutex` is never created, so taring never runs.

*Sensor line.* A read that fills the buffer to its last byte leaves no terminator
(`main.c:425` allows it) and `strdup` runs past it, which may restart the box
(`ReadRunsOver`). Characters the driver drops are lost without a sign, and missing values
are read as 0. `sensor_init` sets its enable flag before its handshake loop, so a missing
sensor board is never noticed.

*Console.* The tail of an overlong line runs as a line; a dropped newline joins two; `$`
ends the turn early.

*Settings.* `app_config_flash.h` and `main.h` declare `app_config_t` with the fields in
different orders. OTA's REASON_OTA (3) is main.c's REASON_FACTORY_RESTORE, so an update
resets the settings and pairs again; the first boot reads `CAT_ENTRY_MIN_WEIGHT` as 20 and
`CLUMPING_WAIT_MIN` as 495, and shifts 1 by a reset reason of 50, which is undefined. A
failed write is not tried again; a power cut repeats the last reason; `set_env` changes
`env_mode` without a save.

*BLE.* For a number of points that nine divides, the count is one packet too many and the
transfer is never acknowledged. The timer stays armed after the acknowledgement. After a
dropped START_RESPONSE the count of an earlier transfer may acknowledge early (`orphans`).
The rx task blocks up to 15 s in `Wifi_Connect`, and its queue of ten overflows (`full`).
Repeated transfers upload duplicates, and messages of an earlier connection go to the next.

*Cloud.* The connected bit is never cleared on a disconnect. The ways into `GivenUp`: an
access point that comes up later than the box's five retries; a re-provisioning, after
which `s_allow_reconnect` is never true again; a wrong password. Each needs the power
switched. A late association is not saved. PKCS #11 sessions are never closed: ten
connections, then failures until the box restarts, which may be in the middle of a
cleaning. `mqtt_subscribe_init` returns true also when a subscription has failed.

*TLS and PKCS #11.* `privateKeySigningCallback` returns 0 also when signing has failed (the
broker then refuses). `initializeClientKeys` returns CK_INVALID_HANDLE, which is CKR_OK,
for a key that is not found; `C_GetAttributeValue` rejects the handle 0 behind it.
`PKCS11_PAL_GetObjectValue` frees its data but leaves the pointer when the second
`nvs_get_blob` fails; two of its callers free it again, and the box stops (a restart in
`TlsConnect`). Nobody at run time writes credentials: an unprovisioned box connects only if
the factory has stored a device certificate.

*MQTT.* A publish whose send fails leaves a record behind: its id comes again later, and
ten such records fill the table. An acknowledgement that fails during the wait for a SUBACK
is repeated only in the next session. After a CONNACK(sp=0) that is lost and a CONNACK(sp=1),
stale incoming records remain (`lost`). When a resend fails in `EstablishMqttSession`, the
TLS context stays open and the next attempt overwrites it. The first empty read sends a
PINGREQ at once. A late SUBACK, or a PUBACK with the id of the SUBSCRIBE, meets an assertion
(`mqtt_operations.c:598`). A packet larger than the buffer that cannot be discarded within
10 ms fails the process loop; while the box subscribes nobody looks at that, and the
session goes on with a torn stream (`torn`).

*LED, diagnostics, OTA.* UNLOCK goes on with the light of LOCK. In the diagnostics the main
cover is not opened (`FEATURE_MAIN_COVER` is not defined), so the scoop is driven out under
whatever cover there is; a press during `finish_diag_mode` is latched and ends the next test
at once; a press of the other key right before the last step leaves the waste cover opening
at the restart (`overlooked`). A second OTA overwrites the handle of the first: when the
first then fails it deletes the second, and goes on to free its URL twice and to restart.

## 7. Not modelled

- *UV lamp, current monitor*: the lamp is decided on once at boot (its task is commented
  out, `uv_led.c:83`); nobody reads the current's fault bits.
- *OTA*: one call into the ESP-IDF; of it, `AppConfig` has the restart.
- *MQTT and BLE messages* (`tx_mqtt.c`, `rx_mqtt.c`, `ble_parse.c`, `ble_crypto.c`): the text
  of JSON objects and ciphers. What they do to the state of other tasks is in
  `MqttSession`, `BleMotion`, `CloudLink` and `AppConfig`.
- *What is compiled and called nowhere*: most of `pkcs11_operations.c`, the fleet
  provisioning and its serializer, the shares of water intake in `ble_tracker_id.c`,
  calibration of the load cells; in corePKCS11, creating, digesting, verifying, generating;
  in coreMQTT, QoS 2, unsubscribing.
- *Vendored code that is called and is a function of its arguments*: packet serializers,
  JSON, CBOR, the back-off's random numbers, ciphers. It keeps no state between calls; a
  model would be the code again. coreMQTT's and corePKCS11's state is modelled.
- *Vendored code that is not called*: the second MQTT client and the button component in
  `managed_components/`, tests and examples of all components.

The project's own code in `src/main` is about a fifth of the repository's lines; most of
the rest is of the last three kinds. That is why the share of all lines that have a
definition here is small, though every task of the box and every shared variable that two
of them depend on has one.

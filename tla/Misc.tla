-------------------------------- MODULE Misc --------------------------------
(***************************************************************************)
(* The control thread of the door controller (misc.c) composed with the    *)
(* threads it shares state with and no lock:                               *)
(*   - extio (priority 8), as the promise of ExtioAbs: Scan;               *)
(*   - the mqtt client thread (5), whose callback sub_topic_handle1        *)
(*     executes the server's commands;                                     *)
(*   - misc itself (10): misc_task, one action per access to shared state; *)
(*   - the shell (20), which runs only while misc is blocked.              *)
(* extio and mqtt may preempt misc between any two of its steps.           *)
(* The config writes of misc_task and of the callback are in Config.       *)
(***************************************************************************)
EXTENDS Integers, ExtioAbs

CONSTANTS
    SmokeInputs,   \* inputs SMOKE_START..SMOKE_NUM
    LockTime,      \* 100: quiet passes after which the door is locked
    PollTime,      \* 10 : passes between two polls of the inputs
    ReportTime,    \* 50 : passes before a polled target is acted on
    SaveTime,      \* 10 : passes between two saves of the configuration
    TimeMax,       \* 255: where powerdown_time saturates
    DoorValues,    \* integers the server may send with a DOOR command
    Garbage,       \* values the uninitialised building_stus.cause may have
    Events         \* signals and commands that occur in this instance

ASSUME ChannelsAssumption ==
    /\ {"SET", "OPEN"} \subseteq Keys
    /\ {"POWERDOWN", "EMERGENCY"} \subseteq Checks
    /\ "FIRE" \in Inputs /\ SmokeInputs \subseteq Inputs \ {"FIRE"}
ASSUME BoundsAssumption ==
    /\ {LockTime, PollTime, ReportTime, SaveTime, TimeMax} \subseteq Nat
    /\ ReportTime < TimeMax
    /\ DoorValues \subseteq Int

VARIABLES
    pc,                \* the step misc_task is at
    key_open, emergency_open, fire_machine_open,
    remote_open,       \* written by the mqtt callback and by misc
    run_stop_flag,     \* TRUE is run
    door_open,         \* misc_task's own idea of the door
    lock_time, save_time,
    poll_time, powerdown_time,               \* smoke_report.*
    powerdown_target, powerdown_flag,        \* smoke_report.*
    fire_machine_update,                     \* smoke_report.*
    toTest,            \* factory test: the inputs not yet seen idle
    doorPin,           \* EXTIO_DOOR_OPEN: TRUE is unlocked
    mainAlarm,         \* EXTIO_MAIN_ALARM
    mqtt_connect_sta,
    server,            \* what the last reports delivered say
    opener,            \* history: the branch that opened the door
    misc_thread,       \* the thread: live, deleted, or deleted once freed
    tampered,          \* history: a factory test drove the siren and the relays
    forced,            \* history: the shell or a factory test drove the lock last
    stale              \* history: what the server may have wrong, since a report
                       \* was lost, the shell sent one of its own or a reboot

smoke_report == <<poll_time, powerdown_time, powerdown_target, powerdown_flag,
                  fire_machine_update>>
flags == <<key_open, emergency_open, fire_machine_open, remote_open>>
door == <<door_open, lock_time, opener>>
pins == <<doorPin, mainAlarm>>
net == <<mqtt_connect_sta, server, stale>>
overrides == <<tampered, forced>>
vars == <<absVars, pc, flags, run_stop_flag, door, save_time, smoke_report,
          toTest, pins, net, misc_thread, overrides>>

Openers == {"none", "key", "emergency", "remote", "fire", "withdrawn"}
CauseOf == [o \in Openers \ {"withdrawn"} |->
              CASE o = "none" -> 0 [] o = "key" -> 1 [] o = "emergency" -> 2
                [] o = "remote" -> 3 [] o = "fire" -> 5]

FactorySteps == {"f_alarm", "f_relays", "f_off", "f_set", "f_open",
                 "f_power", "f_emergency", "f_inputs"}
PublishSteps == {"publish", "publish_close", "publish_power"}
Steps == {"key", "emergency", "clr", "open", "cause", "clear", "lock",
          "power", "poll", "act", "save", "set_key", "set_clr", "both_keys",
          "both_clr", "delay", "finished", "hung"} \cup PublishSteps \cup FactorySteps

\* misc is in rt_thread_delay, waits in mqtt_publish or is deleted, and lets
\* the shell run.
Blocked == \/ pc \in FactorySteps \cup {"delay", "finished"}
           \/ pc \in PublishSteps /\ mqtt_connect_sta

misc_smoke_target == \E i \in SmokeInputs : is_smoke(i)
is_fire_machine == is_smoke("FIRE")

-----------------------------------------------------------------------------
Init ==
    /\ AbsInit
    /\ pc = "delay"
    /\ key_open = FALSE /\ emergency_open = FALSE /\ fire_machine_open = FALSE
    /\ remote_open = 0
    /\ run_stop_flag = TRUE
    /\ door_open = FALSE /\ lock_time = 0 /\ save_time = 0
    /\ poll_time = 0 /\ powerdown_time = 0
    /\ powerdown_target = FALSE /\ powerdown_flag = FALSE
    /\ fire_machine_update = FALSE
    /\ toTest = {}
    /\ doorPin = FALSE /\ mainAlarm = FALSE
    /\ mqtt_connect_sta = FALSE
    /\ server = [door |-> FALSE, cause |-> 0, power |-> FALSE]
    /\ misc_thread = "live"
    /\ opener = "none" /\ tampered = FALSE /\ forced = FALSE /\ stale = {}

-----------------------------------------------------------------------------
(* misc_task.  The thread sleeps at "delay"; a pass begins by reading      *)
(* run_stop_flag.                                                          *)

Goto(from, to) == pc = from /\ pc' = to

Delay ==
    /\ pc = "delay"
    /\ pc' = IF run_stop_flag THEN "key" ELSE "delay"
    /\ UNCHANGED <<absVars, flags, run_stop_flag, door, save_time, smoke_report,
                   toTest, pins, net, misc_thread, overrides>>

ReadKey ==
    /\ Goto("key", "emergency")
    /\ key_open' = (key_sta("OPEN") # "RELEASE")
    /\ UNCHANGED <<absVars, emergency_open, fire_machine_open, remote_open,
                   run_stop_flag, door, save_time, smoke_report, toTest, pins, net,
                   misc_thread, overrides>>

ReadEmergencyConsumes ==   \* mutant: misc acknowledges the line as it does a key
    /\ Goto("emergency", "clr")
    /\ emergency_open' = is_check("EMERGENCY")
    /\ checkSta' = [checkSta EXCEPT !["EMERGENCY"] = FALSE]
    /\ UNCHANGED <<keySta, save, output, relay, key_open, fire_machine_open, remote_open,
                   run_stop_flag, door, save_time, smoke_report, toTest, pins, net,
                   misc_thread, overrides>>
ReadEmergency ==
    /\ Goto("emergency", "clr")
    /\ emergency_open' = is_check("EMERGENCY")
    /\ UNCHANGED <<absVars, key_open, fire_machine_open, remote_open,
                   run_stop_flag, door, save_time, smoke_report, toTest, pins, net,
                   misc_thread, overrides>>

ClearKey ==
    /\ Goto("clr", "open")
    /\ key_clr("OPEN")
    /\ UNCHANGED <<checkSta, save, output, relay, flags, run_stop_flag, door, save_time,
                   smoke_report, toTest, pins, net, misc_thread, overrides>>

\* smoke_open is never set by this version (its assignment is commented
\* out), so its disjunct and its branch are left out.
ToOpenWithoutSwitch ==     \* mutant: the emergency switch forgotten
    key_open \/ remote_open # 0 \/ fire_machine_open
ToOpenWithoutPanel ==      \* mutant: the fire panel forgotten
    key_open \/ emergency_open \/ remote_open # 0
ToOpen == key_open \/ emergency_open \/ remote_open # 0 \/ fire_machine_open

\* misc_task decides on `open'; remote_open is read here and again below.
DecideOpen ==
    /\ pc = "open"
    /\ IF ToOpen
         THEN /\ lock_time' = 0
              /\ door_open' = TRUE
              /\ doorPin' = IF door_open THEN doorPin ELSE TRUE
              /\ forced' = (forced /\ door_open)
              /\ pc' = IF door_open THEN "power" ELSE "cause"
         ELSE /\ pc' = IF door_open THEN "lock" ELSE "power"
              /\ UNCHANGED <<lock_time, door_open, doorPin, forced>>
    /\ UNCHANGED <<absVars, flags, run_stop_flag, opener, save_time, smoke_report,
                   toTest, mainAlarm, net, misc_thread, tampered>>

FirstCause ==
    IF key_open THEN "key"
    ELSE IF emergency_open THEN "emergency"
    ELSE IF remote_open # 0 THEN "remote"
    ELSE IF fire_machine_open THEN "fire"
    ELSE "withdrawn"   \* remote_open was reset since it was read

SoundsSiren(o) == o \in {"emergency", "fire"}

\* The chain of causes: set_all_alarm and extio_main_alarm(1) for two of them.
SetCause ==
    /\ Goto("cause", "publish")
    /\ opener' = FirstCause
    /\ IF SoundsSiren(FirstCause)
         THEN set_alarm(Relays) /\ mainAlarm' = TRUE
         ELSE UNCHANGED <<output, mainAlarm>>
    /\ UNCHANGED <<keySta, checkSta, save, relay, flags, run_stop_flag, door_open,
                   lock_time, save_time, smoke_report, toTest, doorPin, net,
                   misc_thread, overrides>>

-----------------------------------------------------------------------------
(* Reports.  nb_iot_publish_building and nb_iot_publish_powerdown return   *)
(* an error at once without a connection, and block in mqtt_publish        *)
(* otherwise; misc ignores the result, so a report is tried once.  Each    *)
(* report tells one item: the door with its cause, or the supply.          *)

Items == {"door", "power"}

Report(item, msg) ==
    \/ /\ mqtt_connect_sta
       /\ server' = msg
       /\ stale' = stale \ {item}
    \/ /\ ~mqtt_connect_sta \/ "pubfail" \in Events
       /\ stale' = stale \cup {item}
       /\ UNCHANGED server

PublishOpen ==
    /\ Goto("publish", "clear")
    /\ \E c \in IF opener = "withdrawn" THEN Garbage ELSE {CauseOf[opener]} :
          Report("door", [server EXCEPT !.door = TRUE, !.cause = c])
    /\ UNCHANGED <<absVars, flags, run_stop_flag, door, save_time, smoke_report, toTest,
                   pins, mqtt_connect_sta, misc_thread, overrides>>

\* The requests are cleared after the report, whatever came meanwhile.
ClearAllRequests ==        \* mutant: the fire panel's request cleared with them
    /\ Goto("clear", "power")
    /\ key_open' = FALSE /\ emergency_open' = FALSE /\ remote_open' = 0
    /\ fire_machine_open' = FALSE
    /\ UNCHANGED <<absVars, run_stop_flag, door, save_time,
                   smoke_report, toTest, pins, net, misc_thread, overrides>>
ClearRequests ==
    /\ Goto("clear", "power")
    /\ key_open' = FALSE /\ emergency_open' = FALSE /\ remote_open' = 0
    /\ UNCHANGED <<absVars, fire_machine_open, run_stop_flag, door, save_time,
                   smoke_report, toTest, pins, net, misc_thread, overrides>>

\* misc_smoke_target stops the count without clearing it.  The code also stops
\* it at 0xfff, which it never reaches (TypeOK).
LockCountStops ==          \* mutant: the count stops one short
    IF misc_smoke_target \/ lock_time = LockTime THEN lock_time ELSE lock_time + 1
LockCount == IF misc_smoke_target THEN lock_time ELSE lock_time + 1
LockDue == ~misc_smoke_target /\ LockCount > LockTime

LockOutputsSirenOn ==      \* mutant: extio_main_alarm(0) forgotten
    doorPin' = FALSE /\ UNCHANGED mainAlarm /\ clr_alarm(Relays)
LockOutputsDoorOpen ==     \* mutant: extio_door_open(0) forgotten
    UNCHANGED doorPin /\ mainAlarm' = FALSE /\ clr_alarm(Relays)
LockOutputs == doorPin' = FALSE /\ mainAlarm' = FALSE /\ clr_alarm(Relays)

\* The door is open and nothing asks for it: count, and lock it in the end.
Lock ==
    /\ pc = "lock"
    /\ lock_time' = LockCount
    /\ IF LockDue
         THEN /\ pc' = "publish_close"
              /\ LockOutputs
              /\ door_open' = FALSE /\ forced' = FALSE
              /\ opener' = "none"
              /\ key_open' = FALSE /\ emergency_open' = FALSE
              /\ remote_open' = 0 /\ fire_machine_open' = FALSE
         ELSE /\ pc' = "power"
              /\ UNCHANGED <<pins, output, door_open, forced, opener, flags>>
    /\ UNCHANGED <<keySta, checkSta, save, relay, run_stop_flag, save_time,
                   smoke_report, toTest, net, misc_thread, tampered>>

CloseReportStale == [server EXCEPT !.door = FALSE]   \* mutant: cause not reset
CloseReport == [server EXCEPT !.door = FALSE, !.cause = 0]

PublishClose ==
    /\ Goto("publish_close", "power")
    /\ Report("door", CloseReport)
    /\ UNCHANGED <<absVars, flags, run_stop_flag, door, save_time, smoke_report, toTest,
                   pins, mqtt_connect_sta, misc_thread, overrides>>

AfterPower == IF FIRE_MACHINE THEN "poll" ELSE "save"

ReportsPower(was, is) == is # was

\* Both reads of is_check(POWERDOWN) amount to one: what the second sees
\* matters only when the first changed nothing.
Power ==
    /\ pc = "power"
    /\ powerdown_flag' = is_check("POWERDOWN")
    /\ pc' = IF ReportsPower(powerdown_flag, is_check("POWERDOWN"))
               THEN "publish_power" ELSE AfterPower
    /\ UNCHANGED <<absVars, flags, run_stop_flag, door, save_time, poll_time,
                   powerdown_time, powerdown_target, fire_machine_update, toTest, pins,
                   net, misc_thread, overrides>>

PublishPower ==
    /\ Goto("publish_power", AfterPower)
    /\ Report("power", [server EXCEPT !.power = powerdown_flag])
    /\ UNCHANGED <<absVars, flags, run_stop_flag, door, save_time, smoke_report, toTest,
                   pins, mqtt_connect_sta, misc_thread, overrides>>

-----------------------------------------------------------------------------
(* misc_smoke_report: the poll, then what it does while a target is set.   *)

TargetSeenSmoke == misc_smoke_target   \* mutant: the fire panel not polled
TargetSeen == misc_smoke_target \/ is_fire_machine

Poll ==
    /\ Goto("poll", "act")
    /\ IF poll_time > PollTime
         THEN /\ poll_time' = 0
              /\ IF TargetSeen
                   THEN /\ powerdown_target' = (powerdown_target \/ ~powerdown_flag)
                        /\ UNCHANGED powerdown_time
                   ELSE powerdown_target' = FALSE /\ powerdown_time' = 0
         ELSE /\ poll_time' = poll_time + 1
              /\ UNCHANGED <<powerdown_target, powerdown_time>>
    /\ UNCHANGED <<absVars, flags, run_stop_flag, door, save_time, powerdown_flag,
                   fire_machine_update, toTest, pins, net, misc_thread, overrides>>

CountTargetWide == powerdown_time + 1   \* mutant: no saturation
CountTarget == IF powerdown_time < TimeMax THEN powerdown_time + 1 ELSE powerdown_time

\* The line is followed into fire_machine_update; fire_machine_open is
\* written only when that changes.
Act ==
    /\ Goto("act", "save")
    /\ IF powerdown_target
         THEN /\ powerdown_time' = CountTarget
              /\ IF CountTarget > ReportTime /\ fire_machine_update # is_fire_machine
                   THEN /\ fire_machine_update' = is_fire_machine
                        /\ fire_machine_open' = is_fire_machine
                   ELSE UNCHANGED <<fire_machine_update, fire_machine_open>>
         ELSE UNCHANGED <<powerdown_time, fire_machine_update, fire_machine_open>>
    /\ UNCHANGED <<absVars, key_open, emergency_open, remote_open, run_stop_flag, door,
                   save_time, poll_time, powerdown_target, powerdown_flag, toTest, pins,
                   net, misc_thread, overrides>>

-----------------------------------------------------------------------------
\* config_timming_save itself writes only what module Config models.
Save ==
    /\ Goto("save", "set_key")
    /\ save_time' = IF save_time > SaveTime THEN 0 ELSE save_time + 1
    /\ UNCHANGED <<absVars, flags, run_stop_flag, door, smoke_report, toTest, pins, net,
                   misc_thread, overrides>>

SetKey ==
    /\ pc = "set_key"
    /\ pc' = IF key_sta("SET") = "PRESS" THEN "set_clr" ELSE "both_keys"
    /\ UNCHANGED <<absVars, flags, run_stop_flag, door, save_time, smoke_report, toTest,
                   pins, net, misc_thread, overrides>>

SetClear ==
    /\ Goto("set_clr", "f_alarm")
    /\ key_clr("SET")
    /\ UNCHANGED <<checkSta, save, output, relay, flags, run_stop_flag, door, save_time,
                   smoke_report, toTest, pins, net, misc_thread, overrides>>

\* Both keys kept: misc clears them and only logs "set to deault config".
BothKeys ==
    /\ pc = "both_keys"
    /\ pc' = IF key_sta("SET") = "KEEP" /\ key_sta("OPEN") = "KEEP"
               THEN "both_clr" ELSE "delay"
    /\ UNCHANGED <<absVars, flags, run_stop_flag, door, save_time, smoke_report, toTest,
                   pins, net, misc_thread, overrides>>

BothClear ==
    /\ Goto("both_clr", "delay")
    /\ keySta' = [keySta EXCEPT !["SET"] = "RELEASE", !["OPEN"] = "RELEASE"]
    /\ UNCHANGED <<checkSta, save, output, relay, flags, run_stop_flag, door, save_time,
                   smoke_report, toTest, pins, net, misc_thread, overrides>>

-----------------------------------------------------------------------------
(* factory_testcase, run by misc itself or by utest in its place: the      *)
(* relays on one by one and the door unlocked, everything off again, then  *)
(* the interactive input test.                                             *)

FactoryAlarmOn ==
    /\ Goto("f_alarm", "f_relays")
    /\ mainAlarm' = TRUE /\ tampered' = TRUE
    /\ UNCHANGED <<absVars, flags, run_stop_flag, door, save_time, smoke_report, toTest,
                   doorPin, net, misc_thread, forced>>

FactoryRelays ==
    /\ pc = "f_relays"
    /\ \/ /\ \E r \in Relays : ~output[r] /\ set_alarm({r})
          /\ UNCHANGED <<pc, doorPin, forced>>
       \/ /\ \A r \in Relays : output[r]
          /\ doorPin' = TRUE /\ forced' = TRUE /\ pc' = "f_off"
          /\ UNCHANGED output
    /\ UNCHANGED <<keySta, checkSta, save, relay, flags, run_stop_flag, door, save_time,
                   smoke_report, toTest, mainAlarm, net, misc_thread, tampered>>

FactoryOutputsDoorOpen ==  \* mutant: the door left unlocked
    mainAlarm' = FALSE /\ clr_alarm(Relays) /\ UNCHANGED doorPin
FactoryOutputs == mainAlarm' = FALSE /\ clr_alarm(Relays) /\ doorPin' = FALSE

FactoryOff ==
    /\ Goto("f_off", "f_set")
    /\ FactoryOutputs
    /\ UNCHANGED <<keySta, checkSta, save, relay, flags, run_stop_flag, door, save_time,
                   smoke_report, toTest, net, misc_thread, overrides>>

\* Steps 0 and 1 of factory_input_test wait for a PRESS: a KEEP will not do.
FactoryKey(from, k, to) ==
    /\ Goto(from, to)
    /\ key_sta(k) = "PRESS"
    /\ key_clr(k)
    /\ UNCHANGED <<checkSta, save, output, relay, flags, run_stop_flag, door, save_time,
                   smoke_report, toTest, pins, net, misc_thread, overrides>>

FactoryCheck(from, c, to) ==
    /\ Goto(from, to)
    /\ is_check(c)
    /\ toTest' = IF to = "f_inputs" THEN Inputs ELSE toTest
    /\ UNCHANGED <<absVars, flags, run_stop_flag, door, save_time, smoke_report, pins,
                   net, misc_thread, overrides>>

\* Each input has to be seen idle once (in any order here).
FactoryInputs ==
    /\ pc = "f_inputs"
    /\ \/ /\ \E i \in toTest : ~is_smoke(i) /\ toTest' = toTest \ {i}
          /\ UNCHANGED pc
       \/ /\ toTest = {}
          /\ pc' = IF misc_thread = "live" THEN "both_keys" ELSE "finished"
          /\ UNCHANGED toTest
    /\ UNCHANGED <<absVars, flags, run_stop_flag, door, save_time, smoke_report, pins,
                   net, misc_thread, overrides>>

factory_testcase ==
    \/ FactoryAlarmOn
    \/ FactoryRelays
    \/ FactoryOff
    \/ FactoryKey("f_set", "SET", "f_open")
    \/ FactoryKey("f_open", "OPEN", "f_power")
    \/ FactoryCheck("f_power", "POWERDOWN", "f_emergency")
    \/ FactoryCheck("f_emergency", "EMERGENCY", "f_inputs")
    \/ FactoryInputs

misc_smoke_report == Poll \/ Act

misc_task ==
    \/ Delay \/ ReadKey \/ ReadEmergency \/ ClearKey
    \/ DecideOpen \/ SetCause \/ PublishOpen \/ ClearRequests
    \/ Lock \/ PublishClose
    \/ Power \/ PublishPower
    \/ misc_smoke_report
    \/ Save \/ SetKey \/ SetClear \/ BothKeys \/ BothClear
    \/ factory_testcase

-----------------------------------------------------------------------------
(* The other threads.                                                      *)

\* A pass of extio_task; only the signals of Events move.
extio_task ==
    /\ Scan
    /\ \A k \in Keys \ Events : keySta'[k] = keySta[k]
    /\ \A c \in Checks \ Events : checkSta'[c] = checkSta[c]
    /\ \A i \in Inputs \ Events : save'[i] = save[i]
    /\ UNCHANGED <<pc, flags, run_stop_flag, door, save_time, smoke_report, toTest,
                   pins, net, misc_thread, overrides>>

\* nb_iot_task connects once.
Connect ==
    /\ ~mqtt_connect_sta
    /\ mqtt_connect_sta' = TRUE
    /\ UNCHANGED <<absVars, pc, flags, run_stop_flag, door, save_time, smoke_report,
                   toTest, pins, server, stale, misc_thread, overrides>>

\* CMD_DOWN_DOOR: cJSON's int is stored in a uint8_t.
Door(v) ==
    /\ mqtt_connect_sta /\ "door" \in Events
    /\ remote_open' = v % 256
    /\ UNCHANGED <<absVars, pc, key_open, emergency_open, fire_machine_open,
                   run_stop_flag, door, save_time, smoke_report, toTest, pins, net,
                   misc_thread, overrides>>

\* CMD_DOWN_STOP and CMD_DOWN_RUN.
RunStop(run) ==
    /\ mqtt_connect_sta /\ "stop" \in Events
    /\ run_stop_flag' = run
    /\ UNCHANGED <<absVars, pc, flags, door, save_time, smoke_report, toTest, pins, net,
                   misc_thread, overrides>>

\* The commands of sub_topic_handle1 that touch this state.
sub_topic_handle1 ==
    \/ \E v \in DoorValues : Door(v)
    \/ \E run \in BOOLEAN : RunStop(run)

\* The shell command misc_door_open drives the pin behind misc's back.
misc_door_open(sta) ==
    /\ "shell" \in Events /\ Blocked
    /\ doorPin' = sta
    /\ forced' = TRUE
    /\ UNCHANGED <<absVars, pc, flags, run_stop_flag, door, save_time, smoke_report,
                   toTest, mainAlarm, net, misc_thread, tampered>>

\* The shell command mqtt_publish_building (nb-iot.c) tells the server that the
\* door is shut and without a cause, whatever the door does; when it cannot be
\* sent nothing changes.
mqtt_publish_building ==
    /\ "shell" \in Events /\ Blocked
    /\ mqtt_connect_sta
    /\ server' = [server EXCEPT !.door = FALSE, !.cause = 0]
    /\ stale' = stale \cup {"door"}
    /\ UNCHANGED <<absVars, pc, flags, run_stop_flag, door, save_time, smoke_report,
                   toTest, pins, mqtt_connect_sta, misc_thread, overrides>>

\* utest_run (shell) calls factory_test_tc_init before the test case: it
\* deletes the registered threads, of which misc is the only one, and never
\* empties the list.  The next time, or in the next loop of one call, it
\* deletes what the idle thread has freed, and stops in the assertion.
factory_test_tc_init ==
    /\ "utest" \in Events
    /\ IF misc_thread = "live"
         THEN Blocked /\ misc_thread' = "deleted" /\ pc' = "f_alarm"
         ELSE pc = "finished" /\ misc_thread' = "stale" /\ pc' = "hung"
    /\ tampered' = TRUE
    /\ UNCHANGED <<absVars, flags, run_stop_flag, door, save_time, smoke_report, toTest,
                   pins, net, forced>>

\* CMD_DOWN_RESET or a loss of supply: RAM and pins as at power-on, what the
\* server was told stays.
Reboot ==
    /\ "reset" \in Events
    /\ keySta' = [k \in Keys |-> "RELEASE"]
    /\ checkSta' = [c \in Checks |-> FALSE]
    /\ save' = [i \in Inputs |-> TRUE]
    /\ output' = [r \in Relays |-> FALSE] /\ relay' = output'
    /\ pc' = "delay"
    /\ key_open' = FALSE /\ emergency_open' = FALSE /\ fire_machine_open' = FALSE
    /\ remote_open' = 0
    /\ run_stop_flag' = TRUE
    /\ door_open' = FALSE /\ lock_time' = 0 /\ save_time' = 0
    /\ poll_time' = 0 /\ powerdown_time' = 0
    /\ powerdown_target' = FALSE /\ powerdown_flag' = FALSE
    /\ fire_machine_update' = FALSE
    /\ toTest' = {}
    /\ doorPin' = FALSE /\ mainAlarm' = FALSE
    /\ mqtt_connect_sta' = FALSE
    /\ misc_thread' = "live"
    /\ opener' = "none" /\ tampered' = FALSE /\ forced' = FALSE /\ stale' = Items
    /\ UNCHANGED server

Next ==
    \/ misc_task
    \/ extio_task
    \/ Connect
    \/ sub_topic_handle1
    \/ \E sta \in BOOLEAN : misc_door_open(sta)
    \/ mqtt_publish_building
    \/ factory_test_tc_init
    \/ Reboot

Spec == Init /\ [][Next]_vars

\* Misc gets the processor: the threads above it sleep most of the time, and
\* mqtt_publish returns, at the latest when it times out.
FairSpec == Spec /\ WF_vars(misc_task)

-----------------------------------------------------------------------------
(* Properties.                                                             *)

\* The counters never leave their ranges; lock_time in particular never
\* comes near the 0xfff at which misc.c stops it.
TypeOK ==
    /\ AbsTypeOK
    /\ pc \in Steps
    /\ key_open \in BOOLEAN /\ emergency_open \in BOOLEAN /\ fire_machine_open \in BOOLEAN
    /\ remote_open \in 0..255
    /\ run_stop_flag \in BOOLEAN
    /\ door_open \in BOOLEAN
    /\ lock_time \in 0..LockTime + 1
    /\ save_time \in 0..SaveTime + 1
    /\ poll_time \in 0..PollTime + 1
    /\ powerdown_time \in 0..TimeMax
    /\ powerdown_target \in BOOLEAN /\ powerdown_flag \in BOOLEAN
    /\ fire_machine_update \in BOOLEAN
    /\ toTest \subseteq Inputs
    /\ doorPin \in BOOLEAN /\ mainAlarm \in BOOLEAN
    /\ mqtt_connect_sta \in BOOLEAN
    /\ opener \in Openers
    /\ misc_thread \in {"live", "deleted", "stale"}
    /\ tampered \in BOOLEAN /\ forced \in BOOLEAN /\ stale \subseteq Items

\* fire_machine_open is cleared in two places and fire_machine_update in one;
\* were they ever to differ, misc_smoke_report would no longer see the edge
\* and the fire panel could never open the door again.
FireLatchConsistent == fire_machine_open <=> fire_machine_update

\* As long as no factory test drove them, the siren and every relay request
\* are on exactly while the door stands open because of an emergency or the
\* fire panel; a later cause never starts them and never stops them.
SirenMatchesOpener ==
    ~tampered /\ pc # "cause" =>
        LET on == door_open /\ SoundsSiren(opener)
        IN  (mainAlarm <=> on) /\ \A r \in Relays : (output[r] <=> on)

\* The lock is where misc_task believes, unless the shell or a factory test was
\* the last to drive it; the next time misc opens or locks the door they agree
\* again.
DoorPinMatches == ~forced => (doorPin <=> door_open)

\* A factory test may be entered at any point of misc's life, with the door open
\* or in the middle of opening it, by misc itself or by utest, which deletes misc.
\* By the time it waits for keys that may never read PRESS, and from then on as
\* long as it lasts, the lock is shut and siren and relays are off, whatever
\* door_open says and although nobody may be left to lock it.  Otherwise neither
\* is ever on while the door is taken to be shut, but for the steps in which the
\* test tries them.  (Somebody at the shell can unlock the door at any time.)
TestWaits == {"f_set", "f_open", "f_power", "f_emergency", "f_inputs", "finished", "hung"}
NeverLeftUnlocked ==
    "shell" \notin Events =>
        /\ pc \in TestWaits =>
              ~doorPin /\ ~mainAlarm /\ \A r \in Relays : ~output[r]
        /\ misc_thread # "live" /\ (doorPin \/ mainAlarm) =>
              pc \in {"f_alarm", "f_relays", "f_off"}
        /\ misc_thread = "live" =>
              /\ doorPin => door_open \/ pc = "f_off"
              /\ mainAlarm => door_open \/ pc \in {"f_relays", "f_off"}

\* Whenever misc sleeps, the server knows the door with the true cause, and the
\* supply.  What it has wrong after a lost report, a reboot or the shell's report
\* it has wrong only until misc's next report of that item is delivered.  (A cause
\* withdrawn while it was being evaluated is not known to misc either.)
ServerInformed ==
    pc = "delay" =>
        /\ "door" \notin stale =>
              /\ server.door = door_open
              /\ opener # "withdrawn" => server.cause = CauseOf[opener]
        /\ "power" \notin stale => server.power = powerdown_flag

\* The decision to open and the branch that locks are statements apart, with
\* other threads between them, and the lock branch erases every request.  Still
\* no thread locks the door while the key, the emergency switch or the fire
\* panel asks for it; once misc_task has decided, whoever asked finds it open;
\* and the request of the fire panel ends only when the panel's does.  (A remote
\* command that comes in between is erased with the rest.)
Asked == key_open \/ emergency_open \/ fire_machine_open
Decided == pc \in {"cause", "publish", "clear", "lock", "publish_close", "power",
                   "publish_power", "poll", "act"}
AskedIsServed ==
    [][/\ Asked /\ door_open => door_open' \/ Reboot
       /\ Asked' /\ Decided' => door_open'
       /\ fire_machine_open /\ ~fire_machine_open' => ~is_fire_machine \/ Reboot]_vars

\* The release notes (pkfire_20210321_02) say reporting a fire-panel alarm
\* when the supply of the controller is lost was fixed: the alarm is raised
\* only while no power-down is in effect.
NoFireRaisedInPowerDown ==
    [][fire_machine_open' /\ ~fire_machine_open => ~powerdown_flag]_vars

\* misc_task and the other threads use the I/O structure only the way its
\* promise allows.
UsesExtio == AbsInit /\ [][AbsNext \/ Reboot]_absVars

\* misc_task is neither stopped by the server, nor busy with the factory test,
\* nor deleted by it.
InControl == run_stop_flag /\ misc_thread = "live" /\ pc \notin FactorySteps

\* misc takes the door for open, and the lock is open, unless the shell or a
\* factory test drove it since misc did: misc then believes the door open and does
\* not drive the lock again.
HeldOpen == door_open /\ (doorPin \/ forced)

\* A fire-panel signal that stays, with the supply present and misc_task in
\* control, in the end opens the door for as
\* long as it stays.
FireOpensDoor ==
    <>[](is_fire_machine /\ ~is_check("POWERDOWN") /\ InControl)
        => <>[](fire_machine_open /\ HeldOpen)

\* The same for the emergency switch, which is not filtered any further.
EmergencyOpensDoor ==
    <>[](is_check("EMERGENCY") /\ InControl) => <>[]HeldOpen

Quiet == /\ key_sta("OPEN") = "RELEASE" /\ ~is_check("EMERGENCY") /\ ~misc_smoke_target
         /\ InControl

\* When nothing at the door asks for it any more, it is locked again unless
\* a remote command or the fire latch keeps it open.
Relocks == <>[]Quiet => []<>(~door_open \/ remote_open # 0 \/ fire_machine_open)
=============================================================================

# Verification of the door and fire-alarm controller firmware

The repository is the firmware of a door controller for a building entrance: an
STM32F401 under RT-Thread that unlocks the door, sounds the siren and reports to a
server over NB-IoT when a key is pressed, the emergency switch is closed, the fire
panel raises an alarm or the server commands it.  Its own code is
`src/stm32f401-st-nucleo/applications/`; all file names below are relative to it.
`rt-thread/`, `libraries/`, `board/` and the online packages are third-party code.

This directory holds TLA+ models of that code, TLC configurations that check them
on small instances and TLAPS proofs for all instances.

## 1. Inventory

| part | state it keeps | operations | talks to |
|---|---|---|---|
| `extio.c/.h`, thread *extio* (priority 8, every 100 ms) | structure `extio`: debounced inputs and their timers, key events and times, supervised lines, relay requests | one pass: shift out the relays, read and debounce 24 inputs (FIRE_MACHINE builds), scan two keys, check supply and emergency line | read and written by *misc*, factory test through the macros of `extio.h`; no lock |
| `misc.c`, thread *misc* (10, every 100 ms) | five request flags (`key_open`, `emergency_open`, `remote_open`, `smoke_open`, `fire_machine_open`), `run_stop_flag`, `door_open`, `lock_time`, `smoke_report` | open the door for a request, sound the siren, report, lock again after 10 s of quiet, follow the supply and the fire panel, save the configuration, run the factory test | calls `nb_iot_publish_*`, `config_timming_save`, `factory_testcase`; drives the lock and siren pins |
| `nb-iot.c`, threads *mqtt* (5) and *nb_iot* (25) | `mqtt_connect_sta` | connect, subscribe, publish reports; the callback `sub_topic_handle1` executes the server's commands | writes `remote_open`, `run_stop_flag`, `config`; starts the OTA task; resets the CPU |
| `config.c` | structure `config` with its CRC, its image in the flash partition, semaphore `config_sem` | load or default at boot, save when the CRC has changed, shell edits | edited by mqtt, shell and OTA; saved by *misc*; releases `nb_iot_task` |
| `factory_test.c` | list of threads to delete | relay test, interactive input test | run inside *misc* on the SET key, or by utest in the shell, which first deletes *misc* |
| `ota.c`, thread *ota* (25) | `ota_running`, `new_ver` | fetch the version file, download, keep the version | started by mqtt and shell; edits `config.ver`, which *misc* must save before the restart |
| `lora.c`, thread *lora_recv* (10) | registry of wireless detectors, frame parser, `rx_sem` | receive, register, answer, set the band | **not started by this version** (`INIT_ENV_EXPORT(lora_init)` is commented out) |
| `main.c`, `hal.c`, `mnt.c` | none that others depend on | LED, unique id, mounting | - |

What is hard in this code: every structure is shared between threads without a lock;
*misc* reads a flag twice in one pass and resets flags after a blocking publish; the
request flags, the edge memories and the outputs are each set and cleared in
different branches; counters saturate; the configuration is copied to flash while it
may be edited and while the supply may fail; reports and the connection itself are tried
once; two delays (1 s before a reset, 1.5 s before a restart) have to be long enough for
another thread; a byte is parsed only when the buffer is empty, and a frame may announce
more data than its buffer holds.  The hazards are listed with their lines in
`PROJECT.json`.

## 2. Modules

| module | models | remarks |
|---|---|---|
| `ExtioAbs` | what `extio` promises its clients | abstract: a pass may report anything, but only a client withdraws a key event or changes a relay request |
| `Extio` | `extio.c` in detail: timers and counters | implements `ExtioAbs` (`ImplementsAbs`) |
| `ExtioShift` | the serial chain of `extio.c`, pulse by pulse | justifies the atomic pass of `Extio` |
| `Misc` | `misc.c` composed with `ExtioAbs`, the mqtt callback, the factory test, the shell, utest and reboots | one action per access to shared state |
| `ConfigAbs` | what `config.c` promises: a durable register | abstract |
| `Config` | `config.c` with its editors, crashes and flash faults | one action per flash operation; implements `ConfigAbs` (`ImplementsAbs`) |
| `NbIot` | `nb-iot.c`: start-up, commands, reports; with misc's save, the radio and the broker | |
| `Ota` | `ota.c` with its callers, misc's save, the update server and restarts | |
| `Lora` | `lora.c` with the UART driver, the radio and the shell | |
| `MiscProofs`, `ConfigProofs`, `ExtioProofs`, `ExtioShiftProofs`, `OtaProofs`, `NbIotProofs`, `LoraProofs` | theorems and their proofs | section 5 |
| `MCExtio`, `MCExtioShift`, `MCMisc`, `MCConfig`, `MCNbIot`, `MCOta`, `MCLora` | values of the constants for TLC | |

Definitions keep the names of the code (`misc_smoke_target`, `powerdown_target`,
`extio_key_scan`, ...).  Definitions marked *mutant* in a comment are deliberately
wrong variants of the definition that follows them.  They are never used by a
specification; each shows that a property notices a plausible bug of that kind.

**Extio.**  A pass of `extio_task` is one action `extio_task(buf, down, lows)` whose
parameters are the sampled levels.  This is sound: nothing of lower priority runs
during the pass, and the mqtt callback, the only thing above it, does not touch the
structure.  `save`, `timer`, `keySta`, `keyTime`, `checkSta`, `checkTime` are the
arrays of `extio_t`.  `held`, `low`, `differs`, `differed` are history variables.
`ByteOf` keeps the grouping of inputs into bytes, on which the debounce depends.

**ExtioShift.**  The two registers on the board (external) share `EXTIO_CLK_PIN`: every
pulse of `Clock` moves both.  `Load` takes any levels, so they may have changed at any
time before it.  A byte is the function of its bits, since the code only shifts and masks
bytes; that is also what lets the proofs go without powers of two.  The instance has three chips of two stages; the code differs between the
first chip and the others and between the first pulse and the others, nothing else.

**Misc.**  `pc` names the statement the thread is at.  Between two statements that
touch shared state, *extio* and *mqtt* may run; the shell (priority 20) only while
*misc* is blocked, in `rt_thread_delay` or inside `mqtt_publish`.  `Report` is
`nb_iot_publish_building` / `_powerdown`: without a connection it fails at once,
otherwise it is delivered or fails, and *misc* never repeats it.  `server` is what
the reports delivered so far say, and `stale` which of its two items, the door and the
supply, may be wrong: one is added by a lost report or a reboot, and the door by the
shell command `mqtt_publish_building` (`nb-iot.c:498`), which reports a shut door at any
time; misc's next delivered report of the item removes it.  The shell command
`misc_door_open` and the factory test drive the lock without misc's knowledge; `forced`
is set from then until misc drives it again.  `smoke_open` is never set in this version (its
assignments are commented out), so its disjunct and branch are omitted; so are the
floor, room and temperature fields of the report.  A cause that the callback
withdraws between the two reads of `remote_open` leaves `building_stus.cause`
uninitialised: `Garbage` is the set of values it may then have.  The factory test
is entered as `misc_task` enters it, or by `factory_test_tc_init` when utest is used in
the shell: that deletes the misc thread (`misc_thread`) wherever it is blocked, and
the test runs in its place.  The order in which it goes through the 24
inputs is not modelled.  The emergency handler in `misc.c` 185-188 is disabled.

**Config.**  The members are grouped into `Fields` that are edited together.  The
write copies one field at a time from RAM, so that an edit may fall in the middle.
`config_save` (boot) and the second half of `config_timming_save` are the same
statements and share their actions.  An edit by `rt_memset` and `strcpy` is two
`Edit` steps, the first to the empty value.  `Crash` is a loss of supply or
`CMD_DOWN_RESET`.  Edits do not happen while `config_init` runs: the mqtt client waits for
its semaphore and the shell has a lower priority than the main thread.  `ConfigAbs` has
three variables: the structure in RAM, the last snapshot of it, and what a boot would
read.  `MiscPauses` is everything that keeps *misc* from coming to `config_timming_save`,
and lets it again: `CMD_DOWN_STOP` and `CMD_DOWN_RUN`, a factory test, utest.  The
refinement mapping takes `config`, the structure the checksum was last computed for, and
the image if it passes the boot check.

**NbIot.**  `nb` is the step of `nb_iot_task`, `handler` that of `sub_topic_handle1`,
which is called for one message after the other by the client's thread and sleeps in it.
`Pass` is misc as far as it saves: it is here because a stopped misc does not save, which
neither `nb-iot.c` nor `config.c` shows on its own.  A save is one step; what happens
inside it is in `Config`.  `session`, `Reconnect` and `LinkChange` are the client library
and the radio, modelled from how the code uses them.  The settings are grouped into
`threshold` and `building_id`; `told` is the last answer the server received.

**Ota.**  Time matters here, so a pass of misc (0.1 s) is the unit: `SavePasses` is 12 in
the code (`save_time++>10`), `SaveDelay` 15 (`rt_thread_delay(1500)`).  Misc may miss any
number of passes while it waits in a report; `stalls` counts them, and `Margin`, 3 in the
code, is how many the delay has to spare.  What the server offers is chosen at the moment
it is compared.  `http_ota_fw_download` is not in the repository; it is taken to call
`ota_save_ver` once the image is complete and to restart the board.  `BuiltOn` gives each
release the day it was compiled on, which `ota_compile_time` turns into a version number.
A save is one step.

**Lora.**  The interrupt may come between any two steps of the thread.  A frame is reduced
to the bytes the parser tells apart.  The parser accepts up to 29 bytes of data and then
stores the checksum too, 53 bytes in all, where `recv_buf` has 50: a byte stored past the
end either hits nothing in use, and the model goes on, or spoils the thread's variables,
and the model follows the thread no further (`Spill`, `pc` = "spilt").  The checksum may
collide: `collided` says that something was taken for a frame that was not sent as one.
The set-up reads up to `SetupRead` bytes without the semaphore; that the radio answers
with no more is an assumption about the radio.  `lora_init` is not called in this version
(`lora.c:315`), so none of this runs on the board as released; the shell command `lora_set_band`, which is exported
all the same, would then use a device that was never found.

## 3. Runs

| run | question | instance |
|---|---|---|
| `extio_inputs` | does the debounce accept every steady level in time and no glitch? | 3 inputs in 2 bytes, all levels in every scan |
| `extio_keys` | do the key events and the supervised lines mean what they say, at saturation too? does the thread implement `ExtioAbs`? | 2 keys, 2 lines, a client that clears and sets at any time |
| `extio_debounce_gap` | *violation*: is a level accepted only when it was steady? | as `extio_inputs` |
| `misc_fire` | fire panel, smoke, supply and key against the control thread: does the latch follow the panel, is nobody who asks locked out, does a fire open the door? | FIRE_MACHINE, no server commands |
| `misc_remote` | server commands, failing reports, the shell's two commands and reboots against the control thread | no FIRE_MACHINE |
| `misc_factory` | a factory test entered at any point, by the SET key or by utest | all keys and lines |
| `misc_powerdown` | *violation*: is a fire alarm never raised in a power-down? | FIRE_MACHINE, supply, fire panel |
| `config_save` | is what boots genuine, is every edit saved in the end and skipped only when it has been, and does the code implement `ConfigAbs`? | 2 fields, 3 values, 3 edits, 2 crashes, every fault, misc stopping and resuming at any time |
| `extio_shift` | is every input in its bit, and do the relays never show a mixture? | 3 chips of 2 stages, all levels, all requests |
| `ota_update` | does `ota_running` keep updates apart and is it always given back? is the version in the flash before the restart, and is only newer firmware installed? | 2 callers, room for 2 threads, failures and crashes at any point, misc stopped or late by any number of passes, 3 releases, 2 of the same day, 2 of them offered, the newest also without its file, and an answer without a version |
| `nb_commands` | are settings kept, reports given and the connection reached, and is the callback the one `Misc` and `Config` assume? | all commands, 2 at a time, a refusal, a lost link, a reboot |
| `lora_receive` | what holds when bytes come at any time: no lost wake-up, no invented detector without a collision, frames understood and bytes parsed once as long as the thread keeps up, the frame buffer overrun only by too long a frame | 2 frames of 4 kinds, one of them too long for `recv_buf`, a lost byte, a set-up, a buffer of 2 bytes |

*Bounds.*  The time constants (30 scans, 100 passes, ...) are scaled down to 0-4.
Every comparison in the code is against one threshold, and the instances let each
counter pass its threshold and, where it saturates, reach the limit and stay there;
the order of the thresholds (`PressTime < KeepTime < TimeMax`) is kept.  Two inputs
that share a byte and one that does not are all the debounce can tell apart.  One
relay stands for eight: they are always requested together except in the factory
test.  `DoorValues` has 0, 1 and 256, which becomes 0 in a `uint8_t`.  In `Misc` the
signals are not bounded at all: they may change in every scan.  Three edits allow an
edit before, during and after a save, and two crashes a crash of the recovery from a
crash.  Two commands on their way in `NbIot` are what it takes for one to wait behind
another or to undo it (stop and run, set and reset).  In `Ota` two callers are all there
are; offers, crashes and failures are not bounded, and the two delays are scaled from 12
and 15 passes to 2 and 3, so that misc may miss as many passes as the margin and more.
Two frames in `Lora` let the end of one run into the beginning of the next and a registry
of one detector is full after the first.  A thread woken for one byte and then two counts
of `rx_sem` behind (`MaxBehind`) has the ring buffer of two overflow.  The one frame too
long for the `recv_buf` of 8 bytes overruns it by its last byte of data and by the
checksum, as 28 and 29 bytes do in the code, and the checksum, a number below 16, collides
on mixtures of these frames.

*Splitting.*  `misc_fire` and `misc_remote` differ in the build flag and in the events
that may occur; together they fire every action except the factory test's, which
`misc_factory` fires.

*Fairness.*  Only progress of the thread itself is assumed.  `misc_task`: the threads
above it sleep 100 ms between passes or wait for the network, and `mqtt_publish` returns
at the latest after its timeout.  No fairness is assumed of signals, commands or the
connection.  In `Config`: the boot, a save that has begun, the next one as long as misc
comes to it, which nothing guarantees (`EventuallySaved` is about a misc that from some
point on does), and `nb_iot_task` once the semaphore has been posted.  In `NbIot`: the two threads and misc, `config_init` (which
ends, as `NbEventuallyUp` shows, unless the partition is missing), and of the
environment only that a radio without a link finds one in the end and the client
reconnects.  In `Ota`: the callers once past the test, the ota threads (the web client
has timeouts) and the passing of time.  `Lora`, `ExtioShift` and the runs of safety
properties assume none.

*Deadlock* is not checked in `lora_receive`, where the environment is bounded and the
system then rests.

What the properties say is in the comment above each of them.  Some deserve a word:

* `ServerInformed` speaks of each item by itself.  After a lost report, a reboot or the
  shell's own report nothing can be promised of the item until misc next reports it, since
  the code repeats nothing; from that report on the property holds again.
* `ServerInformed` is checked in `misc_remote`, where reports fail, causes are withdrawn
  and the board reboots, but the supply does not change; that part is proved
  (`ServerIsInformed`), and `misc_fire` fires its steps.
* `EmergencyOpensDoor` and `FireOpensDoor` are about the lock itself and not only
  `door_open`, except while somebody else drove it last (`forced`): misc does not drive the
  lock of a door it believes open (`misc.c:218`), so a door shut at the shell stays shut
  however long the switch asks.
* `NeverLeftUnlocked` is about the outputs whatever `door_open` says, so also about a test
  entered with the door open, after which misc goes on believing it open.
* `AskedIsServed` does not speak of `remote_open`: a remote command that arrives between
  the decision at `misc.c:212` and the lock branch is erased by it.
* `CallbackAsAssumed` ties three modules together.  `Misc` has its own, looser callback and
  connection, and `Config` admits edits only once `config_init` has returned; the property
  says that the callback of `NbIot`, with its queue, its start-up and its losses, stays
  within both.
* `Relocks` excepts a door held by `remote_open` or `fire_machine_open`.  Both really
  can hold it for ever: a remote command stays set if it arrives after the reset at
  `misc.c:285`, and a release of the fire panel seen first by the poll at `misc.c:58`
  clears `powerdown_target`, so that line 141 never sees it.  `misc_remote` checks it, so
  in the build without the fire panel.
* `OneUpdate` excepts two callers that are both between the test of `ota_running` and its
  assignment.  The run reaches that state: the shell tests, the mqtt thread preempts it,
  tests and sets, and both create a thread.
* `SettingKept` counts only passes of a running misc.  After `CMD_DOWN_STOP` nothing is
  saved (`misc.c:203` continues before `config_timming_save`), so a setting sent to a
  stopped board is lost with the next reset, however long one waits; so is the version of
  an update, which is why `VersionKept` excepts a stopped misc, and `EventuallySaved` one
  that does not run from some point on.
* `VersionKept` excepts a misc that missed more than `Margin` passes during the delay.  A
  report that waits in `mqtt_publish` (`misc.c:279`) for more than 0.3 s is enough, and the
  version is then lost; the run reaches it.
* `OverrunOnlyIfLong` does not say that `recv_buf` is never overrun, which is false, but
  that only a length byte of 27 to 29 leads there, whatever mixture of bytes it comes from,
  and how far it goes.  `CleanFrameHeard` promises such frames nothing.
* `OnlySenders` excepts a matching checksum on bytes that were not sent as a frame.  The
  run reaches one, and a detector that never sent is then registered.
* `EachByteOnce` excepts a byte that arrives before the one before it has been handled;
  the run reaches that, and bytes are then dropped or parsed twice (section 4).  At 9600
  baud a byte takes about 1 ms, so the parser works as long as nothing of higher priority
  holds the processor for longer.
* `OnlyNewerInstalled` holds because no release is compiled before the day in its number
  (`ReleasesAssumption`; section 4).

## 4. Disagreements with the documents

* **Debounce** (`extio_debounce_gap`).  The release notes give 3 s as the detection time
  of an input, and a comment says each input has its own timer.  Timers are cleared only in a byte that differs from its saved value, so
  an input that flickers, alone in its byte, is accepted on the sum of its differing
  scans.  What does hold is `GlitchRejected`: that sum is at least the threshold.
* **Power-down** (`misc_powerdown`).  The release notes say the report of a fire alarm on
  loss of the controller's own supply was fixed, and a comment says a power-down cancels
  the report.  The supply is looked at only when the inputs are polled; a target polled
  just before is acted on during the power-down.

Others, read from the code while it was modelled.  The models behave as the code does;
no run is about them:

* **Factory test**.  It asks for the SET key (`factory_test.c:89`) and waits for PRESS.  A
  key held for two seconds reads KEEP, which nothing here clears, so the test and with it
  the control thread waits for ever (`FactoryKey`).  `NeverLeftUnlocked` shows that the
  lock is shut and siren and relays are off from then on.
* **utest**.  `factory_test_tc_init` deletes the threads of its list each time it is called.
  The second time they have been freed, against the assertion of `rt_thread_delete`
  (`rt-thread/src/thread.c:437`); the model ends there (`pc` = "hung").  Nothing restarts
  the control thread after the first time either; the loop that would resume it is
  commented out.
* **Versions**.  An offer that is not newer is recorded as the current version, also when
  it is older, and the log says "no new version" (`ota.c:84`).  With releases compiled on
  the day in their number the compile date makes up for it (`OnlyNewerInstalled`); one
  compiled the day before can be replaced by an older release.
* **Commands**.  `nb-iot.h:23` and 24 say that `CMD_DOWN_GET_SMOKE` and
  `CMD_DOWN_SET_SMOKE` address the given detector.  The first reports nothing
  (`nb-iot.c:83`), the second changes the settings of all (`nb-iot.c:93`).
* **Daily reset**.  It is announced at every start (`nb-iot.c:570`) and commented out
  (585-597).
* **Parser of the detectors**.  The comment at `lora.c:146` says a byte is read and, if
  there is none, the semaphore is waited for; the parser sits in the wrong branch and
  handles only the last byte of those buffered.
* **Buffer of the detectors**.  Line 177 accepts a length below 30, `recv_buf` (line 120)
  has room for 26 bytes of data and the checksum: with 27 to 29 one to three bytes are
  stored behind it.
* The comment at `nb-iot.c:391` gives 1 for OK where `STUS_OK` is 0, and the release notes
  speak of an update check on the SET key where `misc.c:355` runs the factory test.

## 5. Proofs

What a theorem states holds for every value of the constants that satisfies the
assumptions below; nearly all of it is also checked by a run on a small instance.  A proof
of an invariant establishes a stronger one that is inductive; the tables say what had to
be added and why.  Six theorems have no run of their own: the types of `Config`, `Extio`
and `Lora`, and `ReleasedOnce`, `StartedUp` and `RegistrySound`, which are stated in the proof
modules.

`MiscProofs`, for every value of the time constants, every set of inputs, relays
and events:

| theorem | property | strengthening it needs |
|---|---|---|
| `TypeCorrect` | `TypeOK` | `LockTimeBounded`: an open door has `lock_time <= LockTime`, and "lock" is only reached with the door open; otherwise one more increment would leave the range |
| `FireLatch` | `FireLatchConsistent` | at "lock" `fire_machine_open` is false (nothing asked for the door), so that clearing it alone, as line 305 does, changes nothing |
| `RequestsServed` | `AskedIsServed` | `HeldInv`: at "lock" nobody asks, since only misc writes these requests and it has just found none; past the decision a request finds the door open |
| `SirenCorrect`, `DoorPinCorrect`, `NoDoorLeftOpen` | `SirenMatchesOpener`, `DoorPinMatches`, `NeverLeftUnlocked` | `OutputInv`: at "cause" the door is open and the outputs still off; within the factory test `tampered` is set, and `forced` where it has the lock open; past its output steps the outputs are off; a deleted misc is out of its own steps (`DeletedIsOut`) |
| `ServerIsInformed` | `ServerInformed` | `ToldInv`: an item that is not stale lags behind only between a change and its report; a report of opening finds the door open, one of closing finds it locked without a cause.  A misc that utest deletes in the middle of a report owes it for ever, which is harmless only because of `DeletedIsOut` |
| `ClientOfExtio` | `UsesExtio` | the types: acknowledging a key and setting relays are client writes of `ExtioAbs` |

`ConfigProofs`, for any fields, values, edits, crashes and faults:

| theorem | property | strengthening it needs |
|---|---|---|
| `TypeCorrect` | `TypeOK` | `ControlOK`: the types of the control variables |
| `NeverTorn` | `ImageNeverTorn` | `SaveInv`: while a save runs `config.crc` is the checksum of the structure it began with, and the checksum in flash is the erased one until the end. So an image mixed by an edit cannot match the checksum written last |
| `GenuineBoot` | `BootsGenuine` | `BootInv`: until `config_init` returns the defaults stand |
| `Implements` | `ImplementsAbs` | the same two; only the write of the checksum moves the abstract disk, every other step of the save is a stutter or loses the image (`AbsStep`) |
| `SkipsSafely` | `SkipsOnlySaved` | `SkipInv`: while the checksum in RAM matches and no excuse applies, the fields written so far are those of the structure, so that a finished write is the whole of it |
| `NbReleasedOnce` | `ReleasedOnce`: the semaphore is posted once per boot, when `config_init` has found the partition and returned | `SemInv`: who is at the boot step is `config_init`, and nothing is missing while it runs |

`ExtioProofs`, for every number of keys, lines and inputs, every grouping into bytes and
every order-preserving choice of the times:

| theorem | property | strengthening it needs |
|---|---|---|
| `TypeCorrect` | `TypeOK` | - |
| `SteadyAccepted`, `GlitchesRejected` | `SteadyInputAccepted`, `GlitchRejected` | `InputInv`: the timer lies between the scans an input has differed in a row and those it has differed in all |
| `LineIsSteadyLow`, `PressesSeen`, `EventsEarned` | `CheckIsSteadyLow`, `NoPressMissed`, `EventsAreEarned` | `LineInv`, `KeyInv`: a counter is the length of the hold until it saturates, and from then on both are beyond every threshold |
| `Implements` | `ImplementsAbs` | the types; every pass is a `Scan` |

`ExtioShiftProofs`, for chips and chains of every length:

| theorem | property | strengthening it needs |
|---|---|---|
| `RelaysWhole` | `RelaysNeverMixed` | `SendInv`: after c pulses the first c stages are the c highest bits, the work byte the rest, moved up |
| `InputsRead` | `InputsInPlace` | `ReadInv`: the register is the loaded levels moved by the pulses given, one fewer than the bits read; each byte is its part of the levels, the current one as far as it has been read |

`OtaProofs`, for every number of callers and threads, every set of releases and offers:

| theorem | property | strengthening it needs |
|---|---|---|
| `OneUpdateAtATime` | `OneUpdate` | `ApartInv`: unless two callers raced, whoever is past the test, creating or running is alone, and `ota_running` is set from its assignment to the end of the thread |
| `NeverStuckBusy` | `RefusedOnlyWhenBusy` | `TypeInv` |
| `VersionIsKept` | `VersionKept` | `KeptInv`: the version is in the flash, or the ota thread has waited no longer than misc has counted since its last save and missed; so a wait of `SaveDelay` without a save means more than `Margin` passes missed |
| `NoDowngrade` | `OnlyNewerInstalled` | `NewerInv`: a thread that waits or downloads has a version newer than the firmware that runs, because the compile date it was compared with is |

`NbIotProofs`, for every save period, all commands in every order, and any losses:

| theorem | property | strengthening it needs |
|---|---|---|
| `SettingsKept` | `SettingKept` | `SettingInv`: RAM and flash agree, or misc has made no more passes since the edit than since its last save |
| `RunStopIsKnown` | `RunStopKnown` | `RunInv`: in the middle of a stop or a run the flag is already set and the report still to come |
| `StartsUpHearing` | `StartedUp`: past its start-up the board hears commands, unless it was refused or the session lost | `NetInv`: the flag is off until the one attempt to connect; sessions and commands exist only under it; a subscriber not refused has a session or has lost it.  `DataInv`: there is a building id to subscribe with |
| `CallbackIsAssumed` | `CallbackAsAssumed` | the same two |

`LoraProofs`, for every size of the buffer, the frames and the registry, any bytes, and
every timing of the interrupt:

| theorem | property | strengthening it needs |
|---|---|---|
| `TypeCorrect` | `TypeOK` | `ParserOK`: at each `recv_step` the frame has the length that step implies, and `data_cnt` is less than the length byte in it |
| `OverrunIsBounded` | `OverrunOnlyIfLong` | `ParserOK` again: it ties what has been stored to `data_cnt` and the length byte |
| `WakeupNotLost` | `NoLostWakeup` | `WakeInv`: before the thread sleeps, the buffer is empty or the semaphore counts |
| `ByteParsedOnce` | `EachByteOnce` | `PaceInv`: without an overrun at most one byte is under way, and the counts the set-up left behind find nothing to read |
| `CleanFramesHeard` | `CleanFrameHeard` | `CleanInv`: while the thread keeps up, the parser holds a beginning of the frame and its step follows from the length, at most two more bytes are in the driver and in `ch`, and the rest is on the air; `HeardInv`: what was understood stays so |
| `RegistryIsSound` | `RegistrySound`: no detector twice, none with the void address, none answered that is not registered, unless the thread is spoilt | the types |
| `OnlySendersRegistered` | `OnlySenders` | without a collision, a checksum that matches is that of a frame sent, whose bytes give back its fields |

Assumptions, besides that bounds are naturals and constants have their types:

* `Misc`: the named channels exist (`ChannelsAssumption`), `ReportTime < TimeMax`.
* `Extio` (`TimesAssumption`): the order of the times, 2 < 20 < 255, 10 < 255 and
  30 < 255 in the code, so that a threshold is reached before the counter saturates.
* `Config` (`CrcAssumption`): a checksum without collisions, and erased flash that fails
  the check.  CRC-8 has collisions, so for the real code `NeverTorn`, `GenuineBoot` and
  `Implements` hold up to one change in 256 that goes unnoticed.  There is at least one
  field.
* `Ota`: `SavePasses <= SaveDelay` (12 passes and 15 in the code), used by
  `VersionIsKept`; nothing is assumed of how late misc may be; `ReleasesAssumption`, that no release is compiled
  before the day in its number, used by `NoDowngrade` only.  The second is about how
  releases are made, not something the code ensures.
* `NbIot` (`IdsAssumption`): the value that stands for no topic is not a building id.
* `Lora`: a reply to a set-up fits into the ring buffer (`Replies < Bufsz`) and is no
  longer than the set-up reads (`Replies <= SetupRead`, 11 in the code; about the radio),
  `recv_buf` has room at least for a frame without data (`RecvBufAssumption`), frames
  announce at most `MaxLen` bytes and a checksum is a number (`CrcAssumption`).  Nothing
  is assumed about its collisions.

Only model-checked:

* the liveness properties `FireOpensDoor`, `EmergencyOpensDoor`, `Relocks`,
  `EventuallySaved`, `NbEventuallyUp`, `Answered`, `Connects` and `EventuallyFree`: they
  need fairness and ENABLED, which the prover does not handle.  What each step on the way
  may not undo is proved of most: `RequestsServed` for the first two, `SkipsSafely`,
  `NbReleasedOnce`, `StartsUpHearing` and `NeverStuckBusy` for `EventuallySaved`,
  `NbEventuallyUp`, `Connects` and `EventuallyFree`.

## 6. Not modelled, and the plan

Not modelled:

* `main.c` (blinks an LED and prints the version), `hal.c` and `mnt.c` (read the chip's id,
  mount file systems at start-up): pure I/O, no state that another part depends on.
* What is printed or logged, JSON formatting and parsing, the file system test,
  `ota_upload_file` and `lora_set_building`, which only send.
* Third-party code: RT-Thread, the HAL and CMSIS headers, the board support and the copy of
  them under `dist/`, over 99 % of the lines of the repository.  RT-Thread is taken as the
  interleaving its priorities allow; the mqtt client, the downloader, `fal` and the CRC
  routines are external.  The UART driver's ring buffer is part of `Lora`.
* The 8-bit checksum of `Config`, which uses one without collisions.
* A key event raised between the read at `misc.c:206` and `key_clr` is lost, in the model
  as in the code; nothing says what should become of it.

The map covers all threads and shared structures of `applications/`.

How the parts fit together is proved where one module stands on another's terms: `Extio`
implements `ExtioAbs` and `Misc` is a client of it (`ClientOfExtio`); `Config` implements
`ConfigAbs`; the callback of `NbIot` is the one `Misc` and `Config` assume
(`CallbackIsAssumed`); `ExtioShift` justifies the atomic pass of `Extio`.  Left informal is
the save that `NbIot` and `Ota` take as one step.  It stands for a save of `Config` that
neither fails nor is edited or cut off in the middle: such a save ends with the flash equal
to RAM (`SkipsSafely`), one that is edited is repeated, and one that is cut off after
the erase leaves no image, and the defaults at the next boot (`Implements`).  `SettingKept` and `VersionKept`
are to be read with that proviso.

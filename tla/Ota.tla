-------------------------------- MODULE Ota --------------------------------
(***************************************************************************)
(* The firmware update (ota.c).  ota_init is called by the mqtt callback   *)
(* (CMD_DOWN_UPDATE) and by the shell, tests and sets ota_running without  *)
(* a lock, and starts a thread running ota_task.  That thread compares the *)
(* version the server offers with the one recorded in the configuration    *)
(* and with the compile date, and downloads.  The downloader calls         *)
(* ota_save_ver, which records the version in RAM and counts on the misc   *)
(* thread to bring it to the flash before the board restarts: the pass of  *)
(* misc_task, a tenth of a second, is the unit of time here.               *)
(***************************************************************************)
EXTENDS Integers, FiniteSets

CONSTANTS
    Starters,       \* the threads that call ota_init
    Tasks,          \* room for ota threads
    Versions,       \* the version numbers yyyymmddnn that are released
    BuiltOn,        \* the day each of them was compiled on, as <<year, month, day>>
    First,          \* the version the board is delivered with
    SavePasses,     \* passes of misc from one save to the next: 12
    SaveDelay,      \* passes in the 1.5 s of ota_save_ver: 15
    Offered,        \* what the server may offer, older versions too
    Faults          \* operations that may fail in this instance

\* What ver.json may say: cJSON finds no "ver" and ver stays 0, or no "file".
NoVersion == 0
Offers == [ver : Versions \cup {NoVersion}, file : BOOLEAN]

ASSUME VersionsAssumption ==
    /\ Versions \subseteq Nat \ {NoVersion} /\ First \in Versions
    /\ BuiltOn \in [Versions -> Nat \X (0..11) \X (1..31)]
ASSUME BoundsAssumption ==
    /\ {SavePasses, SaveDelay} \subseteq Nat \ {0}
    /\ SavePasses <= SaveDelay
ASSUME OffersAssumption == Offered \subseteq Offers

VARIABLES
    starter,        \* where each caller is in ota_init
    ota_running,
    led,            \* UPDATE_OTA_PIN is low
    task,           \* where each ota thread is in ota_task
    ver,            \* the version each of them found to be newer
    new_ver,
    configVer,      \* config.ver in RAM ...
    imageVer,       \* ... and in the flash image
    save_time,      \* misc_task's count of passes since its last save
    waited,         \* passes each thread has spent in ota_save_ver
    stalls,         \* history: passes misc missed in them
    miscRuns,       \* FALSE: misc is stopped by the server, in the factory
                    \* test or deleted, and saves nothing
    firmware,       \* the version that runs
    halted,         \* history: misc was stopped while ota_save_ver waited
    raced,          \* history: two callers passed the test together
    failed          \* history: a thread could not be created

time == <<save_time, waited, stalls, halted>>
vars == <<starter, ota_running, led, task, ver, new_ver, configVer, imageVer,
          time, miscRuns, firmware, raced, failed>>

Live == {t \in Tasks : task[t] # "none"}
Free == CHOOSE t \in Tasks : task[t] = "none"
Saving == {t \in Tasks : task[t] = "saving"}
Starting == {s \in Starters : starter[s] # "idle"}

\* ota_compile_time: the day, with 99 for the last version of the day.
ota_compile_time(d) == d[1] * 1000000 + (d[2] + 1) * 10000 + d[3] * 100 + 99

\* No release is compiled before the day in its number.
ASSUME ReleasesAssumption == \A v \in Versions : v <= ota_compile_time(BuiltOn[v])

-----------------------------------------------------------------------------
\* RAM after power-on; config.ver is what config_init read.
PowerOn ==
    /\ starter' = [s \in Starters |-> "idle"]
    /\ ota_running' = FALSE /\ led' = FALSE
    /\ task' = [t \in Tasks |-> "none"]
    /\ ver' = [t \in Tasks |-> NoVersion]
    /\ new_ver' = NoVersion
    /\ configVer' = imageVer
    /\ save_time' = 0 /\ waited' = [t \in Tasks |-> 0] /\ stalls' = 0
    /\ miscRuns' = TRUE /\ halted' = FALSE
    /\ raced' = FALSE /\ failed' = FALSE

Init ==
    /\ starter = [s \in Starters |-> "idle"]
    /\ ota_running = FALSE /\ led = FALSE
    /\ task = [t \in Tasks |-> "none"]
    /\ ver = [t \in Tasks |-> NoVersion]
    /\ new_ver = NoVersion
    /\ configVer = First /\ imageVer = First
    /\ save_time = 0 /\ waited = [t \in Tasks |-> 0] /\ stalls = 0
    /\ miscRuns = TRUE /\ halted = FALSE
    /\ firmware = First
    /\ raced = FALSE /\ failed = FALSE

-----------------------------------------------------------------------------
(* ota_init.                                                               *)

AdmitAlways == TRUE        \* mutant: ota_running not tested
Admit == ~ota_running

Test(s) ==
    /\ starter[s] = "idle" /\ Admit
    /\ starter' = [starter EXCEPT ![s] = "set"]
    /\ raced' = (raced \/ \E r \in Starters : starter[r] = "set")
    /\ UNCHANGED <<ota_running, led, task, ver, new_ver, configVer, imageVer, time,
                   miscRuns, firmware, failed>>

\* Another update runs: RT_ERROR.
Refuse(s) == starter[s] = "idle" /\ ~Admit /\ UNCHANGED vars

Set(s) ==
    /\ starter[s] = "set"
    /\ starter' = [starter EXCEPT ![s] = "create"]
    /\ ota_running' = TRUE
    /\ UNCHANGED <<led, task, ver, new_ver, configVer, imageVer, time, miscRuns,
                   firmware, raced, failed>>

\* The LED, and the thread if there is memory for it.
Create(s) ==
    /\ starter[s] = "create"
    /\ starter' = [starter EXCEPT ![s] = "idle"]
    /\ led' = TRUE
    /\ \/ Live # Tasks /\ task' = [task EXCEPT ![Free] = "get"] /\ UNCHANGED failed
       \/ ("create" \in Faults \/ Live = Tasks) /\ failed' = TRUE /\ UNCHANGED task
    /\ UNCHANGED <<ota_running, ver, new_ver, configVer, imageVer, time, miscRuns,
                   firmware, raced>>

ota_init(s) == Test(s) \/ Refuse(s) \/ Set(s) \/ Create(s)

-----------------------------------------------------------------------------
(* ota_task.                                                               *)

Moves(t, to) == task' = [task EXCEPT ![t] = to]

\* ver.json cannot be fetched, read or parsed.
GetFails(t) ==
    /\ task[t] = "get" /\ "get" \in Faults
    /\ Moves(t, "end")
    /\ UNCHANGED <<starter, ota_running, led, ver, new_ver, configVer, imageVer, time,
                   miscRuns, firmware, raced, failed>>

NewerThanRecord(v) == v > configVer     \* mutant: the compile date is not looked at
Newer(v) == v > configVer /\ v > ota_compile_time(BuiltOn[firmware])

\* The offer of the server is compared; one that is not newer becomes the
\* recorded version, whatever it is.
Compare(t, o) ==
    /\ task[t] = "get"
    /\ IF Newer(o.ver)
         THEN /\ IF o.file THEN Moves(t, "delay") /\ ver' = [ver EXCEPT ![t] = o.ver]
                           ELSE Moves(t, "end") /\ UNCHANGED ver
              /\ UNCHANGED <<configVer, led>>
         ELSE configVer' = o.ver /\ led' = FALSE /\ Moves(t, "end") /\ UNCHANGED ver
    /\ UNCHANGED <<starter, ota_running, new_ver, imageVer, time, miscRuns, firmware,
                   raced, failed>>

Delay(t) ==
    /\ task[t] = "delay"
    /\ new_ver' = ver[t]
    /\ Moves(t, "download")
    /\ UNCHANGED <<starter, ota_running, led, ver, configVer, imageVer, time,
                   miscRuns, firmware, raced, failed>>

\* http_ota_fw_download returns only when it fails.
DownloadFails(t) ==
    /\ task[t] = "download" /\ "download" \in Faults
    /\ Moves(t, "end") /\ ver' = [ver EXCEPT ![t] = NoVersion]
    /\ UNCHANGED <<starter, ota_running, led, new_ver, configVer, imageVer, time,
                   miscRuns, firmware, raced, failed>>

\* It has the whole image: ota_save_ver sets config.ver and waits.  misc may be
\* anywhere between two saves.
ota_save_ver(t) ==
    /\ task[t] = "download"
    /\ configVer' = new_ver
    /\ Moves(t, "saving")
    /\ waited' = [waited EXCEPT ![t] = 0]
    /\ IF Saving = {}
         THEN save_time' \in 0..SavePasses - 1 /\ stalls' = 0 /\ halted' = ~miscRuns
         ELSE UNCHANGED <<save_time, stalls, halted>>
    /\ UNCHANGED <<starter, ota_running, led, ver, new_ver, imageVer, miscRuns,
                   firmware, raced, failed>>

SaveTooShort == SaveDelay - 1   \* mutant: a pass less
SavedFor == SaveDelay

\* The downloader then restarts the board with the new firmware.
Restart(t) ==
    /\ task[t] = "saving" /\ waited[t] = SavedFor
    /\ firmware' = ver[t]
    /\ PowerOn
    /\ UNCHANGED imageVer

FlagHeld == ota_running    \* mutant: ota_running not cleared at the end
FlagAfter == FALSE
LedAfter == FALSE

EndLoops(t) ==             \* mutant: the while(1) that is commented out
    /\ task[t] = "end"
    /\ Moves(t, "get")
    /\ UNCHANGED <<starter, ota_running, led, ver, new_ver, configVer, imageVer, time,
                   miscRuns, firmware, raced, failed>>
End(t) ==
    /\ task[t] = "end"
    /\ Moves(t, "none")
    /\ led' = LedAfter
    /\ ota_running' = FlagAfter
    /\ UNCHANGED <<starter, ver, new_ver, configVer, imageVer, time, miscRuns, firmware,
                    raced, failed>>

ota_task(t) ==
    \/ GetFails(t) \/ (\E o \in Offered : Compare(t, o)) \/ Delay(t)
    \/ DownloadFails(t) \/ ota_save_ver(t) \/ Restart(t) \/ End(t)

-----------------------------------------------------------------------------
(* The rest of the board, and the server.                                  *)

\* A save by misc while nothing waits for it.
Save ==
    /\ miscRuns /\ Saving = {} /\ imageVer # configVer
    /\ imageVer' = configVer
    /\ UNCHANGED <<starter, ota_running, led, task, ver, new_ver, configVer, time,
                   miscRuns, firmware, raced, failed>>

NextPass == (save_time + 1) % SavePasses

\* A tenth of a second of ota_save_ver: misc makes a pass, or misses it, as often
\* as it likes: it waits in mqtt_publish for seconds (nb_iot_publish_building).
Tick ==
    /\ \E t \in Saving : waited[t] < SavedFor
    /\ waited' = [t \in Tasks |-> IF t \in Saving /\ waited[t] < SavedFor
                                    THEN waited[t] + 1 ELSE waited[t]]
    /\ \/ /\ miscRuns
          /\ save_time' = NextPass
          /\ imageVer' = IF save_time' = 0 THEN configVer ELSE imageVer
          /\ UNCHANGED stalls
       \/ /\ miscRuns
          /\ stalls' = stalls + 1 /\ UNCHANGED <<save_time, imageVer>>
       \/ ~miscRuns /\ UNCHANGED <<stalls, save_time, imageVer>>
    /\ UNCHANGED <<starter, ota_running, led, task, ver, new_ver, configVer, miscRuns,
                   halted, firmware, raced, failed>>

\* CMD_DOWN_STOP, the factory test, or the shell's utest command: misc saves
\* nothing, until CMD_DOWN_RUN or the end of the test.
MiscStops ==
    /\ "misc" \in Faults
    /\ miscRuns' = ~miscRuns
    /\ halted' = (halted \/ (miscRuns /\ Saving # {}))
    /\ UNCHANGED <<starter, ota_running, led, task, ver, new_ver, configVer, imageVer,
                   save_time, waited, stalls, firmware, raced, failed>>

\* A loss of supply or CMD_DOWN_RESET; an image already complete is installed.
Crash ==
    /\ firmware' \in IF Saving = {} THEN {firmware} ELSE {ver[t] : t \in Saving}
    /\ PowerOn
    /\ UNCHANGED imageVer

Next ==
    \/ \E s \in Starters : ota_init(s)
    \/ \E t \in Tasks : ota_task(t)
    \/ Save \/ Tick \/ MiscStops
    \/ Crash

Spec == Init /\ [][Next]_vars

\* The callers and the ota threads get the processor, the transfers end (the
\* web client times out), and time passes.
FairSpec ==
    /\ Spec
    /\ \A s \in Starters : WF_vars(Set(s) \/ Create(s))
    /\ \A t \in Tasks : WF_vars(ota_task(t))
    /\ WF_vars(Tick)

-----------------------------------------------------------------------------
(* Properties.                                                             *)

\* ota_running, set and cleared by different threads, keeps the updates apart:
\* there is one ota thread at most, unless two callers were both between the
\* test and the assignment.
OneUpdate == raced \/ Cardinality(Live) + Cardinality({s \in Starters : starter[s] = "create"}) <= 1

\* Whatever fails on the way, ota_running is never left set nor the update LED
\* left on with no update under way, so none is refused for ever, except when
\* the thread could not be created: nothing clears the flag then.
RefusedOnlyWhenBusy ==
    ota_running \/ led => failed \/ Live # {} \/ Starting # {}

\* Every update comes to its end, with or without a new firmware, and the next
\* one is admitted.
EventuallyFree == []<>(failed \/ ~ota_running)

\* The 1.5 s of ota_save_ver are enough for misc, wherever it is between two
\* saves: after the restart the flash holds the version of the new firmware, unless
\* misc was stopped meanwhile, two updates overlapped, the supply failed first, or
\* misc, waiting in a report, missed more passes than the wait has to spare (3 in
\* the code).  Nothing in the code prevents the last: then the version is lost.
Margin == SaveDelay - SavePasses
VersionKept ==
    [][\A t \in Tasks : Restart(t) =>
          raced \/ halted \/ stalls > Margin \/ configVer' = firmware']_vars

\* What ota_task calls a new version ("no new version" otherwise) is one newer
\* than the firmware that runs.  It rests on ReleasesAssumption: the compile date
\* then protects the board, even when config.ver was lost or lowered by an older
\* offer.
OnlyNewerInstalled == [][\A t \in Tasks : Restart(t) => ver[t] > firmware]_vars
=============================================================================

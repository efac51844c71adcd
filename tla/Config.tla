------------------------------- MODULE Config -------------------------------
(***************************************************************************)
(* The configuration (config.c): the structure `config' in RAM with its    *)
(* checksum, and its image in the flash partition "config".                *)
(*   - config_init, at boot: reads the image, falls back to the defaults,  *)
(*     and posts the semaphore nb_iot_task waits for;                      *)
(*   - config_timming_save, run by the misc thread every few passes: saves *)
(*     the structure when its checksum has changed;                        *)
(*   - the mqtt callback, the shell commands and the OTA task, which edit  *)
(*     the structure at any time, in the middle of a save too;             *)
(*   - a loss of supply, at any time.                                      *)
(* The writer copies the structure from RAM while it writes: Write copies  *)
(* one field, in any order, the checksum last.                             *)
(***************************************************************************)
EXTENDS Integers, FiniteSets

CONSTANTS
    Fields,       \* the groups of members that are edited together
    Values,       \* what a field may hold; a shell edit first empties it
    Default,      \* the configuration config_default sets up
    Zero,         \* the configuration of a RAM that has just been cleared
    Erased,       \* what a field of an erased flash reads as
    NoCrc,        \* what the checksum of an erased flash reads as
    Crc(_),       \* crc8_cal (external)
    Faults,       \* flash operations that may fail in this instance
    MaxCrashes, MaxEdits   \* bounds on the environment

Configs == [Fields -> Values]
Images == [Fields -> Values \cup {Erased}]
Checksums == {Crc(c) : c \in Images} \cup {NoCrc}

ASSUME BoundsAssumption == MaxCrashes \in Nat /\ MaxEdits \in Nat
ASSUME ValuesAssumption ==
    /\ Default \in Configs /\ Zero \in Configs
    /\ Fields # {} /\ Erased \notin Values
\* The checksum tells any two images apart and an erased partition is not
\* taken for an image.  For an 8-bit checksum this idealises: README.
ASSUME CrcAssumption ==
    /\ \A c, d \in Images : Crc(c) = Crc(d) => c = d
    /\ \A c \in Images : Crc(c) # NoCrc

VARIABLES
    pc,           \* of the thread in config.c: boot, then misc
    booting,      \* config_init has not returned
    config,       \* the structure in RAM, without its checksum
    crc,          \* config.crc in RAM
    image,        \* the fields in flash
    imageCrc,     \* the checksum in flash
    written,      \* the fields the running write has copied
    config_sem,   \* the semaphore is available
    nbUp,         \* nb_iot_task has taken it
    miscRuns,     \* the misc thread calls config_timming_save every few passes
    target,       \* history: the structure when the checksum of the save was taken
    saved,        \* history: target of the last save that erased the flash
    missing,      \* history: config_init did not find the partition
    faulted,      \* history: the last save failed
    reverted,     \* history: since the last save began, an edit restored the
                  \* structure whose checksum config.crc holds
    crashes, edits

flash == <<image, imageCrc>>
ram == <<config, crc>>
start == <<config_sem, nbUp>>
excuses == <<faulted, reverted>>
history == <<target, saved, missing, excuses>>
bounds == <<crashes, edits>>
vars == <<pc, booting, ram, flash, written, start, miscRuns, history, bounds>>

Steps == {"boot", "find", "erase", "write", "idle"}
ErasedImage == [f \in Fields |-> Erased]
Valid == Crc(image) = imageCrc

-----------------------------------------------------------------------------
Init ==
    /\ pc = "boot" /\ booting = TRUE
    /\ config = Zero /\ crc = NoCrc
    /\ image = ErasedImage /\ imageCrc = NoCrc
    /\ written = {}
    /\ config_sem = FALSE /\ nbUp = FALSE
    /\ miscRuns = TRUE
    /\ target = Default /\ saved = Default
    /\ missing = FALSE /\ faulted = FALSE /\ reverted = FALSE
    /\ crashes = 0 /\ edits = 0

PostedIfRead == config_sem \/ (booting /\ pc = "boot")   \* mutant: not after config_default
Posted == config_sem \/ booting

\* A save ends; with one that config_init called, config_init posts the
\* semaphore too, whatever became of the save.
Return ==
    /\ pc' = "idle"
    /\ booting' = FALSE
    /\ config_sem' = Posted

\* A new structure has been adopted: earlier failures no longer matter.
Excuse(f, r) == faulted' = f /\ reverted' = r
Fails(op) == op \in Faults /\ Excuse(TRUE, reverted) /\ Return

-----------------------------------------------------------------------------
(* config_init.                                                            *)

ImageAccepted == Crc(image) = imageCrc
FallbackZero == Zero            \* mutant: nothing is set after the memset
Fallback == Default

\* The partition is missing: config_init returns without posting.
BootNoPartition ==
    /\ pc = "boot" /\ "find" \in Faults
    /\ missing' = TRUE
    /\ Excuse(TRUE, FALSE)
    /\ pc' = "idle" /\ booting' = FALSE
    /\ UNCHANGED <<ram, flash, written, start, miscRuns, target, saved, bounds>>

\* A good image is used as it is.
BootRead ==
    /\ pc = "boot" /\ ImageAccepted
    /\ config' = image /\ crc' = imageCrc
    /\ target' = image
    /\ Excuse(FALSE, FALSE)
    /\ Return
    /\ UNCHANGED <<flash, written, nbUp, miscRuns, saved, missing, bounds>>

\* config_default, for a bad image or a failed read: the defaults, saved by
\* config_save.
BootDefault ==
    /\ pc = "boot"
    /\ ~ImageAccepted \/ "read" \in Faults
    /\ config' = Fallback /\ crc' = Crc(config')
    /\ target' = Default
    /\ Excuse(FALSE, FALSE)
    /\ pc' = "find"
    /\ UNCHANGED <<booting, flash, written, start, miscRuns, saved, missing, bounds>>

-----------------------------------------------------------------------------
(* config_timming_save; config_save shares its second half.                *)

SaveDueOnce == crc = NoCrc     \* mutant: only a structure never checked
SaveDue == Crc(config) # crc

\* The checksum is taken and stored before anything is written.
TimmingSave ==
    /\ pc = "idle" /\ miscRuns /\ SaveDue
    /\ crc' = Crc(config)
    /\ target' = config
    /\ Excuse(FALSE, FALSE)
    /\ pc' = "find"
    /\ UNCHANGED <<booting, config, flash, written, start, miscRuns, saved, missing,
                   bounds>>

\* Nothing changed since the last save.
TimmingSaveSkips == pc = "idle" /\ miscRuns /\ ~SaveDue /\ UNCHANGED vars

FindPartition ==
    /\ pc = "find"
    /\ \/ pc' = "erase" /\ UNCHANGED <<booting, config_sem, excuses>>
       \/ Fails("find")
    /\ UNCHANGED <<ram, flash, written, nbUp, miscRuns, target, saved, missing, bounds>>

Erase ==
    /\ pc = "erase"
    /\ image' = ErasedImage /\ imageCrc' = NoCrc
    /\ written' = {}
    /\ saved' = target
    /\ \/ pc' = "write" /\ UNCHANGED <<booting, config_sem, excuses>>
       \/ Fails("erase")
    /\ UNCHANGED <<ram, nbUp, miscRuns, target, missing, bounds>>

\* An erase that fails may also have left the flash as it was.
EraseRefused ==
    /\ pc = "erase" /\ Fails("erase")
    /\ UNCHANGED <<ram, flash, written, nbUp, miscRuns, target, saved, missing, bounds>>

\* A write takes its bytes from RAM as it goes.
WriteField(f) ==
    /\ pc = "write" /\ f \in Fields \ written
    /\ image' = [image EXCEPT ![f] = config[f]]
    /\ written' = written \cup {f}
    /\ UNCHANGED <<pc, booting, ram, imageCrc, start, miscRuns, history, bounds>>

WriteCrcFresh == imageCrc' = Crc(image)   \* mutant: checksum of what was written
WriteCrc == imageCrc' = crc

WriteEnd ==
    /\ pc = "write" /\ written = Fields
    /\ WriteCrc
    /\ Return
    /\ UNCHANGED <<ram, image, written, nbUp, miscRuns, history, bounds>>

WriteFails ==
    /\ pc = "write" /\ Fails("write")
    /\ UNCHANGED <<ram, flash, written, nbUp, miscRuns, target, saved, missing, bounds>>

config_c ==
    \/ BootNoPartition \/ BootRead \/ BootDefault
    \/ TimmingSave \/ TimmingSaveSkips \/ FindPartition \/ Erase \/ EraseRefused
    \/ (\E f \in Fields : WriteField(f)) \/ WriteEnd \/ WriteFails

-----------------------------------------------------------------------------
(* The other threads and the supply.                                       *)

\* config_wait_config_sem in nb_iot_task.
NbStart ==
    /\ config_sem /\ ~nbUp
    /\ config_sem' = FALSE /\ nbUp' = TRUE
    /\ UNCHANGED <<pc, booting, ram, flash, written, miscRuns, history, bounds>>

\* CMD_DOWN_SETTING, the thresholds, the config_set_* commands and the version
\* kept by the OTA task: a member changes, the checksum in RAM does not.
Edit(f, v) ==
    /\ ~booting /\ edits < MaxEdits
    /\ v # config[f]
    /\ config' = [config EXCEPT ![f] = v]
    /\ Excuse(faulted, reverted \/ Crc(config') = crc)
    /\ edits' = edits + 1
    /\ UNCHANGED <<pc, booting, crc, flash, written, start, miscRuns, target, saved,
                   missing, crashes>>

\* misc_task comes no longer to config_timming_save, or does so again: CMD_DOWN_STOP
\* and CMD_DOWN_RUN, a factory test that may last for ever, utest's deletion of the
\* thread.  None of them ends a save in the middle: misc does not wait in it.
MiscPauses ==
    /\ ~booting
    /\ miscRuns' = ~miscRuns
    /\ UNCHANGED <<pc, booting, ram, flash, written, start, history, bounds>>

\* The supply fails, or CMD_DOWN_RESET: RAM is lost, the flash keeps what it has.
Crash ==
    /\ crashes < MaxCrashes
    /\ crashes' = crashes + 1
    /\ pc' = "boot" /\ booting' = TRUE
    /\ config' = Zero /\ crc' = NoCrc
    /\ written' = {}
    /\ config_sem' = FALSE /\ nbUp' = FALSE
    /\ miscRuns' = TRUE
    /\ target' = saved
    /\ missing' = FALSE
    /\ UNCHANGED <<flash, saved, excuses, edits>>

Next ==
    \/ config_c
    \/ NbStart
    \/ \E f \in Fields, v \in Values : Edit(f, v)
    \/ MiscPauses
    \/ Crash

Spec == Init /\ [][Next]_vars

\* config_init returns, a save that has begun ends, and the next is begun as long
\* as misc_task comes to it (miscRuns, which nothing keeps TRUE); nb_iot_task, woken
\* by the semaphore, runs too.
FairSpec == Spec /\ WF_vars(config_c) /\ WF_vars(NbStart)

-----------------------------------------------------------------------------
(* Properties.                                                             *)

\* The structure in RAM is always a configuration, never an erased image.
DataOK ==
    /\ config \in Configs /\ target \in Configs /\ saved \in Configs
    /\ image \in Images
    /\ crc \in Checksums /\ imageCrc \in Checksums
TypeOK ==
    /\ pc \in Steps /\ booting \in BOOLEAN
    /\ DataOK
    /\ written \subseteq Fields
    /\ config_sem \in BOOLEAN /\ nbUp \in BOOLEAN /\ miscRuns \in BOOLEAN
    /\ missing \in BOOLEAN /\ faulted \in BOOLEAN /\ reverted \in BOOLEAN
    /\ crashes \in 0..MaxCrashes /\ edits \in 0..MaxEdits

\* An image that passes the check at boot is exactly the structure whose
\* checksum was taken when it was saved: never a mixture of two edits, and
\* never one cut short by a crash, although the members are copied while the
\* mqtt callback and the shell may change them.
ImageNeverTorn == Valid => image = saved

\* What config_init hands to nb_iot_task is the last configuration saved or
\* the defaults, whatever happened to the flash before.
BootsGenuine ==
    [][config_sem' /\ ~config_sem => config' \in {saved, Default}]_vars

\* When edits and crashes are over, the flash ends up holding the structure
\* in RAM, even one edited in the middle of a save: its checksum differs from
\* the one kept, and the next pass saves it again.  Three cases are excepted:
\* misc_task does not keep coming to its saves (stopped by the server, in a factory
\* test, deleted by utest), the last save failed (nothing is repeated, config.crc
\* is already the new one), and an edit undid another before the next pass
\* (config.crc already matches).
EventuallySaved ==
    <>[]miscRuns => <>[](reverted \/ faulted \/ (Valid /\ image = config))

\* config_timming_save skips the save when the checksum in RAM matches, and the
\* flash is not looked at: whenever it does, the flash does hold the structure in
\* RAM, whatever edits fell into the last save, except in the last two of these cases.
SkipsOnlySaved ==
    pc = "idle" /\ ~SaveDue => reverted \/ faulted \/ (Valid /\ image = config)

\* config_init releases nb_iot_task, whatever is in the flash and whatever
\* reading, erasing or writing it returns, unless the partition is missing.
NbEventuallyUp == <>[](nbUp \/ missing)

\* config.c implements the durable register of ConfigAbs: whatever the order of
\* edits, saves, flash failures and crashes, what a boot would read is the
\* snapshot of one moment, replaced only by the next one, and a boot takes up
\* nothing else.
None == [f \in {} |-> Erased]
Abs == INSTANCE ConfigAbs WITH
    ram <- config,
    snap <- IF crc = NoCrc THEN None ELSE target,
    disk <- IF Valid THEN image ELSE None
ImplementsAbs == Abs!Spec
=============================================================================

---------------------------- MODULE ConfigProofs ----------------------------
(***************************************************************************)
(* What config.c promises about the flash, for any set of members, any     *)
(* values and any number of edits, crashes and faults.                     *)
(***************************************************************************)
EXTENDS Config, TLAPS

\* While a save runs, config.crc is the checksum of the structure it began
\* with; once the flash is erased that structure is the one `saved' remembers
\* and the checksum in flash is still the erased one.
SaveInv ==
    /\ pc \in {"find", "erase", "write"} => crc = Crc(target)
    /\ pc = "write" => saved = target /\ imageCrc = NoCrc

TornInv == DataOK /\ SaveInv /\ ImageNeverTorn

-----------------------------------------------------------------------------
\* Every configuration may be held in flash, and so may an erased image.
LEMMA ImagesContain == Configs \subseteq Images /\ ErasedImage \in Images
PROOF BY DEF Configs, Images, ErasedImage

\* Every image has a checksum, and it is not the one erased flash reads as.
LEMMA CrcTypes == \A c \in Images : Crc(c) \in Checksums /\ Crc(c) # NoCrc
PROOF BY CrcAssumption DEF Checksums

\* At power on the flash is erased and no save runs.
LEMMA TornInit == Init => TornInv
<1> SUFFICES ASSUME Init PROVE TornInv
    OBVIOUS
<1>1. DataOK
    BY ImagesContain, ValuesAssumption DEF Init, DataOK, Checksums
<1>2. SaveInv
    BY DEF Init, SaveInv
<1>3. ImageNeverTorn
    BY ImagesContain, CrcTypes DEF Init, ImageNeverTorn, Valid
<1> QED BY <1>1, <1>2, <1>3 DEF TornInv

\* A step that leaves the structures, the flash and what was saved alone, and
\* does not start a save or a write.
LEMMA TornFrame ==
    ASSUME TornInv, UNCHANGED <<ram, flash, target, saved>>,
           pc' \in {pc, "boot", "idle"}
    PROVE  TornInv'
<1> USE DEF ram, flash
<1>1. DataOK'
    BY DEF TornInv, DataOK
<1>2. SaveInv'
    BY DEF TornInv, SaveInv
<1>3. ImageNeverTorn'
    BY DEF TornInv, ImageNeverTorn, Valid
<1> QED BY <1>1, <1>2, <1>3 DEF TornInv

\* Every step of the boot, of a save and of the editors keeps the invariant.
LEMMA TornStep == TornInv /\ [Next]_vars => TornInv'
<1> SUFFICES ASSUME TornInv, [Next]_vars PROVE TornInv'
    OBVIOUS
<1>0. DataOK /\ SaveInv /\ ImageNeverTorn
    BY DEF TornInv
<1>1. CASE BootNoPartition
    BY <1>1, TornFrame DEF BootNoPartition
<1>2. CASE BootRead
  <2>1. image = saved
      BY <1>0, <1>2 DEF BootRead, ImageAccepted, ImageNeverTorn, Valid
  <2>2. DataOK'
      BY <1>0, <1>2, <2>1 DEF BootRead, DataOK, flash
  <2>3. SaveInv'
      BY <1>2 DEF BootRead, Return, SaveInv
  <2>4. ImageNeverTorn'
      BY <1>2, <2>1 DEF BootRead, ImageNeverTorn, flash
  <2> QED BY <2>2, <2>3, <2>4 DEF TornInv
<1>3. CASE BootDefault
  <2>1. DataOK'
      BY <1>0, <1>3, ValuesAssumption, ImagesContain, CrcTypes
      DEF BootDefault, Fallback, DataOK, flash
  <2>2. SaveInv'
      BY <1>3 DEF BootDefault, Fallback, SaveInv
  <2>3. ImageNeverTorn'
      BY <1>0, <1>3 DEF BootDefault, ImageNeverTorn, Valid, flash
  <2> QED BY <2>1, <2>2, <2>3 DEF TornInv
<1>4. CASE TimmingSave
  <2>1. DataOK'
      BY <1>0, <1>4, ImagesContain, CrcTypes DEF TimmingSave, DataOK, flash
  <2>2. SaveInv'
      BY <1>4 DEF TimmingSave, SaveInv
  <2>3. ImageNeverTorn'
      BY <1>0, <1>4 DEF TimmingSave, ImageNeverTorn, Valid, flash
  <2> QED BY <2>1, <2>2, <2>3 DEF TornInv
<1>5. CASE TimmingSaveSkips
    BY <1>5, TornFrame DEF TimmingSaveSkips, vars, history
<1>6. CASE FindPartition
  <2>1. DataOK'
      BY <1>0, <1>6 DEF FindPartition, DataOK, ram, flash
  <2>2. SaveInv'
      BY <1>0, <1>6 DEF FindPartition, Fails, Return, SaveInv, ram, flash
  <2>3. ImageNeverTorn'
      BY <1>0, <1>6 DEF FindPartition, ImageNeverTorn, Valid, flash
  <2> QED BY <2>1, <2>2, <2>3 DEF TornInv
<1>7. CASE Erase
  <2>1. DataOK'
      BY <1>0, <1>7, ImagesContain DEF Erase, DataOK, Checksums, ram
  <2>2. SaveInv'
      BY <1>0, <1>7 DEF Erase, Fails, Return, SaveInv, ram
  <2>3. ImageNeverTorn'
      BY <1>7, ImagesContain, CrcTypes DEF Erase, ImageNeverTorn, Valid
  <2> QED BY <2>1, <2>2, <2>3 DEF TornInv
<1>8. CASE EraseRefused
    BY <1>8, TornFrame DEF EraseRefused, Fails, Return
<1>9. CASE \E f \in Fields : WriteField(f)
  <2>1. PICK f \in Fields : WriteField(f)
      BY <1>9
  <2>2. image' \in Images
      BY <1>0, <2>1 DEF WriteField, DataOK, Configs, Images
  <2>3. DataOK'
      BY <1>0, <2>1, <2>2 DEF WriteField, DataOK, history, ram
  <2>4. SaveInv'
      BY <1>0, <2>1 DEF WriteField, SaveInv, history, ram
  <2>5. ImageNeverTorn'
      BY <1>0, <2>1, <2>2, CrcTypes DEF WriteField, SaveInv, ImageNeverTorn, Valid
  <2> QED BY <2>3, <2>4, <2>5 DEF TornInv
\* The checksum written last is that of the structure the save began with: an
\* image that matches it is that structure.
<1>10. CASE WriteEnd
  <2>1. imageCrc' = Crc(saved) /\ image' = image /\ saved' = saved
      BY <1>0, <1>10 DEF WriteEnd, WriteCrc, SaveInv, history
  <2>2. DataOK'
      BY <1>0, <1>10 DEF WriteEnd, WriteCrc, DataOK, history, ram
  <2>3. SaveInv'
      BY <1>10 DEF WriteEnd, Return, SaveInv
  <2>4. saved \in Images /\ image \in Images
      BY <1>0, ImagesContain DEF DataOK
  <2>5. ImageNeverTorn'
      BY <2>1, <2>4, CrcAssumption DEF ImageNeverTorn, Valid
  <2> QED BY <2>2, <2>3, <2>5 DEF TornInv
<1>11. CASE WriteFails
    BY <1>11, TornFrame DEF WriteFails, Fails, Return
<1>12. CASE NbStart \/ MiscPauses
    BY <1>12, TornFrame DEF NbStart, MiscPauses, history
<1>13. CASE \E f \in Fields, v \in Values : Edit(f, v)
  <2>1. PICK f \in Fields, v \in Values : Edit(f, v)
      BY <1>13
  <2>2. config' \in Configs
      BY <1>0, <2>1 DEF Edit, DataOK, Configs
  <2>3. DataOK'
      BY <1>0, <2>1, <2>2 DEF Edit, DataOK, flash
  <2>4. SaveInv'
      BY <1>0, <2>1 DEF Edit, SaveInv, flash
  <2>5. ImageNeverTorn'
      BY <1>0, <2>1 DEF Edit, ImageNeverTorn, Valid, flash
  <2> QED BY <2>3, <2>4, <2>5 DEF TornInv
<1>14. CASE Crash
  <2>1. DataOK'
      BY <1>0, <1>14, ValuesAssumption DEF Crash, DataOK, Checksums, flash
  <2>2. SaveInv'
      BY <1>14 DEF Crash, SaveInv
  <2>3. ImageNeverTorn'
      BY <1>0, <1>14 DEF Crash, ImageNeverTorn, Valid, flash
  <2> QED BY <2>1, <2>2, <2>3 DEF TornInv
<1>15. CASE UNCHANGED vars
    BY <1>15, TornFrame DEF vars, history
<1> QED
    BY <1>1, <1>2, <1>3, <1>4, <1>5, <1>6, <1>7, <1>8, <1>9, <1>10, <1>11,
       <1>12, <1>13, <1>14, <1>15
    DEF Next, config_c

-----------------------------------------------------------------------------
\* An image config_init accepts is exactly the structure of one save, never a
\* mixture of two edits nor one cut short by a crash.
THEOREM NeverTorn == Spec => []ImageNeverTorn
<1>1. TornInv => ImageNeverTorn
    BY DEF TornInv
<1> QED BY TornInit, TornStep, <1>1, PTL DEF Spec

-----------------------------------------------------------------------------
\* A boot begins with the checksum of a cleared RAM, and until config_init
\* returns nobody edits: what config_default set up stands.
BootInv ==
    /\ pc = "boot" => crc = NoCrc
    /\ booting => pc # "idle"
    /\ booting /\ pc # "boot" => config = Default

\* At power on config_init has not yet begun.
LEMMA BootInit == Init => BootInv
PROOF BY DEF Init, BootInv

\* The steps of a save that config_init called leave the defaults alone.
LEMMA BootStep == BootInv /\ [Next]_vars => BootInv'
<1> SUFFICES ASSUME BootInv, [Next]_vars PROVE BootInv'
    OBVIOUS
<1> USE DEF BootInv, ram
<1>1. CASE BootNoPartition \/ BootRead
    BY <1>1 DEF BootNoPartition, BootRead, Return
<1>2. CASE BootDefault
    BY <1>2 DEF BootDefault, Fallback
<1>3. CASE TimmingSave \/ TimmingSaveSkips
  <2>1. ~booting
      BY <1>3 DEF TimmingSave, TimmingSaveSkips
  <2>2. booting' = booting
      BY <1>3 DEF TimmingSave, TimmingSaveSkips, vars
  <2>3. pc' # "boot"
      BY <1>3 DEF TimmingSave, TimmingSaveSkips, vars
  <2> QED BY <2>1, <2>2, <2>3
<1>4. CASE FindPartition
  <2>1. CASE pc' = "erase" /\ booting' = booting
      BY <1>4, <2>1 DEF FindPartition
  <2>2. CASE ~booting' /\ pc' = "idle"
      BY <2>2
  <2> QED BY <1>4, <2>1, <2>2 DEF FindPartition, Fails, Return
<1>5. CASE Erase
  <2>1. CASE pc' = "write" /\ booting' = booting
      BY <1>5, <2>1 DEF Erase
  <2>2. CASE ~booting' /\ pc' = "idle"
      BY <2>2
  <2> QED BY <1>5, <2>1, <2>2 DEF Erase, Fails, Return
<1>6. CASE EraseRefused
    BY <1>6 DEF EraseRefused, Fails, Return
<1>7. CASE \E f \in Fields : WriteField(f)
    BY <1>7 DEF WriteField
<1>8. CASE WriteEnd \/ WriteFails
    BY <1>8 DEF WriteEnd, WriteFails, Fails, Return
<1>9. CASE NbStart \/ MiscPauses
    BY <1>9 DEF NbStart, MiscPauses
<1>10. CASE \E f \in Fields, v \in Values : Edit(f, v)
    BY <1>10 DEF Edit
<1>11. CASE Crash
    BY <1>11 DEF Crash
<1>12. CASE UNCHANGED vars
    BY <1>12 DEF vars
<1> QED
    BY <1>1, <1>2, <1>3, <1>4, <1>5, <1>6, <1>7, <1>8, <1>9, <1>10, <1>11, <1>12
    DEF Next, config_c

\* nb_iot_task is released with the last configuration saved or the defaults,
\* whatever was found in the flash.
THEOREM GenuineBoot == Spec => BootsGenuine
<1> DEFINE Step == config_sem' /\ ~config_sem => config' \in {saved, Default}
<1>1. TornInv /\ BootInv /\ [Next]_vars => [Step]_vars
  <2> SUFFICES ASSUME TornInv, BootInv, Next, config_sem', ~config_sem
               PROVE  config' \in {saved, Default}
      OBVIOUS
  <2>1. CASE BootRead
      BY <2>1 DEF BootRead, ImageAccepted, TornInv, ImageNeverTorn, Valid
  <2>2. CASE FindPartition \/ Erase \/ EraseRefused \/ WriteEnd \/ WriteFails
    <3>1. config' = config /\ pc # "boot"
        BY <2>2 DEF FindPartition, Erase, EraseRefused, WriteEnd, WriteFails, ram
    <3>2. booting
        BY <2>2 DEF FindPartition, Erase, EraseRefused, WriteEnd, WriteFails,
                    Fails, Return, Posted
    <3> QED BY <3>1, <3>2 DEF BootInv
  <2>3. CASE BootNoPartition \/ BootDefault \/ TimmingSave \/ TimmingSaveSkips
      BY <2>3 DEF BootNoPartition, BootDefault, TimmingSave, TimmingSaveSkips, start, vars
  <2>4. CASE \E f \in Fields : WriteField(f)
      BY <2>4 DEF WriteField, start
  <2>5. CASE NbStart \/ MiscPauses \/ Crash
      BY <2>5 DEF NbStart, MiscPauses, Crash, start
  <2>6. CASE \E f \in Fields, v \in Values : Edit(f, v)
      BY <2>6 DEF Edit, start
  <2> QED BY <2>1, <2>2, <2>3, <2>4, <2>5, <2>6 DEF Next, config_c
<1> QED
    BY TornInit, TornStep, BootInit, BootStep, <1>1, PTL DEF Spec, BootsGenuine

-----------------------------------------------------------------------------
(* Type correctness.  The data comes from TornInv; the control is easy.    *)

ControlOK ==
    /\ pc \in Steps /\ booting \in BOOLEAN
    /\ written \subseteq Fields
    /\ config_sem \in BOOLEAN /\ nbUp \in BOOLEAN /\ miscRuns \in BOOLEAN
    /\ missing \in BOOLEAN /\ faulted \in BOOLEAN /\ reverted \in BOOLEAN
    /\ crashes \in 0..MaxCrashes /\ edits \in 0..MaxEdits

LEMMA ControlInit == Init => ControlOK
<1>1. 0 \in 0..MaxCrashes /\ 0 \in 0..MaxEdits
    BY BoundsAssumption
<1> QED BY <1>1 DEF Init, ControlOK, Steps

LEMMA ControlStep == ControlOK /\ [Next]_vars => ControlOK'
<1> SUFFICES ASSUME ControlOK, [Next]_vars PROVE ControlOK'
    OBVIOUS
<1> USE DEF ControlOK, Steps, Return, Posted, Excuse, Fails, start, excuses, history, bounds
<1>1. CASE BootNoPartition
    BY <1>1 DEF BootNoPartition
<1>2. CASE BootRead
    BY <1>2 DEF BootRead
<1>3. CASE BootDefault
    BY <1>3 DEF BootDefault
<1>4. CASE TimmingSave
    BY <1>4 DEF TimmingSave
<1>5. CASE TimmingSaveSkips
    BY <1>5 DEF TimmingSaveSkips, vars
<1>6. CASE FindPartition
    BY <1>6 DEF FindPartition
<1>7. CASE Erase
    BY <1>7 DEF Erase
<1>8. CASE EraseRefused
    BY <1>8 DEF EraseRefused
<1>9. CASE \E f \in Fields : WriteField(f)
    BY <1>9 DEF WriteField
<1>10. CASE WriteEnd
    BY <1>10 DEF WriteEnd
<1>11. CASE WriteFails
    BY <1>11 DEF WriteFails
<1>12. CASE NbStart \/ MiscPauses
    BY <1>12 DEF NbStart, MiscPauses
<1>13. CASE \E f \in Fields, v \in Values : Edit(f, v)
  <2>1. PICK f \in Fields, v \in Values : Edit(f, v)
      BY <1>13
  <2>2. edits' \in 0..MaxEdits
      BY <2>1, BoundsAssumption DEF Edit
  <2> QED BY <2>1, <2>2 DEF Edit
<1>14. CASE Crash
  <2>1. crashes' \in 0..MaxCrashes
      BY <1>14, BoundsAssumption DEF Crash
  <2> QED BY <1>14, <2>1 DEF Crash
<1>15. CASE UNCHANGED vars
    BY <1>15 DEF vars
<1> QED
    BY <1>1, <1>2, <1>3, <1>4, <1>5, <1>6, <1>7, <1>8, <1>9, <1>10, <1>11,
       <1>12, <1>13, <1>14, <1>15
    DEF Next, config_c

\* The structure in RAM is always a configuration, never an erased or a torn
\* image: config_init checks the checksum before it copies the flash.
THEOREM TypeCorrect == Spec => []TypeOK
<1>1. TornInv /\ ControlOK => TypeOK
    BY DEF TornInv, ControlOK, TypeOK
<1> QED BY TornInit, TornStep, ControlInit, ControlStep, <1>1, PTL DEF Spec

-----------------------------------------------------------------------------
(* The refinement of ConfigAbs.  TornInv and BootInv supply what each step *)
(* needs: a save copies only the snapshot its checksum was taken of, and a *)
(* boot begins without a snapshot.                                         *)

absSnap == IF crc = NoCrc THEN None ELSE target
absDisk == IF Valid THEN image ELSE None

\* No configuration and no image is the absent one.
LEMMA NoneIsNoImage == None \notin Images /\ None \notin Configs
<1>1. DOMAIN None = {}
    BY DEF None
<1>2. Fields # {}
    BY ValuesAssumption
<1> QED BY <1>1, <1>2 DEF Images, Configs

\* Every step of config.c, of the editors and of the supply is a step of the
\* durable register or invisible in it.
LEMMA AbsStep ==
    TornInv /\ BootInv /\ DataOK' /\ [Next]_vars => [Abs!Next]_(Abs!vars)
<1> SUFFICES ASSUME TornInv, BootInv, DataOK', [Next]_vars
             PROVE  Abs!Next \/ UNCHANGED <<config, absSnap, absDisk>>
    BY DEF Abs!vars, absSnap, absDisk
<1>0. DataOK /\ SaveInv /\ ImageNeverTorn
    BY DEF TornInv
<1>c. /\ Crc(config) # NoCrc /\ Crc(target) # NoCrc /\ Crc(image) # NoCrc
      /\ Crc(Default) # NoCrc /\ Crc(ErasedImage) # NoCrc
      /\ image # None /\ target # None /\ config # None /\ Default # None
    BY <1>0, ImagesContain, CrcTypes, ValuesAssumption, NoneIsNoImage DEF DataOK
\* What each abstract action amounts to under the mapping.
<1>L. ASSUME absSnap = None, absSnap' = config', absDisk' = absDisk,
             config' = Default \/ (config' = absDisk /\ absDisk # None)
      PROVE  Abs!Next
    BY <1>L DEF Abs!Next, Abs!Load, absSnap, absDisk
<1>S. ASSUME absSnap' = config, config' = config, absDisk' = absDisk
      PROVE  Abs!Next
    BY <1>S DEF Abs!Next, Abs!Snapshot, absSnap, absDisk
<1>E. ASSUME config' \in Configs, absSnap' = absSnap, absDisk' = absDisk
      PROVE  Abs!Next
    BY <1>E DEF Abs!Next, Abs!Edit, absSnap, absDisk
<1>F. ASSUME UNCHANGED <<crc, target>> PROVE absSnap' = absSnap
    BY <1>F DEF absSnap
<1>G. ASSUME UNCHANGED flash PROVE absDisk' = absDisk
    BY <1>G DEF flash, absDisk, Valid
<1>1. CASE BootNoPartition
    BY <1>1, <1>F, <1>G DEF BootNoPartition, ram
<1>2. CASE BootRead
  <2>1. absSnap = None
      BY <1>2 DEF BootRead, BootInv, absSnap
  <2>2. Valid /\ absDisk = image /\ config' = image
      BY <1>2 DEF BootRead, ImageAccepted, Valid, absDisk
  <2>3. absSnap' = config'
      BY <1>2, <1>c DEF BootRead, ImageAccepted, absSnap
  <2>4. absDisk' = absDisk
      BY <1>2, <1>G DEF BootRead
  <2> QED BY <2>1, <2>2, <2>3, <2>4, <1>L, <1>c
<1>3. CASE BootDefault
  <2>1. absSnap = None
      BY <1>3 DEF BootDefault, BootInv, absSnap
  <2>2. config' = Default /\ absSnap' = config'
      BY <1>3, <1>c DEF BootDefault, Fallback, absSnap
  <2>3. absDisk' = absDisk
      BY <1>3, <1>G DEF BootDefault
  <2> QED BY <2>1, <2>2, <2>3, <1>L
<1>4. CASE TimmingSave
  <2>1. absSnap' = config /\ config' = config
      BY <1>4, <1>c DEF TimmingSave, absSnap
  <2>2. absDisk' = absDisk
      BY <1>4, <1>G DEF TimmingSave
  <2> QED BY <2>1, <2>2, <1>S
<1>5. CASE TimmingSaveSkips \/ UNCHANGED vars
  <2>1. UNCHANGED <<ram, flash, target>>
      BY <1>5 DEF TimmingSaveSkips, vars, history
  <2> QED BY <2>1, <1>F, <1>G DEF ram
<1>6. CASE FindPartition \/ EraseRefused \/ WriteFails
  <2>1. UNCHANGED <<ram, flash, target>>
      BY <1>6 DEF FindPartition, EraseRefused, WriteFails
  <2> QED BY <2>1, <1>F, <1>G DEF ram
<1>7. CASE Erase
  <2>1. absSnap' = absSnap /\ config' = config
      BY <1>7, <1>F DEF Erase, ram
  <2>2. absSnap # None
      BY <1>7, <1>0, <1>c DEF Erase, SaveInv, absSnap
  <2>3. absDisk' = None
      BY <1>7, <1>c DEF Erase, absDisk, Valid
  <2> QED BY <2>1, <2>2, <2>3 DEF Abs!Next, Abs!Lose, absSnap, absDisk
<1>8. CASE \E f \in Fields : WriteField(f)
  <2>1. UNCHANGED <<ram, target, imageCrc>> /\ imageCrc = NoCrc
      BY <1>8, <1>0 DEF WriteField, SaveInv, history
  <2>2. Crc(image) # NoCrc /\ Crc(image') # NoCrc
      BY <1>c, CrcTypes DEF DataOK
  <2>3. absDisk = None /\ absDisk' = None
      BY <2>1, <2>2 DEF absDisk, Valid
  <2> QED BY <2>1, <2>3, <1>F DEF ram
<1>9. CASE WriteEnd
  <2>1. /\ UNCHANGED <<ram, target, image>> /\ imageCrc = NoCrc
        /\ imageCrc' = crc /\ crc = Crc(target)
      BY <1>9, <1>0 DEF WriteEnd, WriteCrc, SaveInv, history
  <2>2. absSnap' = absSnap /\ absSnap = target /\ config' = config
      BY <2>1, <1>F, <1>c DEF ram, absSnap
  <2>3. absDisk = None
      BY <2>1, <1>c DEF absDisk, Valid
  <2>4. absDisk' \in {target, None}
    <3>1. target \in Images /\ image \in Images
        BY <1>0, ImagesContain DEF DataOK
    <3> QED BY <2>1, <3>1, CrcAssumption DEF absDisk, Valid
  <2>5. CASE absDisk' = None
      BY <2>2, <2>3, <2>5
  <2>6. CASE absDisk' = target
      BY <2>2, <2>3, <2>6, <1>c DEF Abs!Next, Abs!Commit, absSnap, absDisk
  <2> QED BY <2>4, <2>5, <2>6
<1>10. CASE NbStart \/ MiscPauses
    BY <1>10, <1>F, <1>G DEF NbStart, MiscPauses, ram, history
<1>11. CASE \E f \in Fields, v \in Values : Edit(f, v)
  <2>1. UNCHANGED <<crc, target, flash>>
      BY <1>11 DEF Edit
  <2>2. config' \in Configs
      BY DEF DataOK
  <2> QED BY <2>1, <2>2, <1>E, <1>F, <1>G
<1>12. CASE Crash
  <2>1. config' = Zero /\ absSnap' = None
      BY <1>12 DEF Crash, absSnap
  <2>2. absDisk' = absDisk
      BY <1>12, <1>G DEF Crash
  <2> QED BY <2>1, <2>2 DEF Abs!Next, Abs!Crash, absSnap, absDisk
<1> QED
    BY <1>1, <1>2, <1>3, <1>4, <1>5, <1>6, <1>7, <1>8, <1>9, <1>10, <1>11, <1>12
    DEF Next, config_c

\* config.c implements the durable register: what a boot would read is the
\* snapshot of one moment, whatever the edits, the crashes and the faults of
\* the flash were.
THEOREM Implements == Spec => ImplementsAbs
<1>1. Init => Abs!Init
    BY ImagesContain, CrcTypes DEF Init, Abs!Init, Valid
<1>2. TornInv' => DataOK'
    BY DEF TornInv
<1> QED
    BY <1>1, <1>2, AbsStep, TornInit, TornStep, BootInit, BootStep, PTL
    DEF Spec, ImplementsAbs, Abs!Spec

-----------------------------------------------------------------------------
(* Skipping a save.  As long as the checksum in RAM matches the structure  *)
(* and none of the two excuses applies, no edit has come since the         *)
(* checksum was taken, so the fields written so far are still those of the *)
(* structure.                                                              *)

Untouched == crc = Crc(config) /\ ~reverted /\ ~faulted

SkipInv ==
    /\ Untouched /\ pc = "idle" => imageCrc = crc /\ image = config
    /\ Untouched /\ pc = "write" => \A f \in written : image[f] = config[f]

\* A step that leaves RAM, flash and excuses, and enters neither a write nor
\* the idle state.
LEMMA SkipFrame ==
    ASSUME SkipInv, UNCHANGED <<ram, flash, excuses>>, pc' \in {pc, "find", "erase"},
           pc' = "write" => written' = written
    PROVE  SkipInv'
    BY DEF SkipInv, Untouched, ram, flash, excuses

\* A save that fails is excused.
LEMMA FailExcuses ==
    ASSUME NEW op, Fails(op)
    PROVE  SkipInv'
    BY DEF Fails, Excuse, SkipInv, Untouched

LEMMA SkipStep == TornInv /\ SkipInv /\ [Next]_vars => SkipInv'
<1> SUFFICES ASSUME TornInv, SkipInv, [Next]_vars PROVE SkipInv'
    OBVIOUS
<1>0. DataOK
    BY DEF TornInv
<1>1. CASE BootNoPartition
    BY <1>1 DEF BootNoPartition, Excuse, SkipInv, Untouched
<1>2. CASE BootRead
    BY <1>2 DEF BootRead, Return, SkipInv, flash
<1>3. CASE BootDefault \/ TimmingSave
    BY <1>3 DEF BootDefault, TimmingSave, SkipInv
<1>4. CASE TimmingSaveSkips \/ NbStart \/ MiscPauses
    BY <1>4, SkipFrame DEF TimmingSaveSkips, NbStart, MiscPauses, vars, history
<1>5. CASE FindPartition
  <2>1. CASE Fails("find")
      BY <2>1, FailExcuses
  <2>2. CASE ~Fails("find")
      BY <1>5, <2>2, SkipFrame DEF FindPartition
  <2> QED BY <2>1, <2>2
<1>6. CASE Erase
  <2>1. CASE Fails("erase")
      BY <2>1, FailExcuses
  <2>2. CASE ~Fails("erase")
      BY <1>6, <2>2 DEF Erase, SkipInv
  <2> QED BY <2>1, <2>2
<1>7. CASE EraseRefused \/ WriteFails
    BY <1>7, FailExcuses DEF EraseRefused, WriteFails
<1>8. CASE \E f \in Fields : WriteField(f)
  <2>1. PICK f \in Fields : WriteField(f)
      BY <1>8
  <2>2. /\ pc = "write" /\ pc' = "write" /\ UNCHANGED <<ram, excuses>>
        /\ image' = [image EXCEPT ![f] = config[f]]
        /\ written' = written \cup {f}
      BY <2>1 DEF WriteField, history
  <2>3. image \in [Fields -> Values \cup {Erased}]
      BY <1>0 DEF DataOK, Images
  <2>4. image'[f] = config[f] /\ \A g \in Fields \ {f} : image'[g] = image[g]
      BY <2>2, <2>3
  <2>5. \A g \in written : g = f \/ image'[g] = image[g]
      BY <2>2, <2>3
  <2> QED BY <2>2, <2>4, <2>5 DEF SkipInv, Untouched, ram, excuses
\* All fields are written: the image is the structure.
<1>9. CASE WriteEnd
  <2>1. /\ pc = "write" /\ written = Fields /\ pc' = "idle"
        /\ imageCrc' = crc /\ UNCHANGED <<ram, image, excuses>>
      BY <1>9 DEF WriteEnd, WriteCrc, Return, history
  <2>2. image \in Images /\ config \in Configs
      BY <1>0 DEF DataOK
  <2>3. Untouched => image = config
      BY <2>1, <2>2 DEF SkipInv, Images, Configs
  <2> QED BY <2>1, <2>3 DEF SkipInv, Untouched, ram, excuses
\* An edit leaves a checksum that does not match, or is one that undoes another.
<1>10. CASE \E f \in Fields, v \in Values : Edit(f, v)
  <2>1. crc' = crc /\ reverted' = (reverted \/ Crc(config') = crc)
      BY <1>10 DEF Edit, Excuse
  <2>2. ~Untouched'
      BY <2>1 DEF Untouched
  <2> QED BY <2>2 DEF SkipInv
<1>11. CASE Crash
    BY <1>11 DEF Crash, SkipInv
<1>12. CASE UNCHANGED vars
    BY <1>12, SkipFrame DEF vars, history
<1> QED
    BY <1>1, <1>2, <1>3, <1>4, <1>5, <1>6, <1>7, <1>8, <1>9, <1>10, <1>11, <1>12
    DEF Next, config_c

\* Whenever config_timming_save finds nothing to do, the flash holds what the
\* RAM holds, for any edits in the middle of any save, unless the last save
\* failed or an edit was undone: the safety half of EventuallySaved.
THEOREM SkipsSafely == Spec => []SkipsOnlySaved
<1>1. Init => SkipInv
    BY DEF Init, SkipInv
<1>2. SkipInv => SkipsOnlySaved
    BY DEF SkipInv, SkipsOnlySaved, Untouched, SaveDue, Valid
<1> QED
    BY TornInit, TornStep, <1>1, SkipStep, <1>2, PTL DEF Spec

-----------------------------------------------------------------------------
(* The semaphore.  Nothing is missing while config_init runs, and a thread *)
(* in the boot steps is config_init itself.                                *)

\* The semaphore is posted once per boot and by config_init alone, though the
\* saves of misc go through the same code: nb_iot_task is released exactly when
\* config_init has returned and found the partition, never in the middle of it.
ReleasedOnce ==
    /\ ~(config_sem /\ nbUp)
    /\ config_sem \/ nbUp <=> ~booting /\ ~missing

SemInv ==
    /\ ReleasedOnce
    /\ pc = "boot" => booting
    /\ booting => ~missing
    /\ config_sem \in BOOLEAN /\ booting \in BOOLEAN /\ nbUp \in BOOLEAN

\* config_init returns, or a save of misc does.
LEMMA ReturnReleases ==
    ASSUME SemInv, Return, UNCHANGED <<nbUp, missing>>
    PROVE  SemInv'
<1>1. pc' = "idle" /\ booting' = FALSE /\ config_sem' = (config_sem \/ booting)
    BY DEF Return, Posted
<1>2. CASE booting
    BY <1>1, <1>2 DEF SemInv, ReleasedOnce
<1>3. CASE ~booting
    BY <1>1, <1>3 DEF SemInv, ReleasedOnce
<1> QED
    BY <1>2, <1>3

LEMMA SemStep == SemInv /\ [Next]_vars => SemInv'
<1> SUFFICES ASSUME SemInv, [Next]_vars PROVE SemInv'
    OBVIOUS
<1> USE DEF start, history, excuses
<1>s. ASSUME UNCHANGED <<booting, config_sem, nbUp, missing>>, pc' = pc \/ pc' # "boot"
      PROVE  SemInv'
    BY <1>s DEF SemInv, ReleasedOnce
<1>1. CASE BootNoPartition
    BY <1>1 DEF BootNoPartition, SemInv, ReleasedOnce
<1>2. CASE BootRead \/ EraseRefused \/ WriteEnd \/ WriteFails
    BY <1>2, ReturnReleases DEF BootRead, EraseRefused, WriteEnd, WriteFails, Fails
<1>3. CASE FindPartition \/ Erase
  <2>1. CASE Return
      BY <1>3, <2>1, ReturnReleases DEF FindPartition, Erase
  <2>2. CASE ~Return
      BY <1>3, <2>2, <1>s DEF FindPartition, Erase, Fails
  <2> QED BY <2>1, <2>2
<1>4. CASE BootDefault \/ TimmingSave \/ TimmingSaveSkips \/ MiscPauses
               \/ \E f \in Fields : WriteField(f)
    BY <1>4, <1>s DEF BootDefault, TimmingSave, TimmingSaveSkips, MiscPauses, WriteField, vars
<1>5. CASE NbStart
    BY <1>5 DEF NbStart, SemInv, ReleasedOnce
<1>6. CASE \E f \in Fields, v \in Values : Edit(f, v)
    BY <1>6, <1>s DEF Edit
<1>7. CASE Crash
    BY <1>7 DEF Crash, SemInv, ReleasedOnce
<1>8. CASE UNCHANGED vars
    BY <1>8, <1>s DEF vars
<1> QED
    BY <1>1, <1>2, <1>3, <1>4, <1>5, <1>6, <1>7, <1>8 DEF Next, config_c

\* nb_iot_task is released once per boot, exactly when config_init has found
\* the partition and returned, through any crashes, failures and later saves:
\* the safety half of NbEventuallyUp.
THEOREM NbReleasedOnce == Spec => []ReleasedOnce
<1>1. Init => SemInv
    BY DEF Init, SemInv, ReleasedOnce
<1>2. SemInv => ReleasedOnce
    BY DEF SemInv
<1> QED
    BY <1>1, <1>2, SemStep, PTL DEF Spec
=============================================================================

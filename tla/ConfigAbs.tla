------------------------------ MODULE ConfigAbs ------------------------------
(***************************************************************************)
(* What config.c promises its callers: a durable register.  The structure  *)
(* in RAM is edited member by member; now and then a snapshot of it is     *)
(* taken, and the flash holds either nothing usable or one whole snapshot. *)
(* A boot takes up what the flash holds, or the defaults.                  *)
(***************************************************************************)
CONSTANTS
    Configs,     \* the configurations
    Default,     \* the one a first boot uses
    Zero,        \* the one of a cleared RAM
    None         \* no configuration

VARIABLES
    ram,         \* the structure every thread reads and edits
    snap,        \* the last snapshot of it; None until the boot has taken one
    disk         \* what a boot would read from the flash
vars == <<ram, snap, disk>>

Init == ram = Zero /\ snap = None /\ disk = None

\* Any thread, at any time.
Edit == ram' \in Configs /\ UNCHANGED <<snap, disk>>

\* A save begins with a snapshot of the whole structure ...
Snapshot == snap' = ram /\ UNCHANGED <<ram, disk>>

\* ... for which the old contents are given up ...
Lose == snap # None /\ disk' = None /\ UNCHANGED <<ram, snap>>

\* ... and it ends with the snapshot in the flash, or with nothing there.
Commit == snap # None /\ disk = None /\ disk' = snap /\ UNCHANGED <<ram, snap>>

Load ==
    /\ snap = None
    /\ ram' \in ({disk} \ {None}) \cup {Default}
    /\ snap' = ram'
    /\ UNCHANGED disk

\* The supply fails, or the processor is reset.
Crash == ram' = Zero /\ snap' = None /\ UNCHANGED disk

Next == Edit \/ Snapshot \/ Lose \/ Commit \/ Load \/ Crash

Spec == Init /\ [][Next]_vars
=============================================================================

------------------------------ MODULE ExtioAbs ------------------------------
(***************************************************************************)
(* What the I/O component (extio.c, extio.h) promises to the threads that  *)
(* read it: the debounced key events, the two supervised lines, the        *)
(* debounced detector inputs and the relay outputs of the structure        *)
(* `extio'.  Scan is one pass of extio_task; the other actions are the     *)
(* macros of extio.h through which its clients write the structure.        *)
(* There is no lock, so a Scan may come between any two client steps.      *)
(***************************************************************************)
CONSTANTS
    Keys,          \* the keys scanned: EXTIO_SET_KEY, EXTIO_OPEN_KEY
    Checks,        \* supervised lines: EXTIO_CHECK_POWERDOWN, _EMERGENCY
    Inputs,        \* detector inputs of the serial input chain
    Relays,        \* relay outputs, the bits of extio.output
    FIRE_MACHINE   \* the build flag that compiles the input chain in

ASSUME FireMachineAssumption == FIRE_MACHINE \in BOOLEAN

VARIABLES
    keySta,     \* extio.key.sta: the pending event of each key
    checkSta,   \* extio.check.sta = 1: the line is found active
    save,       \* extio.input.save: debounced level, TRUE is high (idle)
    output,     \* extio.output: the relays requested by the clients
    relay       \* the relays as last shifted out and latched

absVars == <<keySta, checkSta, save, output, relay>>

KeyEvents == {"RELEASE", "PRESS", "KEEP"}

\* Every field has the type of its array in extio_t.
AbsTypeOK ==
    /\ keySta \in [Keys -> KeyEvents]
    /\ checkSta \in [Checks -> BOOLEAN]
    /\ save \in [Inputs -> BOOLEAN]
    /\ output \in [Relays -> BOOLEAN]
    /\ relay \in [Relays -> BOOLEAN]

-----------------------------------------------------------------------------
(* The macros of extio.h that read the structure.                          *)

key_sta(k) == keySta[k]
is_check(c) == checkSta[c]
is_smoke(i) == ~save[i]

-----------------------------------------------------------------------------
AbsInit ==
    /\ keySta = [k \in Keys |-> "RELEASE"]
    /\ checkSta = [c \in Checks |-> FALSE]
    /\ save = [i \in Inputs |-> TRUE]
    /\ output = [r \in Relays |-> FALSE]
    /\ relay = output

\* A scan never withdraws an event: it turns RELEASE into PRESS, or
\* anything into KEEP.
KeyScanResult(k) ==
    {keySta[k], "KEEP"} \cup (IF keySta[k] = "RELEASE" THEN {"PRESS"} ELSE {})

\* One pass of extio_task as its clients see it.
Scan ==
    /\ keySta' \in [Keys -> KeyEvents]
    /\ \A k \in Keys : keySta'[k] \in KeyScanResult(k)
    /\ checkSta' \in [Checks -> BOOLEAN]
    /\ IF FIRE_MACHINE THEN save' \in [Inputs -> BOOLEAN] ELSE UNCHANGED save
    /\ relay' = output
    /\ UNCHANGED output

\* Client writes: key_clr, and set_alarm, clr_alarm, set_all_alarm and
\* clr_all_alarm on a set S of relays.
key_clr(k) == keySta' = [keySta EXCEPT ![k] = "RELEASE"]
set_alarm(S) == output' = [r \in Relays |-> output[r] \/ r \in S]
clr_alarm(S) == output' = [r \in Relays |-> output[r] /\ r \notin S]

ClientWrite ==
    /\ \/ UNCHANGED keySta
       \/ \E K \in SUBSET Keys :
             keySta' = [k \in Keys |-> IF k \in K THEN "RELEASE" ELSE keySta[k]]
    /\ \/ UNCHANGED output
       \/ \E S \in SUBSET Relays : set_alarm(S) \/ clr_alarm(S)
    /\ UNCHANGED <<checkSta, save, relay>>

AbsNext == Scan \/ ClientWrite

AbsSpec == AbsInit /\ [][AbsNext]_absVars
=============================================================================

------------------------------- MODULE Extio -------------------------------
(***************************************************************************)
(* The I/O thread of extio.c in detail: the debounce counters of the       *)
(* detector inputs, of the keys and of the supervised lines.  The thread   *)
(* runs at priority 8, above every other user of the structure but the     *)
(* mqtt callback, which only reads it; each pin is sampled once in a pass. *)
(* So one pass is one action, whose samples are its parameters.  How the   *)
(* levels are shifted through the serial chain is in ExtioShift.           *)
(***************************************************************************)
EXTENDS Integers, FiniteSets

CONSTANTS
    Keys, Checks, Inputs, Relays, FIRE_MACHINE,   \* as in ExtioAbs
    ByteOf,      \* ByteOf[i] is the byte of extio.input that holds input i
    InputTime,   \* 30: scans an input must differ before it is accepted
    PressTime,   \* 2 : a key held longer than this is pressed
    KeepTime,    \* 20: a key held longer than this is kept
    CheckTime,   \* 10: a line low for longer than this is active
    TimeMax      \* 255: where the uint8_t counters saturate

ASSUME FireMachineAssumption == FIRE_MACHINE \in BOOLEAN
ASSUME TimesAssumption ==
    /\ {InputTime, PressTime, KeepTime, CheckTime, TimeMax} \subseteq Nat
    /\ PressTime < KeepTime /\ KeepTime < TimeMax
    /\ CheckTime < TimeMax /\ InputTime < TimeMax

VARIABLES
    keySta, checkSta, save, output, relay,   \* as in ExtioAbs
    timer,       \* extio.input.timer
    keyTime,     \* extio.key.time
    checkTime,   \* extio.check.time
    held,        \* history: scans each key has now been found down in a row
    low,         \* history: scans each line has now been found low in a row
    differs,     \* history: scans each input has now differed from save in a row
    differed     \* history: scans each input has differed since save changed

ioVars == <<keySta, checkSta, save, output, relay, timer, keyTime, checkTime>>
vars == <<ioVars, held, low, differs, differed>>

KeyEvents == {"RELEASE", "PRESS", "KEEP"}

\* The history counters stop one above anything a property compares them
\* with, so that a counter that wraps is told from one that saturates.
HistoryMax == TimeMax + 2
Tick(n) == IF n < HistoryMax THEN n + 1 ELSE n

-----------------------------------------------------------------------------
Init ==
    /\ keySta = [k \in Keys |-> "RELEASE"]
    /\ checkSta = [c \in Checks |-> FALSE]
    /\ save = [i \in Inputs |-> TRUE]
    /\ output = [r \in Relays |-> FALSE]
    /\ relay = output
    /\ timer = [i \in Inputs |-> 0]
    /\ keyTime = [k \in Keys |-> 0]
    /\ checkTime = [c \in Checks |-> 0]
    /\ held = [k \in Keys |-> 0]
    /\ low = [c \in Checks |-> 0]
    /\ differs = [i \in Inputs |-> 0]
    /\ differed = [i \in Inputs |-> 0]

-----------------------------------------------------------------------------
(* extio_input_check.  `buf' is the level just read of each input.  A byte *)
(* that reads as saved is skipped as a whole, its timers with it; in a     *)
(* byte with a difference, an equal bit resets its timer.                  *)

Differs(buf, i) == buf[i] # save[i]
ByteDiffers(buf, i) ==
    \E j \in Inputs : ByteOf[j] = ByteOf[i] /\ Differs(buf, j)
AcceptedEarly(buf, i) ==         \* mutant: one scan too few
    Differs(buf, i) /\ timer[i] + 1 >= InputTime
Accepted(buf, i) == Differs(buf, i) /\ timer[i] >= InputTime

NextTimerDisturbed(buf, i) ==   \* mutant: a neighbour that differs resets it
    IF Differs(buf, i) /\ timer[i] < InputTime /\ \A j \in Inputs \ {i} : ~Differs(buf, j)
    THEN timer[i] + 1 ELSE 0
NextTimer(buf, i) ==
    IF ~ByteDiffers(buf, i) THEN timer[i]
    ELSE IF Differs(buf, i) /\ timer[i] < InputTime THEN timer[i] + 1
    ELSE 0

extio_input_check(buf) ==
    /\ save' = [i \in Inputs |-> IF Accepted(buf, i) THEN buf[i] ELSE save[i]]
    /\ timer' = [i \in Inputs |-> NextTimer(buf, i)]

-----------------------------------------------------------------------------
(* extio_key_scan.  `down' is the set of keys whose pin reads low.         *)

CountUpWraps(n) == (n + 1) % (TimeMax + 1)   \* mutant: no saturation
CountUp(n) == IF n < TimeMax THEN n + 1 ELSE n

ScanKeyLoose(k, isDown) ==      \* mutant: the release does not clear the time
    [time |-> IF isDown THEN CountUp(keyTime[k]) ELSE keyTime[k],
     sta  |-> IF isDown /\ CountUp(keyTime[k]) > KeepTime THEN "KEEP"
              ELSE IF ~isDown /\ keySta[k] = "RELEASE" /\ keyTime[k] > PressTime
                THEN "PRESS" ELSE keySta[k]]
ScanKeyWithdraws(k, isDown) ==  \* mutant: the release of a kept key cancels it
    [time |-> IF isDown THEN CountUp(keyTime[k]) ELSE 0,
     sta  |-> IF isDown
                THEN IF CountUp(keyTime[k]) > KeepTime THEN "KEEP" ELSE keySta[k]
                ELSE IF keyTime[k] > PressTime THEN "PRESS" ELSE "RELEASE"]

ScanKey(k, isDown) ==
    IF isDown
      THEN [time |-> CountUp(keyTime[k]),
            sta  |-> IF CountUp(keyTime[k]) > KeepTime THEN "KEEP" ELSE keySta[k]]
      ELSE [time |-> 0,
            sta  |-> IF keySta[k] = "RELEASE" /\ keyTime[k] > PressTime
                       THEN "PRESS" ELSE keySta[k]]

extio_key_scan(down) ==
    LET s == [k \in Keys |-> ScanKey(k, k \in down)]
    IN  /\ keyTime' = [k \in Keys |-> s[k].time]
        /\ keySta' = [k \in Keys |-> s[k].sta]

-----------------------------------------------------------------------------
(* extio_check.  `lows' is the set of lines whose status reads 0.          *)

extio_checkNoReset(lows) ==     \* mutant: the counter survives a recovery
    /\ checkTime' = [c \in Checks |->
          IF c \in lows THEN CountUp(checkTime[c]) ELSE checkTime[c]]
    /\ checkSta' = [c \in Checks |-> c \in lows /\ (checkSta[c] \/ checkTime'[c] > CheckTime)]

extio_check(lows) ==
    /\ checkTime' = [c \in Checks |-> IF c \in lows THEN CountUp(checkTime[c]) ELSE 0]
    /\ checkSta' = [c \in Checks |-> c \in lows /\ (checkSta[c] \/ checkTime'[c] > CheckTime)]

-----------------------------------------------------------------------------
History(buf, down, lows) ==
    /\ held' = [k \in Keys |-> IF k \in down THEN Tick(held[k]) ELSE 0]
    /\ low' = [c \in Checks |-> IF c \in lows THEN Tick(low[c]) ELSE 0]
    /\ differs' = [i \in Inputs |->
          IF Differs(buf, i) /\ save'[i] = save[i] THEN Tick(differs[i]) ELSE 0]
    /\ differed' = [i \in Inputs |->
          IF save'[i] # save[i] THEN 0
          ELSE IF Differs(buf, i) THEN Tick(differed[i]) ELSE differed[i]]

\* One pass of extio_task: extio_output, extio_input and extio_input_check
\* (FIRE_MACHINE builds only), extio_key_scan, extio_check.
extio_task(buf, down, lows) ==
    /\ relay' = output
    /\ IF FIRE_MACHINE THEN extio_input_check(buf) ELSE UNCHANGED <<save, timer>>
    /\ extio_key_scan(down)
    /\ extio_check(lows)
    /\ History(buf, down, lows)
    /\ UNCHANGED output

\* The writes of the other threads, through the macros of extio.h.
key_clr(k) ==
    /\ keySta' = [keySta EXCEPT ![k] = "RELEASE"]
    /\ UNCHANGED <<checkSta, save, output, relay, timer, keyTime, checkTime,
                   held, low, differs, differed>>

set_alarm(S) ==
    /\ output' = [r \in Relays |-> output[r] \/ r \in S]
    /\ UNCHANGED <<keySta, checkSta, save, relay, timer, keyTime, checkTime,
                   held, low, differs, differed>>

clr_alarm(S) ==
    /\ output' = [r \in Relays |-> output[r] /\ r \notin S]
    /\ UNCHANGED <<keySta, checkSta, save, relay, timer, keyTime, checkTime,
                   held, low, differs, differed>>

\* Without the input chain (FIRE_MACHINE unset) no level is ever read.
Levels == IF FIRE_MACHINE THEN [Inputs -> BOOLEAN] ELSE {save}

Next ==
    \/ \E buf \in Levels, down \in SUBSET Keys, lows \in SUBSET Checks :
          extio_task(buf, down, lows)
    \/ \E k \in Keys : key_clr(k)
    \/ \E S \in SUBSET Relays : set_alarm(S) \/ clr_alarm(S)

Spec == Init /\ [][Next]_vars

-----------------------------------------------------------------------------
(* Properties.                                                             *)

\* The counters stay in the range the comparisons in extio.c rely on.
TypeOK ==
    /\ keySta \in [Keys -> KeyEvents]
    /\ checkSta \in [Checks -> BOOLEAN]
    /\ save \in [Inputs -> BOOLEAN]
    /\ output \in [Relays -> BOOLEAN] /\ relay \in [Relays -> BOOLEAN]
    /\ timer \in [Inputs -> 0..InputTime]
    /\ keyTime \in [Keys -> 0..TimeMax]
    /\ checkTime \in [Checks -> 0..TimeMax]
    /\ held \in [Keys -> 0..HistoryMax] /\ low \in [Checks -> 0..HistoryMax]
    /\ differs \in [Inputs -> 0..HistoryMax]
    /\ differed \in [Inputs -> 0..HistoryMax]

\* extio_input_check never misses a steady signal: whatever the other bits
\* of its byte do, an input cannot differ from its saved level in more than
\* InputTime scans in a row (on the next one it is accepted).
SteadyInputAccepted == \A i \in Inputs : differs[i] <= InputTime

\* A level is accepted only after the input was seen at it in InputTime
\* earlier scans since its last change, so a short glitch alone never is.
GlitchRejected ==
    [][\A i \in Inputs : save'[i] # save[i] => differed[i] >= InputTime]_vars

\* The release notes (pkfire_20210414_01) give the detection time of an input
\* signal as 3 seconds: a level is accepted only when the input has been at
\* it in the last InputTime scans without a break.
AcceptedOnlyWhenSteady ==
    [][\A i \in Inputs : save'[i] # save[i] => differs[i] >= InputTime]_vars

\* A supervised line is reported active exactly while it has been low for
\* more than CheckTime scans in a row, however long it stays low.
CheckIsSteadyLow == \A c \in Checks : checkSta[c] <=> low[c] > CheckTime

\* A key let go after more than PressTime scans has an event pending, however
\* long it was held (the counter saturates) and whatever was pending before.
NoPressMissed ==
    [][\A k \in Keys : held[k] > PressTime /\ held'[k] = 0 => keySta'[k] # "RELEASE"]_vars

\* No event out of nothing: PRESS needs a hold longer than PressTime that ends
\* in this very scan, KEEP a hold longer than KeepTime that goes on in it.
EventsAreEarned ==
    [][\A k \in Keys : keySta'[k] # keySta[k] =>
          /\ keySta'[k] = "PRESS" => held[k] > PressTime /\ held'[k] = 0
          /\ keySta'[k] = "KEEP" => held'[k] > KeepTime]_vars

Abs == INSTANCE ExtioAbs

\* The detailed thread keeps the promise of ExtioAbs: only a client withdraws
\* a key event or changes a relay request, only a scan the rest.
ImplementsAbs == Abs!AbsSpec
=============================================================================

----------------------------- MODULE ExtioProofs -----------------------------
(***************************************************************************)
(* Proofs about Extio: for every number of keys, lines, inputs and relays, *)
(* every layout of the inputs into bytes and every choice of the debounce  *)
(* times that fits the 8-bit counters.                                     *)
(***************************************************************************)
EXTENDS Extio, TLAPS

-----------------------------------------------------------------------------
(* What the counters of one scan do.                                       *)

\* The saturating increment of extio_key_scan and extio_check.
LEMMA CountUpFacts ==
    ASSUME NEW n \in 0..TimeMax
    PROVE  /\ CountUp(n) \in 0..TimeMax
           /\ CountUp(n) > 0
           /\ n < TimeMax => CountUp(n) = n + 1
           /\ n = TimeMax => CountUp(n) = n
<1> QED
    BY TimesAssumption DEF CountUp

\* The history counters count up to their own, higher limit.
LEMMA TickFacts ==
    ASSUME NEW n \in 0..HistoryMax
    PROVE  /\ Tick(n) \in 0..HistoryMax
           /\ Tick(n) > 0
           /\ Tick(n) <= n + 1
           /\ Tick(n) >= n
           /\ n <= TimeMax => Tick(n) = n + 1
<1> QED
    BY TimesAssumption DEF Tick, HistoryMax

\* What extio_key_scan does to one key.
LEMMA ScanKeyFacts ==
    ASSUME NEW k \in Keys, NEW d \in BOOLEAN,
           keyTime[k] \in 0..TimeMax, keySta[k] \in KeyEvents
    PROVE  /\ ScanKey(k, d).time = IF d THEN CountUp(keyTime[k]) ELSE 0
           /\ ScanKey(k, d).time \in 0..TimeMax
           /\ ScanKey(k, d).sta \in KeyEvents
           /\ ScanKey(k, d).sta # keySta[k] =>
                 \/ d /\ CountUp(keyTime[k]) > KeepTime /\ ScanKey(k, d).sta = "KEEP"
                 \/ /\ ~d /\ keySta[k] = "RELEASE" /\ keyTime[k] > PressTime
                    /\ ScanKey(k, d).sta = "PRESS"
           /\ ~d /\ keyTime[k] > PressTime => ScanKey(k, d).sta # "RELEASE"
<1>1. 0 \in 0..TimeMax
    BY TimesAssumption
<1> QED
    BY <1>1, CountUpFacts DEF ScanKey, KeyEvents

\* What extio_input_check does to the timer of one input: it counts the scans
\* in which the input differs, and an acceptance clears it.
LEMMA NextTimerFacts ==
    ASSUME NEW i \in Inputs, NEW buf \in [Inputs -> BOOLEAN],
           timer[i] \in 0..InputTime
    PROVE  /\ NextTimer(buf, i) \in 0..InputTime
           /\ Accepted(buf, i) => NextTimer(buf, i) = 0
           /\ Differs(buf, i) /\ ~Accepted(buf, i) => NextTimer(buf, i) = timer[i] + 1
           /\ ~Differs(buf, i) => NextTimer(buf, i) <= timer[i]
<1>1. Differs(buf, i) => ByteDiffers(buf, i)
    BY DEF ByteDiffers
<1>2. CASE Differs(buf, i)
    BY <1>1, <1>2, TimesAssumption DEF NextTimer, Accepted
<1>3. CASE ~Differs(buf, i)
    BY <1>3, TimesAssumption DEF NextTimer, Accepted
<1> QED
    BY <1>2, <1>3

-----------------------------------------------------------------------------
(* Type correctness.                                                       *)

LEMMA TypeInit == Init => TypeOK
<1> SUFFICES ASSUME Init PROVE TypeOK
    OBVIOUS
<1>1. 0 \in 0..TimeMax /\ 0 \in 0..InputTime /\ 0 \in 0..HistoryMax
    BY TimesAssumption DEF HistoryMax
<1> QED
    BY <1>1 DEF Init, TypeOK, KeyEvents

\* Every level that a scan may read has the type of extio.input.
LEMMA LevelsType ==
    ASSUME TypeOK, NEW buf \in Levels
    PROVE  buf \in [Inputs -> BOOLEAN]
<1> QED
    BY DEF TypeOK, Levels

\* One pass of the I/O thread keeps every counter in its range.
LEMMA TypeTask ==
    ASSUME TypeOK, NEW buf \in Levels, NEW down \in SUBSET Keys,
           NEW lows \in SUBSET Checks, extio_task(buf, down, lows)
    PROVE  TypeOK'
<1>0. buf \in [Inputs -> BOOLEAN]
    BY LevelsType
<1>z. 0 \in 0..TimeMax /\ 0 \in 0..HistoryMax
    BY TimesAssumption DEF HistoryMax
<1>1. keySta' \in [Keys -> KeyEvents] /\ keyTime' \in [Keys -> 0..TimeMax]
  <2>1. \A k \in Keys : /\ ScanKey(k, k \in down).time \in 0..TimeMax
                        /\ ScanKey(k, k \in down).sta \in KeyEvents
    <3> SUFFICES ASSUME NEW k \in Keys
                 PROVE  /\ ScanKey(k, k \in down).time \in 0..TimeMax
                        /\ ScanKey(k, k \in down).sta \in KeyEvents
      OBVIOUS
    <3>1. keyTime[k] \in 0..TimeMax /\ keySta[k] \in KeyEvents /\ (k \in down) \in BOOLEAN
      BY DEF TypeOK
    <3> QED
      BY <3>1, ScanKeyFacts
  <2> QED
    BY <2>1 DEF extio_task, extio_key_scan
<1>2. checkSta' \in [Checks -> BOOLEAN] /\ checkTime' \in [Checks -> 0..TimeMax]
  <2>1. \A c \in Checks : CountUp(checkTime[c]) \in 0..TimeMax
    BY CountUpFacts DEF TypeOK
  <2>2. checkTime' \in [Checks -> 0..TimeMax]
    BY <1>z, <2>1 DEF extio_task, extio_check
  <2> QED
    BY <2>2 DEF extio_task, extio_check, TypeOK
<1>3. save' \in [Inputs -> BOOLEAN] /\ timer' \in [Inputs -> 0..InputTime]
  <2>1. CASE FIRE_MACHINE
    <3>1. \A i \in Inputs : NextTimer(buf, i) \in 0..InputTime
      BY <1>0, NextTimerFacts DEF TypeOK
    <3>2. timer' \in [Inputs -> 0..InputTime]
      BY <2>1, <3>1 DEF extio_task, extio_input_check
    <3>3. save' \in [Inputs -> BOOLEAN]
      BY <2>1, <1>0 DEF extio_task, extio_input_check, TypeOK
    <3> QED
      BY <3>2, <3>3
  <2>2. CASE ~FIRE_MACHINE
    BY <2>2 DEF extio_task, TypeOK
  <2> QED
    BY <2>1, <2>2
<1>4. relay' \in [Relays -> BOOLEAN] /\ output' \in [Relays -> BOOLEAN]
    BY DEF extio_task, TypeOK
<1>5. held' \in [Keys -> 0..HistoryMax] /\ low' \in [Checks -> 0..HistoryMax]
  <2>1. \A k \in Keys : Tick(held[k]) \in 0..HistoryMax
    BY TickFacts DEF TypeOK
  <2>2. \A c \in Checks : Tick(low[c]) \in 0..HistoryMax
    BY TickFacts DEF TypeOK
  <2> QED
    BY <1>z, <2>1, <2>2 DEF extio_task, History
<1>6. differs' \in [Inputs -> 0..HistoryMax] /\ differed' \in [Inputs -> 0..HistoryMax]
  <2>1. \A i \in Inputs : /\ Tick(differs[i]) \in 0..HistoryMax
                          /\ Tick(differed[i]) \in 0..HistoryMax
                          /\ differed[i] \in 0..HistoryMax
    BY TickFacts DEF TypeOK
  <2> QED
    BY <1>z, <2>1 DEF extio_task, History
<1> QED
    BY <1>1, <1>2, <1>3, <1>4, <1>5, <1>6 DEF TypeOK

LEMMA TypeStep == TypeOK /\ [Next]_vars => TypeOK'
<1> SUFFICES ASSUME TypeOK, [Next]_vars PROVE TypeOK'
    OBVIOUS
<1>1. ASSUME NEW buf \in Levels, NEW down \in SUBSET Keys, NEW lows \in SUBSET Checks,
             extio_task(buf, down, lows)
      PROVE  TypeOK'
    BY <1>1, TypeTask
<1>2. ASSUME NEW k \in Keys, key_clr(k) PROVE TypeOK'
    BY <1>2 DEF key_clr, TypeOK, KeyEvents
<1>3. ASSUME NEW S \in SUBSET Relays, set_alarm(S) \/ clr_alarm(S) PROVE TypeOK'
    BY <1>3 DEF set_alarm, clr_alarm, TypeOK
<1>4. CASE UNCHANGED vars
    BY <1>4 DEF vars, ioVars, TypeOK
<1> QED
    BY <1>1, <1>2, <1>3, <1>4 DEF Next

\* TypeOK holds for every instance: the uint8_t counters of extio.c neither
\* wrap nor leave the range their comparisons rely on.
THEOREM TypeCorrect == Spec => []TypeOK
<1> QED
    BY TypeInit, TypeStep, PTL DEF Spec

-----------------------------------------------------------------------------
(* The detector inputs.  SteadyInputAccepted is not inductive: the timer   *)
(* must be known to lie between the two histories.                         *)

InputInv ==
    \A i \in Inputs : differs[i] <= timer[i] /\ timer[i] <= differed[i]

\* A pass that changes the saved level of an input accepts it.
LEMMA SaveChanges ==
    ASSUME TypeOK, NEW buf \in Levels, NEW down \in SUBSET Keys,
           NEW lows \in SUBSET Checks, extio_task(buf, down, lows), NEW i \in Inputs
    PROVE  /\ FIRE_MACHINE => (save'[i] # save[i] <=> Accepted(buf, i))
           /\ ~FIRE_MACHINE => save'[i] = save[i] /\ ~Differs(buf, i)
<1>1. CASE FIRE_MACHINE
    BY <1>1 DEF extio_task, extio_input_check, Accepted, Differs
<1>2. CASE ~FIRE_MACHINE
    BY <1>2 DEF extio_task, Levels, Differs
<1> QED
    BY <1>1, <1>2

LEMMA InputInit == Init => InputInv
<1> QED
    BY DEF Init, InputInv

LEMMA InputStep == TypeOK /\ InputInv /\ [Next]_vars => InputInv'
<1> SUFFICES ASSUME TypeOK, InputInv, [Next]_vars PROVE InputInv'
    OBVIOUS
<1>1. ASSUME NEW buf \in Levels, NEW down \in SUBSET Keys, NEW lows \in SUBSET Checks,
             extio_task(buf, down, lows)
      PROVE  InputInv'
  <2> SUFFICES ASSUME NEW i \in Inputs
               PROVE  differs'[i] <= timer'[i] /\ timer'[i] <= differed'[i]
    BY DEF InputInv
  <2>1. /\ timer[i] \in 0..InputTime
        /\ differs[i] \in 0..HistoryMax
        /\ differed[i] \in 0..HistoryMax
        /\ differs[i] <= timer[i] /\ timer[i] <= differed[i]
    BY DEF TypeOK, InputInv
  <2>2. /\ differs'[i] = IF Differs(buf, i) /\ save'[i] = save[i] THEN Tick(differs[i]) ELSE 0
        /\ differed'[i] = IF save'[i] # save[i] THEN 0
                          ELSE IF Differs(buf, i) THEN Tick(differed[i]) ELSE differed[i]
    BY <1>1 DEF extio_task, History
  <2>3. /\ Tick(differs[i]) <= differs[i] + 1
        /\ Tick(differed[i]) \in 0..HistoryMax
        /\ differed[i] < HistoryMax => Tick(differed[i]) = differed[i] + 1
        /\ differed[i] = HistoryMax => Tick(differed[i]) = HistoryMax
        /\ Tick(differs[i]) \in 0..HistoryMax
    BY <2>1, TickFacts, TimesAssumption DEF Tick, HistoryMax
  <2>4. CASE FIRE_MACHINE
    <3>1. timer'[i] = NextTimer(buf, i)
      BY <1>1, <2>4 DEF extio_task, extio_input_check
    <3>2. buf \in [Inputs -> BOOLEAN]
      BY LevelsType
    <3>3. save'[i] # save[i] <=> Accepted(buf, i)
      BY <1>1, <2>4, SaveChanges
    <3>4. CASE Accepted(buf, i)
      BY <3>1, <3>2, <3>3, <3>4, <2>1, <2>2, NextTimerFacts
    <3>5. CASE ~Accepted(buf, i) /\ Differs(buf, i)
      <4>1. timer'[i] = timer[i] + 1 /\ timer'[i] <= InputTime
        BY <3>1, <3>2, <3>5, <2>1, NextTimerFacts, TimesAssumption
      <4>2. differs'[i] = Tick(differs[i]) /\ differed'[i] = Tick(differed[i])
        BY <3>3, <3>5, <2>2
      <4>3. InputTime < HistoryMax /\ InputTime \in Nat /\ HistoryMax \in Nat
        BY TimesAssumption DEF HistoryMax
      <4> QED
        BY <4>1, <4>2, <4>3, <2>1, <2>3
    <3>6. CASE ~Accepted(buf, i) /\ ~Differs(buf, i)
      <4>1. timer'[i] <= timer[i] /\ timer'[i] \in 0..InputTime
        BY <3>1, <3>2, <3>6, <2>1, NextTimerFacts
      <4>2. differs'[i] = 0 /\ differed'[i] = differed[i]
        BY <3>3, <3>6, <2>2
      <4> QED
        BY <4>1, <4>2, <2>1, TimesAssumption DEF HistoryMax
    <3> QED
      BY <3>4, <3>5, <3>6
  <2>5. CASE ~FIRE_MACHINE
    <3>1. save'[i] = save[i] /\ ~Differs(buf, i)
      BY <1>1, <2>5, SaveChanges
    <3>2. timer'[i] = timer[i]
      BY <1>1, <2>5 DEF extio_task
    <3> QED
      BY <3>1, <3>2, <2>1, <2>2, TimesAssumption
  <2> QED
    BY <2>4, <2>5
<1>2. CASE UNCHANGED <<timer, differs, differed>>
    BY <1>2 DEF InputInv
<1> QED
    BY <1>1, <1>2 DEF Next, key_clr, set_alarm, clr_alarm, vars, ioVars

LEMMA InputInvariant == Spec => [](TypeOK /\ InputInv)
<1> QED
    BY TypeInit, TypeStep, InputInit, InputStep, PTL DEF Spec

\* extio_input_check accepts every steady signal by the scan after InputTime
\* differing ones, whatever the neighbours in its byte do and wherever the
\* inputs are in the bytes.
THEOREM SteadyAccepted == Spec => []SteadyInputAccepted
<1>1. TypeOK /\ InputInv => SteadyInputAccepted
  <2> SUFFICES ASSUME TypeOK, InputInv, NEW i \in Inputs PROVE differs[i] <= InputTime
    BY DEF SteadyInputAccepted
  <2>1. timer[i] \in 0..InputTime /\ differs[i] \in 0..HistoryMax /\ differs[i] <= timer[i]
    BY DEF TypeOK, InputInv
  <2> QED
    BY <2>1, TimesAssumption DEF HistoryMax
<1> QED
    BY <1>1, InputInvariant, PTL

\* extio_input_check accepts a level only after InputTime earlier scans found
\* the input at it: no glitch shorter than that changes a saved level.
THEOREM GlitchesRejected == Spec => GlitchRejected
<1>1. TypeOK /\ InputInv /\ [Next]_vars
        => [\A i \in Inputs : save'[i] # save[i] => differed[i] >= InputTime]_vars
  <2> SUFFICES ASSUME TypeOK, InputInv, Next, NEW i \in Inputs, save'[i] # save[i]
               PROVE  differed[i] >= InputTime
    OBVIOUS
  <2>1. PICK buf \in Levels, down \in SUBSET Keys, lows \in SUBSET Checks :
             extio_task(buf, down, lows)
    BY DEF Next, key_clr, set_alarm, clr_alarm
  <2>2. Accepted(buf, i)
    BY <2>1, SaveChanges, FireMachineAssumption
  <2>3. timer[i] >= InputTime
    BY <2>2 DEF Accepted
  <2>4. /\ timer[i] \in 0..InputTime /\ differed[i] \in 0..HistoryMax
        /\ timer[i] <= differed[i]
    BY DEF TypeOK, InputInv
  <2> QED
    BY <2>3, <2>4, TimesAssumption DEF HistoryMax
<1> QED
    BY <1>1, InputInvariant, PTL DEF Spec, GlitchRejected

-----------------------------------------------------------------------------
(* The keys and the supervised lines.  A counter of the thread and the     *)
(* history it abbreviates agree until the counter saturates.               *)

Counts(time, scans) ==
    /\ scans <= TimeMax => time = scans
    /\ scans > TimeMax => time = TimeMax

KeyInv == \A k \in Keys : Counts(keyTime[k], held[k])
LineInv == \A c \in Checks : /\ Counts(checkTime[c], low[c])
                             /\ checkSta[c] <=> checkTime[c] > CheckTime

\* One more scan, in the counter and in the history.
LEMMA CountsUp ==
    ASSUME NEW time \in 0..TimeMax, NEW scans \in 0..HistoryMax, Counts(time, scans)
    PROVE  Counts(CountUp(time), Tick(scans))
<1> QED
    BY TimesAssumption DEF Counts, CountUp, Tick, HistoryMax

\* Below TimeMax a comparison of the counter is one of the history.
LEMMA CountsAgree ==
    ASSUME NEW time \in 0..TimeMax, NEW scans \in 0..HistoryMax, Counts(time, scans),
           NEW n \in Nat, n < TimeMax
    PROVE  time > n <=> scans > n
<1> QED
    BY TimesAssumption DEF Counts, HistoryMax

LEMMA KeyLineInit == Init => KeyInv /\ LineInv
<1> QED
    BY TimesAssumption DEF Init, KeyInv, LineInv, Counts

LEMMA KeyLineStep == TypeOK /\ KeyInv /\ LineInv /\ [Next]_vars => KeyInv' /\ LineInv'
<1> SUFFICES ASSUME TypeOK, KeyInv, LineInv, [Next]_vars PROVE KeyInv' /\ LineInv'
    OBVIOUS
<1>z. Counts(0, 0)
    BY TimesAssumption DEF Counts
<1>1. ASSUME NEW buf \in Levels, NEW down \in SUBSET Keys, NEW lows \in SUBSET Checks,
             extio_task(buf, down, lows)
      PROVE  KeyInv' /\ LineInv'
  <2>1. ASSUME NEW k \in Keys PROVE Counts(keyTime[k], held[k])'
    <3>1. keyTime[k] \in 0..TimeMax /\ held[k] \in 0..HistoryMax /\ keySta[k] \in KeyEvents
          /\ Counts(keyTime[k], held[k])
      BY DEF TypeOK, KeyInv
    <3>2. keyTime'[k] = IF k \in down THEN CountUp(keyTime[k]) ELSE 0
      BY <1>1 DEF extio_task, extio_key_scan, ScanKey
    <3>3. held'[k] = IF k \in down THEN Tick(held[k]) ELSE 0
      BY <1>1 DEF extio_task, History
    <3>4. Counts(keyTime'[k], held'[k])
      BY <3>1, <3>2, <3>3, <1>z, CountsUp
    <3> QED
      BY <3>4 DEF Counts
  <2>2. ASSUME NEW c \in Checks
        PROVE  (Counts(checkTime[c], low[c]) /\ (checkSta[c] <=> checkTime[c] > CheckTime))'
    <3>1. checkTime[c] \in 0..TimeMax /\ low[c] \in 0..HistoryMax /\ checkSta[c] \in BOOLEAN
          /\ Counts(checkTime[c], low[c]) /\ (checkSta[c] <=> checkTime[c] > CheckTime)
      BY DEF TypeOK, LineInv
    <3>2. checkTime'[c] = IF c \in lows THEN CountUp(checkTime[c]) ELSE 0
      BY <1>1 DEF extio_task, extio_check
    <3>3. checkSta'[c] = (c \in lows /\ (checkSta[c] \/ checkTime'[c] > CheckTime))
      BY <1>1 DEF extio_task, extio_check
    <3>4. low'[c] = IF c \in lows THEN Tick(low[c]) ELSE 0
      BY <1>1 DEF extio_task, History
    <3>5. Counts(checkTime'[c], low'[c])
      BY <3>1, <3>2, <3>4, <1>z, CountsUp
    <3>6. checkTime[c] > CheckTime => CountUp(checkTime[c]) > CheckTime
      BY <3>1, TimesAssumption DEF CountUp
    <3>7. checkSta'[c] <=> checkTime'[c] > CheckTime
      <4>1. ~(0 > CheckTime)
        BY TimesAssumption
      <4>2. CASE c \in lows
        BY <4>2, <3>1, <3>2, <3>3, <3>6, Zenon
      <4>3. CASE c \notin lows
        BY <4>1, <4>3, <3>2, <3>3, Zenon
      <4> QED
        BY <4>2, <4>3
    <3> QED
      BY <3>5, <3>7 DEF Counts
  <2> QED
    BY <2>1, <2>2 DEF KeyInv, LineInv
<1>2. CASE UNCHANGED <<keyTime, held, checkTime, checkSta, low>>
    BY <1>2 DEF KeyInv, LineInv, Counts
<1> QED
    BY <1>1, <1>2 DEF Next, key_clr, set_alarm, clr_alarm, vars, ioVars

LEMMA KeyLineInvariant == Spec => [](TypeOK /\ KeyInv /\ LineInv)
<1> QED
    BY TypeInit, TypeStep, KeyLineInit, KeyLineStep, PTL DEF Spec

\* extio_check reports a line active exactly while it has been low for more
\* than CheckTime scans, also once its uint8_t counter has saturated.
THEOREM LineIsSteadyLow == Spec => []CheckIsSteadyLow
<1>1. TypeOK /\ LineInv => CheckIsSteadyLow
  <2> SUFFICES ASSUME TypeOK, LineInv, NEW c \in Checks
               PROVE  checkSta[c] <=> low[c] > CheckTime
    BY DEF CheckIsSteadyLow
  <2>1. checkTime[c] \in 0..TimeMax /\ low[c] \in 0..HistoryMax
        /\ Counts(checkTime[c], low[c]) /\ (checkSta[c] <=> checkTime[c] > CheckTime)
    BY DEF TypeOK, LineInv
  <2>2. CheckTime \in Nat /\ CheckTime < TimeMax
    BY TimesAssumption
  <2> QED
    BY <2>1, <2>2, CountsAgree
<1> QED
    BY <1>1, KeyLineInvariant, PTL

\* What a step may do to one key: the thread scans it, a client clears it, or
\* nothing happens to it.
LEMMA KeySteps ==
    ASSUME TypeOK, KeyInv, Next, NEW k \in Keys
    PROVE  \/ \E d \in BOOLEAN :
                /\ keySta'[k] = ScanKey(k, d).sta
                /\ held'[k] = IF d THEN Tick(held[k]) ELSE 0
           \/ keySta'[k] \in {keySta[k], "RELEASE"} /\ held'[k] = held[k]
<1>1. ASSUME NEW buf \in Levels, NEW down \in SUBSET Keys, NEW lows \in SUBSET Checks,
             extio_task(buf, down, lows)
      PROVE  \E d \in BOOLEAN :
                /\ keySta'[k] = ScanKey(k, d).sta
                /\ held'[k] = IF d THEN Tick(held[k]) ELSE 0
  <2>1. (k \in down) \in BOOLEAN
    OBVIOUS
  <2>2. keySta'[k] = ScanKey(k, k \in down).sta
    BY <1>1 DEF extio_task, extio_key_scan
  <2>3. held'[k] = IF k \in down THEN Tick(held[k]) ELSE 0
    BY <1>1 DEF extio_task, History
  <2> QED
    BY <2>1, <2>2, <2>3
<1>2. ASSUME NEW j \in Keys, key_clr(j)
      PROVE  keySta'[k] \in {keySta[k], "RELEASE"} /\ held'[k] = held[k]
    BY <1>2 DEF key_clr, TypeOK
<1>3. ASSUME NEW S \in SUBSET Relays, set_alarm(S) \/ clr_alarm(S)
      PROVE  keySta'[k] \in {keySta[k], "RELEASE"} /\ held'[k] = held[k]
    BY <1>3 DEF set_alarm, clr_alarm
<1> QED
    BY <1>1, <1>2, <1>3 DEF Next

\* extio_key_scan misses no press: a key let go after more than PressTime
\* scans leaves an event, however long it was held.
THEOREM PressesSeen == Spec => NoPressMissed
<1>1. TypeOK /\ KeyInv /\ [Next]_vars
        => [\A k \in Keys : held[k] > PressTime /\ held'[k] = 0 => keySta'[k] # "RELEASE"]_vars
  <2> SUFFICES ASSUME TypeOK, KeyInv, Next, NEW k \in Keys,
                      held[k] > PressTime, held'[k] = 0
               PROVE  keySta'[k] # "RELEASE"
    OBVIOUS
  <2>1. keyTime[k] \in 0..TimeMax /\ keySta[k] \in KeyEvents /\ held[k] \in 0..HistoryMax
        /\ Counts(keyTime[k], held[k])
    BY DEF TypeOK, KeyInv
  <2>2. PressTime \in Nat /\ PressTime < TimeMax
    BY TimesAssumption
  <2>3. PICK d \in BOOLEAN : /\ keySta'[k] = ScanKey(k, d).sta
                             /\ held'[k] = IF d THEN Tick(held[k]) ELSE 0
    BY KeySteps, <2>1, <2>2
  <2>4. ~d
    BY <2>1, <2>3, TickFacts
  <2>5. keyTime[k] > PressTime
    BY <2>1, <2>2, CountsAgree
  <2> QED
    BY <2>1, <2>3, <2>4, <2>5, ScanKeyFacts
<1> QED
    BY <1>1, KeyLineInvariant, PTL DEF Spec, NoPressMissed

\* extio_key_scan raises no event out of nothing: PRESS ends a hold longer
\* than PressTime, KEEP is raised in a hold longer than KeepTime.
THEOREM EventsEarned == Spec => EventsAreEarned
<1>1. TypeOK /\ KeyInv /\ [Next]_vars
        => [\A k \in Keys : keySta'[k] # keySta[k] =>
              /\ keySta'[k] = "PRESS" => held[k] > PressTime /\ held'[k] = 0
              /\ keySta'[k] = "KEEP" => held'[k] > KeepTime]_vars
  <2> SUFFICES ASSUME TypeOK, KeyInv, Next, NEW k \in Keys, keySta'[k] # keySta[k]
               PROVE  /\ keySta'[k] = "PRESS" => held[k] > PressTime /\ held'[k] = 0
                      /\ keySta'[k] = "KEEP" => held'[k] > KeepTime
    OBVIOUS
  <2>1. keyTime[k] \in 0..TimeMax /\ keySta[k] \in KeyEvents /\ held[k] \in 0..HistoryMax
        /\ Counts(keyTime[k], held[k])
    BY DEF TypeOK, KeyInv
  <2>2. /\ PressTime \in Nat /\ PressTime < TimeMax
        /\ KeepTime \in Nat /\ KeepTime < TimeMax
    BY TimesAssumption
  <2>3. CASE keySta'[k] = "RELEASE"
    BY <2>3
  <2>4. ASSUME NEW d \in BOOLEAN, keySta'[k] = ScanKey(k, d).sta,
               held'[k] = IF d THEN Tick(held[k]) ELSE 0
        PROVE  /\ keySta'[k] = "PRESS" => held[k] > PressTime /\ held'[k] = 0
               /\ keySta'[k] = "KEEP" => held'[k] > KeepTime
    <3>1. CASE d /\ CountUp(keyTime[k]) > KeepTime /\ keySta'[k] = "KEEP"
      <4>1. Tick(held[k]) \in 0..HistoryMax /\ CountUp(keyTime[k]) \in 0..TimeMax
        BY <2>1, TickFacts, CountUpFacts
      <4>2. Counts(CountUp(keyTime[k]), Tick(held[k]))
        BY <2>1, CountsUp
      <4>3. Tick(held[k]) > KeepTime
        BY <3>1, <4>1, <4>2, <2>2, CountsAgree
      <4> QED
        BY <3>1, <4>3, <2>4
    <3>2. CASE ~d /\ keyTime[k] > PressTime /\ keySta'[k] = "PRESS"
      BY <3>2, <2>1, <2>2, <2>4, CountsAgree
    <3> QED
      BY <3>1, <3>2, <2>1, <2>4, ScanKeyFacts
  <2> QED
    BY <2>3, <2>4, KeySteps
<1> QED
    BY <1>1, KeyLineInvariant, PTL DEF Spec, EventsAreEarned

-----------------------------------------------------------------------------
(* The refinement of ExtioAbs, whose variables Extio keeps under the same  *)
(* names.                                                                  *)

\* A pass of the thread is a Scan of the abstract specification.
LEMMA TaskIsScan ==
    ASSUME TypeOK, TypeOK', NEW buf \in Levels, NEW down \in SUBSET Keys,
           NEW lows \in SUBSET Checks, extio_task(buf, down, lows)
    PROVE  Abs!Scan
<1>1. ASSUME NEW k \in Keys PROVE keySta'[k] \in Abs!KeyScanResult(k)
  <2>1. keyTime[k] \in 0..TimeMax /\ keySta[k] \in KeyEvents /\ (k \in down) \in BOOLEAN
    BY DEF TypeOK
  <2>2. keySta'[k] = ScanKey(k, k \in down).sta
    BY DEF extio_task, extio_key_scan
  <2> QED
    BY <2>1, <2>2, ScanKeyFacts DEF Abs!KeyScanResult
<1>2. keySta' \in [Keys -> Abs!KeyEvents] /\ checkSta' \in [Checks -> BOOLEAN]
      /\ save' \in [Inputs -> BOOLEAN]
    BY DEF TypeOK, KeyEvents, Abs!KeyEvents
<1> QED
    BY <1>1, <1>2 DEF Abs!Scan, extio_task

\* The detailed thread implements what ExtioAbs promises to its clients, the
\* specification under which the control thread is modelled and proved.
THEOREM Implements == Spec => ImplementsAbs
<1>1. Init => Abs!AbsInit
    BY DEF Init, Abs!AbsInit
<1>2. TypeOK /\ TypeOK' /\ [Next]_vars => [Abs!AbsNext]_(Abs!absVars)
  <2> SUFFICES ASSUME TypeOK, TypeOK', [Next]_vars
               PROVE  Abs!AbsNext \/ UNCHANGED Abs!absVars
    OBVIOUS
  <2>1. ASSUME NEW buf \in Levels, NEW down \in SUBSET Keys, NEW lows \in SUBSET Checks,
               extio_task(buf, down, lows)
        PROVE  Abs!AbsNext
    BY <2>1, TaskIsScan DEF Abs!AbsNext
  <2>2. ASSUME NEW k \in Keys, key_clr(k) PROVE Abs!AbsNext
    <3>1. keySta' = [j \in Keys |-> IF j \in {k} THEN "RELEASE" ELSE keySta[j]]
      BY <2>2 DEF key_clr, TypeOK
    <3>2. {k} \in SUBSET Keys
      OBVIOUS
    <3> QED
      BY <2>2, <3>1, <3>2 DEF Abs!AbsNext, Abs!ClientWrite, key_clr
  <2>3. ASSUME NEW S \in SUBSET Relays, set_alarm(S) \/ clr_alarm(S) PROVE Abs!AbsNext
    BY <2>3 DEF set_alarm, clr_alarm, Abs!AbsNext, Abs!ClientWrite, Abs!set_alarm, Abs!clr_alarm
  <2>4. CASE UNCHANGED vars
    BY <2>4 DEF vars, ioVars, Abs!absVars
  <2> QED
    BY <2>1, <2>2, <2>3, <2>4 DEF Next
<1> QED
    BY <1>1, <1>2, TypeCorrect, PTL DEF Spec, ImplementsAbs, Abs!AbsSpec
==============================================================================

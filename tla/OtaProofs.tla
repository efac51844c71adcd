------------------------------ MODULE OtaProofs ------------------------------
(***************************************************************************)
(* Proofs about Ota: for any number of callers of ota_init and of ota      *)
(* threads, any releases, and any times of the saves that fit the delay of *)
(* ota_save_ver.                                                           *)
(***************************************************************************)
EXTENDS Ota, FiniteSetTheorems, TLAPS

StarterSteps == {"idle", "set", "create"}
TaskSteps == {"none", "get", "delay", "download", "saving", "end"}
VersionsOrNone == Versions \cup {NoVersion}

\* The types of the variables.  A thread that has found a newer version keeps
\* a version and not the 0 of a missing one, so the firmware is a release.
TypeInv ==
    /\ starter \in [Starters -> StarterSteps]
    /\ task \in [Tasks -> TaskSteps]
    /\ ver \in [Tasks -> VersionsOrNone]
    /\ new_ver \in VersionsOrNone /\ configVer \in VersionsOrNone
    /\ imageVer \in VersionsOrNone
    /\ save_time \in 0..SavePasses - 1
    /\ waited \in [Tasks -> 0..SaveDelay]
    /\ stalls \in Nat
    /\ firmware \in Versions

Fetching == {"delay", "download", "saving"}
FoundInv == \A t \in Tasks : task[t] \in Fetching => ver[t] \in Versions

-----------------------------------------------------------------------------
(* Facts about the constants and the operators.                            *)

LEMMA ConstFacts ==
    /\ NoVersion = 0 /\ Versions \subseteq Nat /\ First \in Versions
    /\ VersionsOrNone \subseteq Nat
    /\ SavePasses \in Nat /\ SavePasses >= 1
    /\ SaveDelay \in Nat /\ SavePasses <= SaveDelay
<1> QED
    BY VersionsAssumption, BoundsAssumption DEF NoVersion, VersionsOrNone

\* misc_task's count of passes comes back to 0 after SavePasses of them.
LEMMA NextPassFacts ==
    ASSUME save_time \in 0..SavePasses - 1
    PROVE  /\ NextPass \in 0..SavePasses - 1
           /\ NextPass # 0 => NextPass = save_time + 1
<1>1. SavePasses \in Nat /\ SavePasses >= 1
    BY ConstFacts
<1>2. CASE save_time + 1 < SavePasses
  <2>1. (save_time + 1) % SavePasses = save_time + 1
    BY <1>1, <1>2
  <2> QED
    BY <2>1, <1>1, <1>2 DEF NextPass
<1>3. CASE save_time + 1 = SavePasses
  <2>1. (save_time + 1) % SavePasses = 0
    BY <1>1, <1>3
  <2> QED
    BY <2>1, <1>1, <1>3 DEF NextPass
<1> QED
    BY <1>1, <1>2, <1>3

\* A free slot is taken for a new thread whenever there is one.
LEMMA FreeIsFree ==
    ASSUME Live # Tasks
    PROVE  Free \in Tasks /\ task[Free] = "none"
<1> QED
    BY DEF Live, Free

\* A version found newer is a release: ver.json without one reads as 0.
LEMMA NewerIsVersion ==
    ASSUME TypeInv, NEW v \in VersionsOrNone, Newer(v)
    PROVE  v \in Versions
<1>1. v > configVer /\ configVer \in Nat /\ v \in Nat
    BY ConstFacts DEF Newer, TypeInv
<1> QED
    BY <1>1, ConstFacts DEF VersionsOrNone, NoVersion

\* What power-on leaves behind.
LEMMA PowerOnTypes ==
    ASSUME TypeInv, PowerOn, UNCHANGED imageVer, firmware' \in Versions
    PROVE  TypeInv' /\ FoundInv'
<1>1. 0 \in 0..SavePasses - 1 /\ 0 \in 0..SaveDelay
    BY ConstFacts
<1>2. NoVersion \in VersionsOrNone
    BY DEF VersionsOrNone
<1>3. TypeInv'
    BY <1>1, <1>2 DEF PowerOn, TypeInv, StarterSteps, TaskSteps
<1>4. FoundInv'
    BY DEF PowerOn, FoundInv, Fetching
<1> QED
    BY <1>3, <1>4

LEMMA TypeInit == Init => TypeInv /\ FoundInv
<1> SUFFICES ASSUME Init PROVE TypeInv /\ FoundInv
    OBVIOUS
<1>1. 0 \in 0..SavePasses - 1 /\ 0 \in 0..SaveDelay
    BY ConstFacts
<1>2. NoVersion \in VersionsOrNone /\ First \in VersionsOrNone /\ First \in Versions
    BY ConstFacts DEF VersionsOrNone
<1>3. TypeInv
    BY <1>1, <1>2 DEF Init, TypeInv, StarterSteps, TaskSteps
<1>4. FoundInv
    BY DEF Init, FoundInv, Fetching
<1> QED
    BY <1>3, <1>4

LEMMA TypeStep == TypeInv /\ FoundInv /\ [Next]_vars => TypeInv' /\ FoundInv'
<1> SUFFICES ASSUME TypeInv, FoundInv, [Next]_vars PROVE TypeInv' /\ FoundInv'
    OBVIOUS
<1> USE DEF time, StarterSteps, TaskSteps, Fetching
<1>1. ASSUME NEW s \in Starters, ota_init(s) PROVE TypeInv' /\ FoundInv'
  <2>1. CASE Test(s)
    BY <2>1 DEF Test, TypeInv, FoundInv
  <2>2. CASE Refuse(s)
    BY <2>2 DEF Refuse, vars, TypeInv, FoundInv
  <2>3. CASE Set(s)
    BY <2>3 DEF Set, TypeInv, FoundInv
  <2>4. CASE Create(s)
    <3>1. task' \in [Tasks -> TaskSteps]
      BY <2>4 DEF Create, TypeInv
    <3>2. \A t \in Tasks : task'[t] \in Fetching => task[t] \in Fetching
      BY <2>4 DEF Create, TypeInv
    <3>3. UNCHANGED <<ver, new_ver, configVer, imageVer, time, firmware>>
      BY <2>4 DEF Create
    <3>4. starter' \in [Starters -> StarterSteps]
      BY <2>4 DEF Create, TypeInv
    <3> QED
      BY <3>1, <3>2, <3>3, <3>4 DEF TypeInv, FoundInv
  <2> QED
    BY <1>1, <2>1, <2>2, <2>3, <2>4 DEF ota_init
<1>2. ASSUME NEW t \in Tasks, ota_task(t) PROVE TypeInv' /\ FoundInv'
  <2>1. CASE GetFails(t)
    BY <2>1 DEF GetFails, Moves, TypeInv, FoundInv
  <2>2. ASSUME NEW o \in Offered, Compare(t, o) PROVE TypeInv' /\ FoundInv'
    <3>1. o.ver \in VersionsOrNone
      BY OffersAssumption DEF Offers, VersionsOrNone
    <3>2. CASE Newer(o.ver) /\ o.file
      <4>1. o.ver \in Versions
        BY <3>1, <3>2, NewerIsVersion
      <4>2. /\ task' = [task EXCEPT ![t] = "delay"] /\ ver' = [ver EXCEPT ![t] = o.ver]
            /\ UNCHANGED <<starter, new_ver, configVer, imageVer, time, firmware>>
        BY <2>2, <3>2 DEF Compare, Moves
      <4> QED
        BY <4>1, <4>2, <3>1 DEF TypeInv, FoundInv
    <3>3. CASE Newer(o.ver) /\ ~o.file
      BY <2>2, <3>3 DEF Compare, Moves, TypeInv, FoundInv
    <3>4. CASE ~Newer(o.ver)
      BY <2>2, <3>1, <3>4 DEF Compare, Moves, TypeInv, FoundInv
    <3> QED
      BY <3>2, <3>3, <3>4
  <2>3. CASE Delay(t)
    BY <2>3 DEF Delay, Moves, TypeInv, FoundInv
  <2>4. CASE DownloadFails(t)
    <3>1. NoVersion \in VersionsOrNone
      BY DEF VersionsOrNone
    <3> QED
      BY <2>4, <3>1 DEF DownloadFails, Moves, TypeInv, FoundInv
  <2>5. CASE ota_save_ver(t)
    <3>1. 0 \in 0..SaveDelay
      BY ConstFacts
    <3>2. save_time' \in 0..SavePasses - 1 /\ stalls' \in Nat
      BY <2>5, <3>1 DEF ota_save_ver, TypeInv
    <3>3. FoundInv'
      BY <2>5 DEF ota_save_ver, Moves, TypeInv, FoundInv
    <3> QED
      BY <2>5, <3>1, <3>2, <3>3 DEF ota_save_ver, Moves, TypeInv
  <2>6. CASE Restart(t)
    <3>1. firmware' \in Versions
      BY <2>6 DEF Restart, FoundInv
    <3> QED
      BY <2>6, <3>1, PowerOnTypes DEF Restart
  <2>7. CASE End(t)
    BY <2>7 DEF End, Moves, TypeInv, FoundInv
  <2> QED
    BY <1>2, <2>1, <2>2, <2>3, <2>4, <2>5, <2>6, <2>7 DEF ota_task
<1>3. CASE Save
    BY <1>3 DEF Save, TypeInv, FoundInv
<1>4. CASE Tick
  <2>1. waited' \in [Tasks -> 0..SaveDelay]
    <3>1. \A u \in Tasks : waited[u] \in 0..SaveDelay
      BY DEF TypeInv
    <3>2. \A u \in Tasks : waited[u] < SavedFor => waited[u] + 1 \in 0..SaveDelay
      BY <3>1, ConstFacts DEF SavedFor
    <3> QED
      BY <1>4, <3>1, <3>2 DEF Tick
  <2>2. save_time' \in 0..SavePasses - 1
    BY <1>4, NextPassFacts DEF Tick, TypeInv
  <2>3. stalls' \in Nat
    BY <1>4, ConstFacts DEF Tick, TypeInv
  <2>4. imageVer' \in VersionsOrNone
    BY <1>4 DEF Tick, TypeInv
  <2> QED
    BY <1>4, <2>1, <2>2, <2>3, <2>4 DEF Tick, TypeInv, FoundInv
<1>5. CASE MiscStops
    BY <1>5 DEF MiscStops, TypeInv, FoundInv
<1>6. CASE Crash
  <2>1. firmware' \in Versions
    BY <1>6 DEF Crash, Saving, TypeInv, FoundInv
  <2> QED
    BY <1>6, <2>1, PowerOnTypes DEF Crash
<1>7. CASE UNCHANGED vars
    BY <1>7 DEF vars, TypeInv, FoundInv
<1> QED
    BY <1>1, <1>2, <1>3, <1>4, <1>5, <1>6, <1>7 DEF Next

-----------------------------------------------------------------------------
(* ota_running keeps the updates apart.  The flag is tested and set in two *)
(* steps: unless two callers were both between them (`raced'), a caller    *)
(* that passed the test is alone, and the flag is set from its assignment  *)
(* to the end of the thread it creates.                                    *)

Apart ==
    /\ \A r, s \in Starters : starter[r] = "set" /\ starter[s] = "set" => r = s
    /\ \A s \in Starters : starter[s] = "set" => ~ota_running
    /\ \A s \in Starters : starter[s] = "create" => ota_running /\ Live = {}
    /\ \A r, s \in Starters : starter[r] = "create" /\ starter[s] = "create" => r = s
    /\ \A t \in Tasks : task[t] # "none" => ota_running
    /\ \A t, u \in Tasks : task[t] # "none" /\ task[u] # "none" => t = u
    \* ota_save_ver will record the version of the thread that downloads.
    /\ \A t \in Tasks : task[t] = "download" => new_ver = ver[t]

ApartInv == raced \/ Apart

\* Power-on leaves no caller and no thread.
LEMMA PowerOnApart == PowerOn => ApartInv'
<1> QED
    BY DEF PowerOn, ApartInv, Apart

LEMMA ApartInit == Init => ApartInv
<1> QED
    BY DEF Init, ApartInv, Apart

\* A step of a thread in ota_task: its slot stays in use.
LEMMA ApartTask ==
    ASSUME TypeInv, Apart, NEW t \in Tasks, NEW to \in TaskSteps \ {"none"},
           task[t] # "none", Moves(t, to), UNCHANGED <<starter, ota_running>>,
           to = "download" => new_ver' = ver'[t]
    PROVE  Apart'
<1>1. \A u \in Tasks : /\ task'[u] # "none" <=> task[u] # "none"
                       /\ u # t => task'[u] = "none"
    BY DEF Moves, Apart, TypeInv
<1>2. Live' = Live
    BY <1>1 DEF Live
<1>3. \A u \in Tasks : task'[u] = "download" => new_ver' = ver'[u]
    BY <1>1 DEF Moves, TypeInv
<1> QED
    BY <1>1, <1>2, <1>3 DEF Apart

LEMMA ApartStep == TypeInv /\ ApartInv /\ [Next]_vars => ApartInv'
<1> SUFFICES ASSUME TypeInv, Apart, ~raced, [Next]_vars PROVE ApartInv'
  <2>1. ASSUME raced, [Next]_vars PROVE ApartInv'
    <3>1. raced' \/ PowerOn
      BY <2>1 DEF Next, ota_init, Test, Refuse, Set, Create, ota_task, GetFails, Compare,
                  Delay, DownloadFails, ota_save_ver, Restart, End, Save, Tick,
                  MiscStops, Crash, vars
    <3> QED
      BY <3>1, PowerOnApart DEF ApartInv
  <2> QED
    BY <2>1 DEF ApartInv
<1>1. ASSUME NEW s \in Starters, ota_init(s) PROVE ApartInv'
  <2>1. CASE Test(s)
    <3>1. CASE \E r \in Starters : starter[r] = "set"
      BY <2>1, <3>1 DEF Test, ApartInv
    <3>2. CASE ~\E r \in Starters : starter[r] = "set"
      <4>1. /\ \A r \in Starters : starter'[r] = IF r = s THEN "set" ELSE starter[r]
            /\ ~ota_running /\ UNCHANGED <<ota_running, task, new_ver, ver>>
        BY <2>1 DEF Test, Admit, TypeInv
      <4>2. Live' = Live
        BY <4>1 DEF Live
      <4> QED
        BY <3>2, <4>1, <4>2 DEF ApartInv, Apart
    <3> QED
      BY <3>1, <3>2
  <2>2. CASE Refuse(s)
    BY <2>2 DEF Refuse, vars, ApartInv, Apart, Live
  <2>3. CASE Set(s)
    <3>1. /\ \A r \in Starters : starter'[r] = IF r = s THEN "create" ELSE starter[r]
          /\ starter[s] = "set" /\ ota_running'
          /\ UNCHANGED <<task, new_ver, ver>>
      BY <2>3 DEF Set, TypeInv
    <3>2. Live = {} /\ Live' = {}
      BY <3>1 DEF Apart, Live
    <3> QED
      BY <3>1, <3>2 DEF ApartInv, Apart
  <2>4. CASE Create(s)
    <3>1. /\ \A r \in Starters : starter'[r] = IF r = s THEN "idle" ELSE starter[r]
          /\ starter[s] = "create" /\ UNCHANGED <<ota_running, new_ver, ver>>
      BY <2>4 DEF Create, TypeInv
    <3>2. \A r \in Starters : starter'[r] # "create"
      BY <3>1 DEF Apart
    <3>3. Live = {} /\ ota_running
      BY <3>1 DEF Apart
    <3>4. \A t \in Tasks : task[t] = "none"
      BY <3>3 DEF Live
    <3>5. CASE Live # Tasks /\ task' = [task EXCEPT ![Free] = "get"]
      <4>1. \A t \in Tasks : task'[t] = IF t = Free THEN "get" ELSE "none"
        BY <3>4, <3>5, FreeIsFree DEF TypeInv
      <4> QED
        BY <3>1, <3>2, <3>3, <4>1 DEF ApartInv, Apart
    <3>6. CASE UNCHANGED task
      BY <3>1, <3>2, <3>3, <3>4, <3>6 DEF ApartInv, Apart
    <3> QED
      BY <2>4, <3>5, <3>6 DEF Create
  <2> QED
    BY <1>1, <2>1, <2>2, <2>3, <2>4 DEF ota_init
<1>2. ASSUME NEW t \in Tasks, ota_task(t) PROVE ApartInv'
  <2>1. CASE GetFails(t)
    BY <2>1, ApartTask DEF GetFails, ApartInv, TaskSteps
  <2>2. ASSUME NEW o \in Offered, Compare(t, o) PROVE ApartInv'
    <3>1. Moves(t, "delay") \/ Moves(t, "end")
      BY <2>2 DEF Compare
    <3>2. task[t] # "none" /\ UNCHANGED <<starter, ota_running>>
      BY <2>2 DEF Compare
    <3> QED
      BY <3>1, <3>2, ApartTask DEF ApartInv, TaskSteps
  <2>3. CASE Delay(t)
    BY <2>3, ApartTask DEF Delay, ApartInv, TaskSteps
  <2>4. CASE DownloadFails(t)
    BY <2>4, ApartTask DEF DownloadFails, ApartInv, TaskSteps
  <2>5. CASE ota_save_ver(t)
    BY <2>5, ApartTask DEF ota_save_ver, ApartInv, TaskSteps
  <2>6. CASE Restart(t)
    BY <2>6, PowerOnApart DEF Restart
  <2>7. CASE End(t)
    <3>1. /\ \A u \in Tasks : task'[u] = "none"
          /\ UNCHANGED <<starter, new_ver, ver>> /\ ~ota_running'
      BY <2>7 DEF End, Moves, FlagAfter, Apart, TypeInv
    <3>2. \A s \in Starters : starter[s] # "create"
      BY <2>7 DEF End, Apart, Live
    <3> QED
      BY <3>1, <3>2 DEF ApartInv, Apart
  <2> QED
    BY <1>2, <2>1, <2>2, <2>3, <2>4, <2>5, <2>6, <2>7 DEF ota_task
<1>3. CASE Save \/ Tick \/ MiscStops \/ UNCHANGED vars
  <2>1. UNCHANGED <<starter, ota_running, task, ver, new_ver>>
    BY <1>3 DEF Save, Tick, MiscStops, vars
  <2> QED
    BY <2>1 DEF ApartInv, Apart, Live
<1>4. CASE Crash
    BY <1>4, PowerOnApart DEF Crash
<1> QED
    BY <1>1, <1>2, <1>3, <1>4 DEF Next

LEMMA ApartInvariant == Spec => [](TypeInv /\ FoundInv /\ ApartInv)
<1> QED
    BY TypeInit, TypeStep, ApartInit, ApartStep, PTL DEF Spec

\* ota_init starts one ota thread at a time, however many callers it has,
\* unless two of them passed the unlocked test of ota_running together.
THEOREM OneUpdateAtATime == Spec => []OneUpdate
<1> DEFINE Creating == {s \in Starters : starter[s] = "create"}
<1>1. TypeInv /\ ApartInv => OneUpdate
  <2> SUFFICES ASSUME Apart PROVE Cardinality(Live) + Cardinality(Creating) <= 1
    BY DEF ApartInv, OneUpdate
  <2>1. Live = {} \/ \E t \in Tasks : Live = {t}
    BY DEF Apart, Live
  <2>2. Creating = {} \/ \E s \in Starters : Creating = {s}
    BY DEF Apart
  <2>3. Live = {} \/ Creating = {}
    BY DEF Apart
  <2>4. Cardinality(Live) \in {0, 1} /\ (Live = {} => Cardinality(Live) = 0)
    BY <2>1, FS_EmptySet, FS_Singleton
  <2>5. Cardinality(Creating) \in {0, 1} /\ (Creating = {} => Cardinality(Creating) = 0)
    BY <2>2, FS_EmptySet, FS_Singleton
  <2> QED
    BY <2>3, <2>4, <2>5
<1> QED
    BY <1>1, ApartInvariant, PTL

-----------------------------------------------------------------------------
(* The flag and the LED.                                                   *)

\* Neither ota_running nor the update LED is left on without an update under
\* way, unless a thread could not be created.
THEOREM NeverStuckBusy == Spec => []RefusedOnlyWhenBusy
<1>1. Init => RefusedOnlyWhenBusy
    BY DEF Init, RefusedOnlyWhenBusy
<1>2. TypeInv /\ RefusedOnlyWhenBusy /\ [Next]_vars => RefusedOnlyWhenBusy'
  <2> SUFFICES ASSUME TypeInv, RefusedOnlyWhenBusy, [Next]_vars
               PROVE  RefusedOnlyWhenBusy'
    OBVIOUS
  \* A step that keeps a thread alive, or every caller and thread.
  <2>a. ASSUME NEW t \in Tasks, task'[t] # "none" PROVE RefusedOnlyWhenBusy'
    BY <2>a DEF RefusedOnlyWhenBusy, Live
  <2>b. ASSUME NEW s \in Starters, starter'[s] # "idle" PROVE RefusedOnlyWhenBusy'
    BY <2>b DEF RefusedOnlyWhenBusy, Starting
  <2>c. CASE PowerOn
    BY <2>c DEF PowerOn, RefusedOnlyWhenBusy
  <2>1. ASSUME NEW s \in Starters, ota_init(s) PROVE RefusedOnlyWhenBusy'
    <3>1. CASE Test(s) \/ Set(s)
      BY <3>1, <2>b DEF Test, Set, TypeInv
    <3>2. CASE Refuse(s)
      BY <3>2 DEF Refuse, vars, RefusedOnlyWhenBusy, Live, Starting
    <3>3. CASE Create(s)
      <4>1. CASE failed'
        BY <4>1 DEF RefusedOnlyWhenBusy
      <4>2. CASE Live # Tasks /\ task' = [task EXCEPT ![Free] = "get"]
        BY <4>2, <2>a, FreeIsFree DEF TypeInv
      <4> QED
        BY <3>3, <4>1, <4>2 DEF Create
    <3> QED
      BY <2>1, <3>1, <3>2, <3>3 DEF ota_init
  <2>2. ASSUME NEW t \in Tasks, ota_task(t) PROVE RefusedOnlyWhenBusy'
    <3>1. CASE GetFails(t) \/ Delay(t) \/ DownloadFails(t) \/ ota_save_ver(t)
      BY <3>1, <2>a DEF GetFails, Delay, DownloadFails, ota_save_ver, Moves, TypeInv
    <3>2. CASE \E o \in Offered : Compare(t, o)
      <4>1. Moves(t, "delay") \/ Moves(t, "end")
        BY <3>2 DEF Compare
      <4> QED
        BY <4>1, <2>a DEF Moves, TypeInv
    <3>3. CASE Restart(t)
      BY <3>3, <2>c DEF Restart
    <3>4. CASE End(t)
      BY <3>4 DEF End, LedAfter, FlagAfter, RefusedOnlyWhenBusy
    <3> QED
      BY <2>2, <3>1, <3>2, <3>3, <3>4 DEF ota_task
  <2>3. CASE Save \/ Tick \/ MiscStops \/ UNCHANGED vars
    <3>1. UNCHANGED <<starter, ota_running, led, task, failed>>
      BY <2>3 DEF Save, Tick, MiscStops, vars
    <3> QED
      BY <3>1 DEF RefusedOnlyWhenBusy, Live, Starting
  <2>4. CASE Crash
    BY <2>4, <2>c DEF Crash
  <2> QED
    BY <2>1, <2>2, <2>3, <2>4 DEF Next
<1> QED
    BY <1>1, <1>2, TypeInit, TypeStep, PTL DEF Spec

-----------------------------------------------------------------------------
(* The version recorded before the restart.  While ota_save_ver waits,     *)
(* either misc has saved config.ver since, or every pass of the wait was   *)
(* counted in save_time or missed.                                         *)

Kept(t) ==
    /\ miscRuns
    /\ configVer = ver[t]
    /\ imageVer = configVer \/ waited[t] <= save_time + stalls

KeptInv == raced \/ halted \/ \A t \in Tasks : task[t] = "saving" => Kept(t)

LEMMA KeptInit == Init => KeptInv
<1> QED
    BY DEF Init, KeptInv

\* A step without ota_save_ver, that touches no save and puts no thread into
\* the wait, keeps what was known.
LEMMA KeptFrame ==
    ASSUME KeptInv,
           UNCHANGED <<configVer, imageVer, time, miscRuns>>, raced => raced',
           \A t \in Tasks : task'[t] = "saving" => task[t] = "saving" /\ ver'[t] = ver[t]
    PROVE  KeptInv'
<1> QED
    BY DEF KeptInv, Kept, time

LEMMA KeptStep == TypeInv /\ ApartInv /\ KeptInv /\ [Next]_vars => KeptInv'
<1> SUFFICES ASSUME TypeInv, ApartInv, KeptInv, [Next]_vars PROVE KeptInv'
    OBVIOUS
<1>p. CASE PowerOn
    BY <1>p DEF PowerOn, KeptInv
<1>1. ASSUME NEW s \in Starters, ota_init(s) PROVE KeptInv'
  <2>1. UNCHANGED <<configVer, imageVer, time, miscRuns, ver>>
    BY <1>1 DEF ota_init, Test, Refuse, Set, Create, vars
  <2>2. raced => raced'
    BY <1>1, Zenon DEF ota_init, Test, Refuse, Set, Create, vars
  <2>3. \A t \in Tasks : task'[t] = "saving" => task[t] = "saving"
    BY <1>1 DEF ota_init, Test, Refuse, Set, Create, vars, TypeInv
  <2> QED
    BY <2>1, <2>2, <2>3, KeptFrame
<1>2. ASSUME NEW t \in Tasks, ota_task(t) PROVE KeptInv'
  <2>1. CASE GetFails(t) \/ Delay(t) \/ DownloadFails(t) \/ End(t)
    <3>1. UNCHANGED <<configVer, imageVer, time, miscRuns, raced>>
      BY <2>1 DEF GetFails, Delay, DownloadFails, End
    <3>2. \A u \in Tasks : task'[u] = "saving" => task[u] = "saving" /\ ver'[u] = ver[u]
      BY <2>1 DEF GetFails, Delay, DownloadFails, End, Moves, TypeInv
    <3> QED
      BY <3>1, <3>2, KeptFrame
  <2>2. ASSUME NEW o \in Offered, Compare(t, o) PROVE KeptInv'
    <3>1. CASE raced
      BY <2>2, <3>1 DEF Compare, KeptInv
    <3>2. CASE Apart
      <4>1. task[t] # "none" /\ task'[t] # "saving"
        BY <2>2 DEF Compare, Moves, TypeInv
      <4>2. \A u \in Tasks : u # t => task'[u] = task[u] /\ task[u] = "none"
        BY <2>2, <3>2, <4>1 DEF Compare, Moves, Apart, TypeInv
      <4> QED
        BY <4>1, <4>2 DEF KeptInv
    <3> QED
      BY <3>1, <3>2 DEF ApartInv
  <2>3. CASE ota_save_ver(t)
    <3>1. CASE raced
      BY <2>3, <3>1 DEF ota_save_ver, KeptInv
    <3>2. CASE Apart
      <4>1. \A u \in Tasks : u # t => task[u] = "none" /\ task'[u] = "none"
        BY <2>3, <3>2 DEF ota_save_ver, Moves, Apart, TypeInv
      <4>2. Saving = {}
        BY <2>3, <4>1 DEF ota_save_ver, Saving
      <4>3. /\ halted' = ~miscRuns
            /\ configVer' = new_ver /\ UNCHANGED <<ver, miscRuns>>
        BY <2>3, <4>2 DEF ota_save_ver
      <4>4. new_ver = ver[t]
        BY <2>3, <3>2 DEF ota_save_ver, Apart
      <4>5. waited'[t] <= save_time' + stalls'
        <5>1. save_time' \in 0..SavePasses - 1 /\ stalls' \in Nat /\ waited'[t] = 0
          BY <2>3, <4>2 DEF ota_save_ver, TypeInv
        <5>2. save_time' \in Nat
          BY <5>1, ConstFacts
        <5>3. \A m, n \in Nat : 0 <= m + n
          OBVIOUS
        <5> QED
          BY <5>1, <5>2, <5>3, Zenon
      <4>6. halted' \/ Kept(t)'
        <5>1. CASE miscRuns
          BY <5>1, <4>3, <4>4, <4>5, Zenon DEF Kept
        <5>2. CASE ~miscRuns
          BY <5>2, <4>3, Zenon
        <5> QED
          BY <5>1, <5>2
      <4> QED
        BY <4>1, <4>6 DEF KeptInv
    <3> QED
      BY <3>1, <3>2 DEF ApartInv
  <2>4. CASE Restart(t)
    BY <2>4, <1>p DEF Restart
  <2> QED
    BY <1>2, <2>1, <2>2, <2>3, <2>4 DEF ota_task
<1>3. CASE Save
  <2>1. \A t \in Tasks : task'[t] # "saving"
    BY <1>3 DEF Save, Saving
  <2> QED
    BY <2>1 DEF KeptInv
<1>4. CASE Tick
  <2>1. UNCHANGED <<task, ver, configVer, miscRuns, halted, raced>>
    BY <1>4 DEF Tick
  <2>2. CASE raced \/ halted
    BY <2>1, <2>2 DEF KeptInv
  <2>3. ASSUME ~raced, ~halted, NEW t \in Tasks, task[t] = "saving"
        PROVE  Kept(t)'
    <3>1. Kept(t)
      BY <2>3 DEF KeptInv
    <3>2. /\ waited[t] \in 0..SaveDelay /\ waited'[t] \in {waited[t], waited[t] + 1}
          /\ save_time \in 0..SavePasses - 1 /\ stalls \in Nat
      BY <1>4 DEF Tick, TypeInv
    <3>3. CASE save_time' = NextPass /\ UNCHANGED stalls
               /\ imageVer' = IF save_time' = 0 THEN configVer ELSE imageVer
      <4>1. CASE NextPass = 0
        BY <3>1, <3>3, <4>1, <2>1 DEF Kept
      <4>2. CASE NextPass # 0
        <5>1. save_time' = save_time + 1 /\ imageVer' = imageVer
          BY <3>2, <3>3, <4>2, NextPassFacts
        <5> QED
          BY <5>1, <3>1, <3>2, <3>3, <2>1, ConstFacts DEF Kept
      <4> QED
        BY <4>1, <4>2
    <3>4. CASE stalls' = stalls + 1 /\ UNCHANGED <<save_time, imageVer>>
      BY <3>1, <3>2, <3>4, <2>1, ConstFacts DEF Kept
    <3> QED
      BY <1>4, <3>1, <3>3, <3>4 DEF Tick, Kept
  <2> QED
    BY <2>1, <2>2, <2>3 DEF KeptInv
<1>5. CASE MiscStops
  <2>1. CASE raced \/ halted'
    BY <1>5, <2>1 DEF MiscStops, KeptInv
  <2>2. CASE ~raced /\ ~halted'
    <3>1. ~halted /\ (miscRuns => Saving = {})
      BY <1>5, <2>2 DEF MiscStops
    <3>2. \A t \in Tasks : task[t] # "saving"
      BY <3>1, <2>2 DEF KeptInv, Kept, Saving
    <3> QED
      BY <1>5, <3>2 DEF MiscStops, KeptInv
  <2> QED
    BY <2>1, <2>2
<1>6. CASE Crash
    BY <1>6, <1>p DEF Crash
<1>7. CASE UNCHANGED vars
    BY <1>7, KeptFrame DEF vars
<1> QED
    BY <1>1, <1>2, <1>3, <1>4, <1>5, <1>6, <1>7 DEF Next

\* The 1.5 s of ota_save_ver are long enough whatever the phase of misc's saves,
\* as long as misc misses no more passes than the wait has to spare: the version
\* of the new firmware is then in the flash at the restart.
THEOREM VersionIsKept == Spec => VersionKept
<1>1. TypeInv /\ KeptInv /\ [Next]_vars
        => [\A t \in Tasks : Restart(t) =>
               raced \/ halted \/ stalls > Margin \/ configVer' = firmware']_vars
  <2> SUFFICES ASSUME TypeInv, KeptInv, NEW t \in Tasks, Restart(t), ~raced, ~halted,
                      ~(stalls > Margin)
               PROVE  configVer' = firmware'
    OBVIOUS
  <2>1. Kept(t) /\ waited[t] = SaveDelay
    BY DEF Restart, SavedFor, KeptInv
  <2>2. configVer' = imageVer /\ firmware' = ver[t]
    BY DEF Restart, PowerOn
  <2>3. ~(waited[t] <= save_time + stalls)
    <3>1. save_time \in 0..SavePasses - 1 /\ stalls \in Nat
      BY DEF TypeInv
    <3> QED
      BY <2>1, <3>1, ConstFacts DEF Margin
  <2> QED
    BY <2>1, <2>2, <2>3 DEF Kept
<1> QED
    BY <1>1, TypeInit, TypeStep, ApartInit, ApartStep, KeptInit, KeptStep, PTL
    DEF Spec, VersionKept

-----------------------------------------------------------------------------
(* No downgrade.  A thread compares before it delays and downloads; the    *)
(* firmware cannot change meanwhile, because that takes a restart.         *)

NewerInv == \A t \in Tasks : task[t] \in Fetching => ver[t] > firmware

\* ota_compile_time is not before the version that runs.
LEMMA NewerThanFirmware ==
    ASSUME TypeInv, NEW v \in Nat, Newer(v)
    PROVE  v > firmware
<1>1. firmware \in Versions /\ firmware \in Nat
    BY ConstFacts DEF TypeInv
<1>2. ota_compile_time(BuiltOn[firmware]) \in Nat
    BY <1>1, VersionsAssumption DEF ota_compile_time
<1>3. firmware <= ota_compile_time(BuiltOn[firmware])
    BY <1>1, ReleasesAssumption
<1>4. v > ota_compile_time(BuiltOn[firmware])
    BY DEF Newer
<1> QED
    BY <1>1, <1>2, <1>3, <1>4

LEMMA NewerInit == Init => NewerInv
<1> QED
    BY DEF Init, NewerInv, Fetching

LEMMA NewerStep == TypeInv /\ NewerInv /\ [Next]_vars => NewerInv'
<1> SUFFICES ASSUME TypeInv, NewerInv, [Next]_vars PROVE NewerInv'
    OBVIOUS
<1>p. CASE PowerOn
    BY <1>p DEF PowerOn, NewerInv, Fetching
\* The firmware stays, and a thread that fetches did so before.
<1>f. ASSUME UNCHANGED firmware,
             \A t \in Tasks : task'[t] \in Fetching => task[t] \in Fetching /\ ver'[t] = ver[t]
      PROVE  NewerInv'
    BY <1>f DEF NewerInv
<1>1. ASSUME NEW s \in Starters, ota_init(s) PROVE NewerInv'
  <2>1. UNCHANGED <<firmware, ver>>
    BY <1>1 DEF ota_init, Test, Refuse, Set, Create, vars
  <2>2. \A t \in Tasks : task'[t] \in Fetching => task[t] \in Fetching
    BY <1>1 DEF ota_init, Test, Refuse, Set, Create, vars, TypeInv, Fetching
  <2> QED
    BY <2>1, <2>2, <1>f
<1>2. ASSUME NEW t \in Tasks, ota_task(t) PROVE NewerInv'
  <2>1. CASE GetFails(t) \/ Delay(t) \/ DownloadFails(t) \/ ota_save_ver(t) \/ End(t)
    <3>1. UNCHANGED firmware
      BY <2>1 DEF GetFails, Delay, DownloadFails, ota_save_ver, End
    <3>2. \A u \in Tasks : task'[u] \in Fetching => task[u] \in Fetching /\ ver'[u] = ver[u]
      BY <2>1 DEF GetFails, Delay, DownloadFails, ota_save_ver, End, Moves, Fetching, TypeInv
    <3> QED
      BY <3>1, <3>2, <1>f
  <2>2. ASSUME NEW o \in Offered, Compare(t, o) PROVE NewerInv'
    <3>1. UNCHANGED firmware /\ o.ver \in Nat
      BY <2>2, OffersAssumption, ConstFacts DEF Compare, Offers, VersionsOrNone
    <3>2. CASE Newer(o.ver) /\ o.file
      <4>1. o.ver > firmware
        BY <3>1, <3>2, NewerThanFirmware
      <4>2. task' = [task EXCEPT ![t] = "delay"] /\ ver' = [ver EXCEPT ![t] = o.ver]
        BY <2>2, <3>2 DEF Compare, Moves
      <4> QED
        BY <3>1, <4>1, <4>2 DEF NewerInv, TypeInv
    <3>3. CASE ~(Newer(o.ver) /\ o.file)
      <4>1. task' = [task EXCEPT ![t] = "end"] /\ ver' = ver
        BY <2>2, <3>3 DEF Compare, Moves
      <4> QED
        BY <3>1, <4>1, <1>f DEF TypeInv, Fetching
    <3> QED
      BY <3>2, <3>3
  <2>3. CASE Restart(t)
    BY <2>3, <1>p DEF Restart
  <2> QED
    BY <1>2, <2>1, <2>2, <2>3 DEF ota_task
<1>3. CASE Save \/ Tick \/ MiscStops \/ UNCHANGED vars
    BY <1>3, <1>f DEF Save, Tick, MiscStops, vars
<1>4. CASE Crash
    BY <1>4, <1>p DEF Crash
<1> QED
    BY <1>1, <1>2, <1>3, <1>4 DEF Next

\* ota_task installs nothing older than what runs, also when config.ver was
\* lost or an older offer has lowered it.
THEOREM NoDowngrade == Spec => OnlyNewerInstalled
<1>1. NewerInv /\ [Next]_vars => [\A t \in Tasks : Restart(t) => ver[t] > firmware]_vars
    BY DEF NewerInv, Restart, Fetching
<1> QED
    BY <1>1, TypeInit, TypeStep, NewerInit, NewerStep, PTL DEF Spec, OnlyNewerInstalled
==============================================================================

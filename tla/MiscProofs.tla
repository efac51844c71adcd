----------------------------- MODULE MiscProofs -----------------------------
(***************************************************************************)
(* Proofs about module Misc, for every set of keys, lines, inputs and      *)
(* relays, every threshold and every set of events.                        *)
(***************************************************************************)
EXTENDS Misc, TLAPS

-----------------------------------------------------------------------------
(* Type correctness.  lock_time stays in its range because it is counted   *)
(* only while the door is open, and the door is locked at the first count  *)
(* above LockTime.                                                         *)

LockTimeBounded == /\ door_open => lock_time <= LockTime
                   /\ pc = "lock" => door_open

TypeInv == TypeOK /\ LockTimeBounded

\* The thresholds are natural numbers.
LEMMA ThresholdTypes ==
    /\ LockTime \in Nat /\ SaveTime \in Nat /\ PollTime \in Nat
    /\ ReportTime \in Nat /\ TimeMax \in Nat
    /\ FIRE_MACHINE \in BOOLEAN
    /\ \A v \in DoorValues : v % 256 \in 0..255
  BY BoundsAssumption, FireMachineAssumption

\* Init establishes the types of all variables.
LEMMA TypeInit == Init => TypeInv
<1> SUFFICES ASSUME Init PROVE TypeInv
  OBVIOUS
<1>1. AbsTypeOK
  BY DEF Init, AbsInit, AbsTypeOK, KeyEvents
<1>2. /\ LockTime \in Nat /\ SaveTime \in Nat /\ PollTime \in Nat /\ TimeMax \in Nat
  BY ThresholdTypes
<1>3. lock_time \in 0..LockTime + 1 /\ save_time \in 0..SaveTime + 1 /\ poll_time \in 0..PollTime + 1 /\ powerdown_time \in 0..TimeMax /\ remote_open \in 0..255
  BY <1>2 DEF Init
<1>4. QED
  BY <1>1, <1>3 DEF Init, TypeInv, TypeOK, LockTimeBounded, Steps, Openers

\* Every step of misc_task, of the factory test and of the other threads
\* keeps the types.
LEMMA TypeStep == TypeInv /\ [Next]_vars => TypeInv'
<1> SUFFICES ASSUME TypeInv, [Next]_vars PROVE TypeInv'
  OBVIOUS
<1> USE ThresholdTypes DEF TypeInv, TypeOK, LockTimeBounded
<1>1. CASE Delay
  <2>1. AbsTypeOK'
    BY <1>1 DEF Delay, AbsTypeOK, absVars
  <2>2. pc' \in Steps
    BY <1>1 DEF Delay, Steps, PublishSteps, FactorySteps
  <2>3. QED
    BY <1>1, <2>1, <2>2 DEF Delay, flags, door, smoke_report, pins, net, overrides
<1>2. CASE ReadKey
  <2>1. AbsTypeOK'
    BY <1>2 DEF ReadKey, Goto, AbsTypeOK, absVars
  <2>2. pc' \in Steps
    BY <1>2 DEF ReadKey, Goto, Steps, PublishSteps, FactorySteps
  <2>3. QED
    BY <1>2, <2>1, <2>2 DEF ReadKey, Goto, flags, door, smoke_report, pins, net, overrides
<1>3. CASE ReadEmergency
  <2>1. AbsTypeOK'
    BY <1>3 DEF ReadEmergency, Goto, is_check, AbsTypeOK, absVars
  <2>2. pc' \in Steps
    BY <1>3 DEF ReadEmergency, Goto, is_check, Steps, PublishSteps, FactorySteps
  <2>3. emergency_open' \in BOOLEAN
    BY <1>3, ChannelsAssumption DEF ReadEmergency, Goto, is_check, AbsTypeOK
  <2>4. QED
    BY <1>3, <2>1, <2>2, <2>3 DEF ReadEmergency, Goto, is_check, flags, door, smoke_report, pins, net, overrides
<1>4. CASE ClearKey
  <2>1. AbsTypeOK'
    BY <1>4 DEF ClearKey, Goto, AbsTypeOK, key_clr, KeyEvents
  <2>2. pc' \in Steps
    BY <1>4 DEF ClearKey, Goto, Steps, PublishSteps, FactorySteps
  <2>3. QED
    BY <1>4, <2>1, <2>2 DEF ClearKey, Goto, flags, door, smoke_report, pins, net, overrides
<1>5. CASE DecideOpen
  <2>1. AbsTypeOK'
    BY <1>5 DEF DecideOpen, AbsTypeOK, absVars
  <2>2. pc' \in Steps
    BY <1>5 DEF DecideOpen, Steps, PublishSteps, FactorySteps
  <2>3. door_open' \in BOOLEAN /\ doorPin' \in BOOLEAN /\ forced' \in BOOLEAN
    BY <1>5 DEF DecideOpen
  <2>4. lock_time' \in 0..LockTime + 1 /\ (door_open' => lock_time' <= LockTime)
    <3>1. lock_time' = 0 \/ (lock_time' = lock_time /\ door_open' = door_open)
      BY <1>5 DEF DecideOpen
    <3>2. QED
      BY <3>1
  <2>5. pc' = "lock" => door_open'
    BY <1>5 DEF DecideOpen
  <2>6. QED
    BY <1>5, <2>1, <2>2, <2>3, <2>4, <2>5 DEF DecideOpen, flags, door, smoke_report, pins, net, overrides
<1>6. CASE SetCause
  <2>1. AbsTypeOK'
    BY <1>6 DEF SetCause, Goto, AbsTypeOK, set_alarm
  <2>2. pc' \in Steps
    BY <1>6 DEF SetCause, Goto, Steps, PublishSteps, FactorySteps
  <2>3. opener' \in Openers
    BY <1>6 DEF SetCause, Goto, FirstCause, Openers
  <2>4. mainAlarm' \in BOOLEAN
    BY <1>6 DEF SetCause, Goto
  <2>5. QED
    BY <1>6, <2>1, <2>2, <2>3, <2>4 DEF SetCause, Goto, flags, door, smoke_report, pins, net, overrides
<1>7. CASE PublishOpen
  <2>1. AbsTypeOK'
    BY <1>7 DEF PublishOpen, Goto, AbsTypeOK, absVars
  <2>2. pc' \in Steps
    BY <1>7 DEF PublishOpen, Goto, Steps, PublishSteps, FactorySteps
  <2>3. stale' \subseteq Items
    BY <1>7 DEF PublishOpen, Goto, Report, Items
  <2>4. QED
    BY <1>7, <2>1, <2>2, <2>3 DEF PublishOpen, Goto, flags, door, smoke_report, pins, net, overrides
<1>8. CASE ClearRequests
  <2>1. AbsTypeOK'
    BY <1>8 DEF ClearRequests, Goto, AbsTypeOK, absVars
  <2>2. pc' \in Steps
    BY <1>8 DEF ClearRequests, Goto, Steps, PublishSteps, FactorySteps
  <2>3. key_open' \in BOOLEAN /\ emergency_open' \in BOOLEAN
    BY <1>8 DEF ClearRequests, Goto
  <2>4. remote_open' \in 0..255
    BY <1>8 DEF ClearRequests, Goto
  <2>5. QED
    BY <1>8, <2>1, <2>2, <2>3, <2>4 DEF ClearRequests, Goto, flags, door, smoke_report, pins, net, overrides
<1>9. CASE Lock
  <2>1. AbsTypeOK'
    BY <1>9 DEF Lock, AbsTypeOK, LockOutputs, clr_alarm
  <2>2. pc' \in Steps
    BY <1>9 DEF Lock, Steps, PublishSteps, FactorySteps
  <2>3. lock_time' \in 0..LockTime + 1 /\ (door_open' => lock_time' <= LockTime)
    <3>1. lock_time \in Nat /\ lock_time <= LockTime /\ lock_time' = LockCount
      BY <1>9 DEF Lock
    <3>2. lock_time' \in 0..LockTime + 1
      BY <3>1 DEF LockCount
    <3>3. CASE LockDue
      BY <1>9, <3>2, <3>3 DEF Lock
    <3>4. CASE ~LockDue
      BY <3>1, <3>2, <3>4 DEF LockDue, LockCount
    <3>5. QED
      BY <3>3, <3>4
  <2>4. /\ door_open' \in BOOLEAN /\ doorPin' \in BOOLEAN /\ mainAlarm' \in BOOLEAN
        /\ forced' \in BOOLEAN
        /\ key_open' \in BOOLEAN /\ emergency_open' \in BOOLEAN /\ fire_machine_open' \in BOOLEAN
    BY <1>9 DEF Lock, LockOutputs, flags, pins
  <2>5. remote_open' \in 0..255
    <3>1. remote_open' = 0 \/ remote_open' = remote_open
      BY <1>9 DEF Lock, flags
    <3>2. QED
      BY <3>1
  <2>6. opener' \in Openers
    BY <1>9 DEF Lock, Openers
  <2>7. QED
    BY <1>9, <2>1, <2>2, <2>3, <2>4, <2>5, <2>6 DEF Lock, flags, door, smoke_report, pins, net, overrides
<1>10. CASE PublishClose
  <2>1. AbsTypeOK'
    BY <1>10 DEF PublishClose, Goto, AbsTypeOK, absVars
  <2>2. pc' \in Steps
    BY <1>10 DEF PublishClose, Goto, Steps, PublishSteps, FactorySteps
  <2>3. stale' \subseteq Items
    BY <1>10 DEF PublishClose, Goto, Report, Items
  <2>4. QED
    BY <1>10, <2>1, <2>2, <2>3 DEF PublishClose, Goto, flags, door, smoke_report, pins, net, overrides
<1>11. CASE Power
  <2>1. AbsTypeOK'
    BY <1>11 DEF Power, is_check, AfterPower, AbsTypeOK, absVars
  <2>2. pc' \in Steps
    BY <1>11 DEF Power, is_check, AfterPower, Steps, PublishSteps, FactorySteps
  <2>3. powerdown_flag' \in BOOLEAN
    BY <1>11, ChannelsAssumption DEF Power, is_check, AfterPower, AbsTypeOK
  <2>4. QED
    BY <1>11, <2>1, <2>2, <2>3 DEF Power, is_check, AfterPower, flags, door, smoke_report, pins, net, overrides
<1>12. CASE PublishPower
  <2>1. AbsTypeOK'
    BY <1>12 DEF PublishPower, Goto, AfterPower, AbsTypeOK, absVars
  <2>2. pc' \in Steps
    BY <1>12 DEF PublishPower, Goto, AfterPower, Steps, PublishSteps, FactorySteps
  <2>3. stale' \subseteq Items
    BY <1>12 DEF PublishPower, Goto, AfterPower, Report, Items
  <2>4. QED
    BY <1>12, <2>1, <2>2, <2>3 DEF PublishPower, Goto, AfterPower, flags, door, smoke_report, pins, net, overrides
<1>13. CASE Poll
  <2>1. AbsTypeOK'
    BY <1>13 DEF Poll, Goto, AbsTypeOK, absVars
  <2>2. pc' \in Steps
    BY <1>13 DEF Poll, Goto, Steps, PublishSteps, FactorySteps
  <2>3. powerdown_target' \in BOOLEAN
    BY <1>13 DEF Poll, Goto
  <2>4. poll_time' \in 0..PollTime + 1 /\ powerdown_time' \in 0..TimeMax
    BY <1>13 DEF Poll, Goto
  <2>5. QED
    BY <1>13, <2>1, <2>2, <2>3, <2>4 DEF Poll, Goto, flags, door, smoke_report, pins, net, overrides
<1>14. CASE Act
  <2>1. AbsTypeOK'
    BY <1>14 DEF Act, Goto, AbsTypeOK, absVars
  <2>2. pc' \in Steps
    BY <1>14 DEF Act, Goto, Steps, PublishSteps, FactorySteps
  <2>3. powerdown_time' \in 0..TimeMax
    BY <1>14 DEF Act, Goto, CountTarget
  <2>4. fire_machine_update' \in BOOLEAN /\ fire_machine_open' \in BOOLEAN
    BY <1>14, ChannelsAssumption DEF Act, Goto, is_fire_machine, is_smoke, AbsTypeOK
  <2>5. QED
    BY <1>14, <2>1, <2>2, <2>3, <2>4 DEF Act, Goto, flags, door, smoke_report, pins, net, overrides
<1>15. CASE Save
  <2>1. AbsTypeOK'
    BY <1>15 DEF Save, Goto, AbsTypeOK, absVars
  <2>2. pc' \in Steps
    BY <1>15 DEF Save, Goto, Steps, PublishSteps, FactorySteps
  <2>3. QED
    BY <1>15, <2>1, <2>2 DEF Save, Goto, flags, door, smoke_report, pins, net, overrides
<1>16. CASE SetKey
  <2>1. AbsTypeOK'
    BY <1>16 DEF SetKey, AbsTypeOK, absVars
  <2>2. pc' \in Steps
    BY <1>16 DEF SetKey, Steps, PublishSteps, FactorySteps
  <2>3. QED
    BY <1>16, <2>1, <2>2 DEF SetKey, flags, door, smoke_report, pins, net, overrides
<1>17. CASE SetClear
  <2>1. AbsTypeOK'
    BY <1>17 DEF SetClear, Goto, AbsTypeOK, key_clr, KeyEvents
  <2>2. pc' \in Steps
    BY <1>17 DEF SetClear, Goto, Steps, PublishSteps, FactorySteps
  <2>3. QED
    BY <1>17, <2>1, <2>2 DEF SetClear, Goto, flags, door, smoke_report, pins, net, overrides
<1>18. CASE BothKeys
  <2>1. AbsTypeOK'
    BY <1>18 DEF BothKeys, AbsTypeOK, absVars
  <2>2. pc' \in Steps
    BY <1>18 DEF BothKeys, Steps, PublishSteps, FactorySteps
  <2>3. QED
    BY <1>18, <2>1, <2>2 DEF BothKeys, flags, door, smoke_report, pins, net, overrides
<1>19. CASE BothClear
  <2>1. AbsTypeOK'
    BY <1>19 DEF BothClear, Goto, AbsTypeOK, KeyEvents
  <2>2. pc' \in Steps
    BY <1>19 DEF BothClear, Goto, Steps, PublishSteps, FactorySteps
  <2>3. QED
    BY <1>19, <2>1, <2>2 DEF BothClear, Goto, flags, door, smoke_report, pins, net, overrides
<1>20. CASE FactoryAlarmOn
  <2>1. AbsTypeOK'
    BY <1>20 DEF FactoryAlarmOn, Goto, AbsTypeOK, absVars
  <2>2. pc' \in Steps
    BY <1>20 DEF FactoryAlarmOn, Goto, Steps, PublishSteps, FactorySteps
  <2>3. QED
    BY <1>20, <2>1, <2>2 DEF FactoryAlarmOn, Goto, flags, door, smoke_report, pins, net, overrides
<1>21. CASE FactoryRelays
  <2>1. AbsTypeOK'
    BY <1>21 DEF FactoryRelays, AbsTypeOK, set_alarm
  <2>2. pc' \in Steps
    BY <1>21 DEF FactoryRelays, Steps, PublishSteps, FactorySteps
  <2>3. doorPin' \in BOOLEAN /\ forced' \in BOOLEAN
    BY <1>21 DEF FactoryRelays
  <2>4. QED
    BY <1>21, <2>1, <2>2, <2>3 DEF FactoryRelays, flags, door, smoke_report, pins, net, overrides
<1>22. CASE FactoryOff
  <2>1. AbsTypeOK'
    BY <1>22 DEF FactoryOff, Goto, FactoryOutputs, AbsTypeOK, clr_alarm
  <2>2. pc' \in Steps
    BY <1>22 DEF FactoryOff, Goto, FactoryOutputs, Steps, PublishSteps, FactorySteps
  <2>3. doorPin' \in BOOLEAN /\ mainAlarm' \in BOOLEAN
    BY <1>22 DEF FactoryOff, Goto, FactoryOutputs
  <2>4. QED
    BY <1>22, <2>1, <2>2, <2>3 DEF FactoryOff, Goto, FactoryOutputs, flags, door, smoke_report, pins, net, overrides
<1>23. CASE FactoryKey("f_set", "SET", "f_open")
  <2>1. AbsTypeOK'
    BY <1>23 DEF FactoryKey, Goto, AbsTypeOK, key_clr, KeyEvents
  <2>2. pc' \in Steps
    BY <1>23 DEF FactoryKey, Goto, Steps, PublishSteps, FactorySteps
  <2>3. QED
    BY <1>23, <2>1, <2>2 DEF FactoryKey, Goto, flags, door, smoke_report, pins, net, overrides
<1>24. CASE FactoryKey("f_open", "OPEN", "f_power")
  <2>1. AbsTypeOK'
    BY <1>24 DEF FactoryKey, Goto, AbsTypeOK, key_clr, KeyEvents
  <2>2. pc' \in Steps
    BY <1>24 DEF FactoryKey, Goto, Steps, PublishSteps, FactorySteps
  <2>3. QED
    BY <1>24, <2>1, <2>2 DEF FactoryKey, Goto, flags, door, smoke_report, pins, net, overrides
<1>25. CASE FactoryCheck("f_power", "POWERDOWN", "f_emergency")
  <2>1. AbsTypeOK'
    BY <1>25 DEF FactoryCheck, Goto, AbsTypeOK, absVars
  <2>2. pc' \in Steps
    BY <1>25 DEF FactoryCheck, Goto, Steps, PublishSteps, FactorySteps
  <2>3. QED
    BY <1>25, <2>1, <2>2 DEF FactoryCheck, Goto, flags, door, smoke_report, pins, net, overrides
<1>26. CASE FactoryCheck("f_emergency", "EMERGENCY", "f_inputs")
  <2>1. AbsTypeOK'
    BY <1>26 DEF FactoryCheck, Goto, AbsTypeOK, absVars
  <2>2. pc' \in Steps
    BY <1>26 DEF FactoryCheck, Goto, Steps, PublishSteps, FactorySteps
  <2>3. QED
    BY <1>26, <2>1, <2>2 DEF FactoryCheck, Goto, flags, door, smoke_report, pins, net, overrides
<1>27. CASE FactoryInputs
  <2>1. AbsTypeOK'
    BY <1>27 DEF FactoryInputs, AbsTypeOK, absVars
  <2>2. pc' \in Steps
    BY <1>27 DEF FactoryInputs, Steps, PublishSteps, FactorySteps
  <2>3. QED
    BY <1>27, <2>1, <2>2 DEF FactoryInputs, flags, door, smoke_report, pins, net, overrides
<1>28. CASE extio_task
  <2>1. AbsTypeOK'
    BY <1>28 DEF extio_task, AbsTypeOK, Scan
  <2>2. QED
    BY <1>28, <2>1 DEF extio_task, flags, door, smoke_report, pins, net, overrides
<1>29. CASE Connect
  <2>1. AbsTypeOK'
    BY <1>29 DEF Connect, AbsTypeOK, absVars
  <2>2. QED
    BY <1>29, <2>1 DEF Connect, flags, door, smoke_report, pins, net, overrides
<1>30. CASE sub_topic_handle1
  <2>1. AbsTypeOK'
    BY <1>30 DEF sub_topic_handle1, Door, RunStop, AbsTypeOK, absVars
  <2>2. QED
    BY <1>30, <2>1 DEF sub_topic_handle1, Door, RunStop, flags, door, smoke_report, pins, net, overrides
<1>31. CASE \E sta \in BOOLEAN : misc_door_open(sta)
  <2>1. AbsTypeOK'
    BY <1>31 DEF misc_door_open, AbsTypeOK, absVars
  <2>2. QED
    BY <1>31, <2>1 DEF misc_door_open, flags, door, smoke_report, pins, net, overrides
<1>32. CASE Reboot
  <2>1. AbsTypeOK'
    BY <1>32 DEF Reboot, AbsTypeOK, KeyEvents
  <2>2. pc' \in Steps
    BY <1>32 DEF Reboot, Steps, PublishSteps, FactorySteps
  <2>3. /\ key_open' \in BOOLEAN /\ emergency_open' \in BOOLEAN /\ fire_machine_open' \in BOOLEAN
        /\ run_stop_flag' \in BOOLEAN /\ door_open' \in BOOLEAN
        /\ powerdown_target' \in BOOLEAN /\ powerdown_flag' \in BOOLEAN
        /\ fire_machine_update' \in BOOLEAN /\ doorPin' \in BOOLEAN /\ mainAlarm' \in BOOLEAN
        /\ mqtt_connect_sta' \in BOOLEAN /\ tampered' \in BOOLEAN /\ forced' \in BOOLEAN
        /\ stale' \subseteq Items
    BY <1>32 DEF Reboot
  <2>4. /\ remote_open' \in 0..255 /\ lock_time' \in 0..LockTime + 1
        /\ save_time' \in 0..SaveTime + 1 /\ poll_time' \in 0..PollTime + 1
        /\ powerdown_time' \in 0..TimeMax
    BY <1>32 DEF Reboot
  <2>5. ~door_open' /\ pc' # "lock" /\ toTest' \subseteq Inputs /\ opener' \in Openers
    BY <1>32 DEF Reboot, Openers
  <2>6. QED
    BY <1>32, <2>1, <2>2, <2>3, <2>4, <2>5 DEF Reboot, flags, door, smoke_report, pins, net, overrides
<1>33. CASE UNCHANGED vars
  BY <1>33 DEF vars, absVars, AbsTypeOK, flags, door, smoke_report, pins, net, overrides
<1>34. CASE factory_test_tc_init
  <2>1. AbsTypeOK'
    BY <1>34 DEF factory_test_tc_init, AbsTypeOK, absVars
  <2>2. pc' \in Steps /\ pc' # "lock"
    BY <1>34 DEF factory_test_tc_init, Steps, PublishSteps, FactorySteps
  <2>3. misc_thread' \in {"live", "deleted", "stale"} /\ tampered' \in BOOLEAN
    BY <1>34 DEF factory_test_tc_init
  <2>4. QED
    BY <1>34, <2>1, <2>2, <2>3 DEF factory_test_tc_init, flags, door, smoke_report, pins, net, overrides
<1>35. CASE mqtt_publish_building
  <2>1. AbsTypeOK'
    BY <1>35 DEF mqtt_publish_building, AbsTypeOK, absVars
  <2>2. stale' \subseteq Items
    BY <1>35 DEF mqtt_publish_building, Items
  <2>3. QED
    BY <1>35, <2>1, <2>2 DEF mqtt_publish_building, flags, door, smoke_report, pins, overrides
<1>36. QED
  BY <1>1, <1>2, <1>3, <1>4, <1>5, <1>6, <1>7, <1>8, <1>9, <1>10, <1>11, <1>12, <1>13, <1>14, <1>15, <1>16, <1>17, <1>18, <1>19, <1>20, <1>21, <1>22, <1>23, <1>24, <1>25, <1>26, <1>27, <1>28, <1>29, <1>30, <1>31, <1>32, <1>33, <1>34, <1>35 DEF Next, misc_task, misc_smoke_report, factory_testcase

\* TypeOK holds in every reachable state: the counters of misc.c never leave
\* their ranges, whatever the other threads do.
THEOREM TypeCorrect == Spec => []TypeOK
<1>1. TypeInv => TypeOK
  BY DEF TypeInv
<1>2. QED
  BY TypeInit, TypeStep, <1>1, PTL DEF Spec

-----------------------------------------------------------------------------
(* The fire latch.  The locking branch clears fire_machine_open but not    *)
(* fire_machine_update.  That is sound because the branch is entered only  *)
(* when no request was seen, and nobody but misc sets this one.            *)

FireInv == FireLatchConsistent /\ (pc = "lock" => ~fire_machine_open)

\* Only four steps write the latch or enter the locking branch.
LEMMA FireFrame ==
  ASSUME [Next]_vars, ~DecideOpen, ~Act, ~Lock, ~Reboot
  PROVE  /\ UNCHANGED <<fire_machine_open, fire_machine_update>>
         /\ pc' = pc \/ pc' # "lock"
<1> USE DEF Goto, flags, smoke_report
<1>1. CASE misc_task
  <2>1. CASE factory_testcase
    BY <2>1 DEF factory_testcase, FactoryAlarmOn, FactoryRelays, FactoryOff, FactoryKey,
                FactoryCheck, FactoryInputs
  <2>2. CASE Delay \/ ReadKey \/ ReadEmergency \/ ClearKey \/ SetCause \/ PublishOpen
                \/ ClearRequests \/ PublishClose
    BY <2>2 DEF Delay, ReadKey, ReadEmergency, ClearKey, SetCause, PublishOpen,
                ClearRequests, PublishClose
  <2>3. CASE Power \/ PublishPower \/ Poll \/ Save \/ SetKey \/ SetClear \/ BothKeys \/ BothClear
    BY <2>3 DEF Power, PublishPower, AfterPower, Poll, Save, SetKey, SetClear, BothKeys,
                BothClear
  <2>4. QED
    BY <1>1, <2>1, <2>2, <2>3 DEF misc_task, misc_smoke_report
<1>2. CASE ~misc_task
  BY <1>2 DEF Next, extio_task, Connect, sub_topic_handle1, Door, RunStop, misc_door_open,
              mqtt_publish_building, factory_test_tc_init, vars
<1>3. QED
  BY <1>1, <1>2

\* FireInv is inductive.
LEMMA FireStep == TypeInv /\ FireInv /\ [Next]_vars => FireInv'
<1> SUFFICES ASSUME TypeInv, FireInv, [Next]_vars PROVE FireInv'
  OBVIOUS
<1> USE DEF FireInv, FireLatchConsistent
<1>1. CASE DecideOpen
  BY <1>1 DEF DecideOpen, ToOpen, flags, smoke_report
<1>2. CASE Act
  BY <1>2 DEF Act, Goto
<1>3. CASE Lock
  BY <1>3 DEF Lock, flags, smoke_report
<1>4. CASE Reboot
  BY <1>4 DEF Reboot
<1>5. QED
  BY <1>1, <1>2, <1>3, <1>4, FireFrame

\* fire_machine_open and fire_machine_update always agree, so a release of the
\* fire panel followed by a new alarm is always seen as a new edge.
THEOREM FireLatch == Spec => []FireLatchConsistent
<1>1. Init => FireInv
  BY DEF Init, FireInv, FireLatchConsistent
<1>2. FireInv => FireLatchConsistent
  BY DEF FireInv
<1>3. QED
  BY TypeInit, TypeStep, <1>1, FireStep, <1>2, PTL DEF Spec

-----------------------------------------------------------------------------
(* Requests at the door.  misc_task enters the lock branch only when it    *)
(* found no request, and nobody else writes those of the key, the switch   *)
(* and the fire panel: so none stands when the branch erases them all.     *)

HeldInv == (Decided /\ Asked => door_open) /\ (pc = "lock" => ~Asked)

\* The other steps leave the requests and the door, and do not get past the
\* decision from before it.
LEMMA HeldFrame ==
  ASSUME [Next]_vars, ~ReadKey, ~ReadEmergency, ~DecideOpen, ~ClearRequests, ~Lock, ~Act,
         ~Reboot
  PROVE  /\ UNCHANGED <<key_open, emergency_open, fire_machine_open, door_open>>
         /\ Decided' => Decided
         /\ pc' = "lock" => pc = "lock"
<1> USE DEF Goto, flags, door, Decided
<1>1. CASE misc_task
  <2>1. CASE factory_testcase
    BY <2>1 DEF factory_testcase, FactoryAlarmOn, FactoryRelays, FactoryOff, FactoryKey,
                FactoryCheck, FactoryInputs
  <2>2. CASE Delay \/ ClearKey \/ SetCause \/ PublishOpen \/ PublishClose
    BY <2>2 DEF Delay, ClearKey, SetCause, PublishOpen, PublishClose
  <2>3. CASE Power \/ PublishPower \/ Poll \/ Save
    BY <2>3 DEF Power, PublishPower, AfterPower, Poll, Save
  <2>4. CASE SetKey \/ SetClear \/ BothKeys \/ BothClear
    BY <2>4 DEF SetKey, SetClear, BothKeys, BothClear
  <2>5. QED
    BY <1>1, <2>1, <2>2, <2>3, <2>4 DEF misc_task, misc_smoke_report
<1>2. CASE ~misc_task
  BY <1>2 DEF Next, extio_task, Connect, sub_topic_handle1, Door, RunStop, misc_door_open,
              mqtt_publish_building, factory_test_tc_init, vars
<1>3. QED
  BY <1>1, <1>2

\* One step keeps HeldInv, takes the door from nobody who asked, and ends the
\* panel's request only with the panel's signal.
LEMMA HeldStep ==
  ASSUME TypeInv, HeldInv, [Next]_vars
  PROVE  /\ HeldInv'
         /\ Asked /\ door_open => door_open' \/ Reboot
         /\ fire_machine_open /\ ~fire_machine_open' => ~is_fire_machine \/ Reboot
<1> USE DEF HeldInv, Asked, flags, door, Goto
<1>1. CASE ReadKey \/ ReadEmergency
  <2>1. pc' \in {"emergency", "clr"} /\ UNCHANGED <<door_open, fire_machine_open>>
    BY <1>1 DEF ReadKey, ReadEmergency
  <2>2. QED
    BY <2>1 DEF Decided
<1>2. CASE DecideOpen
  <2>1. UNCHANGED <<key_open, emergency_open, fire_machine_open>>
    BY <1>2 DEF DecideOpen
  <2>2. Asked => door_open' = TRUE /\ pc' \in {"power", "cause"}
    BY <1>2 DEF DecideOpen, ToOpen
  <2>3. QED
    BY <2>1, <2>2
<1>3. CASE ClearRequests
  BY <1>3 DEF ClearRequests, Decided
<1>4. CASE Lock
  <2>1. ~Asked
    BY <1>4 DEF Lock
  <2>2. \/ key_open' = FALSE /\ emergency_open' = FALSE /\ fire_machine_open' = FALSE
        \/ UNCHANGED <<key_open, emergency_open, fire_machine_open>>
    BY <1>4 DEF Lock
  <2>3. QED
    BY <2>1, <2>2
<1>5. CASE Act
  <2>1. pc' = "save" /\ UNCHANGED door_open
    BY <1>5 DEF Act
  <2>2. fire_machine_open' = fire_machine_open \/ fire_machine_open' = is_fire_machine
    BY <1>5 DEF Act
  <2>3. QED
    BY <2>1, <2>2 DEF Decided
<1>6. CASE Reboot
  BY <1>6 DEF Reboot
<1>7. CASE ~ReadKey /\ ~ReadEmergency /\ ~DecideOpen /\ ~ClearRequests /\ ~Lock /\ ~Act
           /\ ~Reboot
  BY <1>7, HeldFrame
<1>8. QED
  BY <1>1, <1>2, <1>3, <1>4, <1>5, <1>6, <1>7

\* Whatever the other threads do between the decision and the branch it leads
\* to, the door is never locked against the key, the emergency switch or the
\* fire panel, it is open once misc_task has looked at such a request, and the
\* fire panel's stands until the panel takes it back: the safety half of
\* FireOpensDoor and EmergencyOpensDoor.
THEOREM RequestsServed == Spec => AskedIsServed
<1>1. Init => HeldInv
  BY DEF Init, HeldInv, Asked, Decided
<1>2. TypeInv /\ HeldInv /\ [Next]_vars =>
        [/\ Asked /\ door_open => door_open' \/ Reboot
         /\ Asked' /\ Decided' => door_open'
         /\ fire_machine_open /\ ~fire_machine_open' => ~is_fire_machine \/ Reboot]_vars
  <2> SUFFICES ASSUME TypeInv, HeldInv, [Next]_vars
               PROVE  /\ Asked /\ door_open => door_open' \/ Reboot
                      /\ Asked' /\ Decided' => door_open'
                      /\ fire_machine_open /\ ~fire_machine_open' => ~is_fire_machine \/ Reboot
    OBVIOUS
  <2>1. HeldInv'
    BY HeldStep
  <2>2. QED
    BY <2>1, HeldStep DEF HeldInv
<1>3. TypeInv /\ HeldInv /\ [Next]_vars => HeldInv'
  BY HeldStep
<1>4. QED
  BY TypeInit, TypeStep, <1>1, <1>2, <1>3, PTL DEF Spec, AskedIsServed

-----------------------------------------------------------------------------
(* The outputs.  Between the decision to open and the choice of the cause  *)
(* the door is open and the siren still off; and whoever is past the first *)
(* step of the factory test has driven the outputs behind misc_task.  Once *)
(* utest has deleted misc_task, only the test itself moves pc.             *)

InTest == pc \in FactorySteps \ {"f_alarm"}

\* A deleted misc_task takes no step of its own any more.
DeletedIsOut == misc_thread # "live" => pc \in FactorySteps \cup {"finished", "hung"}

OutputInv ==
    /\ SirenMatchesOpener
    /\ DoorPinMatches
    /\ NeverLeftUnlocked
    /\ pc = "cause" => door_open
    /\ pc = "cause" /\ ~tampered => ~mainAlarm /\ \A r \in Relays : ~output[r]
    /\ InTest => tampered
    /\ pc = "f_off" => forced
    /\ DeletedIsOut

outputs == <<pins, output, door_open, opener, misc_thread, overrides>>

\* All other steps leave the outputs and what misc_task believes of them alone,
\* and neither enter the step "cause" nor the factory test.
LEMMA OutputFrame ==
  ASSUME [Next]_vars, ~DecideOpen, ~SetCause, ~Lock, ~Reboot,
         ~FactoryAlarmOn, ~FactoryRelays, ~FactoryOff,
         ~factory_test_tc_init, ~\E sta \in BOOLEAN : misc_door_open(sta)
  PROVE  /\ UNCHANGED outputs
         /\ \/ pc' = pc
            \/ /\ pc' \notin {"cause", "f_off"}
               /\ pc \notin {"cause", "f_alarm", "f_relays", "f_off"}
         /\ InTest' => InTest
         /\ pc' \in TestWaits => pc \in TestWaits
         /\ DeletedIsOut => DeletedIsOut'
<1> USE DEF Goto, outputs, pins, door, absVars, InTest, FactorySteps, DeletedIsOut, TestWaits,
            overrides
<1>1. CASE misc_task
  <2>1. CASE factory_testcase
    BY <2>1 DEF factory_testcase, FactoryKey, FactoryCheck, FactoryInputs
  <2>2. CASE Delay \/ ReadKey \/ ReadEmergency \/ ClearKey \/ PublishOpen
                \/ ClearRequests \/ PublishClose
    BY <2>2 DEF Delay, ReadKey, ReadEmergency, ClearKey, PublishOpen, ClearRequests,
                PublishClose
  <2>3. CASE Power \/ PublishPower \/ Poll \/ Act \/ Save
    BY <2>3 DEF Power, PublishPower, AfterPower, Poll, Act, Save
  <2>4. CASE SetKey \/ SetClear \/ BothKeys \/ BothClear
    BY <2>4 DEF SetKey, SetClear, BothKeys, BothClear
  <2>5. QED
    BY <1>1, <2>1, <2>2, <2>3, <2>4 DEF misc_task, misc_smoke_report
<1>2. CASE ~misc_task
  <2>1. CASE UNCHANGED vars
    BY <2>1 DEF vars
  <2>2. CASE extio_task
    BY <2>2 DEF extio_task, Scan
  <2>3. CASE Connect \/ sub_topic_handle1 \/ mqtt_publish_building
    BY <2>3 DEF Connect, sub_topic_handle1, Door, RunStop, mqtt_publish_building
  <2>4. QED
    BY <1>2, <2>1, <2>2, <2>3 DEF Next
<1>3. QED
  BY <1>1, <1>2

\* OutputInv is inductive.
LEMMA OutputStep == TypeInv /\ OutputInv /\ [Next]_vars => OutputInv'
<1> SUFFICES ASSUME TypeInv, OutputInv, [Next]_vars PROVE OutputInv'
  OBVIOUS
<1>t. output \in [Relays -> BOOLEAN]
  BY DEF TypeInv, TypeOK, AbsTypeOK
<1> USE DEF OutputInv, SirenMatchesOpener, DoorPinMatches, NeverLeftUnlocked, SoundsSiren,
            InTest, FactorySteps, DeletedIsOut, TestWaits, overrides
<1>1. CASE DecideOpen
  BY <1>1 DEF DecideOpen, absVars
<1>2. CASE SetCause
  <2>1. CASE SoundsSiren(FirstCause)
    BY <1>2, <2>1 DEF SetCause, Goto, set_alarm
  <2>2. CASE ~SoundsSiren(FirstCause)
    BY <1>2, <2>2 DEF SetCause, Goto
  <2>3. QED
    BY <2>1, <2>2
<1>3. CASE Lock
  BY <1>3 DEF Lock, LockOutputs, clr_alarm, pins
<1>4. CASE Reboot
  BY <1>4 DEF Reboot
<1>5. CASE FactoryAlarmOn
  BY <1>5 DEF FactoryAlarmOn, Goto, door
<1>6. CASE FactoryRelays
  BY <1>6 DEF FactoryRelays, door
<1>7. CASE FactoryOff
  BY <1>7 DEF FactoryOff, FactoryOutputs, Goto, door, clr_alarm
<1>8. CASE \E sta \in BOOLEAN : misc_door_open(sta)
  BY <1>8 DEF misc_door_open, door, absVars
<1>9. CASE factory_test_tc_init
  BY <1>9 DEF factory_test_tc_init, Blocked, PublishSteps, pins, door, absVars
<1>10. CASE /\ ~DecideOpen /\ ~SetCause /\ ~Lock /\ ~Reboot /\ ~FactoryAlarmOn
           /\ ~FactoryRelays /\ ~FactoryOff /\ ~factory_test_tc_init
           /\ ~\E sta \in BOOLEAN : misc_door_open(sta)
  <2>1. UNCHANGED outputs /\ (InTest' => InTest) /\ DeletedIsOut'
    BY <1>10, OutputFrame
  <2>2. \/ pc' = pc
        \/ /\ pc' \notin {"cause", "f_off"}
           /\ pc \notin {"cause", "f_alarm", "f_relays", "f_off"}
    BY <1>10, OutputFrame
  <2>3. pc' \in TestWaits => pc \in TestWaits
    BY <1>10, OutputFrame
  <2>4. /\ doorPin' = doorPin /\ mainAlarm' = mainAlarm /\ output' = output
        /\ door_open' = door_open /\ opener' = opener /\ misc_thread' = misc_thread
        /\ tampered' = tampered /\ forced' = forced
    BY <2>1 DEF outputs, pins
  <2>5. SirenMatchesOpener' /\ DoorPinMatches'
    BY <2>2, <2>4
  <2>6. NeverLeftUnlocked'
    <3>1. pc' = pc \/ pc \notin {"f_alarm", "f_relays", "f_off"}
      BY <2>2
    <3>2. QED
      BY <2>3, <2>4, <3>1
  <2>7. /\ pc' = "cause" => pc = "cause"
        /\ pc' = "f_off" => pc = "f_off"
        /\ InTest' => tampered'
    BY <2>1, <2>2, <2>4
  <2>8. pc' = "f_off" => forced'
    BY <2>4, <2>7
  <2>9. pc' = "cause" => door_open' /\ (~tampered' => ~mainAlarm' /\ \A r \in Relays : ~output'[r])
    BY <2>4, <2>7
  <2>10. QED
    BY <2>1, <2>5, <2>6, <2>7, <2>8, <2>9
<1>11. QED
  BY <1>1, <1>2, <1>3, <1>4, <1>5, <1>6, <1>7, <1>8, <1>9, <1>10

\* In every reachable state OutputInv holds.
LEMMA OutputsCorrect == Spec => []OutputInv
<1>1. Init => OutputInv
  BY DEF Init, AbsInit, OutputInv, SirenMatchesOpener, DoorPinMatches, NeverLeftUnlocked,
         SoundsSiren, InTest, FactorySteps, DeletedIsOut, TestWaits
<1>2. QED
  BY TypeInit, TypeStep, <1>1, OutputStep, PTL DEF Spec

\* Unless a factory test drove them, siren and relays are
\* requested exactly while the door is open for an emergency or a fire.
THEOREM SirenCorrect == Spec => []SirenMatchesOpener
<1>1. OutputInv => SirenMatchesOpener
  BY DEF OutputInv
<1>2. QED
  BY OutputsCorrect, <1>1, PTL

\* Unless the shell or a factory test was the last to drive it, the lock is where
\* misc_task believes it to be, at every step of every thread.
THEOREM DoorPinCorrect == Spec => []DoorPinMatches
<1>1. OutputInv => DoorPinMatches
  BY DEF OutputInv
<1>2. QED
  BY OutputsCorrect, <1>1, PTL

\* Without the shell command, the lock is shut and siren and relays are off
\* whenever a factory test waits for somebody, at whatever point of misc's life
\* and with whatever state of the door it was entered.
THEOREM NoDoorLeftOpen == Spec => []NeverLeftUnlocked
<1>1. OutputInv => NeverLeftUnlocked
  BY DEF OutputInv
<1>2. QED
  BY OutputsCorrect, <1>1, PTL

-----------------------------------------------------------------------------
(* What the server knows.  A change of the door, of its cause or of the    *)
(* supply is followed by its report before misc_task does anything else;   *)
(* until then the server may lag behind in that one respect.  A deleted    *)
(* misc_task owes nothing: it never sleeps in its loop again.              *)

Causes == Garbage \cup {CauseOf[o] : o \in Openers \ {"withdrawn"}}

DoorTold == server.door = door_open /\ (opener # "withdrawn" => server.cause = CauseOf[opener])
PowerTold == server.power = powerdown_flag

ToldInv ==
    /\ server \in [door : BOOLEAN, cause : Causes, power : BOOLEAN]
    /\ pc \in {"cause", "publish"} => door_open
    /\ pc = "publish_close" => ~door_open /\ opener = "none"
    /\ misc_thread = "live" =>
        /\ pc \notin {"cause", "publish", "publish_close"} /\ "door" \notin stale => DoorTold
        /\ pc # "publish_power" /\ "power" \notin stale => PowerTold

Reports == {"cause", "publish", "publish_close", "publish_power"}
told == <<server, stale, door_open, opener, powerdown_flag, misc_thread>>

\* The other steps change neither what is reported nor what has been, and
\* neither enter nor leave a report.
LEMMA ToldFrame ==
  ASSUME [Next]_vars, ~DecideOpen, ~SetCause, ~PublishOpen, ~Lock, ~PublishClose, ~Power,
         ~PublishPower, ~Reboot, ~factory_test_tc_init, ~mqtt_publish_building
  PROVE  /\ UNCHANGED told
         /\ pc' = pc \/ (pc \notin Reports /\ pc' \notin Reports)
<1> USE DEF Goto, told, Reports, net, door, smoke_report
<1>1. CASE misc_task
  <2>1. CASE factory_testcase
    BY <2>1 DEF factory_testcase, FactoryAlarmOn, FactoryRelays, FactoryOff, FactoryKey,
                FactoryCheck, FactoryInputs
  <2>2. CASE Delay \/ ReadKey \/ ReadEmergency \/ ClearKey \/ ClearRequests
    BY <2>2 DEF Delay, ReadKey, ReadEmergency, ClearKey, ClearRequests
  <2>3. CASE Poll \/ Act \/ Save
    BY <2>3 DEF Poll, Act, Save
  <2>4. CASE SetKey \/ SetClear \/ BothKeys \/ BothClear
    BY <2>4 DEF SetKey, SetClear, BothKeys, BothClear
  <2>5. QED
    BY <1>1, <2>1, <2>2, <2>3, <2>4 DEF misc_task, misc_smoke_report
<1>2. CASE ~misc_task
  BY <1>2 DEF Next, extio_task, Connect, sub_topic_handle1, Door, RunStop, misc_door_open,
              vars
<1>3. QED
  BY <1>1, <1>2

LEMMA ToldStep == TypeInv /\ OutputInv /\ ToldInv /\ [Next]_vars => ToldInv'
<1> SUFFICES ASSUME TypeInv, OutputInv, ToldInv, [Next]_vars PROVE ToldInv'
  OBVIOUS
<1>t. door_open \in BOOLEAN /\ powerdown_flag \in BOOLEAN /\ stale \subseteq Items
      /\ opener \in Openers /\ checkSta \in [Checks -> BOOLEAN]
  BY DEF TypeInv, TypeOK, AbsTypeOK
<1>s. server \in [door : BOOLEAN, cause : Causes, power : BOOLEAN]
  BY DEF ToldInv
<1> USE DEF net, door, smoke_report, Goto
\* A report is delivered, or its item is on record as stale.
<1>r. ASSUME NEW item \in Items,
             NEW msg \in [door : BOOLEAN, cause : Causes, power : BOOLEAN], Report(item, msg)
      PROVE  /\ server' \in [door : BOOLEAN, cause : Causes, power : BOOLEAN]
             /\ \/ server' = server /\ stale' = stale \cup {item}
                \/ server' = msg /\ stale' = stale \ {item}
  BY <1>r, <1>s DEF Report
<1>1. CASE DecideOpen
  <2>1. pc = "open" /\ UNCHANGED <<server, stale, opener, powerdown_flag, misc_thread>>
    BY <1>1 DEF DecideOpen
  <2>2. \/ pc' = "cause" /\ door_open' = TRUE
        \/ pc' \in {"power", "lock"} /\ door_open' = door_open
    BY <1>1, <1>t DEF DecideOpen
  <2>3. QED
    BY <2>1, <2>2 DEF ToldInv, DoorTold, PowerTold
<1>2. CASE SetCause
  <2>1. /\ pc = "cause" /\ pc' = "publish"
        /\ UNCHANGED <<server, stale, door_open, powerdown_flag, misc_thread>>
    BY <1>2 DEF SetCause
  <2>2. QED
    BY <2>1 DEF ToldInv, PowerTold
<1>3. CASE PublishOpen
  <2>1. /\ pc = "publish" /\ pc' = "clear" /\ door_open
        /\ UNCHANGED <<door_open, opener, powerdown_flag, misc_thread>>
    BY <1>3 DEF PublishOpen, ToldInv
  <2>2. PICK c \in IF opener = "withdrawn" THEN Garbage ELSE {CauseOf[opener]} :
               Report("door", [server EXCEPT !.door = TRUE, !.cause = c])
    BY <1>3 DEF PublishOpen
  <2>3. c \in Causes /\ (opener # "withdrawn" => c = CauseOf[opener])
    BY <1>t, <2>2 DEF Causes
  <2> DEFINE msg == [server EXCEPT !.door = TRUE, !.cause = c]
  <2>4. /\ msg \in [door : BOOLEAN, cause : Causes, power : BOOLEAN]
        /\ msg.door = TRUE /\ msg.cause = c /\ msg.power = server.power
    BY <1>s, <2>3
  <2>5. Report("door", msg)
    BY <2>2
  <2> HIDE DEF msg
  <2>6. /\ server' \in [door : BOOLEAN, cause : Causes, power : BOOLEAN]
        /\ \/ server' = server /\ stale' = stale \cup {"door"}
           \/ server' = msg /\ stale' = stale \ {"door"}
    BY <1>r, <2>4, <2>5 DEF Items
  <2>7. PowerTold \/ misc_thread # "live" \/ "power" \in stale
    BY <2>1 DEF ToldInv
  <2>8. CASE server' = server /\ stale' = stale \cup {"door"}
    BY <2>1, <2>6, <2>7, <2>8 DEF ToldInv, PowerTold
  <2>9. CASE server' = msg /\ stale' = stale \ {"door"}
    <3>1. DoorTold'
      <4>1. server'.door = TRUE /\ door_open' = TRUE
        BY <1>t, <2>1, <2>4, <2>9
      <4>2. opener' # "withdrawn" => server'.cause = CauseOf[opener']
        BY <2>1, <2>3, <2>4, <2>9
      <4>3. QED
        BY <4>1, <4>2 DEF DoorTold
    <3>2. PowerTold => PowerTold'
      BY <2>1, <2>4, <2>9 DEF PowerTold
    <3>3. QED
      BY <2>1, <2>6, <2>7, <2>9, <3>1, <3>2 DEF ToldInv
  <2>10. QED
    BY <2>6, <2>8, <2>9
<1>4. CASE Lock
  <2>1. pc = "lock" /\ UNCHANGED <<server, stale, powerdown_flag, misc_thread>>
    BY <1>4 DEF Lock
  <2>2. \/ pc' = "publish_close" /\ door_open' = FALSE /\ opener' = "none"
        \/ pc' = "power" /\ UNCHANGED <<door_open, opener>>
    BY <1>4 DEF Lock
  <2>3. QED
    BY <2>1, <2>2 DEF ToldInv, DoorTold, PowerTold
<1>5. CASE PublishClose
  <2>1. /\ pc = "publish_close" /\ pc' = "power" /\ ~door_open /\ opener = "none"
        /\ UNCHANGED <<door_open, opener, powerdown_flag, misc_thread>>
        /\ Report("door", CloseReport)
    BY <1>5 DEF PublishClose, ToldInv
  <2>2. CauseOf["none"] = 0 /\ 0 \in Causes
    BY DEF CauseOf, Causes, Openers
  <2>3. /\ CloseReport \in [door : BOOLEAN, cause : Causes, power : BOOLEAN]
        /\ CloseReport.door = FALSE /\ CloseReport.cause = 0
        /\ CloseReport.power = server.power
    BY <1>s, <2>2 DEF CloseReport
  <2>4. /\ server' \in [door : BOOLEAN, cause : Causes, power : BOOLEAN]
        /\ \/ server' = server /\ stale' = stale \cup {"door"}
           \/ server' = CloseReport /\ stale' = stale \ {"door"}
    BY <1>r, <2>1, <2>3 DEF Items
  <2>5. QED
    BY <1>t, <2>1, <2>2, <2>3, <2>4 DEF ToldInv, DoorTold, PowerTold
<1>6. CASE Power
  <2>1. pc = "power" /\ UNCHANGED <<server, stale, door_open, opener, misc_thread>>
    BY <1>6 DEF Power
  <2>2. \/ pc' = "publish_power"
        \/ pc' \in {"poll", "save"} /\ powerdown_flag' = powerdown_flag
    BY <1>6, <1>t DEF Power, ReportsPower, AfterPower
  <2>3. QED
    BY <2>1, <2>2 DEF ToldInv, DoorTold, PowerTold
<1>7. CASE PublishPower
  <2>1. /\ pc = "publish_power" /\ pc' \in {"poll", "save"}
        /\ UNCHANGED <<door_open, opener, powerdown_flag, misc_thread>>
        /\ Report("power", [server EXCEPT !.power = powerdown_flag])
    BY <1>7 DEF PublishPower, AfterPower
  <2> DEFINE msg == [server EXCEPT !.power = powerdown_flag]
  <2>2. /\ msg \in [door : BOOLEAN, cause : Causes, power : BOOLEAN]
        /\ msg.door = server.door /\ msg.cause = server.cause /\ msg.power = powerdown_flag
    BY <1>s, <1>t
  <2>3. Report("power", msg)
    BY <2>1
  <2> HIDE DEF msg
  <2>4. /\ server' \in [door : BOOLEAN, cause : Causes, power : BOOLEAN]
        /\ \/ server' = server /\ stale' = stale \cup {"power"}
           \/ server' = msg /\ stale' = stale \ {"power"}
    BY <1>r, <2>2, <2>3 DEF Items
  <2>5. QED
    BY <2>1, <2>2, <2>4 DEF ToldInv, DoorTold, PowerTold
<1>8. CASE Reboot
  <2>1. pc' = "delay" /\ stale' = {"door", "power"} /\ server' = server
    BY <1>8 DEF Reboot, Items
  <2>2. QED
    BY <1>s, <2>1 DEF ToldInv
<1>9. CASE factory_test_tc_init
  <2>1. pc' \in {"f_alarm", "hung"} /\ misc_thread' # "live" /\ server' = server
    BY <1>9 DEF factory_test_tc_init
  <2>2. QED
    BY <1>s, <2>1 DEF ToldInv
<1>10. CASE /\ ~DecideOpen /\ ~SetCause /\ ~PublishOpen /\ ~Lock /\ ~PublishClose /\ ~Power
            /\ ~PublishPower /\ ~Reboot /\ ~factory_test_tc_init /\ ~mqtt_publish_building
  <2>1. UNCHANGED told /\ (pc' = pc \/ (pc \notin Reports /\ pc' \notin Reports))
    BY <1>10, ToldFrame
  <2>2. QED
    BY <2>1 DEF told, Reports, ToldInv, DoorTold, PowerTold
<1>11. CASE mqtt_publish_building
  <2>1. 0 \in Causes
    BY DEF Causes, CauseOf, Openers
  <2>2. /\ server' \in [door : BOOLEAN, cause : Causes, power : BOOLEAN]
        /\ server'.power = server.power
    BY <1>11, <1>s, <2>1 DEF mqtt_publish_building
  <2>3. /\ stale' = stale \cup {"door"}
        /\ UNCHANGED <<pc, door_open, opener, powerdown_flag, misc_thread>>
    BY <1>11 DEF mqtt_publish_building
  <2>4. QED
    BY <2>2, <2>3 DEF ToldInv, PowerTold
<1>12. QED
  BY <1>1, <1>2, <1>3, <1>4, <1>5, <1>6, <1>7, <1>8, <1>9, <1>10, <1>11

\* Whenever misc_task sleeps, the server knows the door with what opened it, and
\* the supply, from the first report of each that is delivered after a loss, a
\* reboot or a report sent from the shell, for every timing of the reports and
\* whatever the other threads do while one is being delivered.
THEOREM ServerIsInformed == Spec => []ServerInformed
<1>1. Init => ToldInv
  <2>1. CauseOf["none"] = 0 /\ 0 \in Causes
    BY DEF CauseOf, Causes, Openers
  <2>2. ASSUME Init PROVE ToldInv
    <3>1. /\ server = [door |-> FALSE, cause |-> 0, power |-> FALSE]
          /\ pc = "delay" /\ door_open = FALSE /\ opener = "none" /\ powerdown_flag = FALSE
      BY <2>2 DEF Init
    <3>2. /\ server \in [door : BOOLEAN, cause : Causes, power : BOOLEAN]
          /\ server.door = FALSE /\ server.cause = 0 /\ server.power = FALSE
      BY <2>1, <3>1
    <3>3. QED
      BY <2>1, <3>1, <3>2 DEF ToldInv, DoorTold, PowerTold
  <2>3. QED
    BY <2>2
<1>2. OutputInv /\ ToldInv => ServerInformed
  BY DEF OutputInv, DeletedIsOut, FactorySteps, ToldInv, DoorTold, PowerTold, ServerInformed
<1>3. QED
  BY TypeInit, TypeStep, OutputsCorrect, <1>1, ToldStep, <1>2, PTL DEF Spec

-----------------------------------------------------------------------------
(* The I/O structure.  Every step of misc_task, the factory test and the   *)
(* server's commands that writes it is a client write of ExtioAbs.         *)

\* Acknowledging keys is a client write.
LEMMA ClearIsWrite ==
  ASSUME AbsTypeOK, NEW K \in SUBSET Keys,
         keySta' = [k \in Keys |-> IF k \in K THEN "RELEASE" ELSE keySta[k]],
         UNCHANGED <<checkSta, save, output, relay>>
  PROVE  ClientWrite
  BY DEF ClientWrite

LEMMA KeyClrIsWrite ==
  ASSUME AbsTypeOK, NEW k \in Keys, key_clr(k), UNCHANGED <<checkSta, save, output, relay>>
  PROVE  ClientWrite
<1>1. keySta' = [j \in Keys |-> IF j \in {k} THEN "RELEASE" ELSE keySta[j]]
  BY DEF key_clr, AbsTypeOK
<1>2. QED
  BY <1>1, ClearIsWrite

\* Requesting and dropping relays is one.
LEMMA AlarmIsWrite ==
  ASSUME NEW S \in SUBSET Relays, set_alarm(S) \/ clr_alarm(S),
         UNCHANGED <<keySta, checkSta, save, relay>>
  PROVE  ClientWrite
  BY DEF ClientWrite

LEMMA UseStep == TypeInv /\ [Next]_vars => [AbsNext \/ Reboot]_absVars
<1> SUFFICES ASSUME TypeInv, [Next]_vars PROVE AbsNext \/ Reboot \/ UNCHANGED absVars
  BY DEF absVars
<1>t. AbsTypeOK
  BY DEF TypeInv, TypeOK
<1>k. "SET" \in Keys /\ "OPEN" \in Keys
  BY ChannelsAssumption
<1>1. CASE extio_task
  BY <1>1 DEF extio_task, AbsNext
<1>2. CASE ClearKey \/ SetClear
  BY <1>2, <1>t, <1>k, KeyClrIsWrite DEF ClearKey, SetClear, AbsNext
<1>3. CASE BothClear
  <2>1. keySta' = [k \in Keys |-> IF k \in {"SET", "OPEN"} THEN "RELEASE" ELSE keySta[k]]
    BY <1>3, <1>t DEF BothClear, AbsTypeOK
  <2>2. UNCHANGED <<checkSta, save, output, relay>>
    BY <1>3 DEF BothClear
  <2>3. QED
    BY <1>t, <1>k, <2>1, <2>2, ClearIsWrite DEF AbsNext
<1>4. CASE SetCause \/ Lock \/ FactoryOff
  <2>1. UNCHANGED <<keySta, checkSta, save, relay>>
    BY <1>4 DEF SetCause, Lock, FactoryOff
  <2>2. set_alarm(Relays) \/ clr_alarm(Relays) \/ UNCHANGED output
    BY <1>4 DEF SetCause, Lock, LockOutputs, FactoryOff, FactoryOutputs
  <2>3. QED
    BY <2>1, <2>2, AlarmIsWrite DEF AbsNext, absVars
<1>5. CASE FactoryRelays
  <2>1. UNCHANGED <<keySta, checkSta, save, relay>>
    BY <1>5 DEF FactoryRelays
  <2>2. UNCHANGED output \/ \E r \in Relays : set_alarm({r})
    BY <1>5 DEF FactoryRelays
  <2>3. QED
    BY <2>1, <2>2, AlarmIsWrite DEF AbsNext, absVars
<1>6. CASE FactoryKey("f_set", "SET", "f_open") \/ FactoryKey("f_open", "OPEN", "f_power")
  BY <1>6, <1>t, <1>k, KeyClrIsWrite DEF FactoryKey, AbsNext
<1>7. CASE Delay \/ ReadKey \/ ReadEmergency \/ DecideOpen \/ PublishOpen \/ ClearRequests
           \/ PublishClose \/ Power \/ PublishPower
  BY <1>7 DEF Delay, ReadKey, ReadEmergency, DecideOpen, PublishOpen, ClearRequests,
              PublishClose, Power, PublishPower
<1>8. CASE Poll \/ Act \/ Save \/ SetKey \/ BothKeys
  BY <1>8 DEF Poll, Act, Save, SetKey, BothKeys
<1>9. CASE FactoryAlarmOn \/ FactoryInputs
           \/ FactoryCheck("f_power", "POWERDOWN", "f_emergency")
           \/ FactoryCheck("f_emergency", "EMERGENCY", "f_inputs")
  BY <1>9 DEF FactoryAlarmOn, FactoryInputs, FactoryCheck
<1>10. CASE Connect \/ sub_topic_handle1 \/ factory_test_tc_init \/ mqtt_publish_building
            \/ \E sta \in BOOLEAN : misc_door_open(sta)
  BY <1>10 DEF Connect, sub_topic_handle1, Door, RunStop, factory_test_tc_init,
               misc_door_open, mqtt_publish_building
<1>11. CASE UNCHANGED vars
  BY <1>11 DEF vars
<1>12. QED
  BY <1>1, <1>2, <1>3, <1>4, <1>5, <1>6, <1>7, <1>8, <1>9, <1>10, <1>11
     DEF Next, misc_task, misc_smoke_report, factory_testcase

\* misc_task, the factory test and the server's commands write the I/O
\* structure only the way the promise of ExtioAbs allows its clients, for
\* every set of keys, inputs and relays, so what ExtioProofs shows of the
\* scanner and what is shown here of its client fit together.
THEOREM ClientOfExtio == Spec => UsesExtio
<1>1. Init => AbsInit
  BY DEF Init
<1>2. QED
  BY <1>1, TypeInit, TypeStep, UseStep, PTL DEF Spec, UsesExtio
=============================================================================

----------------------------- MODULE NbIotProofs -----------------------------
(***************************************************************************)
(* Proofs about NbIot, for every configuration, every save period, every   *)
(* sequence of commands and every pattern of dropped links, lost reports   *)
(* and reboots: what the server has set is in the flash one period of misc *)
(* later, and the server knows whether the board is stopped.               *)
(***************************************************************************)
EXTENDS NbIot, TLAPS

-----------------------------------------------------------------------------
(* Settings.                                                               *)

\* While RAM and flash differ, misc has made no more passes since the edit
\* than since its last save: the save comes first.
SavePending == image = config \/ age <= save_time

SettingInv ==
    /\ save_time \in 0..SavePasses - 1
    /\ age \in 0..SavePasses
    /\ SavePending

LEMMA PassesFacts == SavePasses \in Nat /\ SavePasses >= 1
    BY BoundsAssumption

LEMMA SettingInit == Init => SettingInv
    BY PassesFacts DEF Init, SettingInv, SavePending

LEMMA SettingStep == SettingInv /\ [Next]_vars => SettingInv'
<1> SUFFICES ASSUME SettingInv, [Next]_vars PROVE SettingInv'
    OBVIOUS
<1> USE DEF task, net, store, callback, control, server, bounds
<1>0. save_time \in 0..SavePasses - 1 /\ age \in 0..SavePasses
    BY DEF SettingInv
<1>s. ASSUME UNCHANGED <<config, image, save_time, age>> PROVE SettingInv'
    BY <1>s DEF SettingInv, SavePending
<1>p. ASSUME PowerOn PROVE SettingInv'
  <2>1. config' = image /\ image' = image /\ save_time' = 0 /\ age' = SavePasses
    BY <1>p DEF PowerOn
  <2> QED
    BY <2>1, PassesFacts DEF SettingInv, SavePending
<1>1. CASE Handle
  <2>1. UNCHANGED <<image, save_time>>
    BY <1>1 DEF Handle
  <2>2. UNCHANGED <<config, age>> \/ age' = 0
    BY <1>1 DEF Handle
  <2>3. CASE UNCHANGED <<config, age>>
    BY <1>s, <2>1, <2>3
  <2>4. CASE age' = 0
    BY <1>0, <2>1, <2>4, PassesFacts DEF SettingInv, SavePending
  <2> QED
    BY <2>2, <2>3, <2>4
<1>2. CASE Pass
  <2>1. /\ save_time' = (save_time + 1) % SavePasses /\ config' = config
        /\ image' = (IF save_time' = 0 THEN config ELSE image)
        /\ age' = IF age < SavePasses THEN age + 1 ELSE age
    BY <1>2 DEF Pass, Saved
  <2>2. age' \in 0..SavePasses
    BY <1>0, <2>1, PassesFacts
  <2>3. CASE save_time = SavePasses - 1
    <3>1. save_time + 1 = SavePasses /\ SavePasses % SavePasses = 0
      BY <2>3, PassesFacts
    <3>2. save_time' = 0
      BY <2>1, <3>1
    <3>3. image' = config'
      BY <2>1, <3>2
    <3> QED
      BY <2>2, <3>2, <3>3, PassesFacts DEF SettingInv, SavePending
  <2>4. CASE save_time # SavePasses - 1
    <3>1. save_time + 1 \in 0..SavePasses - 1 /\ save_time + 1 # 0
      BY <1>0, <2>4, PassesFacts
    <3>2. save_time' = save_time + 1
      BY <2>1, <3>1, PassesFacts
    <3>3. image' = image
      BY <2>1, <3>1, <3>2
    <3>4. age <= save_time => age' <= save_time'
      BY <1>0, <2>1, <3>2, PassesFacts
    <3>5. SavePending'
      BY <2>1, <3>3, <3>4 DEF SettingInv, SavePending
    <3> QED
      BY <2>2, <3>1, <3>2, <3>5 DEF SettingInv
  <2> QED
    BY <2>3, <2>4
<1>3. CASE PowerLoss \/ ResetCpu
    BY <1>p, <1>3 DEF PowerLoss, ResetCpu
<1>4. CASE nb_iot_task
    BY <1>4, <1>s DEF nb_iot_task, WaitConfig, LinkUp, Lease, Connect, Subscribe,
                      PublishStartup, Idle, vars
<1>5. CASE GetSmoke \/ PublishStatus \/ PublishRunStop \/ StartOta
    BY <1>5, <1>s DEF GetSmoke, PublishStatus, PublishRunStop, StartOta
<1>6. CASE PostConfig \/ LinkChange \/ Reconnect \/ \E c \in Commands : Send(c)
    BY <1>6, <1>s DEF PostConfig, LinkChange, Reconnect, Send
<1>7. CASE UNCHANGED vars
    BY <1>7, <1>s DEF vars
<1> QED
    BY <1>1, <1>2, <1>3, <1>4, <1>5, <1>6, <1>7 DEF Next, sub_topic_handle1

\* What CMD_DOWN_SETTING, CMD_DOWN_SET_SMOKE or CMD_DOWN_ALL_SMOKE has edited
\* is in the flash once misc has made a period of passes since, whatever
\* further commands, stops, resets and losses of supply come in between.
THEOREM SettingsKept == Spec => []SettingKept
<1>1. SettingInv => SettingKept
    BY PassesFacts DEF SettingInv, SavePending, SettingKept
<1> QED
    BY <1>1, SettingInit, SettingStep, PTL DEF Spec

-----------------------------------------------------------------------------
(* Stop and run.                                                           *)

Reporting == handler \in {"STOP", "RUN"}

\* In the middle of a stop or a run the flag is set and the report still to
\* come; otherwise the server has been told, or something was lost.
RunInv ==
    /\ run_stop_flag \in BOOLEAN
    /\ handler = "STOP" => ~run_stop_flag
    /\ handler = "RUN" => run_stop_flag
    /\ ~Reporting /\ ~lost => toldRun = run_stop_flag

\* Only CMD_DOWN_STOP and CMD_DOWN_RUN change the flag, and only they go on
\* with their report.
LEMMA FlagFollowsCommand ==
    ASSUME NEW c
    PROVE  \/ c.kind = "STOP" /\ GoesOn(c) = "STOP" /\ FlagOf(c) = FALSE
           \/ c.kind = "RUN" /\ GoesOn(c) = "RUN" /\ FlagOf(c) = TRUE
           \/ GoesOn(c) \notin {"STOP", "RUN"} /\ FlagOf(c) = run_stop_flag
<1>1. CASE c.kind = "STOP"
    BY <1>1 DEF GoesOn, FlagOf
<1>2. CASE c.kind = "RUN"
    BY <1>2 DEF GoesOn, FlagOf
<1>3. CASE c.kind \notin {"STOP", "RUN"}
  <2>1. FlagOf(c) = run_stop_flag
    BY <1>3 DEF FlagOf
  <2>2. GoesOn(c) \in {"GET_SMOKE", "UPDATE", "RESET", "STATUS", "idle"}
    BY <1>3 DEF GoesOn
  <2> QED
    BY <2>1, <2>2
<1> QED
    BY <1>1, <1>2, <1>3

LEMMA RunStep == RunInv /\ [Next]_vars => RunInv'
<1> SUFFICES ASSUME RunInv, [Next]_vars PROVE RunInv'
    OBVIOUS
<1> USE DEF task, net, store, callback, control, server, bounds
\* The step leaves the flag and what was told, and loses nothing it regains.
<1>s. ASSUME UNCHANGED <<run_stop_flag, toldRun>>, lost => lost',
             handler' = handler \/ (~Reporting /\ ~Reporting')
      PROVE  RunInv'
    BY <1>s DEF RunInv, Reporting
<1>p. ASSUME PowerOn PROVE RunInv'
    BY <1>p DEF PowerOn, RunInv, Reporting
<1>1. CASE Handle
  <2>1. /\ handler = "idle" /\ UNCHANGED <<toldRun, lost>>
        /\ \E c : run_stop_flag' = FlagOf(c) /\ handler' = GoesOn(c)
    BY <1>1 DEF Handle
  <2>2. PICK c : run_stop_flag' = FlagOf(c) /\ handler' = GoesOn(c)
    BY <2>1
  <2>3. CASE c.kind = "STOP" /\ GoesOn(c) = "STOP" /\ FlagOf(c) = FALSE
    BY <2>2, <2>3 DEF RunInv, Reporting
  <2>4. CASE c.kind = "RUN" /\ GoesOn(c) = "RUN" /\ FlagOf(c) = TRUE
    BY <2>2, <2>4 DEF RunInv, Reporting
  <2>5. CASE GoesOn(c) \notin {"STOP", "RUN"} /\ FlagOf(c) = run_stop_flag
    <3>1. ~Reporting /\ ~Reporting'
      BY <2>1, <2>2, <2>5 DEF Reporting
    <3> QED
      BY <2>1, <2>2, <2>5, <3>1, <1>s
  <2> QED
    BY <2>3, <2>4, <2>5, FlagFollowsCommand
<1>2. CASE PublishRunStop
  <2>1. /\ handler \in {"STOP", "RUN"} /\ handler' = "idle"
        /\ UNCHANGED run_stop_flag
        /\ toldRun' = (handler = "RUN") \/ lost' = TRUE
    BY <1>2 DEF PublishRunStop, RunStopValue
  <2>2. CASE lost' = TRUE
    BY <2>1, <2>2 DEF RunInv, Reporting
  <2>3. CASE toldRun' = (handler = "RUN")
    <3>1. (handler = "RUN") = run_stop_flag
      BY <2>1 DEF RunInv
    <3>2. toldRun' = run_stop_flag'
      BY <2>1, <2>3, <3>1
    <3> QED
      BY <2>1, <3>2 DEF RunInv, Reporting
  <2> QED
    BY <2>1, <2>2, <2>3
<1>3. CASE PowerLoss \/ ResetCpu
    BY <1>p, <1>3 DEF PowerLoss, ResetCpu
<1>4. CASE GetSmoke
  <2>1. handler = "GET_SMOKE" /\ handler' \in {"idle", "GET_SMOKE"}
    BY <1>4 DEF GetSmoke
  <2>2. UNCHANGED <<run_stop_flag, toldRun, lost>>
    BY <1>4 DEF GetSmoke
  <2> QED
    BY <2>1, <2>2, <1>s DEF Reporting
<1>5. CASE PublishStatus
  <2>1. handler \in {"STATUS", "UPDATE", "RESET"}
    BY <1>5 DEF PublishStatus, StatusOf
  <2>2. handler' \in {"idle", "update_wait", "reset_wait"}
    BY <1>5, <2>1 DEF PublishStatus
  <2>3. UNCHANGED <<run_stop_flag, toldRun>> /\ (lost => lost')
    BY <1>5 DEF PublishStatus, Publish
  <2> QED
    BY <2>1, <2>2, <2>3, <1>s DEF Reporting
<1>6. CASE StartOta
    BY <1>6, <1>s DEF StartOta, Reporting
<1>7. CASE nb_iot_task
  <2>1. UNCHANGED <<run_stop_flag, toldRun, handler>>
    BY <1>7 DEF nb_iot_task, WaitConfig, LinkUp, Lease, Connect, Subscribe,
                PublishStartup, Idle, vars
  <2>2. lost' = lost \/ lost' = TRUE
    BY <1>7 DEF nb_iot_task, WaitConfig, LinkUp, Lease, Connect, Subscribe,
                PublishStartup, Publish, Idle, vars
  <2> QED
    BY <2>1, <2>2, <1>s
<1>8. CASE Pass \/ PostConfig \/ LinkChange \/ Reconnect \/ \E c \in Commands : Send(c)
  <2>1. UNCHANGED <<run_stop_flag, toldRun, handler>>
    BY <1>8 DEF Pass, PostConfig, LinkChange, Reconnect, Send
  <2>2. lost' = lost \/ lost' = (lost \/ link)
    BY <1>8 DEF Pass, PostConfig, LinkChange, Reconnect, Send
  <2>3. lost => lost'
    BY <2>2, Zenon
  <2> QED
    BY <2>1, <2>3, <1>s
<1>9. CASE UNCHANGED vars
    BY <1>9, <1>s DEF vars
<1> QED
    BY <1>1, <1>2, <1>3, <1>4, <1>5, <1>6, <1>7, <1>8, <1>9 DEF Next, sub_topic_handle1

\* Between two commands the server's last report of CMD_DOWN_STOP and
\* CMD_DOWN_RUN is what misc goes by, unless a report was lost or the board
\* has rebooted.
THEOREM RunStopIsKnown == Spec => []RunStopKnown
<1>1. Init => RunInv
    BY DEF Init, RunInv, Reporting
<1>2. RunInv => RunStopKnown
    BY DEF RunInv, RunStopKnown, Reporting
<1> QED
    BY <1>1, <1>2, RunStep, PTL DEF Spec

-----------------------------------------------------------------------------
(* The start-up.  The flag is set by the one attempt to connect, which is  *)
(* made after the wait for config_init; a session, and with it a command   *)
(* on its way, exists only under the flag.                                 *)

BeforeConnect == nb \in {"sem", "link", "blink", "lease", "connect"}
TaskSteps == {"sem", "link", "blink", "lease", "connect", "subscribe", "startup", "idle"}

\* A structure with a building id in it, as Subscribe needs it.
HasId(c) == DOMAIN c = {"building_id", "threshold"} /\ c["building_id"] \in Ids

\* Past its start-up nb_iot_task hears the commands, unless its one attempt was
\* refused or the session was lost on the way: no other order of the radio, the
\* broker and the task leaves the board deaf.
StartedUp ==
    nb \in {"startup", "idle"} =>
        refused \/ (mqtt_connect_sta /\ (topic # NoTopic \/ lost))

NetInv ==
    /\ nb \in TaskSteps
    /\ BeforeConnect => ~mqtt_connect_sta
    /\ session => mqtt_connect_sta
    /\ inbox # <<>> => mqtt_connect_sta
    /\ nb = "subscribe" => refused \/ (mqtt_connect_sta /\ (session \/ lost))
    /\ StartedUp

DataInv ==
    /\ inbox \in Seq(Commands)
    /\ HasId(config) /\ HasId(image)
    /\ run_stop_flag \in BOOLEAN /\ link \in BOOLEAN

\* A command of the server carries what sub_topic_handle1 reads of it.
LEMMA CommandMembers ==
    ASSUME NEW c \in Commands
    PROVE  /\ c.kind = "DOOR" => c.open \in DoorValues
           /\ c.kind \in {"ALL_SMOKE", "SET_SMOKE", "SETTING"} /\ "building_id" \in DOMAIN c.set
                => c.set["building_id"] \in Ids
<1>1. CASE \E k \in Kinds \cap {"ALL_SMOKE", "SET_SMOKE"},
              s \in {[m \in {} |-> 0]} \cup [{"threshold"} -> Thresholds] :
                 c = [kind |-> k, set |-> s]
    BY <1>1
<1>2. CASE \E s \in {[m \in {} |-> 0]} \cup [{"building_id"} -> Ids] :
              c = [kind |-> "SETTING", set |-> s]
    BY <1>2
<1>3. CASE \E v \in DoorValues : c = [kind |-> "DOOR", open |-> v]
    BY <1>3
<1>4. CASE \E k \in {"GET_SMOKE", "UPDATE", "RESET", "STATUS"}, b \in BOOLEAN :
              c = [kind |-> k, yes |-> b]
    BY <1>4
<1>5. CASE \E k \in {"STOP", "RUN", "unknown"} : c = [kind |-> k]
    BY <1>5
<1> QED
    BY <1>1, <1>2, <1>3, <1>4, <1>5 DEF Commands

\* An edit replaces members of the structure and adds none.
LEMMA EditKeepsId ==
    ASSUME HasId(config), NEW c \in Commands,
           c.kind \in {"ALL_SMOKE", "SET_SMOKE", "SETTING"}, Edits(c)
    PROVE  HasId(config')
<1>1. DOMAIN config' = DOMAIN config
    BY DEF Edits
<1>2. config'["building_id"] = IF "building_id" \in DOMAIN c.set
                                 THEN c.set["building_id"] ELSE config["building_id"]
    BY DEF Edits, HasId
<1> QED
    BY <1>1, <1>2, CommandMembers DEF HasId

LEMMA DataStep == DataInv /\ [Next]_vars => DataInv'
<1> SUFFICES ASSUME DataInv, [Next]_vars PROVE DataInv'
    OBVIOUS
<1> USE DEF task, net, store, callback, control, server, bounds
<1>s. ASSUME UNCHANGED <<inbox, config, image, run_stop_flag, link>> PROVE DataInv'
    BY <1>s DEF DataInv
<1>p. ASSUME PowerOn PROVE DataInv'
  <2>1. /\ inbox' = <<>> /\ config' = image /\ image' = image /\ run_stop_flag' = TRUE
        /\ link' = link
    BY <1>p DEF PowerOn
  <2> QED
    BY <2>1 DEF DataInv
<1>1. CASE Handle
  <2>1. inbox # <<>> /\ inbox \in Seq(Commands) /\ inbox' = Tail(inbox)
        /\ UNCHANGED <<image, link>>
    BY <1>1 DEF Handle, DataInv
  <2>2. PICK c \in Commands : c = Head(inbox)
    BY <2>1
  <2>3. UNCHANGED config \/ (c.kind \in {"ALL_SMOKE", "SET_SMOKE", "SETTING"} /\ Edits(c))
    BY <1>1, <2>2 DEF Handle
  <2>4. HasId(config')
    BY <2>3, EditKeepsId DEF DataInv
  <2>5. run_stop_flag' = FlagOf(c)
    BY <1>1, <2>2 DEF Handle
  <2>6. run_stop_flag' \in BOOLEAN
    BY <2>5 DEF FlagOf, DataInv
  <2>7. inbox' \in Seq(Commands)
    BY <2>1
  <2> QED
    BY <2>1, <2>4, <2>6, <2>7 DEF DataInv
<1>2. CASE Pass
  <2>1. UNCHANGED <<inbox, config, run_stop_flag, link>> /\ (image' = image \/ image' = config)
    BY <1>2 DEF Pass, Saved
  <2> QED
    BY <2>1 DEF DataInv
<1>3. CASE PowerLoss \/ ResetCpu
    BY <1>p, <1>3 DEF PowerLoss, ResetCpu
<1>4. CASE nb_iot_task
    BY <1>4, <1>s DEF nb_iot_task, WaitConfig, LinkUp, Lease, Connect, Subscribe,
                      PublishStartup, Idle, vars
<1>5. CASE GetSmoke \/ PublishStatus \/ PublishRunStop \/ StartOta
    BY <1>5, <1>s DEF GetSmoke, PublishStatus, PublishRunStop, StartOta
<1>6. CASE PostConfig \/ Reconnect
    BY <1>6, <1>s DEF PostConfig, Reconnect
<1>7. CASE LinkChange
    BY <1>7 DEF LinkChange, DataInv
<1>8. CASE \E c \in Commands : Send(c)
  <2>1. PICK c \in Commands : Send(c)
    BY <1>8
  <2>2. inbox' = Append(inbox, c) /\ UNCHANGED <<config, image, run_stop_flag, link>>
    BY <2>1 DEF Send
  <2> QED
    BY <2>2 DEF DataInv
<1>9. CASE UNCHANGED vars
    BY <1>9, <1>s DEF vars
<1> QED
    BY <1>1, <1>2, <1>3, <1>4, <1>5, <1>6, <1>7, <1>8, <1>9 DEF Next, sub_topic_handle1

\* The callback and misc leave the connection alone, and add no command.
LEMMA NetStep == DataInv /\ NetInv /\ [Next]_vars => NetInv'
<1> SUFFICES ASSUME DataInv, NetInv, [Next]_vars PROVE NetInv'
    OBVIOUS
<1> USE DEF task, net, store, callback, control, server, bounds
<1>s. ASSUME UNCHANGED <<nb, session, mqtt_connect_sta, topic, refused>>,
             lost => lost', inbox' # <<>> => inbox # <<>>
      PROVE  NetInv'
    BY <1>s DEF NetInv, BeforeConnect, StartedUp
<1>p. ASSUME PowerOn PROVE NetInv'
    BY <1>p DEF PowerOn, NetInv, BeforeConnect, StartedUp, TaskSteps
<1>1. CASE WaitConfig \/ LinkUp \/ Lease
  <2>1. /\ BeforeConnect /\ nb' \in {"link", "blink", "lease", "connect"}
        /\ UNCHANGED <<session, mqtt_connect_sta, inbox>>
    BY <1>1 DEF WaitConfig, LinkUp, Lease, Goto, BeforeConnect
  <2> QED
    BY <2>1 DEF NetInv, BeforeConnect, StartedUp, TaskSteps
<1>2. CASE Connect
  <2>1. PICK ok : session' = ok /\ mqtt_connect_sta' = ok /\ refused' = ~ok
    BY <1>2 DEF Connect, Connected
  <2>2. nb = "connect" /\ nb' = "subscribe" /\ UNCHANGED <<inbox, lost>>
    BY <1>2 DEF Connect, Goto
  <2>3. inbox = <<>>
    BY <2>2 DEF NetInv, BeforeConnect
  <2> QED
    BY <2>1, <2>2, <2>3 DEF NetInv, BeforeConnect, StartedUp, TaskSteps
<1>3. CASE Subscribe
  <2>1. /\ nb = "subscribe" /\ nb' = "startup"
        /\ topic' = (IF session THEN config.building_id ELSE topic)
        /\ UNCHANGED <<session, mqtt_connect_sta, refused, inbox, lost>>
    BY <1>3 DEF Subscribe, Goto
  <2>2. config.building_id # NoTopic
    BY IdsAssumption DEF DataInv, HasId
  <2>3. session => topic' # NoTopic
    BY <2>1, <2>2
  <2> QED
    BY <2>1, <2>3 DEF NetInv, BeforeConnect, StartedUp, TaskSteps
<1>4. CASE PublishStartup
  <2>1. /\ nb = "startup" /\ nb' = "idle"
        /\ UNCHANGED <<session, mqtt_connect_sta, topic, refused, inbox>>
    BY <1>4 DEF PublishStartup, Goto
  <2>2. lost' = lost \/ lost' = TRUE
    BY <1>4 DEF PublishStartup, Publish
  <2> QED
    BY <2>1, <2>2 DEF NetInv, BeforeConnect, StartedUp, TaskSteps
<1>5. CASE Handle
  <2>1. inbox # <<>> /\ UNCHANGED <<nb, session, mqtt_connect_sta, topic, refused, lost>>
    BY <1>5 DEF Handle
  <2> QED
    BY <2>1, <1>s
<1>6. CASE GetSmoke \/ StartOta \/ Pass \/ PostConfig \/ Idle \/ UNCHANGED vars
    BY <1>6, <1>s DEF GetSmoke, StartOta, Pass, PostConfig, Idle, vars
<1>7. CASE PublishStatus \/ PublishRunStop
  <2>1. UNCHANGED <<nb, session, mqtt_connect_sta, topic, refused, inbox>>
    BY <1>7 DEF PublishStatus, PublishRunStop
  <2>2. lost' = lost \/ lost' = TRUE
    BY <1>7 DEF PublishStatus, PublishRunStop, Publish
  <2> QED
    BY <2>1, <2>2, <1>s
<1>8. CASE PowerLoss \/ ResetCpu
    BY <1>p, <1>8 DEF PowerLoss, ResetCpu
<1>9. CASE LinkChange
  <2>1. /\ UNCHANGED <<nb, mqtt_connect_sta, topic, refused>>
        /\ session' = (session /\ ~link) /\ lost' = (lost \/ link)
        /\ inbox' = (IF link THEN <<>> ELSE inbox)
    BY <1>9 DEF LinkChange
  <2>2. (session' => session) /\ (lost => lost') /\ (session => session' \/ lost')
    BY <2>1, Zenon
  <2>3. inbox' # <<>> => inbox # <<>>
    BY <2>1
  <2> QED
    BY <2>1, <2>2, <2>3 DEF NetInv, BeforeConnect, StartedUp
<1>10. CASE Reconnect
  <2>1. /\ mqtt_connect_sta /\ session' = TRUE
        /\ UNCHANGED <<nb, mqtt_connect_sta, topic, refused, inbox, lost>>
    BY <1>10 DEF Reconnect
  <2> QED
    BY <2>1 DEF NetInv, BeforeConnect, StartedUp
<1>11. CASE \E c \in Commands : Send(c)
  <2>1. session /\ UNCHANGED <<nb, session, mqtt_connect_sta, topic, refused, lost>>
    BY <1>11 DEF Send
  <2> QED
    BY <2>1 DEF NetInv, BeforeConnect, StartedUp
<1> QED
    BY <1>1, <1>2, <1>3, <1>4, <1>5, <1>6, <1>7, <1>8, <1>9, <1>10, <1>11
    DEF Next, nb_iot_task, sub_topic_handle1

LEMMA NetInit == Init => DataInv /\ NetInv
<1>1. HasId(Delivered)
    BY DeliveredAssumption DEF Configs, HasId
<1>2. ASSUME Init PROVE DataInv
  <2>1. /\ config = Delivered /\ image = Delivered /\ inbox = <<>>
        /\ run_stop_flag = TRUE /\ link = FALSE
    BY <1>2 DEF Init
  <2>2. inbox \in Seq(Commands)
    BY <2>1
  <2>3. HasId(config) /\ HasId(image)
    BY <1>1, <2>1
  <2>4. run_stop_flag \in BOOLEAN /\ link \in BOOLEAN
    BY <2>1
  <2> QED
    BY <2>2, <2>3, <2>4 DEF DataInv
<1>3. ASSUME Init PROVE NetInv
    BY <1>3 DEF Init, NetInv, BeforeConnect, StartedUp, TaskSteps
<1> QED
    BY <1>2, <1>3

\* nb_iot_task cannot end its start-up deaf to the server's commands without a
\* refused connection or a lost session, whatever the order in which the
\* configuration, the radio and the broker become ready: the safety half of
\* Connects.
THEOREM StartsUpHearing == Spec => []StartedUp
<1>1. NetInv => StartedUp
    BY DEF NetInv
<1> QED
    BY <1>1, NetInit, DataStep, NetStep, PTL DEF Spec

-----------------------------------------------------------------------------
(* What Misc and Config assume.                                            *)

LEMMA AssumedStep ==
    ASSUME DataInv, NetInv, [Next]_vars
    PROVE  (CallbackStep /\ EditStep) \/ PowerOn
<1> USE DEF task, net, store, callback, control, server, bounds
<1>s. ASSUME UNCHANGED <<mqtt_connect_sta, remote_open, run_stop_flag, config>>
      PROVE  CallbackStep /\ EditStep
    BY <1>s DEF CallbackStep, EditStep
<1>1. CASE Connect
  <2>1. PICK ok \in BOOLEAN : mqtt_connect_sta' = ok
    BY <1>1 DEF Connect, Connected, DataInv
  <2>2. /\ mqtt_connect_sta = FALSE
        /\ UNCHANGED <<remote_open, run_stop_flag, config>>
    BY <1>1 DEF Connect, Goto, NetInv, BeforeConnect
  <2> QED
    BY <2>1, <2>2 DEF CallbackStep, EditStep
<1>2. CASE Handle
  <2>1. inbox # <<>> /\ inbox \in Seq(Commands) /\ mqtt_connect_sta /\ nb # "sem"
    BY <1>2 DEF Handle, DataInv, NetInv, BeforeConnect
  <2>2. PICK c \in Commands : c = Head(inbox)
    BY <2>1
  <2>3. /\ remote_open' = (IF c.kind = "DOOR" THEN DoorByte(c.open) ELSE remote_open)
        /\ run_stop_flag' = FlagOf(c) /\ UNCHANGED mqtt_connect_sta
    BY <1>2, <2>2 DEF Handle
  <2>4. CASE c.kind = "DOOR"
    <3>1. c.open \in DoorValues /\ remote_open' = c.open % 256
      BY <2>3, <2>4, CommandMembers DEF DoorByte
    <3>2. UNCHANGED run_stop_flag
      BY <2>3, <2>4 DEF FlagOf
    <3> QED
      BY <2>1, <2>3, <3>1, <3>2 DEF CallbackStep, EditStep
  <2>5. CASE c.kind # "DOOR"
    <3>1. run_stop_flag' \in BOOLEAN
      BY <2>3 DEF FlagOf, DataInv
    <3> QED
      BY <2>1, <2>3, <2>5, <3>1 DEF CallbackStep, EditStep
  <2> QED
    BY <2>4, <2>5
<1>3. CASE PowerLoss \/ ResetCpu
    BY <1>3 DEF PowerLoss, ResetCpu
<1>4. CASE WaitConfig \/ LinkUp \/ Lease \/ Subscribe \/ PublishStartup \/ Idle
    BY <1>4, <1>s DEF WaitConfig, LinkUp, Lease, Subscribe, PublishStartup, Idle, vars
<1>5. CASE GetSmoke \/ PublishStatus \/ PublishRunStop \/ StartOta
    BY <1>5, <1>s DEF GetSmoke, PublishStatus, PublishRunStop, StartOta
<1>6. CASE Pass \/ PostConfig \/ LinkChange \/ Reconnect \/ \E c \in Commands : Send(c)
    BY <1>6, <1>s DEF Pass, PostConfig, LinkChange, Reconnect, Send
<1>7. CASE UNCHANGED vars
    BY <1>7, <1>s DEF vars
<1> QED
    BY <1>1, <1>2, <1>3, <1>4, <1>5, <1>6, <1>7 DEF Next, nb_iot_task, sub_topic_handle1

\* The mqtt callback of this module is the one Misc composes its control thread
\* with, and edits the configuration only when Config lets it, for all commands
\* in every order and all losses: what is proved there of an over-approximated
\* callback holds of this one.
THEOREM CallbackIsAssumed == Spec => CallbackAsAssumed
<1>1. DataInv /\ NetInv /\ [Next]_vars => [(CallbackStep /\ EditStep) \/ PowerOn]_vars
    BY AssumedStep
<1> QED
    BY <1>1, NetInit, DataStep, NetStep, PTL DEF Spec, CallbackAsAssumed
=============================================================================

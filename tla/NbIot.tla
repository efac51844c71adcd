------------------------------- MODULE NbIot -------------------------------
(***************************************************************************)
(* The board's end of the MQTT link (nb-iot.c):                            *)
(*   - nb_iot_task waits for the configuration and for the radio, connects *)
(*     once, subscribes, reports the start-up, and idles;                  *)
(*   - sub_topic_handle1, called by the client's thread, executes one      *)
(*     command of the server after the other, sleeping in some;            *)
(*   - misc (here only Pass) saves the configuration the commands have     *)
(*     edited, but not while the server has stopped it;                    *)
(*   - the broker may refuse or drop the connection, a clean session loses *)
(*     what was under way, and the client reconnects by itself (external). *)
(* What misc does with remote_open and run_stop_flag is in Misc, what      *)
(* ota_init starts is in Ota, and how a save reaches the flash in Config.  *)
(***************************************************************************)
EXTENDS Integers, Sequences

CONSTANTS
    Ids,             \* building ids
    Thresholds,      \* settings of the detectors
    Delivered,       \* the configuration the board is delivered with
    Detectors,       \* how many detectors CMD_DOWN_GET_SMOKE goes through
    DoorValues,      \* what a CMD_DOWN_DOOR may carry
    SavePasses,      \* passes of misc from one save to the next
    Kinds,           \* the commands the server sends in this instance
    Faults,          \* what may go wrong in this instance
    MaxSent, MaxDrops, MaxReboots   \* bounds on the environment

Configs == [building_id : Ids, threshold : Thresholds]
ASSUME DeliveredAssumption == Delivered \in Configs
ASSUME BoundsAssumption ==
    /\ {SavePasses, Detectors} \subseteq Nat \ {0}
    /\ {MaxSent, MaxDrops, MaxReboots} \subseteq Nat
    /\ DoorValues \subseteq Int

NoTopic == "none"
ASSUME IdsAssumption == NoTopic \notin Ids

\* A command and its members; those the JSON lacks are not in the domain of
\* `set', and "yes" is the member that has to be 1.
Commands ==
    {[kind |-> k, set |-> s] : k \in Kinds \cap {"ALL_SMOKE", "SET_SMOKE"},
                               s \in {[m \in {} |-> 0]} \cup [{"threshold"} -> Thresholds]}
    \cup {[kind |-> "SETTING", set |-> s] :
             s \in IF "SETTING" \in Kinds
                     THEN {[m \in {} |-> 0]} \cup [{"building_id"} -> Ids] ELSE {}}
    \cup {[kind |-> "DOOR", open |-> v] : v \in IF "DOOR" \in Kinds THEN DoorValues ELSE {}}
    \cup {[kind |-> k, yes |-> b] :
             k \in Kinds \cap {"GET_SMOKE", "UPDATE", "RESET", "STATUS"}, b \in BOOLEAN}
    \cup {[kind |-> k] : k \in Kinds \cap {"STOP", "RUN", "unknown"}}

VARIABLES
    nb,                \* the step nb_iot_task is at
    config_sem,        \* config_init has posted it
    link,              \* netdev_is_link_up
    session,           \* the broker holds a session of the client
    mqtt_connect_sta,
    topic,             \* the building id in the topic subscribed to
    config, image,     \* the configuration in RAM and in the flash
    save_time,         \* misc_task's count since its last save
    age,               \* passes misc made since the last edit, up to SavePasses
    inbox,             \* commands on their way, in order
    handler,           \* what sub_topic_handle1 is at
    left,              \* detectors CMD_DOWN_GET_SMOKE still has to read
    remote_open, run_stop_flag,
    ota,               \* ota_init has been called
    told,              \* the last answer or start-up report the server received
    toldRun,           \* the last report of run_stop_flag it received
    refused,           \* history: the one connection attempt failed
    lost,              \* history: a report or a session was lost, or a reboot
    sent, drops, reboots

task == <<nb, config_sem>>
net == <<link, session, mqtt_connect_sta, topic, refused>>
store == <<config, image, save_time, age>>
callback == <<inbox, handler, left>>
control == <<remote_open, run_stop_flag, ota>>
server == <<told, toldRun, lost>>
bounds == <<sent, drops, reboots>>
vars == <<task, net, store, callback, control, server, bounds>>


-----------------------------------------------------------------------------
\* RAM and the network after power-on; config_init reads the image.
PowerOn ==
    /\ nb' = "sem" /\ config_sem' = FALSE
    /\ session' = FALSE /\ mqtt_connect_sta' = FALSE /\ topic' = NoTopic
    /\ refused' = FALSE
    /\ config' = image /\ save_time' = 0 /\ age' = SavePasses
    /\ inbox' = <<>> /\ handler' = "idle" /\ left' = 0
    /\ remote_open' = 0 /\ run_stop_flag' = TRUE /\ ota' = FALSE
    /\ lost' = TRUE
    /\ UNCHANGED <<link, image, told, toldRun>>

Init ==
    /\ nb = "sem" /\ config_sem = FALSE
    /\ link = FALSE /\ session = FALSE /\ mqtt_connect_sta = FALSE /\ topic = NoTopic
    /\ refused = FALSE
    /\ config = Delivered /\ image = Delivered /\ save_time = 0 /\ age = SavePasses
    /\ inbox = <<>> /\ handler = "idle" /\ left = 0
    /\ remote_open = 0 /\ run_stop_flag = TRUE /\ ota = FALSE
    /\ told = "none" /\ toldRun = TRUE /\ lost = FALSE
    /\ sent = 0 /\ drops = 0 /\ reboots = 0

-----------------------------------------------------------------------------
(* nb_iot_task.                                                            *)

Goto(from, to) == nb = from /\ nb' = to

\* config_wait_config_sem
WaitConfig ==
    /\ Goto("sem", "link") /\ config_sem
    /\ config_sem' = FALSE
    /\ UNCHANGED <<net, store, callback, control, server, bounds>>

LinkReadyInverted == ~link   \* mutant: the loop's condition negated
LinkReady == link

\* The green LED blinks until the radio has a link, then ten times more.
LinkUp ==
    /\ Goto("link", "blink") /\ LinkReady
    /\ UNCHANGED <<config_sem, net, store, callback, control, server, bounds>>

Lease ==
    /\ \/ Goto("blink", "lease") \/ Goto("lease", "connect")
    /\ UNCHANGED <<config_sem, net, store, callback, control, server, bounds>>

ConnectedUnset(ok) == FALSE  \* mutant: the flag not set after a success
Connected(ok) == ok

\* mqtt_connect is tried once and its result kept for ever.
Connect ==
    /\ Goto("connect", "subscribe")
    /\ \E ok \in IF "refuse" \in Faults \/ ~link THEN {FALSE, link} ELSE {TRUE} :
          /\ session' = ok
          /\ mqtt_connect_sta' = Connected(ok)
          /\ refused' = ~ok
    /\ UNCHANGED <<config_sem, link, topic, store, callback, control, server, bounds>>

\* The topic is put together from the id of this moment.
Subscribe ==
    /\ Goto("subscribe", "startup")
    /\ topic' = IF session THEN config.building_id ELSE topic
    /\ UNCHANGED <<config_sem, link, session, mqtt_connect_sta, refused, store, callback,
                   control, server, bounds>>

\* nb_iot_publish_*: an error without the flag, otherwise mqtt_publish.
Publish(answer) ==
    IF mqtt_connect_sta /\ session
      THEN told' = answer /\ UNCHANGED lost
      ELSE lost' = TRUE /\ UNCHANGED told

PublishStartup ==
    /\ Goto("startup", "idle")
    /\ IF mqtt_connect_sta THEN Publish("startup") ELSE UNCHANGED <<told, lost>>
    /\ UNCHANGED <<config_sem, net, store, callback, control, toldRun, bounds>>

\* The loop at the end looks at the clock and does nothing with it: the daily
\* reset and the reset after failed connections are commented out.
Idle == nb = "idle" /\ UNCHANGED vars

nb_iot_task ==
    WaitConfig \/ LinkUp \/ Lease \/ Connect \/ Subscribe \/ PublishStartup \/ Idle

-----------------------------------------------------------------------------
(* sub_topic_handle1.                                                      *)

Edits(c) == config' = [m \in DOMAIN config |->
                         IF m \in DOMAIN c.set THEN c.set[m] ELSE config[m]]

\* What a command goes on with; some need a member to be 1.
GoesOn(c) ==
    CASE c.kind \in {"STOP", "RUN"} -> c.kind
      [] c.kind \in {"GET_SMOKE", "UPDATE", "RESET", "STATUS"} ->
            IF c.yes THEN c.kind ELSE "idle"
      [] OTHER -> "idle"

DoorByte(v) == v % 256

FlagOf(c) == IF c.kind \in {"STOP", "RUN"} THEN c.kind = "RUN" ELSE run_stop_flag

\* The next command is taken up: what it assigns, and what it goes on with.
Handle ==
    /\ handler = "idle" /\ inbox # <<>>
    /\ LET c == Head(inbox)
       IN  /\ IF c.kind \in {"ALL_SMOKE", "SET_SMOKE", "SETTING"}
                THEN Edits(c) /\ age' = IF config' = config THEN age ELSE 0
                ELSE UNCHANGED <<config, age>>
           /\ remote_open' = IF c.kind = "DOOR" THEN DoorByte(c.open) ELSE remote_open
           /\ run_stop_flag' = FlagOf(c)
           /\ handler' = GoesOn(c)
           /\ left' = IF handler' = "GET_SMOKE" THEN Detectors ELSE 0
    /\ inbox' = Tail(inbox)
    /\ UNCHANGED <<task, net, image, save_time, ota, server, bounds>>

LeftStuck == left              \* mutant: the counter of the loop not advanced
Left == left - 1

\* CMD_DOWN_GET_SMOKE reads one detector after the other, 250 ms each; the
\* report of what it has read is commented out.
GetSmoke ==
    /\ handler = "GET_SMOKE"
    /\ left' = Left
    /\ handler' = IF left' = 0 THEN "idle" ELSE handler
    /\ UNCHANGED <<task, net, store, inbox, control, server, bounds>>

StatusOf == [k \in {"STATUS", "UPDATE", "RESET"} |->
               CASE k = "STATUS" -> "OK" [] k = "UPDATE" -> "OTA" [] k = "RESET" -> "RST"]

PublishStatus ==
    /\ handler \in DOMAIN StatusOf
    /\ Publish(StatusOf[handler])
    /\ handler' = CASE handler = "STATUS" -> "idle"
                    [] handler = "UPDATE" -> "update_wait"
                    [] handler = "RESET" -> "reset_wait"
    /\ UNCHANGED <<task, net, store, inbox, left, control, toldRun, bounds>>

RunStopBackwards == run_stop_flag /\ handler = "STOP"   \* mutant: the wrong constant
RunStopValue == handler = "RUN"

PublishRunStop ==
    /\ handler \in {"STOP", "RUN"}
    /\ IF mqtt_connect_sta /\ session
         THEN /\ toldRun' = RunStopValue
              /\ told' = (IF handler = "RUN" THEN "run" ELSE "stop")
              /\ UNCHANGED lost
         ELSE lost' = TRUE /\ UNCHANGED <<told, toldRun>>
    /\ handler' = "idle"
    /\ UNCHANGED <<task, net, store, inbox, left, control, bounds>>

StartOta ==
    /\ handler = "update_wait"
    /\ ota' = TRUE /\ handler' = "idle"
    /\ UNCHANGED <<task, net, store, inbox, left, remote_open, run_stop_flag, server, bounds>>

\* rt_hw_cpu_reset
ResetCpu == handler = "reset_wait" /\ PowerOn /\ UNCHANGED bounds

sub_topic_handle1 ==
    Handle \/ GetSmoke \/ PublishStatus \/ PublishRunStop \/ StartOta \/ ResetCpu

-----------------------------------------------------------------------------
(* misc, the broker and the supply.                                        *)

SavedShort == [image EXCEPT !.threshold = config.threshold]   \* mutant: a write too short
Saved == config

\* A pass of misc_task; a stopped one only sleeps, and saves nothing.
Pass ==
    /\ run_stop_flag
    /\ save_time' = (save_time + 1) % SavePasses
    /\ image' = IF save_time' = 0 THEN Saved ELSE image
    /\ age' = IF age < SavePasses THEN age + 1 ELSE age
    /\ UNCHANGED <<task, net, config, callback, control, server, bounds>>

\* config_init ends.
PostConfig ==
    /\ nb = "sem" /\ ~config_sem /\ config_sem' = TRUE
    /\ UNCHANGED <<nb, net, store, callback, control, server, bounds>>

\* The radio finds its network, or loses it, and the session with it.
LinkChange ==
    /\ IF link THEN "drop" \in Faults /\ drops < MaxDrops /\ drops' = drops + 1
               ELSE UNCHANGED drops
    /\ link' = ~link
    /\ session' = (session /\ ~link)
    /\ inbox' = IF link THEN <<>> ELSE inbox
    /\ lost' = (lost \/ link)
    /\ UNCHANGED <<task, mqtt_connect_sta, topic, refused, store, handler, left, control,
                   told, toldRun, sent, reboots>>

\* The client's own thread, started by a first success, connects again and
\* subscribes again.
Reconnect ==
    /\ mqtt_connect_sta /\ link /\ ~session
    /\ session' = TRUE
    /\ UNCHANGED <<task, link, mqtt_connect_sta, topic, refused, store, callback, control,
                   server, bounds>>

\* The server addresses the board under the id it listens to.
Send(c) ==
    /\ sent < MaxSent /\ sent' = sent + 1
    /\ session /\ topic # NoTopic
    /\ inbox' = Append(inbox, c)
    /\ UNCHANGED <<task, net, store, handler, left, control, server, drops, reboots>>

PowerLoss ==
    /\ reboots < MaxReboots /\ reboots' = reboots + 1
    /\ PowerOn
    /\ UNCHANGED <<sent, drops>>

Next ==
    \/ nb_iot_task
    \/ sub_topic_handle1
    \/ Pass \/ PostConfig \/ LinkChange \/ Reconnect
    \/ \E c \in Commands : Send(c)
    \/ PowerLoss

Spec == Init /\ [][Next]_vars

\* Both threads and misc get the processor; config_init ends, the radio comes
\* back and the client reconnects.
FairSpec ==
    /\ Spec
    /\ WF_vars(nb_iot_task) /\ WF_vars(sub_topic_handle1) /\ WF_vars(Pass)
    /\ WF_vars(PostConfig) /\ WF_vars(~link /\ LinkChange) /\ WF_vars(Reconnect)

-----------------------------------------------------------------------------
(* Properties.                                                             *)

\* What the server has set is in the flash after a full period of misc's
\* passes, and survives a CMD_DOWN_RESET or a loss of supply from then on.
\* Only passes of a running misc count: after CMD_DOWN_STOP nothing is saved,
\* however long ago it was set.
SettingKept == age = SavePasses => image = config

\* Between two commands the server knows whether the board is stopped, unless
\* a report was lost or the board rebooted: a stop does not outlive a reboot
\* and the start-up report does not mention it.
RunStopKnown == handler = "idle" /\ ~lost => toldRun = run_stop_flag

\* Misc and Config take these things of the callback for granted, and each rests
\* on the order of nb_iot_task's start-up: commands are executed only on a
\* connection made since the last boot, which the flag then never gives up;
\* remote_open takes the byte of a door command and run_stop_flag a stop or a
\* run, one at a time; and the configuration is edited only after nb_iot_task
\* has waited for config_init.
CallbackStep ==
    \/ UNCHANGED <<mqtt_connect_sta, remote_open, run_stop_flag>>
    \/ ~mqtt_connect_sta /\ mqtt_connect_sta' = TRUE
       /\ UNCHANGED <<remote_open, run_stop_flag>>
    \/ mqtt_connect_sta /\ (\E v \in DoorValues : remote_open' = v % 256)
       /\ UNCHANGED <<mqtt_connect_sta, run_stop_flag>>
    \/ mqtt_connect_sta /\ run_stop_flag' \in BOOLEAN
       /\ UNCHANGED <<mqtt_connect_sta, remote_open>>
EditStep == config' # config => mqtt_connect_sta /\ nb # "sem"
CallbackAsAssumed == [][(CallbackStep /\ EditStep) \/ PowerOn]_vars

Pending(k) == \E i \in DOMAIN inbox : inbox[i].kind = k /\ inbox[i].yes

\* The commands that promise a report get it in their turn, behind a
\* CMD_DOWN_GET_SMOKE that sleeps in the callback too, unless the session or
\* the board goes down first.
Answered ==
    \A k \in DOMAIN StatusOf : Pending(k) ~> (told = StatusOf[k] \/ lost)

\* nb_iot_task gets through to a connection and hears the commands on it,
\* however late the configuration and the radio are, unless its one attempt
\* fails, or the session is lost before it has subscribed: the result of
\* mqtt_subscribe is not looked at.
Connects == <>[](refused \/ (mqtt_connect_sta /\ (topic # NoTopic \/ lost)))
=============================================================================

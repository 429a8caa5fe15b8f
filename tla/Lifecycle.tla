------------------------------ MODULE Lifecycle ------------------------------
(***************************************************************************)
(* How the tasks of MISO are started, stopped and restarted as the WiFi    *)
(* connection comes and goes: the WiFi task and its event handlers         *)
(* (csrc/src/wifi_service.c), the state machine of the user task           *)
(* (src/user.zig) and the two applications it resumes and stops, the MQTT  *)
(* task and the LwM2M task (src/lwm2m.zig, lightclient/miso_lightclient.c).*)
(*                                                                         *)
(* They talk through task notifications: a set of bits that coalesce and a *)
(* mark that one has arrived.  A waiting task takes all bits but removes   *)
(* only those its xTaskNotifyWait names; the others stay, without the mark.*)
(*                                                                         *)
(* The user task has a lower priority than the others, so what they do     *)
(* without blocking is one step to it.  The event handlers run inside the  *)
(* SimpleLink driver, which handles one message at a time.  The radio, the *)
(* access point and the NTP server are external.  Left out: printing, the  *)
(* LEDs, the firmware download between the NTP answer and the start of the *)
(* application, and failed allocations.                                    *)
(***************************************************************************)
EXTENDS Naturals

CONSTANTS
    Apps,      \* applications that may be built in: "mqtt", "lwm2m"
    MaxFaults  \* bound: lost connections, failed attempts and commands, other
               \* events of the radio, failures of the LwM2M client

ASSUME LifecycleAssumption == Apps \subseteq {"mqtt", "lwm2m"} /\ MaxFaults \in Nat

VARIABLES
    app,         \* the application of this build
    \* the WiFi task
    wifi,        \* "suspended", "restart", "starting" or in its "loop"
    value,       \* ulNotifiedValue: what it still has to handle
    wifiBits,    \* its notification
    connection,  \* wifi_status.connection
    \* the CC3100 and the event handler
    radio,       \* "off", "idle", "trying", "associated" or "ip"
    handling,    \* a WLAN event is stored in wifi_status, not yet notified
    \* the user task
    user,        \* self.state and where it waits
    userBits,    \* its notification
    pending,     \* ... has arrived and was not taken
    ticking,     \* the timers that run: "timer" and "ntp"
    \* what the others start and stop
    mediatorSuspended, mqttRuns, lwm2m,
    suspendBit,  \* lwm2m_notify_suspend
    \* history and bounds
    earlyOff,    \* connectivity was lost before the user task ever had it
    faults

wifiVars  == <<wifi, value, wifiBits, connection>>
radioVars == <<radio, handling>>
userVars  == <<user, userBits, pending, ticking>>
appVars   == <<mqttRuns, lwm2m, suspendBit>>
vars == <<app, wifiVars, radioVars, userVars, mediatorSuspended, appVars,
          earlyOff, faults>>

Status   == {"disconnected", "connecting", "connected"}
WifiBits == Status \cup {"acquired", "released"}
UserBits == {"on", "off", "suspended", "ntp", "timer"}

TypeOK ==
    /\ app \in Apps
    /\ wifi \in {"suspended", "restart", "starting", "loop"}
    /\ value \subseteq {"disconnected", "connecting", "acquired"}
    /\ wifiBits \subseteq WifiBits /\ connection \in Status
    /\ radio \in {"off", "idle", "trying", "associated", "ip"}
    /\ handling \in BOOLEAN
    /\ user \in {"start_connectivity", "wait_on", "start_ntp_time", "start_app",
                 "working", "stop_connectivity", "wait_suspended"}
    /\ userBits \subseteq UserBits /\ pending \in BOOLEAN
    /\ ticking \subseteq {"ntp", "timer"}
    /\ mediatorSuspended \in BOOLEAN /\ mqttRuns \in BOOLEAN
    /\ lwm2m \in {"created", "running", "failed", "suspended", "resumed", "unreachable"}
    /\ suspendBit \in BOOLEAN /\ earlyOff \in BOOLEAN
    /\ faults \in 0..MaxFaults

Init ==
    /\ app \in Apps
    /\ wifi = "suspended" /\ value = {} /\ wifiBits = {} /\ connection = "disconnected"
    /\ radio = "off" /\ handling = FALSE
    /\ user = "start_connectivity" /\ userBits = {} /\ pending = FALSE /\ ticking = {}
    /\ mediatorSuspended = FALSE /\ mqttRuns = FALSE
    /\ lwm2m = "created" /\ suspendBit = FALSE
    /\ earlyOff = FALSE /\ faults = 0

\* miso_notify_event: xTaskNotify of the user task with eSetBits.
NotifyUser(event) ==
    /\ userBits' = userBits \cup {event}
    /\ pending' = TRUE
    /\ earlyOff' = (earlyOff \/ (event = "off" /\ user = "wait_on"))

Fault == faults < MaxFaults /\ faults' = faults + 1

-----------------------------------------------------------------------------
(* The WiFi task *)

\* restart: starts the CC3100 as a station and configures it.
WifiStarts ==
    /\ wifi = "restart" /\ wifi' = "starting"
    /\ value' = {} /\ connection' = "disconnected"
    /\ radio' = "idle"
    /\ UNCHANGED <<app, wifiBits, handling, userVars, mediatorSuspended, appVars,
                   earlyOff, faults>>

\* The task asks itself for the first connection and enters its loop.
WifiStarted ==
    /\ wifi = "starting" /\ wifi' = "loop"
    /\ connection' = "connecting"
    /\ wifiBits' = wifiBits \cup {"connecting"}
    /\ UNCHANGED <<app, value, radioVars, userVars, mediatorSuspended, appVars,
                   earlyOff, faults>>

\* Mutant of WifiTakes: keeps bits that no branch of the loop handles.
WifiTakes_All ==
    /\ wifi = "loop" /\ value = {} /\ wifiBits # {}
    /\ value' = wifiBits /\ wifiBits' = {}
    /\ UNCHANGED <<app, wifi, connection, radioVars, userVars, mediatorSuspended,
                   appVars, earlyOff, faults>>

\* Takes its notification.  The other bits are only printed; so is the
\* time-out, whose reconnection logic is empty.
WifiTakes ==
    /\ wifi = "loop" /\ value = {} /\ wifiBits # {}
    /\ value' = wifiBits \cap {"disconnected", "connecting", "acquired"}
    /\ wifiBits' = {}
    /\ UNCHANGED <<app, wifi, connection, radioVars, userVars, mediatorSuspended,
                   appVars, earlyOff, faults>>

\* Mutant of WifiLost: the apps are not told.
WifiLost_Silent ==
    /\ wifi = "loop" /\ "disconnected" \in value
    /\ value' = value \ {"disconnected"}
    /\ mediatorSuspended' = TRUE
    /\ connection' = "connecting"
    /\ wifiBits' = wifiBits \cup {"connecting"}
    /\ UNCHANGED <<app, wifi, radioVars, userVars, earlyOff, appVars, faults>>

\* Mutant of WifiLost: the next connection is not asked for.
WifiLost_GivesUp ==
    /\ wifi = "loop" /\ "disconnected" \in value
    /\ value' = value \ {"disconnected"}
    /\ NotifyUser("off")
    /\ mediatorSuspended' = TRUE
    /\ connection' = "connecting"
    /\ UNCHANGED <<app, wifi, wifiBits, radioVars, user, ticking, appVars, faults>>

\* The connection is lost: tells the user task, stops the mediator and asks
\* itself for a new connection.
WifiLost ==
    /\ wifi = "loop" /\ "disconnected" \in value
    /\ value' = value \ {"disconnected"}
    /\ NotifyUser("off")
    /\ mediatorSuspended' = TRUE
    /\ connection' = "connecting"
    /\ wifiBits' = wifiBits \cup {"connecting"}
    /\ UNCHANGED <<app, wifi, radioVars, user, ticking, appVars, faults>>

\* sl_WlanConnect is accepted.
WifiConnects ==
    /\ wifi = "loop" /\ "connecting" \in value /\ "disconnected" \notin value
    /\ value' = value \ {"connecting"}
    /\ \/ /\ radio' = IF radio = "idle" THEN "trying" ELSE radio
          /\ UNCHANGED <<connection, handling, faults>>
       \* a radio that is connected leaves its access point first
       \/ /\ radio \in {"associated", "ip"} /\ ~handling /\ Fault
          /\ radio' = "trying" /\ connection' = "disconnected" /\ handling' = TRUE
    /\ UNCHANGED <<app, wifi, wifiBits, userVars, mediatorSuspended, appVars, earlyOff>>

\* sl_WlanConnect fails: sl_Stop and start over, the rest of the value is lost.
WifiConnectFails ==
    /\ wifi = "loop" /\ "connecting" \in value /\ "disconnected" \notin value
    /\ Fault
    /\ wifi' = "restart" /\ value' = {} /\ radio' = "off"
    /\ UNCHANGED <<app, wifiBits, connection, handling, userVars, mediatorSuspended,
                   appVars, earlyOff>>

\* Mutant of WifiAcquired: the mediator is not resumed.
WifiAcquired_NoResume ==
    /\ wifi = "loop" /\ value = {"acquired"}
    /\ value' = {}
    /\ NotifyUser("on")
    /\ UNCHANGED <<app, wifi, wifiBits, connection, radioVars, user, ticking,
                   mediatorSuspended, appVars, faults>>

\* An address is acquired: resumes the mediator and tells the user task.
WifiAcquired ==
    /\ wifi = "loop" /\ value = {"acquired"}
    /\ value' = {}
    /\ mediatorSuspended' = FALSE
    /\ NotifyUser("on")
    /\ UNCHANGED <<app, wifi, wifiBits, connection, radioVars, user, ticking, appVars,
                   faults>>

-----------------------------------------------------------------------------
(* The radio and the event handlers *)

\* CC3100_WlanEvtHdlr stores the new status; HandlerNotifies passes on the
\* status it finds then.
WlanEvent(from, to, status) ==
    /\ radio \in from /\ ~handling
    /\ radio' = to /\ connection' = status /\ handling' = TRUE
    /\ UNCHANGED <<app, wifi, value, wifiBits, userVars, mediatorSuspended, appVars,
                   earlyOff>>

\* By the command or by the radio's own policy.
Associate == WlanEvent({"idle", "trying"}, "associated", "connected") /\ UNCHANGED faults

AttemptFails == Fault /\ WlanEvent({"trying"}, "idle", "disconnected")

LinkLost == Fault /\ WlanEvent({"associated", "ip"}, "idle", "disconnected")

\* Smart config and the like: the handler passes on the status again.
OtherEvent == Fault /\ radio # "off" /\ WlanEvent({radio}, radio, connection)

HandlerNotifies ==
    /\ handling /\ handling' = FALSE
    /\ wifiBits' = wifiBits \cup {connection}
    /\ UNCHANGED <<app, wifi, value, connection, radio, userVars, mediatorSuspended,
                   appVars, earlyOff, faults>>

\* CC3100_NetAppEvtHdlr: nobody else writes wifi_status.ip, so the status it
\* stores is the status it passes on.
NetAppEvent(from, to, status) ==
    /\ radio = from /\ ~handling
    /\ radio' = to
    /\ wifiBits' = wifiBits \cup {status}
    /\ UNCHANGED <<app, wifi, value, connection, handling, userVars, mediatorSuspended,
                   appVars, earlyOff>>

AddressAcquired == NetAppEvent("associated", "ip", "acquired") /\ UNCHANGED faults

AddressReleased == Fault /\ NetAppEvent("ip", "associated", "released")

-----------------------------------------------------------------------------
(* The user task *)

\* waitForNotify(0, clear): removes only the bits to clear.
TakeUser(clear) ==
    /\ pending /\ pending' = FALSE
    /\ userBits' = userBits \ clear

UserStarts ==
    /\ user = "start_connectivity" /\ user' = "wait_on"
    /\ wifi' = "restart"
    /\ UNCHANGED <<app, value, wifiBits, connection, radioVars, userBits, pending, ticking,
                   mediatorSuspended, appVars, earlyOff, faults>>

\* Other notifications wake it up too; their bits stay.
UserWaitsOn ==
    /\ user = "wait_on"
    /\ TakeUser({"on"})
    /\ user' = IF "on" \in userBits THEN "start_ntp_time" ELSE user
    /\ UNCHANGED <<app, wifiVars, radioVars, ticking, mediatorSuspended, appVars,
                   earlyOff, faults>>

\* The server answers.
UserGetsTime ==
    /\ user = "start_ntp_time" /\ radio = "ip" /\ ~mediatorSuspended
    /\ user' = "start_app"
    /\ ticking' = ticking \cup {"ntp"}
    /\ UNCHANGED <<app, wifiVars, radioVars, userBits, pending, mediatorSuspended, appVars,
                   earlyOff, faults>>

\* Without a link or a mediator the call fails: again, after 16 s.
UserGetsNoTime ==
    /\ user = "start_ntp_time" /\ (radio # "ip" \/ mediatorSuspended)
    /\ UNCHANGED vars

\* start_mqtt or start_lwm2m; resuming a task that is not suspended does nothing.
UserStartsApp ==
    /\ user = "start_app" /\ user' = "working"
    /\ ticking' = ticking \cup {"timer"}
    /\ mqttRuns' = (mqttRuns \/ app = "mqtt")
    /\ lwm2m' = CASE app = "lwm2m" /\ lwm2m = "created"   -> "running"
                  [] app = "lwm2m" /\ lwm2m = "suspended" -> "resumed"
                  [] OTHER -> lwm2m
    /\ UNCHANGED <<app, wifiVars, radioVars, userBits, pending, mediatorSuspended,
                   suspendBit, earlyOff, faults>>

\* Mutant of UserWorks: a loss is looked at before a gain.
UserWorks_OffFirst ==
    /\ user = "working"
    /\ TakeUser(UserBits)
    /\ user' = CASE "off" \in userBits -> "stop_connectivity"
                 [] "off" \notin userBits /\ "on" \in userBits -> "start_ntp_time"
                 [] OTHER -> user
    /\ UNCHANGED <<app, wifiVars, radioVars, ticking, mediatorSuspended, appVars,
                   earlyOff, faults>>

\* Takes everything that has come; a gain hides a loss.
UserWorks ==
    /\ user = "working"
    /\ TakeUser(UserBits)
    /\ user' = CASE "on" \in userBits -> "start_ntp_time"
                 [] "on" \notin userBits /\ "off" \in userBits -> "stop_connectivity"
                 [] OTHER -> user
    /\ UNCHANGED <<app, wifiVars, radioVars, ticking, mediatorSuspended, appVars,
                   earlyOff, faults>>

\* Asks the LwM2M task to suspend itself, suspends the MQTT task where it is.
UserStops ==
    /\ user = "stop_connectivity" /\ user' = "wait_suspended"
    /\ ticking' = ticking \ {"ntp"}
    /\ suspendBit' = TRUE
    /\ mqttRuns' = FALSE
    /\ UNCHANGED <<app, wifiVars, radioVars, userBits, pending, mediatorSuspended, lwm2m,
                   earlyOff, faults>>

\* "Wait for lwm2m to suspend": any notification ends it.
UserStopped ==
    /\ user = "wait_suspended" /\ user' = "working"
    /\ TakeUser({"suspended"})
    /\ UNCHANGED <<app, wifiVars, radioVars, ticking, mediatorSuspended, appVars,
                   earlyOff, faults>>

\* The callbacks of the user timer and of the NTP timer.
TimerFires(t) ==
    /\ t \in ticking
    /\ NotifyUser(t)
    /\ UNCHANGED <<app, wifiVars, radioVars, user, ticking, mediatorSuspended, appVars,
                   faults>>

-----------------------------------------------------------------------------
(* The LwM2M task *)

\* lwm2m_client_task_runner finds the request and returns 1: the task tells the
\* user task and suspends itself.
Lwm2mSuspends ==
    /\ lwm2m = "running" /\ suspendBit
    /\ suspendBit' = FALSE /\ lwm2m' = "suspended"
    /\ NotifyUser("suspended")
    /\ UNCHANGED <<app, wifiVars, radioVars, user, ticking, mediatorSuspended, mqttRuns,
                   faults>>

\* lwm2m_step fails and the runner returns 0: once more, after a minute.
Lwm2mFails ==
    /\ lwm2m = "running" /\ Fault
    /\ lwm2m' = "failed"
    /\ UNCHANGED <<app, wifiVars, radioVars, userVars, mediatorSuspended, mqttRuns,
                   suspendBit, earlyOff>>

Lwm2mRetries ==
    /\ lwm2m = "failed" /\ lwm2m' = "running"
    /\ UNCHANGED <<app, wifiVars, radioVars, userVars, mediatorSuspended, mqttRuns,
                   suspendBit, earlyOff, faults>>

\* Resumed after a suspension: waits a minute, then ret is still 1 and the loop
\* ends.
Lwm2mLeaves ==
    /\ lwm2m = "resumed" /\ lwm2m' = "unreachable"
    /\ UNCHANGED <<app, wifiVars, radioVars, userVars, mediatorSuspended, mqttRuns,
                   suspendBit, earlyOff, faults>>

-----------------------------------------------------------------------------
WifiNext == \/ WifiStarts \/ WifiStarted \/ WifiTakes \/ WifiLost
            \/ WifiConnects \/ WifiConnectFails \/ WifiAcquired
RadioNext == \/ Associate \/ AttemptFails \/ LinkLost \/ OtherEvent
             \/ AddressAcquired \/ AddressReleased \/ HandlerNotifies
UserNext == \/ UserStarts \/ UserWaitsOn \/ UserGetsTime \/ UserGetsNoTime
            \/ UserStartsApp \/ UserWorks \/ UserStops \/ UserStopped
            \/ \E t \in {"timer", "ntp"} : TimerFires(t)
Lwm2mNext == Lwm2mSuspends \/ Lwm2mFails \/ Lwm2mRetries \/ Lwm2mLeaves

Next == WifiNext \/ RadioNext \/ UserNext \/ Lwm2mNext

Spec == Init /\ [][Next]_vars

\* Tasks and timers run; the access point is there and gives an address, and
\* the NTP server answers, when nothing stands in the way any more.
Fairness ==
    /\ WF_vars(WifiNext) /\ WF_vars(HandlerNotifies)
    /\ WF_vars(Associate) /\ WF_vars(AddressAcquired)
    /\ WF_vars(UserStarts \/ UserWaitsOn \/ UserGetsTime \/ UserStartsApp
               \/ UserWorks \/ UserStops \/ UserStopped)
    /\ \A t \in {"timer", "ntp"} : WF_vars(TimerFires(t))
    /\ WF_vars(Lwm2mSuspends) /\ WF_vars(Lwm2mRetries) /\ WF_vars(Lwm2mLeaves)

FairSpec == Spec /\ Fairness

-----------------------------------------------------------------------------
(* Properties *)

\* The WiFi task never waits for ever with a radio that has no access point
\* and tries none: the time-out branch of its loop has no reconnection logic
\* (wifi_service.c:254-271), so a lost request to itself would be final.
ReconnectsAlways ==
    wifi = "loop" /\ value = {} /\ wifiBits = {} /\ ~handling
        => radio \in {"trying", "associated", "ip"}

\* The user task never works with a running MQTT client over a suspended
\* mediator without the news of the loss still before it, although a gain hides
\* a loss (user.zig:213-218) and bits survive the waits for other bits: the NTP
\* exchange before each start is what makes it true.
SuspensionIsKnown ==
    user = "working" /\ mqttRuns /\ mediatorSuspended => "off" \in userBits

\* Once the faults are over the mediator runs for good: each suspension
\* (wifi_service.c:210) is followed by an address that resumes it (:245).
MediatorFollowsLink == <>[]~mediatorSuspended

\* Once the faults are over the MQTT client runs for good, unless connectivity
\* was lost while the user task waited for the first one: that loss stays in
\* its notification (user.zig:131) and stops the client 2 s after its start.
AppRuns == <>[](mqttRuns \/ earlyOff \/ app # "mqtt")

=============================================================================

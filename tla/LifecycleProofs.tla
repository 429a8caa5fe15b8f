--------------------------- MODULE LifecycleProofs ---------------------------
(***************************************************************************)
(* What holds of Lifecycle for every set of applications and any number of *)
(* faults.                                                                 *)
(***************************************************************************)
EXTENDS Lifecycle, TLAPS

\* A started radio is on.  An idle one has its loss still to be passed on, or a
\* request to connect, or a loss that leads to one, is in the WiFi task's
\* notification or hands.
RequestIsThere ==
    /\ wifi \in {"starting", "loop"} => radio # "off"
    /\ wifi = "loop" /\ radio = "idle" =>
         \/ handling /\ connection \in {"disconnected", "connecting"}
         \/ "disconnected" \in wifiBits \cup value
         \/ "connecting" \in wifiBits \cup value

\* The application is started with a mediator that ran after the last loss the
\* user task took.
LossIsThere ==
    /\ user = "start_app" /\ mediatorSuspended => "off" \in userBits
    /\ user = "wait_suspended" => ~mqttRuns
    /\ SuspensionIsKnown

LifecycleInv == TypeOK /\ RequestIsThere /\ LossIsThere

-----------------------------------------------------------------------------
\* The initial states satisfy the invariant: nothing is started.
LEMMA LifecycleStarts == Init => LifecycleInv
<1> SUFFICES ASSUME Init PROVE LifecycleInv
  OBVIOUS
<1>1. TypeOK
  <2>1. /\ handling \in BOOLEAN /\ pending \in BOOLEAN /\ mediatorSuspended \in BOOLEAN
        /\ mqttRuns \in BOOLEAN /\ suspendBit \in BOOLEAN /\ earlyOff \in BOOLEAN
    BY Zenon DEF Init
  <2>2. /\ app \in Apps /\ wifi = "suspended" /\ value = {} /\ wifiBits = {}
        /\ connection = "disconnected" /\ radio = "off" /\ user = "start_connectivity"
        /\ userBits = {} /\ ticking = {} /\ lwm2m = "created" /\ faults = 0
    BY DEF Init
  <2> QED BY <2>1, <2>2, LifecycleAssumption DEF TypeOK, Status
<1>2. RequestIsThere
  BY DEF Init, RequestIsThere
<1>3. LossIsThere
  BY DEF Init, LossIsThere, SuspensionIsKnown
<1> QED BY <1>1, <1>2, <1>3 DEF LifecycleInv

\* What a notification of the user task leaves.
LEMMA Notified ==
  ASSUME userBits \subseteq UserBits, NEW event \in UserBits, NotifyUser(event)
  PROVE  userBits' \subseteq UserBits /\ pending' \in BOOLEAN /\ earlyOff' \in BOOLEAN
<1>1. userBits' \subseteq UserBits /\ pending' \in BOOLEAN
  BY DEF NotifyUser
<1>2. earlyOff' \in BOOLEAN
  BY Zenon DEF NotifyUser
<1> QED BY <1>1, <1>2

\* What waitForNotify leaves.
LEMMA Taken ==
  ASSUME userBits \subseteq UserBits, NEW clear, TakeUser(clear)
  PROVE  userBits' \subseteq UserBits /\ pending' \in BOOLEAN
  BY DEF TakeUser

\* What the WiFi task does keeps the types.
LEMMA WifiKeepsTypes == ASSUME TypeOK, WifiNext PROVE TypeOK'
<1> USE LifecycleAssumption DEF TypeOK, Status, WifiBits, UserBits
<1>1. CASE WifiStarts       BY <1>1 DEF WifiStarts, userVars, appVars
<1>2. CASE WifiStarted      BY <1>2 DEF WifiStarted, radioVars, userVars, appVars
<1>3. CASE WifiTakes        BY <1>3 DEF WifiTakes, radioVars, userVars, appVars
<1>4. CASE WifiLost         BY <1>4, Notified DEF WifiLost, radioVars, appVars
<1>5. CASE WifiConnects
  <2>1. UNCHANGED <<app, wifi, wifiBits, user, userBits, pending, ticking,
                    mediatorSuspended, mqttRuns, lwm2m, suspendBit, earlyOff>>
    BY <1>5 DEF WifiConnects, userVars, appVars
  <2>2. value' \subseteq value
    BY <1>5 DEF WifiConnects
  <2>3. /\ radio' \in {"trying", radio}
        /\ connection' \in {"disconnected", connection}
        /\ handling' \in {TRUE, handling}
    BY <1>5, Zenon DEF WifiConnects
  <2>4. faults' \in 0..MaxFaults
    BY <1>5 DEF WifiConnects, Fault
  <2>5. handling' \in BOOLEAN
    BY <2>3, Zenon
  <2> QED BY <2>1, <2>2, <2>3, <2>4, <2>5
<1>6. CASE WifiConnectFails BY <1>6 DEF WifiConnectFails, Fault, userVars, appVars
<1>7. CASE WifiAcquired
  <2>1. userBits' \subseteq UserBits /\ pending' \in BOOLEAN /\ earlyOff' \in BOOLEAN
    BY <1>7, Notified DEF WifiAcquired
  <2>2. /\ value' = {} /\ mediatorSuspended' \in BOOLEAN
        /\ UNCHANGED <<app, wifi, wifiBits, connection, radioVars, user, ticking, appVars,
                       faults>>
    BY <1>7 DEF WifiAcquired
  <2> QED BY <2>1, <2>2 DEF radioVars, appVars
<1> QED BY <1>1, <1>2, <1>3, <1>4, <1>5, <1>6, <1>7 DEF WifiNext

\* What the radio and the event handlers do keeps the types.
LEMMA RadioKeepsTypes == ASSUME TypeOK, RadioNext PROVE TypeOK'
<1> USE LifecycleAssumption DEF TypeOK, Status, WifiBits, UserBits, userVars, appVars
<1>1. CASE Associate       BY <1>1 DEF Associate, WlanEvent
<1>2. CASE AttemptFails    BY <1>2 DEF AttemptFails, WlanEvent, Fault
<1>3. CASE LinkLost        BY <1>3 DEF LinkLost, WlanEvent, Fault
<1>4. CASE OtherEvent      BY <1>4 DEF OtherEvent, WlanEvent, Fault
<1>5. CASE AddressAcquired BY <1>5 DEF AddressAcquired, NetAppEvent
<1>6. CASE AddressReleased BY <1>6 DEF AddressReleased, NetAppEvent, Fault
<1>7. CASE HandlerNotifies
  <2>1. wifiBits' \subseteq WifiBits /\ handling' \in BOOLEAN
    BY <1>7 DEF HandlerNotifies
  <2>2. UNCHANGED <<app, wifi, value, connection, radio, userVars, mediatorSuspended,
                    appVars, earlyOff, faults>>
    BY <1>7 DEF HandlerNotifies
  <2> QED BY <2>1, <2>2
<1> QED BY <1>1, <1>2, <1>3, <1>4, <1>5, <1>6, <1>7 DEF RadioNext

\* What the user task and its timers do keeps the types.
LEMMA UserKeepsTypes == ASSUME TypeOK, UserNext PROVE TypeOK'
<1> USE LifecycleAssumption DEF TypeOK
<1>1. CASE UserStarts     BY <1>1 DEF UserStarts, radioVars, appVars
<1>2. CASE UserWaitsOn    BY <1>2, Taken DEF UserWaitsOn, wifiVars, radioVars, appVars
<1>3. CASE UserGetsTime   BY <1>3 DEF UserGetsTime, wifiVars, radioVars, appVars
<1>4. CASE UserGetsNoTime BY <1>4 DEF UserGetsNoTime, vars, wifiVars, radioVars, userVars, appVars
<1>5. CASE UserStartsApp
  <2>1. /\ user' = "working" /\ ticking' = ticking \cup {"timer"}
        /\ lwm2m' \in {"running", "resumed", lwm2m}
        /\ mqttRuns' = (mqttRuns \/ app = "mqtt")
        /\ UNCHANGED <<app, wifi, value, wifiBits, connection, radio, handling, userBits,
                       pending, mediatorSuspended, suspendBit, earlyOff, faults>>
    BY <1>5 DEF UserStartsApp, wifiVars, radioVars
  <2>2. mqttRuns' \in BOOLEAN
    BY <2>1
  <2> QED BY <2>1, <2>2
<1>6. CASE UserWorks      BY <1>6, Taken DEF UserWorks, wifiVars, radioVars, appVars
<1>7. CASE UserStops      BY <1>7 DEF UserStops, wifiVars, radioVars
<1>8. CASE UserStopped    BY <1>8, Taken DEF UserStopped, wifiVars, radioVars, appVars
<1>9. ASSUME NEW t \in {"timer", "ntp"}, TimerFires(t) PROVE TypeOK'
  <2>1. t \in UserBits
    BY DEF UserBits
  <2> QED BY <1>9, <2>1, Notified DEF TimerFires, wifiVars, radioVars, appVars
<1> QED BY <1>1, <1>2, <1>3, <1>4, <1>5, <1>6, <1>7, <1>8, <1>9 DEF UserNext

\* What the LwM2M task does keeps the types.
LEMMA Lwm2mKeepsTypes == ASSUME TypeOK, Lwm2mNext PROVE TypeOK'
<1> USE LifecycleAssumption DEF TypeOK, Status, WifiBits, UserBits, wifiVars, radioVars
<1>1. CASE Lwm2mSuspends
  <2>1. userBits' \subseteq UserBits /\ pending' \in BOOLEAN /\ earlyOff' \in BOOLEAN
    BY <1>1, Notified DEF Lwm2mSuspends
  <2>2. /\ lwm2m' = "suspended" /\ suspendBit' \in BOOLEAN
        /\ UNCHANGED <<app, wifiVars, radioVars, user, ticking, mediatorSuspended, mqttRuns,
                       faults>>
    BY <1>1 DEF Lwm2mSuspends
  <2> QED BY <2>1, <2>2
<1>2. CASE Lwm2mFails    BY <1>2 DEF Lwm2mFails, Fault, userVars
<1>3. CASE Lwm2mRetries  BY <1>3 DEF Lwm2mRetries, userVars
<1>4. CASE Lwm2mLeaves   BY <1>4 DEF Lwm2mLeaves, userVars
<1> QED BY <1>1, <1>2, <1>3, <1>4 DEF Lwm2mNext

-----------------------------------------------------------------------------
\* No step leaves an idle radio without a request to connect: each loss of it
\* is passed on, taken and answered with a request.
LEMMA RequestStays == ASSUME TypeOK, RequestIsThere, Next PROVE RequestIsThere'
<1> USE DEF RequestIsThere, TypeOK
<1>1. CASE WifiStarts       BY <1>1 DEF WifiStarts
<1>2. CASE WifiStarted      BY <1>2 DEF WifiStarted, radioVars
<1>3. CASE WifiTakes        BY <1>3 DEF WifiTakes, radioVars
<1>4. CASE WifiLost         BY <1>4 DEF WifiLost, radioVars
<1>5. CASE WifiConnects     BY <1>5 DEF WifiConnects
<1>6. CASE WifiConnectFails BY <1>6 DEF WifiConnectFails
<1>7. CASE WifiAcquired     BY <1>7 DEF WifiAcquired, radioVars
<1>8. CASE Associate        BY <1>8 DEF Associate, WlanEvent
<1>9. CASE AttemptFails     BY <1>9 DEF AttemptFails, WlanEvent
<1>10. CASE LinkLost        BY <1>10 DEF LinkLost, WlanEvent
<1>11. CASE OtherEvent      BY <1>11 DEF OtherEvent, WlanEvent
<1>12. CASE AddressAcquired BY <1>12 DEF AddressAcquired, NetAppEvent
<1>13. CASE AddressReleased BY <1>13 DEF AddressReleased, NetAppEvent
<1>14. CASE HandlerNotifies BY <1>14 DEF HandlerNotifies
<1>15. CASE UserStarts      BY <1>15 DEF UserStarts
<1>16. CASE UNCHANGED <<wifiVars, radioVars>>
  BY <1>16 DEF wifiVars, radioVars
<1>17. UserNext => UserStarts \/ UNCHANGED <<wifiVars, radioVars>>
  BY DEF UserNext, UserWaitsOn, UserGetsTime, UserGetsNoTime, UserStartsApp, UserWorks,
         UserStops, UserStopped, TimerFires, vars
<1>18. Lwm2mNext => UNCHANGED <<wifiVars, radioVars>>
  BY DEF Lwm2mNext, Lwm2mSuspends, Lwm2mFails, Lwm2mRetries, Lwm2mLeaves
<1> QED BY <1>1, <1>2, <1>3, <1>4, <1>5, <1>6, <1>7, <1>8, <1>9, <1>10, <1>11, <1>12,
           <1>13, <1>14, <1>15, <1>16, <1>17, <1>18 DEF Next, WifiNext, RadioNext

\* The news of a loss is there when the mediator is suspended, and stays until
\* the user task takes it to stop the application, or with a gain whose NTP
\* exchange waits for a mediator that runs.
LEMMA LossStays == ASSUME TypeOK, LossIsThere, Next PROVE LossIsThere'
<1> USE DEF LossIsThere, SuspensionIsKnown
<1>1. CASE WifiLost       BY <1>1 DEF WifiLost, NotifyUser, appVars
<1>2. CASE WifiAcquired   BY <1>2 DEF WifiAcquired, NotifyUser, appVars
<1>3. CASE UserStarts     BY <1>3 DEF UserStarts, appVars
<1>4. CASE UserWaitsOn    BY <1>4 DEF UserWaitsOn, appVars
<1>5. CASE UserGetsTime   BY <1>5 DEF UserGetsTime, appVars
<1>6. CASE UserStartsApp  BY <1>6 DEF UserStartsApp
<1>7. CASE UserWorks      BY <1>7 DEF UserWorks, TakeUser, appVars
<1>8. CASE UserStops      BY <1>8 DEF UserStops
<1>9. CASE UserStopped    BY <1>9 DEF UserStopped, TakeUser, appVars
<1>10. ASSUME NEW t, NotifyUser(t), UNCHANGED <<user, mediatorSuspended, mqttRuns>>
       PROVE  LossIsThere'
  BY <1>10 DEF NotifyUser
<1>11. CASE \E t \in {"timer", "ntp"} : TimerFires(t)
  BY <1>10, <1>11 DEF TimerFires, appVars
<1>12. CASE Lwm2mSuspends BY <1>10, <1>12 DEF Lwm2mSuspends
<1>13. CASE UNCHANGED <<userVars, mediatorSuspended, mqttRuns>>
  BY <1>13 DEF userVars
<1>14. WifiNext => WifiLost \/ WifiAcquired \/ UNCHANGED <<userVars, mediatorSuspended, mqttRuns>>
  BY DEF WifiNext, WifiStarts, WifiStarted, WifiTakes, WifiConnects, WifiConnectFails, appVars
<1>15. RadioNext => UNCHANGED <<userVars, mediatorSuspended, mqttRuns>>
  BY DEF RadioNext, Associate, AttemptFails, LinkLost, OtherEvent, AddressAcquired,
         AddressReleased, HandlerNotifies, WlanEvent, NetAppEvent, appVars
<1>16. UserGetsNoTime => UNCHANGED <<userVars, mediatorSuspended, mqttRuns>>
  BY DEF UserGetsNoTime, vars, appVars
<1>17. Lwm2mNext => Lwm2mSuspends \/ UNCHANGED <<userVars, mediatorSuspended, mqttRuns>>
  BY DEF Lwm2mNext, Lwm2mFails, Lwm2mRetries, Lwm2mLeaves
<1> QED BY <1>1, <1>2, <1>3, <1>4, <1>5, <1>6, <1>7, <1>8, <1>9, <1>11, <1>12, <1>13,
           <1>14, <1>15, <1>16, <1>17 DEF Next, UserNext

-----------------------------------------------------------------------------
\* Steps that change nothing keep the invariant.
LEMMA LifecycleStutters == ASSUME LifecycleInv, UNCHANGED vars PROVE LifecycleInv'
  BY DEF LifecycleInv, TypeOK, RequestIsThere, LossIsThere, SuspensionIsKnown,
         vars, wifiVars, radioVars, userVars, appVars

\* The inductive invariant of the life cycle.
THEOREM LifecycleInvariant == Spec => []LifecycleInv
<1>1. Init => LifecycleInv
  BY LifecycleStarts
<1>2. LifecycleInv /\ [Next]_vars => LifecycleInv'
  <2> SUFFICES ASSUME LifecycleInv, [Next]_vars PROVE LifecycleInv'
    OBVIOUS
  <2>1. CASE Next
    <3>1. TypeOK'
      BY <2>1, WifiKeepsTypes, RadioKeepsTypes, UserKeepsTypes, Lwm2mKeepsTypes
         DEF Next, LifecycleInv
    <3>2. RequestIsThere'
      BY <2>1, RequestStays DEF LifecycleInv
    <3>3. LossIsThere'
      BY <2>1, LossStays DEF LifecycleInv
    <3> QED BY <3>1, <3>2, <3>3 DEF LifecycleInv
  <2>2. CASE UNCHANGED vars
    BY <2>2, LifecycleStutters
  <2> QED BY <2>1, <2>2
<1> QED BY <1>1, <1>2, PTL DEF Spec

\* Every variable of the life cycle keeps its type.
THEOREM LifecycleTypeCorrect == Spec => []TypeOK
<1>1. LifecycleInv => TypeOK
  BY DEF LifecycleInv
<1> QED BY <1>1, LifecycleInvariant, PTL

\* For any number of faults: the WiFi task never waits for ever with an idle
\* radio (wifi_service.c:214-271).
THEOREM AlwaysReconnects == Spec => []ReconnectsAlways
<1>1. LifecycleInv => ReconnectsAlways
  BY DEF LifecycleInv, TypeOK, RequestIsThere, ReconnectsAlways
<1> QED BY <1>1, LifecycleInvariant, PTL

\* For any number of faults: the user task never works with a running MQTT
\* client over a suspended mediator without the news before it (user.zig:213).
THEOREM SuspensionsKnown == Spec => []SuspensionIsKnown
<1>1. LifecycleInv => SuspensionIsKnown
  BY DEF LifecycleInv, LossIsThere
<1> QED BY <1>1, LifecycleInvariant, PTL

=============================================================================

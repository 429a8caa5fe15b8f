------------------------------ MODULE MqttClient ------------------------------
(***************************************************************************)
(* The MQTT client of src/mqtt.zig and the broker it talks to.             *)
(*                                                                         *)
(* The client is a task, "mqtt", and two callbacks run by the FreeRTOS     *)
(* timer task: pingTimer and pubTimer.  They share the transmit message    *)
(* buffer (txQueue), the mutex of the work buffer and, without a lock, the *)
(* list of QoS 1/2 packets that wait for an answer (qosQueue).  Only the   *)
(* mqtt task reads txQueue.  The timer task has the highest priority: the  *)
(* mqtt task moves only while the timer task has nothing to do or is       *)
(* blocked.  The user task may suspend the mqtt task anywhere.             *)
(*                                                                         *)
(* What the mqtt task still has to do is kept in todo, first step first.   *)
(* The broker, the TCP/TLS connection and the passing of time are external *)
(* and modelled from how the client uses them.  create_error is returned   *)
(* by nothing in the repository, so the branch of taskFunction that resets *)
(* pingQueue is dead.  Topics and payloads are left out, but for whether   *)
(* they fit into the line they are printed in; so is the reset that a      *)
(* message on the firmware topic triggers.                                 *)
(***************************************************************************)
EXTENDS Integers, Sequences, SequencesExt, FiniteSets

CONSTANTS
    Messages,       \* what the broker has for the client
    Qos2Messages,   \* those sent with QoS 2, the others have QoS 1
    LongMessages,   \* those that do not fit into the 64 bytes they are printed in
    NoMessage,
    TxRoom,         \* packets that fit into txQueue (1024 bytes in mqtt.zig)
    MaxPublishes,   \* bound: ticks of pubTimer
    MaxPings,       \* bound: ticks of pingTimer
    MaxTraffic,     \* bound: ticks of both timers and messages of the broker
    MaxFaults       \* bound: failures of the connection, deadlines that pass
                    \* before a late answer and suspensions of the mqtt task

ASSUME MqttAssumption ==
    /\ Qos2Messages \subseteq Messages /\ NoMessage \notin Messages
    /\ LongMessages \subseteq Messages
    /\ IsFiniteSet(Messages)
    /\ TxRoom \in Nat \ {0}
    /\ MaxPublishes \in Nat /\ MaxPings \in Nat
    /\ MaxTraffic \in Nat /\ MaxFaults \in Nat

VARIABLES
    \* the mqtt task
    todo,        \* the steps before it
    state,       \* self.state
    suspended,   \* by the user task
    seen,        \* what it has read of qosQueue in the update it is in
    \* shared with the timer task
    mutex,       \* holder of workBufferMutex
    txQueue,     \* packets to send
    qosQueue,    \* packets that wait for their answer
    pingQueue,   \* pingQueue holds a time stamp
    timers,      \* pingTimer and pubTimer are running
    callback,    \* the timer callback in progress
    panicked,    \* an "unreachable" was reached
    \* the receiver
    qos2Queue,   \* QoS 2 messages that wait for their release
    delivered,   \* how often each message reached the application
    \* the connection and the broker
    link, toBroker, toClient,
    session,     \* "none", "fresh" (wants CONNECT), "open", "subscribed"
    stored,      \* identifiers of QoS 2 messages it holds
    forwarded,   \* how often it has passed each message on
    phase,       \* of each message it has for the client
    number,      \* the identifier it gave to each
    \* history and bounds
    completed,   \* publishes that are acknowledged to the end
    raced,       \* a callback ran inside an update of qosQueue
    early,       \* a deadline passed before a late answer
    published, pings, faults

taskVars   == <<todo, state, suspended, seen>>
sharedVars == <<mutex, txQueue, qosQueue, pingQueue, timers, callback, panicked>>
rxVars     == <<qos2Queue, delivered>>
linkVars   == <<link, toBroker, toClient>>
brokerVars == <<session, stored, forwarded, phase, number>>
history    == <<completed, raced, early>>
bounds     == <<published, pings, faults>>
vars == <<taskVars, sharedVars, rxVars, linkVars, brokerVars, history, bounds>>

Ids == 1..MaxPublishes

Types == {"connect", "connack", "subscribe", "suback", "publish", "puback",
          "pubrec", "pubrel", "pubcomp", "pingreq", "pingresp", "disconnect"}
Numbers == 0..(MaxPublishes + Cardinality(Messages))
Packet  == [type : Types, id : Numbers, msg : Messages \cup {NoMessage}]
Ops     == {"open", "prepare", "flush", "last_flush", "connack", "suback", "start",
            "prune", "pruned", "prune_held", "acknowledged", "search", "track",
            "tracked", "poll", "hold", "deliver", "stop", "close"}
Entry   == [type : {"publish", "pubrel"}, id : Ids, due : BOOLEAN]
Held    == [id : Numbers, msg : Messages, due : BOOLEAN]

P(type, id)  == [type |-> type, id |-> id, msg |-> NoMessage]
Step(op)     == [op |-> op, arg |-> P("connect", 0)]
With(op, p)  == [op |-> op, arg |-> p]
Nothing      == [at |-> 0, len |-> 0]
Has(q, type, id) == \E k \in DOMAIN q : q[k].type = type /\ q[k].id = id
FirstOf(S) == CHOOSE k \in S : \A j \in S : k <= j

-----------------------------------------------------------------------------
(* What the mqtt task does, as steps *)

Loop    == <<Step("prune")>>
Connect == <<With("prepare", P("connect", 0)), Step("flush"), Step("connack"),
             With("prepare", P("subscribe", 0)), Step("flush"), Step("suback"),
             Step("start")>> \o Loop
Reopen  == <<Step("close"), Step("open")>>
Disconnect == <<Step("stop"), With("prepare", P("disconnect", 0)),
                Step("last_flush")>> \o Reopen

Init ==
    /\ todo = <<Step("open")>> /\ state = "not_connected"
    /\ suspended = FALSE /\ seen = Nothing
    /\ mutex = "free" /\ txQueue = <<>> /\ qosQueue = <<>>
    /\ pingQueue = FALSE /\ timers = FALSE /\ callback = "none" /\ panicked = FALSE
    /\ qos2Queue = <<>> /\ delivered = [m \in Messages |-> 0]
    /\ link = "down" /\ toBroker = <<>> /\ toClient = <<>>
    /\ session = "none" /\ stored = {} /\ forwarded = [i \in Ids |-> 0]
    /\ phase = [m \in Messages |-> "unsent"] /\ number = [m \in Messages |-> 0]
    /\ completed = {} /\ raced = FALSE /\ early = FALSE
    /\ published = 0 /\ pings = 0 /\ faults = 0

\* The timer task is ready to run: it goes before the mqtt task.
TimerReady ==
    \/ callback # "none" /\ mutex = "free"
    \/ mutex = "timer" /\ Len(txQueue) < TxRoom

At(op) == ~panicked /\ ~suspended /\ ~TimerReady /\ Head(todo).op = op
Arg    == Head(todo).arg
Then(steps) == todo' = steps \o Tail(todo)
Continue    == todo' = Tail(todo)

\* An error returned from connect closes the connection (errdefer); one
\* returned from loop runs disconnect (defer).
Fail ==
    IF state = "connecting" THEN state' = "err" /\ todo' = Reopen
                            ELSE UNCHANGED state /\ todo' = Disconnect

\* The broker forgets a clean session when its connection ends.
EndSession ==
    /\ session' = "none" /\ stored' = {}
    /\ phase' = [m \in Messages |-> IF phase[m] \in {"published", "released"}
                                    THEN "lost" ELSE phase[m]]
    /\ UNCHANGED <<forwarded, number>>

Sent  == {m \in Messages : phase[m] # "unsent"}
Traffic == published + pings + Cardinality(Sent) < MaxTraffic
Fault == faults < MaxFaults /\ faults' = faults + 1

-----------------------------------------------------------------------------
(* Connecting and disconnecting *)

Open ==
    /\ At("open")
    /\ todo' = Connect /\ state' = "connecting"
    /\ link' = "open" /\ session' = "fresh"
    /\ number' = [m \in Messages |-> 0]
    /\ UNCHANGED <<suspended, seen, sharedVars, rxVars, toBroker, toClient, stored,
                   forwarded, phase, history, bounds>>

\* connection.open fails: taskFunction tries again at once.
OpenFails ==
    /\ At("open") /\ Fault
    /\ state' = "err"
    /\ UNCHANGED <<todo, suspended, seen, sharedVars, rxVars, linkVars, brokerVars,
                   history, published, pings>>

\* waitRx(5) and packet.read: anything but a CONNACK is an error; a CONNACK
\* that does not come in time is not.
AwaitConnack ==
    /\ At("connack") /\ (toClient # <<>> \/ link # "open")
    /\ IF toClient = <<>> \/ toClient[1].type # "connack"
       THEN Fail ELSE Continue /\ UNCHANGED state
    /\ toClient' = IF toClient = <<>> THEN <<>> ELSE Tail(toClient)
    /\ UNCHANGED <<suspended, seen, sharedVars, rxVars, link, toBroker, brokerVars,
                   history, bounds>>

\* The packet that comes first is taken for the SUBACK and dropped if it is not;
\* a broken connection shows as an error of waitRx or as a packet that is none.
AwaitSuback ==
    /\ At("suback") /\ (toClient # <<>> \/ link # "open")
    /\ \/ toClient = <<>> /\ Fail
       \/ Continue /\ UNCHANGED state
    /\ toClient' = IF toClient = <<>> THEN <<>> ELSE Tail(toClient)
    /\ UNCHANGED <<suspended, seen, sharedVars, rxVars, link, toBroker, brokerVars,
                   history, bounds>>

\* The broker takes more than 5 seconds: the client goes on as if connected.
AwaitTimesOut ==
    /\ At("connack") \/ At("suback")
    /\ toClient = <<>> /\ link = "open" /\ Fault
    /\ Continue
    /\ UNCHANGED <<state, suspended, seen, sharedVars, rxVars, linkVars, brokerVars,
                   history, published, pings>>

StartTimers ==
    /\ At("start")
    /\ timers' = TRUE /\ state' = "connected" /\ Continue
    /\ UNCHANGED <<suspended, seen, mutex, txQueue, qosQueue, pingQueue, callback,
                   panicked, rxVars, linkVars, brokerVars, history, bounds>>

StopTimers ==
    /\ At("stop")
    /\ timers' = FALSE /\ Continue
    /\ UNCHANGED <<state, suspended, seen, mutex, txQueue, qosQueue, pingQueue,
                   callback, panicked, rxVars, linkVars, brokerVars, history, bounds>>

Close ==
    /\ At("close")
    /\ link' = "down" /\ toBroker' = <<>> /\ toClient' = <<>>
    /\ EndSession /\ Continue
    /\ UNCHANGED <<state, suspended, seen, sharedVars, rxVars, history, bounds>>

-----------------------------------------------------------------------------
(* Sending *)

\* workBufferMutex is held while the packet waits for room in txQueue.
Prepare ==
    /\ At("prepare")
    /\ \/ mutex = "free" /\ mutex' = "mqtt" /\ UNCHANGED <<txQueue, todo>>
       \/ /\ mutex = "mqtt" /\ Len(txQueue) < TxRoom
          /\ txQueue' = Append(txQueue, Arg)
          /\ mutex' = "free"
          /\ Continue
    /\ UNCHANGED <<state, suspended, seen, qosQueue, pingQueue, timers, callback,
                   panicked, rxVars, linkVars, brokerVars, history, bounds>>

\* processSendQueue: a packet is taken out before it is sent.
Flush ==
    /\ At("flush") \/ At("last_flush")
    /\ IF txQueue = <<>>
       THEN Continue /\ UNCHANGED <<state, txQueue, toBroker>>
       ELSE /\ txQueue' = Tail(txQueue)
            /\ IF link = "open"
               THEN /\ toBroker' = Append(toBroker, Head(txQueue))
                    /\ UNCHANGED <<todo, state>>
               ELSE /\ IF Head(todo).op = "flush" THEN Fail
                                                  ELSE Continue /\ UNCHANGED state
                    /\ UNCHANGED toBroker
    /\ UNCHANGED <<suspended, seen, mutex, qosQueue, pingQueue, timers, callback,
                   panicked, rxVars, link, toClient, brokerVars, history, bounds>>

-----------------------------------------------------------------------------
(* qosQueue: an ArrayList that both tasks change without a lock.  The mqtt *)
(* task finds an entry (or the end of the list) in one step and changes    *)
(* the list in the next; what a callback appended in between is lost, and  *)
(* when the entry was the last one pop() takes the appended one instead.   *)

Entries(type, id) == {k \in DOMAIN qosQueue : qosQueue[k].type = type /\ qosQueue[k].id = id}
DueEntries == {k \in DOMAIN qosQueue : qosQueue[k].due}
Look(at) == seen' = [at |-> at, len |-> Len(qosQueue)]

OrderedRemove ==
    IF seen.at = seen.len THEN Front(qosQueue)
                          ELSE RemoveAt(SubSeq(qosQueue, 1, seen.len), seen.at)
Removed == IF seen.at = seen.len THEN Last(qosQueue) ELSE qosQueue[seen.at]

\* The head of the loop: the first packet whose deadline has passed.
Prune ==
    /\ At("prune") /\ DueEntries # {}
    /\ Look(FirstOf(DueEntries))
    /\ Then(<<Step("pruned")>> \o Loop)
    /\ UNCHANGED <<state, suspended, sharedVars, rxVars, linkVars, brokerVars,
                   history, bounds>>

\* When there is none, the QoS 2 messages that were never released are dropped,
\* the first one each time.
DueHeld == {k \in DOMAIN qos2Queue : qos2Queue[k].due}

PruneHeld ==
    /\ \/ At("prune") /\ DueEntries = {}
       \/ At("prune_held")
    /\ IF DueHeld # {}
       THEN /\ qos2Queue' = RemoveAt(qos2Queue, FirstOf(DueHeld))
            /\ Then(<<Step("prune_held")>>)
       ELSE Then(<<Step("flush"), Step("poll")>>) /\ UNCHANGED qos2Queue
    /\ UNCHANGED <<state, suspended, seen, sharedVars, delivered, linkVars, brokerVars,
                   history, bounds>>

\* Mutant of Pruned: the packet is sent again but no longer tracked.
Pruned_Untracked ==
    /\ At("pruned")
    /\ qosQueue' = OrderedRemove /\ seen' = Nothing
    /\ Then(<<With("prepare", P(Removed.type, Removed.id))>>)
    /\ UNCHANGED <<state, suspended, mutex, txQueue, pingQueue, timers, callback,
                   panicked, rxVars, linkVars, brokerVars, history, bounds>>

\* Mutant of Pruned: a packet whose deadline has passed is given up.
Pruned_Forgets ==
    /\ At("pruned")
    /\ qosQueue' = OrderedRemove /\ seen' = Nothing
    /\ Continue
    /\ UNCHANGED <<state, suspended, mutex, txQueue, pingQueue, timers, callback,
                   panicked, rxVars, linkVars, brokerVars, history, bounds>>

\* The packet is sent again with the same identifier and tracked again.
Pruned ==
    /\ At("pruned")
    /\ qosQueue' = OrderedRemove /\ seen' = Nothing
    /\ Then(<<With("prepare", P(Removed.type, Removed.id)),
              With("track", P(Removed.type, Removed.id))>>)
    /\ UNCHANGED <<state, suspended, mutex, txQueue, pingQueue, timers, callback,
                   panicked, rxVars, linkVars, brokerVars, history, bounds>>

\* Mutant of Acknowledged: the entry is found but stays in the list.
Acknowledged_Keeps ==
    /\ At("acknowledged")
    /\ seen' = Nothing
    /\ Continue
    /\ UNCHANGED <<state, suspended, mutex, txQueue, qosQueue, pingQueue, timers, callback,
                   panicked, rxVars, linkVars, brokerVars, history, bounds>>

\* acknowledge: the entry was found by the step before.
Acknowledged ==
    /\ At("acknowledged")
    /\ qosQueue' = OrderedRemove /\ seen' = Nothing
    /\ Continue
    /\ UNCHANGED <<state, suspended, mutex, txQueue, pingQueue, timers, callback,
                   panicked, rxVars, linkVars, brokerVars, history, bounds>>

\* A PUBREL already waits under this identifier: it is replaced.
Search ==
    /\ At("search")
    /\ IF Entries(Arg.type, Arg.id) # {}
       THEN Look(FirstOf(Entries(Arg.type, Arg.id))) /\ Then(<<Step("acknowledged")>>)
       ELSE Continue /\ UNCHANGED seen
    /\ UNCHANGED <<state, suspended, sharedVars, rxVars, linkVars, brokerVars,
                   history, bounds>>

\* addPublish and addPubRel of the mqtt task.
Track ==
    /\ At("track")
    /\ Look(0)
    /\ Then(<<With("tracked", Arg)>>)
    /\ UNCHANGED <<state, suspended, sharedVars, rxVars, linkVars, brokerVars,
                   history, bounds>>

Tracked ==
    /\ At("tracked")
    /\ seen' = Nothing
    /\ qosQueue' = Append(SubSeq(qosQueue, 1, seen.len),
                          [type |-> Arg.type, id |-> Arg.id, due |-> FALSE])
    /\ Continue
    /\ UNCHANGED <<state, suspended, mutex, txQueue, pingQueue, timers, callback,
                   panicked, rxVars, linkVars, brokerVars, history, bounds>>

-----------------------------------------------------------------------------
(* Receiving: waitRx(1), packet.read and the switch of loop *)

\* Nothing came, or the connection is broken: the next round.
PollTimesOut ==
    /\ At("poll") /\ toClient = <<>>
    /\ Then(Loop)
    /\ UNCHANGED <<state, suspended, seen, sharedVars, rxVars, linkVars, brokerVars,
                   history, bounds>>

Incoming == IF toClient = <<>> THEN {} ELSE {Head(toClient)}

Receive(p) ==
    /\ At("poll")
    /\ toClient' = Tail(toClient)
    /\ UNCHANGED <<suspended, mutex, txQueue, qosQueue, timers, callback, delivered,
                   link, toBroker, brokerVars, raced, early, bounds>>

Poll == Step("poll")

\* QoS 1: the PUBACK is sent at once.  QoS 2: the PUBREC stays in txQueue until
\* the poll loop ends, the message in qos2Queue until it is released.
ReceivePublish ==
    \E p \in Incoming :
        /\ Receive(p) /\ p.type = "publish"
        /\ IF p.msg \in Qos2Messages
           THEN Then(<<With("prepare", P("pubrec", p.id)), With("hold", p), Poll>>)
           ELSE Then(<<With("prepare", P("puback", p.id)), Step("flush"),
                       With("deliver", p), Poll>>)
        /\ UNCHANGED <<state, seen, pingQueue, panicked, qos2Queue, completed>>

Hold ==
    /\ At("hold")
    /\ qos2Queue' = Append(qos2Queue, [id |-> Arg.id, msg |-> Arg.msg, due |-> FALSE])
    /\ Continue
    /\ UNCHANGED <<state, suspended, seen, sharedVars, delivered, linkVars, brokerVars,
                   history, bounds>>

\* The message is handed over: printed.  bufPrint has no room for a long one;
\* its error ends the connection, after the acknowledgement was sent.
Deliver ==
    /\ At("deliver")
    /\ IF Arg.msg \in LongMessages
       THEN Fail /\ UNCHANGED delivered
       ELSE /\ Continue /\ UNCHANGED state
            /\ delivered' = [delivered EXCEPT ![Arg.msg] = @ + 1]
    /\ UNCHANGED <<suspended, seen, sharedVars, qos2Queue, linkVars, brokerVars,
                   history, bounds>>

\* Mutant of ReceivePubrel: the message is found but stays in qos2Queue.
ReceivePubrel_Keeps ==
    \E p \in Incoming :
        /\ Receive(p) /\ p.type = "pubrel"
        /\ LET Under == {k \in DOMAIN qos2Queue : qos2Queue[k].id = p.id}
           IN  IF Under # {}
               THEN Then(<<With("prepare", P("pubcomp", p.id)), Step("flush"),
                           With("deliver", [p EXCEPT !.msg = qos2Queue[FirstOf(Under)].msg]),
                           Poll>>)
               ELSE Then(<<Poll>>)
        /\ UNCHANGED <<state, seen, pingQueue, panicked, qos2Queue, completed>>

\* findAndRemove: the first message held under the identifier is the one that
\* is delivered; without one there is no PUBCOMP.
ReceivePubrel ==
    \E p \in Incoming :
        /\ Receive(p) /\ p.type = "pubrel"
        /\ LET Under == {k \in DOMAIN qos2Queue : qos2Queue[k].id = p.id}
           IN  IF Under # {}
               THEN \E k \in {FirstOf(Under)} :
                      /\ qos2Queue' = RemoveAt(qos2Queue, k)
                      /\ Then(<<With("prepare", P("pubcomp", p.id)), Step("flush"),
                                With("deliver", [p EXCEPT !.msg = qos2Queue[k].msg]), Poll>>)
               ELSE Then(<<Poll>>) /\ UNCHANGED qos2Queue
        /\ UNCHANGED <<state, seen, pingQueue, panicked, completed>>

\* An acknowledgement without an entry ends the connection.
ReceivePubrec ==
    \E p \in Incoming :
        /\ Receive(p) /\ p.type = "pubrec"
        /\ IF Entries("publish", p.id) # {}
           THEN /\ Look(FirstOf(Entries("publish", p.id)))
                /\ Then(<<Step("acknowledged"), With("search", P("pubrel", p.id)),
                          With("prepare", P("pubrel", p.id)),
                          With("track", P("pubrel", p.id)), Poll>>)
                /\ UNCHANGED state
           ELSE Fail /\ UNCHANGED seen
        /\ UNCHANGED <<pingQueue, panicked, qos2Queue, completed>>

ReceivePubcomp ==
    \E p \in Incoming :
        /\ Receive(p) /\ p.type = "pubcomp"
        /\ IF Entries("pubrel", p.id) # {}
           THEN /\ Look(FirstOf(Entries("pubrel", p.id)))
                /\ Then(<<Step("acknowledged"), Poll>>)
                /\ completed' = completed \cup {p.id}
                /\ UNCHANGED state
           ELSE Fail /\ UNCHANGED <<seen, completed>>
        /\ UNCHANGED <<pingQueue, panicked, qos2Queue>>

\* pingQueue.recieve(0).? : a PINGRESP without a time stamp is a panic.
ReceivePingresp ==
    \E p \in Incoming :
        /\ Receive(p) /\ p.type = "pingresp"
        /\ IF pingQueue THEN pingQueue' = FALSE /\ UNCHANGED panicked
                        ELSE panicked' = TRUE /\ UNCHANGED pingQueue
        /\ Then(<<Poll>>)
        /\ UNCHANGED <<state, seen, qos2Queue, completed>>

\* A CONNACK or SUBACK that came late.
ReceiveLate ==
    \E p \in Incoming :
        /\ Receive(p) /\ p.type \in {"connack", "suback"}
        /\ Then(<<Poll>>)
        /\ UNCHANGED <<state, seen, pingQueue, panicked, qos2Queue, completed>>

-----------------------------------------------------------------------------
(* The timer callbacks *)

\* pingQueue.send(0) catch unreachable, then the PINGREQ.  The period is longer
\* than a round trip: a tick meets the last ping only when its answer is lost
\* or the mqtt task is suspended.
InFlight(type) == \E q \in {txQueue, toBroker, toClient} : Has(q, type, 0)

\* Mutant of PingTick: the time stamp is not queued.
PingTick_NoStamp ==
    /\ timers /\ callback = "none" /\ ~panicked /\ pings < MaxPings /\ Traffic
    /\ suspended \/ (~InFlight("pingreq") /\ ~InFlight("pingresp"))
    /\ pings' = pings + 1
    /\ callback' = "ping"
    /\ UNCHANGED <<taskVars, mutex, txQueue, qosQueue, pingQueue, panicked, timers, rxVars,
                   linkVars, brokerVars, history, published, faults>>

PingTick ==
    /\ timers /\ callback = "none" /\ ~panicked /\ pings < MaxPings /\ Traffic
    /\ suspended \/ (~InFlight("pingreq") /\ ~InFlight("pingresp"))
    /\ pings' = pings + 1
    /\ IF pingQueue THEN panicked' = TRUE /\ UNCHANGED <<pingQueue, callback>>
                    ELSE pingQueue' = TRUE /\ callback' = "ping" /\ UNCHANGED panicked
    /\ UNCHANGED <<taskVars, mutex, txQueue, qosQueue, timers, rxVars, linkVars,
                   brokerVars, history, published, faults>>

PublishTick ==
    /\ timers /\ callback = "none" /\ ~panicked /\ published < MaxPublishes /\ Traffic
    /\ published' = published + 1
    /\ callback' = "publish"
    /\ UNCHANGED <<taskVars, mutex, txQueue, qosQueue, pingQueue, timers, panicked,
                   rxVars, linkVars, brokerVars, history, pings, faults>>

\* workBufferMutex.take(null): the timer task waits as long as it takes.
CallbackTakesBuffer ==
    /\ callback # "none" /\ mutex = "free" /\ ~panicked
    /\ mutex' = "timer"
    /\ UNCHANGED <<taskVars, txQueue, qosQueue, pingQueue, timers, callback, panicked,
                   rxVars, linkVars, brokerVars, history, bounds>>

\* Mutant of CallbackSends: the callback does not wait for room.
CallbackSends_NoWait ==
    /\ mutex = "timer" /\ ~panicked
    /\ mutex' = "free" /\ callback' = "none"
    /\ IF callback = "ping"
       THEN /\ txQueue' = Append(txQueue, P("pingreq", 0))
            /\ UNCHANGED <<qosQueue, raced>>
       ELSE /\ txQueue' = Append(txQueue, P("publish", published))
            /\ qosQueue' = Append(qosQueue, [type |-> "publish", id |-> published,
                                             due |-> FALSE])
            /\ raced' = (raced \/ Head(todo).op \in {"pruned", "acknowledged", "tracked"})
    /\ UNCHANGED <<taskVars, pingQueue, timers, panicked, rxVars, linkVars, brokerVars,
                   completed, early, bounds>>

\* sendtoTxQueue(null), and for a publish addPublish.
CallbackSends ==
    /\ mutex = "timer" /\ Len(txQueue) < TxRoom /\ ~panicked
    /\ mutex' = "free" /\ callback' = "none"
    /\ IF callback = "ping"
       THEN /\ txQueue' = Append(txQueue, P("pingreq", 0))
            /\ UNCHANGED <<qosQueue, raced>>
       ELSE /\ txQueue' = Append(txQueue, P("publish", published))
            /\ qosQueue' = Append(qosQueue, [type |-> "publish", id |-> published,
                                             due |-> FALSE])
            /\ raced' = (raced \/ Head(todo).op \in {"pruned", "acknowledged", "tracked"})
    /\ UNCHANGED <<taskVars, pingQueue, timers, panicked, rxVars, linkVars, brokerVars,
                   completed, early, bounds>>

-----------------------------------------------------------------------------
(* The user task *)

Suspend ==
    /\ ~suspended /\ Fault
    /\ suspended' = TRUE
    /\ UNCHANGED <<todo, state, seen, sharedVars, rxVars, linkVars, brokerVars, history,
                   published, pings>>

\* The task is resumed when the WiFi connection is back, which takes interrupts
\* of the CC3100: they are handled by the timer task.
Resume ==
    /\ suspended /\ callback = "none" /\ ~panicked
    /\ suspended' = FALSE
    /\ UNCHANGED <<todo, state, seen, sharedVars, rxVars, linkVars, brokerVars, history,
                   bounds>>

-----------------------------------------------------------------------------
(* Time: the deadline of an entry, 2000 seconds away, passes when its answer  *)
(* cannot come any more, or early (setTimeFromNtp moves the clock, a broker   *)
(* is slow).                                                                  *)

About(types, id) ==
    \/ \E q \in {txQueue, toBroker, toClient} : \E type \in types : Has(q, type, id)
    \/ \E k \in DOMAIN todo : todo[k].arg.type \in types /\ todo[k].arg.id = id

Expires(k) ==
    /\ k \in DOMAIN qosQueue /\ ~qosQueue[k].due
    /\ Head(todo).op \notin {"pruned", "acknowledged", "tracked"}
    /\ qosQueue' = [qosQueue EXCEPT ![k].due = TRUE]
    /\ UNCHANGED <<taskVars, mutex, txQueue, pingQueue, timers, callback, panicked,
                   rxVars, linkVars, brokerVars, completed, raced, published, pings>>

Expire(k) ==
    /\ Expires(k)
    /\ ~About({"publish", "pubrec", "pubrel", "pubcomp"}, qosQueue[k].id)
    /\ UNCHANGED <<early, faults>>

ExpireEarly(k) == Expires(k) /\ Fault /\ early' = TRUE

HeldExpires(k) ==
    /\ k \in DOMAIN qos2Queue /\ ~qos2Queue[k].due
    /\ ~About({"pubrec", "pubrel"}, qos2Queue[k].id)
    /\ qos2Queue' = [qos2Queue EXCEPT ![k].due = TRUE]
    /\ UNCHANGED <<taskVars, sharedVars, delivered, linkVars, brokerVars, history, bounds>>

-----------------------------------------------------------------------------
(* The broker and the connection *)

Reply(p) == toClient' = Append(toClient, p)

\* The message of the current session that has this identifier.
Numbered(id, ph) == {m \in Messages : number[m] = id /\ phase[m] = ph}

Answer(p) ==
    \/ /\ p.type = "subscribe"
       /\ session' = "subscribed" /\ Reply(P("suback", 0))
       /\ UNCHANGED <<stored, forwarded, phase>>
    \/ /\ p.type = "publish"
       /\ stored' = stored \cup {p.id} /\ Reply(P("pubrec", p.id))
       /\ UNCHANGED <<session, forwarded, phase>>
    \/ /\ p.type = "pubrel"
       /\ forwarded' = IF p.id \in stored THEN [forwarded EXCEPT ![p.id] = @ + 1] ELSE forwarded
       /\ stored' = stored \ {p.id} /\ Reply(P("pubcomp", p.id))
       /\ UNCHANGED <<session, phase>>
    \/ /\ p.type = "pingreq"
       /\ Reply(P("pingresp", 0))
       /\ UNCHANGED <<session, stored, forwarded, phase>>
    \/ /\ p.type = "pubrec"
       /\ phase' = [m \in Messages |-> IF m \in Numbered(p.id, "published") THEN "released"
                                                                           ELSE phase[m]]
       /\ Reply(P("pubrel", p.id))
       /\ UNCHANGED <<session, stored, forwarded>>
    \/ /\ p.type \in {"puback", "pubcomp"}
       /\ phase' = [m \in Messages |->
                      IF m \in Numbered(p.id, IF p.type = "puback" THEN "published"
                                                                   ELSE "released")
                      THEN "done" ELSE phase[m]]
       /\ UNCHANGED <<session, stored, forwarded, toClient>>

\* Anything but CONNECT at the start, a second CONNECT or a DISCONNECT ends the
\* connection.
BrokerReceives ==
    /\ link = "open" /\ toBroker # <<>>
    /\ \E p \in {Head(toBroker)} :
        \/ /\ session = "fresh" /\ p.type = "connect"
           /\ session' = "open" /\ Reply(P("connack", 0))
           /\ toBroker' = Tail(toBroker)
           /\ UNCHANGED <<link, stored, forwarded, phase, number>>
        \/ /\ session # "fresh" /\ Answer(p)
           /\ toBroker' = Tail(toBroker)
           /\ UNCHANGED <<link, number>>
        \/ /\ p.type = "disconnect" \/ (session = "fresh") # (p.type = "connect")
           /\ link' = "broken" /\ toBroker' = <<>>
           /\ EndSession /\ UNCHANGED toClient
    /\ UNCHANGED <<taskVars, sharedVars, rxVars, history, bounds>>

\* Identifiers are unique within a session and start at 1.
BrokerPublishes(m) ==
    /\ link = "open" /\ session = "subscribed" /\ phase[m] = "unsent" /\ Traffic
    /\ \E id \in 1..Cardinality(Messages) :
        /\ id = 1 + Cardinality({n \in Messages : number[n] # 0})
        /\ number' = [number EXCEPT ![m] = id]
        /\ Reply([type |-> "publish", id |-> id, msg |-> m])
    /\ phase' = [phase EXCEPT ![m] = "published"]
    /\ UNCHANGED <<taskVars, sharedVars, rxVars, link, toBroker, session, stored,
                   forwarded, history, bounds>>

\* The connection breaks: what the client has not received may be lost.
Drop ==
    /\ link = "open" /\ Fault
    /\ link' = "broken" /\ toBroker' = <<>>
    /\ \E n \in 0..Len(toClient) : toClient' = SubSeq(toClient, 1, n)
    /\ EndSession
    /\ UNCHANGED <<taskVars, sharedVars, rxVars, history, published, pings>>

-----------------------------------------------------------------------------

MqttStep ==
    \/ Open \/ AwaitConnack \/ AwaitSuback \/ StartTimers \/ StopTimers \/ Close
    \/ Prepare \/ Flush
    \/ Prune \/ Pruned \/ PruneHeld \/ Acknowledged \/ Search \/ Track \/ Tracked
    \/ PollTimesOut \/ ReceivePublish \/ Hold \/ Deliver \/ ReceivePubrel
    \/ ReceivePubrec \/ ReceivePubcomp \/ ReceivePingresp \/ ReceiveLate

TimerStep == CallbackTakesBuffer \/ CallbackSends

TimePasses == \E k \in DOMAIN qosQueue : Expire(k)

\* The places where the client stops for good: an "unreachable", the timer
\* task waiting for a suspended task, and the mqtt task, the only reader of
\* txQueue, waiting for room in it.
Stopped ==
    \/ panicked
    \/ suspended /\ callback # "none"
    \/ Head(todo).op = "prepare" /\ mutex # "free" /\ Len(txQueue) = TxRoom

Halt == Stopped /\ UNCHANGED vars

Next ==
    \/ MqttStep \/ OpenFails \/ AwaitTimesOut
    \/ TimerStep \/ PingTick \/ PublishTick
    \/ Suspend \/ Resume
    \/ TimePasses
    \/ \E k \in DOMAIN qosQueue : ExpireEarly(k)
    \/ \E k \in DOMAIN qos2Queue : HeldExpires(k)
    \/ BrokerReceives \/ Drop
    \/ \E m \in Messages : BrokerPublishes(m)
    \/ Halt

\* Both tasks run when they can, the broker answers, deadlines pass and the
\* user task resumes the client when the connection is back.
Fairness ==
    /\ WF_vars(MqttStep) /\ WF_vars(TimerStep) /\ WF_vars(BrokerReceives)
    /\ WF_vars(TimePasses) /\ WF_vars(Resume)

Spec == Init /\ [][Next]_vars
FairSpec == Spec /\ Fairness

-----------------------------------------------------------------------------
(* Properties *)

\* Types and ranges of the variables.
TypeOK ==
    /\ todo \in Seq([op : Ops, arg : Packet]) /\ todo # <<>>
    /\ state \in {"not_connected", "connecting", "connected", "err"}
    /\ suspended \in BOOLEAN /\ seen \in [at : Nat, len : Nat]
    /\ mutex \in {"free", "mqtt", "timer"}
    /\ txQueue \in Seq(Packet) /\ Len(txQueue) <= TxRoom
    /\ qosQueue \in Seq(Entry)
    /\ pingQueue \in BOOLEAN /\ timers \in BOOLEAN /\ panicked \in BOOLEAN
    /\ callback \in {"none", "ping", "publish"}
    /\ qos2Queue \in Seq(Held) /\ delivered \in [Messages -> Nat]
    /\ link \in {"down", "open", "broken"}
    /\ toBroker \in Seq(Packet) /\ toClient \in Seq(Packet)
    /\ session \in {"none", "fresh", "open", "subscribed"}
    /\ stored \subseteq Ids /\ forwarded \in [Ids -> Nat]
    /\ phase \in [Messages -> {"unsent", "published", "released", "done", "lost"}]
    /\ number \in [Messages -> Nat]
    /\ completed \subseteq Ids /\ raced \in BOOLEAN /\ early \in BOOLEAN
    /\ published \in 0..MaxPublishes /\ pings \in 0..MaxPings
    /\ faults \in 0..MaxFaults

\* Outbound QoS 2: the broker passes no message on twice, across retries,
\* reconnects and lost answers, as long as no callback ran inside an update of
\* qosQueue (mqtt.zig:700-717).
ForwardedOnce == ~raced => \A i \in Ids : forwarded[i] <= 1

\* Inbound: no message reaches the application twice, whatever identifiers are
\* used again after a reconnect (mqtt.zig:635-671, 719-743).
DeliveredOnce == \A m \in Messages : delivered[m] <= 1

\* Unless a deadline passed early, every PUBREC and PUBCOMP on its way finds
\* the entry it acknowledges: qos_packet_not_found and pubrel_packet_not_found
\* never end a connection (mqtt.zig:679, 706, 750).
AcksAreExpected ==
    ~early /\ ~raced =>
        \A k \in DOMAIN toClient :
            /\ toClient[k].type = "pubrec" => Has(qosQueue, "publish", toClient[k].id)
            /\ toClient[k].type = "pubcomp" => Has(qosQueue, "pubrel", toClient[k].id)

\* A PINGRESP always finds the time stamp of its ping: the .? of the handler is
\* safe, over every reconnect (mqtt.zig:684).
PongsHavePings == Has(toClient, "pingresp", 0) => pingQueue

\* Every publish of pubTimer (mqtt.zig:815) is acknowledged to the end (the ticks
\* are bounded, so the last one is too), unless the client stops for good in one of the places named by
\* Stopped.
PublishCompletes == []<>(completed = 1..published \/ raced \/ Stopped)
===============================================================================

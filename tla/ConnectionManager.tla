-------------------------- MODULE ConnectionManager --------------------------
(***************************************************************************)
(* The network mediator of MISO (src/src/connection.zig).  Tasks that wait *)
(* for data on a socket call wait_rx: it puts their deadline into a slot   *)
(* of a small pool and blocks on the slot's one-element answer queue.  One *)
(* task, run(), scans the pool, asks the network processor with sl_Select  *)
(* and answers: 1 for data, 0 for a missed deadline.                       *)
(*                                                                         *)
(* All tasks share one core and are preempted at any point, so every       *)
(* access to the pool, the queues and the mutex is a step of its own.      *)
(* Time is the tick count; MaxTime plays the part of the largest tick the  *)
(* unsigned 32-bit deadline can hold.                                      *)
(***************************************************************************)
EXTENDS Naturals, Sequences, FiniteSets

CONSTANTS
  Clients,     \* tasks that call wait_rx (MQTT, LwM2M, user task)
  Sockets,     \* socket descriptors of the CC3100
  Free,        \* -1: no socket
  NSlots,      \* length of the connection pool (4)
  Timeouts,    \* the timeouts of the calls, in ticks
  MaxTime,     \* bound on the tick count
  MaxSuspends  \* bound on the WiFi task's suspensions of run()

ASSUME PoolAssumption ==
  /\ NSlots \in Nat \ {0}
  /\ Free \notin Sockets
  /\ Timeouts \subseteq Nat
  /\ MaxTime \in Nat \ {0} /\ MaxSuspends \in Nat

Slots == 1..NSlots
NoTask == "none"
Manager == "select_task"

ASSUME TaskAssumption == {NoTask, Manager} \cap Clients = {}

VARIABLES
  \* the pool: connectionManagerElement, a function of the slots per field
  sd,         \* the socket of a slot, or Free
  deadline,   \* rx_wait_deadline_ms, 0 when nobody waits
  rxQueue,    \* rx_queue: requests to run(), at most one
  rxSignal,   \* rx_signal: answers of run(), at most one
  mutex,      \* the task that holds the pool's mutex
  \* the task run()
  mpc, idx,   \* its place, and the slot it works on
  mtime,      \* current_time of this round
  readSet,    \* the descriptors given to, then returned by, sl_Select
  maint,      \* maintenance # 0
  notified,   \* the task notification is pending
  suspended, suspends,
  \* the calls of wait_rx
  cpc,        \* place of each client
  csd,        \* its socket
  cslot,      \* conn, the slot it found
  cdl,        \* the deadline of its call
  answer,     \* what the call returns
  \* the environment
  now,        \* xTaskGetTickCount
  ready,      \* sockets with data to read
  \* history
  shared      \* a call was given the slot of another call in progress

pool    == <<sd, deadline, rxQueue, rxSignal>>
mlocals == <<idx, mtime, readSet, maint>>
mgr     == <<mpc, mlocals, notified, suspended, suspends>>
client  == <<cpc, csd, cslot, cdl, answer>>
vars    == <<pool, mutex, mgr, client, now, ready, shared>>

MPlaces == {"start", "scan", "inv_take", "invalidate", "timeout", "select",
            "report", "signal", "delay", "sleep"}
CPlaces == {"closed", "open", "claim", "claimed", "reset", "send", "notify",
            "wait", "done", "panic"}

\* Places of a call that has a slot and no answer yet.
Busy == {"claim", "claimed", "reset", "send", "notify", "wait"}

Init ==
  /\ sd = [i \in Slots |-> Free]
  /\ deadline = [i \in Slots |-> 0]
  /\ rxQueue = [i \in Slots |-> <<>>]
  /\ rxSignal = [i \in Slots |-> <<>>]
  /\ mutex = NoTask
  /\ mpc = "start" /\ idx = 1 /\ mtime = 0 /\ readSet = {} /\ maint = FALSE
  /\ notified = FALSE
  /\ suspended = TRUE /\ suspends = 0
  /\ cpc = [t \in Clients |-> "closed"]
  /\ csd = [t \in Clients |-> Free]
  /\ cslot = [t \in Clients |-> 1]
  /\ cdl = [t \in Clients |-> 0]
  /\ answer = [t \in Clients |-> 0]
  /\ now = 1
  /\ ready = {}
  /\ shared = FALSE

-----------------------------------------------------------------------------
(* wait_rx, and its callers *)

Move(t, from, to) == cpc[t] = from /\ cpc' = [cpc EXCEPT ![t] = to]

\* simpleConnection.open: sl_Socket hands out a descriptor that is not in use.
Open(t) ==
  /\ Move(t, "closed", "open")
  /\ \E s \in Sockets \ {csd[u] : u \in Clients} : csd' = [csd EXCEPT ![t] = s]
  /\ UNCHANGED <<pool, mutex, mgr, cslot, cdl, answer, now, ready, shared>>

\* simpleConnection.close: the pool is not told.
Close(t) ==
  /\ Move(t, "open", "closed")
  /\ ready' = ready \ {csd[t]}
  /\ csd' = [csd EXCEPT ![t] = Free]
  /\ UNCHANGED <<pool, mutex, mgr, cslot, cdl, answer, now, shared>>

\* Slot i is the first with s: what findSocket returns for a socket and
\* findFreeSocket for Free.
First(s, i) == sd[i] = s /\ \A j \in Slots : j < i => sd[j] # s

\* Mutant of InPool: only a slot with a deadline counts as registered.
InPoolWithDeadline(s) == \E i \in Slots : sd[i] = s /\ deadline[i] # 0

\* The scan of the pool finds s.
InPool(s) == \E i \in Slots : sd[i] = s

\* The deadline is computed and findSocket, then findFreeSocket scan the pool.
\* orelse unreachable when the pool is full.
WaitRx(t) ==
  /\ cpc[t] = "open"
  /\ \E d \in Timeouts : /\ now + d < MaxTime
                         /\ cdl' = [cdl EXCEPT ![t] = now + d]
  /\ \/ /\ InPool(csd[t])
        /\ \E i \in Slots : First(csd[t], i) /\ cslot' = [cslot EXCEPT ![t] = i]
        /\ cpc' = [cpc EXCEPT ![t] = "reset"]
     \/ /\ ~InPool(csd[t])
        /\ IF \E i \in Slots : sd[i] = Free
           THEN /\ \E i \in Slots : First(Free, i) /\ cslot' = [cslot EXCEPT ![t] = i]
                /\ cpc' = [cpc EXCEPT ![t] = "claim"]
           ELSE UNCHANGED cslot /\ cpc' = [cpc EXCEPT ![t] = "panic"]
  /\ shared' = (shared \/ \E u \in Clients \ {t} :
                             /\ cpc'[t] # "panic" /\ cpc[u] \in Busy
                             /\ cslot[u] = cslot'[t])
  /\ UNCHANGED <<pool, mutex, mgr, csd, answer, now, ready>>

\* findFreeSocket: mutex.take, then conn.sd = sd and mutex.give.
ClaimTake(t) ==
  /\ Move(t, "claim", "claimed")
  /\ mutex = NoTask
  /\ mutex' = t
  /\ UNCHANGED <<pool, mgr, csd, cslot, cdl, answer, now, ready, shared>>

ClaimSet(t) ==
  /\ Move(t, "claimed", "reset")
  /\ sd' = [sd EXCEPT ![cslot[t]] = csd[t]]
  /\ mutex' = NoTask
  /\ UNCHANGED <<deadline, rxQueue, rxSignal, mgr, csd, cslot, cdl, answer, now, ready, shared>>

ResetSignal(t) ==
  /\ Move(t, "reset", "send")
  /\ rxSignal' = [rxSignal EXCEPT ![cslot[t]] = <<>>]
  /\ UNCHANGED <<sd, deadline, rxQueue, mutex, mgr, csd, cslot, cdl, answer, now, ready, shared>>

\* rx_queue.send blocks while the queue is full.
SendRequest(t) ==
  /\ Move(t, "send", "notify")
  /\ rxQueue[cslot[t]] = <<>>
  /\ rxQueue' = [rxQueue EXCEPT ![cslot[t]] = <<cdl[t]>>]
  /\ UNCHANGED <<sd, deadline, rxSignal, mutex, mgr, csd, cslot, cdl, answer, now, ready, shared>>

NotifyManager(t) ==
  /\ Move(t, "notify", "wait")
  /\ notified' = TRUE
  /\ UNCHANGED <<pool, mutex, mpc, mlocals, suspended, suspends, csd, cslot, cdl,
                 answer, now, ready, shared>>

\* rx_signal.recieve blocks until there is an answer.
TakeAnswer(t) ==
  /\ Move(t, "wait", "done")
  /\ rxSignal[cslot[t]] # <<>>
  /\ answer' = [answer EXCEPT ![t] = Head(rxSignal[cslot[t]])]
  /\ rxSignal' = [rxSignal EXCEPT ![cslot[t]] = <<>>]
  /\ UNCHANGED <<sd, deadline, rxQueue, mutex, mgr, csd, cslot, cdl, now, ready, shared>>

\* wait_rx returns and its locals are gone; after an answer of 1 the caller
\* reads, perhaps all.
Return(t) ==
  /\ Move(t, "done", "open")
  /\ cslot' = [cslot EXCEPT ![t] = 1]
  /\ cdl' = [cdl EXCEPT ![t] = 0]
  /\ answer' = [answer EXCEPT ![t] = 0]
  /\ ready' \in (IF answer[t] = 1 THEN {ready, ready \ {csd[t]}} ELSE {ready})
  /\ UNCHANGED <<pool, mutex, mgr, csd, now, shared>>

-----------------------------------------------------------------------------
(* The task run() *)

Running(place) == ~suspended /\ mpc = place

\* The next round of the while loop begins, with fresh locals.
Loop ==
  /\ mpc' = "start" /\ idx' = 1 /\ mtime' = 0
  /\ readSet' = {} /\ maint' = FALSE

MStart ==
  /\ Running("start")
  /\ mpc' = "scan" /\ mtime' = now
  /\ UNCHANGED <<pool, mutex, idx, readSet, maint, notified, suspended, suspends,
                 client, now, ready, shared>>

\* The deadline of slot i once its request, if any, is taken: a request
\* postpones it, or cancels it with 0.
Requested(i) ==
  LET msg == Head(rxQueue[i]) IN
  IF rxQueue[i] # <<>> /\ (msg > deadline[i] \/ msg = 0) THEN msg ELSE deadline[i]

\* Mutant of Vacant: the check comes before the request is taken.
VacantBeforeRequest(i) == deadline[i] = 0

\* The slot has no deadline.
Vacant(i) == Requested(i) = 0

\* Mutant of Expired: a deadline is over one tick early.
ExpiredEarly(d) == d <= mtime

\* Mutant of AfterScan: the deadline is not reset.
AfterScanKeeps(d) == d

\* A deadline that is over is reset.
Expired(d) == d < mtime

AfterScan(d) == IF Expired(d) THEN 0 ELSE d

\* One round of the for loop over the pool.
MScan ==
  /\ Running("scan") /\ idx <= NSlots
  /\ \/ /\ sd[idx] = Free
        /\ idx' = idx + 1
        /\ UNCHANGED <<mpc, deadline, rxQueue, readSet>>
     \/ /\ sd[idx] # Free
        /\ rxQueue' = [rxQueue EXCEPT ![idx] = <<>>]
        /\ deadline' = [deadline EXCEPT ![idx] = AfterScan(Requested(idx))]
        /\ \/ /\ Vacant(idx)
              /\ mpc' = "inv_take" /\ UNCHANGED <<idx, readSet>>
           \/ /\ ~Vacant(idx) /\ ~Expired(Requested(idx))
              /\ readSet' = readSet \cup {sd[idx]}
              /\ idx' = idx + 1 /\ UNCHANGED mpc
           \/ /\ ~Vacant(idx) /\ Expired(Requested(idx))
              /\ mpc' = "timeout" /\ UNCHANGED <<idx, readSet>>
  /\ UNCHANGED <<sd, rxSignal, mutex, mtime, maint, notified, suspended, suspends,
                 client, now, ready, shared>>

\* Mutant of MInvalidate: the slot keeps its descriptor.
MInvalidateKeeps ==
  /\ Running("invalidate")
  /\ mutex' = NoTask
  /\ mpc' = "scan" /\ idx' = idx + 1 /\ maint' = TRUE
  /\ UNCHANGED <<pool, mtime, readSet, notified, suspended, suspends, client, now, ready, shared>>

\* Mutant of MInvalidate: the loop variable is advanced twice.
MInvalidateSkips ==
  /\ Running("invalidate")
  /\ sd' = [sd EXCEPT ![idx] = Free]
  /\ mutex' = NoTask
  /\ mpc' = "scan" /\ idx' = idx + 2 /\ maint' = TRUE
  /\ UNCHANGED <<deadline, rxQueue, rxSignal, mtime, readSet, notified, suspended,
                 suspends, client, now, ready, shared>>

\* A slot without a deadline is given up, under the mutex.
MInvTake ==
  /\ Running("inv_take")
  /\ mutex = NoTask
  /\ mutex' = Manager /\ mpc' = "invalidate"
  /\ UNCHANGED <<pool, mlocals, notified, suspended, suspends, client, now, ready, shared>>

MInvalidate ==
  /\ Running("invalidate")
  /\ sd' = [sd EXCEPT ![idx] = Free]
  /\ mutex' = NoTask
  /\ mpc' = "scan" /\ idx' = idx + 1 /\ maint' = TRUE
  /\ UNCHANGED <<deadline, rxQueue, rxSignal, mtime, readSet, notified, suspended,
                 suspends, client, now, ready, shared>>

\* rx_signal.send blocks while the queue is full.
Answer(a) ==
  /\ rxSignal[idx] = <<>>
  /\ rxSignal' = [rxSignal EXCEPT ![idx] = <<a>>]
  /\ idx' = idx + 1
  /\ UNCHANGED <<sd, deadline, rxQueue, mutex, mtime, readSet, notified, suspended,
                 suspends, client, now, ready, shared>>

\* Mutant of MTimeout: the missed deadline is not answered.
MTimeoutSilent ==
  /\ Running("timeout")
  /\ mpc' = "scan" /\ idx' = idx + 1 /\ maint' = TRUE
  /\ UNCHANGED <<pool, mutex, mtime, readSet, notified, suspended, suspends,
                 client, now, ready, shared>>

MTimeout == Running("timeout") /\ Answer(0) /\ mpc' = "scan" /\ maint' = TRUE

\* After the loop over the pool.  current_time is not used any more.
MDecide ==
  /\ Running("scan") /\ idx > NSlots
  /\ \/ /\ readSet # {}
        /\ mpc' = "select" /\ idx' = 1 /\ mtime' = 0 /\ UNCHANGED <<readSet, maint>>
     \/ readSet = {} /\ maint /\ Loop
     \/ /\ readSet = {} /\ ~maint
        /\ mpc' = "sleep" /\ idx' = 1 /\ mtime' = 0 /\ UNCHANGED <<readSet, maint>>
  /\ UNCHANGED <<pool, mutex, notified, suspended, suspends, client, now, ready, shared>>

\* sl_Select with a zero timeout leaves the descriptors with data in the set.
\* It fails on a descriptor that is closed by now, and the loop starts over.
MSelect ==
  /\ Running("select")
  /\ \/ /\ readSet' = readSet \cap ready
        /\ mpc' = IF readSet' # {} THEN "report" ELSE "delay"
        /\ UNCHANGED <<idx, mtime, maint>>
     \/ ~(readSet \subseteq {csd[t] : t \in Clients}) /\ Loop
  /\ UNCHANGED <<pool, mutex, notified, suspended, suspends, client, now, ready, shared>>

\* One round of the loop over the pool after sl_Select.
MReport ==
  /\ Running("report")
  /\ \/ idx > NSlots /\ Loop /\ UNCHANGED deadline
     \/ /\ idx <= NSlots /\ sd[idx] \in readSet
        /\ mpc' = "signal" /\ deadline' = [deadline EXCEPT ![idx] = 0]
        /\ UNCHANGED mlocals
     \/ /\ idx <= NSlots /\ sd[idx] \notin readSet
        /\ idx' = idx + 1
        /\ UNCHANGED <<mpc, mtime, readSet, maint, deadline>>
  /\ UNCHANGED <<sd, rxQueue, rxSignal, mutex, notified, suspended, suspends,
                 client, now, ready, shared>>

MSignal == Running("signal") /\ Answer(1) /\ mpc' = "report" /\ UNCHANGED maint

\* delayTask(50) ends.
MDelay ==
  /\ Running("delay")
  /\ Loop
  /\ UNCHANGED <<pool, mutex, notified, suspended, suspends, client, now, ready, shared>>

\* waitForNotify returns and clears the notification.
MSleep ==
  /\ Running("sleep") /\ notified
  /\ notified' = FALSE /\ Loop
  /\ UNCHANGED <<pool, mutex, suspended, suspends, client, now, ready, shared>>

-----------------------------------------------------------------------------
(* The WiFi task, time and the network *)

\* suspend_network_mediator, when the WiFi connection is lost.
Suspend ==
  /\ ~suspended /\ suspends < MaxSuspends
  /\ suspended' = TRUE /\ suspends' = suspends + 1
  /\ UNCHANGED <<pool, mutex, mpc, mlocals, notified, client, now, ready, shared>>

\* resume_network_mediator, when an address is acquired.  A task suspended in
\* a delay or a wait for a notification resumes after it; one suspended in a
\* wait for a queue or the mutex waits again.
Resume ==
  /\ suspended
  /\ suspended' = FALSE
  /\ IF mpc \in {"sleep", "delay"} THEN Loop ELSE UNCHANGED <<mpc, mlocals>>
  /\ UNCHANGED <<pool, mutex, notified, suspends, client, now, ready, shared>>

Tick ==
  /\ now < MaxTime
  /\ now' = now + 1
  /\ UNCHANGED <<pool, mutex, mgr, client, ready, shared>>

DataArrives(t) ==
  /\ csd[t] # Free /\ csd[t] \notin ready
  /\ ready' = ready \cup {csd[t]}
  /\ UNCHANGED <<pool, mutex, mgr, client, now, shared>>

-----------------------------------------------------------------------------
\* A call of wait_rx, once made, runs on.
Call(t) ==
  \/ ClaimTake(t) \/ ClaimSet(t) \/ ResetSignal(t) \/ SendRequest(t)
  \/ NotifyManager(t) \/ TakeAnswer(t) \/ Return(t)

Run ==
  \/ MStart \/ MScan \/ MInvTake \/ MInvalidate \/ MTimeout \/ MDecide
  \/ MSelect \/ MReport \/ MSignal \/ MDelay \/ MSleep

Next ==
  \/ \E t \in Clients : Open(t) \/ Close(t) \/ WaitRx(t) \/ Call(t) \/ DataArrives(t)
  \/ Run
  \/ Suspend \/ Resume
  \/ Tick

\* The scheduler is preemptive with time slices and nobody spins, the tick
\* interrupt is periodic, and a lost WiFi connection comes back.
Fairness ==
  /\ \A t \in Clients : WF_vars(Call(t))
  /\ WF_vars(Run)
  /\ WF_vars(Resume)
  /\ WF_vars(Tick)

Spec == Init /\ [][Next]_vars /\ Fairness

-----------------------------------------------------------------------------
(* Properties *)

TypeOK ==
  /\ sd \in [Slots -> Sockets \cup {Free}]
  /\ deadline \in [Slots -> 0..MaxTime]
  /\ rxQueue \in [Slots -> {<<>>} \cup {<<d>> : d \in 0..MaxTime}]
  /\ rxSignal \in [Slots -> {<<>>, <<0>>, <<1>>}]
  /\ mutex \in Clients \cup {NoTask, Manager}
  /\ mpc \in MPlaces /\ idx \in 1..(NSlots + 1)
  /\ mtime \in 0..MaxTime /\ readSet \subseteq Sockets /\ maint \in BOOLEAN
  /\ notified \in BOOLEAN /\ suspended \in BOOLEAN /\ suspends \in 0..MaxSuspends
  /\ cpc \in [Clients -> CPlaces]
  /\ csd \in [Clients -> Sockets \cup {Free}]
  /\ cslot \in [Clients -> Slots]
  /\ cdl \in [Clients -> 0..MaxTime]
  /\ answer \in [Clients -> {0, 1}]
  /\ now \in 1..MaxTime
  /\ ready \subseteq Sockets
  /\ shared \in BOOLEAN

\* A descriptor is in at most one slot, though the tasks scan the pool outside
\* the mutex, a closed socket stays in its slot and sl_Socket hands its
\* descriptor to another task: findSocket returns one slot, and an answer can
\* never go to the other.
SocketInOneSlot ==
  \A i, j \in Slots : i # j /\ sd[i] # Free => sd[i] # sd[j]

\* run() never gives up a slot with a deadline: its decision to invalidate is
\* taken before the mutex, and claims and requests may come in between.
DeadlineKeepsSlot == \A i \in Slots : deadline[i] # 0 => sd[i] # Free

\* The orelse unreachable of wait_rx: a call always finds a slot.
PoolNeverExhausted == \A t \in Clients : cpc[t] # "panic"

\* What a call returns is true of its own socket: 1 only when it has data, 0
\* only when the deadline of the call is over.  An answer to an earlier call,
\* to a closed socket or to another task is never taken for it, until wait_rx
\* has given two calls the same slot: that is the one way to a wrong answer.
AnswersAreTruthful ==
  ~shared =>
    \A t \in Clients : cpc[t] = "done" =>
      IF answer[t] = 1 THEN csd[t] \in ready ELSE now > cdl[t]

\* run() never blocks on an answer: the answer queue of the slot it answers is
\* empty (connection.zig:245, 265).  A full one would stop it for all callers
\* until the next call on that slot, and only two calls on one slot fill it.
AnswerQueueHasRoom ==
  ~shared /\ mpc \in {"timeout", "signal"} => rxSignal[idx] = <<>>

\* When run() waits for a notification there are no deadlines
\* (connection.zig:282): no call that gave its request away waits.
SleepsOnlyWithoutDeadlines ==
  Running("sleep") /\ ~notified =>
    \A t \in Clients : cpc[t] = "wait" => rxSignal[cslot[t]] # <<>>

\* A call gets its request through, though run() may be suspended with the
\* pool's mutex or block on the answer queue of another task, and a call whose
\* deadline run() has taken over returns, by data or by time.
CallsAreServed ==
  \A t \in Clients :
    /\ cpc[t] \in Busy \ {"wait"} ~> (cpc[t] = "wait" \/ shared)
    /\ (cpc[t] = "wait" /\ deadline[cslot[t]] # 0) ~> (cpc[t] = "done" \/ shared)

=============================================================================

# Verification of the MISO firmware

MISO is the firmware of an XDK110 sensor node: an EFM32 microcontroller, a
CC3100 WiFi processor on SPI, an SD card, FreeRTOS, and an application written
in Zig on top of C drivers. A separate bootloader installs new firmware from
the card. This directory holds TLA+ models of the parts whose correctness
depends on failures, order and concurrency, TLC configurations that check them
on small instances, and TLAPS proofs for every instance.

## The system

| Part | State it keeps | Operations | Talks to |
|---|---|---|---|
| Bootloader (`boot/app.zig`, `boot/firmware.zig`) | update phase, lengths; flash, APP.BAK, candidate file | check, backup, erase, flash, verify, restore, jump | NVM counters, FatFs, MSC, mcuboot |
| NVM objects (`nvm.zig`) | counters update_request, boot_request, firmware_size; configuration objects | read, write, increment, clear | bootloader, user task, configuration |
| Network mediator (`connection.zig`) | pool of four slots, each with two one-element queues and a deadline; a mutex | wait_rx, the task run() | sl_Select, WiFi task (suspend, resume), all connections |
| Connection (`simpleConnection.zig`, `mbedtls.zig`) | a descriptor, a TLS session | open, close, send, recieve, waitRx | mediator, CC3100 |
| MQTT client (`mqtt.zig`) | transmit and QoS queues, work buffer, packet identifier, ping and publish timers | connect, loop, publish, disconnect | connection, FreeRTOS timers, user task |
| User task (`user.zig`, `events.zig`) | connectivity and application state | starts and stops the services, downloads firmware | WiFi task, MQTT, LwM2M, HTTP, SNTP |
| WiFi service (`wifi_service.c`) | connection state | connect, reconnect, event handlers | CC3100, user task, mediator |
| LwM2M client (`lwm2m.zig`, `csrc/src/lwm2m`) | Wakaama context, connections | step, suspend, resume, register | connection, user task |
| HTTP downloader (`http.zig`) | parser state, range | range requests into a file | connection, FatFs |
| Configuration (`config.zig`, `config.c`) | configuration, hash of its file | load, verify, store | FatFs, NVM, bootloader (hashes) |
| SNTP (`ntp.zig`) | clock offset | one exchange | connection |
| SimpleLink driver (`driver.c`, `osi_freertos.c`, `network.zig`) | control block: global lock, flow control, interrupt and read counters; spawn queue | commands, sends, receives, spawned reads, error handling | every task that uses the network, SPI transport, event handlers |
| SPI transport (`board_CC3100.c`) | transfer state | read, write, callbacks | DMA, SimpleLink |
| Drivers, sensors, XMODEM, board support | registers | | |

What is hard here: the bootloader can lose power between any two writes and
every device it uses can fail in the middle of a phase; the tasks of the
application run on one core under a preemptive scheduler with time slices, and
share the pool, the queues and the notification words with few locks; the
WiFi task suspends other tasks wherever they are; answers race timeouts in the
mediator, the MQTT client and the SPI transport.

What makes each part correct:

- Bootloader: the device always ends up with an image it can run; only signed
  images are installed; the update survives power losses; the boot ends.
- Mediator: a call gets the answer for its own socket; a deadline is served;
  the pool never runs out; nobody waits forever.
- MQTT: no message is lost or acknowledged twice, a reconnect starts from
  clean queues, no callback blocks the timer task.
- User, WiFi and LwM2M: the services run exactly while there is connectivity.
- SimpleLink driver: one task at a time on the transport; a call gets its own
  answer, returns, and leaves no lock behind; no message is left unread.
- HTTP: the file is the concatenation of its ranges. Configuration: the stored
  hash belongs to the stored configuration.

`PROJECT.json` lists every part with its status, the source lines behind every
definition, and the hazards with the properties that cover them.

## Modules

| Module | What it is |
|---|---|
| `FirmwareUpdate` | the bootloader |
| `AtomicInstall` | what an update promises: it is settled in one step |
| `MCFirmwareUpdate` | instances for TLC |
| `FirmwareUpdateProofs` | invariants under every mix of faults |
| `FirmwarePowerProofs` | power losses only: safety of the jump, refinement of `AtomicInstall` |
| `ConnectionManager` | the network mediator and its callers |
| `MCConnectionManager` | instances for TLC |
| `ConnectionManagerProofs` | the pool for any number of tasks, sockets and slots |
| `ConnectionAnswersProofs` | true answers, and room for them, for any number of callers |
| `SimpleLinkDriver` | the host side of the CC3100: callers, interrupt, spawn task, flow control |
| `MCSimpleLinkDriver` | symmetry for TLC |
| `SimpleLinkDriverProofs` | locks, counters, credit, answers and readers for any number of tasks |
| `MqttClient` | the MQTT task, its timer callbacks and the broker |
| `MqttClientProofs` | the MQTT client for any number of messages, ticks and faults |
| `MqttOutboundProofs` | the client's own messages: none is passed on twice, and every answer finds its entry |
| `Lifecycle` | WiFi task, event handlers, user task, and the clients they start and stop |
| `LifecycleProofs` | reconnection and suspension for any number of faults |

The modules describe the system in layers: `SimpleLinkDriver` is what
`sl_Select`, `sl_Send` and `sl_WlanConnect` do inside, `ConnectionManager` is
built on `sl_Select`, `MqttClient` on waitRx and send, and `Lifecycle` starts,
suspends and resumes the tasks of the other two. Each layer appears in the one
above as an external action with the outcomes the layer can have.

### FirmwareUpdate

The variables are the persistent state of the device (`flash`, the candidate
`cand`, APP.BAK as `bakExists` and `bak`, the NVM counters `updateRequested`
and `fwSize`), the state of the boot task (`pc` is `update_phase`, refined
where a phase has several steps that a failure can separate; `machine` is the
call of `firmwareUpdateStateMachine` in progress), and two history variables
that appear in properties only.

A block of flash is the set of images whose bits were programmed into it since
its last erase. An erased block is empty, and programming adds: exactly what
NOR flash does, where a write only clears bits. A file is a sequence of
blocks; SHA-256 values are taken to agree iff the contents do, and
`bootutil_img_validate` is the set `Signed`. The backup is synced to the card
after every block, so a power loss leaves the blocks written so far.

Each phase is an action per loop iteration plus one action per way it can
fail. Fault kinds are selected by the constant `Faults` and limited by
`MaxFaults`:

| Kind | Where |
|---|---|
| `power` | between any two steps |
| `sd` | mount, open, read, write, or the heap, with an error code |
| `hash` | an error inside the hash comparison of `checkFirmwareImage` |
| `flash` | `MSC_ErasePage`, `MSC_WriteWord` return an error |
| `sd_damage`, `flash_damage` | a block is stored wrong, without an error |
| `nvm` | NVM3 returns an error |

`unreachable` and `catch unreachable` are the phase `panic`, left by a power
cycle. The application appears as `RequestUpdate` (setUpdateRequest and a
reset) and `AppReset`. In this commit the call of `setUpdateRequest` in
`user.zig` is commented out; the bootloader is modelled for the request it is
written for.

### ConnectionManager

One slot has a descriptor, a deadline, a request queue and an answer queue.
`wait_rx` is seven steps (find, take the mutex, claim, reset the answer queue,
send, notify, wait) because a task can be preempted between them; `run()` is
one step per slot and per blocking call. `sl_Select` is external: it returns
the descriptors with data, and may fail when one of them was closed. The scan
of `findSocket` and `findFreeSocket` is one step: only its caller can register
its own descriptor meanwhile. `tx_queue` and `tx_signal` have no user in the
repository and are left out. Locals are set to a fixed value where they go out
of scope. The history variable `shared` records that a call was given the slot
of another call in progress, which two callers of `findFreeSocket` can bring
about (Observations); what is promised about answers is promised until then.

### SimpleLinkDriver

A caller is at one of the places of `_SlDrvCmdOp`, `_SlDrvDataReadOp` or
`_SlDrvDataWriteOp` at which it can block, be preempted or fail; the steps in
between change nothing that others see. `pendingRx` is `RxIrqCnt` minus
`RxDoneCnt`, `nwp` holds the messages the processor has announced, and `owes`
what it still has to say to each task. Reading a message (`MsgRead`) takes the
header, and with it the oldest message and the free buffers, and signals the
caller it is for. Fault kinds are selected by the constant `Faults`:

| Kind | Where |
|---|---|
| `timeout` | a response (driver.c:1366) or an event (2106) does not come in time; the first leads to `_SlDriverHandleError`, the second also to a reset of the board (`CC3100_GeneralEvtHdlr`) |
| `write` | a transfer of a command or of data fails (667, 851) |
| `read` | a transfer after the header of a message fails: the message is consumed, `RxDoneCnt` is not counted up, the lock is given back (1320, 1439) |

`uncounted` is a history variable: the messages that failed reads consumed. In
this build the search for the sync pattern has no limit (`sl_GetTimestamp` is
not defined in `csrc/config/user.h`), so the abort of driver.c:967-973 is never
taken, and buffers are static, so the check at 1015 cannot fail. A reader that
finds no message therefore goes on looking, with the lock held; in the model it
is disabled. Two kinds of failed read are not modelled: one of the header
itself, whose result the caller takes for success and goes on with an
uninitialised header, and one of received data after driver.c:1088, which also
leaves `ProtectionLockObj` locked, as does data that comes for a recv that has
timed out; the pool and its lock are not part of the model.

### MqttClient

`todo` is what the mqtt task still has to do, a sequence of steps: connecting,
one round of `loop`, the handling of one packet, or disconnecting; an error
(`Fail`) replaces it by the way out. `callback` is the timer callback in
progress, which goes before the mqtt task unless it is blocked. An update of
`qosQueue`, which has no lock, is two steps: reading the list (`seen`) and
writing it. The broker and the connection are external. Of a message is kept its
QoS and whether it fits into the line it is printed in (`LongMessages`); topics
are taken to be at least as long as the firmware topic they are compared with
(mqtt.zig:655).

### Lifecycle

The WiFi task, its event handlers and the user task are programs of their own
that share the notification words and `wifi_status.connection`. Notifications
are sets of bits; taking one follows `xTaskNotifyWait`. The MQTT client is
running, suspended or not started; the LwM2M client also fails and leaves.

## Runs

| Run | Result | What it shows |
|---|---|---|
| `FirmwareFaults` | pass | any two faults of all kinds, any candidate: backup before erase, request cleared only when the flash is settled, no oversized image in the flash phase; after one fault at most, what is started was copied whole; once the faults stop every boot with a usable candidate or a backup ends |
| `FirmwarePower` | pass | three power losses: refinement of `AtomicInstall`, only a complete signed image is started and only a signed one installed, and the update is installed in the end |
| `FirmwareHashError` | violation | a failed hash skips the signature check |
| `ConnectionTwoClients` | pass | two callers, two slots, two descriptors that are closed and used again: until both are given one slot, true answers and a run() that never blocks; no double registration and no lost deadline at all |
| `ConnectionOneClient` | pass | one caller, two slots, three descriptors: every call gets its request through and every call run() has taken over returns, also across a suspension |
| `ConnectionPool` | pass | one caller, four slots, five sockets: the pool is never exhausted |
| `ConnectionLostWakeup` | violation | run() sleeps while a caller waits |
| `DriverCalls` | pass | no faults, two callers, two unread messages: own answers, no lock left behind, no message without a reader, every call returns |
| `DriverFaults` | pass | timeouts of commands and events, failed reads and writes, a spawn queue that overflows, a reset: the count of messages is wrong by the failed reads and nothing else, credit covered, one user of the transport |
| `DriverStranded` | violation | three unread messages: one is left in the processor without a reader |
| `MqttSession` | pass | both directions, a message too long to print, pings, and one fault anywhere: exactly once, expected acknowledgements, every publish completes |
| `Lifecycle` | pass | three faults, both applications: no lost reconnection, no unnoticed loss, mediator and MQTT client run in the end |

The violations are disagreements between the code and its own comments; each
is a finding in `PROJECT.json` with the line it contradicts.

Bounds. Three blocks of flash, images of one and two blocks, one larger than
the flash and one unsigned, are enough for every comparison of lengths to go
both ways and for an erase or a write to stop at its start, middle and end.
Two faults are the smallest number that breaks what one does not (an
interrupted attempt and a failure in the next). `FirmwarePower` and
`FirmwareHashError` have candidates that exist and fit, which is what
`downloadAndVerify` checks before it asks for an update (user.zig:238-245);
`FirmwareFaults` has all of them. For the mediator, `ConnectionTwoClients` has
timeouts of zero and no suspension, and three ticks, which leave room for a
deadline to pass and for a call after it; both callers open and close any number
of times. `ConnectionOneClient` has two slots and three descriptors, so that a
descriptor is reused and a stale slot lies beside a live one, and a tick more. `ConnectionPool` has the four
slots of the code and five sockets, which its symmetric names make cheap, and
timeouts of zero, the shortest the callers use (the LwM2M client waits 0 or 1
seconds, miso_lightclient.c:451-465) and the ones that leave the most stale
slots behind. Four is the exact number: with two or three slots TLC finds an
exhausted pool within the same bounds. That four are enough for one caller is
checked, not proved. Deadlock checking is off in these runs
because time stops at `MaxTime`.

In the driver two callers and three calls give every pair of kinds of call and
a third that meets what they left; three transmit buffers are one more than a
send wants to see, so that one transfer takes the credit away; the spawn queue
of one place of `DriverFaults` overflows, that of four (the size in
`network.zig`) cannot with two unread messages. `DriverFaults` has no
unsolicited events, which its other messages stand for: they are in `DriverCalls`.
Deadlock checking is off in it, because a reader without a message, a task at a
deleted mutex and a lock that is kept are what it looks at. `MaxUnread` is a statement about the
processor, not only a bound: with two messages announced and not read the
properties of `DriverCalls` hold, with three `NoMessageStranded` fails
(`DriverStranded`), and so does `CallsReturn`.
The `command` kind is left out of the two runs without faults, where a refused
async call is the same thing. `MqttSession` has room for two packets in
`txQueue` (1024 bytes in the code): enough for it to be full. Two messages of
QoS 2, one of them too long to print, and one of QoS 1 reuse an identifier
across a reconnect; three units of
traffic in all keep the run within reach. In `Lifecycle` three faults are a
loss during the connection, one during the NTP exchange or the work, and one
more while the first is being handled.

Deadlock checking is on in `DriverCalls`, `MqttSession` and `Lifecycle`. Their
specifications have an explicit step for the states in which the system may
rest: `Quiet` when all calls have returned, `Halt` in the three places where
the MQTT client stops for good (below), and `UserGetsNoTime`.

Fairness. The boot task is the only task of the bootloader, so its steps are
weakly fair; so is the power cycle that leaves a panic. In the mediator every
call once made, run() and the tick are weakly fair (preemptive scheduling with
time slices among equal priorities); `Resume` is fair, since the WiFi
task reconnects, and a task is not obliged to make a call. Faults are never
fair. For two callers the mutex would have to be fair as well, so liveness of
the mediator is checked with one. In the driver one condition is enough: some task that can run runs and
the processor says what it owes; with the calls bounded nobody is overtaken for
ever. In the MQTT client both tasks run, the broker answers, deadlines pass
and the user task resumes the client. In the life cycle tasks and timers run,
and the access point and the time server answer when no fault is left.

## Proofs

`FirmwareUpdateProofs`, for every `NPages`, `SdPages`, `Images`, `Signed`,
`SizeOf`, `Candidates`, `Faults` and `MaxFaults` allowed by
`ConstantsAssumption`: type correctness, `BackupPreservesPrior`,
`ClearOnlyWhenSettled`, `FlashPhaseFits`, and `OnlyValidatedFlashed` under the
assumption that the fault `hash` does not occur (the run `FirmwareHashError`
shows it is needed). None of these is inductive alone. The inductive invariant
`IInv` adds which call of the state machine a phase belongs to, that the flash
is untouched up to the end of the backup, that APP.BAK is the copy from the
first erase on, that an accepted candidate fits, what the lengths are in each
phase, and that the image is verified before its size is written.

`FirmwarePowerProofs` assumes `PowerOnly`: no fault but power losses (any
number), a card with room, and candidates that exist and fit. On top of `IInv`
it needs that no restore ever runs, that outside an attempt a pending request
explains a broken flash, and how far the erase and the write have come. From
these follow `JumpsToBootableImage` and that the bootloader implements
`AtomicInstall!SafeSpec`: only clearing the request is visible, every other
step is a stutter.

`ConnectionManagerProofs`, for any number of tasks, sockets and slots: type
correctness, `SocketInOneSlot` and `DeadlineKeepsSlot`. The invariant adds
that two callers never own the same descriptor, that a caller about to claim a
slot is in none, and that a slot being given up has deadline 0. The mutex plays
no part in the argument.

`ConnectionAnswersProofs` proves `AnswersAreTruthful` and `AnswerQueueHasRoom`
for any number of callers, sockets, slots and timeouts, as long as no call was
given the slot of another one (`shared`). A call is followed through its stages:
it is asked (in the request queue), taken over by run(), being answered,
answered; in each stage the slot it was given is its own, the queues of the slot
hold nothing older, and the set of descriptors that sl_Select returned was asked
for this call. Calls on different slots do not disturb each other, because run()
works on one slot at a time and a caller touches its own only. From this follow
true answers, for a socket that is closed and a number that is used again as
well, and that the queue run() sends an answer to is empty. Once a slot is
shared both are false in the model; see Observations.

`SimpleLinkDriverProofs`, for any number of tasks, calls, messages and buffers:
type correctness, `MessagesAreCounted`, `CreditIsCovered` and
`TransportIsExclusive`, under every fault of the model. The invariant adds
that the holder of each lock is at a place inside it, that a task that has
tested the credit still finds it when it spends it (nobody else spends credit
without `TxLockObj`), and which kinds of call reach which places; so the
assertions before the transfers never fail (`CreditSuffices`). A second
invariant, under the assumption that nothing times out and no read fails (`Reliable`), adds that at
most one answer is under way and that it belongs to the task that waits for it
with the lock; from it follow `AnswerIsOwn` and `LocksAreReturned`. A third,
`ReadersForAll`, is for `NoMessageStranded`: while no command reads, what is
pending is covered by the spawns that are queued or running, but for one message,
for which a command that leaves is about to ask. It needs what the theorem
assumes: no timeouts and no failed transfers (a failed command leaves `IsCmdRespWaited`
set without a reader, a failed read leaves a count without a message), at most two messages announced and not read, and room for two
spawns. `DriverStranded` shows that three messages are too many.

`MqttClientProofs`, for every set of messages, every size of `txQueue` and any
number of ticks and faults: type correctness, `PongsHavePings` and
`DeliveredOnce`. `TInv` says what `todo` looks like: its last step is one at which the
task chooses what to do next, and a step that uses what was read of `qosQueue`
is never put off, so that what was read is still there. For the
other two, something is followed that is in at most one place. `OnePing`: the ping
of a queued time stamp is in the callback, in `txQueue` or on the connection, as
a PINGREQ or as its answer, or lost. `OnePlace`: a message that the broker
has sent is on the connection, in `todo` or in `qos2Queue`, or lost, until it is
delivered, and the broker does not send it again. Identifiers play no part in
it: a stale entry of `qos2Queue` is delivered under the identifier of another
message, but once.

`MqttOutboundProofs`, under the same assumptions, proves `ForwardedOnce` and
`AcksAreExpected`. The invariant of the first, `FInv`, holds as long as no callback ran inside an update of
`qosQueue` (`raced`); then what a step read of the list is all there is
(`Current`), and what it takes out is the entry it had found. For each
identifier (`Handshake`): the publish is tracked in one place, as an entry or as
a step of the task that will put it back (`OneEntry`); a step that sends it again
is followed by one that tracks it again (`Sends`); as long as it can be sent again
(`Kept`) the client has no PUBREL under it, neither as a step nor as an entry nor
on the way (`NotYet`); afterwards no publish on the way to the broker follows
the PUBREL, neither in `txQueue` nor on the connection (`Order`). So when the
broker releases a message no second copy can reach it (`Passed`): a copy would
have to come from an entry the PUBREC has taken out.

`AcksAreExpected` needs, besides `raced`, that no deadline passes before a late
answer (`early`). Its invariant `AInv` follows, for each identifier (`Follow`), the
packet that waits for an answer and what tracks it. Of publish, PUBREC, PUBREL
and PUBCOMP one at most is under way, as a step that sends again, in `txQueue`
or on the connection in either direction (`OneToken`), and one entry at most
tracks it, or a step that will put the entry back (`OneRecord`); only between the
receipt of a PUBREC and the step that takes the old entry out are there both
(`Leaving`). What is under way is tracked: in `todo` and `txQueue` by a step or
an entry, on the connection by an entry of its kind (`Backed`), because the
steps that send and track again come at once (`Ordered`) and nothing is sent
before they are done. A retry does not add a second packet: its entry is late
only when nothing is under way (`LateSilent`), and Prune takes late entries only
(`Overdue`). `Search` never finds an entry, so no PUBREL is dropped as a duplicate.

`LifecycleProofs`, for any number of faults: type correctness,
`ReconnectsAlways` (a request for a connection, its outcome or an event that
leads to one is always on its way) and `SuspensionIsKnown` (wherever the user
task is, a suspended mediator under a running client implies a pending `off`,
and the NTP exchange succeeds only without a suspension).

Liveness (`BootTerminates`, `UpdateSurvivesPowerLoss`, `CallsAreServed`,
`CallsReturn`, `PublishCompletes`, `MediatorFollowsLink`, `AppRuns`, the
fairness part of the contract) stays with TLC: the prover does not handle
ENABLED and fairness. Of the safety properties of the passing runs
`JumpsToCompleteCopy` and `PoolNeverExhausted` are model-checked only; the
others are proved, some of them under the assumptions named above.

## Observations

What the models show and no run states, because the property would be one that
fails. Each was seen by changing the constants or the property of a run.

Bootloader:

- `SdPages` = 2, no faults: on a card without room `file.write` reports 0 bytes
  and no error, and the loop of `backupFirmware` never ends (firmware.zig:103).
- Faults = {"sd_damage"}: a backup that failed its verification is answered
  with `firmwareRestore()`, which programs that very backup over the healthy
  image and boots (app.zig:271), with `JumpsToBootableImage` in place of
  `JumpsToCompleteCopy`. A missing candidate is answered in the same way and
  rewrites the running image with the backup of an earlier update.
- A power loss or an NVM error between `verifyImage` and `setFirmwareSize` leaves
  the size of another image in NVM, which the next backup uses (app.zig:135,
  71). That backup can be too short; when the candidate after it is missing, the
  short backup is restored and the application starts incomplete. One fault is
  enough, with `JumpsToBootableImage` and any candidate.
- A missing or oversized candidate without an APP.BAK makes the loop of
  `taskFunction` run for ever, without any fault: `firmwareUpdate` fails,
  `firmwareRestore` fails, and the request is kept (app.zig:247-276). So does
  any error that repeats. `BootTerminates` is about the boots that have something
  to program and errors that stop.

Mediator:

- With two callers `findFreeSocket` can give both the same slot, and a call
  returns the answer for the other socket (connection.zig:338). run() can then
  also block on the full answer queue of that slot, until the next call on it.
- With two callers and four slots the pool runs out and `wait_rx` reaches its
  `orelse unreachable`.
- Both are within reach of the scheduler: the mediator has priority 4, the same
  as the tasks of MQTT and LwM2M (connection.zig:356, config.zig:63-67), and
  FreeRTOS preempts and slices time among equals (FreeRTOSConfig.h:83, 90). The
  waits of the user task for NTP and HTTP overlap an MQTT task that is suspended
  inside wait_rx or still runs (user.zig:144, 155, 172).

SimpleLink driver, with Faults = {"timeout"}:

- An event that does not come in time resets the board; in the other timeout it
  goes on with the mutex deleted.
- The late response is read by the next command as its own, or by the spawn
  task, which returns and keeps the global lock (driver.c:1475).
- The comment at driver.c:2137 says that the tasks that wait for the deleted
  mutex return with an error; `vSemaphoreDelete` wakes nobody, and they never
  leave the API. A data call that meets the error handling returns with
  `TxLockObj` (driver.c:735, 739).

With Faults = {"write"}: a failed command leaves `IsCmdRespWaited` set
(driver.c:670), and messages have no reader until the next command.

With Faults = {"read"}: the message of a failed read is gone and its interrupt is
not counted as done (driver.c:1320-1330, 1439-1449). From then on the count is one
too high: the reader of the last message goes on to look for one more, with the
global lock held and without a limit. A command whose response could not be read
leaves `IsCmdRespWaited` set as well, and the completion of an async call whose
response was lost can end a later call of the same kind.

MQTT client:

- It stops for good in three places, gathered in `Stopped`: a ping that was
  not answered leaves its time stamp in `pingQueue`, and the next tick of the
  timer is `catch unreachable` (mqtt.zig:804; the branch that would reset the
  queue waits for an error nothing returns); a callback blocks on the buffers
  of a suspended mqtt task, and with it the timer task that also handles the
  interrupts of the CC3100, so that the WiFi connection cannot return; the mqtt
  task waits for room in `txQueue`, whose only reader it is.
- An append of a callback inside an update of `qosQueue` is lost, or another
  entry is; a message can then be forwarded twice or never.
- After a reconnect a stale entry of `qos2Queue` is delivered in place of a new
  message with the same identifier. Packets left in `txQueue` go out before the
  CONNECT, and the broker closes the connection.
- A deadline that passes before a late answer makes the client send again; the
  second PUBREC finds no entry and ends the connection.
- A message with more than 38 bytes of topic and payload does not fit into the
  buffer of 64 bytes it is printed in (mqtt.zig:663, 732). `bufPrint` fails and
  the connection is closed, after the PUBACK or the PUBCOMP was sent: the broker
  counts the message as delivered, and the application never sees it
  (`LongMessages`). At line 732 its memory is not freed either.
- A publish can be complete for the client and never have been passed on: the
  session is clean (mqtt.zig:103), so the broker forgets the stored message when
  the connection breaks, but `qosQueue` keeps the PUBREL and sends it on the next
  connection, where its PUBCOMP completes the publish. One broken connection is
  enough, with the invariant `completed \subseteq {i \in Ids : forwarded[i] = 1}`.
  What holds, and is proved, is that nothing is passed on twice.

Life cycle:

- `taskFunction` of the LwM2M client runs into the `unreachable` after its loop
  when it is resumed for the first time: `ret` is still 1 (lwm2m.zig:97-107,
  action `Lwm2mLeaves`).
- A loss of connectivity while the user task waits for the first connection
  stays in its notification and stops the MQTT client after its start, although
  it is connected (user.zig:131); `AppRuns` names the case with `earlyOff`.
- The wait for the suspension of the LwM2M task is ended by any notification
  (user.zig:147).

## Plan

1. `ActionPool`: the free, pending and active lists of `driver.c` (1700-1960)
   with waits on a socket that is in use, composed with `SimpleLinkDriver`.
2. `MqttClient`: an abstract specification of at-most-once delivery in both
   directions and the refinement; what a publish that completes within one
   connection promises.
3. `ConfigStore` (file, hash and NVM with crashes), `HttpDownload` (ranges and
   the response loop), `SpiTransfer` (DMA against timeout), `TlsTimer`, `Sntp`,
   `Xmodem`.
4. Mediator: the wrap of the tick; callers composed with the suspension of
   their own tasks.

## Not modelled

FreeRTOS, FatFs, mbedTLS, Wakaama, mcuboot and the firmware of the network
processor are external and appear through what the code expects of them; most
of the C code in the repository is theirs. Of the SimpleLink host driver the
encoding of commands (`socket.c`, `wlan.c`, `netapp.c`, `fs.c`) and the pool
are not modelled. Register access, sensors, LEDs and the start-up code have no
behaviour worth a state machine.

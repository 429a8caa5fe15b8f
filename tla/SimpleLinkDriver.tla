--------------------------- MODULE SimpleLinkDriver ---------------------------
(***************************************************************************)
(* The host side of the CC3100 network processor: simplelink/driver.c with *)
(* the FreeRTOS objects under it (oslib/osi_freertos.c) and the spawn task *)
(* of src/network.zig.                                                     *)
(*                                                                         *)
(* Application tasks call four kinds of API:                               *)
(*   "command"  _SlDrvCmdOp and its response (sl_Socket, sl_Close, ...)    *)
(*   "async"    a command whose outcome comes later, as an event           *)
(*              (sl_Connect, sl_Select, sl_NetAppDnsGetHostByName)         *)
(*   "send"     _SlDrvDataWriteOp: no answer                               *)
(*   "recv"     _SlDrvDataReadOp: the data comes later                     *)
(* One mutex (GlobalLockObj) serialises the transport.  A message from the *)
(* processor raises an interrupt, which the timer daemon turns into        *)
(* _SlDrvRxIrqHandler; it is read either by the task that waits for its    *)
(* command response or by the spawn task.  Data calls also draw on the     *)
(* transmit buffers of the processor (TxPoolCnt) under TxLockObj.          *)
(*                                                                         *)
(* Each caller has a pool object of its own; the pool and its lock         *)
(* (ProtectionLockObj) are not modelled.  A transfer of the bus may fail,  *)
(* except those that read the header of a message and those that read      *)
(* received data while ProtectionLockObj is held (driver.c:967, 1091).     *)
(***************************************************************************)
EXTENDS Integers, Sequences

CONSTANTS
    Tasks,            \* tasks that call the API
    Spawn,            \* the SimpleLink spawn task
    NoOne,            \* no owner, no addressee
    CallKinds,        \* the kinds of call the tasks make
    MaxCalls,         \* bound: calls in all
    MaxEvents,        \* bound: unsolicited events of the processor
    MaxUnread,        \* bound: messages of the processor not yet read
    SpawnQueueLength, \* the spawn queue (4 in network.zig)
    TxBuffers,        \* transmit buffers of the processor
    Faults            \* subset of FaultKinds

Kinds == {"command", "async", "send", "recv"}
FaultKinds == {"timeout", "write", "read"}

ASSUME DriverAssumption ==
    /\ Spawn \notin Tasks /\ NoOne \notin Tasks /\ Spawn # NoOne
    /\ CallKinds \subseteq Kinds
    /\ MaxCalls \in Nat /\ MaxEvents \in Nat
    /\ MaxUnread \in Nat \ {0}
    /\ SpawnQueueLength \in Nat \ {0}
    /\ TxBuffers \in Nat \ {0}
    /\ Faults \subseteq FaultKinds

FLOW_CONT_MIN == 1

\* The credit a data call wants to see before it goes on.
Credit(kind) == IF kind = "send" THEN FLOW_CONT_MIN + 1 ELSE FLOW_CONT_MIN

VARIABLES
    \* the callers
    pc,               \* where each task is
    call,             \* the kind of its current call
    calls,            \* calls made
    answer,           \* whose response ended its last command
    objSync,          \* SyncObj of its pool object
    \* the driver control block
    globalLock,       \* holder of GlobalLockObj
    lockDeleted,      \* GlobalLockObj was deleted by the error handling
    restart,          \* g_bDeviceRestartIsRequired
    isCmdRespWaited,
    cmdSync,          \* CmdSyncObj, a binary semaphore
    pendingRx,        \* RxIrqCnt - RxDoneCnt
    uncounted,        \* history: messages consumed by reads that failed
    txPoolCnt,        \* FlowContCB.TxPoolCnt
    txLock,           \* holder of FlowContCB.TxLockObj
    txSync,           \* FlowContCB.TxSyncObj, a binary semaphore
    \* the spawn task
    spawnQ,           \* queued _SlDrvMsgReadSpawnCtx
    spawnPc,
    \* the network processor and the interrupt
    nwp,              \* messages it has for the host, in order
    irqs,             \* interrupts pended to the timer daemon
    owes,             \* how much it still has to say to each task
    nwpFree,          \* free transmit buffers
    events            \* unsolicited events so far

callerVars == <<pc, call, calls, answer>>
lockVars   == <<globalLock, lockDeleted, restart>>
rxVars     == <<isCmdRespWaited, cmdSync, pendingRx, uncounted>>
flowVars   == <<txPoolCnt, txLock, txSync>>
spawnVars  == <<spawnQ, spawnPc>>
nwpVars    == <<nwp, irqs, owes, nwpFree, events>>
vars == <<callerVars, objSync, lockVars, rxVars, flowVars, spawnVars, nwpVars>>

Places == {"idle", "lock", "write", "resp", "unlock", "done", "wait",
           "txlock", "txtest", "txwait", "txgo", "data",
           "fail", "delete", "objfail", "objdelete", "reset"}

MsgKinds == {"response", "refusal", "completion", "data", "event", "dummy"}
Msg == [kind : MsgKinds, to : Tasks \cup {NoOne}]

\* What the processor may owe a task: the response to a command or to an async
\* call, the event that ends an async call, the data of a recv.
Dues == {"command", "async", "completion", "data"}

-----------------------------------------------------------------------------
(* Locks and moves *)

Goto(t, place) == pc' = [pc EXCEPT ![t] = place]

\* Mutant of GlobalFree: a deleted mutex no longer stops anybody.
GlobalFree_Deleted == globalLock = NoOne \/ lockDeleted

GlobalFree == globalLock = NoOne /\ ~lockDeleted

\* Mutant of SpawnIfRoom: the queue has no end.
SpawnIfRoom_NoEnd(q) == q + 1

\* A free slot of the spawn queue, or the request is dropped: osi_Spawn from
\* the interrupt handler sends with no wait and its result is ignored.
SpawnIfRoom(q) == IF q < SpawnQueueLength THEN q + 1 ELSE q

\* After sl_Start and the first commands: the credit is known, TxSyncObj may
\* still carry the signal of an earlier header.
Init ==
    /\ pc = [t \in Tasks |-> "idle"]
    /\ call = [t \in Tasks |-> "command"]
    /\ answer = [t \in Tasks |-> t]
    /\ objSync = [t \in Tasks |-> FALSE]
    /\ globalLock = NoOne /\ lockDeleted = FALSE /\ restart = FALSE
    /\ isCmdRespWaited = FALSE /\ cmdSync = FALSE
    /\ pendingRx = 0 /\ uncounted = 0
    /\ txPoolCnt = TxBuffers /\ txLock = NoOne /\ txSync \in BOOLEAN
    /\ spawnQ = 0 /\ spawnPc = "idle"
    /\ nwp = <<>> /\ irqs = 0
    /\ owes = [t \in Tasks |-> [due \in Dues |-> 0]]
    /\ nwpFree = TxBuffers
    /\ calls = 0 /\ events = 0

-----------------------------------------------------------------------------
(* Reading one message: _SlDrvMsgRead and, for an event, its handler.      *)

\* The pool object of t waits for the end of such a call.
Active(t, kind) == pc[t] # "idle" /\ call[t] = kind

\* Data nobody waits for any more: _SlFindAndSetActiveObj fails.
Orphan(m) == m.kind = "data" /\ ~Active(m.to, "recv")

\* The caller a message is for is signalled, if it still waits.
Signalled(m) ==
    IF \/ m.kind = "completion" /\ Active(m.to, "async")
       \/ m.kind = "data" /\ Active(m.to, "recv")
    THEN [objSync EXCEPT ![m.to] = TRUE] ELSE objSync

\* The header is taken, the oldest message with it.  It carries the free
\* buffers of the processor, as they are when it is read.  A reader that finds
\* no message goes on looking for the sync pattern, with the lock held.
HdrRead(m) ==
    /\ nwp # <<>> /\ m = Head(nwp)
    /\ nwp' = Tail(nwp)
    /\ txPoolCnt' = nwpFree
    /\ txSync' = IF nwpFree > FLOW_CONT_MIN THEN TRUE ELSE txSync
    /\ UNCHANGED <<txLock, irqs, owes, nwpFree, events>>

\* The whole message is read.
MsgRead(m) ==
    /\ HdrRead(m) /\ ~Orphan(m)
    /\ objSync' = Signalled(m)

\* A transfer after the header fails.  Nobody is signalled, except when the
\* padding after received data cannot be read.  Or a timeout has ended the recv.
MsgReadFails(m) ==
    /\ HdrRead(m)
    /\ \/ "read" \in Faults /\ objSync' = objSync
       \/ "read" \in Faults /\ m.kind = "data" /\ objSync' = Signalled(m)
       \/ "timeout" \in Faults /\ Orphan(m) /\ objSync' = objSync

\* Mutant of Counted: RxDoneCnt is set to RxIrqCnt instead of counted up.
Counted_AllDone == pendingRx' = 0 /\ UNCHANGED uncounted

\* RxDoneCnt++ after a read that succeeded.
Counted == pendingRx' = pendingRx - 1 /\ UNCHANGED uncounted

\* The readers return before it after a read that failed.
NotCounted == uncounted' = uncounted + 1 /\ UNCHANGED pendingRx

\* The processor owes t one thing more.
Owe(t, due) == [owes EXCEPT ![t][due] = @ + 1]

-----------------------------------------------------------------------------
(* The callers *)

\* VERIFY_NO_ERROR_HANDLING_IN_PROGRESS, then the lock the call needs first.
Call(t, kind) ==
    /\ pc[t] = "idle" /\ calls < MaxCalls
    /\ ~restart
    /\ call' = [call EXCEPT ![t] = kind]
    /\ calls' = calls + 1
    /\ Goto(t, IF kind \in {"send", "recv"} THEN "txlock" ELSE "lock")
    /\ UNCHANGED <<answer, objSync, lockVars, rxVars, flowVars, spawnVars, nwpVars>>

\* SL_DRV_LOCK_GLOBAL_LOCK_FOREVER and the restart test after it.  A caller
\* that meets the error handling here returns, and a data call returns
\* without giving TxLockObj back.
TakeGlobal(t) ==
    /\ pc[t] = "lock" /\ GlobalFree
    /\ IF restart
       THEN Goto(t, "idle") /\ UNCHANGED <<globalLock, isCmdRespWaited>>
       ELSE /\ globalLock' = t
            /\ IF call[t] \in {"send", "recv"}
               THEN Goto(t, "data") /\ UNCHANGED isCmdRespWaited
               ELSE Goto(t, "write") /\ isCmdRespWaited' = TRUE
    /\ UNCHANGED <<call, calls, answer, objSync, lockDeleted, restart, cmdSync,
                   pendingRx, uncounted, flowVars, spawnVars, nwpVars>>

\* Mutant of CmdWrite: the lock is released before the response is read.
CmdWrite_Unlocks(t) ==
    /\ pc[t] = "write"
    /\ owes' = Owe(t, IF call[t] = "async" THEN "async" ELSE "command")
    /\ globalLock' = NoOne
    /\ Goto(t, "resp")
    /\ UNCHANGED <<call, calls, answer, objSync, lockDeleted, restart, rxVars,
                   flowVars, spawnVars, nwp, irqs, nwpFree, events>>

\* _SlDrvMsgWrite of a command.
CmdWrite(t) ==
    /\ pc[t] = "write"
    /\ owes' = Owe(t, IF call[t] = "async" THEN "async" ELSE "command")
    /\ Goto(t, "resp")
    /\ UNCHANGED <<call, calls, answer, objSync, lockVars, rxVars, flowVars,
                   spawnVars, nwp, irqs, nwpFree, events>>

\* The write fails: the lock is given back, IsCmdRespWaited stays set.
CmdWriteFails(t) ==
    /\ "write" \in Faults /\ pc[t] = "write"
    /\ globalLock' = NoOne
    /\ Goto(t, "idle")
    /\ UNCHANGED <<call, calls, answer, objSync, lockDeleted, restart, rxVars,
                   flowVars, spawnVars, nwpVars>>

\* One round of the loop of _SlDrvMsgReadCmdCtx that reads a message.
CmdRead(t) ==
    /\ pc[t] = "resp" /\ isCmdRespWaited /\ pendingRx > 0
    /\ \E m \in Msg :
        /\ MsgRead(m)
        /\ IF m.kind \in {"response", "refusal"}
           THEN /\ answer' = [answer EXCEPT ![t] = m.to]
                /\ call' = IF m.kind = "refusal"
                           THEN [call EXCEPT ![t] = "command"] ELSE call
                /\ isCmdRespWaited' = FALSE
                /\ cmdSync' = FALSE
                /\ Goto(t, "unlock")
           ELSE UNCHANGED <<answer, call, isCmdRespWaited, cmdSync, pc>>
    /\ Counted
    /\ UNCHANGED <<calls, lockVars, spawnVars>>

\* The read fails: the lock is given back, IsCmdRespWaited stays set and the
\* message is gone.
CmdReadFails(t) ==
    /\ pc[t] = "resp" /\ isCmdRespWaited /\ pendingRx > 0
    /\ \E m \in Msg : MsgReadFails(m)
    /\ NotCounted
    /\ globalLock' = NoOne
    /\ Goto(t, "idle")
    /\ UNCHANGED <<call, calls, answer, lockDeleted, restart, isCmdRespWaited,
                   cmdSync, spawnVars>>

\* sl_SyncObjWait on CmdSyncObj returns because the interrupt signalled it.
CmdWake(t) ==
    /\ pc[t] = "resp" /\ isCmdRespWaited /\ pendingRx = 0
    /\ cmdSync /\ cmdSync' = FALSE
    /\ UNCHANGED <<callerVars, objSync, lockVars, isCmdRespWaited, pendingRx,
                   uncounted, flowVars, spawnVars, nwpVars>>

\* ... or because the response did not come in time.
CmdTimeout(t) ==
    /\ "timeout" \in Faults
    /\ pc[t] = "resp" /\ isCmdRespWaited /\ pendingRx = 0 /\ ~cmdSync
    /\ isCmdRespWaited' = FALSE
    /\ globalLock' = NoOne
    /\ Goto(t, "fail")
    /\ UNCHANGED <<call, calls, answer, objSync, lockDeleted, restart, cmdSync,
                   pendingRx, uncounted, flowVars, spawnVars, nwpVars>>

CmdUnlock(t) ==
    /\ pc[t] = "unlock"
    /\ globalLock' = NoOne
    /\ Goto(t, "done")
    /\ UNCHANGED <<call, calls, answer, objSync, lockDeleted, restart, rxVars,
                   flowVars, spawnVars, nwpVars>>

\* Mutant of CmdDone: the messages that are still pending are left to others.
CmdDone_NoSpawn(t) ==
    /\ pc[t] = "done"
    /\ Goto(t, IF call[t] = "async" THEN "wait" ELSE "idle")
    /\ UNCHANGED <<call, calls, answer, objSync, lockVars, rxVars, flowVars,
                   spawnVars, nwpVars>>

\* After the lock is released: one spawn if messages are pending (it waits for
\* room in the queue), then an async call waits for its event.
CmdDone(t) ==
    /\ pc[t] = "done"
    /\ IF pendingRx > 0
       THEN spawnQ < SpawnQueueLength /\ spawnQ' = spawnQ + 1
       ELSE UNCHANGED spawnQ
    /\ Goto(t, IF call[t] = "async" THEN "wait" ELSE "idle")
    /\ UNCHANGED <<call, calls, answer, objSync, lockVars, rxVars, flowVars,
                   spawnPc, nwpVars>>

\* The event of an async call or the data of a recv has come.
ObjWake(t) ==
    /\ pc[t] = "wait" /\ objSync[t]
    /\ objSync' = [objSync EXCEPT ![t] = FALSE]
    /\ Goto(t, "idle")
    /\ UNCHANGED <<call, calls, answer, lockVars, rxVars, flowVars, spawnVars, nwpVars>>

\* ... or it has not come in time: the sockets are non-blocking and the other
\* async calls always wait with a limit.
ObjTimeout(t) ==
    /\ "timeout" \in Faults
    /\ pc[t] = "wait" /\ ~objSync[t]
    /\ Goto(t, "objfail")
    /\ UNCHANGED <<call, calls, answer, objSync, lockVars, rxVars, flowVars,
                   spawnVars, nwpVars>>

-----------------------------------------------------------------------------
(* Data calls: flow control *)

\* TxLockObj, then a stale signal of TxSyncObj is cleared.
TakeTxLock(t) ==
    /\ pc[t] = "txlock" /\ txLock = NoOne
    /\ txLock' = t /\ txSync' = FALSE
    /\ Goto(t, "txtest")
    /\ UNCHANGED <<call, calls, answer, objSync, lockVars, rxVars, txPoolCnt,
                   spawnVars, nwpVars>>

\* Mutant of TxTest: a call without credit polls instead of waiting.
TxTest_Polls(t) ==
    /\ pc[t] = "txtest"
    /\ IF txPoolCnt <= Credit(call[t])
       THEN txLock' = NoOne /\ Goto(t, "txlock")
       ELSE UNCHANGED txLock /\ Goto(t, "txgo")
    /\ UNCHANGED <<call, calls, answer, objSync, lockVars, rxVars, txPoolCnt,
                   txSync, spawnVars, nwpVars>>

TxTest(t) ==
    /\ pc[t] = "txtest"
    /\ Goto(t, IF txPoolCnt <= Credit(call[t]) THEN "txwait" ELSE "txgo")
    /\ UNCHANGED <<call, calls, answer, objSync, lockVars, rxVars, flowVars,
                   spawnVars, nwpVars>>

\* A send gives up: its socket failed, or it is non-blocking and would wait.
TxGiveUp(t) ==
    /\ pc[t] = "txtest" /\ call[t] = "send"
    /\ txLock' = NoOne
    /\ Goto(t, "idle")
    /\ UNCHANGED <<call, calls, answer, objSync, lockVars, rxVars, txPoolCnt,
                   txSync, spawnVars, nwpVars>>

\* TxSyncObj was signalled.  A send tests again from the start; a caller that
\* meets the error handling returns with TxLockObj.
TxWake(t) ==
    /\ pc[t] = "txwait" /\ txSync
    /\ txSync' = FALSE
    /\ \/ restart /\ Goto(t, "idle") /\ UNCHANGED txLock
       \/ /\ ~restart
          /\ IF call[t] = "send" /\ txPoolCnt <= Credit("send")
             THEN txLock' = NoOne /\ Goto(t, "txlock")
             ELSE UNCHANGED txLock /\ Goto(t, "txgo")
    /\ UNCHANGED <<call, calls, answer, objSync, lockVars, rxVars, txPoolCnt,
                   spawnVars, nwpVars>>

\* The test at the head of _SlDrvObjGlobalLockWaitForever.
TxGo(t) ==
    /\ pc[t] = "txgo"
    /\ Goto(t, IF restart THEN "idle" ELSE "lock")
    /\ UNCHANGED <<call, calls, answer, objSync, lockVars, rxVars, flowVars,
                   spawnVars, nwpVars>>

\* Mutant of DataWrite: the credit is not spent.
DataWrite_Free(t) ==
    /\ pc[t] = "data"
    /\ IF txPoolCnt <= Credit(call[t])
       THEN /\ Goto(t, "idle")
            /\ UNCHANGED <<globalLock, txPoolCnt, txLock, owes, nwpFree>>
       ELSE /\ txLock' = NoOne
            /\ globalLock' = NoOne
            /\ nwpFree' = nwpFree - 1
            /\ IF call[t] = "recv"
               THEN owes' = Owe(t, "data") /\ Goto(t, "wait")
               ELSE UNCHANGED owes /\ Goto(t, "idle")
    /\ UNCHANGED <<call, calls, answer, objSync, lockDeleted, restart, rxVars,
                   txPoolCnt, txSync, spawnVars, nwp, irqs, events>>

\* The transfer.  VERIFY_PROTOCOL returns with both locks if the credit went.
DataWrite(t) ==
    /\ pc[t] = "data"
    /\ IF txPoolCnt <= Credit(call[t])
       THEN /\ Goto(t, "idle")
            /\ UNCHANGED <<globalLock, txPoolCnt, txLock, owes, nwpFree>>
       ELSE /\ txPoolCnt' = txPoolCnt - 1
            /\ txLock' = NoOne
            /\ globalLock' = NoOne
            /\ nwpFree' = nwpFree - 1
            /\ IF call[t] = "recv"
               THEN owes' = Owe(t, "data") /\ Goto(t, "wait")
               ELSE UNCHANGED owes /\ Goto(t, "idle")
    /\ UNCHANGED <<call, calls, answer, objSync, lockDeleted, restart, rxVars,
                   txSync, spawnVars, nwp, irqs, events>>

\* The transfer fails: the credit is spent, the processor has nothing.
DataWriteFails(t) ==
    /\ "write" \in Faults /\ pc[t] = "data" /\ txPoolCnt > Credit(call[t])
    /\ txPoolCnt' = txPoolCnt - 1
    /\ txLock' = NoOne
    /\ globalLock' = NoOne
    /\ Goto(t, "idle")
    /\ UNCHANGED <<call, calls, answer, objSync, lockDeleted, restart, rxVars,
                   txSync, spawnVars, nwpVars>>

-----------------------------------------------------------------------------
(* _SlDriverHandleError after a timeout *)

SetRestart(t) ==
    /\ pc[t] \in {"fail", "objfail"}
    /\ restart' = TRUE
    /\ Goto(t, CASE restart            -> "idle"
                 [] pc[t] = "fail"     -> "delete"
                 [] pc[t] = "objfail"  -> "objdelete")
    /\ UNCHANGED <<call, calls, answer, objSync, globalLock, lockDeleted, rxVars,
                   flowVars, spawnVars, nwpVars>>

\* vSemaphoreDelete does not wake the tasks that wait for the mutex.  The
\* handler of the application resets the board if an event did not come.
DeleteLock(t) ==
    /\ pc[t] \in {"delete", "objdelete"}
    /\ lockDeleted' = TRUE
    /\ objSync' = [u \in Tasks |-> TRUE]
    /\ Goto(t, IF pc[t] = "delete" THEN "idle" ELSE "reset")
    /\ UNCHANGED <<call, calls, answer, globalLock, restart, rxVars, flowVars,
                   spawnVars, nwpVars>>

\* system_reset: the board and the processor start again.
SystemReset(t) ==
    /\ pc[t] = "reset"
    /\ pc' = [u \in Tasks |-> "idle"]
    /\ call' = [u \in Tasks |-> "command"]
    /\ answer' = [u \in Tasks |-> u]
    /\ objSync' = [u \in Tasks |-> FALSE]
    /\ globalLock' = NoOne /\ lockDeleted' = FALSE /\ restart' = FALSE
    /\ isCmdRespWaited' = FALSE /\ cmdSync' = FALSE
    /\ pendingRx' = 0 /\ uncounted' = 0
    /\ txPoolCnt' = TxBuffers /\ txLock' = NoOne /\ txSync' \in BOOLEAN
    /\ spawnQ' = 0 /\ spawnPc' = "idle"
    /\ nwp' = <<>> /\ irqs' = 0
    /\ owes' = [u \in Tasks |-> [due \in Dues |-> 0]]
    /\ nwpFree' = TxBuffers
    /\ UNCHANGED <<calls, events>>

-----------------------------------------------------------------------------
(* The spawn task runs one queued _SlDrvMsgReadSpawnCtx at a time *)

SpawnTake ==
    /\ spawnPc = "idle" /\ spawnQ > 0
    /\ spawnQ' = spawnQ - 1
    /\ spawnPc' = IF restart THEN "idle" ELSE "lock"
    /\ UNCHANGED <<callerVars, objSync, lockVars, rxVars, flowVars, nwpVars>>

SpawnLock ==
    /\ spawnPc = "lock" /\ GlobalFree
    /\ globalLock' = Spawn
    /\ spawnPc' = "read"
    /\ UNCHANGED <<callerVars, objSync, lockDeleted, restart, rxVars, flowVars,
                   spawnQ, nwpVars>>

\* Mutant of SpawnFindsNothing: the early return keeps the lock.
SpawnFindsNothing_Keeps ==
    /\ spawnPc = "read" /\ pendingRx = 0
    /\ spawnPc' = "idle"
    /\ UNCHANGED <<callerVars, objSync, lockVars, rxVars, flowVars, spawnQ, nwpVars>>

\* A message may have been read by a command in the meantime.
SpawnFindsNothing ==
    /\ spawnPc = "read" /\ pendingRx = 0
    /\ globalLock' = NoOne
    /\ spawnPc' = "idle"
    /\ UNCHANGED <<callerVars, objSync, lockDeleted, restart, rxVars, flowVars,
                   spawnQ, nwpVars>>

\* One message.  A command response is illegal in this context: the function
\* returns and keeps the lock.
SpawnRead ==
    /\ spawnPc = "read" /\ pendingRx > 0
    /\ \E m \in Msg :
        /\ MsgRead(m)
        /\ globalLock' = IF m.kind \in {"response", "refusal"} THEN Spawn ELSE NoOne
    /\ Counted
    /\ spawnPc' = "idle"
    /\ UNCHANGED <<callerVars, lockDeleted, restart, isCmdRespWaited, cmdSync, spawnQ>>

\* The read fails: the lock is given back.
SpawnReadFails ==
    /\ spawnPc = "read" /\ pendingRx > 0
    /\ \E m \in Msg : MsgReadFails(m)
    /\ NotCounted
    /\ globalLock' = NoOne
    /\ spawnPc' = "idle"
    /\ UNCHANGED <<callerVars, lockDeleted, restart, isCmdRespWaited, cmdSync, spawnQ>>

-----------------------------------------------------------------------------
(* The interrupt and the network processor *)

\* _SlDrvRxIrqHandler, run by the timer daemon above every other task.
RxIrq ==
    /\ irqs > 0
    /\ irqs' = irqs - 1
    /\ pendingRx' = pendingRx + 1
    /\ IF isCmdRespWaited
       THEN cmdSync' = TRUE /\ UNCHANGED spawnQ
       ELSE spawnQ' = SpawnIfRoom(spawnQ) /\ UNCHANGED cmdSync
    /\ UNCHANGED <<callerVars, objSync, lockVars, isCmdRespWaited, uncounted,
                   flowVars, spawnPc, nwp, owes, nwpFree, events>>

\* The processor has a message: it raises the interrupt line.
Announce(kind, t) ==
    /\ Len(nwp) < MaxUnread
    /\ nwp' = Append(nwp, [kind |-> kind, to |-> t])
    /\ irqs' = irqs + 1
    /\ UNCHANGED <<callerVars, objSync, lockVars, rxVars, flowVars, spawnVars>>

\* The processor says one of the things it owes t.
Pay(t, due, kind) ==
    /\ owes[t][due] > 0
    /\ Announce(kind, t)

\* A command is answered; an accepted async command is followed by its event.
NwpRespond(t) ==
    /\ \/ \E due \in {"command", "async"} :
             Pay(t, due, "refusal") /\ owes' = [owes EXCEPT ![t][due] = @ - 1]
       \/ /\ Pay(t, "command", "response")
          /\ owes' = [owes EXCEPT ![t]["command"] = @ - 1]
       \/ /\ Pay(t, "async", "response")
          /\ owes' = [owes EXCEPT ![t]["async"] = @ - 1, ![t]["completion"] = @ + 1]
    /\ UNCHANGED <<nwpFree, events>>

NwpComplete(t) ==
    /\ Pay(t, "completion", "completion")
    /\ owes' = [owes EXCEPT ![t]["completion"] = @ - 1]
    /\ UNCHANGED <<nwpFree, events>>

\* Data for a recv.
NwpDeliver(t) ==
    /\ Pay(t, "data", "data")
    /\ owes' = [owes EXCEPT ![t]["data"] = @ - 1]
    /\ UNCHANGED <<nwpFree, events>>

\* A packet or a request for data has been handled: its buffer is free, and a
\* flow control message says so.
NwpTransmitted ==
    /\ nwpFree < TxBuffers
    /\ Announce("dummy", NoOne)
    /\ nwpFree' = nwpFree + 1
    /\ UNCHANGED <<owes, events>>

\* An event nobody asked for: WLAN, NetApp or device.
NwpEvent ==
    /\ events < MaxEvents
    /\ Announce("event", NoOne)
    /\ events' = events + 1
    /\ UNCHANGED <<owes, nwpFree>>

-----------------------------------------------------------------------------

CallerStep(t) ==
    \/ TakeGlobal(t) \/ CmdWrite(t) \/ CmdRead(t) \/ CmdWake(t) \/ CmdUnlock(t)
    \/ CmdDone(t) \/ ObjWake(t)
    \/ TakeTxLock(t) \/ TxTest(t) \/ TxGiveUp(t) \/ TxWake(t) \/ TxGo(t) \/ DataWrite(t)
    \/ SetRestart(t) \/ DeleteLock(t) \/ SystemReset(t)

FaultStep(t) ==
    \/ CmdWriteFails(t) \/ CmdReadFails(t) \/ CmdTimeout(t) \/ DataWriteFails(t)
    \/ ObjTimeout(t)

SpawnStep == SpawnTake \/ SpawnLock \/ SpawnFindsNothing \/ SpawnRead

NwpStep == NwpTransmitted \/ \E t \in Tasks : NwpRespond(t) \/ NwpComplete(t) \/ NwpDeliver(t)

SystemStep ==
    \/ \E t \in Tasks : CallerStep(t)
    \/ SpawnStep \/ RxIrq \/ NwpStep

\* Every call has returned and nothing is on its way.
Quiet ==
    /\ \A t \in Tasks : pc[t] = "idle"
    /\ calls = MaxCalls \/ restart
    /\ UNCHANGED vars

Next ==
    \/ SystemStep
    \/ \E t \in Tasks : FaultStep(t) \/ \E kind \in CallKinds : Call(t, kind)
    \/ SpawnReadFails
    \/ NwpEvent
    \/ Quiet

\* The scheduler runs some task that can run and the processor says what it
\* owes.  With the calls bounded nobody can be overtaken for ever, so this
\* needs no fairness of the mutexes.
Fairness == WF_vars(SystemStep)

Spec == Init /\ [][Next]_vars
FairSpec == Spec /\ Fairness

-----------------------------------------------------------------------------
(* Properties *)

\* Types and ranges of the variables.
TypeOK ==
    /\ pc \in [Tasks -> Places]
    /\ call \in [Tasks -> Kinds]
    /\ calls \in 0..MaxCalls
    /\ answer \in [Tasks -> Tasks \cup {NoOne}]
    /\ objSync \in [Tasks -> BOOLEAN]
    /\ globalLock \in Tasks \cup {Spawn, NoOne}
    /\ txLock \in Tasks \cup {NoOne}
    /\ lockDeleted \in BOOLEAN /\ restart \in BOOLEAN
    /\ isCmdRespWaited \in BOOLEAN /\ cmdSync \in BOOLEAN /\ txSync \in BOOLEAN
    /\ pendingRx \in Nat /\ irqs \in Nat /\ uncounted \in Nat
    /\ txPoolCnt \in 0..TxBuffers /\ nwpFree \in 0..TxBuffers
    /\ spawnQ \in 0..SpawnQueueLength
    /\ spawnPc \in {"idle", "lock", "read"}
    /\ nwp \in Seq(Msg)
    /\ owes \in [Tasks -> [Dues -> Nat]]
    /\ events \in 0..MaxEvents

\* The count of pending messages is exact up to the reads that failed: every
\* message the processor holds has raised its interrupt or been counted, and as
\* long as no read has failed, a reader that finds RxIrqCnt # RxDoneCnt finds a
\* message.  Every failed read leaves the count one too high for good, so that a
\* later reader looks, with the lock held, for a message that is not there
\* (driver.c:49, 1320-1330, 1439-1449).
MessagesAreCounted == pendingRx + irqs = Len(nwp) + uncounted

\* The credit the host believes in never exceeds the free buffers of the
\* processor, however headers, sends and failed transfers interleave
\* (TxPoolCnt, driver.c:751, 851, 982).
CreditIsCovered == txPoolCnt <= nwpFree

\* Two callers, or a caller and the spawn task, never use the transport at the
\* same time, with timeouts, failed transfers and the deletion of the mutex
\* (GlobalLockObj; FunctionParams and the header are shared, driver.c:871).
InTransport(t) == pc[t] \in {"write", "resp", "unlock", "data"}
TransportIsExclusive ==
    /\ \A t, u \in Tasks : InTransport(t) /\ InTransport(u) => t = u
    /\ spawnPc = "read" => \A t \in Tasks : ~InTransport(t)

\* A command that has come back carries the response to itself and not the
\* late response to another one (driver.c:1332).
AnswerIsOwn == \A t \in Tasks : answer[t] = t

\* A task that has returned from the API, and the spawn task between two
\* requests, hold neither lock: no early return of driver.c leaks one.
LocksAreReturned ==
    /\ \A t \in Tasks : pc[t] = "idle" => globalLock # t /\ txLock # t
    /\ spawnPc # "read" => globalLock # Spawn

\* A message that has been announced is on its way to a reader: a command
\* that still reads, a task about to spawn, or a queued or running spawn
\* (driver.c:1377-1388).  True as long as the processor announces at most two
\* messages before the first is read: one spawn is queued for all the messages
\* that are left after a response, and it reads one.
Reader ==
    \/ \E t \in Tasks : pc[t] \in {"write", "resp", "unlock", "done"}
    \/ spawnQ > 0 \/ spawnPc # "idle"
NoMessageStranded == pendingRx > 0 => Reader

\* Every call returns, although data calls wait for credit with TxLockObj held
\* and async calls for a message that somebody else has to read
\* (driver.c:735, 779, 826).
CallsReturn == \A t \in Tasks : pc[t] # "idle" ~> pc[t] = "idle"
===============================================================================

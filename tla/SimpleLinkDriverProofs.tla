----------------------- MODULE SimpleLinkDriverProofs -----------------------
(***************************************************************************)
(* Proofs about SimpleLinkDriver for every number of tasks, calls, events, *)
(* unread messages, spawn requests and transmit buffers.                   *)
(***************************************************************************)
EXTENDS SimpleLinkDriver, SequenceTheorems, TLAPS

DataCall(t) == call[t] \in {"send", "recv"}

\* Where a data call holds TxLockObj, and where it has seen its credit.
TxPlaces(t) == pc[t] \in {"txtest", "txwait", "txgo", "data"}
                 \/ (pc[t] = "lock" /\ DataCall(t))
Credited(t) == pc[t] \in {"txgo", "data"} \/ (pc[t] = "lock" /\ DataCall(t))

\* Each kind of call keeps to its own places.
CallsKeepPlaces ==
  \A t \in Tasks :
    /\ pc[t] \in {"txlock", "txtest", "txwait", "txgo", "data"} => DataCall(t)
    /\ pc[t] \in {"write", "resp", "unlock"} => ~DataCall(t)

\* Who is inside the transport holds the global lock.
HoldersInside ==
  /\ \A t \in Tasks : InTransport(t) => globalLock = t
  /\ spawnPc = "read" => globalLock = Spawn

\* Who is in the flow control holds TxLockObj; its credit stays until it is
\* spent, and a signal it waits for means credit.
CreditIsKept ==
  \A t \in Tasks :
    /\ TxPlaces(t) => txLock = t
    /\ Credited(t) => txPoolCnt > Credit(call[t])
    /\ pc[t] \in {"txtest", "txwait"} /\ txSync => txPoolCnt > FLOW_CONT_MIN

\* The inductive invariant that holds with every fault.
IInv ==
  /\ TypeOK
  /\ MessagesAreCounted
  /\ CreditIsCovered
  /\ CallsKeepPlaces
  /\ HoldersInside
  /\ CreditIsKept

Answers == {"response", "refusal"}

\* Nothing a caller waits for fails to come.
Reliable == "timeout" \notin Faults /\ "read" \notin Faults

\* Then the error handling never starts and the count of messages is exact.
NoError ==
  /\ ~restart /\ uncounted = 0
  /\ \A t \in Tasks : pc[t] \notin {"fail", "delete", "objfail", "objdelete", "reset"}

\* Both locks are only held where they are used.
NoLeak ==
  /\ \A t \in Tasks : globalLock = t => InTransport(t)
  /\ globalLock = Spawn => spawnPc = "read"
  /\ \A t \in Tasks : txLock = t => TxPlaces(t)

\* Responses the processor owes a task.
AnswersDue(t) == owes[t]["command"] + owes[t]["async"]

\* One response is owed, or on its way, and only to the task that waits for it.
OneAnswer ==
  /\ \A t \in Tasks : AnswersDue(t) # 0 => AnswersDue(t) = 1 /\ pc[t] = "resp"
  /\ \A i \in 1..Len(nwp) : nwp[i].kind \in Answers =>
       /\ nwp[i].to \in Tasks
       /\ pc[nwp[i].to] = "resp"
       /\ AnswersDue(nwp[i].to) = 0
  /\ \A i, j \in 1..Len(nwp) :
       nwp[i].kind \in Answers /\ nwp[j].kind \in Answers
         /\ nwp[i].to = nwp[j].to => i = j

\* The inductive invariant of a driver whose reads and commands do not fail.
IAnswers ==
  /\ NoError
  /\ NoLeak
  /\ OneAnswer
  /\ AnswerIsOwn

-----------------------------------------------------------------------------
(* The message sequence *)

\* Reading takes the oldest message; the others keep their order.
LEMMA ReadTakesFirst ==
  ASSUME nwp \in Seq(Msg), NEW m, HdrRead(m)
  PROVE  /\ m \in Msg /\ m = nwp[1]
         /\ Len(nwp) \in Nat \ {0}
         /\ nwp' \in Seq(Msg)
         /\ Len(nwp') = Len(nwp) - 1
         /\ \A i \in 1..Len(nwp') : nwp'[i] = nwp[i + 1]
<1>1. nwp # <<>> /\ m = Head(nwp) /\ nwp' = Tail(nwp)
  BY DEF HdrRead
<1>2. Len(nwp) \in Nat \ {0}
  BY <1>1, EmptySeq
<1>. QED
  BY <1>1, <1>2, HeadTailProperties

\* The signals a read message gives.
LEMMA ReadTypes ==
  ASSUME TypeOK, NEW m, MsgRead(m) \/ MsgReadFails(m)
  PROVE  /\ objSync' \in [Tasks -> BOOLEAN] /\ txSync' \in BOOLEAN
         /\ txPoolCnt' \in 0..TxBuffers
         /\ UNCHANGED <<txLock, irqs, owes, nwpFree, events>>
         /\ nwp' \in Seq(Msg)
<1>1. objSync' \in [Tasks -> BOOLEAN]
  <2>1. objSync' = objSync \/ objSync' = [objSync EXCEPT ![m.to] = TRUE]
    BY DEF MsgRead, MsgReadFails, Signalled
  <2>. QED
    BY <2>1 DEF TypeOK
<1>2. HdrRead(m)
  BY DEF MsgRead, MsgReadFails
<1>3. txSync' = TRUE \/ txSync' = txSync
  BY <1>2 DEF HdrRead
<1>4. txSync' \in BOOLEAN
  BY <1>3, Zenon DEF TypeOK
<1>5. /\ txPoolCnt' \in 0..TxBuffers
      /\ UNCHANGED <<txLock, irqs, owes, nwpFree, events>>
  BY <1>2 DEF HdrRead, TypeOK
<1>. QED
  BY <1>1, <1>2, <1>4, <1>5, ReadTakesFirst DEF TypeOK

\* What the processor owes is counted up and down.
LEMMA OweTypes ==
  ASSUME owes \in [Tasks -> [Dues -> Nat]], NEW t \in Tasks, NEW due \in Dues
  PROVE  /\ Owe(t, due) \in [Tasks -> [Dues -> Nat]]
         /\ owes[t][due] > 0 => [owes EXCEPT ![t][due] = @ - 1] \in [Tasks -> [Dues -> Nat]]
<1>1. owes[t] \in [Dues -> Nat] /\ owes[t][due] \in Nat
  OBVIOUS
<1>2. [owes[t] EXCEPT ![due] = owes[t][due] + 1] \in [Dues -> Nat]
  BY <1>1
<1>3. ASSUME owes[t][due] > 0
      PROVE  [owes[t] EXCEPT ![due] = owes[t][due] - 1] \in [Dues -> Nat]
  BY <1>1, <1>3
<1>. QED
  BY <1>2, <1>3 DEF Owe

\* No read fails of a driver that is reliable.
LEMMA NoReadFails ==
  ASSUME Reliable
  PROVE  /\ \A t \in Tasks : ~CmdReadFails(t) /\ ~ObjTimeout(t) /\ ~CmdTimeout(t)
         /\ ~SpawnReadFails
BY DEF Reliable, CmdReadFails, SpawnReadFails, MsgReadFails, ObjTimeout, CmdTimeout

\* A new message goes to the end.
LEMMA AnnounceAppends ==
  ASSUME nwp \in Seq(Msg), NEW kind \in MsgKinds, NEW t \in Tasks \cup {NoOne},
         Announce(kind, t)
  PROVE  /\ nwp' \in Seq(Msg)
         /\ Len(nwp) \in Nat
         /\ Len(nwp') = Len(nwp) + 1
         /\ \A i \in 1..Len(nwp) : nwp'[i] = nwp[i]
         /\ nwp'[Len(nwp) + 1] = [kind |-> kind, to |-> t]
<1>1. [kind |-> kind, to |-> t] \in Msg
  BY DEF Msg
<1>2. nwp' = Append(nwp, [kind |-> kind, to |-> t])
  BY DEF Announce
<1>. QED
  BY <1>1, <1>2, AppendProperties

-----------------------------------------------------------------------------
(* The invariant under faults *)

LEMMA InitIInv == Init => IInv
<1> SUFFICES ASSUME Init PROVE IInv
  OBVIOUS
<1> USE DriverAssumption DEF Init
<1>1. txSync \in BOOLEAN
  BY Zenon
<1>2. nwp \in Seq(Msg) /\ Len(nwp) = 0
  BY EmptySeq
<1>3. TypeOK
  <2>1. /\ globalLock \in Tasks \cup {Spawn, NoOne} /\ txLock \in Tasks \cup {NoOne}
        /\ lockDeleted \in BOOLEAN /\ restart \in BOOLEAN
        /\ isCmdRespWaited \in BOOLEAN /\ cmdSync \in BOOLEAN
    BY Zenon
  <2>2. /\ pc \in [Tasks -> Places] /\ call \in [Tasks -> Kinds]
        /\ answer \in [Tasks -> Tasks \cup {NoOne}]
        /\ objSync \in [Tasks -> BOOLEAN]
        /\ owes \in [Tasks -> [Dues -> Nat]]
    BY DEF Places, Kinds
  <2>3. /\ calls \in 0..MaxCalls /\ events \in 0..MaxEvents
        /\ pendingRx \in Nat /\ irqs \in Nat /\ uncounted \in Nat
        /\ txPoolCnt \in 0..TxBuffers /\ nwpFree \in 0..TxBuffers
        /\ spawnQ \in 0..SpawnQueueLength
    OBVIOUS
  <2>. QED
    BY <1>1, <1>2, <2>1, <2>2, <2>3 DEF TypeOK
<1>4. MessagesAreCounted /\ CreditIsCovered
  BY <1>2 DEF MessagesAreCounted, CreditIsCovered
<1>5. CallsKeepPlaces /\ HoldersInside /\ CreditIsKept
  BY DEF CallsKeepPlaces, HoldersInside, CreditIsKept, TxPlaces, Credited,
         InTransport, DataCall
<1>. QED
  BY <1>3, <1>4, <1>5 DEF IInv

\* The types: a data call spends a credit only while it has one, and a buffer
\* the processor still has.
LEMMA TypeStep == IInv /\ Next => TypeOK'
<1> SUFFICES ASSUME IInv, Next PROVE TypeOK'
  OBVIOUS
<1> USE DriverAssumption DEF IInv, TypeOK, Places, Kinds, callerVars, lockVars,
      rxVars, flowVars, spawnVars, nwpVars
<1>1. ASSUME NEW t \in Tasks, NEW kind \in CallKinds, Call(t, kind) PROVE TypeOK'
  BY <1>1 DEF Call, Goto
<1>2. ASSUME NEW t \in Tasks, TakeGlobal(t) PROVE TypeOK'
  BY <1>2 DEF TakeGlobal, Goto, GlobalFree
<1>3. ASSUME NEW t \in Tasks, CmdWrite(t) PROVE TypeOK'
  <2>1. owes' \in [Tasks -> [Dues -> Nat]]
    BY <1>3, OweTypes DEF CmdWrite, Dues
  <2>. QED
    BY <1>3, <2>1 DEF CmdWrite, Goto
<1>4. ASSUME NEW t \in Tasks, CmdRead(t) PROVE TypeOK'
  <2>1. PICK m \in Msg :
          /\ MsgRead(m)
          /\ pc' = pc \/ pc' = [pc EXCEPT ![t] = "unlock"]
          /\ call' = call \/ call' = [call EXCEPT ![t] = "command"]
          /\ answer' = answer \/ answer' = [answer EXCEPT ![t] = m.to]
    BY <1>4 DEF CmdRead, Goto
  <2>2. nwp' \in Seq(Msg)
    BY <2>1, ReadTypes
  <2>3. /\ objSync' \in [Tasks -> BOOLEAN] /\ txSync' \in BOOLEAN
        /\ txPoolCnt' \in 0..TxBuffers
        /\ UNCHANGED <<txLock, irqs, owes, nwpFree, events>>
    BY <2>1, ReadTypes
  <2>5. pendingRx' \in Nat /\ uncounted' \in Nat
    BY <1>4 DEF CmdRead, Counted
  <2>4. /\ pc' \in [Tasks -> Places] /\ call' \in [Tasks -> Kinds]
        /\ answer' \in [Tasks -> Tasks \cup {NoOne}]
    <3>1. m.to \in Tasks \cup {NoOne}
      BY <2>1 DEF Msg
    <3>. QED
      BY <2>1, <3>1
  <2>6. isCmdRespWaited' \in BOOLEAN /\ cmdSync' \in BOOLEAN
    BY <1>4, Zenon DEF CmdRead
  <2>. QED
    BY <1>4, <2>2, <2>3, <2>4, <2>5, <2>6 DEF CmdRead
<1>5. ASSUME NEW t \in Tasks, CmdWake(t) PROVE TypeOK'
  BY <1>5 DEF CmdWake, Goto
<1>6. ASSUME NEW t \in Tasks, CmdUnlock(t) PROVE TypeOK'
  BY <1>6 DEF CmdUnlock, Goto
<1>7. ASSUME NEW t \in Tasks, CmdDone(t) PROVE TypeOK'
  BY <1>7 DEF CmdDone, Goto
<1>8. ASSUME NEW t \in Tasks, ObjWake(t) PROVE TypeOK'
  BY <1>8 DEF ObjWake, Goto
<1>9. ASSUME NEW t \in Tasks, TakeTxLock(t) PROVE TypeOK'
  BY <1>9 DEF TakeTxLock, Goto
<1>10. ASSUME NEW t \in Tasks, TxTest(t) PROVE TypeOK'
  BY <1>10 DEF TxTest, Goto
<1>11. ASSUME NEW t \in Tasks, TxGiveUp(t) PROVE TypeOK'
  BY <1>11 DEF TxGiveUp, Goto
<1>12. ASSUME NEW t \in Tasks, TxWake(t) PROVE TypeOK'
  BY <1>12 DEF TxWake, Goto
<1>13. ASSUME NEW t \in Tasks, TxGo(t) PROVE TypeOK'
  BY <1>13 DEF TxGo, Goto
<1>14. ASSUME NEW t \in Tasks, DataWrite(t) PROVE TypeOK'
  <2>1. owes' \in [Tasks -> [Dues -> Nat]]
    <3>1. owes' = owes \/ owes' = Owe(t, "data")
      BY <1>14 DEF DataWrite
    <3>2. "data" \in Dues
      BY DEF Dues
    <3>. QED
      BY <3>1, <3>2, OweTypes
  <2>2. /\ pc' = [pc EXCEPT ![t] = "idle"] \/ pc' = [pc EXCEPT ![t] = "wait"]
        /\ globalLock' \in {globalLock, NoOne} /\ txLock' \in {txLock, NoOne}
    BY <1>14 DEF DataWrite, Goto
  <2>3. txPoolCnt' \in 0..TxBuffers /\ nwpFree' \in 0..TxBuffers
    BY <1>14 DEF DataWrite, Credit, FLOW_CONT_MIN, CreditIsCovered
  <2>4. UNCHANGED <<call, calls, answer, objSync, lockDeleted, restart, isCmdRespWaited,
                    cmdSync, pendingRx, uncounted, txSync, spawnQ, spawnPc, nwp, irqs, events>>
    BY <1>14 DEF DataWrite
  <2>5. pc' \in [Tasks -> Places]
    BY <2>2
  <2>. QED
    BY <2>1, <2>2, <2>3, <2>4, <2>5
<1>15. ASSUME NEW t \in Tasks, SetRestart(t) PROVE TypeOK'
  BY <1>15 DEF SetRestart, Goto
<1>16. ASSUME NEW t \in Tasks, DeleteLock(t) PROVE TypeOK'
  BY <1>16 DEF DeleteLock, Goto
<1>17. ASSUME NEW t \in Tasks, CmdWriteFails(t) PROVE TypeOK'
  BY <1>17 DEF CmdWriteFails, Goto
<1>18. ASSUME NEW t \in Tasks, CmdTimeout(t) PROVE TypeOK'
  BY <1>18 DEF CmdTimeout, Goto
<1>19. ASSUME NEW t \in Tasks, DataWriteFails(t) PROVE TypeOK'
  BY <1>19 DEF DataWriteFails, Goto, Credit, FLOW_CONT_MIN
<1>20. ASSUME NEW t \in Tasks, NwpRespond(t) PROVE TypeOK'
  <2>1. PICK kind \in {"response", "refusal"} :
           /\ Announce(kind, t)
           /\ owes' \in [Tasks -> [Dues -> Nat]]
    <3>1. CASE \E due \in {"command", "async"}, kind \in {"response", "refusal"} :
                 Pay(t, due, kind) /\ owes' = [owes EXCEPT ![t][due] = @ - 1]
      <4>1. PICK due \in {"command", "async"}, kind \in {"response", "refusal"} :
               Pay(t, due, kind) /\ owes' = [owes EXCEPT ![t][due] = @ - 1]
        BY <3>1
      <4>2. due \in Dues /\ owes[t][due] > 0 /\ Announce(kind, t)
        BY <4>1 DEF Pay, Dues
      <4>3. owes' \in [Tasks -> [Dues -> Nat]]
        BY <4>1, <4>2, OweTypes
      <4>. QED
        BY <4>2, <4>3
    <3>2. CASE /\ Pay(t, "async", "response")
               /\ owes' = [owes EXCEPT ![t]["async"] = @ - 1, ![t]["completion"] = @ + 1]
      <4>1. owes[t] \in [Dues -> Nat] /\ owes[t]["async"] > 0
        BY <3>2 DEF Pay
      <4>2. [owes[t] EXCEPT !["async"] = @ - 1, !["completion"] = @ + 1] \in [Dues -> Nat]
        <5>0. "async" \in Dues /\ "completion" \in Dues
          BY DEF Dues
        <5>1. owes[t]["async"] - 1 \in Nat /\ owes[t]["completion"] + 1 \in Nat
          <6>1. owes[t]["async"] \in Nat /\ owes[t]["completion"] \in Nat
            BY <4>1, <5>0
          <6>. QED
            BY <4>1, <6>1
        <5>2. [owes[t] EXCEPT !["async"] = @ - 1] \in [Dues -> Nat]
          BY <4>1, <5>1
        <5>. QED
          BY <4>1, <5>1, <5>2 DEF Dues
      <4>3. owes' = [owes EXCEPT ![t] = [owes[t] EXCEPT !["async"] = @ - 1,
                                                        !["completion"] = @ + 1]]
        BY <3>2, <4>1 DEF Dues
      <4>. QED
        BY <3>2, <4>2, <4>3 DEF Pay
    <3>. QED
      BY <1>20, <3>1, <3>2 DEF NwpRespond
  <2>2. nwp' \in Seq(Msg)
    <3>1. kind \in MsgKinds /\ t \in Tasks \cup {NoOne}
      BY DEF MsgKinds
    <3>. QED
      BY <2>1, <3>1, AnnounceAppends
  <2>. QED
    BY <1>20, <2>1, <2>2 DEF NwpRespond, Pay, Announce
<1>21. ASSUME NEW t \in Tasks, NwpComplete(t) PROVE TypeOK'
  <2>1. owes' \in [Tasks -> [Dues -> Nat]]
    BY <1>21, OweTypes DEF NwpComplete, Pay, Dues
  <2>2. nwp' \in Seq(Msg)
    BY <1>21, AnnounceAppends DEF NwpComplete, Pay, MsgKinds
  <2>. QED
    BY <1>21, <2>1, <2>2 DEF NwpComplete, Pay, Announce
<1>22. ASSUME NEW t \in Tasks, NwpDeliver(t) PROVE TypeOK'
  <2>1. owes' \in [Tasks -> [Dues -> Nat]]
    BY <1>22, OweTypes DEF NwpDeliver, Pay, Dues
  <2>2. nwp' \in Seq(Msg)
    BY <1>22, AnnounceAppends DEF NwpDeliver, Pay, MsgKinds
  <2>. QED
    BY <1>22, <2>1, <2>2 DEF NwpDeliver, Pay, Announce
<1>23. CASE SpawnTake
  BY <1>23 DEF SpawnTake, Goto
<1>24. CASE SpawnLock
  BY <1>24 DEF SpawnLock, Goto
<1>25. CASE SpawnFindsNothing
  BY <1>25 DEF SpawnFindsNothing, Goto
<1>26. CASE SpawnRead
  <2>1. PICK m \in Msg : MsgRead(m) /\ globalLock' \in {Spawn, NoOne}
    BY <1>26 DEF SpawnRead
  <2>2. nwp' \in Seq(Msg)
    BY <2>1, ReadTypes
  <2>3. /\ objSync' \in [Tasks -> BOOLEAN] /\ txSync' \in BOOLEAN
        /\ txPoolCnt' \in 0..TxBuffers
        /\ UNCHANGED <<txLock, irqs, owes, nwpFree, events>>
    BY <2>1, ReadTypes
  <2>5. pendingRx' \in Nat /\ uncounted' \in Nat
    BY <1>26 DEF SpawnRead, Counted
  <2>. QED
    BY <1>26, <2>1, <2>2, <2>3, <2>5 DEF SpawnRead
<1>27. CASE RxIrq
  <2>1. cmdSync' \in BOOLEAN
    BY <1>27, Zenon DEF RxIrq
  <2>2. spawnQ' \in 0..SpawnQueueLength
    BY <1>27 DEF RxIrq, SpawnIfRoom
  <2>. QED
    BY <1>27, <2>1, <2>2 DEF RxIrq
<1>28. CASE NwpTransmitted
  BY <1>28, AnnounceAppends DEF NwpTransmitted, Goto, Pay, Announce, MsgKinds
<1>29. CASE NwpEvent
  BY <1>29, AnnounceAppends DEF NwpEvent, Goto, Pay, Announce, MsgKinds
<1>30. CASE UNCHANGED vars
  BY <1>30 DEF vars, callerVars, lockVars, rxVars, flowVars, spawnVars, nwpVars, Goto
<1>31. ASSUME NEW t \in Tasks, ObjTimeout(t) PROVE TypeOK'
  BY <1>31 DEF ObjTimeout, Goto
<1>32. ASSUME NEW t \in Tasks, SystemReset(t) PROVE TypeOK'
  <2>1. txSync' \in BOOLEAN /\ nwp' = <<>>
    BY <1>32, Zenon DEF SystemReset
  <2>2. nwp' \in Seq(Msg)
    BY <2>1, EmptySeq
  <2>. QED
    <3>1. /\ pc' \in [Tasks -> Places] /\ call' \in [Tasks -> Kinds]
          /\ answer' \in [Tasks -> Tasks \cup {NoOne}]
          /\ objSync' \in [Tasks -> BOOLEAN]
          /\ owes' \in [Tasks -> [Dues -> Nat]]
      BY <1>32 DEF SystemReset
    <3>2. /\ globalLock' \in Tasks \cup {Spawn, NoOne} /\ txLock' \in Tasks \cup {NoOne}
          /\ lockDeleted' \in BOOLEAN /\ restart' \in BOOLEAN
          /\ isCmdRespWaited' \in BOOLEAN /\ cmdSync' \in BOOLEAN
          /\ spawnPc' \in {"idle", "lock", "read"}
      BY <1>32, Zenon DEF SystemReset
    <3>3. /\ calls' \in 0..MaxCalls /\ events' \in 0..MaxEvents
          /\ pendingRx' \in Nat /\ irqs' \in Nat /\ uncounted' \in Nat
          /\ txPoolCnt' \in 0..TxBuffers /\ nwpFree' \in 0..TxBuffers
          /\ spawnQ' \in 0..SpawnQueueLength
      BY <1>32 DEF SystemReset
    <3>. QED
      BY <2>1, <2>2, <3>1, <3>2, <3>3
<1>33. ASSUME NEW t \in Tasks, CmdReadFails(t) PROVE TypeOK'
  <2>1. PICK m \in Msg : MsgReadFails(m)
    BY <1>33 DEF CmdReadFails
  <2>2. /\ objSync' \in [Tasks -> BOOLEAN] /\ txSync' \in BOOLEAN
        /\ txPoolCnt' \in 0..TxBuffers
        /\ UNCHANGED <<txLock, irqs, owes, nwpFree, events>>
        /\ nwp' \in Seq(Msg)
    BY <2>1, ReadTypes
  <2>3. pendingRx' \in Nat /\ uncounted' \in Nat
    BY <1>33 DEF CmdReadFails, NotCounted
  <2>. QED
    BY <1>33, <2>2, <2>3 DEF CmdReadFails, Goto
<1>34. CASE SpawnReadFails
  <2>1. PICK m \in Msg : MsgReadFails(m)
    BY <1>34 DEF SpawnReadFails
  <2>2. /\ objSync' \in [Tasks -> BOOLEAN] /\ txSync' \in BOOLEAN
        /\ txPoolCnt' \in 0..TxBuffers
        /\ UNCHANGED <<txLock, irqs, owes, nwpFree, events>>
        /\ nwp' \in Seq(Msg)
    BY <2>1, ReadTypes
  <2>3. pendingRx' \in Nat /\ uncounted' \in Nat
    BY <1>34 DEF SpawnReadFails, NotCounted
  <2>. QED
    BY <1>34, <2>2, <2>3 DEF SpawnReadFails, Goto
<1>. QED
  BY <1>1, <1>2, <1>3, <1>4, <1>5, <1>6, <1>7, <1>8, <1>9, <1>10, <1>11, 
     <1>12, <1>13, <1>14, <1>15, <1>16, <1>17, <1>18, <1>19, <1>20, 
     <1>21, <1>22, <1>23, <1>24, <1>25, <1>26, <1>27, <1>28, <1>29, 
     <1>30, <1>31, <1>32, <1>33, <1>34
     DEF Next, SystemStep, CallerStep, FaultStep, SpawnStep, NwpStep, Quiet

\* Reading takes a message and counts it; the interrupt counts one that has
\* been announced.
LEMMA CountStep == IInv /\ Next => MessagesAreCounted'
<1> SUFFICES ASSUME IInv, Next PROVE MessagesAreCounted'
  OBVIOUS
<1>0. /\ nwp \in Seq(Msg) /\ Len(nwp) \in Nat /\ pendingRx \in Nat /\ irqs \in Nat
      /\ uncounted \in Nat /\ pendingRx + irqs = Len(nwp) + uncounted
  BY LenProperties DEF IInv, TypeOK, MessagesAreCounted
<1> USE <1>0 DEF MessagesAreCounted, callerVars, lockVars, rxVars, flowVars,
      spawnVars, nwpVars
<1>1. ASSUME NEW t \in Tasks, NEW kind \in CallKinds, Call(t, kind) PROVE MessagesAreCounted'
  BY <1>1 DEF Call, Goto
<1>2. ASSUME NEW t \in Tasks, TakeGlobal(t) PROVE MessagesAreCounted'
  BY <1>2 DEF TakeGlobal, Goto
<1>3. ASSUME NEW t \in Tasks, CmdWrite(t) PROVE MessagesAreCounted'
  BY <1>3 DEF CmdWrite, Goto
<1>4. ASSUME NEW t \in Tasks, CmdRead(t) PROVE MessagesAreCounted'
  <2>1. PICK m \in Msg : HdrRead(m)
    BY <1>4 DEF CmdRead, MsgRead
  <2>. QED
    BY <1>4, <2>1, ReadTakesFirst DEF CmdRead, Counted, HdrRead
<1>5. ASSUME NEW t \in Tasks, CmdWake(t) PROVE MessagesAreCounted'
  BY <1>5 DEF CmdWake, Goto
<1>6. ASSUME NEW t \in Tasks, CmdUnlock(t) PROVE MessagesAreCounted'
  BY <1>6 DEF CmdUnlock, Goto
<1>7. ASSUME NEW t \in Tasks, CmdDone(t) PROVE MessagesAreCounted'
  BY <1>7 DEF CmdDone, Goto
<1>8. ASSUME NEW t \in Tasks, ObjWake(t) PROVE MessagesAreCounted'
  BY <1>8 DEF ObjWake, Goto
<1>9. ASSUME NEW t \in Tasks, TakeTxLock(t) PROVE MessagesAreCounted'
  BY <1>9 DEF TakeTxLock, Goto
<1>10. ASSUME NEW t \in Tasks, TxTest(t) PROVE MessagesAreCounted'
  BY <1>10 DEF TxTest, Goto
<1>11. ASSUME NEW t \in Tasks, TxGiveUp(t) PROVE MessagesAreCounted'
  BY <1>11 DEF TxGiveUp, Goto
<1>12. ASSUME NEW t \in Tasks, TxWake(t) PROVE MessagesAreCounted'
  BY <1>12 DEF TxWake, Goto
<1>13. ASSUME NEW t \in Tasks, TxGo(t) PROVE MessagesAreCounted'
  BY <1>13 DEF TxGo, Goto
<1>14. ASSUME NEW t \in Tasks, DataWrite(t) PROVE MessagesAreCounted'
  BY <1>14 DEF DataWrite, Goto
<1>15. ASSUME NEW t \in Tasks, SetRestart(t) PROVE MessagesAreCounted'
  BY <1>15 DEF SetRestart, Goto
<1>16. ASSUME NEW t \in Tasks, DeleteLock(t) PROVE MessagesAreCounted'
  BY <1>16 DEF DeleteLock, Goto
<1>17. ASSUME NEW t \in Tasks, CmdWriteFails(t) PROVE MessagesAreCounted'
  BY <1>17 DEF CmdWriteFails, Goto
<1>18. ASSUME NEW t \in Tasks, CmdTimeout(t) PROVE MessagesAreCounted'
  BY <1>18 DEF CmdTimeout, Goto
<1>19. ASSUME NEW t \in Tasks, DataWriteFails(t) PROVE MessagesAreCounted'
  BY <1>19 DEF DataWriteFails, Goto
<1>20. ASSUME NEW t \in Tasks, NwpRespond(t) PROVE MessagesAreCounted'
  <2>1. PICK kind \in {"response", "refusal"} : Announce(kind, t)
    BY <1>20 DEF NwpRespond, Pay
  <2>2. kind \in MsgKinds /\ t \in Tasks \cup {NoOne}
    BY DEF MsgKinds
  <2>3. Len(nwp') = Len(nwp) + 1
    BY <2>1, <2>2, AnnounceAppends
  <2>. QED
    BY <2>1, <2>3 DEF Announce
<1>21. ASSUME NEW t \in Tasks, NwpComplete(t) PROVE MessagesAreCounted'
  BY <1>21, AnnounceAppends DEF NwpComplete, Goto, Pay, Announce, MsgKinds
<1>22. ASSUME NEW t \in Tasks, NwpDeliver(t) PROVE MessagesAreCounted'
  BY <1>22, AnnounceAppends DEF NwpDeliver, Goto, Pay, Announce, MsgKinds
<1>23. CASE SpawnTake
  BY <1>23 DEF SpawnTake, Goto
<1>24. CASE SpawnLock
  BY <1>24 DEF SpawnLock, Goto
<1>25. CASE SpawnFindsNothing
  BY <1>25 DEF SpawnFindsNothing, Goto
<1>26. CASE SpawnRead
  <2>1. PICK m \in Msg : HdrRead(m)
    BY <1>26 DEF SpawnRead, MsgRead
  <2>. QED
    BY <1>26, <2>1, ReadTakesFirst DEF SpawnRead, Counted, HdrRead
<1>27. CASE RxIrq
  BY <1>27 DEF RxIrq, Goto
<1>28. CASE NwpTransmitted
  BY <1>28, AnnounceAppends DEF NwpTransmitted, Goto, Pay, Announce, MsgKinds
<1>29. CASE NwpEvent
  BY <1>29, AnnounceAppends DEF NwpEvent, Goto, Pay, Announce, MsgKinds
<1>30. CASE UNCHANGED vars
  BY <1>30 DEF vars, callerVars, lockVars, rxVars, flowVars, spawnVars, nwpVars, Goto
<1>31. ASSUME NEW t \in Tasks, ObjTimeout(t) PROVE MessagesAreCounted'
  BY <1>31 DEF ObjTimeout, Goto
<1>32. ASSUME NEW t \in Tasks, SystemReset(t) PROVE MessagesAreCounted'
  BY <1>32, EmptySeq DEF SystemReset
<1>33. ASSUME NEW t \in Tasks, CmdReadFails(t) PROVE MessagesAreCounted'
  <2>1. PICK m \in Msg : HdrRead(m)
    BY <1>33 DEF CmdReadFails, MsgReadFails
  <2>. QED
    BY <1>33, <2>1, ReadTakesFirst DEF CmdReadFails, NotCounted, HdrRead
<1>34. CASE SpawnReadFails
  <2>1. PICK m \in Msg : HdrRead(m)
    BY <1>34 DEF SpawnReadFails, MsgReadFails
  <2>. QED
    BY <1>34, <2>1, ReadTakesFirst DEF SpawnReadFails, NotCounted, HdrRead
<1>. QED
  BY <1>1, <1>2, <1>3, <1>4, <1>5, <1>6, <1>7, <1>8, <1>9, <1>10, <1>11, 
     <1>12, <1>13, <1>14, <1>15, <1>16, <1>17, <1>18, <1>19, <1>20, 
     <1>21, <1>22, <1>23, <1>24, <1>25, <1>26, <1>27, <1>28, <1>29, 
     <1>30, <1>31, <1>32, <1>33, <1>34
     DEF Next, SystemStep, CallerStep, FaultStep, SpawnStep, NwpStep, Quiet

\* A header gives the host the free buffers of the processor; a transfer takes
\* a credit before a buffer, and only the processor frees buffers.
LEMMA CreditStep == IInv /\ Next => CreditIsCovered'
<1> SUFFICES ASSUME IInv, Next PROVE CreditIsCovered'
  OBVIOUS
<1>0. txPoolCnt \in Nat /\ nwpFree \in Nat /\ txPoolCnt <= nwpFree
  BY DriverAssumption DEF IInv, TypeOK, CreditIsCovered
<1> USE <1>0 DEF CreditIsCovered, callerVars, lockVars, rxVars, flowVars,
      spawnVars, nwpVars
<1>1. ASSUME NEW t \in Tasks, NEW kind \in CallKinds, Call(t, kind) PROVE CreditIsCovered'
  BY <1>1 DEF Call, Goto
<1>2. ASSUME NEW t \in Tasks, TakeGlobal(t) PROVE CreditIsCovered'
  BY <1>2 DEF TakeGlobal, Goto
<1>3. ASSUME NEW t \in Tasks, CmdWrite(t) PROVE CreditIsCovered'
  BY <1>3 DEF CmdWrite, Goto
<1>4. ASSUME NEW t \in Tasks, CmdRead(t) PROVE CreditIsCovered'
  BY <1>4 DEF CmdRead, Goto, MsgRead, HdrRead
<1>5. ASSUME NEW t \in Tasks, CmdWake(t) PROVE CreditIsCovered'
  BY <1>5 DEF CmdWake, Goto
<1>6. ASSUME NEW t \in Tasks, CmdUnlock(t) PROVE CreditIsCovered'
  BY <1>6 DEF CmdUnlock, Goto
<1>7. ASSUME NEW t \in Tasks, CmdDone(t) PROVE CreditIsCovered'
  BY <1>7 DEF CmdDone, Goto
<1>8. ASSUME NEW t \in Tasks, ObjWake(t) PROVE CreditIsCovered'
  BY <1>8 DEF ObjWake, Goto
<1>9. ASSUME NEW t \in Tasks, TakeTxLock(t) PROVE CreditIsCovered'
  BY <1>9 DEF TakeTxLock, Goto
<1>10. ASSUME NEW t \in Tasks, TxTest(t) PROVE CreditIsCovered'
  BY <1>10 DEF TxTest, Goto
<1>11. ASSUME NEW t \in Tasks, TxGiveUp(t) PROVE CreditIsCovered'
  BY <1>11 DEF TxGiveUp, Goto
<1>12. ASSUME NEW t \in Tasks, TxWake(t) PROVE CreditIsCovered'
  BY <1>12 DEF TxWake, Goto
<1>13. ASSUME NEW t \in Tasks, TxGo(t) PROVE CreditIsCovered'
  BY <1>13 DEF TxGo, Goto
<1>14. ASSUME NEW t \in Tasks, DataWrite(t) PROVE CreditIsCovered'
  BY <1>14 DEF DataWrite, Goto
<1>15. ASSUME NEW t \in Tasks, SetRestart(t) PROVE CreditIsCovered'
  BY <1>15 DEF SetRestart, Goto
<1>16. ASSUME NEW t \in Tasks, DeleteLock(t) PROVE CreditIsCovered'
  BY <1>16 DEF DeleteLock, Goto
<1>17. ASSUME NEW t \in Tasks, CmdWriteFails(t) PROVE CreditIsCovered'
  BY <1>17 DEF CmdWriteFails, Goto
<1>18. ASSUME NEW t \in Tasks, CmdTimeout(t) PROVE CreditIsCovered'
  BY <1>18 DEF CmdTimeout, Goto
<1>19. ASSUME NEW t \in Tasks, DataWriteFails(t) PROVE CreditIsCovered'
  BY <1>19 DEF DataWriteFails, Goto
<1>20. ASSUME NEW t \in Tasks, NwpRespond(t) PROVE CreditIsCovered'
  BY <1>20 DEF NwpRespond, Goto, Pay, Announce
<1>21. ASSUME NEW t \in Tasks, NwpComplete(t) PROVE CreditIsCovered'
  BY <1>21 DEF NwpComplete, Goto, Pay, Announce
<1>22. ASSUME NEW t \in Tasks, NwpDeliver(t) PROVE CreditIsCovered'
  BY <1>22 DEF NwpDeliver, Goto, Pay, Announce
<1>23. CASE SpawnTake
  BY <1>23 DEF SpawnTake, Goto
<1>24. CASE SpawnLock
  BY <1>24 DEF SpawnLock, Goto
<1>25. CASE SpawnFindsNothing
  BY <1>25 DEF SpawnFindsNothing, Goto
<1>26. CASE SpawnRead
  BY <1>26 DEF SpawnRead, Goto, MsgRead, HdrRead
<1>27. CASE RxIrq
  BY <1>27 DEF RxIrq, Goto
<1>28. CASE NwpTransmitted
  BY <1>28 DEF NwpTransmitted, Goto, Pay, Announce
<1>29. CASE NwpEvent
  BY <1>29 DEF NwpEvent, Goto, Pay, Announce
<1>30. CASE UNCHANGED vars
  BY <1>30 DEF vars, callerVars, lockVars, rxVars, flowVars, spawnVars, nwpVars, Goto
<1>31. ASSUME NEW t \in Tasks, ObjTimeout(t) PROVE CreditIsCovered'
  BY <1>31 DEF ObjTimeout, Goto
<1>32. ASSUME NEW t \in Tasks, SystemReset(t) PROVE CreditIsCovered'
  BY <1>32, DriverAssumption DEF SystemReset
<1>33. ASSUME NEW t \in Tasks, CmdReadFails(t) PROVE CreditIsCovered'
  BY <1>33 DEF CmdReadFails, MsgReadFails, HdrRead
<1>34. CASE SpawnReadFails
  BY <1>34 DEF SpawnReadFails, MsgReadFails, HdrRead
<1>. QED
  BY <1>1, <1>2, <1>3, <1>4, <1>5, <1>6, <1>7, <1>8, <1>9, <1>10, <1>11, 
     <1>12, <1>13, <1>14, <1>15, <1>16, <1>17, <1>18, <1>19, <1>20, 
     <1>21, <1>22, <1>23, <1>24, <1>25, <1>26, <1>27, <1>28, <1>29, 
     <1>30, <1>31, <1>32, <1>33, <1>34
     DEF Next, SystemStep, CallerStep, FaultStep, SpawnStep, NwpStep, Quiet

LEMMA PlacesStep == IInv /\ Next => CallsKeepPlaces'
<1> SUFFICES ASSUME IInv, Next PROVE CallsKeepPlaces'
  OBVIOUS
<1>0. TypeOK /\ CallsKeepPlaces
  BY DEF IInv
<1> USE <1>0 DEF CallsKeepPlaces, DataCall, TypeOK, callerVars, lockVars, rxVars,
      flowVars, spawnVars, nwpVars
<1>1. ASSUME NEW t \in Tasks, NEW kind \in CallKinds, Call(t, kind) PROVE CallsKeepPlaces'
  BY <1>1 DEF Call, Goto
<1>2. ASSUME NEW t \in Tasks, TakeGlobal(t) PROVE CallsKeepPlaces'
  BY <1>2 DEF TakeGlobal, Goto
<1>3. ASSUME NEW t \in Tasks, CmdWrite(t) PROVE CallsKeepPlaces'
  BY <1>3 DEF CmdWrite, Goto
<1>4. ASSUME NEW t \in Tasks, CmdRead(t) PROVE CallsKeepPlaces'
  <2>1. /\ pc[t] = "resp"
        /\ pc' = pc \/ pc' = [pc EXCEPT ![t] = "unlock"]
        /\ call' = call \/ call' = [call EXCEPT ![t] = "command"]
    BY <1>4 DEF CmdRead, Goto
  <2>2. /\ UNCHANGED txLock /\ txPoolCnt' = nwpFree
        /\ txSync' = IF nwpFree > FLOW_CONT_MIN THEN TRUE ELSE txSync
    BY <1>4 DEF CmdRead, MsgRead, HdrRead
  <2>3. ASSUME NEW u \in Tasks
        PROVE  /\ u # t => pc'[u] = pc[u] /\ call'[u] = call[u]
               /\ u = t => pc'[u] \in {"resp", "unlock"} /\ call'[u] \notin {"send", "recv"}
    BY <2>1
  <2>. QED
    BY <2>1, <2>2, <2>3
<1>5. ASSUME NEW t \in Tasks, CmdWake(t) PROVE CallsKeepPlaces'
  BY <1>5 DEF CmdWake, Goto
<1>6. ASSUME NEW t \in Tasks, CmdUnlock(t) PROVE CallsKeepPlaces'
  BY <1>6 DEF CmdUnlock, Goto
<1>7. ASSUME NEW t \in Tasks, CmdDone(t) PROVE CallsKeepPlaces'
  BY <1>7 DEF CmdDone, Goto
<1>8. ASSUME NEW t \in Tasks, ObjWake(t) PROVE CallsKeepPlaces'
  BY <1>8 DEF ObjWake, Goto
<1>9. ASSUME NEW t \in Tasks, TakeTxLock(t) PROVE CallsKeepPlaces'
  BY <1>9 DEF TakeTxLock, Goto
<1>10. ASSUME NEW t \in Tasks, TxTest(t) PROVE CallsKeepPlaces'
  BY <1>10 DEF TxTest, Goto
<1>11. ASSUME NEW t \in Tasks, TxGiveUp(t) PROVE CallsKeepPlaces'
  BY <1>11 DEF TxGiveUp, Goto
<1>12. ASSUME NEW t \in Tasks, TxWake(t) PROVE CallsKeepPlaces'
  BY <1>12 DEF TxWake, Goto
<1>13. ASSUME NEW t \in Tasks, TxGo(t) PROVE CallsKeepPlaces'
  BY <1>13 DEF TxGo, Goto
<1>14. ASSUME NEW t \in Tasks, DataWrite(t) PROVE CallsKeepPlaces'
  BY <1>14 DEF DataWrite, Goto
<1>15. ASSUME NEW t \in Tasks, SetRestart(t) PROVE CallsKeepPlaces'
  BY <1>15 DEF SetRestart, Goto
<1>16. ASSUME NEW t \in Tasks, DeleteLock(t) PROVE CallsKeepPlaces'
  BY <1>16 DEF DeleteLock, Goto
<1>17. ASSUME NEW t \in Tasks, CmdWriteFails(t) PROVE CallsKeepPlaces'
  BY <1>17 DEF CmdWriteFails, Goto
<1>18. ASSUME NEW t \in Tasks, CmdTimeout(t) PROVE CallsKeepPlaces'
  BY <1>18 DEF CmdTimeout, Goto
<1>19. ASSUME NEW t \in Tasks, DataWriteFails(t) PROVE CallsKeepPlaces'
  BY <1>19 DEF DataWriteFails, Goto
<1>20. ASSUME NEW t \in Tasks, NwpRespond(t) PROVE CallsKeepPlaces'
  BY <1>20 DEF NwpRespond, Goto, Pay, Announce
<1>21. ASSUME NEW t \in Tasks, NwpComplete(t) PROVE CallsKeepPlaces'
  BY <1>21 DEF NwpComplete, Goto, Pay, Announce
<1>22. ASSUME NEW t \in Tasks, NwpDeliver(t) PROVE CallsKeepPlaces'
  BY <1>22 DEF NwpDeliver, Goto, Pay, Announce
<1>23. CASE SpawnTake
  BY <1>23 DEF SpawnTake, Goto
<1>24. CASE SpawnLock
  BY <1>24 DEF SpawnLock, Goto
<1>25. CASE SpawnFindsNothing
  BY <1>25 DEF SpawnFindsNothing, Goto
<1>26. CASE SpawnRead
  BY <1>26 DEF SpawnRead, Goto, MsgRead, HdrRead
<1>27. CASE RxIrq
  BY <1>27 DEF RxIrq, Goto
<1>28. CASE NwpTransmitted
  BY <1>28 DEF NwpTransmitted, Goto, Pay, Announce
<1>29. CASE NwpEvent
  BY <1>29 DEF NwpEvent, Goto, Pay, Announce
<1>30. CASE UNCHANGED vars
  BY <1>30 DEF vars, callerVars, lockVars, rxVars, flowVars, spawnVars, nwpVars, Goto
<1>31. ASSUME NEW t \in Tasks, ObjTimeout(t) PROVE CallsKeepPlaces'
  BY <1>31 DEF ObjTimeout, Goto
<1>32. ASSUME NEW t \in Tasks, SystemReset(t) PROVE CallsKeepPlaces'
  BY <1>32 DEF SystemReset
<1>33. ASSUME NEW t \in Tasks, CmdReadFails(t) PROVE CallsKeepPlaces'
  <2>1. /\ UNCHANGED txLock /\ txPoolCnt' = nwpFree
        /\ txSync' = IF nwpFree > FLOW_CONT_MIN THEN TRUE ELSE txSync
    BY <1>33 DEF CmdReadFails, MsgReadFails, HdrRead
  <2>. QED
    BY <1>33, <2>1 DEF CmdReadFails, Goto
<1>34. CASE SpawnReadFails
  <2>1. /\ UNCHANGED txLock /\ txPoolCnt' = nwpFree
        /\ txSync' = IF nwpFree > FLOW_CONT_MIN THEN TRUE ELSE txSync
    BY <1>34 DEF SpawnReadFails, MsgReadFails, HdrRead
  <2>. QED
    BY <1>34, <2>1 DEF SpawnReadFails, Goto
<1>. QED
  BY <1>1, <1>2, <1>3, <1>4, <1>5, <1>6, <1>7, <1>8, <1>9, <1>10, <1>11, 
     <1>12, <1>13, <1>14, <1>15, <1>16, <1>17, <1>18, <1>19, <1>20, 
     <1>21, <1>22, <1>23, <1>24, <1>25, <1>26, <1>27, <1>28, <1>29, 
     <1>30, <1>31, <1>32, <1>33, <1>34
     DEF Next, SystemStep, CallerStep, FaultStep, SpawnStep, NwpStep, Quiet

\* The mutex is given to a task only when nobody holds it, and every place
\* inside the transport is left together with it.
LEMMA HolderStep == IInv /\ Next => HoldersInside'
<1> SUFFICES ASSUME IInv, Next PROVE HoldersInside'
  OBVIOUS
<1>0. TypeOK /\ CallsKeepPlaces /\ HoldersInside
  BY DEF IInv
<1> USE <1>0, DriverAssumption DEF HoldersInside, InTransport, TypeOK, GlobalFree,
      callerVars, lockVars, rxVars, flowVars, spawnVars, nwpVars
<1>1. ASSUME NEW t \in Tasks, NEW kind \in CallKinds, Call(t, kind) PROVE HoldersInside'
  BY <1>1 DEF Call, Goto
<1>2. ASSUME NEW t \in Tasks, TakeGlobal(t) PROVE HoldersInside'
  BY <1>2 DEF TakeGlobal, Goto
<1>3. ASSUME NEW t \in Tasks, CmdWrite(t) PROVE HoldersInside'
  BY <1>3 DEF CmdWrite, Goto
<1>4. ASSUME NEW t \in Tasks, CmdRead(t) PROVE HoldersInside'
  BY <1>4 DEF CmdRead, Goto, MsgRead, HdrRead
<1>5. ASSUME NEW t \in Tasks, CmdWake(t) PROVE HoldersInside'
  BY <1>5 DEF CmdWake, Goto
<1>6. ASSUME NEW t \in Tasks, CmdUnlock(t) PROVE HoldersInside'
  BY <1>6 DEF CmdUnlock, Goto
<1>7. ASSUME NEW t \in Tasks, CmdDone(t) PROVE HoldersInside'
  BY <1>7 DEF CmdDone, Goto
<1>8. ASSUME NEW t \in Tasks, ObjWake(t) PROVE HoldersInside'
  BY <1>8 DEF ObjWake, Goto
<1>9. ASSUME NEW t \in Tasks, TakeTxLock(t) PROVE HoldersInside'
  BY <1>9 DEF TakeTxLock, Goto
<1>10. ASSUME NEW t \in Tasks, TxTest(t) PROVE HoldersInside'
  BY <1>10 DEF TxTest, Goto
<1>11. ASSUME NEW t \in Tasks, TxGiveUp(t) PROVE HoldersInside'
  BY <1>11 DEF TxGiveUp, Goto
<1>12. ASSUME NEW t \in Tasks, TxWake(t) PROVE HoldersInside'
  BY <1>12 DEF TxWake, Goto
<1>13. ASSUME NEW t \in Tasks, TxGo(t) PROVE HoldersInside'
  BY <1>13 DEF TxGo, Goto
<1>14. ASSUME NEW t \in Tasks, DataWrite(t) PROVE HoldersInside'
  BY <1>14 DEF DataWrite, Goto
<1>15. ASSUME NEW t \in Tasks, SetRestart(t) PROVE HoldersInside'
  BY <1>15 DEF SetRestart, Goto
<1>16. ASSUME NEW t \in Tasks, DeleteLock(t) PROVE HoldersInside'
  BY <1>16 DEF DeleteLock, Goto
<1>17. ASSUME NEW t \in Tasks, CmdWriteFails(t) PROVE HoldersInside'
  BY <1>17 DEF CmdWriteFails, Goto
<1>18. ASSUME NEW t \in Tasks, CmdTimeout(t) PROVE HoldersInside'
  BY <1>18 DEF CmdTimeout, Goto
<1>19. ASSUME NEW t \in Tasks, DataWriteFails(t) PROVE HoldersInside'
  BY <1>19 DEF DataWriteFails, Goto
<1>20. ASSUME NEW t \in Tasks, NwpRespond(t) PROVE HoldersInside'
  BY <1>20 DEF NwpRespond, Goto, Pay, Announce
<1>21. ASSUME NEW t \in Tasks, NwpComplete(t) PROVE HoldersInside'
  BY <1>21 DEF NwpComplete, Goto, Pay, Announce
<1>22. ASSUME NEW t \in Tasks, NwpDeliver(t) PROVE HoldersInside'
  BY <1>22 DEF NwpDeliver, Goto, Pay, Announce
<1>23. CASE SpawnTake
  BY <1>23 DEF SpawnTake, Goto
<1>24. CASE SpawnLock
  BY <1>24 DEF SpawnLock, Goto
<1>25. CASE SpawnFindsNothing
  BY <1>25 DEF SpawnFindsNothing, Goto
<1>26. CASE SpawnRead
  BY <1>26 DEF SpawnRead, Goto, MsgRead, HdrRead
<1>27. CASE RxIrq
  BY <1>27 DEF RxIrq, Goto
<1>28. CASE NwpTransmitted
  BY <1>28 DEF NwpTransmitted, Goto, Pay, Announce
<1>29. CASE NwpEvent
  BY <1>29 DEF NwpEvent, Goto, Pay, Announce
<1>30. CASE UNCHANGED vars
  BY <1>30 DEF vars, callerVars, lockVars, rxVars, flowVars, spawnVars, nwpVars, Goto
<1>31. ASSUME NEW t \in Tasks, ObjTimeout(t) PROVE HoldersInside'
  BY <1>31 DEF ObjTimeout, Goto
<1>32. ASSUME NEW t \in Tasks, SystemReset(t) PROVE HoldersInside'
  BY <1>32 DEF SystemReset
<1>33. ASSUME NEW t \in Tasks, CmdReadFails(t) PROVE HoldersInside'
  <2>1. /\ UNCHANGED txLock /\ txPoolCnt' = nwpFree
        /\ txSync' = IF nwpFree > FLOW_CONT_MIN THEN TRUE ELSE txSync
    BY <1>33 DEF CmdReadFails, MsgReadFails, HdrRead
  <2>. QED
    BY <1>33, <2>1 DEF CmdReadFails, Goto
<1>34. CASE SpawnReadFails
  <2>1. /\ UNCHANGED txLock /\ txPoolCnt' = nwpFree
        /\ txSync' = IF nwpFree > FLOW_CONT_MIN THEN TRUE ELSE txSync
    BY <1>34 DEF SpawnReadFails, MsgReadFails, HdrRead
  <2>. QED
    BY <1>34, <2>1 DEF SpawnReadFails, Goto
<1>. QED
  BY <1>1, <1>2, <1>3, <1>4, <1>5, <1>6, <1>7, <1>8, <1>9, <1>10, <1>11, 
     <1>12, <1>13, <1>14, <1>15, <1>16, <1>17, <1>18, <1>19, <1>20, 
     <1>21, <1>22, <1>23, <1>24, <1>25, <1>26, <1>27, <1>28, <1>29, 
     <1>30, <1>31, <1>32, <1>33, <1>34
     DEF Next, SystemStep, CallerStep, FaultStep, SpawnStep, NwpStep, Quiet

\* A credit that was seen stays: a header never lowers it below the free
\* buffers, and only the holder of TxLockObj spends one.
LEMMA KeptStep == IInv /\ Next => CreditIsKept'
<1> SUFFICES ASSUME IInv, Next PROVE CreditIsKept'
  OBVIOUS
<1>0. /\ TypeOK /\ CallsKeepPlaces /\ CreditIsKept
      /\ txPoolCnt \in Nat /\ nwpFree \in Nat /\ txPoolCnt <= nwpFree
  BY DriverAssumption DEF IInv, TypeOK, CreditIsCovered
<1> USE <1>0, DriverAssumption DEF CreditIsKept, CallsKeepPlaces, TxPlaces, Credited,
      DataCall, TypeOK, Credit, FLOW_CONT_MIN, GlobalFree,
      callerVars, lockVars, rxVars, flowVars, spawnVars, nwpVars
<1>1. ASSUME NEW t \in Tasks, NEW kind \in CallKinds, Call(t, kind) PROVE CreditIsKept'
  BY <1>1 DEF Call, Goto
<1>2. ASSUME NEW t \in Tasks, TakeGlobal(t) PROVE CreditIsKept'
  BY <1>2 DEF TakeGlobal, Goto
<1>3. ASSUME NEW t \in Tasks, CmdWrite(t) PROVE CreditIsKept'
  BY <1>3 DEF CmdWrite, Goto
<1>4. ASSUME NEW t \in Tasks, CmdRead(t) PROVE CreditIsKept'
  <2>1. /\ pc[t] = "resp"
        /\ pc' = pc \/ pc' = [pc EXCEPT ![t] = "unlock"]
        /\ call' = call \/ call' = [call EXCEPT ![t] = "command"]
    BY <1>4 DEF CmdRead, Goto
  <2>2. /\ UNCHANGED txLock /\ txPoolCnt' = nwpFree
        /\ txSync' = IF nwpFree > FLOW_CONT_MIN THEN TRUE ELSE txSync
    BY <1>4 DEF CmdRead, MsgRead, HdrRead
  <2>3. ASSUME NEW u \in Tasks
        PROVE  /\ u # t => pc'[u] = pc[u] /\ call'[u] = call[u]
               /\ u = t => pc'[u] \in {"resp", "unlock"} /\ call'[u] \notin {"send", "recv"}
    BY <2>1
  <2>. QED
    BY <2>1, <2>2, <2>3
<1>5. ASSUME NEW t \in Tasks, CmdWake(t) PROVE CreditIsKept'
  BY <1>5 DEF CmdWake, Goto
<1>6. ASSUME NEW t \in Tasks, CmdUnlock(t) PROVE CreditIsKept'
  BY <1>6 DEF CmdUnlock, Goto
<1>7. ASSUME NEW t \in Tasks, CmdDone(t) PROVE CreditIsKept'
  BY <1>7 DEF CmdDone, Goto
<1>8. ASSUME NEW t \in Tasks, ObjWake(t) PROVE CreditIsKept'
  BY <1>8 DEF ObjWake, Goto
<1>9. ASSUME NEW t \in Tasks, TakeTxLock(t) PROVE CreditIsKept'
  BY <1>9 DEF TakeTxLock, Goto
<1>10. ASSUME NEW t \in Tasks, TxTest(t) PROVE CreditIsKept'
  BY <1>10 DEF TxTest, Goto
<1>11. ASSUME NEW t \in Tasks, TxGiveUp(t) PROVE CreditIsKept'
  BY <1>11 DEF TxGiveUp, Goto
<1>12. ASSUME NEW t \in Tasks, TxWake(t) PROVE CreditIsKept'
  BY <1>12 DEF TxWake, Goto
<1>13. ASSUME NEW t \in Tasks, TxGo(t) PROVE CreditIsKept'
  BY <1>13 DEF TxGo, Goto
<1>14. ASSUME NEW t \in Tasks, DataWrite(t) PROVE CreditIsKept'
  BY <1>14 DEF DataWrite, Goto
<1>15. ASSUME NEW t \in Tasks, SetRestart(t) PROVE CreditIsKept'
  BY <1>15 DEF SetRestart, Goto
<1>16. ASSUME NEW t \in Tasks, DeleteLock(t) PROVE CreditIsKept'
  BY <1>16 DEF DeleteLock, Goto
<1>17. ASSUME NEW t \in Tasks, CmdWriteFails(t) PROVE CreditIsKept'
  BY <1>17 DEF CmdWriteFails, Goto
<1>18. ASSUME NEW t \in Tasks, CmdTimeout(t) PROVE CreditIsKept'
  BY <1>18 DEF CmdTimeout, Goto
<1>19. ASSUME NEW t \in Tasks, DataWriteFails(t) PROVE CreditIsKept'
  BY <1>19 DEF DataWriteFails, Goto
<1>20. ASSUME NEW t \in Tasks, NwpRespond(t) PROVE CreditIsKept'
  BY <1>20 DEF NwpRespond, Goto, Pay, Announce
<1>21. ASSUME NEW t \in Tasks, NwpComplete(t) PROVE CreditIsKept'
  BY <1>21 DEF NwpComplete, Goto, Pay, Announce
<1>22. ASSUME NEW t \in Tasks, NwpDeliver(t) PROVE CreditIsKept'
  BY <1>22 DEF NwpDeliver, Goto, Pay, Announce
<1>23. CASE SpawnTake
  BY <1>23 DEF SpawnTake, Goto
<1>24. CASE SpawnLock
  BY <1>24 DEF SpawnLock, Goto
<1>25. CASE SpawnFindsNothing
  BY <1>25 DEF SpawnFindsNothing, Goto
<1>26. CASE SpawnRead
  BY <1>26 DEF SpawnRead, Goto, MsgRead, HdrRead
<1>27. CASE RxIrq
  BY <1>27 DEF RxIrq, Goto
<1>28. CASE NwpTransmitted
  BY <1>28 DEF NwpTransmitted, Goto, Pay, Announce
<1>29. CASE NwpEvent
  BY <1>29 DEF NwpEvent, Goto, Pay, Announce
<1>30. CASE UNCHANGED vars
  BY <1>30 DEF vars, callerVars, lockVars, rxVars, flowVars, spawnVars, nwpVars, Goto
<1>31. ASSUME NEW t \in Tasks, ObjTimeout(t) PROVE CreditIsKept'
  BY <1>31 DEF ObjTimeout, Goto
<1>32. ASSUME NEW t \in Tasks, SystemReset(t) PROVE CreditIsKept'
  BY <1>32 DEF SystemReset
<1>33. ASSUME NEW t \in Tasks, CmdReadFails(t) PROVE CreditIsKept'
  <2>1. /\ UNCHANGED txLock /\ txPoolCnt' = nwpFree
        /\ txSync' = IF nwpFree > FLOW_CONT_MIN THEN TRUE ELSE txSync
    BY <1>33 DEF CmdReadFails, MsgReadFails, HdrRead
  <2>. QED
    BY <1>33, <2>1 DEF CmdReadFails, Goto
<1>34. CASE SpawnReadFails
  <2>1. /\ UNCHANGED txLock /\ txPoolCnt' = nwpFree
        /\ txSync' = IF nwpFree > FLOW_CONT_MIN THEN TRUE ELSE txSync
    BY <1>34 DEF SpawnReadFails, MsgReadFails, HdrRead
  <2>. QED
    BY <1>34, <2>1 DEF SpawnReadFails, Goto
<1>. QED
  BY <1>1, <1>2, <1>3, <1>4, <1>5, <1>6, <1>7, <1>8, <1>9, <1>10, <1>11, 
     <1>12, <1>13, <1>14, <1>15, <1>16, <1>17, <1>18, <1>19, <1>20, 
     <1>21, <1>22, <1>23, <1>24, <1>25, <1>26, <1>27, <1>28, <1>29, 
     <1>30, <1>31, <1>32, <1>33, <1>34
     DEF Next, SystemStep, CallerStep, FaultStep, SpawnStep, NwpStep, Quiet

\* The state inside the API is consistent at all times, whatever fails.
THEOREM DriverInvariant == Spec => []IInv
<1>1. IInv /\ [Next]_vars => IInv'
  <2> SUFFICES ASSUME IInv, [Next]_vars PROVE IInv'
    OBVIOUS
  <2>1. CASE Next
    BY <2>1, TypeStep, CountStep, CreditStep, PlacesStep, HolderStep, KeptStep DEF IInv
  <2>2. CASE UNCHANGED vars
    <3> USE <2>2 DEF vars, callerVars, lockVars, rxVars, flowVars, spawnVars, nwpVars
    <3>1. TypeOK' /\ MessagesAreCounted' /\ CreditIsCovered'
      BY DEF IInv, TypeOK, MessagesAreCounted, CreditIsCovered
    <3>2. CallsKeepPlaces' /\ HoldersInside'
      BY DEF IInv, CallsKeepPlaces, HoldersInside, InTransport, DataCall
    <3>3. CreditIsKept'
      BY DEF IInv, CreditIsKept, TxPlaces, Credited, DataCall, Credit
    <3>. QED
      BY <3>1, <3>2, <3>3 DEF IInv
  <2>. QED
    BY <2>1, <2>2
<1>. QED
  BY <1>1, InitIInv, PTL DEF Spec

\* Every variable keeps its type.
THEOREM DriverTypeCorrect == Spec => []TypeOK
<1>1. IInv => TypeOK
  BY DEF IInv
<1>. QED
  BY <1>1, DriverInvariant, PTL

\* The interrupt counters agree with the messages of the processor up to the
\* reads that failed, each of which leaves them one too high: without one, a
\* reader that sees a pending message finds it.
THEOREM MessagesCounted == Spec => []MessagesAreCounted
<1>1. IInv => MessagesAreCounted
  BY DEF IInv
<1>. QED
  BY <1>1, DriverInvariant, PTL

\* The host never believes in more transmit buffers than the processor has.
THEOREM CreditCovered == Spec => []CreditIsCovered
<1>1. IInv => CreditIsCovered
  BY DEF IInv
<1>. QED
  BY <1>1, DriverInvariant, PTL

\* The transport is used by one task at a time, also while the error handling
\* deletes its mutex.
THEOREM ExclusiveTransport == Spec => []TransportIsExclusive
<1>1. IInv => TransportIsExclusive
  BY DriverAssumption DEF IInv, HoldersInside, TransportIsExclusive
<1>. QED
  BY <1>1, DriverInvariant, PTL

\* VERIFY_PROTOCOL never fails: a data call that comes to its transfer finds the
\* credit it has seen, although it has waited for the global lock and every
\* header that was read meanwhile has overwritten TxPoolCnt (driver.c:751, 851).
THEOREM CreditSuffices ==
  Spec => [](\A t \in Tasks : pc[t] = "data" => txPoolCnt > Credit(call[t]))
<1>1. IInv => \A t \in Tasks : pc[t] = "data" => txPoolCnt > Credit(call[t])
  BY DEF IInv, CreditIsKept, Credited
<1>. QED
  BY <1>1, DriverInvariant, PTL

-----------------------------------------------------------------------------
(* Answers, when the driver is reliable *)

LEMMA InitIAnswers == Init => IAnswers
<1> SUFFICES ASSUME Init PROVE IAnswers
  OBVIOUS
<1> USE DriverAssumption DEF Init
<1>1. NoError /\ AnswerIsOwn
  BY DEF NoError, AnswerIsOwn
<1>2. NoLeak
  BY DEF NoLeak
<1>3. OneAnswer
  BY EmptySeq DEF OneAnswer, AnswersDue, Dues
<1>. QED
  BY <1>1, <1>2, <1>3 DEF IAnswers

\* While the spawn task reads, no response is on its way.
LEMMA SpawnSeesNoAnswer ==
  ASSUME IInv, OneAnswer, spawnPc = "read", NEW i \in 1..Len(nwp)
  PROVE  nwp[i].kind \notin Answers
<1>1. SUFFICES ASSUME nwp[i].kind \in Answers PROVE FALSE
  OBVIOUS
<1>2. nwp[i].to \in Tasks /\ pc[nwp[i].to] = "resp"
  BY <1>1 DEF OneAnswer
<1>3. globalLock = nwp[i].to /\ globalLock = Spawn
  BY <1>2 DEF IInv, HoldersInside, InTransport
<1>. QED
  BY <1>2, <1>3, DriverAssumption

\* A response a command reads is addressed to it.
LEMMA CommandReadsItsAnswer ==
  ASSUME IInv, OneAnswer, NEW t \in Tasks, pc[t] = "resp",
         NEW i \in 1..Len(nwp), nwp[i].kind \in Answers
  PROVE  nwp[i].to = t
<1>1. nwp[i].to \in Tasks /\ pc[nwp[i].to] = "resp"
  BY DEF OneAnswer
<1>. QED
  BY <1>1 DEF IInv, HoldersInside, InTransport

LEMMA NoErrorStep ==
  ASSUME Reliable, IInv, IAnswers, Next
  PROVE  NoError'
<1>0. TypeOK /\ NoError
  BY DEF IInv, IAnswers
<1> USE <1>0 DEF NoError, TypeOK, callerVars, lockVars, rxVars, flowVars, spawnVars, nwpVars
<1>1. ASSUME NEW t \in Tasks, NEW kind \in CallKinds, Call(t, kind) PROVE NoError'
  BY <1>1 DEF Call, Goto
<1>2. ASSUME NEW t \in Tasks, TakeGlobal(t) PROVE NoError'
  BY <1>2 DEF TakeGlobal, Goto
<1>3. ASSUME NEW t \in Tasks, CmdWrite(t) PROVE NoError'
  BY <1>3 DEF CmdWrite, Goto
<1>4. ASSUME NEW t \in Tasks, CmdRead(t) PROVE NoError'
  BY <1>4 DEF CmdRead, Goto, Counted
<1>5. ASSUME NEW t \in Tasks, CmdWake(t) PROVE NoError'
  BY <1>5 DEF CmdWake, Goto
<1>6. ASSUME NEW t \in Tasks, CmdUnlock(t) PROVE NoError'
  BY <1>6 DEF CmdUnlock, Goto
<1>7. ASSUME NEW t \in Tasks, CmdDone(t) PROVE NoError'
  BY <1>7 DEF CmdDone, Goto
<1>8. ASSUME NEW t \in Tasks, ObjWake(t) PROVE NoError'
  BY <1>8 DEF ObjWake, Goto
<1>9. ASSUME NEW t \in Tasks, TakeTxLock(t) PROVE NoError'
  BY <1>9 DEF TakeTxLock, Goto
<1>10. ASSUME NEW t \in Tasks, TxTest(t) PROVE NoError'
  BY <1>10 DEF TxTest, Goto
<1>11. ASSUME NEW t \in Tasks, TxGiveUp(t) PROVE NoError'
  BY <1>11 DEF TxGiveUp, Goto
<1>12. ASSUME NEW t \in Tasks, TxWake(t) PROVE NoError'
  BY <1>12 DEF TxWake, Goto
<1>13. ASSUME NEW t \in Tasks, TxGo(t) PROVE NoError'
  BY <1>13 DEF TxGo, Goto
<1>14. ASSUME NEW t \in Tasks, DataWrite(t) PROVE NoError'
  BY <1>14 DEF DataWrite, Goto
<1>15. ASSUME NEW t \in Tasks, SetRestart(t) PROVE NoError'
  BY <1>15 DEF SetRestart, Goto
<1>16. ASSUME NEW t \in Tasks, DeleteLock(t) PROVE NoError'
  BY <1>16 DEF DeleteLock, Goto
<1>17. ASSUME NEW t \in Tasks, CmdWriteFails(t) PROVE NoError'
  BY <1>17 DEF CmdWriteFails, Goto
<1>18. ASSUME NEW t \in Tasks, CmdTimeout(t) PROVE NoError'
  BY <1>18, NoReadFails
<1>19. ASSUME NEW t \in Tasks, DataWriteFails(t) PROVE NoError'
  BY <1>19 DEF DataWriteFails, Goto
<1>20. ASSUME NEW t \in Tasks, NwpRespond(t) PROVE NoError'
  BY <1>20 DEF NwpRespond, Goto, Pay, Announce
<1>21. ASSUME NEW t \in Tasks, NwpComplete(t) PROVE NoError'
  BY <1>21 DEF NwpComplete, Goto, Pay, Announce
<1>22. ASSUME NEW t \in Tasks, NwpDeliver(t) PROVE NoError'
  BY <1>22 DEF NwpDeliver, Goto, Pay, Announce
<1>23. CASE SpawnTake
  BY <1>23 DEF SpawnTake, Goto
<1>24. CASE SpawnLock
  BY <1>24 DEF SpawnLock, Goto
<1>25. CASE SpawnFindsNothing
  BY <1>25 DEF SpawnFindsNothing, Goto
<1>26. CASE SpawnRead
  BY <1>26 DEF SpawnRead, Counted
<1>27. CASE RxIrq
  BY <1>27 DEF RxIrq, Goto
<1>28. CASE NwpTransmitted
  BY <1>28 DEF NwpTransmitted, Goto, Pay, Announce
<1>29. CASE NwpEvent
  BY <1>29 DEF NwpEvent, Goto, Pay, Announce
<1>30. CASE UNCHANGED vars
  BY <1>30 DEF vars, callerVars, lockVars, rxVars, flowVars, spawnVars, nwpVars, Goto
<1>31. ASSUME NEW t \in Tasks, ObjTimeout(t) PROVE NoError'
  BY <1>31, NoReadFails
<1>32. ASSUME NEW t \in Tasks, SystemReset(t) PROVE NoError'
  BY <1>32 DEF SystemReset
<1>33. ASSUME NEW t \in Tasks, CmdReadFails(t) PROVE NoError'
  BY <1>33, NoReadFails
<1>34. CASE SpawnReadFails
  BY <1>34, NoReadFails
<1>. QED
  BY <1>1, <1>2, <1>3, <1>4, <1>5, <1>6, <1>7, <1>8, <1>9, <1>10, <1>11, 
     <1>12, <1>13, <1>14, <1>15, <1>16, <1>17, <1>18, <1>19, <1>20, 
     <1>21, <1>22, <1>23, <1>24, <1>25, <1>26, <1>27, <1>28, <1>29, 
     <1>30, <1>31, <1>32, <1>33, <1>34
     DEF Next, SystemStep, CallerStep, FaultStep, SpawnStep, NwpStep, Quiet

\* VERIFY_PROTOCOL never fails after the flow control, and the spawn task never
\* meets a response: no early return keeps a lock.
LEMMA NoLeakStep ==
  ASSUME IInv, IAnswers, Next
  PROVE  NoLeak'
<1>0. TypeOK /\ NoError /\ NoLeak /\ CallsKeepPlaces /\ CreditIsKept
  BY DEF IInv, IAnswers
<1> USE <1>0, DriverAssumption DEF NoError, NoLeak, CallsKeepPlaces, InTransport, TxPlaces,
      DataCall, TypeOK, GlobalFree, callerVars, lockVars, rxVars, flowVars,
      spawnVars, nwpVars
<1>1. ASSUME NEW t \in Tasks, NEW kind \in CallKinds, Call(t, kind) PROVE NoLeak'
  BY <1>1 DEF Call, Goto
<1>2. ASSUME NEW t \in Tasks, TakeGlobal(t) PROVE NoLeak'
  BY <1>2 DEF TakeGlobal, Goto
<1>3. ASSUME NEW t \in Tasks, CmdWrite(t) PROVE NoLeak'
  BY <1>3 DEF CmdWrite, Goto
<1>4. ASSUME NEW t \in Tasks, CmdRead(t) PROVE NoLeak'
  <2>1. /\ pc[t] = "resp"
        /\ pc' = pc \/ pc' = [pc EXCEPT ![t] = "unlock"]
        /\ call' = call \/ call' = [call EXCEPT ![t] = "command"]
        /\ UNCHANGED <<txLock, globalLock, spawnPc>>
    BY <1>4 DEF CmdRead, Goto, MsgRead, HdrRead
  <2>2. ASSUME NEW u \in Tasks
        PROVE  /\ u # t => pc'[u] = pc[u] /\ call'[u] = call[u]
               /\ u = t => pc'[u] \in {"resp", "unlock"} /\ pc[u] = "resp"
    BY <2>1
  <2>. QED
    BY <2>1, <2>2
<1>5. ASSUME NEW t \in Tasks, CmdWake(t) PROVE NoLeak'
  BY <1>5 DEF CmdWake, Goto
<1>6. ASSUME NEW t \in Tasks, CmdUnlock(t) PROVE NoLeak'
  BY <1>6 DEF CmdUnlock, Goto
<1>7. ASSUME NEW t \in Tasks, CmdDone(t) PROVE NoLeak'
  BY <1>7 DEF CmdDone, Goto
<1>8. ASSUME NEW t \in Tasks, ObjWake(t) PROVE NoLeak'
  BY <1>8 DEF ObjWake, Goto
<1>9. ASSUME NEW t \in Tasks, TakeTxLock(t) PROVE NoLeak'
  BY <1>9 DEF TakeTxLock, Goto
<1>10. ASSUME NEW t \in Tasks, TxTest(t) PROVE NoLeak'
  BY <1>10 DEF TxTest, Goto
<1>11. ASSUME NEW t \in Tasks, TxGiveUp(t) PROVE NoLeak'
  BY <1>11 DEF TxGiveUp, Goto
<1>12. ASSUME NEW t \in Tasks, TxWake(t) PROVE NoLeak'
  BY <1>12 DEF TxWake, Goto
<1>13. ASSUME NEW t \in Tasks, TxGo(t) PROVE NoLeak'
  BY <1>13 DEF TxGo, Goto
<1>14. ASSUME NEW t \in Tasks, DataWrite(t) PROVE NoLeak'
  <2>1. pc[t] = "data" /\ txPoolCnt > Credit(call[t]) /\ txPoolCnt \in Nat
    BY <1>14 DEF DataWrite, CreditIsKept, Credited
  <2>2. Credit(call[t]) \in Nat
    BY DEF Credit, FLOW_CONT_MIN
  <2>3. /\ txLock' = NoOne /\ globalLock' = NoOne
        /\ UNCHANGED <<call, spawnPc>>
        /\ pc' = [pc EXCEPT ![t] = "wait"] \/ pc' = [pc EXCEPT ![t] = "idle"]
    BY <1>14, <2>1, <2>2 DEF DataWrite, Goto
  <2>. QED
    BY <2>3
<1>15. ASSUME NEW t \in Tasks, SetRestart(t) PROVE NoLeak'
  BY <1>15 DEF SetRestart, Goto
<1>16. ASSUME NEW t \in Tasks, DeleteLock(t) PROVE NoLeak'
  BY <1>16 DEF DeleteLock, Goto
<1>17. ASSUME NEW t \in Tasks, CmdWriteFails(t) PROVE NoLeak'
  BY <1>17 DEF CmdWriteFails, Goto
<1>18. ASSUME NEW t \in Tasks, CmdTimeout(t) PROVE NoLeak'
  BY <1>18 DEF CmdTimeout, Goto
<1>19. ASSUME NEW t \in Tasks, DataWriteFails(t) PROVE NoLeak'
  BY <1>19 DEF DataWriteFails, Goto
<1>20. ASSUME NEW t \in Tasks, NwpRespond(t) PROVE NoLeak'
  BY <1>20 DEF NwpRespond, Goto, Pay, Announce
<1>21. ASSUME NEW t \in Tasks, NwpComplete(t) PROVE NoLeak'
  BY <1>21 DEF NwpComplete, Goto, Pay, Announce
<1>22. ASSUME NEW t \in Tasks, NwpDeliver(t) PROVE NoLeak'
  BY <1>22 DEF NwpDeliver, Goto, Pay, Announce
<1>23. CASE SpawnTake
  BY <1>23 DEF SpawnTake, Goto
<1>24. CASE SpawnLock
  BY <1>24 DEF SpawnLock, Goto
<1>25. CASE SpawnFindsNothing
  BY <1>25 DEF SpawnFindsNothing, Goto
<1>26. CASE SpawnRead
  <2>1. PICK m : /\ MsgRead(m)
                 /\ globalLock' = IF m.kind \in {"response", "refusal"}
                                  THEN Spawn ELSE NoOne
    BY <1>26 DEF SpawnRead
  <2>2. m = nwp[1] /\ Len(nwp) \in Nat \ {0}
    BY <2>1, ReadTakesFirst DEF MsgRead
  <2>3. m.kind \notin Answers
    BY <1>26, <2>2, SpawnSeesNoAnswer DEF SpawnRead, IAnswers
  <2>4. globalLock' = NoOne
    BY <2>1, <2>3 DEF Answers
  <2>. QED
    BY <1>26, <2>1, <2>4 DEF SpawnRead, MsgRead, HdrRead
<1>27. CASE RxIrq
  BY <1>27 DEF RxIrq, Goto
<1>28. CASE NwpTransmitted
  BY <1>28 DEF NwpTransmitted, Goto, Pay, Announce
<1>29. CASE NwpEvent
  BY <1>29 DEF NwpEvent, Goto, Pay, Announce
<1>30. CASE UNCHANGED vars
  BY <1>30 DEF vars, callerVars, lockVars, rxVars, flowVars, spawnVars, nwpVars, Goto
<1>31. ASSUME NEW t \in Tasks, ObjTimeout(t) PROVE NoLeak'
  BY <1>31 DEF ObjTimeout, Goto
<1>32. ASSUME NEW t \in Tasks, SystemReset(t) PROVE NoLeak'
  BY <1>32 DEF SystemReset
<1>33. ASSUME NEW t \in Tasks, CmdReadFails(t) PROVE NoLeak'
  <2>1. /\ UNCHANGED txLock /\ txPoolCnt' = nwpFree
        /\ txSync' = IF nwpFree > FLOW_CONT_MIN THEN TRUE ELSE txSync
    BY <1>33 DEF CmdReadFails, MsgReadFails, HdrRead
  <2>. QED
    BY <1>33, <2>1 DEF CmdReadFails, Goto
<1>34. CASE SpawnReadFails
  <2>1. /\ UNCHANGED txLock /\ txPoolCnt' = nwpFree
        /\ txSync' = IF nwpFree > FLOW_CONT_MIN THEN TRUE ELSE txSync
    BY <1>34 DEF SpawnReadFails, MsgReadFails, HdrRead
  <2>. QED
    BY <1>34, <2>1 DEF SpawnReadFails, Goto
<1>. QED
  BY <1>1, <1>2, <1>3, <1>4, <1>5, <1>6, <1>7, <1>8, <1>9, <1>10, <1>11, 
     <1>12, <1>13, <1>14, <1>15, <1>16, <1>17, <1>18, <1>19, <1>20, 
     <1>21, <1>22, <1>23, <1>24, <1>25, <1>26, <1>27, <1>28, <1>29, 
     <1>30, <1>31, <1>32, <1>33, <1>34
     DEF Next, SystemStep, CallerStep, FaultStep, SpawnStep, NwpStep, Quiet

LEMMA OwnStep ==
  ASSUME IInv, IAnswers, Next
  PROVE  AnswerIsOwn'
<1>0. TypeOK /\ AnswerIsOwn
  BY DEF IInv, IAnswers
<1> USE <1>0 DEF AnswerIsOwn, TypeOK, callerVars, lockVars, rxVars, flowVars,
      spawnVars, nwpVars
<1>1. ASSUME NEW t \in Tasks, NEW kind \in CallKinds, Call(t, kind) PROVE AnswerIsOwn'
  BY <1>1 DEF Call, Goto
<1>2. ASSUME NEW t \in Tasks, TakeGlobal(t) PROVE AnswerIsOwn'
  BY <1>2 DEF TakeGlobal, Goto
<1>3. ASSUME NEW t \in Tasks, CmdWrite(t) PROVE AnswerIsOwn'
  BY <1>3 DEF CmdWrite, Goto
<1>4. ASSUME NEW t \in Tasks, CmdRead(t) PROVE AnswerIsOwn'
  <2>1. PICK m : /\ MsgRead(m)
                 /\ IF m.kind \in {"response", "refusal"}
                    THEN answer' = [answer EXCEPT ![t] = m.to]
                    ELSE UNCHANGED answer
    BY <1>4 DEF CmdRead
  <2>2. m = nwp[1] /\ Len(nwp) \in Nat \ {0}
    BY <2>1, ReadTakesFirst DEF MsgRead
  <2>3. m.kind \in Answers => m.to = t
    <3>1. pc[t] = "resp" /\ OneAnswer /\ IInv
      BY <1>4 DEF CmdRead, IAnswers
    <3>. QED
      BY <2>2, <3>1, CommandReadsItsAnswer
  <2>. QED
    BY <2>1, <2>3 DEF Answers
<1>5. ASSUME NEW t \in Tasks, CmdWake(t) PROVE AnswerIsOwn'
  BY <1>5 DEF CmdWake, Goto
<1>6. ASSUME NEW t \in Tasks, CmdUnlock(t) PROVE AnswerIsOwn'
  BY <1>6 DEF CmdUnlock, Goto
<1>7. ASSUME NEW t \in Tasks, CmdDone(t) PROVE AnswerIsOwn'
  BY <1>7 DEF CmdDone, Goto
<1>8. ASSUME NEW t \in Tasks, ObjWake(t) PROVE AnswerIsOwn'
  BY <1>8 DEF ObjWake, Goto
<1>9. ASSUME NEW t \in Tasks, TakeTxLock(t) PROVE AnswerIsOwn'
  BY <1>9 DEF TakeTxLock, Goto
<1>10. ASSUME NEW t \in Tasks, TxTest(t) PROVE AnswerIsOwn'
  BY <1>10 DEF TxTest, Goto
<1>11. ASSUME NEW t \in Tasks, TxGiveUp(t) PROVE AnswerIsOwn'
  BY <1>11 DEF TxGiveUp, Goto
<1>12. ASSUME NEW t \in Tasks, TxWake(t) PROVE AnswerIsOwn'
  BY <1>12 DEF TxWake, Goto
<1>13. ASSUME NEW t \in Tasks, TxGo(t) PROVE AnswerIsOwn'
  BY <1>13 DEF TxGo, Goto
<1>14. ASSUME NEW t \in Tasks, DataWrite(t) PROVE AnswerIsOwn'
  BY <1>14 DEF DataWrite, Goto
<1>15. ASSUME NEW t \in Tasks, SetRestart(t) PROVE AnswerIsOwn'
  BY <1>15 DEF SetRestart, Goto
<1>16. ASSUME NEW t \in Tasks, DeleteLock(t) PROVE AnswerIsOwn'
  BY <1>16 DEF DeleteLock, Goto
<1>17. ASSUME NEW t \in Tasks, CmdWriteFails(t) PROVE AnswerIsOwn'
  BY <1>17 DEF CmdWriteFails, Goto
<1>18. ASSUME NEW t \in Tasks, CmdTimeout(t) PROVE AnswerIsOwn'
  BY <1>18 DEF CmdTimeout, Goto
<1>19. ASSUME NEW t \in Tasks, DataWriteFails(t) PROVE AnswerIsOwn'
  BY <1>19 DEF DataWriteFails, Goto
<1>20. ASSUME NEW t \in Tasks, NwpRespond(t) PROVE AnswerIsOwn'
  BY <1>20 DEF NwpRespond, Goto, Pay, Announce
<1>21. ASSUME NEW t \in Tasks, NwpComplete(t) PROVE AnswerIsOwn'
  BY <1>21 DEF NwpComplete, Goto, Pay, Announce
<1>22. ASSUME NEW t \in Tasks, NwpDeliver(t) PROVE AnswerIsOwn'
  BY <1>22 DEF NwpDeliver, Goto, Pay, Announce
<1>23. CASE SpawnTake
  BY <1>23 DEF SpawnTake, Goto
<1>24. CASE SpawnLock
  BY <1>24 DEF SpawnLock, Goto
<1>25. CASE SpawnFindsNothing
  BY <1>25 DEF SpawnFindsNothing, Goto
<1>26. CASE SpawnRead
  BY <1>26 DEF SpawnRead, Goto, MsgRead, HdrRead
<1>27. CASE RxIrq
  BY <1>27 DEF RxIrq, Goto
<1>28. CASE NwpTransmitted
  BY <1>28 DEF NwpTransmitted, Goto, Pay, Announce
<1>29. CASE NwpEvent
  BY <1>29 DEF NwpEvent, Goto, Pay, Announce
<1>30. CASE UNCHANGED vars
  BY <1>30 DEF vars, callerVars, lockVars, rxVars, flowVars, spawnVars, nwpVars, Goto
<1>31. ASSUME NEW t \in Tasks, ObjTimeout(t) PROVE AnswerIsOwn'
  BY <1>31 DEF ObjTimeout, Goto
<1>32. ASSUME NEW t \in Tasks, SystemReset(t) PROVE AnswerIsOwn'
  BY <1>32 DEF SystemReset
<1>33. ASSUME NEW t \in Tasks, CmdReadFails(t) PROVE AnswerIsOwn'
  <2>1. /\ UNCHANGED txLock /\ txPoolCnt' = nwpFree
        /\ txSync' = IF nwpFree > FLOW_CONT_MIN THEN TRUE ELSE txSync
    BY <1>33 DEF CmdReadFails, MsgReadFails, HdrRead
  <2>. QED
    BY <1>33, <2>1 DEF CmdReadFails, Goto
<1>34. CASE SpawnReadFails
  <2>1. /\ UNCHANGED txLock /\ txPoolCnt' = nwpFree
        /\ txSync' = IF nwpFree > FLOW_CONT_MIN THEN TRUE ELSE txSync
    BY <1>34 DEF SpawnReadFails, MsgReadFails, HdrRead
  <2>. QED
    BY <1>34, <2>1 DEF SpawnReadFails, Goto
<1>. QED
  BY <1>1, <1>2, <1>3, <1>4, <1>5, <1>6, <1>7, <1>8, <1>9, <1>10, <1>11, 
     <1>12, <1>13, <1>14, <1>15, <1>16, <1>17, <1>18, <1>19, <1>20, 
     <1>21, <1>22, <1>23, <1>24, <1>25, <1>26, <1>27, <1>28, <1>29, 
     <1>30, <1>31, <1>32, <1>33, <1>34
     DEF Next, SystemStep, CallerStep, FaultStep, SpawnStep, NwpStep, Quiet

\* Answers survive the steps that leave the messages alone.
LEMMA AnswersKept ==
  ASSUME OneAnswer, UNCHANGED nwp,
         \A t \in Tasks : pc[t] = "resp" => pc'[t] = "resp",
         \A t \in Tasks : AnswersDue(t)' # 0 =>
           /\ AnswersDue(t)' = 1 /\ pc'[t] = "resp"
           /\ AnswersDue(t) # 0 \/ pc[t] # "resp"
  PROVE  OneAnswer'
<1>1. \A t \in Tasks : AnswersDue(t)' # 0 => AnswersDue(t)' = 1 /\ pc'[t] = "resp"
  OBVIOUS
<1>2. ASSUME NEW i \in 1..Len(nwp), nwp[i].kind \in Answers
      PROVE  nwp[i].to \in Tasks /\ pc'[nwp[i].to] = "resp" /\ AnswersDue(nwp[i].to)' = 0
  BY <1>2 DEF OneAnswer
<1>. QED
  BY <1>1, <1>2 DEF OneAnswer

\* A message that is read leaves the others in place; if it was a response its
\* reader waits for no other.
LEMMA AnswersRead ==
  ASSUME TypeOK, OneAnswer, NEW m, HdrRead(m),
         \A u \in Tasks : pc[u] = "resp" => pc'[u] = "resp" \/ (m.kind \in Answers /\ m.to = u)
  PROVE  OneAnswer'
<1>1. /\ m = nwp[1]
      /\ Len(nwp) \in Nat \ {0}
      /\ Len(nwp') = Len(nwp) - 1
      /\ \A i \in 1..Len(nwp') : nwp'[i] = nwp[i + 1]
  BY ReadTakesFirst DEF TypeOK
<1>2. \A u \in Tasks : AnswersDue(u)' = AnswersDue(u)
  BY DEF HdrRead, AnswersDue
<1>3. ASSUME NEW u \in Tasks, AnswersDue(u) # 0 PROVE AnswersDue(u) = 1 /\ pc'[u] = "resp"
  <2>1. AnswersDue(u) = 1 /\ pc[u] = "resp"
    BY <1>3 DEF OneAnswer
  <2>2. ~(m.kind \in Answers /\ m.to = u)
    BY <1>1, <1>3 DEF OneAnswer
  <2>. QED
    BY <2>1, <2>2
<1>4. ASSUME NEW i \in 1..Len(nwp'), nwp'[i].kind \in Answers
      PROVE  /\ i + 1 \in 1..Len(nwp) /\ nwp'[i] = nwp[i + 1]
             /\ nwp'[i].to \in Tasks
             /\ pc'[nwp'[i].to] = "resp"
             /\ AnswersDue(nwp'[i].to) = 0
  <2>1. i + 1 \in 1..Len(nwp) /\ i + 1 # 1 /\ 1 \in 1..Len(nwp) /\ nwp'[i] = nwp[i + 1]
    BY <1>1
  <2>2. /\ nwp'[i].to \in Tasks /\ pc[nwp'[i].to] = "resp"
        /\ AnswersDue(nwp'[i].to) = 0
    BY <1>4, <2>1 DEF OneAnswer
  <2>3. ~(m.kind \in Answers /\ m.to = nwp'[i].to)
    BY <1>1, <1>4, <2>1 DEF OneAnswer
  <2>. QED
    BY <2>1, <2>2, <2>3
<1>5. ASSUME NEW i \in 1..Len(nwp'), NEW j \in 1..Len(nwp'),
             nwp'[i].kind \in Answers, nwp'[j].kind \in Answers,
             nwp'[i].to = nwp'[j].to
      PROVE  i = j
  <2>1. /\ i + 1 \in 1..Len(nwp) /\ nwp'[i] = nwp[i + 1]
        /\ j + 1 \in 1..Len(nwp) /\ nwp'[j] = nwp[j + 1]
    BY <1>4, <1>5
  <2>2. i + 1 = j + 1
    BY <1>5, <2>1 DEF OneAnswer
  <2>. QED
    BY <2>2
<1>. QED
  BY <1>2, <1>3, <1>4, <1>5 DEF OneAnswer

\* A new message is a response only to a task that was owed one.
LEMMA AnswersAnnounced ==
  ASSUME TypeOK, OneAnswer, UNCHANGED pc,
         NEW kind \in MsgKinds, NEW t \in Tasks \cup {NoOne}, Announce(kind, t),
         \A u \in Tasks : AnswersDue(u)' # 0 =>
           AnswersDue(u)' = AnswersDue(u) /\ (kind \in Answers => u # t),
         kind \in Answers => t \in Tasks /\ AnswersDue(t) # 0
  PROVE  OneAnswer'
<1> DEFINE n == Len(nwp)
<1>1. /\ n \in Nat
      /\ Len(nwp') = n + 1
      /\ \A i \in 1..n : nwp'[i] = nwp[i]
      /\ nwp'[n + 1] = [kind |-> kind, to |-> t]
  BY AnnounceAppends DEF TypeOK
<1>2. ASSUME NEW i \in 1..Len(nwp')
      PROVE  \/ i \in 1..n /\ nwp'[i] = nwp[i]
             \/ i = n + 1 /\ nwp'[i].kind = kind /\ nwp'[i].to = t
  BY <1>1
<1>3. \A u \in Tasks : AnswersDue(u)' # 0 => AnswersDue(u)' = 1 /\ pc'[u] = "resp"
  BY DEF OneAnswer
<1>4. ASSUME NEW i \in 1..Len(nwp'), nwp'[i].kind \in Answers,
             NEW u, u = nwp'[i].to
      PROVE  u \in Tasks /\ pc'[u] = "resp" /\ AnswersDue(u)' = 0
  <2>1. CASE i \in 1..n /\ nwp'[i] = nwp[i]
    BY <1>4, <2>1 DEF OneAnswer
  <2>2. CASE i = n + 1 /\ nwp'[i].kind = kind /\ nwp'[i].to = t
    BY <1>4, <2>2 DEF OneAnswer
  <2>. QED
    BY <1>2, <2>1, <2>2
<1>5. ASSUME NEW i \in 1..n, nwp[i].kind \in Answers, kind \in Answers
      PROVE  nwp[i].to # t
  BY <1>5 DEF OneAnswer
<1>6. ASSUME NEW i \in 1..Len(nwp'), NEW j \in 1..Len(nwp'),
             nwp'[i].kind \in Answers, nwp'[j].kind \in Answers,
             nwp'[i].to = nwp'[j].to
      PROVE  i = j
  BY <1>2, <1>5, <1>6 DEF OneAnswer
<1>. QED
  BY <1>3, <1>4, <1>6 DEF OneAnswer, AnswersDue

LEMMA OneAnswerStep ==
  ASSUME Reliable, IInv, IAnswers, Next
  PROVE  OneAnswer'
<1>0. TypeOK /\ NoError /\ OneAnswer
  BY DEF IInv, IAnswers
<1>a. /\ pc \in [Tasks -> Places]
      /\ owes \in [Tasks -> [Dues -> Nat]]
      /\ nwp \in Seq(Msg)
      /\ \A t \in Tasks : AnswersDue(t) # 0 => AnswersDue(t) = 1 /\ pc[t] = "resp"
  BY <1>0 DEF TypeOK, OneAnswer
<1>b. (\A t \in Tasks : UNCHANGED owes[t]) => \A t \in Tasks : AnswersDue(t)' = AnswersDue(t)
  BY DEF AnswersDue
<1> USE <1>0, <1>a, <1>b DEF NoError, callerVars, lockVars, rxVars, flowVars, spawnVars, nwpVars
<1>1. ASSUME NEW t \in Tasks, NEW kind \in CallKinds, Call(t, kind) PROVE OneAnswer'
  BY <1>1, AnswersKept DEF Call, Goto
<1>2. ASSUME NEW t \in Tasks, TakeGlobal(t) PROVE OneAnswer'
  BY <1>2, AnswersKept DEF TakeGlobal, Goto
<1>3. ASSUME NEW t \in Tasks, CmdWrite(t) PROVE OneAnswer'
  <2>1. pc[t] = "write" /\ pc' = [pc EXCEPT ![t] = "resp"] /\ UNCHANGED nwp
    BY <1>3 DEF CmdWrite, Goto
  <2>2. AnswersDue(t) = 0
    BY <2>1
  <2>3. owes[t]["command"] \in Nat /\ owes[t]["async"] \in Nat
    BY DEF Dues
  <2>4. AnswersDue(t)' = 1
    <3>1. CASE call[t] = "async"
      BY <1>3, <2>2, <2>3, <3>1 DEF CmdWrite, Owe, AnswersDue, Dues
    <3>2. CASE call[t] # "async"
      BY <1>3, <2>2, <2>3, <3>2 DEF CmdWrite, Owe, AnswersDue, Dues
    <3>. QED
      BY <3>1, <3>2
  <2>5. ASSUME NEW u \in Tasks, u # t PROVE AnswersDue(u)' = AnswersDue(u)
    BY <1>3, <2>5 DEF CmdWrite, Owe, AnswersDue
  <2>. QED
    BY <2>1, <2>4, <2>5, AnswersKept
<1>4. ASSUME NEW t \in Tasks, CmdRead(t) PROVE OneAnswer'
  <2>1. PICK m \in Msg :
          /\ HdrRead(m)
          /\ \/ pc' = pc
             \/ m.kind \in Answers /\ pc' = [pc EXCEPT ![t] = "unlock"]
    BY <1>4 DEF CmdRead, Goto, Answers, MsgRead
  <2>2. m = nwp[1] /\ Len(nwp) \in Nat \ {0}
    BY <2>1, ReadTakesFirst
  <2>3. m.kind \in Answers => m.to = t
    BY <1>4, <2>2, CommandReadsItsAnswer DEF CmdRead
  <2>. QED
    BY <2>1, <2>3, AnswersRead
<1>5. ASSUME NEW t \in Tasks, CmdWake(t) PROVE OneAnswer'
  BY <1>5, AnswersKept DEF CmdWake, Goto
<1>6. ASSUME NEW t \in Tasks, CmdUnlock(t) PROVE OneAnswer'
  BY <1>6, AnswersKept DEF CmdUnlock, Goto
<1>7. ASSUME NEW t \in Tasks, CmdDone(t) PROVE OneAnswer'
  BY <1>7, AnswersKept DEF CmdDone, Goto
<1>8. ASSUME NEW t \in Tasks, ObjWake(t) PROVE OneAnswer'
  BY <1>8, AnswersKept DEF ObjWake, Goto
<1>9. ASSUME NEW t \in Tasks, TakeTxLock(t) PROVE OneAnswer'
  BY <1>9, AnswersKept DEF TakeTxLock, Goto
<1>10. ASSUME NEW t \in Tasks, TxTest(t) PROVE OneAnswer'
  BY <1>10, AnswersKept DEF TxTest, Goto
<1>11. ASSUME NEW t \in Tasks, TxGiveUp(t) PROVE OneAnswer'
  BY <1>11, AnswersKept DEF TxGiveUp, Goto
<1>12. ASSUME NEW t \in Tasks, TxWake(t) PROVE OneAnswer'
  BY <1>12, AnswersKept DEF TxWake, Goto
<1>13. ASSUME NEW t \in Tasks, TxGo(t) PROVE OneAnswer'
  BY <1>13, AnswersKept DEF TxGo, Goto
<1>14. ASSUME NEW t \in Tasks, DataWrite(t) PROVE OneAnswer'
  <2>1. ASSUME NEW u \in Tasks PROVE AnswersDue(u)' = AnswersDue(u)
    BY <1>14 DEF DataWrite, Owe, AnswersDue, Dues
  <2>. QED
    BY <1>14, <2>1, AnswersKept DEF DataWrite, Goto
<1>15. ASSUME NEW t \in Tasks, SetRestart(t) PROVE OneAnswer'
  BY <1>15, AnswersKept DEF SetRestart, Goto
<1>16. ASSUME NEW t \in Tasks, DeleteLock(t) PROVE OneAnswer'
  BY <1>16, AnswersKept DEF DeleteLock, Goto
<1>17. ASSUME NEW t \in Tasks, CmdWriteFails(t) PROVE OneAnswer'
  BY <1>17, AnswersKept DEF CmdWriteFails, Goto
<1>18. ASSUME NEW t \in Tasks, CmdTimeout(t) PROVE OneAnswer'
  BY <1>18, NoReadFails
<1>19. ASSUME NEW t \in Tasks, DataWriteFails(t) PROVE OneAnswer'
  BY <1>19, AnswersKept DEF DataWriteFails, Goto
<1>20. ASSUME NEW t \in Tasks, NwpRespond(t) PROVE OneAnswer'
  <2>1. owes[t] \in [Dues -> Nat]
    OBVIOUS
  <2>2. PICK kind \in Answers, due \in {"command", "async"} :
           /\ Announce(kind, t) /\ UNCHANGED pc
           /\ owes[t][due] > 0
           /\ \/ owes' = [owes EXCEPT ![t][due] = @ - 1]
              \/ due = "async" /\ owes' = [owes EXCEPT ![t]["async"] = @ - 1,
                                                      ![t]["completion"] = @ + 1]
    BY <1>20 DEF NwpRespond, Pay, Announce, Answers, callerVars
  <2>3. AnswersDue(t) # 0 /\ AnswersDue(t)' = 0
    <3>1. AnswersDue(t) = 1
      BY <2>1, <2>2 DEF AnswersDue, Dues
    <3>. QED
      <4>1. owes[t]["command"] \in Nat /\ owes[t]["async"] \in Nat
        BY <2>1 DEF Dues
      <4>2. CASE owes' = [owes EXCEPT ![t][due] = @ - 1] /\ due = "command"
        BY <2>1, <2>2, <3>1, <4>1, <4>2 DEF AnswersDue, Dues
      <4>3. CASE owes' = [owes EXCEPT ![t][due] = @ - 1] /\ due = "async"
        BY <2>1, <2>2, <3>1, <4>1, <4>3 DEF AnswersDue, Dues
      <4>4. CASE /\ due = "async"
                 /\ owes' = [owes EXCEPT ![t]["async"] = @ - 1, ![t]["completion"] = @ + 1]
        BY <2>1, <2>2, <3>1, <4>1, <4>4 DEF AnswersDue, Dues
      <4>. QED
        BY <2>2, <3>1, <4>2, <4>3, <4>4
  <2>4. ASSUME NEW u \in Tasks, u # t PROVE AnswersDue(u)' = AnswersDue(u)
    BY <2>2, <2>4 DEF AnswersDue
  <2>5. kind \in MsgKinds
    BY DEF Answers, MsgKinds
  <2>. QED
    BY <2>2, <2>3, <2>4, <2>5, AnswersAnnounced
<1>21. ASSUME NEW t \in Tasks, NwpComplete(t) PROVE OneAnswer'
  <2>1. Announce("completion", t) /\ UNCHANGED pc
    BY <1>21 DEF NwpComplete, Pay, Announce
  <2>2. ASSUME NEW u \in Tasks PROVE AnswersDue(u)' = AnswersDue(u)
    BY <1>21 DEF NwpComplete, AnswersDue, Dues
  <2>. QED
    BY <2>1, <2>2, AnswersAnnounced DEF MsgKinds, Answers
<1>22. ASSUME NEW t \in Tasks, NwpDeliver(t) PROVE OneAnswer'
  <2>1. Announce("data", t) /\ UNCHANGED pc
    BY <1>22 DEF NwpDeliver, Pay, Announce
  <2>2. ASSUME NEW u \in Tasks PROVE AnswersDue(u)' = AnswersDue(u)
    BY <1>22 DEF NwpDeliver, AnswersDue, Dues
  <2>. QED
    BY <2>1, <2>2, AnswersAnnounced DEF MsgKinds, Answers
<1>23. CASE SpawnTake
  BY <1>23, AnswersKept DEF SpawnTake, Goto
<1>24. CASE SpawnLock
  BY <1>24, AnswersKept DEF SpawnLock, Goto
<1>25. CASE SpawnFindsNothing
  BY <1>25, AnswersKept DEF SpawnFindsNothing, Goto
<1>26. CASE SpawnRead
  <2>1. (\E m \in Msg : HdrRead(m)) /\ UNCHANGED pc
    BY <1>26 DEF SpawnRead, MsgRead
  <2>. QED
    BY <2>1, AnswersRead
<1>27. CASE RxIrq
  BY <1>27, AnswersKept DEF RxIrq, Goto
<1>28. CASE NwpTransmitted
  <2>1. Announce("dummy", NoOne) /\ UNCHANGED <<pc, owes>>
    BY <1>28 DEF NwpTransmitted, Announce
  <2>. QED
    BY <2>1, AnswersAnnounced, DriverAssumption DEF MsgKinds, Answers
<1>29. CASE NwpEvent
  <2>1. Announce("event", NoOne) /\ UNCHANGED <<pc, owes>>
    BY <1>29 DEF NwpEvent, Announce
  <2>. QED
    BY <2>1, AnswersAnnounced, DriverAssumption DEF MsgKinds, Answers
<1>30. CASE UNCHANGED vars
  BY <1>30, AnswersKept DEF vars, callerVars, lockVars, rxVars, flowVars, spawnVars, nwpVars, Goto
<1>31. ASSUME NEW t \in Tasks, ObjTimeout(t) PROVE OneAnswer'
  BY <1>31, NoReadFails
<1>32. ASSUME NEW t \in Tasks, SystemReset(t) PROVE OneAnswer'
  BY <1>32 DEF SystemReset
<1>33. ASSUME NEW t \in Tasks, CmdReadFails(t) PROVE OneAnswer'
  BY <1>33, NoReadFails
<1>34. CASE SpawnReadFails
  BY <1>34, NoReadFails
<1>. QED
  BY <1>1, <1>2, <1>3, <1>4, <1>5, <1>6, <1>7, <1>8, <1>9, <1>10, <1>11, 
     <1>12, <1>13, <1>14, <1>15, <1>16, <1>17, <1>18, <1>19, <1>20, 
     <1>21, <1>22, <1>23, <1>24, <1>25, <1>26, <1>27, <1>28, <1>29, 
     <1>30, <1>31, <1>32, <1>33, <1>34
     DEF Next, SystemStep, CallerStep, FaultStep, SpawnStep, NwpStep, Quiet

LEMMA AnswersInvariant ==
  ASSUME Reliable
  PROVE  Spec => []IAnswers
<1>1. IInv /\ IAnswers /\ [Next]_vars => IAnswers'
  <2> SUFFICES ASSUME IInv, IAnswers, [Next]_vars PROVE IAnswers'
    OBVIOUS
  <2>1. CASE Next
    BY <2>1, NoErrorStep, NoLeakStep, OneAnswerStep, OwnStep DEF IAnswers
  <2>2. CASE UNCHANGED vars
    <3> USE <2>2 DEF vars, callerVars, lockVars, rxVars, flowVars, spawnVars, nwpVars
    <3>1. NoError' /\ AnswerIsOwn' /\ OneAnswer'
      BY DEF IAnswers, NoError, AnswerIsOwn, OneAnswer, AnswersDue
    <3>2. NoLeak'
      BY DEF IAnswers, NoLeak, InTransport, TxPlaces, DataCall
    <3>. QED
      BY <3>1, <3>2 DEF IAnswers
  <2>. QED
    BY <2>1, <2>2
<1>. QED
  BY <1>1, InitIAnswers, DriverInvariant, PTL DEF Spec

\* As long as nothing times out and no read fails, a command that returns
\* carries its own response, also when writes fail.
THEOREM OwnAnswers ==
  ASSUME Reliable
  PROVE  Spec => []AnswerIsOwn
<1>1. IAnswers => AnswerIsOwn
  BY DEF IAnswers
<1>. QED
  BY <1>1, AnswersInvariant, PTL

\* As long as nothing times out and no read fails, nobody leaves the API or a
\* spawn request with a lock, also when writes fail.
THEOREM LocksReturned ==
  ASSUME Reliable
  PROVE  Spec => []LocksAreReturned
<1>1. IInv /\ IAnswers => LocksAreReturned
  BY DEF IInv, IAnswers, NoLeak, HoldersInside, LocksAreReturned, InTransport, TxPlaces
<1>. QED
  BY <1>1, AnswersInvariant, DriverInvariant, PTL

-----------------------------------------------------------------------------
(* Readers, when the processor announces at most two messages unread *)

\* Requests to the spawn task, queued and in progress.
Spawns == spawnQ + (IF spawnPc = "idle" THEN 0 ELSE 1)

\* A command that still reads, and one that has read its response.
Awaiting == \E t \in Tasks : pc[t] \in {"write", "resp"}
Leaving == \E t \in Tasks : pc[t] \in {"unlock", "done"}

\* The spawn that such a command has still to ask for.
Unasked == IF Leaving THEN 1 ELSE 0

\* What is pending has a spawn each, but for one message: the one that a
\* command left behind, for which it is about to ask.
EachHasSpawn == pendingRx <= Spawns + Unasked

\* While no command reads, every interrupt asks for a spawn, and what is
\* pending has one each.
ReadersForAll ==
  /\ Len(nwp) <= MaxUnread
  /\ ~Awaiting => ~isCmdRespWaited /\ EachHasSpawn

LEMMA ReadersAreCounted ==
  ASSUME TypeOK
  PROVE  Spawns \in Nat /\ Unasked \in 0..1 /\ pendingRx \in Nat
BY DriverAssumption DEF TypeOK, Spawns, Unasked

LEMMA EachHasSpawnNext ==
  ASSUME NEW s, NEW d, Spawns' = s, Unasked' = d, pendingRx' <= s + d
  PROVE  EachHasSpawn'
BY Zenon DEF EachHasSpawn

LEMMA InitReaders == Init => ReadersForAll
BY DriverAssumption, EmptySeq DEF Init, ReadersForAll, EachHasSpawn, Spawns, Unasked

\* A step between two places of a call.
LEMMA ReadersKept ==
  ASSUME IInv, ReadersForAll, UNCHANGED <<nwp, pendingRx, isCmdRespWaited, spawnVars>>,
         Awaiting => Awaiting', Leaving => Leaving'
  PROVE  ReadersForAll'
<1>1. Spawns' = Spawns
  BY DEF Spawns, spawnVars
<1>2. Unasked' \in 0..1 /\ Unasked <= Unasked'
  BY DEF Unasked
<1>3. Spawns \in Nat /\ Unasked \in 0..1 /\ pendingRx \in Nat
  BY ReadersAreCounted DEF IInv
<1>4. EachHasSpawn => EachHasSpawn'
  <2>1. PICK d \in 0..1 : Unasked' = d /\ Unasked <= d
    BY <1>2
  <2>2. EachHasSpawn => pendingRx' <= Spawns + d
    BY <1>3, <2>1 DEF EachHasSpawn
  <2>. QED
    BY <1>1, <2>1, <2>2, EachHasSpawnNext
<1>. QED
  BY <1>4 DEF ReadersForAll

\* A command that has read its response leaves one message at most.
LEMMA CommandLeavesOne ==
  ASSUME MaxUnread <= 2, uncounted = 0, IInv, ReadersForAll, NEW t \in Tasks, CmdRead(t)
  PROVE  ReadersForAll'
<1> USE DriverAssumption DEF IInv, TypeOK
<1>1. PICK m \in Msg :
        /\ HdrRead(m)
        /\ IF m.kind \in {"response", "refusal"}
           THEN isCmdRespWaited' = FALSE /\ Goto(t, "unlock")
           ELSE UNCHANGED <<isCmdRespWaited, pc>>
  BY DEF CmdRead, MsgRead
<1>2. Len(nwp) \in Nat \ {0} /\ Len(nwp') = Len(nwp) - 1
  BY <1>1, ReadTakesFirst
<1>3. pendingRx' = pendingRx - 1 /\ pendingRx <= Len(nwp)
  BY DEF CmdRead, Counted, MessagesAreCounted
<1>4. Len(nwp') <= MaxUnread /\ pendingRx' <= 1
  BY <1>2, <1>3 DEF ReadersForAll
<1>5. CASE isCmdRespWaited' = FALSE /\ Goto(t, "unlock")
  <2>1. Unasked' = 1
    BY <1>5 DEF Leaving, Goto, Unasked
  <2>2. Spawns' \in Nat
    BY DEF Spawns, CmdRead, spawnVars
  <2>3. pendingRx \in Nat
    OBVIOUS
  <2>4. PICK s \in Nat : Spawns' = s
    BY <2>2
  <2>5. pendingRx' <= s + 1
    BY <1>3, <1>4, <2>3
  <2>6. EachHasSpawn'
    BY <2>1, <2>4, <2>5, EachHasSpawnNext
  <2>. QED
    BY <1>4, <1>5, <2>6 DEF ReadersForAll
<1>6. CASE UNCHANGED pc
  <2>1. Awaiting'
    BY <1>6 DEF CmdRead, Awaiting
  <2>. QED
    BY <1>4, <2>1 DEF ReadersForAll
<1>. QED
  BY <1>1, <1>5, <1>6

\* It asks for a spawn when it leaves.
LEMMA CommandSpawns ==
  ASSUME IInv, ReadersForAll, NEW t \in Tasks, CmdDone(t)
  PROVE  ReadersForAll'
<1> USE DriverAssumption DEF IInv, TypeOK
<1>1. UNCHANGED <<nwp, pendingRx, isCmdRespWaited, spawnPc>>
  BY DEF CmdDone, rxVars, nwpVars
<1>2. Awaiting => Awaiting'
  BY DEF CmdDone, Awaiting, Goto
<1>3. CASE pendingRx > 0
  <2>1. Spawns' = Spawns + 1
    BY <1>1, <1>3 DEF CmdDone, Spawns
  <2>2. Spawns \in Nat /\ Unasked \in 0..1 /\ Unasked' \in 0..1 /\ pendingRx \in Nat
    BY ReadersAreCounted DEF Unasked
  <2>3. PICK d \in 0..1 : Unasked' = d
    BY <2>2
  <2>4. EachHasSpawn => pendingRx' <= Spawns + 1 + d
    BY <1>1, <2>2, <2>3 DEF EachHasSpawn
  <2>5. EachHasSpawn => EachHasSpawn'
    BY <2>1, <2>3, <2>4, EachHasSpawnNext
  <2>. QED
    BY <1>1, <1>2, <2>5 DEF ReadersForAll
<1>4. CASE ~(pendingRx > 0)
  <2>1. pendingRx' = 0 /\ Spawns' \in Nat /\ Unasked' \in 0..1
    BY <1>1, <1>4 DEF CmdDone, Spawns, Unasked
  <2>2. PICK s \in Nat, d \in 0..1 : Spawns' = s /\ Unasked' = d
    BY <2>1
  <2>3. pendingRx' <= s + d
    BY <2>1, <2>2
  <2>4. EachHasSpawn'
    BY <2>2, <2>3, EachHasSpawnNext
  <2>. QED
    BY <1>1, <1>2, <2>4 DEF ReadersForAll
<1>. QED
  BY <1>3, <1>4

\* The spawn task reads one message for each request.
LEMMA SpawnReads ==
  ASSUME IInv, ReadersForAll, ~restart, SpawnStep
  PROVE  ReadersForAll'
<1> USE DriverAssumption DEF IInv, TypeOK
<1>1. UNCHANGED <<pc, isCmdRespWaited>>
  BY DEF SpawnStep, SpawnTake, SpawnLock, SpawnFindsNothing, SpawnRead, callerVars, rxVars
<1>2. /\ Awaiting' <=> Awaiting
      /\ Unasked' = Unasked /\ Unasked \in 0..1
  BY <1>1 DEF Awaiting, Leaving, Unasked
<1>3. CASE SpawnTake \/ SpawnLock
  <2>1. Spawns' = Spawns /\ UNCHANGED <<nwp, pendingRx>>
    BY <1>3 DEF SpawnTake, SpawnLock, Spawns, rxVars, nwpVars
  <2>2. EachHasSpawn' <=> EachHasSpawn
    BY <1>2, <2>1 DEF EachHasSpawn
  <2>. QED
    BY <1>1, <1>2, <2>1, <2>2 DEF ReadersForAll
<1>4. CASE SpawnFindsNothing
  <2>1. pendingRx' = 0 /\ nwp' = nwp /\ Spawns' \in Nat
    BY <1>4 DEF SpawnFindsNothing, Spawns, rxVars, nwpVars
  <2>2. PICK s \in Nat : Spawns' = s
    BY <2>1
  <2>3. pendingRx' <= s + Unasked
    BY <1>2, <2>1, <2>2
  <2>4. EachHasSpawn'
    BY <1>2, <2>2, <2>3, EachHasSpawnNext
  <2>. QED
    BY <1>1, <1>2, <2>1, <2>4 DEF ReadersForAll
<1>5. CASE SpawnRead
  <2>1. PICK m \in Msg : HdrRead(m)
    BY <1>5 DEF SpawnRead, MsgRead
  <2>2. Len(nwp) \in Nat /\ Len(nwp') = Len(nwp) - 1
    BY <2>1, ReadTakesFirst
  <2>3. pendingRx' = pendingRx - 1 /\ Spawns' = Spawns - 1 /\ Spawns \in Nat \ {0}
    BY <1>5 DEF SpawnRead, Counted, Spawns
  <2>4. EachHasSpawn => EachHasSpawn'
    BY <1>2, <2>3 DEF EachHasSpawn
  <2>5. Len(nwp) <= MaxUnread => Len(nwp') <= MaxUnread
    BY <2>2
  <2>. QED
    BY <1>1, <1>2, <2>4, <2>5 DEF ReadersForAll
<1>. QED
  BY <1>3, <1>4, <1>5 DEF SpawnStep

\* An interrupt finds a command that reads, or room for a spawn, or a queue
\* with a spawn for each message there can be.
LEMMA InterruptSpawns ==
  ASSUME MaxUnread <= 2, SpawnQueueLength >= 2, uncounted = 0, IInv, ReadersForAll, RxIrq
  PROVE  ReadersForAll'
<1> USE DriverAssumption DEF IInv, TypeOK
<1>1. /\ pendingRx' = pendingRx + 1 /\ pendingRx + 1 <= Len(nwp)
      /\ UNCHANGED <<pc, nwp, isCmdRespWaited, spawnPc>>
  BY DEF RxIrq, MessagesAreCounted, callerVars, nwpVars
<1>2. /\ Awaiting' <=> Awaiting
      /\ Unasked' = Unasked /\ Unasked \in 0..1
  BY <1>1 DEF Awaiting, Leaving, Unasked
<1>3. CASE isCmdRespWaited
  BY <1>1, <1>2, <1>3 DEF ReadersForAll
<1>4. CASE ~isCmdRespWaited
  <2>1. spawnQ' = SpawnIfRoom(spawnQ)
    BY <1>4 DEF RxIrq
  <2>2. CASE spawnQ < SpawnQueueLength
    <3>1. Spawns' = Spawns + 1 /\ Spawns \in Nat
      BY <1>1, <2>1, <2>2 DEF SpawnIfRoom, Spawns
    <3>2. EachHasSpawn => EachHasSpawn'
      BY <1>1, <1>2, <3>1 DEF EachHasSpawn
    <3>. QED
      BY <1>1, <1>2, <3>2 DEF ReadersForAll
  <2>3. CASE ~(spawnQ < SpawnQueueLength)
    <3>1. Spawns' \in Nat /\ Spawns' >= 2
      BY <1>1, <2>1, <2>3 DEF SpawnIfRoom, Spawns
    <3>2. pendingRx' <= 2 /\ pendingRx' \in Nat
      BY <1>1 DEF ReadersForAll
    <3>3. PICK s \in Nat : Spawns' = s /\ s >= 2
      BY <3>1
    <3>4. pendingRx' <= s + Unasked
      BY <1>2, <3>2, <3>3
    <3>5. EachHasSpawn'
      BY <1>2, <3>3, <3>4, EachHasSpawnNext
    <3>. QED
      BY <1>1, <1>2, <1>4, <3>5 DEF ReadersForAll
  <2>. QED
    BY <2>2, <2>3
<1>. QED
  BY <1>3, <1>4

\* The processor announces a message while there is room.
LEMMA AnnounceIsBounded ==
  ASSUME IInv, ReadersForAll, NEW kind \in MsgKinds, NEW t \in Tasks \cup {NoOne},
         Announce(kind, t)
  PROVE  ReadersForAll'
<1>1. Len(nwp) \in Nat /\ Len(nwp') = Len(nwp) + 1
  BY AnnounceAppends DEF IInv, TypeOK
<1>2. Len(nwp) < MaxUnread /\ UNCHANGED <<pc, pendingRx, isCmdRespWaited, spawnQ, spawnPc>>
  BY DEF Announce, callerVars, rxVars, spawnVars
<1>3. (Awaiting' <=> Awaiting) /\ Unasked' = Unasked /\ Spawns' = Spawns
  BY <1>2 DEF Awaiting, Leaving, Unasked, Spawns
<1>4. EachHasSpawn' <=> EachHasSpawn
  BY <1>2, <1>3 DEF EachHasSpawn
<1>5. Len(nwp') <= MaxUnread
  BY <1>1, <1>2, DriverAssumption
<1>. QED
  BY <1>2, <1>3, <1>4, <1>5 DEF ReadersForAll

\* Every step of the system.
LEMMA ReadersStep ==
  ASSUME MaxUnread <= 2, SpawnQueueLength >= 2, Reliable, "write" \notin Faults,
         IInv, NoError, ReadersForAll, [Next]_vars
  PROVE  ReadersForAll'
<1>1. ASSUME NEW t \in Tasks, NEW kind \in CallKinds, Call(t, kind) PROVE ReadersForAll'
  BY <1>1, ReadersKept DEF Call, Goto, Awaiting, Leaving, IInv, TypeOK, rxVars, nwpVars
<1>2. ASSUME NEW t \in Tasks, TakeGlobal(t) PROVE ReadersForAll'
  <2>1. CASE Goto(t, "write")
    <3>1. Awaiting' /\ nwp' = nwp
      BY <1>2, <2>1 DEF TakeGlobal, Goto, Awaiting, IInv, TypeOK, nwpVars
    <3>. QED
      BY <3>1 DEF ReadersForAll
  <2>2. CASE ~Goto(t, "write")
    BY <1>2, <2>2, ReadersKept
       DEF TakeGlobal, Goto, Awaiting, Leaving, NoError, IInv, TypeOK, nwpVars
  <2>. QED
    BY <2>1, <2>2
<1>3. ASSUME NEW t \in Tasks, CmdWrite(t) \/ CmdUnlock(t) PROVE ReadersForAll'
  <2>1. UNCHANGED <<nwp, pendingRx, isCmdRespWaited, spawnVars>>
    BY <1>3 DEF CmdWrite, CmdUnlock, rxVars, nwpVars
  <2>2. CASE CmdWrite(t)
    <3>1. (Awaiting => Awaiting') /\ (Leaving => Leaving')
      BY <2>2 DEF CmdWrite, Goto, Awaiting, Leaving, IInv, TypeOK
    <3>. QED
      BY <2>1, <3>1, ReadersKept
  <2>3. CASE CmdUnlock(t)
    <3>1. (Awaiting => Awaiting') /\ (Leaving => Leaving')
      BY <2>3 DEF CmdUnlock, Goto, Awaiting, Leaving, IInv, TypeOK
    <3>. QED
      BY <2>1, <3>1, ReadersKept
  <2>. QED
    BY <1>3, <2>2, <2>3
<1>4. ASSUME NEW t \in Tasks, CmdWake(t) PROVE ReadersForAll'
  <2>1. UNCHANGED <<nwp, pendingRx, isCmdRespWaited, spawnVars, pc>>
    BY <1>4 DEF CmdWake, callerVars, nwpVars
  <2>. QED
    BY <2>1, ReadersKept DEF Awaiting, Leaving
<1>5. ASSUME NEW t \in Tasks, ObjWake(t) PROVE ReadersForAll'
  <2>1. UNCHANGED <<nwp, pendingRx, isCmdRespWaited, spawnVars>>
    BY <1>5 DEF ObjWake, rxVars, nwpVars
  <2>2. (Awaiting => Awaiting') /\ (Leaving => Leaving')
    BY <1>5 DEF ObjWake, Goto, Awaiting, Leaving, IInv, TypeOK
  <2>. QED
    BY <2>1, <2>2, ReadersKept
<1>6. ASSUME NEW t \in Tasks, DataWriteFails(t) PROVE ReadersForAll'
  BY <1>6 DEF DataWriteFails
<1>7. ASSUME NEW t \in Tasks,
             TakeTxLock(t) \/ TxTest(t) \/ TxGiveUp(t) \/ TxWake(t) \/ TxGo(t) \/ DataWrite(t)
      PROVE  ReadersForAll'
  BY <1>7, ReadersKept
     DEF TakeTxLock, TxTest, TxGiveUp, TxWake, TxGo, DataWrite, Goto, Awaiting, Leaving,
         IInv, TypeOK, rxVars, nwpVars
<1>8. ASSUME NEW t \in Tasks, SetRestart(t) \/ DeleteLock(t) PROVE ReadersForAll'
  BY <1>8 DEF SetRestart, DeleteLock, NoError
<1>9. ASSUME NEW t \in Tasks, NwpRespond(t) \/ NwpComplete(t) \/ NwpDeliver(t)
      PROVE  ReadersForAll'
  BY <1>9, AnnounceIsBounded DEF NwpRespond, NwpComplete, NwpDeliver, Pay, MsgKinds
<1>10. ASSUME NwpTransmitted \/ NwpEvent PROVE ReadersForAll'
  BY <1>10, AnnounceIsBounded DEF NwpTransmitted, NwpEvent, MsgKinds
<1>11. ASSUME UNCHANGED vars PROVE ReadersForAll'
  BY <1>11, ReadersKept DEF vars, callerVars, rxVars, spawnVars, nwpVars, Awaiting, Leaving
<1>12. ASSUME NEW t \in Tasks, CmdWriteFails(t) \/ CmdTimeout(t) PROVE ReadersForAll'
  BY <1>12, NoReadFails DEF CmdWriteFails
<1>13. ASSUME NEW t \in Tasks, SystemReset(t) PROVE ReadersForAll'
  BY <1>13 DEF SystemReset, NoError
<1>. QED
  BY <1>1, <1>2, <1>3, <1>4, <1>5, <1>6, <1>7, <1>8, <1>9, <1>10, <1>11, <1>12, <1>13,
     NoReadFails,
     CommandLeavesOne, CommandSpawns, SpawnReads, InterruptSpawns
     DEF Next, SystemStep, CallerStep, FaultStep, NwpStep, Quiet, NoError

\* As long as nothing times out, no transfer fails and the processor announces
\* at most two messages before the first is read, every announced message has a
\* reader, although one spawn is queued for all that a response leaves behind and osi_Spawn drops
\* requests when its queue is full (driver.c:1377-1388).  With three messages it
\* is false: the run DriverStranded.
THEOREM NoMessageIsStranded ==
  ASSUME MaxUnread <= 2, SpawnQueueLength >= 2,
         Reliable, "write" \notin Faults
  PROVE  Spec => []NoMessageStranded
<1>1. IInv /\ IAnswers /\ ReadersForAll /\ [Next]_vars => ReadersForAll'
  BY ReadersStep DEF IAnswers
<1>2. IInv /\ ReadersForAll => NoMessageStranded
  <2> SUFFICES ASSUME IInv, ReadersForAll, pendingRx > 0 PROVE Reader
    BY DEF NoMessageStranded
  <2>1. Awaiting \/ Leaving => Reader
    BY DEF Awaiting, Leaving, Reader
  <2>2. CASE ~Awaiting /\ ~Leaving
    BY <2>2 DEF ReadersForAll, EachHasSpawn, Spawns, Unasked, Reader, IInv, TypeOK
  <2>. QED
    BY <2>1, <2>2
<1>. QED
  BY <1>1, <1>2, InitReaders, DriverInvariant, AnswersInvariant, PTL DEF Spec
=============================================================================

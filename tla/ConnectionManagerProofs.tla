----------------------- MODULE ConnectionManagerProofs -----------------------
(***************************************************************************)
(* Proofs about ConnectionManager for every number of calling tasks,       *)
(* sockets and slots.                                                      *)
(***************************************************************************)
EXTENDS ConnectionManager, TLAPS

\* Two callers never own the same descriptor.
OwnersDiffer ==
  \A t, u \in Clients : t # u /\ csd[t] # Free => csd[t] # csd[u]

\* A task inside wait_rx owns a socket.
CallersOwn ==
  \A t \in Clients : cpc[t] \in CPlaces \ {"closed"} => csd[t] # Free

\* A task on its way to claim a slot is in no slot yet.
ClaimIsFresh ==
  \A t \in Clients : cpc[t] \in {"claim", "claimed"} =>
    \A i \in Slots : sd[i] # csd[t]

\* run() gives up a slot only while its deadline is 0; where it indexes the
\* pool the index is a slot.
VacantWhenGivenUp ==
  /\ mpc \in {"inv_take", "invalidate"} => deadline[idx] = 0
  /\ mpc \in {"inv_take", "invalidate", "timeout", "signal"} => idx \in Slots

\* The inductive invariant.
IInv ==
  /\ TypeOK
  /\ OwnersDiffer
  /\ CallersOwn
  /\ ClaimIsFresh
  /\ VacantWhenGivenUp
  /\ SocketInOneSlot
  /\ DeadlineKeepsSlot

-----------------------------------------------------------------------------
\* The pool starts empty.
LEMMA InitIInv == Init => IInv
<1> SUFFICES ASSUME Init PROVE IInv
  OBVIOUS
<1> USE PoolAssumption DEF Init, Slots
<1>1. /\ maint \in BOOLEAN /\ notified \in BOOLEAN
      /\ suspended \in BOOLEAN /\ shared \in BOOLEAN
  BY Zenon
<1>2. TypeOK
  BY <1>1 DEF TypeOK, MPlaces, CPlaces
<1>3. OwnersDiffer /\ CallersOwn /\ ClaimIsFresh
  BY DEF OwnersDiffer, CallersOwn, ClaimIsFresh
<1>4. VacantWhenGivenUp /\ SocketInOneSlot /\ DeadlineKeepsSlot
  BY DEF VacantWhenGivenUp, SocketInOneSlot, DeadlineKeepsSlot
<1>. QED
  BY <1>2, <1>3, <1>4 DEF IInv

\* The deadline wait_rx computes is a tick.
LEMMA CallDeadline ==
  ASSUME TypeOK, NEW d \in Timeouts, now + d < MaxTime
  PROVE  now + d \in 0..MaxTime
<1>1. now \in 1..MaxTime
  BY DEF TypeOK
<1>. QED
  BY <1>1, PoolAssumption

\* So is the deadline run() leaves in a slot.
LEMMA ScanDeadline ==
  ASSUME TypeOK, NEW i \in Slots
  PROVE  AfterScan(Requested(i)) \in 0..MaxTime
<1>1. deadline[i] \in 0..MaxTime
  BY DEF TypeOK
<1>2. CASE rxQueue[i] = <<>>
  BY <1>1, <1>2, PoolAssumption DEF AfterScan, Requested
<1>3. ASSUME NEW d \in 0..MaxTime, rxQueue[i] = <<d>>
      PROVE  AfterScan(Requested(i)) \in 0..MaxTime
  <2>1. Head(rxQueue[i]) = d
    BY <1>3
  <2>. QED
    BY <1>1, <2>1, PoolAssumption DEF AfterScan, Requested
<1>4. rxQueue[i] \in {<<>>} \cup {<<d>> : d \in 0..MaxTime}
  BY DEF TypeOK
<1>. QED
  BY <1>2, <1>3, <1>4

\* Writing a tick into a slot keeps the type of the deadlines.
LEMMA DeadlineUpdate ==
  ASSUME TypeOK, NEW i, NEW d \in 0..MaxTime,
         deadline' = deadline \/ deadline' = [deadline EXCEPT ![i] = d]
  PROVE  deadline' \in [Slots -> 0..MaxTime]
BY DEF TypeOK

\* Every step of a caller preserves the invariant.
LEMMA ClientIInv ==
  ASSUME IInv, NEW t \in Clients,
         Open(t) \/ Close(t) \/ WaitRx(t) \/ Call(t) \/ DataArrives(t)
  PROVE  IInv'
<1> USE PoolAssumption, TaskAssumption
    DEF IInv, TypeOK, OwnersDiffer, CallersOwn, ClaimIsFresh, VacantWhenGivenUp,
        SocketInOneSlot, DeadlineKeepsSlot, Slots, MPlaces, CPlaces, Move,
        NoTask, Manager, pool, mlocals, mgr, client
<1>1. CASE Open(t)
  <2>1. PICK s \in Sockets \ {csd[u] : u \in Clients} : csd' = [csd EXCEPT ![t] = s]
    BY <1>1 DEF Open
  <2>2. TypeOK'
    BY <1>1, <2>1 DEF Open
  <2>3. OwnersDiffer'
    BY <1>1, <2>1 DEF Open
  <2>4. CallersOwn'
    BY <1>1, <2>1 DEF Open
  <2>5. ClaimIsFresh'
    BY <1>1, <2>1 DEF Open
  <2>6. VacantWhenGivenUp'
    BY <1>1, <2>1 DEF Open
  <2>7. SocketInOneSlot'
    BY <1>1, <2>1 DEF Open
  <2>8. DeadlineKeepsSlot'
    BY <1>1, <2>1 DEF Open
  <2>. QED
    BY <2>2, <2>3, <2>4, <2>5, <2>6, <2>7, <2>8
<1>2. CASE Close(t)
  <2>1. TypeOK'
    BY <1>2 DEF Close
  <2>2. OwnersDiffer' /\ CallersOwn' /\ ClaimIsFresh'
    BY <1>2 DEF Close
  <2>3. VacantWhenGivenUp' /\ SocketInOneSlot' /\ DeadlineKeepsSlot'
    BY <1>2 DEF Close
  <2>. QED
    BY <2>1, <2>2, <2>3
<1>3. CASE WaitRx(t)
  <2>1. PICK d \in Timeouts : now + d < MaxTime /\ cdl' = [cdl EXCEPT ![t] = now + d]
    BY <1>3 DEF WaitRx
  <2>2. now + d \in 0..MaxTime
    BY <2>1, CallDeadline
  <2>3. cdl' \in [Clients -> 0..MaxTime]
    BY <2>1, <2>2
  <2>4. CASE InPool(csd[t])
    <3>1. PICK i \in Slots : cslot' = [cslot EXCEPT ![t] = i]
      BY <1>3, <2>4 DEF WaitRx
    <3>2. TypeOK'
      BY <1>3, <2>3, <2>4, <3>1 DEF WaitRx
    <3>3. OwnersDiffer'
      BY <1>3, <2>3, <2>4, <3>1 DEF WaitRx
    <3>4. CallersOwn'
      BY <1>3, <2>3, <2>4, <3>1 DEF WaitRx
    <3>5. ClaimIsFresh'
      BY <1>3, <2>3, <2>4, <3>1 DEF WaitRx
    <3>6. VacantWhenGivenUp'
      BY <1>3, <2>3, <2>4, <3>1 DEF WaitRx
    <3>7. SocketInOneSlot'
      BY <1>3, <2>3, <2>4, <3>1 DEF WaitRx
    <3>8. DeadlineKeepsSlot'
      BY <1>3, <2>3, <2>4, <3>1 DEF WaitRx
    <3>. QED
      BY <3>2, <3>3, <3>4, <3>5, <3>6, <3>7, <3>8
  <2>5. CASE ~InPool(csd[t]) /\ \E i \in Slots : sd[i] = Free
    <3>1. PICK i \in Slots : cslot' = [cslot EXCEPT ![t] = i]
      BY <1>3, <2>5 DEF WaitRx
    <3>2. TypeOK'
      <4>1. cpc' = [cpc EXCEPT ![t] = "claim"]
        BY <1>3, <2>5, Zenon DEF WaitRx
      <4>2. UNCHANGED <<pool, mutex, mgr, csd, answer, now, ready>> /\ shared' \in BOOLEAN
        BY <1>3, Zenon DEF WaitRx
      <4>. QED
        BY <2>3, <3>1, <4>1, <4>2
    <3>3. OwnersDiffer'
      BY <1>3, <2>3, <2>5, <3>1 DEF WaitRx, InPool
    <3>4. CallersOwn'
      BY <1>3, <2>3, <2>5, <3>1 DEF WaitRx, InPool
    <3>5. ClaimIsFresh'
      BY <1>3, <2>3, <2>5, <3>1 DEF WaitRx, InPool
    <3>6. VacantWhenGivenUp'
      BY <1>3, <2>3, <2>5, <3>1 DEF WaitRx, InPool
    <3>7. SocketInOneSlot'
      BY <1>3, <2>3, <2>5, <3>1 DEF WaitRx, InPool
    <3>8. DeadlineKeepsSlot'
      BY <1>3, <2>3, <2>5, <3>1 DEF WaitRx, InPool
    <3>. QED
      BY <3>2, <3>3, <3>4, <3>5, <3>6, <3>7, <3>8
  <2>6. CASE ~InPool(csd[t]) /\ ~\E i \in Slots : sd[i] = Free
    <3>1. TypeOK'
      <4>1. cpc' = [cpc EXCEPT ![t] = "panic"] /\ cslot' = cslot
        BY <1>3, <2>6, Zenon DEF WaitRx
      <4>2. UNCHANGED <<pool, mutex, mgr, csd, answer, now, ready>> /\ shared' \in BOOLEAN
        BY <1>3, Zenon DEF WaitRx
      <4>. QED
        BY <2>3, <4>1, <4>2
    <3>2. OwnersDiffer'
      BY <1>3, <2>3, <2>6 DEF WaitRx, InPool
    <3>3. CallersOwn'
      BY <1>3, <2>3, <2>6 DEF WaitRx, InPool
    <3>4. ClaimIsFresh'
      BY <1>3, <2>3, <2>6 DEF WaitRx, InPool
    <3>5. VacantWhenGivenUp'
      BY <1>3, <2>3, <2>6 DEF WaitRx, InPool
    <3>6. SocketInOneSlot'
      BY <1>3, <2>3, <2>6 DEF WaitRx, InPool
    <3>7. DeadlineKeepsSlot'
      BY <1>3, <2>3, <2>6 DEF WaitRx, InPool
    <3>. QED
      BY <3>1, <3>2, <3>3, <3>4, <3>5, <3>6, <3>7
  <2>. QED
    BY <2>4, <2>5, <2>6
<1>4. CASE ClaimTake(t)
  <2>1. TypeOK'
    BY <1>4 DEF ClaimTake
  <2>2. OwnersDiffer' /\ CallersOwn' /\ ClaimIsFresh'
    BY <1>4 DEF ClaimTake
  <2>3. VacantWhenGivenUp' /\ SocketInOneSlot' /\ DeadlineKeepsSlot'
    BY <1>4 DEF ClaimTake
  <2>. QED
    BY <2>1, <2>2, <2>3
<1>5. CASE ClaimSet(t)
  <2>1. TypeOK'
    BY <1>5 DEF ClaimSet
  <2>2. OwnersDiffer' /\ CallersOwn' /\ ClaimIsFresh'
    BY <1>5 DEF ClaimSet
  <2>3. VacantWhenGivenUp' /\ SocketInOneSlot' /\ DeadlineKeepsSlot'
    BY <1>5 DEF ClaimSet
  <2>. QED
    BY <2>1, <2>2, <2>3
<1>6. CASE ResetSignal(t)
  <2>1. TypeOK'
    BY <1>6 DEF ResetSignal
  <2>2. OwnersDiffer' /\ CallersOwn' /\ ClaimIsFresh'
    BY <1>6 DEF ResetSignal
  <2>3. VacantWhenGivenUp' /\ SocketInOneSlot' /\ DeadlineKeepsSlot'
    BY <1>6 DEF ResetSignal
  <2>. QED
    BY <2>1, <2>2, <2>3
<1>7. CASE SendRequest(t)
  <2>1. TypeOK'
    BY <1>7 DEF SendRequest
  <2>2. OwnersDiffer' /\ CallersOwn' /\ ClaimIsFresh'
    BY <1>7 DEF SendRequest
  <2>3. VacantWhenGivenUp' /\ SocketInOneSlot' /\ DeadlineKeepsSlot'
    BY <1>7 DEF SendRequest
  <2>. QED
    BY <2>1, <2>2, <2>3
<1>8. CASE NotifyManager(t)
  <2>1. TypeOK'
    BY <1>8 DEF NotifyManager
  <2>2. OwnersDiffer' /\ CallersOwn' /\ ClaimIsFresh'
    BY <1>8 DEF NotifyManager
  <2>3. VacantWhenGivenUp' /\ SocketInOneSlot' /\ DeadlineKeepsSlot'
    BY <1>8 DEF NotifyManager
  <2>. QED
    BY <2>1, <2>2, <2>3
<1>9. CASE TakeAnswer(t)
  <2>1. TypeOK'
    BY <1>9 DEF TakeAnswer
  <2>2. OwnersDiffer' /\ CallersOwn' /\ ClaimIsFresh'
    BY <1>9 DEF TakeAnswer
  <2>3. VacantWhenGivenUp' /\ SocketInOneSlot' /\ DeadlineKeepsSlot'
    BY <1>9 DEF TakeAnswer
  <2>. QED
    BY <2>1, <2>2, <2>3
<1>10. CASE Return(t)
  <2>1. TypeOK'
    BY <1>10 DEF Return
  <2>2. OwnersDiffer' /\ CallersOwn' /\ ClaimIsFresh'
    BY <1>10 DEF Return
  <2>3. VacantWhenGivenUp' /\ SocketInOneSlot' /\ DeadlineKeepsSlot'
    BY <1>10 DEF Return
  <2>. QED
    BY <2>1, <2>2, <2>3
<1>11. CASE DataArrives(t)
  <2>1. TypeOK'
    BY <1>11 DEF DataArrives
  <2>2. OwnersDiffer' /\ CallersOwn' /\ ClaimIsFresh'
    BY <1>11 DEF DataArrives
  <2>3. VacantWhenGivenUp' /\ SocketInOneSlot' /\ DeadlineKeepsSlot'
    BY <1>11 DEF DataArrives
  <2>. QED
    BY <2>1, <2>2, <2>3
<1>. QED
  BY <1>1, <1>2, <1>3, <1>4, <1>5, <1>6, <1>7, <1>8, <1>9, <1>10, <1>11 DEF Call

\* So does every step of run().
LEMMA RunIInv == IInv /\ Run => IInv'
<1> SUFFICES ASSUME IInv, Run PROVE IInv'
  OBVIOUS
<1> USE PoolAssumption, TaskAssumption
    DEF IInv, TypeOK, OwnersDiffer, CallersOwn, ClaimIsFresh, VacantWhenGivenUp,
        SocketInOneSlot, DeadlineKeepsSlot, Slots, MPlaces, CPlaces,
        NoTask, Manager, Running, Loop, pool, mlocals, mgr, client
<1>1. CASE MStart
  <2>1. TypeOK'
    BY <1>1 DEF MStart
  <2>2. OwnersDiffer' /\ CallersOwn' /\ ClaimIsFresh'
    BY <1>1 DEF MStart
  <2>3. VacantWhenGivenUp' /\ SocketInOneSlot' /\ DeadlineKeepsSlot'
    BY <1>1 DEF MStart
  <2>. QED
    BY <2>1, <2>2, <2>3
<1>2. CASE MScan
  <2>1. TypeOK'
    <3>1. idx \in Slots
      BY <1>2 DEF MScan
    <3>2. AfterScan(Requested(idx)) \in 0..MaxTime
      BY <3>1, ScanDeadline
    <3>3. deadline' = deadline \/ deadline' = [deadline EXCEPT ![idx] = AfterScan(Requested(idx))]
      BY <1>2 DEF MScan
    <3>4. deadline' \in [Slots -> 0..MaxTime]
      BY <3>2, <3>3, DeadlineUpdate
    <3>5. rxQueue' \in [Slots -> {<<>>} \cup {<<d>> : d \in 0..MaxTime}]
      <4>1. rxQueue' = rxQueue \/ rxQueue' = [rxQueue EXCEPT ![idx] = <<>>]
        BY <1>2 DEF MScan
      <4>. QED
        BY <3>1, <4>1
    <3>6. mpc' \in MPlaces /\ idx' \in 1..(NSlots + 1) /\ readSet' \subseteq Sockets
      BY <1>2, <3>1 DEF MScan
    <3>. QED
      BY <1>2, <3>4, <3>5, <3>6 DEF MScan
  <2>2. OwnersDiffer'
    BY <1>2 DEF MScan, AfterScan, Expired, Vacant, Requested
  <2>3. CallersOwn'
    BY <1>2 DEF MScan, AfterScan, Expired, Vacant, Requested
  <2>4. ClaimIsFresh'
    BY <1>2 DEF MScan, AfterScan, Expired, Vacant, Requested
  <2>5. VacantWhenGivenUp'
    BY <1>2 DEF MScan, AfterScan, Expired, Vacant, Requested
  <2>6. SocketInOneSlot'
    BY <1>2 DEF MScan, AfterScan, Expired, Vacant, Requested
  <2>7. DeadlineKeepsSlot'
    BY <1>2 DEF MScan, AfterScan, Expired, Vacant, Requested
  <2>. QED
    BY <2>1, <2>2, <2>3, <2>4, <2>5, <2>6, <2>7
<1>3. CASE MInvTake
  <2>1. TypeOK'
    BY <1>3 DEF MInvTake
  <2>2. OwnersDiffer' /\ CallersOwn' /\ ClaimIsFresh'
    BY <1>3 DEF MInvTake
  <2>3. VacantWhenGivenUp' /\ SocketInOneSlot' /\ DeadlineKeepsSlot'
    BY <1>3 DEF MInvTake
  <2>. QED
    BY <2>1, <2>2, <2>3
<1>4. CASE MInvalidate
  <2>1. TypeOK'
    BY <1>4 DEF MInvalidate
  <2>2. OwnersDiffer' /\ CallersOwn' /\ ClaimIsFresh'
    BY <1>4 DEF MInvalidate
  <2>3. VacantWhenGivenUp' /\ SocketInOneSlot' /\ DeadlineKeepsSlot'
    BY <1>4 DEF MInvalidate
  <2>. QED
    BY <2>1, <2>2, <2>3
<1>5. CASE MTimeout
  <2>1. TypeOK'
    BY <1>5 DEF MTimeout, Answer
  <2>2. OwnersDiffer' /\ CallersOwn' /\ ClaimIsFresh'
    BY <1>5 DEF MTimeout, Answer
  <2>3. VacantWhenGivenUp' /\ SocketInOneSlot' /\ DeadlineKeepsSlot'
    BY <1>5 DEF MTimeout, Answer
  <2>. QED
    BY <2>1, <2>2, <2>3
<1>6. CASE MDecide
  <2>1. maint' \in BOOLEAN /\ notified' \in BOOLEAN /\ suspended' \in BOOLEAN
    BY <1>6, Zenon DEF MDecide
  <2>2. TypeOK'
    BY <1>6, <2>1 DEF MDecide
  <2>3. OwnersDiffer'
    BY <1>6, <2>1 DEF MDecide
  <2>4. CallersOwn'
    BY <1>6, <2>1 DEF MDecide
  <2>5. ClaimIsFresh'
    BY <1>6, <2>1 DEF MDecide
  <2>6. VacantWhenGivenUp'
    BY <1>6, <2>1 DEF MDecide
  <2>7. SocketInOneSlot'
    BY <1>6, <2>1 DEF MDecide
  <2>8. DeadlineKeepsSlot'
    BY <1>6, <2>1 DEF MDecide
  <2>. QED
    BY <2>2, <2>3, <2>4, <2>5, <2>6, <2>7, <2>8
<1>7. CASE MSelect
  <2>1. maint' \in BOOLEAN /\ notified' \in BOOLEAN /\ suspended' \in BOOLEAN
    BY <1>7, Zenon DEF MSelect
  <2>2. TypeOK'
    BY <1>7, <2>1 DEF MSelect
  <2>3. OwnersDiffer'
    BY <1>7, <2>1 DEF MSelect
  <2>4. CallersOwn'
    BY <1>7, <2>1 DEF MSelect
  <2>5. ClaimIsFresh'
    BY <1>7, <2>1 DEF MSelect
  <2>6. VacantWhenGivenUp'
    BY <1>7, <2>1 DEF MSelect
  <2>7. SocketInOneSlot'
    BY <1>7, <2>1 DEF MSelect
  <2>8. DeadlineKeepsSlot'
    BY <1>7, <2>1 DEF MSelect
  <2>. QED
    BY <2>2, <2>3, <2>4, <2>5, <2>6, <2>7, <2>8
<1>8. CASE MReport
  <2>1. maint' \in BOOLEAN /\ notified' \in BOOLEAN /\ suspended' \in BOOLEAN
    BY <1>8, Zenon DEF MReport
  <2>2. TypeOK'
    <3>1. deadline' \in [Slots -> 0..MaxTime]
      <4>1. deadline' = deadline \/ deadline' = [deadline EXCEPT ![idx] = 0]
        BY <1>8 DEF MReport
      <4>2. 0 \in 0..MaxTime
        BY PoolAssumption
      <4>. QED
        BY <4>1, <4>2, DeadlineUpdate
    <3>2. mpc' \in MPlaces /\ idx' \in 1..(NSlots + 1)
      BY <1>8 DEF MReport
    <3>3. mtime' \in 0..MaxTime /\ readSet' \subseteq Sockets
      BY <1>8 DEF MReport
    <3>4. UNCHANGED <<sd, rxQueue, rxSignal, mutex, suspends, client, now, ready, shared>>
      BY <1>8, Zenon DEF MReport
    <3>. QED
      BY <2>1, <3>1, <3>2, <3>3, <3>4
  <2>3. OwnersDiffer'
    BY <1>8, <2>1 DEF MReport
  <2>4. CallersOwn'
    BY <1>8, <2>1 DEF MReport
  <2>5. ClaimIsFresh'
    BY <1>8, <2>1 DEF MReport
  <2>6. VacantWhenGivenUp'
    BY <1>8, <2>1 DEF MReport
  <2>7. SocketInOneSlot'
    BY <1>8, <2>1 DEF MReport
  <2>8. DeadlineKeepsSlot'
    BY <1>8, <2>1 DEF MReport
  <2>. QED
    BY <2>2, <2>3, <2>4, <2>5, <2>6, <2>7, <2>8
<1>9. CASE MSignal
  <2>1. TypeOK'
    BY <1>9 DEF MSignal, Answer
  <2>2. OwnersDiffer' /\ CallersOwn' /\ ClaimIsFresh'
    BY <1>9 DEF MSignal, Answer
  <2>3. VacantWhenGivenUp' /\ SocketInOneSlot' /\ DeadlineKeepsSlot'
    BY <1>9 DEF MSignal, Answer
  <2>. QED
    BY <2>1, <2>2, <2>3
<1>10. CASE MDelay
  <2>1. maint' \in BOOLEAN /\ notified' \in BOOLEAN /\ suspended' \in BOOLEAN
    BY <1>10, Zenon DEF MDelay
  <2>. QED
    BY <1>10, <2>1 DEF MDelay
<1>11. CASE MSleep
  <2>1. maint' \in BOOLEAN /\ notified' \in BOOLEAN /\ suspended' \in BOOLEAN
    BY <1>11, Zenon DEF MSleep
  <2>. QED
    BY <1>11, <2>1 DEF MSleep
<1>. QED
  BY <1>1, <1>2, <1>3, <1>4, <1>5, <1>6, <1>7, <1>8, <1>9, <1>10, <1>11 DEF Run

\* So do suspensions and the tick.
LEMMA OthersIInv == IInv /\ (Suspend \/ Resume \/ Tick \/ UNCHANGED vars) => IInv'
<1> SUFFICES ASSUME IInv, Suspend \/ Resume \/ Tick \/ UNCHANGED vars PROVE IInv'
  OBVIOUS
<1> USE PoolAssumption, TaskAssumption
    DEF IInv, TypeOK, OwnersDiffer, CallersOwn, ClaimIsFresh, VacantWhenGivenUp,
        SocketInOneSlot, DeadlineKeepsSlot, Slots, MPlaces, CPlaces,
        Loop, pool, mlocals, mgr, client
<1>1. CASE Suspend
  <2>1. TypeOK'
    BY <1>1 DEF Suspend
  <2>2. OwnersDiffer' /\ CallersOwn' /\ ClaimIsFresh'
    BY <1>1 DEF Suspend
  <2>3. VacantWhenGivenUp' /\ SocketInOneSlot' /\ DeadlineKeepsSlot'
    BY <1>1 DEF Suspend
  <2>. QED
    BY <2>1, <2>2, <2>3
<1>2. CASE Resume
  <2>1. maint' \in BOOLEAN /\ notified' \in BOOLEAN /\ suspended' \in BOOLEAN
    BY <1>2, Zenon DEF Resume
  <2>2. TypeOK'
    <3>1. mpc' \in MPlaces /\ idx' \in 1..(NSlots + 1)
      BY <1>2 DEF Resume
    <3>2. mtime' \in 0..MaxTime /\ readSet' \subseteq Sockets
      BY <1>2 DEF Resume
    <3>3. UNCHANGED <<pool, mutex, suspends, client, now, ready, shared>>
      BY <1>2, Zenon DEF Resume
    <3>. QED
      BY <2>1, <3>1, <3>2, <3>3
  <2>3. OwnersDiffer'
    BY <1>2, <2>1 DEF Resume
  <2>4. CallersOwn'
    BY <1>2, <2>1 DEF Resume
  <2>5. ClaimIsFresh'
    BY <1>2, <2>1 DEF Resume
  <2>6. VacantWhenGivenUp'
    BY <1>2, <2>1 DEF Resume
  <2>7. SocketInOneSlot'
    BY <1>2, <2>1 DEF Resume
  <2>8. DeadlineKeepsSlot'
    BY <1>2, <2>1 DEF Resume
  <2>. QED
    BY <2>2, <2>3, <2>4, <2>5, <2>6, <2>7, <2>8
<1>3. CASE Tick
  <2>1. TypeOK'
    BY <1>3 DEF Tick
  <2>2. OwnersDiffer' /\ CallersOwn' /\ ClaimIsFresh'
    BY <1>3 DEF Tick
  <2>3. VacantWhenGivenUp' /\ SocketInOneSlot' /\ DeadlineKeepsSlot'
    BY <1>3 DEF Tick
  <2>. QED
    BY <2>1, <2>2, <2>3
<1>4. CASE UNCHANGED vars
  BY <1>4 DEF vars
<1>. QED
  BY <1>1, <1>2, <1>3, <1>4

\* The invariant holds in every reachable state.
THEOREM PoolInvariant == Spec => []IInv
<1>1. IInv /\ [Next]_vars => IInv'
  BY ClientIInv, RunIInv, OthersIInv DEF Next
<1>. QED
  BY InitIInv, <1>1, PTL DEF Spec

\* Type correctness of the pool, the mediator task and its callers.
THEOREM TypeCorrect == Spec => []TypeOK
<1>1. IInv => TypeOK
  BY DEF IInv
<1>. QED
  BY PoolInvariant, <1>1, PTL

\* A descriptor is in at most one slot (findSocket, findFreeSocket), for any
\* number of tasks that race for the slots.
THEOREM NoDoubleRegistration == Spec => []SocketInOneSlot
<1>1. IInv => SocketInOneSlot
  BY DEF IInv
<1>. QED
  BY PoolInvariant, <1>1, PTL

\* run() never invalidates a slot whose deadline it has taken over.
THEOREM DeadlineIsNotDropped == Spec => []DeadlineKeepsSlot
<1>1. IInv => DeadlineKeepsSlot
  BY DEF IInv
<1>. QED
  BY PoolInvariant, <1>1, PTL

=============================================================================

------------------------ MODULE ConnectionAnswersProofs ------------------------
(***************************************************************************)
(* Proofs about ConnectionManager for every number of calling tasks,       *)
(* sockets and slots: until wait_rx gives two calls in progress the same   *)
(* slot, what it returns is true, and run() never blocks on an answer.     *)
(*                                                                         *)
(* The argument follows each call through its stages: it has asked (its    *)
(* request is in rx_queue), run() has taken its deadline over, run() is    *)
(* about to answer it, or has answered; a slot no call waits on is quiet.  *)
(***************************************************************************)
EXTENDS ConnectionManagerProofs

-----------------------------------------------------------------------------
(* The stages of a call *)

Waiting(t) == cpc[t] \in {"notify", "wait"}

Asked(t) ==
  /\ rxQueue[cslot[t]] = <<cdl[t]>>
  /\ deadline[cslot[t]] = 0 /\ rxSignal[cslot[t]] = <<>>

Taken(t) ==
  /\ rxQueue[cslot[t]] = <<>>
  /\ deadline[cslot[t]] = cdl[t] /\ rxSignal[cslot[t]] = <<>>
  /\ sd[cslot[t]] = csd[t]

Answering(t) ==
  /\ mpc \in {"timeout", "signal"} /\ idx = cslot[t]
  /\ rxQueue[idx] = <<>> /\ deadline[idx] = 0 /\ rxSignal[idx] = <<>>
  /\ sd[idx] = csd[t]
  /\ mpc = "timeout" => cdl[t] < mtime
  /\ mpc = "signal" => csd[t] \in ready

Answered(t) ==
  /\ rxQueue[cslot[t]] = <<>> /\ deadline[cslot[t]] = 0
  /\ \/ rxSignal[cslot[t]] = <<0>> /\ cdl[t] < now
     \/ rxSignal[cslot[t]] = <<1>> /\ csd[t] \in ready

Stage(t) == Asked(t) \/ Taken(t) \/ Answering(t) \/ Answered(t)

-----------------------------------------------------------------------------
(* The invariant, which holds until two calls are given one slot *)

SlotsDiffer ==
  \A t, u \in Clients :
    t # u /\ cpc[t] \in Busy /\ cpc[u] \in Busy => cslot[t] # cslot[u]

\* A slot nobody waits on has no request, no deadline and no answer.
OthersAreQuiet ==
  \A i \in Slots : (\A t \in Clients : ~(Waiting(t) /\ i = cslot[t])) =>
    deadline[i] = 0 /\ rxQueue[i] = <<>> /\ rxSignal[i] = <<>>

CallsAreInAStage == \A t \in Clients : Waiting(t) => Stage(t)

\* run() answers nobody but a call that waits.
AnswersACall ==
  mpc \in {"timeout", "signal"} =>
    \E t \in Clients : Waiting(t) /\ Answering(t)

\* The slot of a call is its own, or has been given up.
SlotOfCall ==
  \A t \in Clients :
    /\ cpc[t] \in {"claim", "claimed"} => sd[cslot[t]] = Free
    /\ cpc[t] \in {"reset", "send", "notify", "wait"} => sd[cslot[t]] \in {csd[t], Free}
    /\ cpc[t] \notin {"closed", "open"} => cdl[t] # 0

\* run() works on slots in use, and its clock is not ahead.
RoundIsSane ==
  /\ mpc \in {"inv_take", "invalidate", "timeout", "signal"} => sd[idx] # Free
  /\ mtime <= now

\* Before sl_Select the set holds the descriptors of deadlines that run() has
\* taken over; after it, of such deadlines, of the slot being reported or of
\* slots already reported.
ReadSetIsOfCalls ==
  /\ mpc \in {"start", "delay", "sleep"} => readSet = {}
  /\ mpc \in {"scan", "inv_take", "invalidate", "timeout", "select"} =>
       \A s \in readSet : \E t \in Clients :
         Waiting(t) /\ Taken(t) /\ s = csd[t] /\ (mpc # "select" => cslot[t] < idx)
  /\ mpc \in {"report", "signal"} =>
       \A s \in readSet :
         \/ \E k \in Slots : sd[k] = s /\ (k < idx \/ (mpc = "signal" /\ k = idx))
         \/ s \in ready /\ \E t \in Clients : Waiting(t) /\ Taken(t) /\ s = csd[t]

AnswersAreTrue ==
  \A t \in Clients : cpc[t] = "done" =>
    IF answer[t] = 1 THEN csd[t] \in ready ELSE now > cdl[t]

CallCore ==
  /\ SlotsDiffer
  /\ OthersAreQuiet
  /\ CallsAreInAStage
  /\ AnswersACall
  /\ SlotOfCall
  /\ AnswersAreTrue

Core == CallCore /\ RoundIsSane /\ ReadSetIsOfCalls

AInv == ~shared => Core

-----------------------------------------------------------------------------
\* Nobody calls at first.
LEMMA InitAInv == Init => AInv
BY PoolAssumption
   DEF Init, AInv, Core, CallCore, SlotsDiffer, OthersAreQuiet, CallsAreInAStage,
       AnswersACall, SlotOfCall, RoundIsSane, ReadSetIsOfCalls, AnswersAreTrue,
       Waiting, Slots, Busy

\* What a call that waits sees of its slot and of itself does not change.
Kept(u) ==
  /\ Waiting(u)'
  /\ cslot'[u] = cslot[u] /\ csd'[u] = csd[u] /\ cdl'[u] = cdl[u]
  /\ sd'[cslot[u]] = sd[cslot[u]]
  /\ deadline'[cslot[u]] = deadline[cslot[u]]
  /\ rxQueue'[cslot[u]] = rxQueue[cslot[u]]
  /\ rxSignal'[cslot[u]] = rxSignal[cslot[u]]
  /\ csd[u] \in ready => csd[u] \in ready'

\* Then neither does its stage.
LEMMA KeptStage ==
  ASSUME NEW u \in Clients, Kept(u), UNCHANGED <<mpc, idx, mtime, now>>
  PROVE  /\ Taken(u) => Taken(u)'
         /\ Answering(u) => Answering(u)'
         /\ Stage(u) => Stage(u)'
BY DEF Kept, Asked, Taken, Answering, Answered, Stage

-----------------------------------------------------------------------------
(* The steps of a call *)

\* A step of a caller changes nothing for a call that waits, but for its own
\* when it takes the answer.
LEMMA CallerKeeps ==
  ASSUME IInv, IInv', SlotsDiffer, NEW t \in Clients,
         Open(t) \/ Close(t) \/ WaitRx(t) \/ Call(t) \/ DataArrives(t),
         NEW u \in Clients, Waiting(u), u # t \/ ~TakeAnswer(t)
  PROVE  Kept(u)
<1> USE DEF Kept, Waiting, Move, pool, mlocals, mgr, client
<1>t. /\ TypeOK /\ TypeOK' /\ cslot[u] \in Slots /\ csd[u] # Free
      /\ (t # u => csd[u] # csd[t])
  BY DEF IInv, TypeOK, CallersOwn, OwnersDiffer, CPlaces
<1>s. t # u /\ cpc[t] \in Busy => cslot[t] # cslot[u]
  BY DEF SlotsDiffer, Busy
<1>1. CASE Open(t)
  BY <1>t, <1>s, <1>1 DEF Open, TypeOK, Busy
<1>2. CASE Close(t)
  BY <1>t, <1>s, <1>2 DEF Close, TypeOK, Busy
<1>3. CASE WaitRx(t)
  BY <1>t, <1>s, <1>3 DEF WaitRx, TypeOK, Busy
<1>4. CASE ClaimTake(t)
  BY <1>t, <1>s, <1>4 DEF ClaimTake, TypeOK, Busy
<1>5. CASE ClaimSet(t)
  BY <1>t, <1>s, <1>5 DEF ClaimSet, TypeOK, Busy
<1>6. CASE ResetSignal(t)
  BY <1>t, <1>s, <1>6 DEF ResetSignal, TypeOK, Busy
<1>7. CASE SendRequest(t)
  BY <1>t, <1>s, <1>7 DEF SendRequest, TypeOK, Busy
<1>8. CASE NotifyManager(t)
  BY <1>t, <1>s, <1>8 DEF NotifyManager, TypeOK, Busy
<1>9. CASE TakeAnswer(t)
  BY <1>t, <1>s, <1>9 DEF TakeAnswer, TypeOK, Busy
<1>10. CASE Return(t)
  BY <1>t, <1>s, <1>10 DEF Return, TypeOK, Busy
<1>11. CASE DataArrives(t)
  BY <1>t, <1>s, <1>11 DEF DataArrives, TypeOK, Busy
<1>. QED
  BY <1>1, <1>2, <1>3, <1>4, <1>5, <1>6, <1>7, <1>8, <1>9, <1>10, <1>11 DEF Call

\* A call takes the answer it was given.
LEMMA TakenAnswer ==
  ASSUME Core, NEW t \in Clients, TakeAnswer(t)
  PROVE  Answered(t) /\ ~Taken(t) /\ ~Answering(t)
BY DEF Core, CallCore, CallsAreInAStage, Stage, Waiting, Move, TakeAnswer, Asked, Taken,
       Answering, Answered

\* run() and its clock stand still.
LEMMA CallerLeavesRun ==
  ASSUME NEW t \in Clients,
         Open(t) \/ Close(t) \/ WaitRx(t) \/ Call(t) \/ DataArrives(t)
  PROVE  UNCHANGED <<mpc, idx, mtime, readSet, now>>
BY DEF Open, Close, WaitRx, Call, DataArrives, ClaimTake, ClaimSet, ResetSignal,
       SendRequest, NotifyManager, TakeAnswer, Return, mgr, mlocals

\* A slot in use keeps its descriptor.
LEMMA CallerLeavesSlots ==
  ASSUME IInv, Core, NEW t \in Clients,
         Open(t) \/ Close(t) \/ WaitRx(t) \/ Call(t) \/ DataArrives(t)
  PROVE  \A k \in Slots : sd[k] # Free => sd'[k] = sd[k]
<1>1. CASE ClaimSet(t)
  BY <1>1 DEF ClaimSet, Move, Core, CallCore, SlotOfCall, IInv, TypeOK
<1>2. CASE ~ClaimSet(t)
  <2>1. sd' = sd
    BY <1>2 DEF Open, Close, WaitRx, Call, DataArrives, ClaimTake, ResetSignal,
                SendRequest, NotifyManager, TakeAnswer, Return, pool
  <2>. QED
    BY <2>1
<1>. QED
  BY <1>1, <1>2

\* The calls stay in their stages.
LEMMA CallerStages ==
  ASSUME IInv, IInv', Core, NEW t \in Clients,
         Open(t) \/ Close(t) \/ WaitRx(t) \/ Call(t) \/ DataArrives(t)
  PROVE  CallsAreInAStage' /\ AnswersACall' /\ RoundIsSane' /\ ReadSetIsOfCalls'
<1> USE DEF Core, CallCore
<1>t. TypeOK /\ TypeOK'
  BY DEF IInv
<1>r. UNCHANGED <<mpc, idx, mtime, readSet, now>>
  BY CallerLeavesRun
<1>s. \A k \in Slots : sd[k] # Free => sd'[k] = sd[k]
  BY CallerLeavesSlots
<1>1. \A u \in Clients : Waiting(u) /\ (u # t \/ ~TakeAnswer(t)) =>
        /\ Kept(u)
        /\ Taken(u) => Taken(u)'
        /\ Answering(u) => Answering(u)'
        /\ Stage(u) => Stage(u)'
  BY <1>r, CallerKeeps, KeptStage
<1>2. CallsAreInAStage'
  <2>1. ASSUME NEW u \in Clients, Waiting(u)' PROVE Stage(u)'
    <3>1. CASE Waiting(u)
      <4>1. u # t \/ ~TakeAnswer(t)
        BY <1>t, <2>1 DEF TakeAnswer, Move, Waiting, TypeOK
      <4>. QED
        BY <1>1, <3>1, <4>1 DEF CallsAreInAStage
    <3>2. CASE ~Waiting(u)
      <4>1. u = t /\ SendRequest(t)
        BY <1>t, <2>1, <3>2
           DEF Open, Close, WaitRx, Call, DataArrives, ClaimTake, ClaimSet, ResetSignal,
               SendRequest, NotifyManager, TakeAnswer, Return, Move, Waiting, TypeOK, client
      <4>2. \A v \in Clients : ~(Waiting(v) /\ cslot[t] = cslot[v])
        BY <4>1 DEF SendRequest, Move, SlotsDiffer, Waiting, Busy
      <4>3. deadline[cslot[t]] = 0 /\ rxSignal[cslot[t]] = <<>> /\ cslot[t] \in Slots
        BY <1>t, <4>2 DEF OthersAreQuiet, TypeOK
      <4>4. Asked(t)'
        BY <1>t, <4>1, <4>3 DEF SendRequest, Move, Asked, TypeOK
      <4>. QED
        BY <4>1, <4>4 DEF Stage
    <3>. QED
      BY <3>1, <3>2
  <2>. QED
    BY <2>1 DEF CallsAreInAStage
<1>3. AnswersACall'
  <2>1. ASSUME NEW u \in Clients, Waiting(u), Answering(u)
        PROVE  Waiting(u)' /\ Answering(u)'
    BY <1>1, <2>1, TakenAnswer DEF Kept
  <2>. QED
    BY <1>r, <2>1 DEF AnswersACall
<1>4. RoundIsSane'
  <2>1. mpc \in {"inv_take", "invalidate", "timeout", "signal"} => idx \in Slots
    BY DEF IInv, VacantWhenGivenUp
  <2>. QED
    BY <1>r, <1>s, <2>1 DEF RoundIsSane
<1>5. ReadSetIsOfCalls'
  <2>1. ASSUME NEW u \in Clients, Waiting(u), Taken(u)
        PROVE  /\ Waiting(u)' /\ Taken(u)' /\ csd'[u] = csd[u] /\ cslot'[u] = cslot[u]
               /\ csd[u] \in ready => csd[u] \in ready'
    BY <1>1, <2>1, TakenAnswer DEF Kept
  <2>2. ASSUME NEW s \in readSet, NEW k \in Slots, sd[k] = s
        PROVE  sd'[k] = s
    <3>1. s # Free
      BY <1>t, <2>2, PoolAssumption DEF TypeOK
    <3>. QED
      BY <1>s, <2>2, <3>1
  <2>3. mpc \in {"scan", "inv_take", "invalidate", "timeout", "select"} =>
          \A s \in readSet : \E u \in Clients :
            Waiting(u)' /\ Taken(u)' /\ s = csd'[u] /\ (mpc # "select" => cslot'[u] < idx)
    BY <2>1 DEF ReadSetIsOfCalls
  <2>4. mpc \in {"report", "signal"} =>
          \A s \in readSet :
            \/ \E k \in Slots : sd'[k] = s /\ (k < idx \/ (mpc = "signal" /\ k = idx))
            \/ s \in ready' /\ \E u \in Clients : Waiting(u)' /\ Taken(u)' /\ s = csd'[u]
    BY <2>1, <2>2 DEF ReadSetIsOfCalls
  <2>. QED
    BY <1>r, <2>3, <2>4 DEF ReadSetIsOfCalls, Slots
<1>. QED
  BY <1>2, <1>3, <1>4, <1>5

\* So do the slots nobody waits on: only a call that is to wait writes to them.
LEMMA CallerQuiet ==
  ASSUME IInv, IInv', Core, NEW t \in Clients,
         Open(t) \/ Close(t) \/ WaitRx(t) \/ Call(t) \/ DataArrives(t)
  PROVE  OthersAreQuiet'
<1> USE DEF Core, CallCore
<1>t. TypeOK /\ TypeOK'
  BY DEF IInv
<1> SUFFICES ASSUME NEW i \in Slots, \A u \in Clients : ~(Waiting(u)' /\ i = cslot'[u])
             PROVE  deadline'[i] = 0 /\ rxQueue'[i] = <<>> /\ rxSignal'[i] = <<>>
  BY DEF OthersAreQuiet, Slots
<1>1. CASE \E u \in Clients : Waiting(u) /\ i = cslot[u]
  <2>1. PICK u \in Clients : Waiting(u) /\ i = cslot[u]
    BY <1>1
  <2>2. u = t /\ TakeAnswer(t)
    BY <2>1, CallerKeeps DEF Kept
  <2>3. Answered(t)
    BY <2>2, TakenAnswer
  <2>. QED
    BY <1>t, <2>1, <2>2, <2>3 DEF TakeAnswer, Answered, TypeOK
<1>2. CASE \A u \in Clients : ~(Waiting(u) /\ i = cslot[u])
  <2>1. deadline[i] = 0 /\ rxQueue[i] = <<>> /\ rxSignal[i] = <<>>
    BY <1>2 DEF OthersAreQuiet
  <2>2. deadline' = deadline
    BY DEF Open, Close, WaitRx, Call, DataArrives, ClaimTake, ClaimSet, ResetSignal,
           SendRequest, NotifyManager, TakeAnswer, Return, pool
  <2>3. CASE SendRequest(t)
    <3>1. i # cslot[t]
      BY <1>t, <2>3 DEF SendRequest, Move, Waiting, TypeOK
    <3>. QED
      BY <1>t, <2>1, <2>2, <2>3, <3>1 DEF SendRequest, TypeOK
  <2>4. CASE ResetSignal(t)
    BY <1>t, <2>1, <2>2, <2>4 DEF ResetSignal, TypeOK
  <2>5. CASE TakeAnswer(t)
    BY <1>t, <2>1, <2>2, <2>5 DEF TakeAnswer, TypeOK
  <2>6. CASE ~SendRequest(t) /\ ~ResetSignal(t) /\ ~TakeAnswer(t)
    <3>1. rxQueue' = rxQueue /\ rxSignal' = rxSignal
      BY <2>6 DEF Open, Close, WaitRx, Call, DataArrives, ClaimTake, ClaimSet,
                  NotifyManager, Return, pool
    <3>. QED
      BY <2>1, <2>2, <3>1
  <2>. QED
    BY <2>3, <2>4, <2>5, <2>6
<1>. QED
  BY <1>1, <1>2

\* A call's slot is its own: wait_rx was given one nobody else has.
LEMMA CallerSlots ==
  ASSUME IInv, IInv', Core, ~shared', NEW t \in Clients,
         Open(t) \/ Close(t) \/ WaitRx(t) \/ Call(t) \/ DataArrives(t)
  PROVE  SlotsDiffer' /\ SlotOfCall'
<1> USE DEF Core, CallCore, Move, pool, client
<1>t. TypeOK /\ TypeOK'
  BY DEF IInv
<1>1. CASE WaitRx(t)
  <2>1. PICK d \in Timeouts : cdl' = [cdl EXCEPT ![t] = now + d]
    BY <1>1 DEF WaitRx
  <2>2. cdl'[t] # 0
    <3>1. cdl'[t] = now + d
      BY <1>t, <2>1 DEF TypeOK
    <3>2. now \in 1..MaxTime /\ d \in Nat
      BY <1>t, PoolAssumption DEF TypeOK
    <3>. QED
      BY <3>1, <3>2, PoolAssumption
  <2>3. cpc'[t] = "claim" => sd'[cslot'[t]] = Free
    BY <1>1, <1>t DEF WaitRx, TypeOK, First
  <2>4. cpc'[t] = "reset" => sd'[cslot'[t]] = csd'[t]
    BY <1>1, <1>t DEF WaitRx, TypeOK, First
  <2>5. cpc'[t] \in {"claim", "reset", "panic"}
    BY <1>1, <1>t DEF WaitRx, TypeOK
  <2>6. \A u \in Clients \ {t} : /\ cpc'[u] = cpc[u] /\ cslot'[u] = cslot[u]
                                 /\ cdl'[u] = cdl[u] /\ csd'[u] = csd[u]
    BY <1>1, <1>t DEF WaitRx, TypeOK
  <2>7. UNCHANGED sd
    BY <1>1 DEF WaitRx
  <2>8. \A u \in Clients \ {t} :
          cpc'[t] # "panic" /\ cpc[u] \in Busy => cslot[u] # cslot'[t]
    BY <1>1, Zenon DEF WaitRx
  <2>9. SlotsDiffer'
    BY <2>6, <2>8 DEF SlotsDiffer, Busy
  <2>10. SlotOfCall'
    BY <2>2, <2>3, <2>4, <2>5, <2>6, <2>7 DEF SlotOfCall
  <2>. QED
    BY <2>9, <2>10
<1>2. CASE ClaimSet(t)
  <2>1. SlotsDiffer'
    BY <1>2, <1>t DEF ClaimSet, SlotsDiffer, TypeOK, Busy
  <2>2. SlotOfCall'
    BY <1>2, <1>t DEF ClaimSet, SlotsDiffer, SlotOfCall, TypeOK, Busy
  <2>. QED
    BY <2>1, <2>2
<1>3. CASE Open(t)
  <2>1. SlotsDiffer'
    BY <1>3, <1>t DEF Open, SlotsDiffer, TypeOK, Busy
  <2>2. SlotOfCall'
    BY <1>3, <1>t DEF Open, SlotOfCall, TypeOK
  <2>. QED
    BY <2>1, <2>2
<1>4. CASE Close(t)
  <2>1. SlotsDiffer'
    BY <1>4, <1>t DEF Close, SlotsDiffer, TypeOK, Busy
  <2>2. SlotOfCall'
    BY <1>4, <1>t DEF Close, SlotOfCall, TypeOK
  <2>. QED
    BY <2>1, <2>2
<1>5. CASE ClaimTake(t)
  <2>1. SlotsDiffer'
    BY <1>5, <1>t DEF ClaimTake, SlotsDiffer, TypeOK, Busy
  <2>2. SlotOfCall'
    BY <1>5, <1>t DEF ClaimTake, SlotOfCall, TypeOK
  <2>. QED
    BY <2>1, <2>2
<1>6. CASE ResetSignal(t)
  <2>1. SlotsDiffer'
    BY <1>6, <1>t DEF ResetSignal, SlotsDiffer, TypeOK, Busy
  <2>2. SlotOfCall'
    BY <1>6, <1>t DEF ResetSignal, SlotOfCall, TypeOK
  <2>. QED
    BY <2>1, <2>2
<1>7. CASE SendRequest(t)
  <2>1. SlotsDiffer'
    BY <1>7, <1>t DEF SendRequest, SlotsDiffer, TypeOK, Busy
  <2>2. SlotOfCall'
    BY <1>7, <1>t DEF SendRequest, SlotOfCall, TypeOK
  <2>. QED
    BY <2>1, <2>2
<1>8. CASE NotifyManager(t)
  <2>1. SlotsDiffer'
    BY <1>8, <1>t DEF NotifyManager, SlotsDiffer, TypeOK, Busy
  <2>2. SlotOfCall'
    BY <1>8, <1>t DEF NotifyManager, SlotOfCall, TypeOK
  <2>. QED
    BY <2>1, <2>2
<1>9. CASE TakeAnswer(t)
  <2>1. SlotsDiffer'
    BY <1>9, <1>t DEF TakeAnswer, SlotsDiffer, TypeOK, Busy
  <2>2. SlotOfCall'
    BY <1>9, <1>t DEF TakeAnswer, SlotOfCall, TypeOK
  <2>. QED
    BY <2>1, <2>2
<1>10. CASE Return(t)
  <2>1. SlotsDiffer'
    BY <1>10, <1>t DEF Return, SlotsDiffer, TypeOK, Busy
  <2>2. SlotOfCall'
    BY <1>10, <1>t DEF Return, SlotOfCall, TypeOK
  <2>. QED
    BY <2>1, <2>2
<1>11. CASE DataArrives(t)
  <2>1. SlotsDiffer'
    BY <1>11, <1>t DEF DataArrives, SlotsDiffer, TypeOK, Busy
  <2>2. SlotOfCall'
    BY <1>11, <1>t DEF DataArrives, SlotOfCall, TypeOK
  <2>. QED
    BY <2>1, <2>2
<1>. QED
  BY <1>1, <1>2, <1>3, <1>4, <1>5, <1>6, <1>7, <1>8, <1>9, <1>10, <1>11 DEF Call

\* A call that comes back brings a true answer, and others take nothing away.
LEMMA CallerAnswers ==
  ASSUME IInv, IInv', Core, NEW t \in Clients,
         Open(t) \/ Close(t) \/ WaitRx(t) \/ Call(t) \/ DataArrives(t)
  PROVE  AnswersAreTrue'
<1> USE DEF Core, CallCore, Move, pool, client
<1>t. TypeOK /\ TypeOK' /\ CallersOwn /\ OwnersDiffer
  BY DEF IInv
<1>n. now' = now
  BY CallerLeavesRun
<1> SUFFICES ASSUME NEW u \in Clients, cpc'[u] = "done"
             PROVE  IF answer'[u] = 1 THEN csd'[u] \in ready' ELSE now' > cdl'[u]
  BY DEF AnswersAreTrue
<1>1. CASE TakeAnswer(t) /\ u = t
  <2>1. answer'[t] = Head(rxSignal[cslot[t]])
    BY <1>1, <1>t DEF TakeAnswer, TypeOK
  <2>2. \/ answer'[t] = 0 /\ cdl[t] < now
        \/ answer'[t] = 1 /\ csd[t] \in ready
    <3>1. CASE rxSignal[cslot[t]] = <<0>> /\ cdl[t] < now
      BY <2>1, <3>1
    <3>2. CASE rxSignal[cslot[t]] = <<1>> /\ csd[t] \in ready
      BY <2>1, <3>2
    <3>. QED
      BY <1>1, <3>1, <3>2, TakenAnswer DEF Answered
  <2>3. UNCHANGED <<now, ready, cdl, csd>>
    BY <1>1 DEF TakeAnswer
  <2>4. cdl[t] \in Nat /\ now \in Nat
    BY <1>t DEF TypeOK
  <2>. QED
    BY <1>1, <2>2, <2>3, <2>4
<1>2. CASE ~(TakeAnswer(t) /\ u = t)
  <2>1. cpc[u] = "done" /\ answer'[u] = answer[u] /\ csd'[u] = csd[u] /\ cdl'[u] = cdl[u]
    BY <1>2, <1>t
       DEF Open, Close, WaitRx, Call, DataArrives, ClaimTake, ClaimSet, ResetSignal,
           SendRequest, NotifyManager, TakeAnswer, Return, TypeOK
  <2>2. csd[u] # Free /\ (u # t => csd[u] # csd[t])
    BY <1>t, <2>1 DEF CallersOwn, OwnersDiffer, CPlaces
  <2>3. csd[u] \in ready => csd[u] \in ready'
    BY <1>t, <2>1, <2>2
       DEF Open, Close, WaitRx, Call, DataArrives, ClaimTake, ClaimSet, ResetSignal,
           SendRequest, NotifyManager, TakeAnswer, Return, TypeOK
  <2>. QED
    BY <1>n, <2>1, <2>3 DEF AnswersAreTrue
<1>. QED
  BY <1>1, <1>2

\* Every step of a caller preserves the invariant.
LEMMA ClientCore ==
  ASSUME IInv, IInv', Core, ~shared', NEW t \in Clients,
         Open(t) \/ Close(t) \/ WaitRx(t) \/ Call(t) \/ DataArrives(t)
  PROVE  Core'
BY CallerStages, CallerQuiet, CallerSlots, CallerAnswers DEF Core, CallCore

-----------------------------------------------------------------------------
(* The steps of run() *)

\* What run() finds in slot idx: no deadline, or the one of a call.
LEMMA ScanFinds ==
  ASSUME IInv, Core, mpc = "scan", idx \in Slots
  PROVE  \/ Requested(idx) = 0 /\ deadline[idx] = 0 /\ rxQueue[idx] = <<>>
         \/ \E t \in Clients :
              /\ Waiting(t) /\ idx = cslot[t] /\ (Asked(t) \/ Taken(t))
              /\ Requested(idx) = cdl[t] /\ cdl[t] # 0
<1> USE DEF Core, CallCore
<1>1. CASE deadline[idx] = 0 /\ rxQueue[idx] = <<>>
  BY <1>1 DEF Requested
<1>2. ASSUME NEW t \in Clients, Waiting(t), idx = cslot[t]
      PROVE  \/ Requested(idx) = 0 /\ deadline[idx] = 0 /\ rxQueue[idx] = <<>>
             \/ Requested(idx) = cdl[t] /\ cdl[t] # 0 /\ (Asked(t) \/ Taken(t))
  <2>1. cdl[t] # 0 /\ cdl[t] \in 0..MaxTime
    BY <1>2 DEF SlotOfCall, Waiting, IInv, TypeOK, CPlaces
  <2>2. CASE Asked(t)
    <3>1. rxQueue[idx] # <<>> /\ Head(rxQueue[idx]) = cdl[t] /\ deadline[idx] = 0
      BY <1>2, <2>2 DEF Asked
    <3>2. cdl[t] > deadline[idx]
      BY <2>1, <3>1, PoolAssumption
    <3>. QED
      BY <2>1, <2>2, <3>1, <3>2 DEF Requested
  <2>3. CASE Taken(t)
    BY <1>2, <2>1, <2>3 DEF Taken, Requested
  <2>4. CASE Answered(t)
    BY <1>2, <2>4 DEF Answered, Requested
  <2>5. ~Answering(t)
    BY DEF Answering
  <2>. QED
    BY <1>2, <2>2, <2>3, <2>4, <2>5 DEF CallsAreInAStage, Stage
<1>. QED
  BY <1>1, <1>2 DEF OthersAreQuiet

\* A step that leaves the pool and the calls alone and begins or ends no answer.
LEMMA QuietStep ==
  ASSUME TypeOK, TypeOK', Core, UNCHANGED <<pool, client, ready>>,
         now' \in {now, now + 1},
         \/ UNCHANGED <<mpc, idx, mtime>>
         \/ {mpc, mpc'} \cap {"timeout", "signal"} = {}
  PROVE  CallCore'
<1> USE PoolAssumption DEF Core, CallCore, Waiting, Slots, pool, client
<1>1. OthersAreQuiet'
  BY DEF TypeOK, OthersAreQuiet
<1>2. ASSUME NEW t \in Clients, Waiting(t)
      PROVE  Stage(t)'
  <2>1. CASE Asked(t) \/ Taken(t)
    BY <2>1 DEF Asked, Taken, Stage
  <2>2. CASE Answering(t)
    BY <2>2 DEF Answering, Stage
  <2>3. CASE Answered(t)
    BY <2>3, SMTT(30) DEF Answered, TypeOK, Stage
  <2>. QED
    BY <1>2, <2>1, <2>2, <2>3 DEF CallsAreInAStage, Stage
<1>3. AnswersACall'
  BY DEF TypeOK, AnswersACall, Answering
<1>4. SlotOfCall' /\ SlotsDiffer'
  BY DEF TypeOK, SlotOfCall, SlotsDiffer, Busy
<1>5. AnswersAreTrue'
  BY SMTT(30) DEF TypeOK, AnswersAreTrue
<1>. QED
  BY <1>1, <1>2, <1>3, <1>4, <1>5 DEF CallsAreInAStage

\* run() works on one slot and on the call that waits on it: the others stay
\* as they are.
LEMMA OneSlotStep ==
  ASSUME IInv, IInv', Core, NEW t \in Clients, Waiting(t), idx = cslot[t], Stage(t)',
         UNCHANGED <<client, now, ready>>,
         \A i \in Slots \ {idx} : /\ sd'[i] = sd[i] /\ deadline'[i] = deadline[i]
                                  /\ rxQueue'[i] = rxQueue[i]
                                  /\ rxSignal'[i] = rxSignal[i],
         sd'[idx] \in {sd[idx], Free},
         mpc' \in {"timeout", "signal"} => Answering(t)'
  PROVE  /\ CallCore'
         /\ \A u \in Clients : Waiting(u) /\ u # t /\ Taken(u) => Taken(u)'
<1> USE DEF Core, CallCore, Waiting, client
<1>t. TypeOK /\ TypeOK'
  BY DEF IInv
<1>0. \A u \in Clients : u # t /\ Waiting(u) => cslot[u] \in Slots \ {idx}
  BY <1>t DEF SlotsDiffer, Busy, TypeOK
<1>1. OthersAreQuiet'
  BY DEF OthersAreQuiet, Slots
<1>2. ASSUME NEW u \in Clients, u # t, Waiting(u)
      PROVE  /\ Asked(u) => Asked(u)'
             /\ Taken(u) => Taken(u)'
             /\ Answered(u) => Answered(u)'
             /\ ~Answering(u)
  BY <1>0, <1>2 DEF Asked, Taken, Answered, Answering
<1>3. CallsAreInAStage'
  BY <1>2 DEF CallsAreInAStage, Stage
<1>4. AnswersACall'
  BY DEF AnswersACall
<1>5. SlotsDiffer' /\ AnswersAreTrue'
  BY DEF SlotsDiffer, Busy, AnswersAreTrue
<1>6. SlotOfCall'
  <2>1. \A i \in Slots : sd'[i] \in {sd[i], Free}
    OBVIOUS
  <2>. QED
    BY <1>t, <2>1 DEF SlotOfCall, TypeOK
<1>. QED
  BY <1>1, <1>2, <1>3, <1>4, <1>5, <1>6

\* The scan of the pool.
LEMMA ScanCore ==
  ASSUME IInv, IInv', Core, MScan
  PROVE  Core'
<1> USE PoolAssumption DEF Core, Waiting, Slots, pool, mlocals, mgr, client
<1>t. TypeOK /\ TypeOK'
  BY DEF IInv
<1>1. /\ mpc = "scan" /\ idx \in Slots
      /\ UNCHANGED <<sd, rxSignal, mtime, client, now, ready>>
  BY <1>t DEF MScan, Running, TypeOK
<1>2. CASE sd[idx] = Free
  <2>0. mpc' = mpc /\ idx' = idx + 1 /\ UNCHANGED <<deadline, rxQueue, readSet>>
    BY <1>2 DEF MScan
  <2>1. CallCore'
    BY <1>t, <1>1, <2>0, QuietStep
  <2>2. RoundIsSane'
    BY <1>t, <1>1, <2>0 DEF TypeOK, RoundIsSane
  <2>3. ReadSetIsOfCalls'
    BY <1>t, <1>1, <2>0 DEF TypeOK, ReadSetIsOfCalls, Taken
  <2>. QED
    BY <2>1, <2>2, <2>3
<1>3. CASE sd[idx] # Free /\ Requested(idx) = 0 /\ deadline[idx] = 0 /\ rxQueue[idx] = <<>>
  <2>0. mpc' = "inv_take" /\ UNCHANGED <<idx, deadline, rxQueue, readSet>>
    <3>1. Vacant(idx) /\ AfterScan(Requested(idx)) = 0
      BY <1>3 DEF Vacant, AfterScan
    <3>2. /\ rxQueue' = [rxQueue EXCEPT ![idx] = <<>>]
          /\ deadline' = [deadline EXCEPT ![idx] = 0]
          /\ mpc' = "inv_take" /\ UNCHANGED <<idx, readSet>>
      BY <1>3, <3>1 DEF MScan
    <3>3. rxQueue' = rxQueue /\ deadline' = deadline
      BY <1>t, <1>3, <3>2 DEF TypeOK
    <3>. QED
      BY <3>2, <3>3
  <2>1. CallCore'
    BY <1>t, <1>1, <2>0, QuietStep
  <2>2. RoundIsSane'
    BY <1>t, <1>1, <1>3, <2>0 DEF TypeOK, RoundIsSane
  <2>3. ReadSetIsOfCalls'
    BY <1>t, <1>1, <2>0 DEF TypeOK, ReadSetIsOfCalls, Taken
  <2>. QED
    BY <2>1, <2>2, <2>3
<1>4. ASSUME NEW t \in Clients, sd[idx] # Free, Waiting(t), idx = cslot[t],
             Asked(t) \/ Taken(t), Requested(idx) = cdl[t], cdl[t] # 0
      PROVE  Core'
  <2>0. /\ \A i \in Slots \ {idx} : /\ sd'[i] = sd[i] /\ deadline'[i] = deadline[i]
                                    /\ rxQueue'[i] = rxQueue[i]
                                    /\ rxSignal'[i] = rxSignal[i]
        /\ sd'[idx] = sd[idx] /\ sd[idx] = csd[t] /\ rxSignal'[idx] = <<>>
        /\ rxQueue'[idx] = <<>>
    <3>1. rxSignal[idx] = <<>>
      BY <1>4 DEF Asked, Taken
    <3>2. sd[idx] = csd[t]
      BY <1>4 DEF CallCore, SlotOfCall
    <3>3. /\ deadline' = [deadline EXCEPT ![idx] = AfterScan(Requested(idx))]
          /\ rxQueue' = [rxQueue EXCEPT ![idx] = <<>>]
      BY <1>4 DEF MScan
    <3>. QED
      BY <1>t, <1>1, <3>1, <3>2, <3>3 DEF TypeOK
  <2>1. CASE ~Expired(cdl[t])
    <3>0. /\ mpc' = "scan" /\ idx' = idx + 1 /\ readSet' = readSet \cup {sd[idx]}
          /\ deadline'[idx] = cdl[t]
      BY <1>t, <1>1, <1>4, <2>1 DEF MScan, Vacant, AfterScan, TypeOK
    <3>1. Taken(t)'
      BY <1>1, <1>4, <2>0, <3>0 DEF Taken
    <3>2. /\ CallCore'
          /\ \A u \in Clients : Waiting(u) /\ u # t /\ Taken(u) => Taken(u)'
      BY <1>1, <1>4, <2>0, <3>0, <3>1, OneSlotStep DEF Stage
    <3>3. RoundIsSane'
      BY <1>1, <3>0 DEF RoundIsSane
    <3>4. ASSUME NEW s \in readSet'
          PROVE  \E u \in Clients : Waiting(u)' /\ Taken(u)' /\ s = csd'[u] /\ cslot'[u] < idx'
      <4>1. CASE s = sd[idx]
        BY <1>1, <1>4, <2>0, <3>0, <3>1, <4>1
      <4>2. CASE s \in readSet
        <5>1. PICK u \in Clients : Waiting(u) /\ Taken(u) /\ s = csd[u] /\ cslot[u] < idx
          BY <1>1, <4>2 DEF ReadSetIsOfCalls
        <5>2. u # t /\ cslot[u] \in Slots
          BY <1>t, <1>4, <5>1 DEF TypeOK
        <5>. QED
          BY <1>1, <3>0, <3>2, <5>1, <5>2
      <4>. QED
        BY <3>0, <4>1, <4>2
    <3>5. ReadSetIsOfCalls'
      BY <3>0, <3>4 DEF ReadSetIsOfCalls
    <3>. QED
      BY <3>2, <3>3, <3>5
  <2>2. CASE Expired(cdl[t])
    <3>0. mpc' = "timeout" /\ UNCHANGED <<idx, readSet>> /\ deadline'[idx] = 0
      BY <1>t, <1>1, <1>4, <2>2 DEF MScan, Vacant, AfterScan, TypeOK
    <3>1. Answering(t)'
      BY <1>1, <1>4, <2>0, <2>2, <3>0 DEF Answering, Expired
    <3>2. /\ CallCore'
          /\ \A u \in Clients : Waiting(u) /\ u # t /\ Taken(u) => Taken(u)'
      BY <1>1, <1>4, <2>0, <3>0, <3>1, OneSlotStep DEF Stage
    <3>3. RoundIsSane'
      BY <1>1, <1>4, <2>0, <3>0 DEF RoundIsSane
    <3>4. ASSUME NEW s \in readSet
          PROVE  \E u \in Clients : Waiting(u)' /\ Taken(u)' /\ s = csd'[u] /\ cslot'[u] < idx'
      <4>1. PICK u \in Clients : Waiting(u) /\ Taken(u) /\ s = csd[u] /\ cslot[u] < idx
        BY <1>1, <3>4 DEF ReadSetIsOfCalls
      <4>2. u # t
        BY <1>1, <1>4, <4>1
      <4>. QED
        BY <1>1, <3>0, <3>2, <4>1, <4>2
    <3>5. ReadSetIsOfCalls'
      BY <3>0, <3>4 DEF ReadSetIsOfCalls
    <3>. QED
      BY <3>2, <3>3, <3>5
  <2>. QED
    BY <2>1, <2>2
<1>. QED
  BY <1>1, <1>2, <1>3, <1>4, ScanFinds

\* An answer is given: the call of slot idx is answered and idx moves on.
LEMMA AnswerCore ==
  ASSUME IInv, IInv', Core, NEW a \in {0, 1}, Answer(a),
         \/ a = 0 /\ mpc = "timeout" /\ mpc' = "scan"
         \/ a = 1 /\ mpc = "signal" /\ mpc' = "report"
  PROVE  Core'
<1> USE DEF Core, Waiting, Slots, pool, mlocals, mgr, client, Answer
<1>t. TypeOK /\ TypeOK' /\ VacantWhenGivenUp
  BY DEF IInv
<1>1. PICK t \in Clients : Waiting(t) /\ Answering(t)
  BY DEF CallCore, AnswersACall
<1>2. /\ rxSignal' = [rxSignal EXCEPT ![idx] = <<a>>] /\ idx = cslot[t] /\ idx \in Slots
      /\ UNCHANGED <<sd, deadline, rxQueue, readSet, mtime, client, now, ready>>
      /\ idx' = idx + 1
  BY <1>t, <1>1 DEF Answering, VacantWhenGivenUp
<1>3. Answered(t)'
  <2>1. rxSignal'[idx] = <<a>>
    BY <1>t, <1>2 DEF TypeOK
  <2>2. a = 0 => cdl[t] < now
    BY <1>t, <1>1 DEF Answering, RoundIsSane, TypeOK
  <2>3. a = 1 => csd[t] \in ready
    BY <1>1 DEF Answering
  <2>. QED
    BY <1>1, <1>2, <2>1, <2>2, <2>3 DEF Answered, Answering
<1>4. /\ CallCore'
      /\ \A u \in Clients : Waiting(u) /\ u # t /\ Taken(u) => Taken(u)'
  <2>1. \A i \in Slots \ {idx} : rxSignal'[i] = rxSignal[i]
    BY <1>t, <1>2 DEF TypeOK
  <2>. QED
    BY <1>1, <1>2, <1>3, <2>1, OneSlotStep DEF Stage
<1>5. RoundIsSane'
  BY <1>2 DEF RoundIsSane
<1>6. \A u \in Clients : Waiting(u) /\ Taken(u) => u # t
  <2>1. deadline[cslot[t]] = 0 /\ cdl[t] # 0
    BY <1>1, <1>2 DEF Answering, CallCore, SlotOfCall
  <2>. QED
    BY <2>1 DEF Taken
<1>7. \A k \in Slots : k <= idx => k < idx'
  BY <1>2
<1>8. \A s \in readSet : /\ mpc = "timeout" => \E u \in Clients :
                             Waiting(u)' /\ Taken(u)' /\ s = csd'[u] /\ cslot'[u] < idx'
                         /\ mpc = "signal" =>
                             \/ \E k \in Slots : sd'[k] = s /\ k < idx'
                             \/ s \in ready' /\ \E u \in Clients :
                                  Waiting(u)' /\ Taken(u)' /\ s = csd'[u]
  <2>1. \A u \in Clients : cslot[u] \in Slots
    BY <1>t DEF TypeOK
  <2>2. ASSUME NEW s \in readSet, mpc = "timeout"
        PROVE  \E u \in Clients : Waiting(u)' /\ Taken(u)' /\ s = csd'[u] /\ cslot'[u] < idx'
    <3>1. PICK u \in Clients : Waiting(u) /\ Taken(u) /\ s = csd[u] /\ cslot[u] < idx
      BY <2>2 DEF ReadSetIsOfCalls
    <3>2. cslot[u] < idx'
      BY <1>2, <2>1, <3>1
    <3>. QED
      BY <1>2, <1>4, <1>6, <3>1, <3>2
  <2>3. ASSUME NEW s \in readSet, mpc = "signal"
        PROVE  \/ \E k \in Slots : sd'[k] = s /\ k < idx'
               \/ s \in ready' /\ \E u \in Clients :
                    Waiting(u)' /\ Taken(u)' /\ s = csd'[u]
    <3>1. CASE \E k \in Slots : sd[k] = s /\ (k < idx \/ k = idx)
      BY <1>2, <1>7, <3>1
    <3>2. CASE s \in ready /\ \E u \in Clients : Waiting(u) /\ Taken(u) /\ s = csd[u]
      BY <1>2, <1>4, <1>6, <3>2
    <3>. QED
      BY <2>3, <3>1, <3>2 DEF ReadSetIsOfCalls
  <2>. QED
    BY <2>2, <2>3
<1>9. ReadSetIsOfCalls'
  BY <1>2, <1>8 DEF ReadSetIsOfCalls
<1>. QED
  BY <1>4, <1>5, <1>9

\* The report of sl_Select's result.
LEMMA ReportCore ==
  ASSUME IInv, IInv', Core, MReport
  PROVE  Core'
<1> USE PoolAssumption DEF Core, Waiting, Slots, Loop, pool, mlocals, mgr, client
<1>t. TypeOK /\ TypeOK' /\ SocketInOneSlot
  BY DEF IInv
<1>0. mpc = "report" /\ UNCHANGED <<sd, rxQueue, rxSignal, client, now, ready>>
  BY DEF MReport, Running
<1>1. CASE Loop /\ UNCHANGED deadline
  <2>1. CallCore'
    BY <1>t, <1>0, <1>1, QuietStep
  <2>2. RoundIsSane'
    BY <1>t, <1>0, <1>1 DEF TypeOK, RoundIsSane
  <2>3. ReadSetIsOfCalls'
    BY <1>1 DEF ReadSetIsOfCalls
  <2>. QED
    BY <2>1, <2>2, <2>3
<1>2. CASE /\ idx <= NSlots /\ sd[idx] \in readSet /\ mpc' = "signal"
           /\ deadline' = [deadline EXCEPT ![idx] = 0] /\ UNCHANGED mlocals
  <2>1. idx \in Slots /\ sd[idx] # Free /\ \A k \in Slots : sd[k] = sd[idx] => k = idx
    <3>1. idx \in Slots /\ sd[idx] \in Sockets
      BY <1>t, <1>2 DEF TypeOK
    <3>. QED
      BY <1>t, <3>1 DEF SocketInOneSlot
  <2>2. PICK t \in Clients :
          Waiting(t) /\ cslot[t] = idx /\ csd[t] = sd[idx] /\ csd[t] \in ready /\ Taken(t)
    <3>1. PICK t \in Clients :
            sd[idx] \in ready /\ Waiting(t) /\ Taken(t) /\ sd[idx] = csd[t]
      BY <1>0, <1>2, <2>1 DEF ReadSetIsOfCalls
    <3>2. cslot[t] = idx
      BY <1>t, <2>1, <3>1 DEF Taken, TypeOK
    <3>. QED
      BY <3>1, <3>2
  <2>3. /\ deadline'[idx] = 0
        /\ \A i \in Slots \ {idx} : deadline'[i] = deadline[i]
    BY <1>t, <1>2, <2>1 DEF TypeOK
  <2>4. Answering(t)'
    BY <1>0, <1>2, <2>2, <2>3 DEF Answering, Taken
  <2>5. /\ CallCore'
        /\ \A u \in Clients : Waiting(u) /\ u # t /\ Taken(u) => Taken(u)'
    BY <1>0, <2>2, <2>3, <2>4, OneSlotStep DEF Stage
  <2>6. RoundIsSane'
    BY <1>0, <1>2, <2>1 DEF RoundIsSane
  <2>7. ASSUME NEW s \in readSet
        PROVE  \/ \E k \in Slots : sd'[k] = s /\ (k < idx' \/ (mpc' = "signal" /\ k = idx'))
               \/ s \in ready' /\ \E u \in Clients : Waiting(u)' /\ Taken(u)' /\ s = csd'[u]
    <3>1. CASE \E k \in Slots : sd[k] = s /\ k < idx
      BY <1>0, <1>2, <3>1
    <3>2. CASE s = sd[idx]
      BY <1>0, <1>2, <2>1, <3>2
    <3>3. CASE s # sd[idx] /\ s \in ready /\ \E u \in Clients : Waiting(u) /\ Taken(u) /\ s = csd[u]
      BY <1>0, <2>2, <2>5, <3>3
    <3>. QED
      BY <1>0, <2>7, <3>1, <3>2, <3>3 DEF ReadSetIsOfCalls
  <2>8. ReadSetIsOfCalls'
    BY <1>2, <2>7 DEF ReadSetIsOfCalls
  <2>. QED
    BY <2>5, <2>6, <2>8
<1>3. CASE /\ idx <= NSlots /\ sd[idx] \notin readSet /\ idx' = idx + 1
           /\ UNCHANGED <<mpc, mtime, readSet, maint, deadline>>
  <2>1. CallCore'
    BY <1>t, <1>0, <1>3, QuietStep
  <2>2. RoundIsSane'
    BY <1>t, <1>0, <1>3 DEF TypeOK, RoundIsSane
  <2>3. ReadSetIsOfCalls'
    <3>1. \A k \in Slots : k < idx => k < idx'
      BY <1>t, <1>3 DEF TypeOK
    <3>. QED
      BY <1>0, <1>3, <3>1 DEF ReadSetIsOfCalls, Taken
  <2>. QED
    BY <2>1, <2>2, <2>3
<1>. QED
  BY <1>0, <1>1, <1>2, <1>3 DEF MReport

\* A slot without a deadline is given up: it is not one run() has taken over.
LEMMA InvalidateCore ==
  ASSUME IInv, IInv', Core, MInvalidate
  PROVE  Core'
<1> USE PoolAssumption DEF Core, Waiting, Slots, pool, mlocals, mgr, client
<1>t. TypeOK /\ TypeOK'
  BY DEF IInv
<1>1. /\ mpc = "invalidate" /\ mpc' = "scan" /\ idx \in Slots /\ idx' = idx + 1
      /\ sd' = [sd EXCEPT ![idx] = Free] /\ deadline[idx] = 0
      /\ UNCHANGED <<deadline, rxQueue, rxSignal, readSet, mtime, client, now, ready>>
  BY DEF MInvalidate, Running, IInv, VacantWhenGivenUp
<1>2. \A u \in Clients : Waiting(u) /\ Taken(u) => Taken(u)'
  <2>1. \A u \in Clients : Waiting(u) /\ Taken(u) => cslot[u] \in Slots \ {idx}
    BY <1>t, <1>1 DEF Taken, CallCore, SlotOfCall, TypeOK
  <2>. QED
    BY <1>t, <1>1, <2>1 DEF Taken, TypeOK
<1>3. OthersAreQuiet'
  BY <1>1 DEF CallCore, OthersAreQuiet
<1>4. CallsAreInAStage'
  BY <1>1, <1>2 DEF CallCore, CallsAreInAStage, Stage, Asked, Answering, Answered
<1>5. AnswersACall' /\ SlotsDiffer' /\ AnswersAreTrue'
  BY <1>1 DEF CallCore, AnswersACall, SlotsDiffer, Busy, AnswersAreTrue
<1>6. SlotOfCall'
  BY <1>t, <1>1 DEF CallCore, SlotOfCall, TypeOK
<1>7. RoundIsSane'
  BY <1>1 DEF RoundIsSane
<1>8. ASSUME NEW s \in readSet
      PROVE  \E u \in Clients : Waiting(u)' /\ Taken(u)' /\ s = csd'[u] /\ cslot'[u] < idx'
  <2>1. PICK u \in Clients : Waiting(u) /\ Taken(u) /\ s = csd[u] /\ cslot[u] < idx
    BY <1>1, <1>8 DEF ReadSetIsOfCalls
  <2>2. cslot[u] \in Slots
    BY <1>t DEF TypeOK
  <2>. QED
    BY <1>1, <1>2, <2>1, <2>2
<1>9. ReadSetIsOfCalls'
  BY <1>1, <1>8 DEF ReadSetIsOfCalls
<1>. QED
  BY <1>3, <1>4, <1>5, <1>6, <1>7, <1>9 DEF CallCore

\* The remaining steps of run() touch neither the pool nor a call.
LEMMA QuietRunCore ==
  ASSUME IInv, IInv', Core,
         MStart \/ MInvTake \/ MDecide \/ MSelect \/ MDelay \/ MSleep
  PROVE  Core'
<1> USE PoolAssumption
    DEF Core, Waiting, Slots, Running, Loop, pool, mlocals, mgr, client
<1>t. TypeOK /\ TypeOK'
  BY DEF IInv
<1>1. CallCore'
  BY <1>t, QuietStep DEF MStart, MInvTake, MDecide, MSelect, MDelay, MSleep
<1>2. RoundIsSane'
  <2>1. mtime' \in {mtime, now, 0} /\ now' = now
    BY DEF MStart, MInvTake, MDecide, MSelect, MDelay, MSleep
  <2>2. \/ mpc' \notin {"inv_take", "invalidate", "timeout", "signal"}
        \/ mpc = "inv_take" /\ sd' = sd /\ idx' = idx
    BY DEF MStart, MInvTake, MDecide, MSelect, MDelay, MSleep
  <2>. QED
    BY <1>t, <2>1, <2>2 DEF TypeOK, RoundIsSane
<1>3. UNCHANGED <<pool, client, ready>>
  BY DEF MStart, MInvTake, MDecide, MSelect, MDelay, MSleep
<1>4. \A u \in Clients : Waiting(u) /\ Taken(u) => Waiting(u)' /\ Taken(u)'
  BY <1>3 DEF Taken
<1>5. CASE MStart \/ MInvTake
  BY <1>1, <1>2, <1>3, <1>4, <1>5 DEF MStart, MInvTake, ReadSetIsOfCalls
<1>6. CASE MDecide
  <2>1. CASE readSet' = readSet /\ mpc' = "select" /\ mpc = "scan"
    BY <1>1, <1>2, <1>3, <1>4, <2>1 DEF ReadSetIsOfCalls
  <2>2. CASE readSet' = {} /\ mpc' \in {"start", "sleep"}
    BY <1>1, <1>2, <2>2 DEF ReadSetIsOfCalls
  <2>. QED
    BY <1>6, <2>1, <2>2 DEF MDecide
<1>7. CASE MSelect
  <2>1. CASE readSet' = {} /\ mpc' \in {"delay", "start"}
    BY <1>1, <1>2, <2>1 DEF ReadSetIsOfCalls
  <2>2. CASE readSet' = readSet \cap ready /\ mpc' = "report" /\ mpc = "select"
    BY <1>1, <1>2, <1>3, <1>4, <2>2 DEF ReadSetIsOfCalls
  <2>. QED
    BY <1>7, <2>1, <2>2 DEF MSelect
<1>8. CASE MDelay \/ MSleep
  BY <1>1, <1>2, <1>8 DEF MDelay, MSleep, ReadSetIsOfCalls
<1>. QED
  BY <1>5, <1>6, <1>7, <1>8

\* Every step of run() preserves the invariant.
LEMMA RunCore ==
  ASSUME IInv, IInv', Core, Run
  PROVE  Core'
<1>1. CASE MTimeout
  BY <1>1, AnswerCore DEF MTimeout, Running
<1>2. CASE MSignal
  BY <1>2, AnswerCore DEF MSignal, Running
<1>. QED
  BY <1>1, <1>2, ScanCore, ReportCore, InvalidateCore, QuietRunCore DEF Run

\* So do suspensions and the tick.
LEMMA OthersCore ==
  ASSUME IInv, IInv', Core, Suspend \/ Resume \/ Tick \/ UNCHANGED vars
  PROVE  Core'
<1> USE PoolAssumption, TaskAssumption
    DEF Core, Waiting, Slots, Loop, pool, mlocals, mgr, client
<1>t. TypeOK /\ TypeOK'
  BY DEF IInv
<1>1. CASE UNCHANGED <<pool, mpc, mlocals, client, ready>> /\ now' \in {now, now + 1}
  <2>1. CallCore'
    BY <1>t, <1>1, QuietStep
  <2>2. RoundIsSane'
    BY <1>t, <1>1 DEF TypeOK, RoundIsSane
  <2>3. ReadSetIsOfCalls'
    BY <1>t, <1>1 DEF TypeOK, ReadSetIsOfCalls, Taken
  <2>. QED
    BY <2>1, <2>2, <2>3
<1>2. CASE /\ mpc \in {"sleep", "delay"} /\ Loop
           /\ UNCHANGED <<pool, client, now, ready>>
  <2>1. CallCore'
    BY <1>t, <1>2, QuietStep
  <2>2. RoundIsSane'
    BY <1>t, <1>2 DEF TypeOK, RoundIsSane
  <2>3. ReadSetIsOfCalls'
    BY <1>2 DEF ReadSetIsOfCalls
  <2>. QED
    BY <2>1, <2>2, <2>3
<1>. QED
  BY <1>1, <1>2 DEF Suspend, Resume, Tick, vars

\* Two calls that have shared a slot are never forgotten.
LEMMA SharedStays ==
  ASSUME [Next]_vars, shared
  PROVE  shared'
<1>1. ASSUME NEW t \in Clients, WaitRx(t) PROVE shared'
  BY <1>1, Zenon DEF WaitRx
<1>2. ASSUME NEW t \in Clients,
             Open(t) \/ Close(t) \/ Call(t) \/ DataArrives(t)
      PROVE  shared' = shared
  BY <1>2 DEF Open, Close, Call, DataArrives, ClaimTake, ClaimSet, ResetSignal,
              SendRequest, NotifyManager, TakeAnswer, Return
<1>3. ASSUME Run PROVE shared' = shared
  BY <1>3 DEF Run, MStart, MScan, MInvTake, MInvalidate, MTimeout, MDecide, MSelect,
              MReport, MSignal, MDelay, MSleep, Answer
<1>4. ASSUME Suspend \/ Resume \/ Tick \/ UNCHANGED vars PROVE shared' = shared
  BY <1>4 DEF Suspend, Resume, Tick, vars
<1>. QED
  BY <1>1, <1>2, <1>3, <1>4 DEF Next

\* The invariant is inductive, and holds.
THEOREM AnswersInvariant == Spec => []AInv
<1>1. IInv /\ IInv' /\ AInv /\ [Next]_vars => AInv'
  <2> SUFFICES ASSUME IInv, IInv', AInv, [Next]_vars, ~shared'
               PROVE  Core'
    BY DEF AInv
  <2>1. Core
    BY SharedStays DEF AInv
  <2>. QED
    BY <2>1, ClientCore, RunCore, OthersCore DEF Next
<1>. QED
  BY InitAInv, PoolInvariant, <1>1, PTL DEF Spec

\* What wait_rx returns is true, for any number of tasks that wait at the same
\* time: 1 only when its socket has data, 0 only when the deadline of this very
\* call is over.  No answer of run() to an earlier call, of the same or of a
\* closed socket, is taken for the answer to a later one, although the pool is
\* never told of a close.  The one thing that can break it is two calls in one
\* slot, which findFreeSocket allows.
THEOREM AnswersTruthful == Spec => []AnswersAreTruthful
<1>1. AInv => AnswersAreTruthful
  BY DEF AInv, Core, CallCore, AnswersAreTrue, AnswersAreTruthful
<1>. QED
  BY AnswersInvariant, <1>1, PTL

\* The send to rx_signal never blocks run(), for any number of callers: the
\* answer queue of the slot it answers is empty (connection.zig:245, 265).
THEOREM RunNeverBlocksOnAnswer == Spec => []AnswerQueueHasRoom
<1>1. AInv => AnswerQueueHasRoom
  BY DEF AInv, Core, CallCore, AnswersACall, Answering, AnswerQueueHasRoom
<1>. QED
  BY AnswersInvariant, <1>1, PTL

=============================================================================

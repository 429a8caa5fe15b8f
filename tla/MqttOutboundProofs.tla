-------------------------- MODULE MqttOutboundProofs -------------------------
(***************************************************************************)
(* Proofs about the messages that the client of MqttClient sends: the      *)
(* broker passes none on twice, and every acknowledgement finds the entry  *)
(* it is for.  Both hold for every size of txQueue and every bound on time *)
(* and failures.                                                           *)
(***************************************************************************)
EXTENDS MqttClientProofs

\* Everything about the publish of identifier i: packets on their way to the
\* broker, steps of the mqtt task, entries of qosQueue.
Pubs(i)       == {p \in Packet : p.type = "publish" /\ p.id = i}
Rels(i)       == {p \in Packet : p.type = "pubrel" /\ p.id = i}
PubSends(i)   == {s \in Todo : s.op = "prepare" /\ s.arg.type = "publish" /\ s.arg.id = i}
PubTracks(i)  == {s \in Todo : /\ s.op \in {"track", "tracked"}
                               /\ s.arg.type = "publish" /\ s.arg.id = i}
RelSteps(i)   == {s \in Todo : /\ s.op \in {"search", "prepare", "track", "tracked"}
                               /\ s.arg.type = "pubrel" /\ s.arg.id = i}
PubEntries(i) == {e \in Entry : e.type = "publish" /\ e.id = i}
RelEntries(i) == {e \in Entry : e.type = "pubrel" /\ e.id = i}

\* The entry that the next step takes out for good.
Leaves(k) == Head(todo).op = "acknowledged" /\ k = seen.at

\* The publish is still to be made by a callback.
Ahead(i) == (callback = "publish" /\ published = i) \/ published < i

\* The publish can be sent in the future.
Kept(i) ==
  \/ \E k \in 1..Len(qosQueue) : qosQueue[k] \in PubEntries(i) /\ ~Leaves(k)
  \/ ~Free(todo, PubTracks(i))
  \/ Ahead(i)

\* The client has not begun to release it.
NoRelease(i) ==
  /\ Free(toBroker, Rels(i)) /\ Free(txQueue, Rels(i))
  /\ Free(todo, RelSteps(i)) /\ Free(qosQueue, RelEntries(i))

\* No callback ran inside an update: what was read of qosQueue is all there is.
Current == Head(todo).op \in Looked => seen.len = Len(qosQueue)

\* It is tracked once.
OneEntry(i) ==
  /\ Once(qosQueue, PubEntries(i)) /\ Once(todo, PubTracks(i))
  /\ Free(qosQueue, PubEntries(i)) \/ Free(todo, PubTracks(i))
  /\ Ahead(i) => Free(qosQueue, PubEntries(i)) /\ Free(todo, PubTracks(i))

\* What is sent again is tracked again.
Sends(i) == Free(todo, PubSends(i)) \/ (~Free(todo, PubTracks(i)) /\ Free(Tail(todo), PubSends(i)))

\* On the way to the broker no publish follows a release.
InOrder(q, i) == \A j, k \in 1..Len(q) : q[j] \in Rels(i) /\ q[k] \in Pubs(i) => k < j
Order(i) ==
  /\ InOrder(toBroker, i) /\ InOrder(txQueue, i)
  /\ Free(toBroker, Rels(i)) \/ Free(txQueue, Pubs(i))

\* When the broker has passed it on, no publish is on its way.
Passed(i) ==
  /\ forwarded[i] \in {0, 1}
  /\ forwarded[i] = 1 => /\ Free(toBroker, Pubs(i)) /\ Free(txQueue, Pubs(i))
                         /\ i \notin stored

NotYet(i) == Kept(i) => NoRelease(i) /\ forwarded[i] = 0

Handshake(i) == OneEntry(i) /\ Sends(i) /\ Order(i) /\ Passed(i) /\ NotYet(i)
FInv == ~raced => Current /\ \A i \in Ids : Handshake(i)

-----------------------------------------------------------------------------
(* Packets in order *)

\* r holds no release and no publish that q does not, and in the same order.
Fewer(r, q, i) ==
  /\ NoMore(r, q, Pubs(i)) /\ NoMore(r, q, Rels(i))
  /\ InOrder(q, i) => InOrder(r, i)

LEMMA SameIsFewer == ASSUME NEW q, NEW i PROVE Fewer(q, q, i)
BY SameIsNoMore DEF Fewer

LEMMA EmptyIsFewer == ASSUME NEW q, NEW i PROVE Fewer(<<>>, q, i)
BY EmptyIsFree DEF Fewer, NoMore, InOrder

LEMMA TailIsFewer ==
  ASSUME NEW T, NEW q \in Seq(T), q # <<>>, NEW i
  PROVE  /\ Fewer(Tail(q), q, i)
         /\ InOrder(q, i) /\ Head(q) \in Rels(i) => Free(Tail(q), Pubs(i))
<1> DEFINE t == Tail(q)
<1>1. /\ Len(q) \in Nat \ {0} /\ Len(t) = Len(q) - 1 /\ Head(q) = q[1]
      /\ \A k \in 1..Len(t) : t[k] = q[k + 1]
  BY TailIsSeq
<1>2. NoMore(t, q, Pubs(i)) /\ NoMore(t, q, Rels(i))
  BY FewerInTail
<1> HIDE DEF t
<1>3. \A k \in 1..Len(t) : k + 1 \in 1..Len(q) /\ k + 1 > 1 /\ k \in Int
  BY <1>1
<1>4. ASSUME InOrder(q, i), NEW j \in 1..Len(t), NEW k \in 1..Len(t), t[j] \in Rels(i),
             t[k] \in Pubs(i)
      PROVE  k < j
  <2>1. q[j + 1] \in Rels(i) /\ q[k + 1] \in Pubs(i)
    BY <1>1, <1>4
  <2>2. k + 1 < j + 1
    BY <1>3, <1>4, <2>1 DEF InOrder
  <2>. QED
    BY <1>3, <2>2
<1>5. ASSUME InOrder(q, i), Head(q) \in Rels(i), NEW k \in 1..Len(t), t[k] \in Pubs(i)
      PROVE  FALSE
  <2>1. q[1] \in Rels(i) /\ q[k + 1] \in Pubs(i) /\ 1 \in 1..Len(q)
    BY <1>1, <1>5
  <2>2. k + 1 < 1
    BY <1>3, <1>5, <2>1 DEF InOrder
  <2>. QED
    BY <1>3, <2>2
<1>6. Fewer(t, q, i)
  BY <1>2, <1>4 DEF Fewer, InOrder, t
<1>7. InOrder(q, i) /\ Head(q) \in Rels(i) => Free(t, Pubs(i))
  BY <1>5 DEF Free
<1>. QED
  BY <1>6, <1>7 DEF t

LEMMA AppendInOrder ==
  ASSUME NEW T, NEW q \in Seq(T), NEW e \in T, NEW i
  PROVE  /\ e \notin Pubs(i) /\ InOrder(q, i) => InOrder(Append(q, e), i)
         /\ e \notin Rels(i) /\ Free(q, Rels(i)) => InOrder(Append(q, e), i)
         /\ e \notin Pubs(i) /\ e \notin Rels(i) => Fewer(Append(q, e), q, i)
<1> DEFINE r == Append(q, e)
<1>1. /\ Len(q) \in Nat /\ Len(r) = Len(q) + 1 /\ r[Len(q) + 1] = e
      /\ \A k \in 1..Len(q) : r[k] = q[k]
  BY AppendProperties, LenProperties
<1>2. e \notin Pubs(i) /\ e \notin Rels(i) => NoMore(r, q, Pubs(i)) /\ NoMore(r, q, Rels(i))
  BY MoreInAppend
<1> HIDE DEF r
<1>3. \A k \in 1..Len(r) : k \in 1..Len(q) \/ (k = Len(q) + 1 /\ r[k] = e)
  BY <1>1
<1>4. ASSUME e \notin Pubs(i), InOrder(q, i), NEW j \in 1..Len(r), NEW k \in 1..Len(r),
             r[j] \in Rels(i), r[k] \in Pubs(i)
      PROVE  k < j
  <2>1. k \in 1..Len(q) /\ q[k] \in Pubs(i)
    BY <1>1, <1>3, <1>4
  <2>2. CASE j \in 1..Len(q)
    BY <1>1, <1>4, <2>1, <2>2 DEF InOrder
  <2>3. CASE j = Len(q) + 1
    BY <1>1, <2>1, <2>3
  <2>. QED
    BY <1>3, <2>2, <2>3
<1>5. ASSUME e \notin Rels(i), Free(q, Rels(i)), NEW j \in 1..Len(r), r[j] \in Rels(i)
      PROVE  FALSE
  BY <1>1, <1>3, <1>5 DEF Free
<1>6. (e \notin Pubs(i) /\ InOrder(q, i)) \/ (e \notin Rels(i) /\ Free(q, Rels(i)))
        => InOrder(r, i)
  BY <1>4, <1>5 DEF InOrder
<1>7. e \notin Pubs(i) /\ e \notin Rels(i) => Fewer(r, q, i)
  BY <1>2, <1>6 DEF Fewer, r
<1>. QED
  BY <1>6, <1>7 DEF r

LEMMA RelIsNoPub ==
  ASSUME NEW i, NEW j, NEW p
  PROVE  /\ p \in Rels(i) => p \notin Pubs(j)
         /\ p \in Rels(i) /\ p \in Rels(j) => i = j
         /\ p \in Pubs(i) /\ p \in Pubs(j) => i = j
BY DEF Pubs, Rels

-----------------------------------------------------------------------------
(* What a step may leave alone *)

LEMMA EntryStep ==
  ASSUME NEW i, OneEntry(i), NoMore(qosQueue', qosQueue, PubEntries(i)),
         NoMore(todo', todo, PubTracks(i)), Ahead(i)' => Ahead(i)
  PROVE  OneEntry(i)'
BY ZenonT(30) DEF OneEntry, NoMore

LEMMA OrderStep ==
  ASSUME NEW i, Order(i), Fewer(txQueue', txQueue, i), Fewer(toBroker', toBroker, i)
  PROVE  Order(i)'
BY ZenonT(30) DEF Order, Fewer, NoMore

LEMMA PassedStep ==
  ASSUME NEW i, Passed(i), NoMore(txQueue', txQueue, Pubs(i)), NoMore(toBroker', toBroker, Pubs(i)),
         forwarded'[i] = forwarded[i], i \in stored' => i \in stored
  PROVE  Passed(i)'
BY DEF Passed, NoMore

LEMMA NotYetStep ==
  ASSUME NEW i, NotYet(i), Kept(i)' => Kept(i), forwarded'[i] = forwarded[i],
         NoMore(txQueue', txQueue, Rels(i)), NoMore(toBroker', toBroker, Rels(i)),
         NoMore(todo', todo, RelSteps(i)), NoMore(qosQueue', qosQueue, RelEntries(i))
  PROVE  NotYet(i)'
<1>1. NoRelease(i) => NoRelease(i)'
  BY DEF NoRelease, NoMore
<1>. QED
  BY <1>1 DEF NotYet

LEMMA KeptStep ==
  ASSUME NEW i, NoMore(todo', todo, PubTracks(i)), Ahead(i)' => Ahead(i),
         \A k \in 1..Len(qosQueue') : qosQueue'[k] \in PubEntries(i) =>
           \/ Leaves(k)'
           \/ \E j \in 1..Len(qosQueue) : qosQueue[j] \in PubEntries(i) /\ ~Leaves(j)
  PROVE  Kept(i)' => Kept(i)
BY DEF Kept, NoMore

-----------------------------------------------------------------------------
(* Steps that neither send nor track a publish or its release *)

Idle == {s \in Todo : /\ s.op \notin {"search", "track", "tracked"}
                      /\ s.op = "prepare" => s.arg.type \notin {"publish", "pubrel"}}

LEMMA IdleIsFree ==
  ASSUME NEW s \in Seq(Idle), NEW i
  PROVE  /\ Free(s, PubSends(i)) /\ Free(s, PubTracks(i)) /\ Free(s, RelSteps(i))
         /\ s \in Seq(Todo)
<1>1. \A k \in 1..Len(s) : s[k] \in Idle
  BY ElementOfSeq
<1>2. s \in Seq(Todo)
  BY SeqMonotonic DEF Idle
<1>. QED
  BY <1>1, <1>2 DEF Free, Idle, PubSends, PubTracks, RelSteps

LEMMA IdleSteps ==
  /\ \A op \in Ops \ {"prepare", "search", "track", "tracked", "hold", "deliver"} :
       Step(op) \in Idle /\ Step(op).op = op
  /\ \A type \in Types \ {"publish", "pubrel", "pingreq", "pingresp"}, id \in Numbers :
       With("prepare", P(type, id)) \in Idle /\ With("prepare", P(type, id)).op = "prepare"
  /\ \A p \in Packet : p.msg \in Messages =>
       /\ With("hold", p) \in Idle /\ With("hold", p).op = "hold"
       /\ With("deliver", p) \in Idle /\ With("deliver", p).op = "deliver"
<1>1. ASSUME NEW op \in Ops \ {"prepare", "search", "track", "tracked", "hold", "deliver"}
      PROVE  Step(op) \in Idle /\ Step(op).op = op
  BY PlainSteps, PlainTodo DEF Idle
<1>2. ASSUME NEW type \in Types \ {"publish", "pubrel", "pingreq", "pingresp"}, NEW id \in Numbers
      PROVE  With("prepare", P(type, id)) \in Idle /\ With("prepare", P(type, id)).op = "prepare"
  <2>1. With("prepare", P(type, id)) \in Todo
    BY PlainSteps, PlainTodo
  <2>. QED
    BY <2>1 DEF Idle, With, P
<1>3. ASSUME NEW p \in Packet, p.msg \in Messages
      PROVE  /\ With("hold", p) \in Idle /\ With("hold", p).op = "hold"
             /\ With("deliver", p) \in Idle /\ With("deliver", p).op = "deliver"
  BY <1>3 DEF Idle, Todo, With, Ops
<1>. QED
  BY <1>1, <1>2, <1>3

LEMMA IdleSeqs ==
  ASSUME NEW a \in Idle, NEW b \in Idle, NEW c \in Idle, NEW d \in Idle
  PROVE  /\ <<a>> \in Seq(Idle) /\ <<a, b>> \in Seq(Idle) /\ <<a, b, c>> \in Seq(Idle)
         /\ <<a, b, c, d>> \in Seq(Idle)
OBVIOUS

LEMMA ConcatIdle ==
  ASSUME NEW s \in Seq(Idle), NEW q \in Seq(Idle)
  PROVE  s \o q \in Seq(Idle)
BY ConcatProperties

LEMMA LoopIsIdle == Loop \in Seq(Idle) /\ Reopen \in Seq(Idle)
<1>1. Step("prune") \in Idle /\ Step("close") \in Idle /\ Step("open") \in Idle
  BY IdleSteps DEF Ops
<1>. QED
  BY <1>1, IdleSeqs DEF Loop, Reopen

LEMMA DisconnectIsIdle == Disconnect \in Seq(Idle)
<1> DEFINE a == Step("stop")  b == With("prepare", P("disconnect", 0))  c == Step("last_flush")
<1>1. a \in Idle /\ b \in Idle /\ c \in Idle
  BY IdleSteps, NumbersType DEF Ops, Types
<1>2. Disconnect = <<a, b, c>> \o Reopen
  BY DEF Disconnect
<1> HIDE DEF a, b, c
<1>. QED
  BY <1>1, <1>2, IdleSeqs, ConcatIdle, LoopIsIdle

LEMMA ConnectIsIdle == Connect \in Seq(Idle)
<1> DEFINE a == With("prepare", P("connect", 0))  b == Step("flush")  c == Step("connack")
           d == With("prepare", P("subscribe", 0))  f == Step("suback")
           g == Step("start")
<1>1. a \in Idle /\ b \in Idle /\ c \in Idle /\ d \in Idle /\ f \in Idle /\ g \in Idle
  BY IdleSteps, NumbersType DEF Ops, Types
<1>2. Connect = <<a, b, c, d, b, f, g>> \o Loop
  BY DEF Connect
<1> HIDE DEF a, b, c, d, f, g
<1>3. <<a, b, c, d, b, f, g>> \in Seq(Idle)
  BY <1>1
<1>. QED
  BY <1>2, <1>3, ConcatIdle, LoopIsIdle

\* How such a step changes todo: not at all, by its end, by new idle steps.
Puts(s) ==
  /\ s \in Seq(Idle) /\ s # <<>> /\ Then(s)
  /\ \/ s[1].op \notin Looked
     \/ (Prune \/ Search \/ ReceivePubcomp) /\ (\E at : Look(at))
IdleMove ==
  \/ UNCHANGED <<todo, seen>>
  \/ Head(todo).op # "acknowledged" /\ Head(todo).op \notin Ends /\ Continue
  \/ Head(todo).op # "acknowledged" /\ Fail
  \/ Head(todo).op # "acknowledged" /\ todo' = Connect
  \/ Head(todo).op # "acknowledged" /\ \E s : Puts(s)

\* What comes after steps that are put in front.
LEMMA ThenLess ==
  ASSUME TInv, NEW s \in Seq(Todo), s # <<>>, Then(s), NEW S, Free(s, S)
  PROVE  /\ NoMore(todo', todo, S) /\ Head(todo') = s[1]
         /\ Free(Tail(todo), S) => Free(todo', S)
<1> DEFINE t == Tail(todo)
<1>1. t \in Seq(Todo) /\ NoMore(t, todo, S)
  BY HeadOfTodo, TailIsSeq, FewerInTail DEF TInv, TodoOK
<1>2. todo' = s \o t
  BY DEF Then
<1> HIDE DEF t
<1>3. NoMore(s \o t, t, S)
  BY <1>1, MoreInFront
<1>4. Len(s) \in Nat \ {0} /\ Len(t) \in Nat
  BY <1>1, EmptySeq, LenProperties
<1>5. 1 \in 1..(Len(s) + Len(t)) /\ 1 <= Len(s)
  BY <1>4
<1>6. (s \o t)[1] = s[1] /\ s \o t \in Seq(Todo) /\ Len(s \o t) = Len(s) + Len(t)
  BY <1>1, <1>5, ConcatProperties
<1>7. s \o t # <<>>
  BY <1>4, <1>6, EmptySeq
<1>8. Head(todo') = s[1]
  BY <1>2, <1>6, <1>7, TailIsSeq
<1>. QED
  BY <1>1, <1>2, <1>3, <1>8 DEF NoMore, t

LEMMA FreshTodo ==
  ASSUME NEW s \in Seq(Idle), todo' = s, NEW i
  PROVE  /\ NoMore(todo', todo, PubTracks(i)) /\ NoMore(todo', todo, RelSteps(i))
         /\ Free(todo', PubSends(i))
BY IdleIsFree, FreeIsOnce DEF NoMore

LEMMA PassTodo ==
  ASSUME TInv, Continue, NEW i, Sends(i)
  PROVE  /\ NoMore(todo', todo, PubTracks(i)) /\ NoMore(todo', todo, RelSteps(i))
         /\ Free(todo', PubSends(i))
<1>1. todo \in Seq(Todo) /\ todo # <<>>
  BY HeadOfTodo DEF TInv, TodoOK
<1>. QED
  BY <1>1, FewerInTail DEF Continue, Sends, NoMore

\* An idle move adds nothing about i.
LEMMA IdleTodo ==
  ASSUME TInv, IdleMove, NEW i, Sends(i)
  PROVE  /\ NoMore(todo', todo, PubTracks(i)) /\ NoMore(todo', todo, RelSteps(i))
         /\ Sends(i)'
<1>1. CASE UNCHANGED <<todo, seen>>
  BY <1>1, SameIsNoMore DEF Sends
<1>2. CASE Continue
  BY <1>2, PassTodo DEF Sends
<1>3. CASE Fail
  BY <1>3, FreshTodo, LoopIsIdle, DisconnectIsIdle DEF Fail, Sends
<1>4. CASE todo' = Connect
  BY <1>4, FreshTodo, ConnectIsIdle DEF Sends
<1>5. ASSUME NEW s, Puts(s)
      PROVE  /\ NoMore(todo', todo, PubTracks(i)) /\ NoMore(todo', todo, RelSteps(i))
             /\ Sends(i)'
  <2>1. s \in Seq(Todo) /\ s # <<>> /\ Then(s) /\ Free(s, PubSends(i)) /\ Free(s, PubTracks(i))
        /\ Free(s, RelSteps(i))
    BY <1>5, IdleIsFree DEF Puts
  <2>2. Free(Tail(todo), PubSends(i))
    BY HeadOfTodo, FewerInTail DEF TInv, TodoOK, Sends, NoMore
  <2>. QED
    BY <2>1, <2>2, ThenLess DEF Sends
<1>. QED
  BY <1>1, <1>2, <1>3, <1>4, <1>5 DEF IdleMove

\* Nor does it make an entry that was leaving stay.
LEMMA IdleKept ==
  ASSUME TInv, IdleMove, NEW i, Sends(i), UNCHANGED qosQueue, Ahead(i)' => Ahead(i)
  PROVE  Kept(i)' => Kept(i)
<1>1. NoMore(todo', todo, PubTracks(i))
  BY IdleTodo
<1>2. CASE UNCHANGED <<todo, seen>>
  <2>1. \A k : Leaves(k)' <=> Leaves(k)
    BY <1>2 DEF Leaves
  <2>. QED
    BY <1>1, <2>1, KeptStep
<1>3. CASE Head(todo).op # "acknowledged"
  <2>1. \A k : ~Leaves(k)
    BY <1>3 DEF Leaves
  <2>. QED
    BY <1>1, <2>1, KeptStep
<1>. QED
  BY <1>2, <1>3 DEF IdleMove

\* What is read anew is all there is.
LEMMA IdleCurrent ==
  ASSUME TInv, IdleMove, Current, UNCHANGED qosQueue
  PROVE  Current'
<1>1. CASE UNCHANGED <<todo, seen>>
  BY <1>1 DEF Current
<1>2. CASE Head(todo).op \notin Ends /\ Continue
  BY <1>2, ContinueTodo DEF Current, TInv
<1>3. CASE Fail
  BY <1>3, FailTodo DEF Current
<1>4. CASE todo' = Connect
  <2>1. Connect[1].op \notin Looked
    BY PlainSteps DEF Connect, Loop, Looked, Ops, With
  <2>. QED
    BY <1>4, <2>1, NewTodo, ConnectIsPlain, PlainIsTodo DEF Current
<1>5. ASSUME NEW s, Puts(s)
      PROVE  Current'
  <2>1. CASE \E at : Look(at)
    BY <2>1 DEF Look, Current
  <2>2. CASE s[1].op \notin Looked
    <3>1. Head(todo') = s[1]
      <4>1. s \in Seq(Todo) /\ s # <<>> /\ Then(s) /\ Free(s, {})
        BY <1>5, IdleIsFree DEF Puts, Free
      <4>. QED
        BY <4>1, ThenLess
    <3>. QED
      BY <2>2, <3>1 DEF Current
  <2>. QED
    BY <1>5, <2>1, <2>2 DEF Puts
<1>. QED
  BY <1>1, <1>2, <1>3, <1>4, <1>5 DEF IdleMove

LEMMA TaskIsIdle ==
  ASSUME TInv,
         \/ Open \/ OpenFails \/ AwaitConnack \/ AwaitSuback \/ AwaitTimesOut \/ StartTimers
         \/ StopTimers \/ Close \/ Flush \/ Prune \/ PruneHeld \/ Search \/ PollTimesOut
         \/ ReceivePublish \/ Hold \/ Deliver \/ ReceivePubrel \/ ReceivePubcomp
         \/ ReceivePingresp \/ ReceiveLate
  PROVE  IdleMove
<1>0. /\ Step("pruned") \in Idle /\ Step("prune_held") \in Idle /\ Step("flush") \in Idle
      /\ Poll \in Idle /\ Step("acknowledged") \in Idle
      /\ Step("prune_held").op \notin Looked /\ Step("flush").op \notin Looked
      /\ Poll.op \notin Looked
  BY IdleSteps DEF Ops, Poll, Looked
<1>1. CASE Open \/ OpenFails
  BY <1>1 DEF Open, OpenFails, At, IdleMove
<1>2. CASE AwaitConnack \/ AwaitSuback \/ AwaitTimesOut \/ StartTimers \/ StopTimers \/ Close
  <2>1. /\ Head(todo).op \in {"connack", "suback", "start", "stop", "close"}
        /\ Continue \/ Fail
    BY <1>2 DEF AwaitConnack, AwaitSuback, AwaitTimesOut, StartTimers, StopTimers, Close, At
  <2>. QED
    BY <2>1 DEF IdleMove, Ends
<1>3. CASE Flush \/ Hold \/ Deliver
  <2>1. /\ Head(todo).op \in {"flush", "last_flush", "hold", "deliver"}
        /\ Continue \/ Fail \/ UNCHANGED <<todo, seen>>
    BY <1>3 DEF Flush, Hold, Deliver, At
  <2>. QED
    BY <2>1 DEF IdleMove, Ends
<1>4. CASE Prune
  <2>1. <<Step("pruned")>> \o Loop \in Seq(Idle)
    BY <1>0, IdleSeqs, ConcatIdle, LoopIsIdle
  <2>2. <<Step("pruned")>> \o Loop # <<>>
    BY DEF Loop
  <2>3. Head(todo).op = "prune" /\ Then(<<Step("pruned")>> \o Loop) /\ \E at : Look(at)
    BY <1>4 DEF Prune, At
  <2>. QED
    BY <1>4, <2>1, <2>2, <2>3 DEF IdleMove, Puts
<1>5. CASE PruneHeld
  <2>1. /\ Head(todo).op \in {"prune", "prune_held"}
        /\ Then(<<Step("prune_held")>>) \/ Then(<<Step("flush"), Poll>>)
    BY <1>5 DEF PruneHeld, At, Poll
  <2>2. <<Step("prune_held")>> \in Seq(Idle) /\ <<Step("flush"), Poll>> \in Seq(Idle)
    BY <1>0, IdleSeqs
  <2>3. Puts(<<Step("prune_held")>>) \/ Puts(<<Step("flush"), Poll>>)
    BY <1>0, <2>1, <2>2 DEF Puts
  <2>4. Head(todo).op # "acknowledged"
    BY <2>1
  <2>. QED
    BY <2>3, <2>4 DEF IdleMove
<1>6. CASE Search
  <2>1. Head(todo).op = "search"
    BY <1>6 DEF Search, At
  <2>2. CASE Continue
    BY <2>1, <2>2 DEF IdleMove, Ends
  <2>3. CASE Then(<<Step("acknowledged")>>) /\ \E at : Look(at)
    BY <1>0, <1>6, <2>1, <2>3, IdleSeqs DEF IdleMove, Puts
  <2>. QED
    BY <1>6, <2>2, <2>3 DEF Search
<1>7. CASE PollTimesOut
  <2>1. Loop \in Seq(Idle) /\ Loop # <<>> /\ Loop[1].op \notin Looked
    BY LoopIsIdle, LoopStarts DEF Loop
  <2>2. Head(todo).op = "poll" /\ Then(Loop)
    BY <1>7 DEF PollTimesOut, At
  <2>. QED
    BY <2>1, <2>2 DEF IdleMove, Puts
<1>8. CASE ReceivePublish
  <2>1. PICK p \in Incoming :
        /\ Receive(p) /\ p.type = "publish"
        /\ \/ Then(<<With("prepare", P("pubrec", p.id)), With("hold", p), Poll>>)
           \/ Then(<<With("prepare", P("puback", p.id)), Step("flush"), With("deliver", p), Poll>>)
    BY <1>8 DEF ReceivePublish
  <2>2. p \in Packet /\ p.msg \in Messages /\ p.id \in Numbers /\ Head(todo).op = "poll"
    BY <2>1, IncomingType DEF Downlink, Packet, Receive, At
  <2> DEFINE a == With("prepare", P("pubrec", p.id))  b == With("prepare", P("puback", p.id))
             c == Step("flush")  d == With("deliver", p)  e == With("hold", p)
  <2>3. a \in Idle /\ b \in Idle /\ a.op = "prepare" /\ b.op = "prepare"
    BY <2>2, IdleSteps DEF Types
  <2>4. d \in Idle /\ e \in Idle /\ c \in Idle
    BY <1>0, <2>2, IdleSteps
  <2>5. Then(<<a, e, Poll>>) \/ Then(<<b, c, d, Poll>>)
    BY <2>1
  <2> HIDE DEF a, b, c, d, e
  <2>6. <<a, e, Poll>> \in Seq(Idle) /\ <<b, c, d, Poll>> \in Seq(Idle)
    BY <1>0, <2>3, <2>4, IdleSeqs
  <2>7. Puts(<<a, e, Poll>>) \/ Puts(<<b, c, d, Poll>>)
    BY <2>3, <2>5, <2>6 DEF Puts, Looked
  <2>. QED
    BY <2>2, <2>7 DEF IdleMove
<1>9. CASE ReceivePubrel
  <2>1. PICK p \in Incoming :
        /\ Receive(p) /\ p.type = "pubrel"
        /\ LET Under == {k \in DOMAIN qos2Queue : qos2Queue[k].id = p.id}
           IN  \/ /\ Under # {}
                  /\ Then(<<With("prepare", P("pubcomp", p.id)), Step("flush"),
                            With("deliver", [p EXCEPT !.msg = qos2Queue[FirstOf(Under)].msg]),
                            Poll>>)
               \/ Then(<<Poll>>)
    BY <1>9 DEF ReceivePubrel
  <2>2. p \in Packet /\ p.id \in Numbers /\ Head(todo).op = "poll"
    BY <2>1, IncomingType DEF Packet, Receive, At
  <2>3. CASE Then(<<Poll>>)
    <3>1. Puts(<<Poll>>)
      BY <1>0, <2>3, IdleSeqs DEF Puts
    <3>. QED
      BY <2>2, <3>1 DEF IdleMove
  <2>4. ASSUME NEW Under, Under = {k \in DOMAIN qos2Queue : qos2Queue[k].id = p.id}, Under # {},
               Then(<<With("prepare", P("pubcomp", p.id)), Step("flush"),
                      With("deliver", [p EXCEPT !.msg = qos2Queue[FirstOf(Under)].msg]), Poll>>)
        PROVE  IdleMove
    <3> DEFINE a == With("prepare", P("pubcomp", p.id))  b == Step("flush")
               q == [p EXCEPT !.msg = qos2Queue[FirstOf(Under)].msg]
               c == With("deliver", q)
    <3>1. qos2Queue[FirstOf(Under)].msg \in Messages
      BY <2>4, HeldIsHeld DEF Held
    <3>2. q \in Packet /\ q.msg \in Messages
      BY <2>2, <3>1 DEF Packet
    <3> HIDE DEF q
    <3>3. a \in Idle /\ b \in Idle /\ a.op = "prepare"
      BY <1>0, <2>2, IdleSteps DEF Types
    <3>4. c \in Idle
      BY <3>2, IdleSteps
    <3>5. Then(<<a, b, c, Poll>>)
      BY <2>4 DEF q
    <3> HIDE DEF a, b, c
    <3>6. <<a, b, c, Poll>> \in Seq(Idle)
      BY <1>0, <3>3, <3>4, IdleSeqs
    <3>7. Puts(<<a, b, c, Poll>>)
      BY <3>3, <3>5, <3>6 DEF Puts, Looked
    <3>. QED
      BY <2>2, <3>7 DEF IdleMove
  <2>. QED
    BY <2>1, <2>3, <2>4
<1>10. CASE ReceivePubcomp \/ ReceivePingresp \/ ReceiveLate
  <2>1. /\ Head(todo).op = "poll"
        /\ \/ ReceivePubcomp /\ Then(<<Step("acknowledged"), Poll>>) /\ \E at : Look(at)
           \/ Then(<<Poll>>)
           \/ Fail
    BY <1>10 DEF ReceivePubcomp, ReceivePingresp, ReceiveLate, Receive, At
  <2>2. <<Step("acknowledged"), Poll>> \in Seq(Idle) /\ <<Poll>> \in Seq(Idle)
    BY <1>0, IdleSeqs
  <2>3. \/ Puts(<<Step("acknowledged"), Poll>>) \/ Puts(<<Poll>>) \/ Fail
    BY <1>0, <2>1, <2>2 DEF Puts
  <2>. QED
    BY <2>1, <2>3 DEF IdleMove
<1>. QED
  BY <1>1, <1>2, <1>3, <1>4, <1>5, <1>6, <1>7, <1>8, <1>9, <1>10

-----------------------------------------------------------------------------
(* Steps that change neither qosQueue nor the way to the broker *)

\* The message may be forgotten by the broker, nothing else happens to it.
LEMMA IdleHandshake ==
  ASSUME TInv, NEW i, Handshake(i), IdleMove, UNCHANGED qosQueue, forwarded'[i] = forwarded[i],
         Fewer(txQueue', txQueue, i), Fewer(toBroker', toBroker, i), Ahead(i)' => Ahead(i),
         i \in stored' => i \in stored
  PROVE  Handshake(i)'
<1>1. /\ NoMore(todo', todo, PubTracks(i)) /\ NoMore(todo', todo, RelSteps(i)) /\ Sends(i)'
      /\ Kept(i)' => Kept(i)
  BY IdleTodo, IdleKept DEF Handshake
<1>3. OneEntry(i)'
  BY <1>1, EntryStep, SameIsNoMore DEF Handshake
<1>4. Order(i)'
  BY OrderStep DEF Handshake
<1>5. Passed(i)'
  BY PassedStep DEF Handshake, Fewer
<1>6. NotYet(i)'
  BY <1>1, NotYetStep, SameIsNoMore DEF Handshake, Fewer
<1>. QED
  BY <1>1, <1>3, <1>4, <1>5, <1>6 DEF Handshake

LEMMA SameHandshake ==
  ASSUME TInv, NEW i, Handshake(i),
         UNCHANGED <<qosQueue, forwarded, txQueue, toBroker, stored>>, IdleMove,
         Ahead(i)' => Ahead(i)
  PROVE  Handshake(i)'
<1>1. UNCHANGED txQueue /\ UNCHANGED toBroker /\ UNCHANGED qosQueue /\ UNCHANGED forwarded
  OBVIOUS
<1>. QED
  BY <1>1, IdleHandshake, SameIsFewer

-----------------------------------------------------------------------------
(* What is taken from qosQueue and what is put there *)

\* Without a callback in between, what is taken out is the entry that was read.
LEMMA RemoveExact ==
  ASSUME TInv, Current, Head(todo).op \in {"pruned", "acknowledged"}
  PROVE  /\ seen.at \in 1..Len(qosQueue) /\ Removed = qosQueue[seen.at]
         /\ OrderedRemove = RemoveAt(qosQueue, seen.at)
         /\ qosQueue \in Seq(Entry) /\ Len(qosQueue) \in Nat
<1> DEFINE n == Len(qosQueue)
<1>1. qosQueue \in Seq(Entry) /\ n \in Nat /\ seen.len = n /\ seen.at \in 1..n
  BY LenProperties DEF TInv, LookOK, Current, Looked
<1>2. SubSeq(qosQueue, 1, n) = qosQueue
  <2>1. /\ SubSeq(qosQueue, 1, n) \in Seq(Entry) /\ Len(SubSeq(qosQueue, 1, n)) = n
        /\ \A k \in 1..n : SubSeq(qosQueue, 1, n)[k] = qosQueue[k]
    BY <1>1, PrefixIsSeq
  <2>. QED
    BY <1>1, <2>1, SeqEqual
<1>3. seen.at = n => RemoveAt(qosQueue, seen.at) = Front(qosQueue)
  <2>1. SubSeq(qosQueue, n + 1, n) = <<>>
    BY <1>1, SubSeqProperties, EmptySeq
  <2>2. SubSeq(qosQueue, 1, n - 1) \in Seq(Entry)
    <3>1. n >= 1 => n - 1 \in 0..n
      BY <1>1
    <3>. QED
      BY <1>1, <3>1, PrefixIsSeq
  <2>. QED
    BY <1>1, <2>1, <2>2, ConcatEmptySeq DEF RemoveAt, Front
<1>4. Removed = qosQueue[seen.at]
  BY <1>1 DEF Removed, Last
<1>. QED
  BY <1>1, <1>2, <1>3, <1>4 DEF OrderedRemove

LEMMA TrackExact ==
  ASSUME TInv, Current, Tracked
  PROVE  qosQueue' = Append(qosQueue, [type |-> Arg.type, id |-> Arg.id, due |-> FALSE])
<1> DEFINE n == Len(qosQueue)
<1>1. qosQueue \in Seq(Entry) /\ n \in Nat /\ seen.len = n
  BY LenProperties DEF TInv, LookOK, Current, Looked, Tracked, At
<1>2. /\ SubSeq(qosQueue, 1, n) \in Seq(Entry) /\ Len(SubSeq(qosQueue, 1, n)) = n
      /\ \A k \in 1..n : SubSeq(qosQueue, 1, n)[k] = qosQueue[k]
  BY <1>1, PrefixIsSeq
<1>3. SubSeq(qosQueue, 1, n) = qosQueue
  BY <1>1, <1>2, SeqEqual
<1>. QED
  BY <1>1, <1>3 DEF Tracked

\* With an entry taken out, no entry of i stays that was leaving.
LEMMA StaysInRest ==
  ASSUME TInv, Current, Head(todo).op \in {"pruned", "acknowledged"}, qosQueue' = OrderedRemove,
         NEW i, NEW k \in 1..Len(qosQueue'), qosQueue'[k] \in PubEntries(i)
  PROVE  \E j \in 1..Len(qosQueue) : qosQueue[j] \in PubEntries(i) /\ ~Leaves(j)
<1> DEFINE r == RemoveAt(qosQueue, seen.at)  j == IF k < seen.at THEN k ELSE k + 1
<1>1. seen.at \in 1..Len(qosQueue) /\ qosQueue \in Seq(Entry) /\ Len(qosQueue) \in Nat
      /\ qosQueue' = r
  BY RemoveExact
<1>2. /\ Len(r) = Len(qosQueue) - 1
      /\ \A m \in 1..(Len(qosQueue) - 1) :
           r[m] = IF m < seen.at THEN qosQueue[m] ELSE qosQueue[m + 1]
  BY <1>1, RemoveAtIsSeq
<1> HIDE DEF r
<1>3. j \in 1..Len(qosQueue) /\ j # seen.at /\ qosQueue[j] = qosQueue'[k]
  BY <1>1, <1>2
<1>. QED
  BY <1>3 DEF Leaves

\* New steps in place of the first one.
LEMMA ReplaceHead ==
  ASSUME TInv, NEW a \in Todo, Then(<<a>>), NEW S, a \in S => Head(todo) \in S
  PROVE  NoMore(todo', todo, S)
<1> DEFINE t == Tail(todo)
<1>1. /\ t \in Seq(Todo) /\ Head(todo) = todo[1] /\ Len(todo) \in Nat \ {0}
      /\ Len(t) = Len(todo) - 1 /\ \A k \in 1..Len(t) : t[k] = todo[k + 1]
  BY HeadOfTodo, TailIsSeq DEF TInv, TodoOK
<1>2. todo' = <<a>> \o t
  BY DEF Then
<1> HIDE DEF t
<1>3. <<a>> \in Seq(Todo) /\ Len(<<a>>) = 1 /\ <<a>>[1] = a
  OBVIOUS
<1>4. /\ Len(todo') = Len(todo) /\ todo'[1] = a
      /\ \A k \in 2..Len(todo) : todo'[k] = todo[k]
  BY <1>1, <1>2, <1>3, ConcatProperties
<1> DEFINE f == [k \in 1..Len(todo) |-> k]
<1>5. f \in [1..Len(todo') -> 1..Len(todo)] /\ \A k \in 1..Len(todo') : f[k] = k
  BY <1>4
<1> HIDE DEF f
<1>6. ASSUME NEW k \in 1..Len(todo'), todo'[k] \in S PROVE todo[f[k]] \in S
  <2>1. CASE k = 1
    BY <1>1, <1>4, <1>5, <1>6, <2>1
  <2>2. CASE k # 1
    <3>1. k \in 2..Len(todo)
      BY <1>1, <1>4, <2>2
    <3>. QED
      BY <1>4, <1>5, <1>6, <3>1
  <2>. QED
    BY <2>1, <2>2
<1>. QED
  BY <1>5, <1>6, FewerPlaces

\* Two new steps in front.
LEMMA TwoInFront ==
  ASSUME NEW T, NEW a \in T, NEW b \in T, NEW t \in Seq(T), NEW S
  PROVE  /\ b \in S => ~Free(<<a, b>> \o t, S)
         /\ a \notin S /\ Free(t, S) => Once(<<a, b>> \o t, S)
         /\ b \notin S /\ Free(t, S) => Free(Tail(<<a, b>> \o t), S)
<1> DEFINE q == <<a, b>> \o t
<1>1. <<a, b>> \in Seq(T) /\ Len(<<a, b>>) = 2 /\ <<a, b>>[1] = a /\ <<a, b>>[2] = b
  OBVIOUS
<1>2. Len(t) \in Nat
  BY LenProperties
<1>3. /\ q \in Seq(T) /\ Len(q) = Len(t) + 2
      /\ \A k \in 1..(Len(t) + 2) : q[k] = IF k <= 2 THEN <<a, b>>[k] ELSE t[k - 2]
  BY <1>1, <1>2, ConcatProperties
<1> HIDE DEF q
<1>4. q[1] = a /\ q[2] = b /\ \A k \in 1..Len(t) : q[k + 2] = t[k]
  BY <1>1, <1>2, <1>3
<1>5. \A k \in 1..Len(q) : k = 1 \/ k = 2 \/ (k - 2 \in 1..Len(t) /\ q[k] = t[k - 2])
  BY <1>2, <1>3
<1>6. b \in S => ~Free(q, S)
  BY <1>2, <1>3, <1>4 DEF Free
<1>7. a \notin S /\ Free(t, S) => Once(q, S)
  BY <1>4, <1>5 DEF Free, Once
<1>8. b \notin S /\ Free(t, S) => Free(Tail(q), S)
  <2>1. q # <<>>
    BY <1>2, <1>3, EmptySeq
  <2>2. Len(Tail(q)) = Len(t) + 1 /\ \A k \in 1..Len(Tail(q)) : Tail(q)[k] = q[k + 1]
    BY <1>2, <1>3, <2>1, TailIsSeq
  <2>3. \A k \in 1..Len(Tail(q)) : k + 1 \in 1..Len(q) /\ k + 1 # 1
    BY <1>2, <1>3, <2>2
  <2>. QED
    BY <1>4, <1>5, <2>2, <2>3 DEF Free
<1>. QED
  BY <1>6, <1>7, <1>8 DEF q

\* The acknowledged entry is gone, and nothing else happens.
LEMMA AcknowledgedHandshake ==
  ASSUME TInv, Current, Acknowledged, NEW i, Handshake(i)
  PROVE  Handshake(i)'
<1>1. /\ Head(todo).op = "acknowledged" /\ qosQueue' = OrderedRemove /\ Continue
      /\ UNCHANGED txQueue /\ UNCHANGED toBroker /\ UNCHANGED forwarded /\ UNCHANGED stored
      /\ UNCHANGED callback /\ UNCHANGED published
  BY DEF Acknowledged, At, linkVars, brokerVars, bounds
<1>2. \A S : NoMore(qosQueue', qosQueue, S)
  BY <1>1, RemoveExact, FewerInRest
<1>3. /\ NoMore(todo', todo, PubTracks(i)) /\ NoMore(todo', todo, RelSteps(i))
      /\ Free(todo', PubSends(i))
  BY <1>1, PassTodo DEF Handshake
<1>4. Ahead(i)' => Ahead(i)
  BY <1>1 DEF Ahead
<1>5. Kept(i)' => Kept(i)
  BY <1>1, <1>3, <1>4, StaysInRest, KeptStep
<1>6. OneEntry(i)'
  BY <1>2, <1>3, <1>4, EntryStep DEF Handshake
<1>7. Order(i)' /\ Passed(i)'
  BY <1>1, OrderStep, PassedStep, SameIsFewer DEF Handshake, Fewer
<1>8. NotYet(i)'
  BY <1>1, <1>2, <1>3, <1>5, NotYetStep, SameIsNoMore DEF Handshake
<1>. QED
  BY <1>3, <1>6, <1>7, <1>8 DEF Handshake, Sends

\* The two steps that send and track an entry again.
LEMMA AgainSteps ==
  ASSUME NEW e \in Entry, NEW a, a = With("prepare", P(e.type, e.id)),
         NEW b, b = With("track", P(e.type, e.id)), NEW i
  PROVE  /\ a \in Todo /\ b \in Todo /\ a.op = "prepare"
         /\ a \notin PubTracks(i) /\ b \notin PubSends(i)
         /\ b \in PubTracks(i) <=> e \in PubEntries(i)
         /\ a \in PubSends(i) <=> e \in PubEntries(i)
         /\ a \in RelSteps(i) <=> e \in RelEntries(i)
         /\ b \in RelSteps(i) <=> e \in RelEntries(i)
<1>1. e.type \in {"publish", "pubrel"} /\ e.id \in Ids
  BY DEF Entry
<1>2. /\ a \in Todo /\ b \in Todo /\ a.op = "prepare" /\ b.op = "track"
  BY <1>1, PlainSteps, PlainTodo
<1>3. a.arg.type = e.type /\ a.arg.id = e.id /\ b.arg.type = e.type /\ b.arg.id = e.id
  BY DEF With, P
<1>. QED
  BY <1>2, <1>3 DEF PubTracks, PubSends, RelSteps, PubEntries, RelEntries

\* The entry is sent and tracked again: while it is a publish it is not released.
LEMMA PrunedHandshake ==
  ASSUME TInv, Current, Pruned, NEW i, Handshake(i)
  PROVE  Handshake(i)'
<1> DEFINE e == Removed  a == With("prepare", P(e.type, e.id))  b == With("track", P(e.type, e.id))
           t == Tail(todo)
<1>1. /\ Head(todo).op = "pruned" /\ qosQueue' = OrderedRemove /\ Then(<<a, b>>)
      /\ UNCHANGED txQueue /\ UNCHANGED toBroker /\ UNCHANGED forwarded /\ UNCHANGED stored
      /\ UNCHANGED callback /\ UNCHANGED published
  BY DEF Pruned, At, linkVars, brokerVars, bounds
<1>2. /\ seen.at \in 1..Len(qosQueue) /\ e = qosQueue[seen.at] /\ e \in Entry
      /\ qosQueue' = RemoveAt(qosQueue, seen.at) /\ qosQueue \in Seq(Entry)
  BY <1>1, RemoveExact, ElementOfSeq
<1>3. \A S : NoMore(qosQueue', qosQueue, S)
  BY <1>2, FewerInRest
<1>4. /\ a \in Todo /\ b \in Todo
      /\ a \notin PubTracks(i) /\ b \notin PubSends(i)
      /\ b \in PubTracks(i) <=> e \in PubEntries(i)
      /\ a \in PubSends(i) <=> e \in PubEntries(i)
      /\ a \in RelSteps(i) <=> e \in RelEntries(i)
      /\ b \in RelSteps(i) <=> e \in RelEntries(i)
  BY <1>2, AgainSteps
<1>5. t \in Seq(Todo) /\ \A S : NoMore(t, todo, S)
  BY HeadOfTodo, TailIsSeq, FewerInTail DEF TInv, TodoOK
<1>6. Ahead(i)' => Ahead(i)
  BY <1>1 DEF Ahead
<1>7. Order(i)' /\ Passed(i)'
  BY <1>1, OrderStep, PassedStep, SameIsFewer DEF Handshake, Fewer
<1>8. Free(t, PubSends(i))
  BY <1>5 DEF Handshake, Sends, NoMore
<1>9. <<a, b>> \in Seq(Todo) /\ <<a, b>> # <<>>
      /\ \A S : a \notin S /\ b \notin S => Free(<<a, b>>, S)
  BY <1>4 DEF Free
<1>10. CASE e \notin PubEntries(i)
  <2>1. Free(<<a, b>>, PubTracks(i)) /\ Free(<<a, b>>, PubSends(i))
    BY <1>4, <1>9, <1>10
  <2>2. NoMore(todo', todo, PubTracks(i)) /\ Free(todo', PubSends(i))
    BY <1>1, <1>8, <1>9, <2>1, ThenLess
  <2>3. Kept(i)' => Kept(i)
    BY <1>1, <1>6, <2>2, StaysInRest, KeptStep
  <2>4. OneEntry(i)'
    BY <1>3, <1>6, <2>2, EntryStep DEF Handshake
  <2>5. NotYet(i)'
    <3>1. CASE e \in RelEntries(i)
      <4>1. ~NoRelease(i)
        BY <1>2, <3>1 DEF NoRelease, Free
      <4>. QED
        BY <2>3, <4>1 DEF Handshake, NotYet
    <3>2. CASE e \notin RelEntries(i)
      <4>1. Free(<<a, b>>, RelSteps(i))
        BY <1>4, <1>9, <3>2
      <4>2. NoMore(todo', todo, RelSteps(i))
        BY <1>1, <1>9, <4>1, ThenLess
      <4>. QED
        BY <1>1, <1>3, <2>3, <4>2, NotYetStep, SameIsNoMore DEF Handshake
    <3>. QED
      BY <3>1, <3>2
  <2>. QED
    BY <1>7, <2>2, <2>4, <2>5 DEF Handshake, Sends
<1>11. CASE e \in PubEntries(i)
  <2>1. ~Free(qosQueue, PubEntries(i)) /\ Kept(i)
    BY <1>1, <1>2, <1>11 DEF Free, Kept, Leaves
  <2>2. NoRelease(i) /\ forwarded[i] = 0 /\ ~Ahead(i) /\ Free(todo, PubTracks(i))
    BY <2>1 DEF Handshake, NotYet, OneEntry
  <2>3. Free(qosQueue', PubEntries(i))
    BY <1>2, <1>11, FewerInRest DEF Handshake, OneEntry
  <2>4. Free(t, PubTracks(i))
    BY <1>5, <2>2 DEF NoMore
  <2>5. todo' = <<a, b>> \o t
    BY <1>1 DEF Then
  <2>6. Once(todo', PubTracks(i)) /\ ~Free(todo', PubTracks(i)) /\ Free(Tail(todo'), PubSends(i))
    <3> HIDE DEF a, b, t
    <3>. QED
      BY <1>4, <1>5, <1>8, <1>11, <2>4, <2>5, TwoInFront
  <2>7. OneEntry(i)'
    BY <1>6, <2>2, <2>3, <2>6, FreeIsOnce DEF OneEntry
  <2>8. e \notin RelEntries(i)
    BY <1>11 DEF PubEntries, RelEntries
  <2>9. Free(<<a, b>>, RelSteps(i))
    BY <1>4, <1>9, <2>8
  <2>10. NoMore(todo', todo, RelSteps(i))
    BY <1>1, <1>9, <2>9, ThenLess
  <2>11. NoRelease(i)'
    BY <1>1, <1>3, <2>2, <2>10 DEF NoRelease, NoMore
  <2>12. NotYet(i)'
    BY <1>1, <2>2, <2>11 DEF NotYet
  <2>. QED
    BY <1>7, <2>6, <2>7, <2>12 DEF Handshake, Sends
<1>. QED
  BY <1>10, <1>11

\* The step that puts the entry back becomes the next one.
LEMMA TrackHandshake ==
  ASSUME TInv, Track, NEW i, Handshake(i)
  PROVE  Handshake(i)'
<1> DEFINE a == With("tracked", Arg)
<1>1. /\ Head(todo).op = "track" /\ Then(<<a>>)
      /\ UNCHANGED txQueue /\ UNCHANGED toBroker /\ UNCHANGED forwarded /\ UNCHANGED stored
      /\ UNCHANGED callback /\ UNCHANGED published /\ UNCHANGED qosQueue
  BY DEF Track, At, linkVars, brokerVars, bounds, sharedVars
<1>2. a \in Todo /\ a.op = "tracked" /\ a.arg = Head(todo).arg /\ Head(todo) \in Todo
  BY <1>1, HeadOfTodo DEF TInv, Todo, With, Arg, Ops
<1>3. /\ a \in PubTracks(i) => Head(todo) \in PubTracks(i)
      /\ a \in RelSteps(i) => Head(todo) \in RelSteps(i)
      /\ a \notin PubSends(i) /\ Head(todo) \notin PubSends(i)
  BY <1>1, <1>2 DEF PubTracks, RelSteps, PubSends
<1> HIDE DEF a
<1>4. NoMore(todo', todo, PubTracks(i)) /\ NoMore(todo', todo, RelSteps(i))
  BY <1>1, <1>2, <1>3, ReplaceHead
<1>5. Free(todo', PubSends(i))
  <2>1. Free(Tail(todo), PubSends(i))
    BY HeadOfTodo, FewerInTail DEF TInv, TodoOK, Handshake, Sends, NoMore
  <2>2. <<a>> \in Seq(Todo) /\ <<a>> # <<>> /\ Free(<<a>>, PubSends(i))
    BY <1>2, <1>3 DEF Free
  <2>. QED
    BY <1>1, <2>1, <2>2, ThenLess
<1>6. Ahead(i)' => Ahead(i)
  BY <1>1 DEF Ahead
<1>7. \A k : ~Leaves(k)
  BY <1>1 DEF Leaves
<1>8. Kept(i)' => Kept(i)
  BY <1>1, <1>4, <1>6, <1>7, KeptStep
<1>9. OneEntry(i)'
  BY <1>1, <1>4, <1>6, EntryStep, SameIsNoMore DEF Handshake
<1>10. Order(i)' /\ Passed(i)'
  BY <1>1, OrderStep, PassedStep, SameIsFewer DEF Handshake, Fewer
<1>11. NotYet(i)'
  BY <1>1, <1>4, <1>8, NotYetStep, SameIsNoMore DEF Handshake
<1>. QED
  BY <1>5, <1>9, <1>10, <1>11 DEF Handshake, Sends

\* The entry is back: the step that was to do it is done.
LEMMA TrackedHandshake ==
  ASSUME TInv, Current, Tracked, NEW i, Handshake(i)
  PROVE  Handshake(i)'
<1> DEFINE e == [type |-> Arg.type, id |-> Arg.id, due |-> FALSE]
<1>1. /\ Head(todo).op = "tracked" /\ Continue
      /\ UNCHANGED txQueue /\ UNCHANGED toBroker /\ UNCHANGED forwarded /\ UNCHANGED stored
      /\ UNCHANGED callback /\ UNCHANGED published
  BY DEF Tracked, At, linkVars, brokerVars, bounds
<1>2. qosQueue' = Append(qosQueue, e) /\ qosQueue \in Seq(Entry) /\ Len(qosQueue) \in Nat
  BY TrackExact, LenProperties DEF TInv, LookOK
<1>3. Head(todo) \in Todo /\ Arg = Head(todo).arg /\ todo \in Seq(Todo) /\ todo # <<>>
  BY HeadOfTodo DEF TInv, TodoOK, Arg
<1>4. e \in Entry
  BY <1>1, <1>3 DEF Todo, Entry
<1>5. /\ e \in PubEntries(i) <=> Head(todo) \in PubTracks(i)
      /\ e \in RelEntries(i) => Head(todo) \in RelSteps(i)
      /\ e \in PubEntries(i) => e \notin RelEntries(i)
  BY <1>1, <1>3, <1>4 DEF PubEntries, RelEntries, PubTracks, RelSteps
<1> HIDE DEF e
<1>6. /\ NoMore(todo', todo, PubTracks(i)) /\ NoMore(todo', todo, RelSteps(i))
      /\ Free(todo', PubSends(i))
  BY <1>1, PassTodo DEF Handshake
<1>7. Ahead(i)' => Ahead(i)
  BY <1>1 DEF Ahead
<1>8. Order(i)' /\ Passed(i)'
  BY <1>1, OrderStep, PassedStep, SameIsFewer DEF Handshake, Fewer
<1>9. CASE e \notin PubEntries(i)
  <2>1. NoMore(qosQueue', qosQueue, PubEntries(i))
    BY <1>2, <1>4, <1>9, MoreInAppend
  <2>2. Kept(i)' => Kept(i)
    <3>1. ASSUME NEW k \in 1..Len(qosQueue'), qosQueue'[k] \in PubEntries(i)
          PROVE  k \in 1..Len(qosQueue) /\ qosQueue[k] \in PubEntries(i) /\ ~Leaves(k)
      <4>1. /\ Len(qosQueue') = Len(qosQueue) + 1 /\ qosQueue'[Len(qosQueue) + 1] = e
            /\ \A j \in 1..Len(qosQueue) : qosQueue'[j] = qosQueue[j]
        BY <1>2, <1>4, AppendProperties
      <4>2. k \in 1..Len(qosQueue)
        BY <1>2, <1>9, <3>1, <4>1
      <4>. QED
        BY <1>1, <3>1, <4>1, <4>2 DEF Leaves
    <3>. QED
      BY <1>6, <1>7, <3>1, KeptStep
  <2>3. OneEntry(i)'
    BY <1>6, <1>7, <2>1, EntryStep DEF Handshake
  <2>4. NotYet(i)'
    <3>1. CASE e \in RelEntries(i)
      <4>1. ~NoRelease(i)
        BY <1>3, <1>5, <3>1, FewerInTail DEF NoRelease
      <4>. QED
        BY <2>2, <4>1 DEF Handshake, NotYet
    <3>2. CASE e \notin RelEntries(i)
      <4>1. NoMore(qosQueue', qosQueue, RelEntries(i))
        BY <1>2, <1>4, <3>2, MoreInAppend
      <4>. QED
        BY <1>1, <1>6, <2>2, <4>1, NotYetStep, SameIsNoMore DEF Handshake
    <3>. QED
      BY <3>1, <3>2
  <2>. QED
    BY <1>6, <1>8, <2>3, <2>4 DEF Handshake, Sends
<1>10. CASE e \in PubEntries(i)
  <2>1. ~Free(todo, PubTracks(i))
    BY <1>3, <1>5, <1>10, FewerInTail
  <2>2. Kept(i) /\ NoRelease(i) /\ forwarded[i] = 0 /\ ~Ahead(i) /\ Free(qosQueue, PubEntries(i))
    BY <2>1 DEF Handshake, NotYet, OneEntry, Kept
  <2>3. Once(qosQueue', PubEntries(i))
    BY <1>2, <1>4, <2>2, MoreInAppend
  <2>4. Free(todo', PubTracks(i))
    BY <1>1, <1>3, <1>5, <1>10, FewerInTail DEF Handshake, OneEntry, Continue
  <2>5. OneEntry(i)'
    BY <1>7, <2>2, <2>3, <2>4, FreeIsOnce DEF OneEntry
  <2>6. NoMore(qosQueue', qosQueue, RelEntries(i))
    BY <1>2, <1>4, <1>5, <1>10, MoreInAppend
  <2>7. NoRelease(i)'
    BY <1>1, <1>6, <2>2, <2>6 DEF NoRelease, NoMore
  <2>8. NotYet(i)'
    BY <1>1, <2>2, <2>7 DEF NotYet
  <2>. QED
    BY <1>6, <1>8, <2>5, <2>8 DEF Handshake, Sends
<1>. QED
  BY <1>9, <1>10

\* The PUBREC finds the entry of the publish: the client will not send it again.
LEMMA PubrecHandshake ==
  ASSUME TInv, ReceivePubrec, NEW i, Handshake(i)
  PROVE  Handshake(i)'
<1>1. PICK p \in Incoming :
        /\ Receive(p)
        /\ \/ /\ Entries("publish", p.id) # {} /\ Look(FirstOf(Entries("publish", p.id)))
              /\ Then(<<Step("acknowledged"), With("search", P("pubrel", p.id)),
                        With("prepare", P("pubrel", p.id)),
                        With("track", P("pubrel", p.id)), Poll>>)
           \/ Fail
  BY DEF ReceivePubrec
<1>2. /\ Head(todo).op = "poll"
      /\ UNCHANGED txQueue /\ UNCHANGED toBroker /\ UNCHANGED forwarded /\ UNCHANGED stored
      /\ UNCHANGED callback /\ UNCHANGED published /\ UNCHANGED qosQueue
  BY <1>1 DEF Receive, At, linkVars, brokerVars, bounds, sharedVars
<1>3. Ahead(i)' => Ahead(i)
  BY <1>2 DEF Ahead
<1>4. CASE Fail
  <2>1. IdleMove
    BY <1>2, <1>4 DEF IdleMove
  <2>. QED
    BY <1>2, <1>3, <2>1, SameHandshake
<1>5. CASE /\ Entries("publish", p.id) # {} /\ Look(FirstOf(Entries("publish", p.id)))
           /\ Then(<<Step("acknowledged"), With("search", P("pubrel", p.id)),
                     With("prepare", P("pubrel", p.id)),
                     With("track", P("pubrel", p.id)), Poll>>)
  <2> DEFINE n == FirstOf(Entries("publish", p.id))
             a == Step("acknowledged")  b == With("search", P("pubrel", p.id))
             c == With("prepare", P("pubrel", p.id))  d == With("track", P("pubrel", p.id))
             s == <<a, b, c, d, Poll>>
  <2>1. p.id \in Ids
    BY <1>2, <1>5, LooksAtEntry DEF TInv
  <2>2. a \in Plain /\ b \in Plain /\ c \in Plain /\ d \in Plain /\ Poll \in Plain
        /\ a.op = "acknowledged" /\ b.op = "search" /\ c.op = "prepare" /\ d.op = "track"
        /\ Poll.op = "poll"
    BY <2>1, PlainSteps DEF Poll, Ops
  <2>3. b.arg = P("pubrel", p.id) /\ c.arg = P("pubrel", p.id) /\ d.arg = P("pubrel", p.id)
        /\ P("pubrel", p.id).type = "pubrel" /\ P("pubrel", p.id).id = p.id
    BY DEF With, P
  <2>4. /\ {a, b, c, d, Poll} \cap PubTracks(i) = {} /\ {a, b, c, d, Poll} \cap PubSends(i) = {}
        /\ i # p.id => {a, b, c, d, Poll} \cap RelSteps(i) = {}
    BY <2>2, <2>3 DEF PubTracks, PubSends, RelSteps
  <2>5. Then(s)
    BY <1>5
  <2> HIDE DEF a, b, c, d
  <2>6. s \in Seq(Todo) /\ s # <<>> /\ s[1] = a
        /\ \A S : {a, b, c, d, Poll} \cap S = {} => Free(s, S)
    BY <2>2, PlainTodo DEF Free
  <2> HIDE DEF s
  <2>7. Free(s, PubTracks(i)) /\ Free(s, PubSends(i))
    BY <2>4, <2>6
  <2>8. NoMore(todo', todo, PubTracks(i)) /\ Head(todo') = a
    BY <2>5, <2>6, <2>7, ThenLess
  <2>9. Free(todo', PubSends(i))
    <3>1. Free(Tail(todo), PubSends(i))
      BY HeadOfTodo, FewerInTail DEF TInv, TodoOK, Handshake, Sends, NoMore
    <3>. QED
      BY <2>5, <2>6, <2>7, <3>1, ThenLess
  <2>10. OneEntry(i)'
    BY <1>2, <1>3, <2>8, EntryStep, SameIsNoMore DEF Handshake
  <2>11. Order(i)' /\ Passed(i)'
    BY <1>2, OrderStep, PassedStep, SameIsFewer DEF Handshake, Fewer
  <2>12. NotYet(i)'
    <3>1. CASE i # p.id
      <4>1. NoMore(todo', todo, RelSteps(i))
        BY <2>4, <2>5, <2>6, <3>1, ThenLess
      <4>2. \A k : ~Leaves(k)
        BY <1>2 DEF Leaves
      <4>3. Kept(i)' => Kept(i)
        BY <1>2, <1>3, <2>8, <4>2, KeptStep
      <4>. QED
        BY <1>2, <4>1, <4>3, NotYetStep, SameIsNoMore DEF Handshake
    <3>2. CASE i = p.id
      <4>1. Len(qosQueue) \in Nat /\ DOMAIN qosQueue = 1..Len(qosQueue)
            /\ \A k \in 1..Len(qosQueue) : qosQueue[k] \in Entry
        BY LenProperties, ElementOfSeq DEF TInv, LookOK
      <4>2. Entries("publish", i) \in SUBSET Nat
        BY <4>1 DEF Entries
      <4>3. n \in Entries("publish", i)
        BY <1>5, <3>2, <4>2, FirstOfIsFirst
      <4>4. n \in 1..Len(qosQueue) /\ qosQueue[n] \in PubEntries(i)
        BY <4>1, <4>3 DEF Entries, PubEntries
      <4>5. /\ Once(qosQueue, PubEntries(i)) /\ ~Free(qosQueue, PubEntries(i))
            /\ Free(todo, PubTracks(i)) /\ ~Ahead(i)
        BY <4>4 DEF Handshake, OneEntry, Free
      <4>6. Head(todo').op = "acknowledged" /\ seen'.at = n
        BY <1>5, <2>2, <2>8 DEF Look
      <4> HIDE DEF n
      <4>7. \A k \in 1..Len(qosQueue) : qosQueue[k] \in PubEntries(i) => k = n
        BY <4>4, <4>5 DEF Once
      <4>8. Free(todo', PubTracks(i))
        BY <2>8, <4>5 DEF NoMore
      <4>9. ~Kept(i)'
        BY <1>2, <1>3, <4>5, <4>6, <4>7, <4>8 DEF Kept, Leaves
      <4>. QED
        BY <4>9 DEF NotYet
    <3>. QED
      BY <3>1, <3>2
  <2>. QED
    BY <2>9, <2>10, <2>11, <2>12 DEF Handshake, Sends
<1>. QED
  BY <1>1, <1>4, <1>5

-----------------------------------------------------------------------------
(* What is sent *)

LEMMA UplinkPackets == Uplink \subseteq Packet
BY PacketType, NumbersType DEF Uplink, Outgoing, Types

LEMMA PrepareHandshake ==
  ASSUME TInv, Prepare, NEW i, Handshake(i)
  PROVE  Handshake(i)'
<1>1. /\ Head(todo).op = "prepare"
      /\ UNCHANGED seen /\ UNCHANGED qosQueue /\ UNCHANGED toBroker /\ UNCHANGED forwarded
      /\ UNCHANGED stored /\ UNCHANGED callback /\ UNCHANGED published
  BY DEF Prepare, At, linkVars, brokerVars, bounds
<1>2. Ahead(i)' => Ahead(i)
  BY <1>1 DEF Ahead
<1>3. CASE UNCHANGED todo /\ UNCHANGED txQueue
  <2>1. IdleMove
    BY <1>1, <1>3 DEF IdleMove
  <2>. QED
    BY <1>1, <1>2, <1>3, <2>1, SameHandshake
<1>4. CASE Continue /\ txQueue' = Append(txQueue, Arg)
  <2>1. IdleMove
    BY <1>1, <1>4 DEF IdleMove, Ends
  <2>2. /\ Head(todo) \in Todo /\ Arg = Head(todo).arg /\ Arg \in Uplink /\ Arg \in Packet
        /\ todo \in Seq(Todo) /\ todo # <<>> /\ txQueue \in Seq(Uplink)
    BY <1>1, HeadOfTodo, UplinkPackets, UplinkTypes DEF TInv, TodoOK, QueuesOK, Arg, Todo
  <2>3. /\ NoMore(todo', todo, PubTracks(i)) /\ NoMore(todo', todo, RelSteps(i))
        /\ Free(todo', PubSends(i)) /\ (Kept(i)' => Kept(i))
    BY <1>1, <1>2, <1>4, <2>1, PassTodo, IdleKept DEF Handshake
  <2>4. OneEntry(i)'
    BY <1>1, <1>2, <2>3, EntryStep, SameIsNoMore DEF Handshake
  <2>5. CASE Arg \notin Pubs(i) /\ Arg \notin Rels(i)
    <3>1. Fewer(txQueue', txQueue, i)
      BY <1>4, <2>2, <2>5, AppendInOrder
    <3>. QED
      BY <1>1, <1>2, <2>1, <3>1, SameIsFewer, IdleHandshake
  <2>6. CASE Arg \in Rels(i)
    <3>1. Arg \notin Pubs(i) /\ Head(todo) \in RelSteps(i)
      BY <1>1, <2>2, <2>6, RelIsNoPub DEF Rels, RelSteps
    <3>2. ~Kept(i)
      BY <2>2, <3>1, FewerInTail DEF Handshake, NotYet, NoRelease
    <3>3. NoMore(txQueue', txQueue, Pubs(i)) /\ (InOrder(txQueue, i) => InOrder(txQueue', i))
      BY <1>4, <2>2, <3>1, MoreInAppend, AppendInOrder
    <3>4. Order(i)'
      BY <1>1, <3>3 DEF Handshake, Order, NoMore
    <3>5. Passed(i)'
      BY <1>1, <3>3, PassedStep, SameIsNoMore DEF Handshake
    <3>6. NotYet(i)'
      BY <2>3, <3>2 DEF NotYet
    <3>. QED
      BY <2>3, <2>4, <3>4, <3>5, <3>6 DEF Handshake, Sends
  <2>7. CASE Arg \in Pubs(i)
    <3>1. Arg \notin Rels(i) /\ Head(todo) \in PubSends(i)
      BY <1>1, <2>2, <2>7, RelIsNoPub DEF Pubs, PubSends
    <3>2. Kept(i)
      BY <2>2, <3>1, FewerInTail DEF Handshake, Sends, Kept
    <3>3. NoRelease(i) /\ forwarded[i] = 0
      BY <3>2 DEF Handshake, NotYet
    <3>4. NoMore(txQueue', txQueue, Rels(i)) /\ InOrder(txQueue', i)
      BY <1>4, <2>2, <3>1, <3>3, MoreInAppend, AppendInOrder DEF NoRelease
    <3>5. Order(i)'
      BY <1>1, <3>3, <3>4 DEF Handshake, Order, NoRelease
    <3>6. Passed(i)'
      BY <1>1, <3>3 DEF Passed
    <3>7. NotYet(i)'
      BY <1>1, <2>3, <3>4, NotYetStep, SameIsNoMore DEF Handshake
    <3>. QED
      BY <2>3, <2>4, <3>5, <3>6, <3>7 DEF Handshake, Sends
  <2>. QED
    BY <2>5, <2>6, <2>7
<1>. QED
  BY <1>1, <1>3, <1>4 DEF Prepare

\* The oldest packet goes to the broker, or is lost on a broken connection.
LEMMA FlushHandshake ==
  ASSUME TInv, Flush, NEW i, Handshake(i)
  PROVE  Handshake(i)'
<1>1. /\ UNCHANGED seen /\ UNCHANGED qosQueue /\ UNCHANGED forwarded
      /\ UNCHANGED stored /\ UNCHANGED callback /\ UNCHANGED published
  BY DEF Flush, linkVars, brokerVars, bounds
<1>2. IdleMove
  BY TaskIsIdle
<1>3. Ahead(i)' => Ahead(i)
  BY <1>1 DEF Ahead
<1>4. txQueue \in Seq(Uplink) /\ toBroker \in Seq(Uplink)
  BY DEF TInv, QueuesOK
<1>5. CASE UNCHANGED txQueue /\ UNCHANGED toBroker
  BY <1>1, <1>2, <1>3, <1>5, SameHandshake
<1>6. CASE txQueue # <<>> /\ txQueue' = Tail(txQueue) /\ UNCHANGED toBroker
  BY <1>1, <1>2, <1>3, <1>4, <1>6, TailIsFewer, SameIsFewer, IdleHandshake
<1>7. CASE txQueue # <<>> /\ txQueue' = Tail(txQueue) /\ toBroker' = Append(toBroker, Head(txQueue))
  <2> DEFINE h == Head(txQueue)
  <2>1. h \in Uplink /\ h \in Packet /\ toBroker' = Append(toBroker, h)
    BY <1>4, <1>7, TailIsSeq, UplinkPackets
  <2>2. Fewer(txQueue', txQueue, i) /\ (InOrder(txQueue, i) /\ h \in Rels(i) => Free(txQueue', Pubs(i)))
    BY <1>4, <1>7, TailIsFewer
  <2>3. /\ NoMore(todo', todo, PubTracks(i)) /\ NoMore(todo', todo, RelSteps(i)) /\ Sends(i)'
        /\ (Kept(i)' => Kept(i))
    BY <1>1, <1>2, <1>3, IdleTodo, IdleKept DEF Handshake
  <2>4. OneEntry(i)'
    BY <1>1, <1>3, <2>3, EntryStep, SameIsNoMore DEF Handshake
  <2>5. /\ Free(txQueue, Pubs(i)) => h \notin Pubs(i)
        /\ Free(txQueue, Rels(i)) => h \notin Rels(i)
    BY <1>4, <1>7, FewerInTail
  <2> HIDE DEF h
  <2>6. CASE h \notin Pubs(i) /\ h \notin Rels(i)
    <3>1. Fewer(toBroker', toBroker, i)
      BY <1>4, <2>1, <2>6, AppendInOrder
    <3>. QED
      BY <1>1, <1>2, <1>3, <2>2, <3>1, IdleHandshake
  <2>7. CASE h \in Pubs(i)
    <3>1. h \notin Rels(i) /\ Free(toBroker, Rels(i))
      BY <2>5, <2>7, RelIsNoPub DEF Handshake, Order
    <3>2. NoMore(toBroker', toBroker, Rels(i)) /\ InOrder(toBroker', i)
      BY <1>4, <2>1, <3>1, MoreInAppend, AppendInOrder
    <3>3. Order(i)'
      BY <2>2, <3>1, <3>2 DEF Handshake, Order, Fewer, NoMore
    <3>4. forwarded[i] = 0
      BY <2>5, <2>7 DEF Handshake, Passed
    <3>5. Passed(i)'
      BY <1>1, <3>4 DEF Passed
    <3>6. NotYet(i)'
      BY <1>1, <2>2, <2>3, <3>2, NotYetStep, SameIsNoMore DEF Handshake, Fewer
    <3>. QED
      BY <2>3, <2>4, <3>3, <3>5, <3>6 DEF Handshake
  <2>8. CASE h \in Rels(i)
    <3>1. h \notin Pubs(i) /\ ~Kept(i) /\ Free(txQueue', Pubs(i))
      BY <2>2, <2>5, <2>8, RelIsNoPub DEF Handshake, Order, NotYet, NoRelease
    <3>2. /\ NoMore(toBroker', toBroker, Pubs(i))
          /\ (InOrder(toBroker, i) => InOrder(toBroker', i))
      BY <1>4, <2>1, <3>1, MoreInAppend, AppendInOrder
    <3>3. Order(i)'
      BY <2>2, <3>1, <3>2 DEF Handshake, Order, Fewer
    <3>4. Passed(i)'
      BY <1>1, <2>2, <3>2, PassedStep DEF Handshake, Fewer
    <3>5. NotYet(i)'
      BY <2>3, <3>1 DEF NotYet
    <3>. QED
      BY <2>3, <2>4, <3>3, <3>4, <3>5 DEF Handshake
  <2>. QED
    BY <2>6, <2>7, <2>8
<1>. QED
  BY <1>5, <1>6, <1>7 DEF Flush

\* A callback sends and tracks the publish that was ahead.
LEMMA CallbackHandshake ==
  ASSUME TInv, CallbackSends, ~raced', NEW i \in Ids, Handshake(i)
  PROVE  Handshake(i)'
<1>1. /\ UNCHANGED todo /\ UNCHANGED seen /\ UNCHANGED toBroker /\ UNCHANGED forwarded
      /\ UNCHANGED stored /\ UNCHANGED published /\ callback' = "none"
  BY DEF CallbackSends, taskVars, linkVars, brokerVars, bounds
<1>2. Ahead(i)' => Ahead(i)
  BY <1>1 DEF Ahead
<1>3. txQueue \in Seq(Uplink) /\ qosQueue \in Seq(Entry) /\ Len(qosQueue) \in Nat
  BY LenProperties DEF TInv, QueuesOK, LookOK
<1>4. CASE callback = "ping"
  <2>1. txQueue' = Append(txQueue, P("pingreq", 0)) /\ UNCHANGED qosQueue
    BY <1>4 DEF CallbackSends
  <2>2. P("pingreq", 0) \notin Pubs(i) /\ P("pingreq", 0) \notin Rels(i)
    BY DEF P, Pubs, Rels
  <2>3. Fewer(txQueue', txQueue, i)
    BY <1>3, <2>1, <2>2, UplinkTypes, AppendInOrder
  <2>4. IdleMove
    BY <1>1 DEF IdleMove
  <2>. QED
    BY <1>1, <1>2, <2>1, <2>3, <2>4, SameIsFewer, IdleHandshake
<1>5. CASE callback # "ping"
  <2> DEFINE p == P("publish", published)
             e == [type |-> "publish", id |-> published, due |-> FALSE]
  <2>1. /\ txQueue' = Append(txQueue, p) /\ qosQueue' = Append(qosQueue, e)
        /\ Head(todo).op \notin Looked
    BY <1>5 DEF CallbackSends, Looked
  <2>2. callback = "publish" /\ published \in Ids
    BY <1>5 DEF CallbackSends, TInv, CallbackOK, FlagsOK
  <2>3. p \in Uplink /\ p \in Packet /\ p.type = "publish" /\ p.id = published
    BY <2>2, PublishIsUplink, UplinkPackets DEF P
  <2>4. e \in Entry /\ e.type = "publish" /\ e.id = published
    BY <2>2 DEF Entry
  <2> HIDE DEF p, e
  <2>5. p \notin Rels(i) /\ e \notin RelEntries(i)
    BY <2>3, <2>4 DEF Rels, RelEntries
  <2>6. NoMore(txQueue', txQueue, Rels(i)) /\ NoMore(qosQueue', qosQueue, RelEntries(i))
    BY <1>3, <2>1, <2>3, <2>4, <2>5, MoreInAppend
  <2>7. Sends(i)' /\ NoMore(todo', todo, PubTracks(i)) /\ NoMore(todo', todo, RelSteps(i))
    BY <1>1, SameIsNoMore DEF Handshake, Sends
  <2>8. CASE i = published
    <3>1. Ahead(i) /\ ~Ahead(i)'
      <4>1. published \in Int
        BY <2>2 DEF Ids
      <4>. QED
        BY <1>1, <2>2, <2>8, <4>1 DEF Ahead
    <3>2. NoRelease(i) /\ forwarded[i] = 0 /\ Free(qosQueue, PubEntries(i)) /\ Free(todo, PubTracks(i))
      BY <3>1 DEF Handshake, NotYet, OneEntry, Kept
    <3>3. Once(qosQueue', PubEntries(i))
      BY <1>3, <2>1, <2>4, <3>2, MoreInAppend
    <3>4. OneEntry(i)'
      BY <1>1, <3>1, <3>2, <3>3, FreeIsOnce DEF OneEntry
    <3>5. InOrder(txQueue', i)
      BY <1>3, <2>1, <2>3, <2>5, <3>2, AppendInOrder DEF NoRelease
    <3>6. Order(i)'
      BY <1>1, <3>2, <3>5 DEF Handshake, Order, NoRelease
    <3>7. Passed(i)'
      BY <1>1, <3>2 DEF Passed
    <3>8. NoRelease(i)'
      BY <1>1, <2>6, <3>2 DEF NoRelease, NoMore
    <3>9. NotYet(i)'
      BY <1>1, <3>2, <3>8 DEF NotYet
    <3>. QED
      BY <2>7, <3>4, <3>6, <3>7, <3>9 DEF Handshake
  <2>9. CASE i # published
    <3>1. p \notin Pubs(i) /\ e \notin PubEntries(i)
      BY <2>3, <2>4, <2>9 DEF Pubs, PubEntries
    <3>2. Fewer(txQueue', txQueue, i) /\ NoMore(qosQueue', qosQueue, PubEntries(i))
      BY <1>3, <2>1, <2>3, <2>4, <2>5, <3>1, AppendInOrder, MoreInAppend
    <3>3. Kept(i)' => Kept(i)
      <4>1. ASSUME NEW k \in 1..Len(qosQueue'), qosQueue'[k] \in PubEntries(i)
            PROVE  k \in 1..Len(qosQueue) /\ qosQueue[k] \in PubEntries(i) /\ ~Leaves(k)
        <5>1. /\ Len(qosQueue') = Len(qosQueue) + 1 /\ qosQueue'[Len(qosQueue) + 1] = e
              /\ \A j \in 1..Len(qosQueue) : qosQueue'[j] = qosQueue[j]
          BY <1>3, <2>1, <2>4, AppendProperties
        <5>2. k \in 1..Len(qosQueue)
          BY <1>3, <3>1, <4>1, <5>1
        <5>. QED
          BY <2>1, <4>1, <5>1, <5>2 DEF Leaves, Looked
      <4>. QED
        BY <1>2, <2>7, <4>1, KeptStep
    <3>4. OneEntry(i)'
      BY <1>2, <2>7, <3>2, EntryStep DEF Handshake
    <3>5. Order(i)' /\ Passed(i)'
      BY <1>1, <3>2, OrderStep, PassedStep, SameIsFewer DEF Handshake, Fewer
    <3>6. NotYet(i)'
      BY <1>1, <2>6, <2>7, <3>3, NotYetStep, SameIsNoMore DEF Handshake
    <3>. QED
      BY <2>7, <3>4, <3>5, <3>6 DEF Handshake
  <2>. QED
    BY <2>8, <2>9
<1>. QED
  BY <1>4, <1>5

-----------------------------------------------------------------------------
(* The broker, the connection and the passing of time *)

\* The connection is lost with all that is on it.
LEMMA LostHandshake ==
  ASSUME TInv, IdleMove, NEW i, Handshake(i),
         UNCHANGED <<qosQueue, txQueue, callback, published, forwarded>>,
         toBroker' = <<>>, i \in stored' => i \in stored
  PROVE  Handshake(i)'
<1>1. /\ UNCHANGED qosQueue /\ UNCHANGED txQueue /\ UNCHANGED callback /\ UNCHANGED published
      /\ UNCHANGED forwarded
  OBVIOUS
<1>2. Ahead(i)' => Ahead(i)
  BY <1>1 DEF Ahead
<1>3. Fewer(toBroker', toBroker, i) /\ Fewer(txQueue', txQueue, i)
  BY <1>1, EmptyIsFewer, SameIsFewer
<1>. QED
  BY <1>1, <1>2, <1>3, IdleHandshake

LEMMA LinkHandshake ==
  ASSUME TInv, Close \/ Drop, NEW i, Handshake(i)
  PROVE  Handshake(i)'
<1>1. /\ UNCHANGED <<qosQueue, txQueue, callback, published, forwarded>>
      /\ toBroker' = <<>> /\ stored' = {}
  BY DEF Close, Drop, EndSession, sharedVars, bounds
<1>2. IdleMove
  BY TaskIsIdle DEF Drop, taskVars, IdleMove
<1>. QED
  BY <1>1, <1>2, LostHandshake

LEMMA BrokerHandshake ==
  ASSUME TInv, BrokerReceives, NEW i \in Ids, Handshake(i)
  PROVE  Handshake(i)'
<1> DEFINE p == Head(toBroker)
<1>1. /\ UNCHANGED todo /\ UNCHANGED seen /\ UNCHANGED qosQueue /\ UNCHANGED txQueue
      /\ UNCHANGED callback /\ UNCHANGED published /\ toBroker # <<>>
  BY DEF BrokerReceives, taskVars, sharedVars, bounds
<1>2. IdleMove
  BY <1>1 DEF IdleMove
<1>3. Ahead(i)' => Ahead(i)
  BY <1>1 DEF Ahead
<1>4. toBroker \in Seq(Uplink) /\ p \in Packet
  BY <1>1, TailIsSeq, UplinkPackets DEF TInv, QueuesOK
<1>5. CASE toBroker' = <<>> /\ EndSession
  BY <1>1, <1>2, <1>5, LostHandshake DEF EndSession
<1>6. CASE toBroker' = Tail(toBroker) /\ (UNCHANGED <<stored, forwarded>> \/ Answer(p))
  <2>1. Fewer(toBroker', toBroker, i) /\ Fewer(txQueue', txQueue, i)
    BY <1>1, <1>4, <1>6, TailIsFewer, SameIsFewer
  <2>2. Free(toBroker, Pubs(i)) => p \notin Pubs(i)
    BY <1>1, <1>4, FewerInTail
  <2>3. CASE UNCHANGED stored /\ UNCHANGED forwarded
    BY <1>1, <1>2, <1>3, <2>1, <2>3, IdleHandshake
  <2>4. CASE p.type = "publish" /\ stored' = stored \cup {p.id} /\ UNCHANGED forwarded
    <3>1. CASE i # p.id
      <4>1. i \in stored' => i \in stored
        BY <2>4, <3>1
      <4>. QED
        BY <1>1, <1>2, <1>3, <2>1, <2>4, <4>1, IdleHandshake
    <3>2. CASE i = p.id
      <4>1. p \in Pubs(i)
        BY <1>4, <2>4, <3>2 DEF Pubs
      <4>2. forwarded[i] = 0 /\ forwarded'[i] = 0
        BY <2>2, <2>4, <4>1 DEF Handshake, Passed
      <4>3. Passed(i)'
        BY <4>2 DEF Passed
      <4>4. OneEntry(i)'
        BY <1>1, <1>3, EntryStep, SameIsNoMore DEF Handshake
      <4>5. Order(i)' /\ Sends(i)'
        BY <1>1, <1>2, <2>1, OrderStep, IdleTodo DEF Handshake
      <4>6. NotYet(i)'
        BY <1>1, <1>2, <1>3, <2>1, <4>2, IdleKept, NotYetStep, SameIsNoMore DEF Handshake, Fewer
      <4>. QED
        BY <4>3, <4>4, <4>5, <4>6 DEF Handshake
    <3>. QED
      BY <3>1, <3>2
  <2>5. CASE /\ p.type = "pubrel" /\ stored' = stored \ {p.id}
             /\ forwarded' = IF p.id \in stored THEN [forwarded EXCEPT ![p.id] = @ + 1] ELSE forwarded
    <3>0. i \in stored' => i \in stored
      BY <2>5
    <3>1. CASE i # p.id \/ p.id \notin stored
      <4>1. forwarded'[i] = forwarded[i]
        BY <2>5, <3>1 DEF TInv, FlagsOK
      <4>. QED
        BY <1>1, <1>2, <1>3, <2>1, <3>0, <4>1, IdleHandshake
    <3>2. CASE i = p.id /\ p.id \in stored
      <4>1. p \in Rels(i)
        BY <1>4, <2>5, <3>2 DEF Rels
      <4>2. ~Free(toBroker, Rels(i))
        BY <1>1, <1>4, <4>1, FewerInTail
      <4>3. Free(txQueue', Pubs(i)) /\ ~Kept(i)
        BY <1>1, <4>2 DEF Handshake, Order, NotYet, NoRelease
      <4>4. Free(toBroker', Pubs(i))
        BY <1>1, <1>4, <1>6, <4>1, TailIsFewer DEF Handshake, Order
      <4>5. forwarded[i] = 0
        BY <3>2 DEF Handshake, Passed
      <4>6. forwarded'[i] = 1 /\ i \notin stored'
        BY <2>5, <3>2, <4>5 DEF TInv, FlagsOK
      <4>7. Passed(i)'
        BY <4>3, <4>4, <4>6 DEF Passed
      <4>8. OneEntry(i)'
        BY <1>1, <1>3, EntryStep, SameIsNoMore DEF Handshake
      <4>9. Order(i)' /\ Sends(i)'
        BY <1>1, <1>2, <2>1, OrderStep, IdleTodo DEF Handshake
      <4>10. NotYet(i)'
        BY <1>1, <1>2, <1>3, <4>3, IdleKept DEF Handshake, NotYet
      <4>. QED
        BY <4>7, <4>8, <4>9, <4>10 DEF Handshake
    <3>. QED
      BY <3>1, <3>2
  <2>. QED
    BY <1>6, <2>3, <2>4, <2>5 DEF Answer
<1>. QED
  BY <1>5, <1>6 DEF BrokerReceives

\* A deadline that passes changes no identifier.
LEMMA ExpiresHandshake ==
  ASSUME TInv, NEW n, Expires(n), NEW i, Handshake(i)
  PROVE  Handshake(i)'
<1>1. /\ UNCHANGED todo /\ UNCHANGED txQueue /\ UNCHANGED toBroker /\ UNCHANGED forwarded
      /\ UNCHANGED stored /\ UNCHANGED callback /\ UNCHANGED published
      /\ Head(todo).op \notin Looked /\ n \in DOMAIN qosQueue
      /\ qosQueue' = [qosQueue EXCEPT ![n] = [qosQueue[n] EXCEPT !.due = TRUE]]
  BY DEF Expires, taskVars, linkVars, brokerVars, Looked
<1>2. qosQueue \in Seq(Entry) /\ Len(qosQueue) \in Nat /\ DOMAIN qosQueue = 1..Len(qosQueue)
      /\ \A k \in 1..Len(qosQueue) : qosQueue[k] \in Entry
  BY LenProperties, ElementOfSeq DEF TInv, LookOK
<1>3. [qosQueue[n] EXCEPT !.due = TRUE] \in Entry
  BY <1>1, <1>2 DEF Entry
<1>4. Len(qosQueue') = Len(qosQueue)
  BY <1>1, <1>2, <1>3, ExceptSeq
<1>5. \A k \in 1..Len(qosQueue) :
        /\ qosQueue'[k] \in PubEntries(i) => qosQueue[k] \in PubEntries(i)
        /\ qosQueue'[k] \in RelEntries(i) => qosQueue[k] \in RelEntries(i)
  BY <1>1, <1>2 DEF PubEntries, RelEntries, Entry
<1> DEFINE f == [k \in 1..Len(qosQueue) |-> k]
<1>6. f \in [1..Len(qosQueue') -> 1..Len(qosQueue)] /\ \A k \in 1..Len(qosQueue') : f[k] = k
  BY <1>4
<1> HIDE DEF f
<1>7. NoMore(qosQueue', qosQueue, PubEntries(i)) /\ NoMore(qosQueue', qosQueue, RelEntries(i))
  BY <1>4, <1>5, <1>6, FewerPlaces
<1>8. Ahead(i)' => Ahead(i)
  BY <1>1 DEF Ahead
<1>9. \A k : ~Leaves(k)
  BY <1>1 DEF Leaves, Looked
<1>10. Kept(i)' => Kept(i)
  BY <1>1, <1>4, <1>5, <1>8, <1>9, KeptStep, SameIsNoMore
<1>11. OneEntry(i)'
  BY <1>1, <1>7, <1>8, EntryStep, SameIsNoMore DEF Handshake
<1>12. Order(i)' /\ Passed(i)' /\ Sends(i)'
  <2>1. Order(i)' /\ Passed(i)'
    BY <1>1, OrderStep, PassedStep, SameIsFewer DEF Handshake, Fewer
  <2>2. Sends(i)'
    BY <1>1 DEF Handshake, Sends
  <2>. QED
    BY <2>1, <2>2
<1>13. NotYet(i)'
  BY <1>1, <1>7, <1>10, NotYetStep, SameIsNoMore DEF Handshake
<1>. QED
  BY <1>11, <1>12, <1>13 DEF Handshake

-----------------------------------------------------------------------------
(* Every step *)

Quiet == \/ CallbackTakesBuffer \/ PingTick \/ PublishTick \/ Suspend \/ Resume
         \/ \E k \in DOMAIN qos2Queue : HeldExpires(k)
         \/ \E m \in Messages : BrokerPublishes(m)
         \/ UNCHANGED vars

QuietTask ==
  \/ Open \/ OpenFails \/ AwaitConnack \/ AwaitSuback \/ AwaitTimesOut \/ StartTimers \/ StopTimers
  \/ Prune \/ PruneHeld \/ Search \/ PollTimesOut \/ ReceivePublish \/ Hold \/ Deliver
  \/ ReceivePubrel \/ ReceivePubcomp \/ ReceivePingresp \/ ReceiveLate

LEMMA QuietTaskSame ==
  ASSUME QuietTask
  PROVE  UNCHANGED <<qosQueue, forwarded, txQueue, toBroker, stored, callback, published, raced>>
<1>1. CASE \/ Open \/ OpenFails \/ AwaitConnack \/ AwaitSuback \/ AwaitTimesOut \/ StartTimers
           \/ StopTimers \/ Prune \/ PruneHeld \/ Search \/ PollTimesOut \/ Hold \/ Deliver
  BY <1>1 DEF Open, OpenFails, AwaitConnack, AwaitSuback, AwaitTimesOut, StartTimers, StopTimers,
     Prune, PruneHeld, Search, PollTimesOut, Hold, Deliver, sharedVars, linkVars, brokerVars,
     history, bounds
<1>2. CASE ReceivePublish \/ ReceivePubrel \/ ReceivePubcomp \/ ReceivePingresp \/ ReceiveLate
  BY <1>2 DEF ReceivePublish, ReceivePubrel, ReceivePubcomp, ReceivePingresp, ReceiveLate, Receive,
     brokerVars, bounds
<1>. QED
  BY <1>1, <1>2 DEF QuietTask

LEMMA QuietSame ==
  ASSUME TInv, Quiet
  PROVE  /\ UNCHANGED <<todo, seen, qosQueue, forwarded, txQueue, toBroker, stored, raced>>
         /\ \A i \in Numbers : Ahead(i)' => Ahead(i)
<1>1. UNCHANGED <<todo, seen, qosQueue, forwarded, txQueue, toBroker, stored, raced>>
  BY DEF Quiet, CallbackTakesBuffer, PingTick, PublishTick, Suspend, Resume, HeldExpires,
     BrokerPublishes, vars, taskVars, sharedVars, linkVars, brokerVars, history, bounds
<1>2. CASE PublishTick
  <2>1. published' = published + 1 /\ published \in Int
    BY <1>2, MqttAssumption DEF PublishTick, TInv, FlagsOK
  <2>2. ASSUME NEW i \in Numbers, Ahead(i)' PROVE Ahead(i)
    <3>1. i \in Int
      BY MqttAssumption, NumbersType DEF Numbers
    <3>2. published' = i \/ published' < i
      BY <2>2 DEF Ahead
    <3>3. published < i
      BY <2>1, <3>1, <3>2
    <3>. QED
      BY <3>3 DEF Ahead
  <2>. QED
    BY <1>1, <2>2
<1>3. CASE ~PublishTick
  <2>1. UNCHANGED published /\ (callback' = "publish" => callback = "publish")
    BY <1>3 DEF Quiet, CallbackTakesBuffer, PingTick, Suspend, Resume, HeldExpires,
       BrokerPublishes, vars, taskVars, sharedVars, linkVars, brokerVars, history, bounds
  <2>2. ASSUME NEW i \in Numbers, Ahead(i)' PROVE Ahead(i)
    BY <2>1, <2>2 DEF Ahead
  <2>. QED
    BY <1>1, <2>2
<1>. QED
  BY <1>1, <1>2, <1>3

LEMMA NextHandshake ==
  ASSUME TInv, Current, [Next]_vars, ~raced', NEW i \in Ids, Handshake(i)
  PROVE  Handshake(i)'
<1>1. CASE QuietTask
  <2>1. /\ UNCHANGED <<qosQueue, forwarded, txQueue, toBroker, stored>>
        /\ UNCHANGED callback /\ UNCHANGED published
    BY <1>1, QuietTaskSame
  <2>2. IdleMove
    BY <1>1, TaskIsIdle DEF QuietTask
  <2>3. Ahead(i)' => Ahead(i)
    BY <2>1 DEF Ahead
  <2>. QED
    BY <2>1, <2>2, <2>3, SameHandshake
<1>2. CASE Quiet
  <2>1. IdleMove
    BY <1>2, QuietSame DEF IdleMove
  <2>2. i \in Numbers
    BY NumbersType
  <2>. QED
    BY <1>2, <2>1, <2>2, QuietSame, SameHandshake
<1>3. CASE Close \/ Drop \/ BrokerReceives
  BY <1>3, LinkHandshake, BrokerHandshake
<1>4. CASE Prepare \/ Flush \/ CallbackSends
  BY <1>4, PrepareHandshake, FlushHandshake, CallbackHandshake
<1>5. CASE Pruned \/ Acknowledged \/ Track \/ Tracked \/ ReceivePubrec
  BY <1>5, PrunedHandshake, AcknowledgedHandshake, TrackHandshake, TrackedHandshake,
     PubrecHandshake
<1>6. CASE TimePasses \/ \E k \in DOMAIN qosQueue : ExpireEarly(k)
  BY <1>6, ExpiresHandshake DEF TimePasses, Expire, ExpireEarly
<1>. QED
  BY <1>1, <1>2, <1>3, <1>4, <1>5, <1>6 DEF Next, MqttStep, TimerStep, Halt, QuietTask, Quiet

LEMMA RacedStays == TInv /\ [Next]_vars /\ ~raced' => ~raced
<1> SUFFICES ASSUME TInv, [Next]_vars, ~raced' PROVE ~raced
  OBVIOUS
<1>0. raced \in BOOLEAN
  BY DEF TInv, FlagsOK
<1>1. CASE QuietTask
  BY <1>1, QuietTaskSame
<1>2. CASE Quiet
  BY <1>2, QuietSame
<1>3. CASE Close \/ Drop \/ BrokerReceives \/ Prepare \/ Flush
  BY <1>3 DEF Close, Drop, BrokerReceives, Prepare, Flush, history
<1>4. CASE CallbackSends
  BY <1>0, <1>4 DEF CallbackSends
<1>5. CASE Pruned \/ Acknowledged \/ Track \/ Tracked \/ ReceivePubrec
  BY <1>5 DEF Pruned, Acknowledged, Track, Tracked, ReceivePubrec, Receive, history
<1>6. CASE TimePasses \/ \E k \in DOMAIN qosQueue : ExpireEarly(k)
  BY <1>6 DEF TimePasses, Expire, ExpireEarly, Expires
<1>. QED
  BY <1>1, <1>2, <1>3, <1>4, <1>5, <1>6 DEF Next, MqttStep, TimerStep, Halt, QuietTask, Quiet

\* What was read of qosQueue is used before anything is appended, or a callback
\* ran inside the update.
LEMMA NextCurrent ==
  ASSUME TInv, Current, [Next]_vars, ~raced'
  PROVE  Current'
<1>1. CASE QuietTask \/ Close \/ Flush
  <2>1. UNCHANGED qosQueue
    BY <1>1, QuietTaskSame DEF Close, Flush, sharedVars
  <2>2. IdleMove
    BY <1>1, TaskIsIdle DEF QuietTask
  <2>. QED
    BY <2>1, <2>2, IdleCurrent
<1>2. CASE Quiet \/ Drop \/ BrokerReceives
  <2>1. UNCHANGED todo /\ UNCHANGED seen /\ UNCHANGED qosQueue
    BY <1>2, QuietSame DEF Drop, BrokerReceives, taskVars, sharedVars
  <2>. QED
    BY <2>1 DEF Current
<1>3. CASE Prepare
  <2>1. /\ UNCHANGED qosQueue /\ UNCHANGED seen /\ Head(todo).op = "prepare"
        /\ UNCHANGED todo \/ Continue
    BY <1>3 DEF Prepare, At
  <2>2. IdleMove
    BY <2>1 DEF IdleMove, Ends
  <2>. QED
    BY <2>1, <2>2, IdleCurrent
<1>4. CASE CallbackSends
  <2>1. /\ UNCHANGED todo /\ UNCHANGED seen
        /\ UNCHANGED qosQueue \/ Head(todo).op \notin Looked
    BY <1>4 DEF CallbackSends, taskVars, Looked
  <2>. QED
    BY <2>1 DEF Current
<1>5. CASE Pruned
  <2>1. TodoOK' /\ Head(todo').op \notin Looked
    <3> DEFINE a == With("prepare", P(Removed.type, Removed.id))
               b == With("track", P(Removed.type, Removed.id))
    <3>1. Removed \in Entry /\ Then(<<a, b>>)
      BY <1>5, RemovesEntry DEF Pruned, At, TInv
    <3>2. a \in Todo /\ b \in Todo /\ a.op = "prepare"
      BY <3>1, AgainSteps
    <3> HIDE DEF a, b
    <3>3. <<a, b>> \in Seq(Todo) /\ <<a, b>> # <<>> /\ Free(<<a, b>>, {}) /\ <<a, b>>[1] = a
      BY <3>2 DEF Free
    <3>4. Head(todo') = a
      BY <3>1, <3>3, ThenLess
    <3>. QED
      BY <1>5, <3>2, <3>4, PrunedOK DEF Looked
  <2>. QED
    BY <2>1 DEF Current
<1>6. CASE Acknowledged \/ Tracked
  <2>1. Head(todo).op \notin Ends /\ Continue
    BY <1>6 DEF Acknowledged, Tracked, At, Ends
  <2>. QED
    BY <2>1, ContinueTodo DEF Current, TInv
<1>7. CASE Track \/ ReceivePubrec
  <2>1. /\ UNCHANGED qosQueue
        /\ (\E at : Look(at)) \/ Fail
    BY <1>7 DEF Track, ReceivePubrec, Receive, sharedVars
  <2>. QED
    BY <2>1, FailTodo DEF Look, Current
<1>8. CASE TimePasses \/ \E k \in DOMAIN qosQueue : ExpireEarly(k)
  <2>1. UNCHANGED todo /\ Head(todo).op \notin Looked
    BY <1>8 DEF TimePasses, Expire, ExpireEarly, Expires, taskVars, Looked
  <2>. QED
    BY <2>1 DEF Current
<1>. QED
  BY <1>1, <1>2, <1>3, <1>4, <1>5, <1>6, <1>7, <1>8 DEF Next, MqttStep, TimerStep, Halt, QuietTask, Quiet

LEMMA InitFInv == Init => FInv
<1> SUFFICES ASSUME Init PROVE FInv
  OBVIOUS
<1>1. Step("open") \in Idle /\ Step("open").op = "open" /\ todo = <<Step("open")>>
  BY IdleSteps DEF Init, Ops
<1>2. Head(todo) = Step("open") /\ todo \in Seq(Idle)
  BY <1>1
<1>3. Current
  BY <1>1, <1>2 DEF Current, Looked
<1>4. ASSUME NEW i \in Ids PROVE Handshake(i)
  <2>1. Free(todo, PubSends(i)) /\ Free(todo, PubTracks(i)) /\ Free(todo, RelSteps(i))
    BY <1>2, IdleIsFree
  <2>2. /\ txQueue = <<>> /\ toBroker = <<>> /\ qosQueue = <<>> /\ stored = {}
        /\ forwarded[i] = 0
    BY DEF Init
  <2>3. \A S : Free(<<>>, S) /\ Once(<<>>, S)
    BY EmptyIsFree
  <2>4. InOrder(<<>>, i)
    BY DEF InOrder
  <2>5. OneEntry(i) /\ Sends(i)
    BY <2>1, <2>2, <2>3, FreeIsOnce DEF OneEntry, Sends
  <2>6. Order(i) /\ Passed(i) /\ NotYet(i)
    BY <2>1, <2>2, <2>3, <2>4 DEF Order, Passed, NotYet, NoRelease
  <2>. QED
    BY <2>5, <2>6 DEF Handshake
<1>. QED
  BY <1>3, <1>4 DEF FInv

LEMMA NextFInv == TInv /\ FInv /\ [Next]_vars => FInv'
<1> SUFFICES ASSUME TInv, FInv, [Next]_vars PROVE FInv'
  OBVIOUS
<1>1. ASSUME ~raced' PROVE Current' /\ (\A i \in Ids : Handshake(i))'
  <2>1. Current /\ \A i \in Ids : Handshake(i)
    BY <1>1, RacedStays DEF FInv
  <2>2. \A i \in Ids : Handshake(i)'
    BY <1>1, <2>1, NextHandshake
  <2>3. Ids' = Ids
    BY DEF Ids
  <2>. QED
    BY <1>1, <2>1, <2>2, <2>3, NextCurrent
<1>. QED
  BY <1>1 DEF FInv

\* Until the PUBREC has taken its entry out, a publish can be sent again, so it
\* has no PUBREL; after that it cannot, and what is still on its way is before
\* the PUBREL.  Across retries and reconnects the broker passes no message on
\* twice, as long as no callback ran inside an update of qosQueue
\* (mqtt.zig:601-632, 700-717).
THEOREM NoneForwardedTwice == Spec => []ForwardedOnce
<1>1. FInv => ForwardedOnce
  BY DEF FInv, Handshake, Passed, ForwardedOnce
<1>. QED
  BY <1>1, InitFInv, NextFInv, MqttTypesInductive, PTL DEF Spec

-----------------------------------------------------------------------------
(* Acknowledgements: what is expected of the broker *)

\* What belongs to identifier i, by the kind of packet that waits for an answer.
Kinds          == {"publish", "pubrel"}
AnswerTo       == [t \in Kinds |-> IF t = "publish" THEN "pubrec" ELSE "pubcomp"]
Requests(T, i) == {p \in Packet : p.type \in T /\ p.id = i}
Answers(T, i)  == {p \in Packet : p.id = i /\ \E t \in T : p.type = AnswerTo[t]}
Resends(T, i)  == {s \in Todo : s.op = "prepare" /\ s.arg.type \in T /\ s.arg.id = i}
Tracks(T, i)   == {s \in Todo : /\ s.op \in {"track", "tracked"}
                                /\ s.arg.type \in T /\ s.arg.id = i}
Searches(i)    == {s \in Todo : s.op = "search" /\ s.arg.id = i}
Records(T, i)  == {e \in Entry : e.type \in T /\ e.id = i}
Late(i)        == {e \in Entry : e.id = i /\ e.due}

\* The steps that send, search or track such a packet come at once: only those
\* that lead to them are before them in todo.
Urgent == Todo \ Idle
Leads  == {s \in Todo : \/ s.op \in {"acknowledged", "search"}
                        \/ s.op = "prepare" /\ s.arg.type \in Kinds}
Ordered(q) == \A j, k \in 1..Len(q) : j < k /\ q[k] \in Urgent => q[j] \in Leads

\* One packet of i or its answer is under way, or none.
Away(i)  == /\ Free(txQueue, Requests(Kinds, i)) /\ Free(toBroker, Requests(Kinds, i))
            /\ Free(toClient, Answers(Kinds, i))
Silent(i) == Free(todo, Resends(Kinds, i)) /\ Away(i)
OneToken(i) ==
  /\ Once(todo, Resends(Kinds, i)) /\ Once(txQueue, Requests(Kinds, i))
  /\ Once(toBroker, Requests(Kinds, i)) /\ Once(toClient, Answers(Kinds, i))
  /\ Free(todo, Resends(Kinds, i)) \/ Away(i)
  /\ \/ Free(txQueue, Requests(Kinds, i))
     \/ Free(toBroker, Requests(Kinds, i)) /\ Free(toClient, Answers(Kinds, i))
  /\ Free(toBroker, Requests(Kinds, i)) \/ Free(toClient, Answers(Kinds, i))

\* The entry that the next step takes out because its answer has come.
Going(i) == Head(todo).op = "acknowledged" /\ qosQueue[seen.at] \in Records(Kinds, i)

\* It is tracked once, by an entry or by a step that will put the entry back.
OneRecord(i) ==
  /\ Once(qosQueue, Records(Kinds, i)) /\ Once(todo, Tracks(Kinds, i))
  /\ Free(qosQueue, Records(Kinds, i)) \/ Free(todo, Tracks(Kinds, i)) \/ Going(i)

\* Before it is made there is nothing of it.
Fresh(i) == Ahead(i) => /\ Silent(i) /\ Free(qosQueue, Records(Kinds, i))
                        /\ Free(todo, Tracks(Kinds, i))

\* What is under way is tracked, on the connection by an entry.
Backed(t, i) ==
  /\ Free(todo, Resends({t}, i)) \/ ~Free(todo, Tracks({t}, i))
  /\ \/ Free(txQueue, Requests({t}, i)) \/ ~Free(todo, Tracks({t}, i))
     \/ ~Free(qosQueue, Records({t}, i))
  /\ \/ Free(toBroker, Requests({t}, i)) /\ Free(toClient, Answers({t}, i))
     \/ ~Free(qosQueue, Records({t}, i))

\* The deadline passes only when nothing is under way; when the answer has come
\* nothing else is; a search is for a packet that will be tracked.
LateSilent(i) == Free(qosQueue, Late(i)) \/ Silent(i)
Leaving(i)    == Going(i) => Away(i)
Searching(i)  == Free(todo, Searches(i)) \/ ~Free(todo, Tracks(Kinds, i))

Follow(i) == /\ OneToken(i) /\ OneRecord(i) /\ Fresh(i) /\ (\A t \in Kinds : Backed(t, i))
             /\ LateSilent(i) /\ Leaving(i) /\ Searching(i)

\* The entry that is about to be sent again is one whose deadline has passed.
Overdue == Head(todo).op = "pruned" => qosQueue[seen.at].due

AInv ==
  /\ Ordered(todo)
  /\ ~raced /\ ~early => Overdue /\ \A i \in Numbers : Follow(i)

-----------------------------------------------------------------------------
(* Sequences that hold the same of S *)

Same(r, q, S) == NoMore(r, q, S) /\ (Free(r, S) => Free(q, S))

LEMMA SameIsSame == ASSUME NEW q, NEW S PROVE Same(q, q, S)
BY SameIsNoMore DEF Same

LEMMA SubsetIsFree == ASSUME NEW q, NEW S, NEW R, R \subseteq S, Free(q, S) PROVE Free(q, R)
BY DEF Free

LEMMA SameInTail ==
  ASSUME NEW S, NEW T, NEW q \in Seq(T), q # <<>>, Head(q) \notin S
  PROVE  Same(Tail(q), q, S)
<1> DEFINE t == Tail(q)
<1>1. /\ Len(q) \in Nat \ {0} /\ Len(t) = Len(q) - 1 /\ Head(q) = q[1]
      /\ \A k \in 1..Len(t) : t[k] = q[k + 1]
  BY TailIsSeq
<1>2. NoMore(t, q, S)
  BY FewerInTail
<1> HIDE DEF t
<1>3. ASSUME Free(t, S), NEW k \in 1..Len(q) PROVE q[k] \notin S
  <2>1. CASE k = 1
    BY <1>1, <2>1
  <2>2. CASE k # 1
    <3>1. k - 1 \in 1..Len(t) /\ (k - 1) + 1 = k
      BY <1>1, <2>2
    <3>2. t[k - 1] = q[k]
      BY <1>1, <3>1
    <3>. QED
      BY <1>3, <3>1, <3>2 DEF Free
  <2>. QED
    BY <2>1, <2>2
<1>4. Same(t, q, S)
  BY <1>2, <1>3 DEF Same, Free
<1>. QED
  BY <1>4 DEF t

LEMMA SameInAppend ==
  ASSUME NEW S, NEW T, NEW q \in Seq(T), NEW e \in T
  PROVE  /\ e \notin S => Same(Append(q, e), q, S)
         /\ Free(Append(q, e), S) => Free(q, S) /\ e \notin S
<1> DEFINE r == Append(q, e)
<1>1. /\ Len(q) \in Nat /\ Len(r) = Len(q) + 1 /\ r[Len(q) + 1] = e
      /\ \A k \in 1..Len(q) : r[k] = q[k]
  BY AppendProperties, LenProperties
<1>2. e \notin S => NoMore(r, q, S)
  BY MoreInAppend
<1> HIDE DEF r
<1>3. Free(r, S) => Free(q, S) /\ e \notin S
  <2>1. Len(q) + 1 \in 1..Len(r) /\ \A k \in 1..Len(q) : k \in 1..Len(r)
    BY <1>1
  <2>. QED
    BY <1>1, <2>1 DEF Free
<1>. QED
  BY <1>2, <1>3 DEF Same, r

LEMMA SameInRest ==
  ASSUME NEW S, NEW T, NEW q \in Seq(T), NEW n \in 1..Len(q), q[n] \notin S
  PROVE  Same(RemoveAt(q, n), q, S)
<1> DEFINE r == RemoveAt(q, n)
<1>1. /\ Len(q) \in Nat /\ Len(r) = Len(q) - 1
      /\ \A k \in 1..(Len(q) - 1) : r[k] = IF k < n THEN q[k] ELSE q[k + 1]
  BY RemoveAtIsSeq, LenProperties
<1>2. NoMore(r, q, S)
  BY FewerInRest
<1> HIDE DEF r
<1>3. ASSUME Free(r, S), NEW k \in 1..Len(q) PROVE q[k] \notin S
  <2>1. CASE k = n
    BY <2>1
  <2>2. CASE k < n
    <3>1. k \in 1..Len(r) /\ r[k] = q[k]
      BY <1>1, <2>2
    <3>. QED
      BY <1>3, <3>1 DEF Free
  <2>3. CASE k > n
    <3>1. k - 1 \in 1..Len(r) /\ ~(k - 1 < n) /\ (k - 1) + 1 = k
      BY <1>1, <2>3
    <3>2. r[k - 1] = q[k]
      BY <1>1, <3>1
    <3>. QED
      BY <1>3, <3>1, <3>2 DEF Free
  <2>. QED
    BY <1>1, <2>1, <2>2, <2>3
<1>4. Same(r, q, S)
  BY <1>2, <1>3 DEF Same, Free
<1>. QED
  BY <1>4 DEF r

\* Element by element.
LEMMA SamePlaces ==
  ASSUME NEW S, NEW q, NEW r, Len(r) = Len(q),
         \A k \in 1..Len(q) : r[k] \in S <=> q[k] \in S
  PROVE  Same(r, q, S)
BY DEF Same, NoMore, Free, Once

LEMMA ConcatPlaces ==
  ASSUME NEW T, NEW s \in Seq(T), NEW t \in Seq(T)
  PROVE  /\ s \o t \in Seq(T) /\ Len(s) \in Nat /\ Len(t) \in Nat
         /\ Len(s \o t) = Len(s) + Len(t)
         /\ \A k \in 1..Len(s) : (s \o t)[k] = s[k]
         /\ \A k \in 1..Len(t) : (s \o t)[Len(s) + k] = t[k]
         /\ \A k \in 1..Len(s \o t) :
              \/ k \in 1..Len(s) /\ (s \o t)[k] = s[k]
              \/ k > Len(s) /\ k - Len(s) \in 1..Len(t) /\ (s \o t)[k] = t[k - Len(s)]
<1> DEFINE r == s \o t
<1>1. /\ r \in Seq(T) /\ Len(s) \in Nat /\ Len(t) \in Nat /\ Len(r) = Len(s) + Len(t)
      /\ \A k \in 1..(Len(s) + Len(t)) : r[k] = IF k <= Len(s) THEN s[k] ELSE t[k - Len(s)]
  BY ConcatProperties, LenProperties
<1> HIDE DEF r
<1>2. \A k \in 1..Len(s) : r[k] = s[k]
  BY <1>1
<1>3. ASSUME NEW k \in 1..Len(t) PROVE r[Len(s) + k] = t[k]
  <2>1. Len(s) + k \in 1..(Len(s) + Len(t)) /\ ~(Len(s) + k <= Len(s)) /\ Len(s) + k - Len(s) = k
    BY <1>1
  <2>. QED
    BY <1>1, <2>1
<1>4. ASSUME NEW k \in 1..Len(r)
      PROVE  \/ k \in 1..Len(s) /\ r[k] = s[k]
             \/ k > Len(s) /\ k - Len(s) \in 1..Len(t) /\ r[k] = t[k - Len(s)]
  <2>1. CASE k <= Len(s)
    BY <1>1, <2>1
  <2>2. CASE ~(k <= Len(s))
    <3>1. k > Len(s) /\ k - Len(s) \in 1..Len(t)
      BY <1>1, <2>2
    <3>. QED
      BY <1>1, <2>2, <3>1
  <2>. QED
    BY <2>1, <2>2
<1>. QED
  BY <1>1, <1>2, <1>3, <1>4 DEF r

LEMMA FreeInFront ==
  ASSUME NEW S, NEW T, NEW s \in Seq(T), NEW t \in Seq(T)
  PROVE  Free(s \o t, S) <=> Free(s, S) /\ Free(t, S)
<1>1. Free(s \o t, S) => Free(s, S)
  <2>1. \A k \in 1..Len(s) : k \in 1..Len(s \o t)
    BY ConcatPlaces
  <2>. QED
    BY <2>1, ConcatPlaces DEF Free
<1>2. Free(s \o t, S) => Free(t, S)
  <2>1. \A k \in 1..Len(t) : Len(s) + k \in 1..Len(s \o t)
    BY ConcatPlaces
  <2>. QED
    BY <2>1, ConcatPlaces DEF Free
<1>3. Free(s, S) /\ Free(t, S) => Free(s \o t, S)
  BY ConcatPlaces DEF Free
<1>. QED
  BY <1>1, <1>2, <1>3

-----------------------------------------------------------------------------
(* The urgent steps *)

LEMMA UrgentSets ==
  ASSUME NEW T \in SUBSET Kinds, NEW i
  PROVE  Resends(T, i) \subseteq Urgent /\ Tracks(T, i) \subseteq Urgent /\ Searches(i) \subseteq Urgent
BY DEF Resends, Tracks, Searches, Urgent, Idle, Kinds

LEMMA CalmIsFree ==
  ASSUME NEW q, Free(q, Urgent), NEW T \in SUBSET Kinds, NEW i
  PROVE  Free(q, Resends(T, i)) /\ Free(q, Tracks(T, i)) /\ Free(q, Searches(i))
BY UrgentSets, SubsetIsFree

LEMMA IdleIsCalm == ASSUME NEW s \in Seq(Idle) PROVE Free(s, Urgent) /\ s \in Seq(Todo)
<1>1. \A k \in 1..Len(s) : s[k] \in Idle
  BY ElementOfSeq
<1>. QED
  BY <1>1, IdleIsFree DEF Free, Urgent

LEMMA FreeIsOrdered == ASSUME NEW q, Free(q, Urgent) PROVE Ordered(q)
BY DEF Free, Ordered

LEMMA OrderedInTail ==
  ASSUME NEW q \in Seq(Todo), q # <<>>, Ordered(q)
  PROVE  /\ Ordered(Tail(q))
         /\ Head(q) \notin Leads => Free(Tail(q), Urgent)
<1> DEFINE t == Tail(q)
<1>1. /\ Len(q) \in Nat \ {0} /\ Len(t) = Len(q) - 1 /\ Head(q) = q[1]
      /\ \A k \in 1..Len(t) : t[k] = q[k + 1]
  BY TailIsSeq
<1> HIDE DEF t
<1>2. \A k \in 1..Len(t) : k + 1 \in 1..Len(q) /\ 1 < k + 1 /\ 1 \in 1..Len(q) /\ k \in Int
  BY <1>1
<1>3. ASSUME NEW j \in 1..Len(t), NEW k \in 1..Len(t), j < k, t[k] \in Urgent PROVE t[j] \in Leads
  <2>1. j + 1 < k + 1 /\ j + 1 \in 1..Len(q) /\ k + 1 \in 1..Len(q) /\ q[k + 1] \in Urgent
    BY <1>1, <1>2, <1>3
  <2>. QED
    BY <1>1, <2>1 DEF Ordered
<1>4. ASSUME NEW k \in 1..Len(t), t[k] \in Urgent PROVE q[1] \in Leads
  BY <1>1, <1>2, <1>4 DEF Ordered
<1>5. Ordered(t)
  BY <1>3 DEF Ordered
<1>6. Head(q) \notin Leads => Free(t, Urgent)
  BY <1>1, <1>4 DEF Free
<1>. QED
  BY <1>5, <1>6 DEF t

LEMMA OrderedInFront ==
  ASSUME NEW s \in Seq(Todo), NEW t \in Seq(Todo), Ordered(s),
         Free(t, Urgent) \/ (Ordered(t) /\ \A k \in 1..Len(s) : s[k] \in Leads)
  PROVE  Ordered(s \o t)
<1> DEFINE r == s \o t
<1>1. /\ Len(s) \in Nat /\ Len(t) \in Nat /\ Len(r) = Len(s) + Len(t)
      /\ \A k \in 1..Len(r) :
           \/ k \in 1..Len(s) /\ r[k] = s[k]
           \/ k > Len(s) /\ k - Len(s) \in 1..Len(t) /\ r[k] = t[k - Len(s)]
  BY ConcatPlaces
<1> HIDE DEF r
<1>2. ASSUME NEW j \in 1..Len(r), NEW k \in 1..Len(r), j < k, r[k] \in Urgent PROVE r[j] \in Leads
  <2>1. CASE k \in 1..Len(s) /\ r[k] = s[k]
    <3>1. j \in 1..Len(s) /\ ~(j > Len(s))
      BY <1>1, <1>2, <2>1
    <3>2. r[j] = s[j]
      BY <1>1, <3>1
    <3>. QED
      BY <1>2, <2>1, <3>1, <3>2 DEF Ordered
  <2>2. CASE k > Len(s) /\ k - Len(s) \in 1..Len(t) /\ r[k] = t[k - Len(s)]
    <3>1. Ordered(t) /\ \A m \in 1..Len(s) : s[m] \in Leads
      BY <1>2, <2>2 DEF Free
    <3>2. CASE j \in 1..Len(s) /\ r[j] = s[j]
      BY <3>1, <3>2
    <3>3. CASE j > Len(s) /\ j - Len(s) \in 1..Len(t) /\ r[j] = t[j - Len(s)]
      <4>1. j - Len(s) < k - Len(s)
        BY <1>1, <1>2
      <4>. QED
        BY <1>2, <2>2, <3>1, <3>3, <4>1 DEF Ordered
    <3>. QED
      BY <1>1, <3>2, <3>3
  <2>. QED
    BY <1>1, <2>1, <2>2
<1>3. Ordered(r)
  BY <1>2 DEF Ordered
<1>. QED
  BY <1>3 DEF r

\* Where the task stands at a step that leads to none, there is none.
LEMMA CalmHead ==
  ASSUME TInv, Ordered(todo), Head(todo) \notin Leads
  PROVE  /\ Free(Tail(todo), Urgent)
         /\ Head(todo) \notin Urgent => Free(todo, Urgent)
<1>1. todo \in Seq(Todo) /\ todo # <<>>
  BY HeadOfTodo DEF TInv, TodoOK
<1>2. Free(Tail(todo), Urgent)
  BY <1>1, OrderedInTail
<1>3. Head(todo) \notin Urgent => Free(todo, Urgent)
  BY <1>1, <1>2, SameInTail DEF Same
<1>. QED
  BY <1>2, <1>3

CalmOps == Ops \ {"search", "prepare", "track", "tracked", "acknowledged"}

LEMMA CalmStep ==
  ASSUME TInv, Ordered(todo),
         \/ Head(todo).op \in CalmOps
         \/ Head(todo).op = "prepare" /\ Arg.type \notin Kinds
  PROVE  Free(todo, Urgent) /\ Head(todo).op # "acknowledged"
<1>1. Head(todo) \in Todo
  BY HeadOfTodo DEF TInv
<1>2. Head(todo) \notin Leads /\ Head(todo) \notin Urgent /\ Head(todo).op # "acknowledged"
  BY <1>1 DEF Leads, Urgent, Idle, CalmOps, Kinds, Arg
<1>. QED
  BY <1>2, CalmHead

LEMMA CalmMove ==
  ASSUME TInv, IdleMove, Free(todo, Urgent)
  PROVE  Free(todo', Urgent)
<1>1. CASE UNCHANGED <<todo, seen>>
  BY <1>1
<1>2. CASE Continue
  BY <1>2, HeadOfTodo, FewerInTail DEF Continue, NoMore, TInv, TodoOK
<1>3. CASE Fail
  BY <1>3, LoopIsIdle, DisconnectIsIdle, IdleIsCalm DEF Fail
<1>4. CASE todo' = Connect
  BY <1>4, ConnectIsIdle, IdleIsCalm
<1>5. ASSUME NEW s, Puts(s) PROVE Free(todo', Urgent)
  <2>1. s \in Seq(Todo) /\ s # <<>> /\ Then(s) /\ Free(s, Urgent)
    BY <1>5, IdleIsCalm DEF Puts
  <2>. QED
    BY <2>1, ThenLess DEF NoMore
<1>. QED
  BY <1>1, <1>2, <1>3, <1>4, <1>5 DEF IdleMove

\* The steps of the task at which nothing urgent is before it.
CalmTask ==
  \/ Open \/ OpenFails \/ AwaitConnack \/ AwaitSuback \/ AwaitTimesOut \/ StartTimers \/ StopTimers
  \/ Close \/ Flush \/ Prune \/ PruneHeld \/ PollTimesOut \/ ReceivePublish \/ Hold \/ Deliver
  \/ ReceivePubrel \/ ReceivePubcomp \/ ReceivePingresp \/ ReceiveLate

LEMMA CalmTaskHead ==
  ASSUME TInv, CalmTask
  PROVE  IdleMove /\ Head(todo).op \in CalmOps
<1>1. IdleMove
  BY TaskIsIdle DEF CalmTask
<1>2. Head(todo).op \in CalmOps
  BY DEF CalmTask, Open, OpenFails, AwaitConnack, AwaitSuback, AwaitTimesOut, StartTimers, StopTimers,
     Close, Flush, Prune, PruneHeld, PollTimesOut, ReceivePublish, Hold, Deliver, ReceivePubrel,
     ReceivePubcomp, ReceivePingresp, ReceiveLate, Receive, At, CalmOps, Ops
<1>. QED
  BY <1>1, <1>2

LEMMA CalmTaskTodo ==
  ASSUME TInv, Ordered(todo), CalmTask
  PROVE  Free(todo, Urgent) /\ Free(todo', Urgent) /\ Head(todo).op # "acknowledged"
BY CalmTaskHead, CalmStep, CalmMove

\* The steps after a PUBREC.
LEMMA PubrecSteps ==
  ASSUME NEW j \in Ids
  PROVE  LET s == <<Step("acknowledged"), With("search", P("pubrel", j)),
                    With("prepare", P("pubrel", j)), With("track", P("pubrel", j)), Poll>>
         IN  /\ s \in Seq(Todo) /\ s # <<>> /\ Ordered(s) /\ s[1].op = "acknowledged"
             /\ Len(s) = 5
             /\ s[1] \notin Urgent /\ s[2] \in Searches(j) /\ s[3] \in Resends({"pubrel"}, j)
             /\ s[4] \in Tracks({"pubrel"}, j) /\ s[5] \notin Urgent
             /\ s[2].op = "search" /\ s[3].op = "prepare" /\ s[4].op = "track"
<1> DEFINE a == Step("acknowledged")  b == With("search", P("pubrel", j))
           c == With("prepare", P("pubrel", j))  d == With("track", P("pubrel", j))
<1>1. a \in Plain /\ b \in Plain /\ c \in Plain /\ d \in Plain /\ Poll \in Plain
      /\ a.op = "acknowledged" /\ b.op = "search" /\ c.op = "prepare" /\ d.op = "track"
      /\ Poll.op = "poll"
  BY PlainSteps DEF Poll, Ops
<1>2. b.arg = P("pubrel", j) /\ c.arg = P("pubrel", j) /\ d.arg = P("pubrel", j)
      /\ P("pubrel", j).type = "pubrel" /\ P("pubrel", j).id = j
  BY DEF With, P
<1>3. a \in Todo /\ b \in Todo /\ c \in Todo /\ d \in Todo /\ Poll \in Todo
  BY <1>1, PlainTodo
<1>4. /\ a \in Leads /\ b \in Leads /\ c \in Leads /\ Poll \notin Urgent /\ a \notin Urgent
      /\ b \in Searches(j) /\ c \in Resends({"pubrel"}, j) /\ d \in Tracks({"pubrel"}, j)
  BY <1>1, <1>2, <1>3 DEF Leads, Urgent, Idle, Kinds, Searches, Resends, Tracks
<1> HIDE DEF a, b, c, d
<1>5. <<a, b, c, d, Poll>> \in Seq(Todo) /\ <<a, b, c, d, Poll>> # <<>> /\ Len(<<a, b, c, d, Poll>>) = 5
  BY <1>3
<1>6. Ordered(<<a, b, c, d, Poll>>)
  BY <1>4 DEF Ordered
<1>7. /\ <<a, b, c, d, Poll>>[1] = a /\ <<a, b, c, d, Poll>>[2] = b
      /\ <<a, b, c, d, Poll>>[3] = c /\ <<a, b, c, d, Poll>>[4] = d
      /\ <<a, b, c, d, Poll>>[5] = Poll
  OBVIOUS
<1>8. /\ <<a, b, c, d, Poll>> \in Seq(Todo) /\ <<a, b, c, d, Poll>> # <<>> /\ Ordered(<<a, b, c, d, Poll>>)
      /\ <<a, b, c, d, Poll>>[1].op = "acknowledged" /\ Len(<<a, b, c, d, Poll>>) = 5
      /\ <<a, b, c, d, Poll>>[1] \notin Urgent /\ <<a, b, c, d, Poll>>[2] \in Searches(j)
      /\ <<a, b, c, d, Poll>>[3] \in Resends({"pubrel"}, j)
      /\ <<a, b, c, d, Poll>>[4] \in Tracks({"pubrel"}, j) /\ <<a, b, c, d, Poll>>[5] \notin Urgent
      /\ <<a, b, c, d, Poll>>[2].op = "search" /\ <<a, b, c, d, Poll>>[3].op = "prepare"
      /\ <<a, b, c, d, Poll>>[4].op = "track"
  BY <1>1, <1>4, <1>5, <1>6, <1>7
<1>. QED
  BY <1>8 DEF a, b, c, d

LEMMA NextOrdered ==
  ASSUME TInv, Ordered(todo), [Next]_vars
  PROVE  Ordered(todo')
<1>0. /\ todo \in Seq(Todo) /\ todo # <<>> /\ Head(todo) \in Todo /\ Tail(todo) \in Seq(Todo)
      /\ Ordered(Tail(todo))
  BY HeadOfTodo, TailIsSeq, OrderedInTail DEF TInv, TodoOK
<1>1. CASE CalmTask
  BY <1>1, CalmTaskTodo, FreeIsOrdered
<1>2. CASE \/ Quiet \/ Drop \/ BrokerReceives \/ CallbackSends \/ TimePasses
           \/ \E k \in DOMAIN qosQueue : ExpireEarly(k)
  <2>1. UNCHANGED todo
    BY <1>2, QuietSame DEF Drop, BrokerReceives, CallbackSends, TimePasses, Expire, ExpireEarly,
       Expires, taskVars
  <2>. QED
    BY <2>1
<1>3. CASE Prepare \/ Acknowledged \/ Tracked
  <2>1. UNCHANGED todo \/ Continue
    BY <1>3 DEF Prepare, Acknowledged, Tracked
  <2>. QED
    BY <1>0, <2>1 DEF Continue
<1>4. CASE Search
  <2>1. Continue \/ Then(<<Step("acknowledged")>>)
    BY <1>4 DEF Search
  <2>2. Step("acknowledged") \in Leads /\ Step("acknowledged") \in Todo
    BY PlainSteps, PlainTodo DEF Leads, Ops
  <2>3. /\ <<Step("acknowledged")>> \in Seq(Todo) /\ Ordered(<<Step("acknowledged")>>)
        /\ \A k \in 1..Len(<<Step("acknowledged")>>) : <<Step("acknowledged")>>[k] \in Leads
    BY <2>2 DEF Ordered
  <2>. QED
    BY <1>0, <2>1, <2>3, OrderedInFront DEF Continue, Then
<1>5. CASE Pruned
  <2> DEFINE a == With("prepare", P(Removed.type, Removed.id))
             b == With("track", P(Removed.type, Removed.id))
  <2>1. Removed \in Entry /\ Then(<<a, b>>) /\ Head(todo).op = "pruned"
    BY <1>5, RemovesEntry DEF Pruned, At, TInv
  <2>2. a \in Todo /\ b \in Todo /\ a.op = "prepare" /\ a.arg.type \in Kinds
    <3>1. a.arg.type = Removed.type
      BY DEF With, P
    <3>. QED
      BY <2>1, <3>1, AgainSteps DEF Entry, Kinds
  <2>3. a \in Leads
    BY <2>2 DEF Leads
  <2> HIDE DEF a, b
  <2>4. <<a, b>> \in Seq(Todo) /\ Ordered(<<a, b>>)
    BY <2>2, <2>3 DEF Ordered
  <2>5. Head(todo) \notin Leads
    BY <2>1 DEF Leads
  <2>. QED
    BY <1>0, <2>1, <2>4, <2>5, CalmHead, OrderedInFront DEF Then
<1>6. CASE Track
  <2>1. Head(todo).op = "track" /\ Then(<<With("tracked", Arg)>>)
    BY <1>6 DEF Track, At
  <2>2. With("tracked", Arg) \in Todo
    BY <1>0, <2>1 DEF Todo, With, Arg, Ops
  <2>3. <<With("tracked", Arg)>> \in Seq(Todo) /\ Ordered(<<With("tracked", Arg)>>)
    BY <2>2 DEF Ordered
  <2>4. Head(todo) \notin Leads
    BY <2>1 DEF Leads
  <2>. QED
    BY <1>0, <2>1, <2>3, <2>4, CalmHead, OrderedInFront DEF Then
<1>7. CASE ReceivePubrec
  <2>1. PICK p \in Incoming :
          /\ Receive(p)
          /\ \/ /\ Entries("publish", p.id) # {} /\ Look(FirstOf(Entries("publish", p.id)))
                /\ Then(<<Step("acknowledged"), With("search", P("pubrel", p.id)),
                          With("prepare", P("pubrel", p.id)),
                          With("track", P("pubrel", p.id)), Poll>>)
             \/ Fail
    BY <1>7 DEF ReceivePubrec
  <2>2. Head(todo).op = "poll" /\ UNCHANGED qosQueue
    BY <2>1 DEF Receive, At
  <2>3. Free(todo, Urgent) /\ Free(Tail(todo), Urgent)
    <3>1. Free(todo, Urgent)
      BY <2>2, CalmStep DEF CalmOps, Ops
    <3>. QED
      BY <1>0, <3>1, FewerInTail DEF NoMore
  <2>4. CASE Fail
    <3>1. IdleMove
      BY <2>2, <2>4 DEF IdleMove
    <3>. QED
      BY <2>3, <3>1, CalmMove, FreeIsOrdered
  <2>5. CASE /\ Entries("publish", p.id) # {} /\ Look(FirstOf(Entries("publish", p.id)))
             /\ Then(<<Step("acknowledged"), With("search", P("pubrel", p.id)),
                       With("prepare", P("pubrel", p.id)),
                       With("track", P("pubrel", p.id)), Poll>>)
    <3>1. p.id \in Ids
      BY <2>2, <2>5, LooksAtEntry DEF TInv
    <3>2. ASSUME NEW s \in Seq(Todo), Ordered(s), Then(s) PROVE Ordered(todo')
      BY <1>0, <2>3, <3>2, OrderedInFront DEF Then
    <3>. QED
      BY <2>5, <3>1, <3>2, PubrecSteps
  <2>. QED
    BY <2>1, <2>4, <2>5
<1>. QED
  BY <1>1, <1>2, <1>3, <1>4, <1>5, <1>6, <1>7 DEF Next, MqttStep, TimerStep, Halt, CalmTask, Quiet

-----------------------------------------------------------------------------
(* Steps that move no packet of i and no entry of i *)

TodoSame(i) ==
  /\ \A T \in SUBSET Kinds : /\ Same(todo', todo, Resends(T, i))
                             /\ Same(todo', todo, Tracks(T, i))
  /\ Free(todo, Searches(i)) => Free(todo', Searches(i))
QueueLess(i) ==
  /\ \A T \in SUBSET Kinds : NoMore(qosQueue', qosQueue, Records(T, i))
  /\ \/ Away(i)
     \/ \A T \in SUBSET Kinds : Same(qosQueue', qosQueue, Records(T, i))
  /\ Free(qosQueue, Late(i)) => Free(qosQueue', Late(i)) \/ Silent(i)
WayLess(i) ==
  \A T \in SUBSET Kinds : /\ NoMore(txQueue', txQueue, Requests(T, i))
                          /\ NoMore(toBroker', toBroker, Requests(T, i))
                          /\ NoMore(toClient', toClient, Answers(T, i))

LEMMA FollowStep ==
  ASSUME NEW i, Follow(i), TodoSame(i), QueueLess(i), WayLess(i), Ahead(i)' => Ahead(i),
         Going(i) => Going(i)' \/ Free(qosQueue', Records(Kinds, i)),
         Going(i)' => Going(i) \/ Away(i)'
  PROVE  Follow(i)'
<1>0. Kinds \in SUBSET Kinds /\ \A t \in Kinds : {t} \in SUBSET Kinds
  OBVIOUS
<1>1. /\ NoMore(txQueue', txQueue, Requests(Kinds, i)) /\ NoMore(toBroker', toBroker, Requests(Kinds, i))
      /\ NoMore(toClient', toClient, Answers(Kinds, i))
  BY <1>0 DEF WayLess
<1>2. /\ Same(todo', todo, Resends(Kinds, i)) /\ Same(todo', todo, Tracks(Kinds, i))
      /\ Free(todo, Searches(i)) => Free(todo', Searches(i))
  BY <1>0 DEF TodoSame
<1>3. /\ NoMore(qosQueue', qosQueue, Records(Kinds, i))
      /\ Free(qosQueue, Late(i)) => Free(qosQueue', Late(i)) \/ Silent(i)
  BY <1>0 DEF QueueLess
<1>4. Away(i) => Away(i)'
  BY <1>1 DEF Away, NoMore
<1>5. Silent(i) => Silent(i)'
  BY <1>2, <1>4 DEF Silent, Same, NoMore
<1>6. OneToken(i)'
  <2>1. OneToken(i)
    BY DEF Follow
  <2>. QED
    BY <1>1, <1>2, <1>4, <2>1 DEF OneToken, Same, NoMore
<1>7. OneRecord(i)'
  <2>1. OneRecord(i)
    BY DEF Follow
  <2>. QED
    BY <1>2, <1>3, <2>1 DEF OneRecord, Same, NoMore
<1>8. Fresh(i)'
  <2>1. Fresh(i)
    BY DEF Follow
  <2>. QED
    BY <1>2, <1>3, <1>5, <2>1 DEF Fresh, Same, NoMore
<1>9. ASSUME NEW t \in Kinds PROVE Backed(t, i)'
  <2>1. Backed(t, i)
    BY DEF Follow
  <2>2. /\ NoMore(txQueue', txQueue, Requests({t}, i)) /\ NoMore(toBroker', toBroker, Requests({t}, i))
        /\ NoMore(toClient', toClient, Answers({t}, i))
    BY <1>0 DEF WayLess
  <2>3. Same(todo', todo, Resends({t}, i)) /\ Same(todo', todo, Tracks({t}, i))
    BY <1>0 DEF TodoSame
  <2>4. Free(todo', Resends({t}, i)) \/ ~Free(todo', Tracks({t}, i))
    BY <2>1, <2>3 DEF Backed, Same, NoMore
  <2>5. CASE Away(i)
    <3>1. /\ Free(txQueue, Requests({t}, i)) /\ Free(toBroker, Requests({t}, i))
          /\ Free(toClient, Answers({t}, i))
      BY <2>5 DEF Away, Free, Requests, Answers
    <3>. QED
      BY <2>2, <2>4, <3>1 DEF Backed, NoMore
  <2>6. CASE ~Away(i)
    <3>1. Same(qosQueue', qosQueue, Records({t}, i))
      BY <1>0, <2>6 DEF QueueLess
    <3>. QED
      BY <2>1, <2>2, <2>3, <2>4, <3>1 DEF Backed, NoMore, Same
  <2>. QED
    BY <2>5, <2>6
<1>10. LateSilent(i)'
  <2>1. LateSilent(i)
    BY DEF Follow
  <2>. QED
    BY <1>3, <1>5, <2>1 DEF LateSilent
<1>11. Leaving(i)'
  <2>1. Leaving(i)
    BY DEF Follow
  <2>. QED
    BY <1>4, <2>1 DEF Leaving
<1>12. Searching(i)'
  <2>1. Searching(i)
    BY DEF Follow
  <2>. QED
    BY <1>2, <2>1 DEF Searching, Same
<1>. QED
  BY <1>6, <1>7, <1>8, <1>9, <1>10, <1>11, <1>12 DEF Follow

LEMMA CalmSame ==
  ASSUME NEW i, Free(todo, Urgent), Free(todo', Urgent)
  PROVE  TodoSame(i)
<1>1. ASSUME NEW q, Free(q, Urgent), NEW T \in SUBSET Kinds
      PROVE  /\ Free(q, Resends(T, i)) /\ Free(q, Tracks(T, i)) /\ Free(q, Searches(i))
             /\ Once(q, Resends(T, i)) /\ Once(q, Tracks(T, i))
  BY <1>1, CalmIsFree, FreeIsOnce
<1>2. ASSUME NEW T \in SUBSET Kinds
      PROVE  Same(todo', todo, Resends(T, i)) /\ Same(todo', todo, Tracks(T, i))
  BY <1>1 DEF Same, NoMore
<1>3. Free(todo', Searches(i))
  BY <1>1, Kinds \in SUBSET Kinds
<1>. QED
  BY <1>2, <1>3 DEF TodoSame

LEMMA TodoStays == ASSUME NEW i, UNCHANGED todo PROVE TodoSame(i)
BY SameIsSame DEF TodoSame

LEMMA TodoPasses ==
  ASSUME TInv, Continue, NEW i, Head(todo) \notin Resends(Kinds, i),
         Head(todo) \notin Tracks(Kinds, i)
  PROVE  TodoSame(i)
<1>1. todo \in Seq(Todo) /\ todo # <<>>
  BY HeadOfTodo DEF TInv, TodoOK
<1>2. ASSUME NEW T \in SUBSET Kinds
      PROVE  Head(todo) \notin Resends(T, i) /\ Head(todo) \notin Tracks(T, i)
  BY DEF Resends, Tracks
<1>3. ASSUME NEW T \in SUBSET Kinds
      PROVE  Same(todo', todo, Resends(T, i)) /\ Same(todo', todo, Tracks(T, i))
  BY <1>1, <1>2, SameInTail DEF Continue
<1>4. Free(todo, Searches(i)) => Free(todo', Searches(i))
  BY <1>1, FewerInTail DEF Continue, NoMore
<1>. QED
  BY <1>3, <1>4 DEF TodoSame

LEMMA QueueStays == ASSUME NEW i, UNCHANGED qosQueue PROVE QueueLess(i)
BY SameIsSame DEF QueueLess, Same

LEMMA LateIsRecord == ASSUME NEW i PROVE Late(i) \subseteq Records(Kinds, i)
BY DEF Late, Records, Kinds, Entry

\* What the client received or lost.
LEMMA WayStays ==
  ASSUME TInv, NEW i, txQueue' = txQueue, toBroker' \in {toBroker, <<>>},
         \/ toClient' \in {toClient, <<>>}
         \/ toClient # <<>> /\ toClient' = Tail(toClient)
  PROVE  WayLess(i)
<1>1. ASSUME NEW S PROVE NoMore(toBroker', toBroker, S)
  BY SameIsNoMore, EmptyIsFree DEF NoMore
<1>2. ASSUME NEW S PROVE NoMore(toClient', toClient, S)
  <2>1. CASE toClient' = toClient
    BY <2>1, SameIsNoMore
  <2>2. CASE toClient' = <<>>
    BY <2>2, EmptyIsFree DEF NoMore
  <2>3. CASE toClient # <<>> /\ toClient' = Tail(toClient)
    BY <2>3, FewerInTail DEF TInv, QueuesOK
  <2>. QED
    BY <2>1, <2>2, <2>3
<1>. QED
  BY <1>1, <1>2, SameIsNoMore DEF WayLess

\* Steps that do not come from or lead to an acknowledgement.
LEMMA FollowPlain ==
  ASSUME NEW i, Follow(i), TodoSame(i), QueueLess(i), WayLess(i), Ahead(i)' => Ahead(i),
         Head(todo).op # "acknowledged", Head(todo').op # "acknowledged"
  PROVE  Follow(i)'
<1>1. ~Going(i) /\ ~Going(i)'
  BY DEF Going
<1>. QED
  BY <1>1, FollowStep

LEMMA FollowStay ==
  ASSUME NEW i, Follow(i), UNCHANGED todo, UNCHANGED seen, UNCHANGED qosQueue, WayLess(i),
         Ahead(i)' => Ahead(i)
  PROVE  Follow(i)'
<1>1. Going(i)' <=> Going(i)
  BY DEF Going
<1>. QED
  BY <1>1, TodoStays, QueueStays, FollowStep

\* An idle step does not lead to one that uses what was read, except these.
LEMMA IdleHead ==
  ASSUME TInv, IdleMove, ~Prune, ~Search, ~ReceivePubcomp
  PROVE  UNCHANGED <<todo, seen>> \/ Head(todo').op \notin Looked
<1>1. CASE Head(todo).op \notin Ends /\ Continue
  BY <1>1, ContinueTodo DEF TInv
<1>2. CASE Fail
  BY <1>2, FailTodo
<1>3. CASE todo' = Connect
  <2>1. Connect[1].op \notin Looked
    BY PlainSteps DEF Connect, Loop, Looked, Ops, With
  <2>. QED
    BY <1>3, <2>1, NewTodo, ConnectIsPlain, PlainIsTodo
<1>4. ASSUME NEW s, Puts(s) PROVE Head(todo').op \notin Looked
  <2>1. s \in Seq(Todo) /\ s # <<>> /\ Then(s) /\ Free(s, {}) /\ s[1].op \notin Looked
    BY <1>4, IdleIsFree DEF Puts, Free
  <2>. QED
    BY <2>1, ThenLess
<1>. QED
  BY <1>1, <1>2, <1>3, <1>4 DEF IdleMove

LEMMA PruneHead ==
  ASSUME TInv, Prune
  PROVE  Head(todo').op = "pruned" /\ DueEntries # {} /\ Look(FirstOf(DueEntries)) /\ UNCHANGED qosQueue
<1>1. Then(<<Step("pruned")>> \o Loop) /\ DueEntries # {} /\ Look(FirstOf(DueEntries)) /\ UNCHANGED qosQueue
  BY DEF Prune, sharedVars
<1>2. Step("pruned") \in Idle /\ Step("pruned").op = "pruned"
  BY IdleSteps DEF Ops
<1> DEFINE a == Step("pruned")
<1> HIDE DEF a
<1>3. <<a>> \in Seq(Idle) /\ Loop \in Seq(Idle) /\ Len(<<a>>) = 1 /\ <<a>>[1] = a
  BY <1>2, LoopIsIdle DEF a
<1>4. <<a>> \o Loop \in Seq(Idle) /\ (<<a>> \o Loop)[1] = a /\ Len(<<a>> \o Loop) \in Nat \ {0}
  BY <1>3, ConcatIdle, ConcatPlaces
<1>5. <<a>> \o Loop \in Seq(Todo) /\ <<a>> \o Loop # <<>> /\ Free(<<a>> \o Loop, {}) /\ Then(<<a>> \o Loop)
  BY <1>1, <1>4, IdleIsFree, EmptySeq DEF Free, a
<1>6. Head(todo') = a
  BY <1>4, <1>5, ThenLess
<1>. QED
  BY <1>1, <1>2, <1>6 DEF a

\* A publish is made once.
LEMMA AheadStays ==
  ASSUME TInv, [Next]_vars, NEW i \in Numbers
  PROVE  Ahead(i)' => Ahead(i)
<1>1. CASE Quiet
  BY <1>1, QuietSame
<1>2. CASE QuietTask
  <2>1. UNCHANGED callback /\ UNCHANGED published
    BY <1>2, QuietTaskSame
  <2>. QED
    BY <2>1 DEF Ahead
<1>3. CASE Close \/ Drop \/ BrokerReceives \/ Prepare \/ Flush
  <2>1. UNCHANGED callback /\ UNCHANGED published
    BY <1>3 DEF Close, Drop, BrokerReceives, Prepare, Flush, sharedVars, bounds
  <2>. QED
    BY <2>1 DEF Ahead
<1>4. CASE CallbackSends
  <2>1. callback' = "none" /\ UNCHANGED published
    BY <1>4 DEF CallbackSends, bounds
  <2>. QED
    BY <2>1 DEF Ahead
<1>5. CASE Pruned \/ Acknowledged \/ Track \/ Tracked \/ ReceivePubrec
  <2>1. UNCHANGED callback /\ UNCHANGED published
    BY <1>5 DEF Pruned, Acknowledged, Track, Tracked, ReceivePubrec, Receive, sharedVars, bounds
  <2>. QED
    BY <2>1 DEF Ahead
<1>6. CASE TimePasses \/ \E k \in DOMAIN qosQueue : ExpireEarly(k)
  <2>1. UNCHANGED callback /\ UNCHANGED published
    BY <1>6 DEF TimePasses, Expire, ExpireEarly, Expires
  <2>. QED
    BY <2>1 DEF Ahead
<1>. QED
  BY <1>1, <1>2, <1>3, <1>4, <1>5, <1>6 DEF Next, MqttStep, TimerStep, Halt, QuietTask, Quiet

LEMMA AckIsAnswer ==
  ASSUME NEW i, NEW p \in Packet, p.id = i, p.type \in {"pubrec", "pubcomp"}
  PROVE  p \in Answers(Kinds, i)
BY DEF Answers, Kinds, AnswerTo

\* What is received is the only packet of i that was under way.
LEMMA AnswerTaken ==
  ASSUME TInv, NEW i, OneToken(i), toClient # <<>>, Head(toClient) \in Answers(Kinds, i),
         toClient' = Tail(toClient), UNCHANGED txQueue, UNCHANGED toBroker
  PROVE  Away(i)' /\ Free(todo, Resends(Kinds, i)) /\ ~Silent(i)
<1>1. ~Free(toClient, Answers(Kinds, i)) /\ Free(Tail(toClient), Answers(Kinds, i))
  BY FewerInTail DEF TInv, QueuesOK, OneToken
<1>2. /\ Free(txQueue, Requests(Kinds, i)) /\ Free(toBroker, Requests(Kinds, i))
      /\ Free(todo, Resends(Kinds, i))
  BY <1>1 DEF OneToken, Away
<1>. QED
  BY <1>1, <1>2 DEF Away, Silent

LEMMA CalmFollow ==
  ASSUME TInv, Ordered(todo), CalmTask, ~Flush, NEW i, Follow(i), Ahead(i)' => Ahead(i)
  PROVE  Follow(i)'
<1>1. Free(todo, Urgent) /\ Free(todo', Urgent) /\ Head(todo).op # "acknowledged"
  BY CalmTaskTodo
<1>2. TodoSame(i)
  BY <1>1, CalmSame
<1>3. /\ UNCHANGED qosQueue /\ txQueue' = txQueue /\ toBroker' \in {toBroker, <<>>}
      /\ \/ toClient' \in {toClient, <<>>}
         \/ toClient # <<>> /\ toClient' = Tail(toClient)
  <2>1. CASE Close
    BY <2>1 DEF Close, sharedVars
  <2>2. CASE ~Close
    <3>1. QuietTask
      BY <2>2 DEF CalmTask, QuietTask
    <3>2. UNCHANGED qosQueue /\ txQueue' = txQueue /\ toBroker' = toBroker
      BY <3>1, QuietTaskSame
    <3>3. CASE AwaitConnack \/ AwaitSuback
      BY <3>2, <3>3 DEF AwaitConnack, AwaitSuback
    <3>4. CASE \/ ReceivePublish \/ ReceivePubrel \/ ReceivePubcomp \/ ReceivePingresp \/ ReceiveLate
      <4>1. toClient # <<>> /\ toClient' = Tail(toClient)
        BY <3>4 DEF ReceivePublish, ReceivePubrel, ReceivePubcomp, ReceivePingresp, ReceiveLate,
           Receive, Incoming
      <4>. QED
        BY <3>2, <4>1
    <3>5. CASE \/ Open \/ OpenFails \/ AwaitTimesOut \/ StartTimers \/ StopTimers \/ Prune
               \/ PruneHeld \/ PollTimesOut \/ Hold \/ Deliver
      <4>1. UNCHANGED toClient
        BY <3>5 DEF Open, OpenFails, AwaitTimesOut, StartTimers, StopTimers, Prune, PruneHeld,
           PollTimesOut, Hold, Deliver, linkVars
      <4>. QED
        BY <3>2, <4>1
    <3>. QED
      BY <2>2, <3>3, <3>4, <3>5 DEF CalmTask
  <2>. QED
    BY <2>1, <2>2
<1>4. QueueLess(i) /\ WayLess(i)
  BY <1>3, QueueStays, WayStays
<1>5. CASE ReceivePubcomp
  <2>1. ASSUME Going(i)' PROVE Away(i)'
    <3>1. PICK p \in Incoming :
            /\ Receive(p) /\ p.type = "pubcomp"
            /\ \/ Entries("pubrel", p.id) # {} /\ Look(FirstOf(Entries("pubrel", p.id)))
               \/ Fail
      BY <1>5 DEF ReceivePubcomp
    <3>2. p \in Packet /\ toClient # <<>> /\ p = Head(toClient) /\ toClient' = Tail(toClient)
      BY <3>1, IncomingType DEF Receive
    <3>3. ~Fail
      BY <2>1, FailTodo DEF Going, Looked
    <3>4. /\ qosQueue[seen'.at].id = p.id
      <4>1. FirstOf(Entries("pubrel", p.id)) \in Entries("pubrel", p.id)
        <5>1. Entries("pubrel", p.id) \in SUBSET Nat
          BY DEF Entries, TInv, LookOK
        <5>. QED
          BY <3>1, <3>3, <5>1, FirstOfIsFirst
      <4>2. seen'.at = FirstOf(Entries("pubrel", p.id))
        BY <3>1, <3>3 DEF Look
      <4>. QED
        BY <4>1, <4>2 DEF Entries
    <3>5. p.id = i
      BY <1>3, <2>1, <3>4 DEF Going, Records
    <3>6. Head(toClient) \in Answers(Kinds, i)
      BY <3>1, <3>2, <3>5, AckIsAnswer
    <3>7. UNCHANGED txQueue /\ UNCHANGED toBroker /\ OneToken(i)
      BY <3>1 DEF Receive, Follow
    <3>. QED
      BY <3>2, <3>6, <3>7, AnswerTaken
  <2>. QED
    BY <1>1, <1>2, <1>4, <2>1, FollowStep DEF Going
<1>6. CASE ~ReceivePubcomp
  <2>1. Head(todo').op # "acknowledged"
    <3>1. CASE Prune
      BY <3>1, PruneHead
    <3>2. CASE ~Prune
      <4>1. IdleMove /\ Head(todo).op # "search"
        BY CalmTaskHead DEF CalmOps
      <4>2. UNCHANGED <<todo, seen>> \/ Head(todo').op \notin Looked
        BY <1>6, <3>2, <4>1, IdleHead DEF Search, At
      <4>. QED
        BY <1>1, <4>2 DEF Looked
    <3>. QED
      BY <3>1, <3>2
  <2>. QED
    BY <1>1, <1>2, <1>4, <2>1, FollowPlain
<1>. QED
  BY <1>5, <1>6

LEMMA SearchFollow ==
  ASSUME TInv, Search, NEW i \in Numbers, \A n \in Numbers : Follow(n), Ahead(i)' => Ahead(i)
  PROVE  Follow(i)'
<1>1. Head(todo).op = "search" /\ Head(todo) \in Todo /\ Arg.type \in Kinds /\ Arg.id \in Ids
  BY HeadOfTodo DEF Search, At, TInv, Todo, Arg, Kinds
<1>2. Entries(Arg.type, Arg.id) = {}
  <2> DEFINE j == Arg.id
  <2>1. Follow(j)
    BY <1>1, NumbersType
  <2>2. Head(todo) \in Searches(j)
    BY <1>1 DEF Searches, Arg
  <2>3. ~Free(todo, Searches(j))
    BY <2>2, HeadOfTodo, FewerInTail DEF TInv, TodoOK
  <2>4. ~Going(j) /\ ~Free(todo, Tracks(Kinds, j))
    BY <1>1, <2>1, <2>3 DEF Follow, Searching, Going
  <2>5. Free(qosQueue, Records(Kinds, j))
    BY <2>1, <2>4 DEF Follow, OneRecord
  <2>6. ASSUME NEW k \in Entries(Arg.type, Arg.id) PROVE FALSE
    <3>1. /\ k \in 1..Len(qosQueue) /\ qosQueue[k] \in Entry /\ qosQueue[k].type = Arg.type
          /\ qosQueue[k].id = j
      BY ElementOfSeq DEF Entries, TInv, LookOK
    <3>2. qosQueue[k] \in Records(Kinds, j)
      BY <1>1, <3>1 DEF Records
    <3>. QED
      BY <2>5, <3>1, <3>2 DEF Free
  <2>. QED
    BY <2>6
<1>3. /\ Continue /\ UNCHANGED qosQueue /\ UNCHANGED txQueue /\ UNCHANGED toBroker
      /\ UNCHANGED toClient
  BY <1>2 DEF Search, sharedVars, linkVars
<1>4. Head(todo) \notin Resends(Kinds, i) /\ Head(todo) \notin Tracks(Kinds, i)
  BY <1>1 DEF Resends, Tracks
<1>5. Head(todo').op # "acknowledged"
  BY <1>1, <1>3, ContinueTodo DEF TInv, Ends, Looked
<1>. QED
  BY <1>1, <1>3, <1>4, <1>5, TodoPasses, QueueStays, WayStays, FollowPlain

\* A packet that is sent again leaves todo for txQueue.
LEMMA PrepareFollow ==
  ASSUME TInv, Prepare, NEW i, Follow(i), Ahead(i)' => Ahead(i)
  PROVE  Follow(i)'
<1>1. /\ Head(todo).op = "prepare" /\ UNCHANGED seen /\ UNCHANGED qosQueue /\ UNCHANGED toBroker
      /\ UNCHANGED toClient
      /\ Head(todo) \in Todo /\ todo \in Seq(Todo) /\ todo # <<>>
  BY HeadOfTodo DEF Prepare, At, linkVars, TInv, TodoOK
<1>2. CASE UNCHANGED txQueue /\ UNCHANGED todo
  BY <1>1, <1>2, WayStays, FollowStay
<1>3. CASE Continue /\ txQueue' = Append(txQueue, Arg)
  <2>1. Head(todo').op # "acknowledged"
    BY <1>1, <1>3, ContinueTodo DEF TInv, Ends, Looked
  <2>2. Arg \in Uplink /\ txQueue \in Seq(Uplink) /\ Arg \in Packet
    BY <1>1, UplinkTypes DEF Todo, Arg, TInv, QueuesOK, Outgoing
  <2>3. Head(todo) \notin Tracks(Kinds, i)
    BY <1>1 DEF Tracks
  <2>4. CASE Head(todo) \notin Resends(Kinds, i)
    <3>1. ASSUME NEW T \in SUBSET Kinds PROVE Arg \notin Requests(T, i)
      BY <1>1, <2>4 DEF Resends, Requests, Arg
    <3>2. WayLess(i)
      BY <1>1, <1>3, <2>2, <3>1, MoreInAppend, SameIsNoMore DEF WayLess
    <3>. QED
      BY <1>1, <1>3, <2>1, <2>3, <2>4, <3>2, TodoPasses, QueueStays, FollowPlain
  <2>5. CASE Head(todo) \in Resends(Kinds, i)
    <3> DEFINE R == Resends(Kinds, i)
    <3>1. ~Free(todo, R) /\ (Once(todo, R) => Free(Tail(todo), R))
      BY <1>1, <2>5, FewerInTail
    <3>2. /\ OneToken(i) /\ OneRecord(i) /\ Fresh(i) /\ LateSilent(i) /\ Searching(i) /\ ~Going(i)
          /\ \A t \in Kinds : Backed(t, i)
      BY <1>1 DEF Follow, Going
    <3>3. Away(i) /\ Free(todo', R)
      BY <1>3, <3>1, <3>2 DEF OneToken, Continue
    <3>4. ASSUME NEW T \in SUBSET Kinds
          PROVE  Same(todo', todo, Tracks(T, i)) /\ Free(todo', Resends(T, i))
      <4>1. Head(todo) \notin Tracks(T, i)
        BY <2>3 DEF Tracks
      <4>2. Same(todo', todo, Tracks(T, i))
        BY <1>1, <1>3, <4>1, SameInTail DEF Continue
      <4>3. Resends(T, i) \subseteq R
        BY DEF Resends
      <4>. QED
        BY <3>3, <4>2, <4>3, SubsetIsFree
    <3>5. /\ Once(txQueue', Requests(Kinds, i)) /\ Free(toBroker', Requests(Kinds, i))
          /\ Free(toClient', Answers(Kinds, i))
      BY <1>1, <1>3, <2>2, <3>3, MoreInAppend DEF Away
    <3>6. OneToken(i)'
      BY <3>3, <3>5, FreeIsOnce DEF OneToken
    <3>7. Same(todo', todo, Tracks(Kinds, i))
      BY <3>4
    <3>8. OneRecord(i)'
      BY <1>1, <3>2, <3>7 DEF OneRecord, Same, NoMore
    <3>9. Fresh(i)'
      BY <3>1, <3>2 DEF Fresh, Silent
    <3>10. ASSUME NEW t \in Kinds PROVE Backed(t, i)'
      <4>1. Free(txQueue', Requests({t}, i)) \/ ~Free(todo', Tracks({t}, i))
        <5>1. CASE Arg \in Requests({t}, i)
          <6>1. Head(todo) \in Resends({t}, i)
            BY <1>1, <5>1 DEF Requests, Resends, Arg
          <6>2. ~Free(todo, Resends({t}, i))
            BY <1>1, <6>1, FewerInTail
          <6>3. ~Free(todo, Tracks({t}, i))
            BY <3>2, <6>2 DEF Backed
          <6>. QED
            BY <3>4, <6>3, {t} \in SUBSET Kinds DEF Same
        <5>2. CASE Arg \notin Requests({t}, i)
          <6>1. Free(txQueue, Requests({t}, i))
            BY <3>3 DEF Away, Free, Requests
          <6>. QED
            BY <1>3, <2>2, <5>2, <6>1, MoreInAppend DEF NoMore
        <5>. QED
          BY <5>1, <5>2
      <4>2. Free(toBroker', Requests({t}, i)) /\ Free(toClient', Answers({t}, i))
        BY <3>5 DEF Free, Requests, Answers
      <4>3. Free(todo', Resends({t}, i))
        BY <3>4, {t} \in SUBSET Kinds
      <4>. QED
        BY <4>1, <4>2, <4>3 DEF Backed
    <3>11. LateSilent(i)'
      BY <1>1, <3>1, <3>2 DEF LateSilent, Silent
    <3>12. Leaving(i)'
      BY <2>1 DEF Leaving, Going
    <3>13. Searching(i)'
      <4>1. Free(todo, Searches(i)) => Free(todo', Searches(i))
        BY <1>1, <1>3, FewerInTail DEF Continue, NoMore
      <4>. QED
        BY <3>2, <3>7, <4>1 DEF Searching, Same
    <3>. QED
      BY <3>6, <3>8, <3>9, <3>10, <3>11, <3>12, <3>13 DEF Follow
  <2>. QED
    BY <2>4, <2>5
<1>. QED
  BY <1>2, <1>3 DEF Prepare

\* Element by element, with another first step.
LEMMA SameInHead ==
  ASSUME TInv, NEW a \in Todo, Then(<<a>>), NEW S, a \in S <=> Head(todo) \in S
  PROVE  Same(todo', todo, S) /\ Head(todo') = a
<1> DEFINE t == Tail(todo)
<1>1. /\ todo \in Seq(Todo) /\ todo # <<>> /\ t \in Seq(Todo) /\ Len(todo) \in Nat \ {0}
      /\ Len(t) = Len(todo) - 1 /\ Head(todo) = todo[1]
      /\ \A k \in 1..Len(t) : t[k] = todo[k + 1]
  BY HeadOfTodo, TailIsSeq DEF TInv, TodoOK
<1>2. todo' = <<a>> \o t
  BY DEF Then
<1> HIDE DEF t
<1>3. <<a>> \in Seq(Todo) /\ Len(<<a>>) = 1 /\ <<a>>[1] = a /\ <<a>> # <<>> /\ Free(<<a>>, {})
  BY DEF Free
<1>4. /\ Len(todo') = 1 + Len(t)
      /\ \A k \in 1..Len(<<a>>) : todo'[k] = <<a>>[k]
      /\ \A k \in 1..Len(t) : todo'[1 + k] = t[k]
  BY <1>1, <1>2, <1>3, ConcatPlaces
<1>5. Len(todo') = Len(todo) /\ todo'[1] = a
  BY <1>1, <1>3, <1>4
<1>6. ASSUME NEW k \in 1..Len(todo) PROVE todo'[k] \in S <=> todo[k] \in S
  <2>1. CASE k = 1
    BY <1>1, <1>5, <2>1
  <2>2. CASE k # 1
    <3>1. k - 1 \in 1..Len(t) /\ 1 + (k - 1) = k /\ (k - 1) + 1 = k
      BY <1>1, <2>2
    <3>2. todo'[k] = t[k - 1] /\ t[k - 1] = todo[k]
      BY <1>1, <1>4, <3>1
    <3>. QED
      BY <3>2
  <2>. QED
    BY <2>1, <2>2
<1>7. Same(todo', todo, S)
  BY <1>5, <1>6, SamePlaces
<1>8. Head(todo') = a
  BY <1>3, ThenLess
<1>. QED
  BY <1>7, <1>8

LEMMA TrackFollow ==
  ASSUME TInv, Track, NEW i, Follow(i), Ahead(i)' => Ahead(i)
  PROVE  Follow(i)'
<1> DEFINE a == With("tracked", Arg)
<1>1. /\ Head(todo).op = "track" /\ Head(todo) \in Todo /\ Then(<<a>>)
      /\ UNCHANGED qosQueue /\ UNCHANGED txQueue /\ UNCHANGED toBroker /\ UNCHANGED toClient
  BY HeadOfTodo DEF Track, At, TInv, sharedVars, linkVars
<1>2. a \in Todo /\ a.op = "tracked" /\ a.arg = Head(todo).arg
  BY <1>1 DEF Todo, With, Arg, Ops
<1> HIDE DEF a
<1>3. ASSUME NEW T \in SUBSET Kinds
      PROVE  Same(todo', todo, Resends(T, i)) /\ Same(todo', todo, Tracks(T, i))
  <2>1. a \in Resends(T, i) <=> Head(todo) \in Resends(T, i)
    BY <1>1, <1>2 DEF Resends
  <2>2. a \in Tracks(T, i) <=> Head(todo) \in Tracks(T, i)
    BY <1>1, <1>2 DEF Tracks
  <2>. QED
    BY <1>1, <1>2, <2>1, <2>2, SameInHead
<1>4. Same(todo', todo, Searches(i)) /\ Head(todo') = a
  <2>1. a \in Searches(i) <=> Head(todo) \in Searches(i)
    BY <1>1, <1>2 DEF Searches
  <2>. QED
    BY <1>1, <1>2, <2>1, SameInHead
<1>5. TodoSame(i)
  BY <1>3, <1>4 DEF TodoSame, Same, NoMore
<1>. QED
  BY <1>1, <1>2, <1>4, <1>5, QueueStays, WayStays, FollowPlain

\* The packet is tracked by an entry again.
LEMMA TrackedFollow ==
  ASSUME TInv, Current, Ordered(todo), Tracked, NEW i, Follow(i), Ahead(i)' => Ahead(i)
  PROVE  Follow(i)'
<1> DEFINE e == [type |-> Arg.type, id |-> Arg.id, due |-> FALSE]
<1>1. /\ Head(todo).op = "tracked" /\ Head(todo) \in Todo /\ Continue
      /\ UNCHANGED txQueue /\ UNCHANGED toBroker /\ UNCHANGED toClient
      /\ todo \in Seq(Todo) /\ todo # <<>>
  BY HeadOfTodo DEF Tracked, At, TInv, TodoOK, linkVars
<1>2. /\ qosQueue' = Append(qosQueue, e) /\ qosQueue \in Seq(Entry) /\ e \in Entry
      /\ e.type = Arg.type /\ e.id = Arg.id /\ ~e.due
  BY <1>1, TrackExact DEF TInv, LookOK, Todo, Arg, Entry
<1> HIDE DEF e
<1>3. /\ Head(todo').op # "acknowledged" /\ Head(todo).op # "acknowledged"
      /\ Head(todo) \notin Resends(Kinds, i) /\ Head(todo) \notin Searches(i)
  BY <1>1, ContinueTodo DEF TInv, Ends, Looked, Resends, Searches
<1>4. Free(Tail(todo), Urgent)
  <2>1. Head(todo) \notin Leads
    BY <1>1 DEF Leads
  <2>. QED
    BY <2>1, CalmHead
<1>5. Free(qosQueue, Late(i)) => Free(qosQueue', Late(i))
  BY <1>2, MoreInAppend DEF Late, NoMore
<1>6. CASE Head(todo) \notin Tracks(Kinds, i)
  <2>1. ASSUME NEW T \in SUBSET Kinds PROVE Same(qosQueue', qosQueue, Records(T, i))
    <3>1. e \notin Records(T, i)
      BY <1>1, <1>2, <1>6 DEF Records, Tracks, Arg
    <3>. QED
      BY <1>2, <3>1, SameInAppend
  <2>2. QueueLess(i)
    BY <1>5, <2>1 DEF QueueLess, Same
  <2>. QED
    BY <1>1, <1>3, <1>6, <2>2, TodoPasses, WayStays, FollowPlain
<1>7. CASE Head(todo) \in Tracks(Kinds, i)
  <2>1. /\ OneToken(i) /\ OneRecord(i) /\ Fresh(i) /\ LateSilent(i) /\ Searching(i) /\ ~Going(i)
        /\ \A t \in Kinds : Backed(t, i)
    BY <1>3 DEF Follow, Going
  <2>2. ~Free(todo, Tracks(Kinds, i))
    BY <1>1, <1>7, FewerInTail
  <2>3. Free(qosQueue, Records(Kinds, i)) /\ ~Ahead(i)'
    BY <2>1, <2>2 DEF OneRecord, Fresh
  <2>4. ASSUME NEW T \in SUBSET Kinds
        PROVE  /\ Free(todo', Resends(T, i)) /\ Free(todo', Tracks(T, i)) /\ Free(todo', Searches(i))
               /\ Free(qosQueue, Records(T, i))
    BY <1>1, <1>4, <2>3, CalmIsFree DEF Continue, Records, Free
  <2>5. Kinds \in SUBSET Kinds /\ \A t \in Kinds : {t} \in SUBSET Kinds
    OBVIOUS
  <2>6. Once(qosQueue', Records(Kinds, i)) /\ Free(todo', Tracks(Kinds, i))
        /\ Free(todo', Resends(Kinds, i)) /\ Free(todo', Searches(i))
    BY <1>2, <2>3, <2>4, <2>5, MoreInAppend
  <2>7. OneToken(i)'
    BY <1>1, <2>1, <2>6, FreeIsOnce DEF OneToken
  <2>8. OneRecord(i)'
    BY <2>6, FreeIsOnce DEF OneRecord
  <2>9. ASSUME NEW t \in Kinds PROVE Backed(t, i)'
    <3>1. Backed(t, i) /\ Free(qosQueue, Records({t}, i)) /\ Free(todo', Resends({t}, i))
      BY <2>1, <2>4, <2>5
    <3>2. Free(toBroker', Requests({t}, i)) /\ Free(toClient', Answers({t}, i))
      BY <1>1, <3>1 DEF Backed
    <3>3. Free(txQueue', Requests({t}, i)) \/ ~Free(qosQueue', Records({t}, i))
      <4>1. CASE Head(todo) \in Tracks({t}, i)
        <5>1. e \in Records({t}, i)
          BY <1>2, <4>1 DEF Tracks, Records, Arg
        <5>. QED
          BY <1>2, <5>1, SameInAppend
      <4>2. CASE Head(todo) \notin Tracks({t}, i)
        <5>1. Free(Tail(todo), Tracks({t}, i))
          BY <1>1, <2>4, <2>5 DEF Continue
        <5>2. Free(todo, Tracks({t}, i))
          BY <1>1, <4>2, <5>1, SameInTail DEF Same
        <5>. QED
          BY <1>1, <3>1, <5>2 DEF Backed
      <4>. QED
        BY <4>1, <4>2
    <3>. QED
      BY <3>1, <3>2, <3>3 DEF Backed
  <2>10. LateSilent(i)'
    <3>1. Free(qosQueue, Late(i))
      BY <2>3, LateIsRecord, SubsetIsFree
    <3>. QED
      BY <1>5, <3>1 DEF LateSilent
  <2>11. Leaving(i)' /\ Searching(i)' /\ Fresh(i)'
    BY <1>3, <2>3, <2>6 DEF Leaving, Going, Searching, Fresh
  <2>. QED
    BY <2>7, <2>8, <2>9, <2>10, <2>11 DEF Follow
<1>. QED
  BY <1>6, <1>7

LEMMA AcknowledgedFollow ==
  ASSUME TInv, Current, Acknowledged, NEW i, Follow(i), Ahead(i)' => Ahead(i)
  PROVE  Follow(i)'
<1>1. /\ Head(todo).op = "acknowledged" /\ Head(todo) \in Todo /\ Continue
      /\ UNCHANGED txQueue /\ UNCHANGED toBroker /\ UNCHANGED toClient
      /\ qosQueue' = OrderedRemove
  BY HeadOfTodo DEF Acknowledged, At, TInv, linkVars
<1>2. /\ qosQueue' = RemoveAt(qosQueue, seen.at) /\ qosQueue \in Seq(Entry)
      /\ seen.at \in 1..Len(qosQueue)
  BY <1>1, RemoveExact
<1>3. /\ Head(todo').op # "acknowledged"
      /\ Head(todo) \notin Resends(Kinds, i) /\ Head(todo) \notin Tracks(Kinds, i)
  BY <1>1, ContinueTodo DEF TInv, Ends, Looked, Resends, Tracks
<1>4. Free(qosQueue, Late(i)) => Free(qosQueue', Late(i))
  BY <1>2, FewerInRest DEF NoMore
<1>5. \A T \in SUBSET Kinds : NoMore(qosQueue', qosQueue, Records(T, i))
  BY <1>2, FewerInRest
<1>6. TodoSame(i) /\ WayLess(i) /\ ~Going(i)'
  BY <1>1, <1>3, TodoPasses, WayStays DEF Going
<1>7. CASE Going(i)
  <2>1. Away(i) /\ Once(qosQueue, Records(Kinds, i)) /\ qosQueue[seen.at] \in Records(Kinds, i)
    BY <1>7 DEF Follow, Leaving, OneRecord, Going
  <2>2. Free(qosQueue', Records(Kinds, i))
    BY <1>2, <2>1, FewerInRest
  <2>3. QueueLess(i)
    BY <1>4, <1>5, <2>1 DEF QueueLess
  <2>. QED
    BY <1>6, <2>2, <2>3, FollowStep
<1>8. CASE ~Going(i)
  <2>1. ASSUME NEW T \in SUBSET Kinds PROVE Same(qosQueue', qosQueue, Records(T, i))
    <3>1. qosQueue[seen.at] \notin Records(T, i)
      BY <1>1, <1>8 DEF Going, Records
    <3>. QED
      BY <1>2, <3>1, SameInRest
  <2>2. QueueLess(i)
    BY <1>4, <1>5, <2>1 DEF QueueLess
  <2>. QED
    BY <1>6, <1>8, <2>2, FollowStep
<1>. QED
  BY <1>7, <1>8

\* The packet of a late entry is sent again: there is no other.
LEMMA PrunedFollow ==
  ASSUME TInv, Current, Ordered(todo), Overdue, Pruned, NEW i, Follow(i), Ahead(i)' => Ahead(i)
  PROVE  Follow(i)'
<1> DEFINE e == Removed
           a == With("prepare", P(e.type, e.id))  b == With("track", P(e.type, e.id))
           t == Tail(todo)
<1>1. /\ Head(todo).op = "pruned" /\ Then(<<a, b>>) /\ qosQueue' = OrderedRemove
      /\ UNCHANGED txQueue /\ UNCHANGED toBroker /\ UNCHANGED toClient
      /\ todo \in Seq(Todo) /\ todo # <<>>
  BY HeadOfTodo DEF Pruned, At, TInv, TodoOK, linkVars
<1>2. /\ qosQueue' = RemoveAt(qosQueue, seen.at) /\ qosQueue \in Seq(Entry)
      /\ seen.at \in 1..Len(qosQueue) /\ e = qosQueue[seen.at] /\ e \in Entry /\ e.due
      /\ e.type \in Kinds
  <2>1. /\ OrderedRemove = RemoveAt(qosQueue, seen.at) /\ qosQueue \in Seq(Entry)
        /\ seen.at \in 1..Len(qosQueue) /\ Removed = qosQueue[seen.at]
    BY <1>1, RemoveExact
  <2>2. e \in Entry /\ e.due
    BY <1>1, <2>1, ElementOfSeq DEF Overdue
  <2>. QED
    BY <1>1, <2>1, <2>2 DEF Entry, Kinds
<1>3. /\ a \in Todo /\ b \in Todo /\ a.op = "prepare" /\ b.op = "track"
      /\ a.arg.type = e.type /\ b.arg.type = e.type /\ a.arg.id = e.id /\ b.arg.id = e.id
  <2>1. Removed \in Entry
    BY <1>2
  <2>2. a \in Todo /\ b \in Todo
    BY <2>1, AgainSteps
  <2>. QED
    BY <2>2 DEF With, P
<1>4. Free(t, Urgent) /\ Free(todo, Urgent) /\ ~Going(i) /\ t \in Seq(Todo) /\ todo' = <<a, b>> \o t
  <2>1. Free(todo, Urgent)
    BY <1>1, CalmStep DEF CalmOps, Ops
  <2>. QED
    BY <1>1, <2>1, TailIsSeq, FewerInTail DEF NoMore, Going, Then
<1> HIDE DEF a, b, t, e
<1>5. <<a, b>> \in Seq(Todo) /\ <<a, b>> # <<>> /\ Len(<<a, b>>) = 2 /\ <<a, b>>[1] = a
      /\ <<a, b>>[2] = b
  BY <1>3
<1>6. Head(todo').op # "acknowledged"
  <2>1. Free(<<a, b>>, {})
    BY DEF Free
  <2>. QED
    BY <1>1, <1>3, <1>5, <2>1, ThenLess
<1>7. Free(qosQueue, Late(i)) => Free(qosQueue', Late(i))
  BY <1>2, FewerInRest DEF NoMore
<1>8. ASSUME NEW T \in SUBSET Kinds
      PROVE  /\ Free(t, Resends(T, i)) /\ Free(t, Tracks(T, i)) /\ Free(t, Searches(i))
             /\ Free(todo, Resends(T, i)) /\ Free(todo, Tracks(T, i)) /\ Free(todo, Searches(i))
  BY <1>4, CalmIsFree
<1>9. /\ a \notin Tracks(Kinds, i) /\ a \notin Searches(i)
      /\ b \notin Resends(Kinds, i) /\ b \notin Searches(i)
  BY <1>3 DEF Tracks, Searches, Resends
<1>10. Free(todo', Searches(i))
  <2>1. Free(<<a, b>>, Searches(i)) /\ Free(t, Searches(i))
    BY <1>5, <1>8, <1>9, Kinds \in SUBSET Kinds DEF Free
  <2>. QED
    BY <1>4, <1>5, <2>1, FreeInFront
<1>11. CASE e.id # i
  <2>1. ASSUME NEW T \in SUBSET Kinds
        PROVE  Same(todo', todo, Resends(T, i)) /\ Same(todo', todo, Tracks(T, i))
    <3>1. Free(<<a, b>>, Resends(T, i)) /\ Free(<<a, b>>, Tracks(T, i))
      BY <1>3, <1>5, <1>11 DEF Resends, Tracks, Free
    <3>2. Free(todo', Resends(T, i)) /\ Free(todo', Tracks(T, i))
      BY <1>4, <1>5, <1>8, <3>1, FreeInFront
    <3>. QED
      BY <1>8, <3>2, FreeIsOnce DEF Same, NoMore
  <2>2. TodoSame(i)
    BY <1>10, <2>1 DEF TodoSame
  <2>3. ASSUME NEW T \in SUBSET Kinds PROVE Same(qosQueue', qosQueue, Records(T, i))
    <3>1. e \notin Records(T, i)
      BY <1>11 DEF Records
    <3>. QED
      BY <1>2, <3>1, SameInRest
  <2>4. QueueLess(i)
    BY <1>7, <2>3 DEF QueueLess, Same
  <2>. QED
    BY <1>1, <1>6, <2>2, <2>4, WayStays, FollowPlain
<1>12. CASE e.id = i
  <2>1. /\ OneToken(i) /\ OneRecord(i) /\ Fresh(i) /\ LateSilent(i)
        /\ e \in Records(Kinds, i) /\ e \in Late(i)
    BY <1>2, <1>12 DEF Follow, Records, Late
  <2>2. ~Free(qosQueue, Late(i)) /\ ~Free(qosQueue, Records(Kinds, i))
        /\ Free(qosQueue', Records(Kinds, i))
    BY <1>2, <2>1, FewerInRest DEF Free, OneRecord
  <2>3. Away(i)' /\ ~Ahead(i)' /\ Free(qosQueue', Late(i))
    BY <1>1, <2>1, <2>2, LateIsRecord, SubsetIsFree DEF LateSilent, Silent, Fresh, Away
  <2>4. Once(todo', Resends(Kinds, i)) /\ Once(todo', Tracks(Kinds, i))
        /\ ~Free(todo', Tracks({e.type}, i))
    <3>1. /\ b \in Tracks({e.type}, i)
          /\ Free(t, Resends(Kinds, i)) /\ Free(t, Tracks(Kinds, i))
      BY <1>3, <1>8, <1>12 DEF Tracks
    <3>2. ASSUME NEW S, Free(t, S), a \notin S \/ b \notin S PROVE Once(<<a, b>> \o t, S)
      <4>1. Free(<<a, b>>, S) \/ Once(<<a, b>>, S)
        BY <1>5, <3>2 DEF Free, Once
      <4>2. /\ Len(t) \in Nat /\ Len(<<a, b>> \o t) = 2 + Len(t)
            /\ \A k \in 1..Len(<<a, b>> \o t) :
                 \/ k \in 1..2 /\ (<<a, b>> \o t)[k] = <<a, b>>[k]
                 \/ k > 2 /\ k - 2 \in 1..Len(t) /\ (<<a, b>> \o t)[k] = t[k - 2]
        BY <1>4, <1>5, ConcatPlaces
      <4>3. \A k \in 1..Len(<<a, b>> \o t) : (<<a, b>> \o t)[k] \in S => k \in 1..2 /\ <<a, b>>[k] \in S
        BY <3>2, <4>2 DEF Free
      <4>4. \A k \in 1..2 : <<a, b>>[k] \in S => (k = 1 /\ a \in S) \/ (k = 2 /\ b \in S)
        BY <1>5
      <4>. QED
        BY <3>2, <4>3, <4>4 DEF Once
    <3>. QED
      BY <1>4, <1>3, <1>9, <3>1, <3>2, TwoInFront
  <2>5. OneToken(i)'
    BY <2>3, <2>4, FreeIsOnce DEF OneToken, Away
  <2>6. OneRecord(i)'
    BY <2>2, <2>4, FreeIsOnce DEF OneRecord
  <2>7. ASSUME NEW u \in Kinds PROVE Backed(u, i)'
    <3>1. /\ Free(txQueue', Requests({u}, i)) /\ Free(toBroker', Requests({u}, i))
          /\ Free(toClient', Answers({u}, i))
      BY <2>3 DEF Away, Free, Requests, Answers
    <3>2. CASE u = e.type
      BY <2>4, <3>1, <3>2 DEF Backed
    <3>3. CASE u # e.type
      <4>1. Free(<<a, b>>, Resends({u}, i)) /\ Free(t, Resends({u}, i))
        <5>1. a \notin Resends({u}, i) /\ b \notin Resends({u}, i)
          BY <1>3, <3>3 DEF Resends
        <5>2. Free(t, Resends({u}, i))
          BY <1>8, {u} \in SUBSET Kinds
        <5>3. ASSUME NEW S, a \notin S, b \notin S PROVE Free(<<a, b>>, S)
          BY <1>5, <5>3 DEF Free
        <5>. QED
          BY <5>1, <5>2, <5>3
      <4>2. Free(todo', Resends({u}, i))
        BY <1>4, <1>5, <4>1, FreeInFront
      <4>. QED
        BY <3>1, <4>2 DEF Backed
    <3>. QED
      BY <3>2, <3>3
  <2>8. LateSilent(i)' /\ Leaving(i)' /\ Searching(i)' /\ Fresh(i)'
    BY <1>6, <1>10, <2>3 DEF LateSilent, Leaving, Going, Searching, Fresh
  <2>. QED
    BY <2>5, <2>6, <2>7, <2>8 DEF Follow
<1>. QED
  BY <1>11, <1>12

\* A PUBREC replaces the entry of a publish by the steps of its PUBREL.
LEMMA PubrecFollow ==
  ASSUME TInv, Ordered(todo), ReceivePubrec, NEW i, Follow(i), Ahead(i)' => Ahead(i)
  PROVE  Follow(i)'
<1>1. PICK p \in Incoming :
        /\ Receive(p) /\ p.type = "pubrec"
        /\ \/ /\ Entries("publish", p.id) # {} /\ Look(FirstOf(Entries("publish", p.id)))
              /\ Then(<<Step("acknowledged"), With("search", P("pubrel", p.id)),
                        With("prepare", P("pubrel", p.id)),
                        With("track", P("pubrel", p.id)), Poll>>)
           \/ Fail
  BY DEF ReceivePubrec
<1>2. /\ Head(todo).op = "poll" /\ UNCHANGED qosQueue /\ UNCHANGED txQueue /\ UNCHANGED toBroker
      /\ toClient # <<>> /\ toClient' = Tail(toClient) /\ p = Head(toClient) /\ p \in Packet
  BY <1>1, IncomingType DEF Receive, At
<1>3. Free(todo, Urgent) /\ Free(Tail(todo), Urgent) /\ Tail(todo) \in Seq(Todo)
  <2>1. Free(todo, Urgent)
    BY <1>2, CalmStep DEF CalmOps, Ops
  <2>. QED
    BY <2>1, HeadOfTodo, TailIsSeq, FewerInTail DEF NoMore, TInv, TodoOK
<1>4. QueueLess(i) /\ WayLess(i)
  BY <1>2, QueueStays, WayStays
<1>5. CASE Fail
  <2>1. IdleMove
    BY <1>2, <1>5 DEF IdleMove
  <2>2. TodoSame(i)
    BY <1>3, <2>1, CalmMove, CalmSame
  <2>. QED
    BY <1>2, <1>4, <1>5, <2>2, FailTodo, FollowPlain DEF Looked
<1>6. CASE /\ Entries("publish", p.id) # {} /\ Look(FirstOf(Entries("publish", p.id)))
           /\ Then(<<Step("acknowledged"), With("search", P("pubrel", p.id)),
                     With("prepare", P("pubrel", p.id)),
                     With("track", P("pubrel", p.id)), Poll>>)
  <2> DEFINE j == p.id
             s == <<Step("acknowledged"), With("search", P("pubrel", j)),
                    With("prepare", P("pubrel", j)), With("track", P("pubrel", j)), Poll>>
             t == Tail(todo)
  <2>1. j \in Ids
    BY <1>2, <1>6, LooksAtEntry DEF TInv
  <2>2. /\ s \in Seq(Todo) /\ s # <<>> /\ Len(s) = 5 /\ s[1].op = "acknowledged"
        /\ s[1] \notin Urgent /\ s[2] \in Searches(j) /\ s[3] \in Resends({"pubrel"}, j)
        /\ s[4] \in Tracks({"pubrel"}, j) /\ s[5] \notin Urgent
        /\ s[2].op = "search" /\ s[3].op = "prepare" /\ s[4].op = "track"
    BY <2>1, PubrecSteps
  <2>3. todo' = s \o t /\ t \in Seq(Todo) /\ Free(t, Urgent)
    BY <1>3, <1>6 DEF Then
  <2>4. qosQueue[seen'.at] \in Records({"publish"}, j)
    <3>1. Entries("publish", j) \in SUBSET Nat
      BY DEF Entries, TInv, LookOK
    <3>2. FirstOf(Entries("publish", j)) \in Entries("publish", j)
      BY <1>6, <3>1, FirstOfIsFirst
    <3>3. seen'.at = FirstOf(Entries("publish", j))
      BY <1>6 DEF Look
    <3>4. seen'.at \in 1..Len(qosQueue)
      BY <3>2, <3>3 DEF Entries, TInv, LookOK
    <3>5. qosQueue[seen'.at] \in Entry
      BY <3>4, ElementOfSeq DEF TInv, LookOK
    <3>. QED
      BY <3>2, <3>3, <3>5 DEF Entries, Records
  <2>5. Then(s)
    BY <1>6
  <2> HIDE DEF s, t
  <2>6. Head(todo').op = "acknowledged"
    <3>1. Free(s, {})
      BY DEF Free
    <3>. QED
      BY <2>2, <2>5, <3>1, ThenLess
  <2>7. ASSUME NEW S, S \subseteq Urgent
        PROVE  /\ \A k \in 1..Len(todo') : todo'[k] \in S => k \in 1..5 /\ s[k] \in S
               /\ \A k \in 1..5 : k \in 1..Len(todo') /\ todo'[k] = s[k]
    <3>1. /\ Len(t) \in Nat /\ Len(todo') = 5 + Len(t)
          /\ \A k \in 1..5 : todo'[k] = s[k]
          /\ \A k \in 1..Len(todo') :
               \/ k \in 1..5 /\ todo'[k] = s[k]
               \/ k > 5 /\ k - 5 \in 1..Len(t) /\ todo'[k] = t[k - 5]
      <4>0. s \in Seq(Todo) /\ t \in Seq(Todo)
        BY <2>2, <2>3
      <4>1. /\ Len(t) \in Nat /\ Len(s \o t) = Len(s) + Len(t)
            /\ \A k \in 1..Len(s) : (s \o t)[k] = s[k]
            /\ \A k \in 1..Len(s \o t) :
                 \/ k \in 1..Len(s) /\ (s \o t)[k] = s[k]
                 \/ k > Len(s) /\ k - Len(s) \in 1..Len(t) /\ (s \o t)[k] = t[k - Len(s)]
        BY <4>0, ConcatPlaces
      <4>2. todo' = s \o t /\ Len(s) = 5
        BY <2>2, <2>3
      <4>. QED
        BY <4>1, <4>2
    <3>2. \A k \in 1..5 : k \in 1..Len(todo')
      BY <3>1
    <3>3. ASSUME NEW k \in 1..Len(todo'), todo'[k] \in S PROVE k \in 1..5 /\ s[k] \in S
      BY <2>3, <2>7, <3>1, <3>3 DEF Free
    <3>. QED
      BY <3>1, <3>2, <3>3
  <2>8. ASSUME NEW T \in SUBSET Kinds, NEW n
        PROVE  /\ Resends(T, n) \subseteq Urgent /\ Tracks(T, n) \subseteq Urgent
               /\ Searches(n) \subseteq Urgent
               /\ \A k \in 1..5 : s[k] \in Resends(T, n) => k = 3 /\ n = j /\ "pubrel" \in T
               /\ \A k \in 1..5 : s[k] \in Tracks(T, n) => k = 4 /\ n = j /\ "pubrel" \in T
               /\ \A k \in 1..5 : s[k] \in Searches(n) => n = j
    <3>1. \A k \in 1..5 : k = 1 \/ k = 2 \/ k = 3 \/ k = 4 \/ k = 5
      OBVIOUS
    <3>2. /\ Resends(T, n) \subseteq Urgent /\ Tracks(T, n) \subseteq Urgent
          /\ Searches(n) \subseteq Urgent
      BY UrgentSets
    <3>3. \A k \in 1..5 : s[k] \in Resends(T, n) => k = 3 /\ n = j /\ "pubrel" \in T
      BY <2>2, <3>1, <3>2 DEF Resends, Tracks, Searches
    <3>4. \A k \in 1..5 : s[k] \in Tracks(T, n) => k = 4 /\ n = j /\ "pubrel" \in T
      BY <2>2, <3>1, <3>2 DEF Resends, Tracks, Searches
    <3>5. \A k \in 1..5 : s[k] \in Searches(n) => n = j
      BY <2>2, <3>1, <3>2 DEF Resends, Tracks, Searches
    <3>. QED
      BY <3>2, <3>3, <3>4, <3>5
  <2>9. CASE i # j
    <3>1. ASSUME NEW T \in SUBSET Kinds
          PROVE  /\ Free(todo', Resends(T, i)) /\ Free(todo', Tracks(T, i))
                 /\ Free(todo', Searches(i))
      BY <2>7, <2>8, <2>9 DEF Free
    <3>2. ASSUME NEW T \in SUBSET Kinds
          PROVE  Same(todo', todo, Resends(T, i)) /\ Same(todo', todo, Tracks(T, i))
      BY <1>3, <3>1, CalmIsFree, FreeIsOnce DEF Same, NoMore
    <3>3. TodoSame(i)
      BY <3>1, <3>2, Kinds \in SUBSET Kinds DEF TodoSame
    <3>4. ~Going(i) /\ ~Going(i)'
      BY <1>2, <2>4, <2>9 DEF Going, Records
    <3>. QED
      BY <1>4, <3>3, <3>4, FollowStep
  <2>10. CASE i = j
    <3>1. /\ OneToken(i) /\ OneRecord(i) /\ Fresh(i) /\ LateSilent(i)
          /\ Head(toClient) \in Answers(Kinds, i)
      BY <1>1, <1>2, <2>10, AckIsAnswer DEF Follow
    <3>2. Away(i)' /\ ~Silent(i)
      BY <1>2, <3>1, AnswerTaken
    <3>3. /\ Once(todo', Resends(Kinds, i)) /\ Once(todo', Tracks(Kinds, i))
          /\ ~Free(todo', Tracks({"pubrel"}, i)) /\ ~Free(todo', Tracks(Kinds, i))
          /\ Free(todo', Resends({"publish"}, i))
      <4>1. Kinds \in SUBSET Kinds /\ {"publish"} \in SUBSET Kinds /\ {"pubrel"} \in SUBSET Kinds
        BY DEF Kinds
      <4>2. Once(todo', Resends(Kinds, i)) /\ Once(todo', Tracks(Kinds, i))
        BY <2>7, <2>8, <4>1 DEF Once
      <4>3. Free(todo', Resends({"publish"}, i))
        BY <2>7, <2>8, <4>1 DEF Free
      <4>4. 4 \in 1..Len(todo') /\ todo'[4] = s[4] /\ s[4] \in Tracks({"pubrel"}, i)
            /\ s[4] \in Tracks(Kinds, i)
        <5>1. s[4] \in Tracks({"pubrel"}, i) /\ s[4] \in Tracks(Kinds, i)
          BY <2>2, <2>10 DEF Tracks, Kinds
        <5>. QED
          BY <2>7, <5>1
      <4>. QED
        BY <4>2, <4>3, <4>4 DEF Free
    <3>4. OneToken(i)'
      BY <3>2, <3>3, FreeIsOnce DEF OneToken, Away
    <3>5. Going(i)'
      BY <1>2, <2>4, <2>6, <2>10 DEF Going, Records, Kinds
    <3>6. OneRecord(i)'
      BY <1>2, <3>1, <3>3, <3>5 DEF OneRecord
    <3>7. Fresh(i)'
      BY <3>1, <3>2 DEF Fresh
    <3>8. ASSUME NEW u \in Kinds PROVE Backed(u, i)'
      <4>1. /\ Free(txQueue', Requests({u}, i)) /\ Free(toBroker', Requests({u}, i))
            /\ Free(toClient', Answers({u}, i))
        BY <3>2 DEF Away, Free, Requests, Answers
      <4>2. u = "publish" \/ u = "pubrel"
        BY DEF Kinds
      <4>. QED
        BY <3>3, <4>1, <4>2 DEF Backed
    <3>9. LateSilent(i)' /\ Leaving(i)' /\ Searching(i)'
      BY <1>2, <3>1, <3>2, <3>3 DEF LateSilent, Leaving, Searching
    <3>. QED
      BY <3>4, <3>6, <3>7, <3>8, <3>9 DEF Follow
  <2>. QED
    BY <2>9, <2>10
<1>. QED
  BY <1>1, <1>5, <1>6

\* The callback makes the packet and its entry.
LEMMA CallbackFollow ==
  ASSUME TInv, CallbackSends, ~raced', NEW i, Follow(i), Ahead(i)' => Ahead(i)
  PROVE  Follow(i)'
<1>1. /\ UNCHANGED todo /\ UNCHANGED seen /\ UNCHANGED toBroker /\ UNCHANGED toClient
      /\ callback' = "none" /\ UNCHANGED published
      /\ txQueue \in Seq(Uplink) /\ qosQueue \in Seq(Entry)
  BY DEF CallbackSends, taskVars, linkVars, bounds, TInv, QueuesOK, LookOK
<1>2. CASE txQueue' = Append(txQueue, P("pingreq", 0)) /\ UNCHANGED qosQueue
  <2>1. ASSUME NEW T \in SUBSET Kinds PROVE P("pingreq", 0) \notin Requests(T, i)
    BY DEF P, Requests, Kinds
  <2>2. WayLess(i)
    BY <1>1, <1>2, <2>1, UplinkTypes, MoreInAppend, SameIsNoMore DEF WayLess
  <2>. QED
    BY <1>1, <1>2, <2>2, FollowStay
<1>3. CASE callback # "ping"
  <2> DEFINE p == P("publish", published)
             e == [type |-> "publish", id |-> published, due |-> FALSE]
  <2>1. /\ txQueue' = Append(txQueue, p) /\ qosQueue' = Append(qosQueue, e)
        /\ Head(todo).op # "acknowledged" /\ callback = "publish" /\ published \in Ids
    <3>1. txQueue' = Append(txQueue, p) /\ qosQueue' = Append(qosQueue, e)
          /\ raced' = (raced \/ Head(todo).op \in {"pruned", "acknowledged", "tracked"})
          /\ mutex = "timer"
      BY <1>3 DEF CallbackSends
    <3>2. callback = "publish" /\ published \in Ids
      BY <1>3, <3>1 DEF TInv, CallbackOK, FlagsOK
    <3>. QED
      BY <3>1, <3>2
  <2>2. /\ p \in Uplink /\ e \in Entry /\ p.type = "publish" /\ p.id = published
        /\ e.type = "publish" /\ e.id = published /\ ~e.due /\ p \in Packet
    BY <2>1, PublishIsUplink, UplinkPackets DEF Entry, P
  <2> HIDE DEF p, e
  <2>3. ~Going(i) /\ ~Going(i)'
    BY <1>1, <2>1 DEF Going
  <2>4. Free(qosQueue, Late(i)) => Free(qosQueue', Late(i))
    BY <1>1, <2>1, <2>2, MoreInAppend DEF Late, NoMore
  <2>5. CASE i # published
    <3>1. ASSUME NEW T \in SUBSET Kinds PROVE p \notin Requests(T, i) /\ e \notin Records(T, i)
      BY <2>2, <2>5 DEF Requests, Records
    <3>2. WayLess(i)
      BY <1>1, <2>1, <2>2, <3>1, MoreInAppend, SameIsNoMore DEF WayLess
    <3>3. ASSUME NEW T \in SUBSET Kinds PROVE Same(qosQueue', qosQueue, Records(T, i))
      BY <1>1, <2>1, <2>2, <3>1, SameInAppend
    <3>4. QueueLess(i)
      BY <2>4, <3>3 DEF QueueLess, Same
    <3>. QED
      BY <1>1, <2>3, <3>2, <3>4, TodoStays, FollowStep
  <2>6. CASE i = published
    <3>1. Silent(i) /\ Free(qosQueue, Records(Kinds, i)) /\ Free(todo, Tracks(Kinds, i))
          /\ Searching(i)
      BY <2>1, <2>6 DEF Follow, Fresh, Ahead
    <3>2. ~Ahead(i)'
      <4>1. published \in Int
        BY <2>1, MqttAssumption DEF Ids
      <4>. QED
        BY <1>1, <2>6, <4>1 DEF Ahead
    <3>3. Once(txQueue', Requests(Kinds, i)) /\ Once(qosQueue', Records(Kinds, i))
      BY <1>1, <2>1, <2>2, <3>1, MoreInAppend DEF Silent, Away
    <3>4. OneToken(i)'
      BY <1>1, <3>1, <3>3, FreeIsOnce DEF OneToken, Silent, Away
    <3>5. OneRecord(i)'
      BY <1>1, <3>1, <3>3, FreeIsOnce DEF OneRecord
    <3>6. ASSUME NEW u \in Kinds PROVE Backed(u, i)'
      <4>1. /\ Free(txQueue, Requests({u}, i)) /\ Free(toBroker', Requests({u}, i))
            /\ Free(toClient', Answers({u}, i))
        BY <1>1, <3>1 DEF Silent, Away, Free, Requests, Answers
      <4>2. Free(todo', Resends({u}, i))
        BY <1>1, <3>1 DEF Silent, Free, Resends
      <4>3. CASE u = "publish"
        <5>1. e \in Records({u}, i)
          BY <2>2, <2>6, <4>3 DEF Records
        <5>2. ~Free(qosQueue', Records({u}, i))
          BY <1>1, <2>1, <2>2, <5>1, SameInAppend
        <5>. QED
          BY <4>1, <4>2, <5>2 DEF Backed
      <4>4. CASE u # "publish"
        <5>1. p \notin Requests({u}, i)
          BY <2>2, <4>4 DEF Requests
        <5>2. Free(txQueue', Requests({u}, i))
          BY <1>1, <2>1, <2>2, <4>1, <5>1, MoreInAppend DEF NoMore
        <5>. QED
          BY <4>1, <4>2, <5>2 DEF Backed
      <4>. QED
        BY <4>3, <4>4
    <3>7. LateSilent(i)'
      <4>1. Free(qosQueue, Late(i))
        BY <3>1, LateIsRecord, SubsetIsFree
      <4>. QED
        BY <2>4, <4>1 DEF LateSilent
    <3>8. Leaving(i)' /\ Searching(i)' /\ Fresh(i)'
      BY <1>1, <2>3, <3>1, <3>2 DEF Leaving, Searching, Fresh
    <3>. QED
      BY <3>4, <3>5, <3>6, <3>7, <3>8 DEF Follow
  <2>. QED
    BY <2>5, <2>6
<1>. QED
  BY <1>2, <1>3 DEF CallbackSends

\* What is sent is tracked by an entry: the steps that track are done.
LEMMA FlushFollow ==
  ASSUME TInv, Ordered(todo), Flush, NEW i, Follow(i), Ahead(i)' => Ahead(i)
  PROVE  Follow(i)'
<1>0. CalmTask /\ (Head(todo).op = "flush" \/ Head(todo).op = "last_flush")
  BY DEF CalmTask, Flush, At
<1>1. /\ Free(todo, Urgent) /\ Free(todo', Urgent) /\ Head(todo).op # "acknowledged"
      /\ Head(todo).op # "search" /\ Head(todo).op # "poll" /\ Head(todo).op # "prune"
  BY <1>0, CalmTaskTodo
<1>2. UNCHANGED qosQueue /\ UNCHANGED seen /\ UNCHANGED toClient
  BY DEF Flush
<1>3. Head(todo').op # "acknowledged"
  <2>1. IdleMove /\ ~Prune /\ ~Search /\ ~ReceivePubcomp
    BY <1>0, <1>1, CalmTaskHead DEF Prune, Search, ReceivePubcomp, Receive, At
  <2>. QED
    BY <1>1, <2>1, IdleHead DEF Looked
<1>4. TodoSame(i) /\ QueueLess(i)
  BY <1>1, <1>2, CalmSame, QueueStays
<1>5. CASE txQueue' = txQueue /\ toBroker' = toBroker
  BY <1>1, <1>2, <1>3, <1>4, <1>5, WayStays, FollowPlain
<1>6. CASE txQueue # <<>> /\ txQueue' = Tail(txQueue)
  <2> DEFINE p == Head(txQueue)
  <2>1. /\ p \in Uplink /\ txQueue \in Seq(Uplink) /\ toBroker \in Seq(Uplink)
    BY <1>6, TailIsSeq DEF TInv, QueuesOK
  <2>2. \A S : NoMore(txQueue', txQueue, S)
    BY <1>6, <2>1, FewerInTail
  <2>3. \/ toBroker' = toBroker
        \/ toBroker' = Append(toBroker, p) /\ UNCHANGED todo
    BY <1>6 DEF Flush
  <2> HIDE DEF p
  <2>4. CASE toBroker' = toBroker \/ p \notin Requests(Kinds, i)
    <3>1. ASSUME NEW T \in SUBSET Kinds PROVE NoMore(toBroker', toBroker, Requests(T, i))
      <4>1. p \notin Requests(Kinds, i) => p \notin Requests(T, i)
        BY DEF Requests
      <4>. QED
        BY <2>1, <2>3, <2>4, <4>1, MoreInAppend, SameIsNoMore
    <3>2. WayLess(i)
      BY <1>2, <2>2, <3>1, SameIsNoMore DEF WayLess
    <3>. QED
      BY <1>1, <1>3, <1>4, <3>2, FollowPlain
  <2>5. CASE toBroker' = Append(toBroker, p) /\ UNCHANGED todo /\ p \in Requests(Kinds, i)
    <3>1. /\ OneToken(i) /\ OneRecord(i) /\ Fresh(i) /\ LateSilent(i) /\ Searching(i)
          /\ \A t \in Kinds : Backed(t, i)
      BY DEF Follow
    <3>2. ~Free(txQueue, Requests(Kinds, i)) /\ Free(txQueue', Requests(Kinds, i))
      BY <1>6, <2>1, <2>5, <3>1, FewerInTail DEF OneToken, p
    <3>3. /\ Free(todo, Resends(Kinds, i)) /\ Free(toBroker, Requests(Kinds, i))
          /\ Free(toClient, Answers(Kinds, i)) /\ ~Silent(i) /\ ~Ahead(i)'
      BY <3>1, <3>2 DEF OneToken, Away, Silent, Fresh
    <3>4. Once(toBroker', Requests(Kinds, i))
      BY <2>1, <2>5, <3>3, MoreInAppend
    <3>5. OneToken(i)'
      BY <1>2, <2>5, <3>2, <3>3, <3>4, FreeIsOnce DEF OneToken
    <3>6. OneRecord(i)'
      BY <1>1, <1>2, <2>5, <3>1 DEF OneRecord, Going
    <3>7. ASSUME NEW u \in Kinds PROVE Backed(u, i)'
      <4>1. /\ Free(txQueue', Requests({u}, i)) /\ Free(toClient', Answers({u}, i))
            /\ Free(todo', Resends({u}, i))
        BY <1>2, <2>5, <3>2, <3>3 DEF Free, Requests, Answers, Resends
      <4>2. Free(toBroker', Requests({u}, i)) \/ ~Free(qosQueue', Records({u}, i))
        <5>1. CASE p \in Requests({u}, i)
          <6>1. ~Free(txQueue, Requests({u}, i))
            BY <1>6, <2>1, <5>1, FewerInTail DEF p
          <6>2. Free(todo, Tracks({u}, i))
            BY <1>1, CalmIsFree, {u} \in SUBSET Kinds
          <6>. QED
            BY <1>2, <3>1, <6>1, <6>2 DEF Backed
        <5>2. CASE p \notin Requests({u}, i)
          <6>1. Free(toBroker, Requests({u}, i))
            BY <3>3 DEF Free, Requests
          <6>. QED
            BY <2>1, <2>5, <5>2, <6>1, MoreInAppend DEF NoMore
        <5>. QED
          BY <5>1, <5>2
      <4>. QED
        BY <4>1, <4>2 DEF Backed
    <3>8. LateSilent(i)' /\ Searching(i)'
      BY <1>2, <2>5, <3>1, <3>3 DEF LateSilent, Searching
    <3>9. Leaving(i)' /\ Fresh(i)'
      BY <1>3, <3>3 DEF Leaving, Going, Fresh
    <3>. QED
      BY <3>5, <3>6, <3>7, <3>8, <3>9 DEF Follow
  <2>. QED
    BY <2>3, <2>4, <2>5
<1>. QED
  BY <1>5, <1>6 DEF Flush

\* What the broker answers, and with what.
LEMMA BrokerMoves ==
  ASSUME TInv, BrokerReceives
  PROVE  /\ toBroker # <<>> /\ Head(toBroker) \in Uplink
         /\ \/ toBroker' = <<>> /\ UNCHANGED toClient
            \/ /\ toBroker' = Tail(toBroker)
               /\ \/ /\ Head(toBroker).type \in Kinds
                     /\ toClient' = Append(toClient, P(AnswerTo[Head(toBroker).type], Head(toBroker).id))
                  \/ /\ Head(toBroker).type \notin Kinds
                     /\ \/ UNCHANGED toClient
                        \/ \E type \in {"connack", "suback", "pingresp", "pubrel"}, id \in Numbers :
                             toClient' = Append(toClient, P(type, id))
<1> DEFINE p == Head(toBroker)
<1>1. toBroker # <<>> /\ p \in Uplink /\ p.id \in Numbers /\ 0 \in Numbers
  BY UplinkHead, NumbersType DEF BrokerReceives
<1>2. \/ p.type = "connect" /\ Reply(P("connack", 0)) /\ toBroker' = Tail(toBroker)
      \/ Answer(p) /\ toBroker' = Tail(toBroker)
      \/ toBroker' = <<>> /\ UNCHANGED toClient
  BY DEF BrokerReceives
<1> HIDE DEF p
<1>3. ASSUME Answer(p) \/ (p.type = "connect" /\ Reply(P("connack", 0)))
      PROVE  \/ p.type \in Kinds /\ toClient' = Append(toClient, P(AnswerTo[p.type], p.id))
             \/ /\ p.type \notin Kinds
                /\ \/ UNCHANGED toClient
                   \/ \E type \in {"connack", "suback", "pingresp", "pubrel"}, id \in Numbers :
                        toClient' = Append(toClient, P(type, id))
  <2>1. \/ p.type = "connect" /\ Reply(P("connack", 0))
        \/ p.type = "subscribe" /\ Reply(P("suback", 0))
        \/ p.type = "publish" /\ Reply(P("pubrec", p.id))
        \/ p.type = "pubrel" /\ Reply(P("pubcomp", p.id))
        \/ p.type = "pingreq" /\ Reply(P("pingresp", 0))
        \/ p.type = "pubrec" /\ Reply(P("pubrel", p.id))
        \/ p.type \in {"puback", "pubcomp"} /\ UNCHANGED toClient
    BY <1>3 DEF Answer
  <2>2. /\ AnswerTo["publish"] = "pubrec" /\ AnswerTo["pubrel"] = "pubcomp"
        /\ "publish" \in Kinds /\ "pubrel" \in Kinds
    BY DEF AnswerTo, Kinds
  <2>3. CASE p.type = "publish" \/ p.type = "pubrel"
    <3>1. p.type \in Kinds /\ Reply(P(AnswerTo[p.type], p.id))
      BY <2>1, <2>2, <2>3
    <3>. QED
      BY <3>1 DEF Reply
  <2>4. CASE ~(p.type = "publish" \/ p.type = "pubrel")
    <3>1. p.type \notin Kinds
      BY <2>4 DEF Kinds
    <3>2. \/ UNCHANGED toClient
          \/ \E type \in {"connack", "suback", "pingresp", "pubrel"}, id \in Numbers : Reply(P(type, id))
      BY <1>1, <2>1, <2>4
    <3>. QED
      BY <3>1, <3>2 DEF Reply
  <2>. QED
    BY <2>3, <2>4
<1>. QED
  BY <1>1, <1>2, <1>3 DEF p

LEMMA NoAnswer ==
  ASSUME NEW T \in SUBSET Kinds, NEW i, NEW p, p \in Answers(T, i)
  PROVE  p.type \in {"pubrec", "pubcomp"} /\ p.id = i /\ \E t \in T : p.type = AnswerTo[t]
BY DEF Answers, AnswerTo, Kinds

\* The broker answers the packet of i, or another.
LEMMA BrokerFollow ==
  ASSUME TInv, BrokerReceives, NEW i, Follow(i), Ahead(i)' => Ahead(i)
  PROVE  Follow(i)'
<1> DEFINE p == Head(toBroker)
<1>1. /\ UNCHANGED todo /\ UNCHANGED seen /\ UNCHANGED qosQueue /\ UNCHANGED txQueue
  BY DEF BrokerReceives, taskVars, sharedVars
<1>2. /\ toBroker \in Seq(Uplink) /\ toClient \in Seq(Downlink) /\ toBroker # <<>>
      /\ p \in Uplink /\ p \in Packet /\ p.id \in Numbers
  BY BrokerMoves, UplinkHead, UplinkPackets DEF TInv, QueuesOK
<1>3. /\ \A S : NoMore(<<>>, toBroker, S)
      /\ \A S : NoMore(Tail(toBroker), toBroker, S)
  BY <1>2, EmptyIsFree, FewerInTail DEF NoMore
<1>4. CASE toBroker' = <<>> /\ UNCHANGED toClient
  BY <1>1, <1>4, WayStays, FollowStay
<1>5. CASE toBroker' = Tail(toBroker) /\ p.type \notin Kinds
  <2>1. \/ UNCHANGED toClient
        \/ \E type \in {"connack", "suback", "pingresp", "pubrel"}, id \in Numbers :
             toClient' = Append(toClient, P(type, id))
    BY <1>2, <1>5, BrokerMoves, UNCHANGED toClient \/ ~UNCHANGED toClient
  <2>2. ASSUME NEW type \in {"connack", "suback", "pingresp", "pubrel"}, NEW id \in Numbers,
               toClient' = Append(toClient, P(type, id)), NEW T \in SUBSET Kinds
        PROVE  NoMore(toClient', toClient, Answers(T, i))
    <3>1. P(type, id) \in Downlink /\ P(type, id).type = type
      BY ReplyIsDownlink DEF Types, P
    <3>2. P(type, id) \notin Answers(T, i)
      BY <3>1, NoAnswer
    <3>. QED
      BY <1>2, <2>2, <3>1, <3>2, MoreInAppend
  <2>3. ASSUME NEW T \in SUBSET Kinds PROVE NoMore(toClient', toClient, Answers(T, i))
    BY <2>1, <2>2, SameIsNoMore
  <2>4. WayLess(i)
    BY <1>1, <1>3, <1>5, <2>3, SameIsNoMore DEF WayLess
  <2>. QED
    BY <1>1, <2>4, FollowStay
<1>6. CASE /\ toBroker' = Tail(toBroker) /\ p.type \in Kinds
           /\ toClient' = Append(toClient, P(AnswerTo[p.type], p.id))
  <2> DEFINE r == P(AnswerTo[p.type], p.id)
  <2>1. /\ r \in Downlink /\ r.type = AnswerTo[p.type] /\ r.id = p.id /\ toClient' = Append(toClient, r)
    <3>1. AnswerTo[p.type] \in Types \ {"publish", "pingreq"}
      BY <1>6 DEF AnswerTo, Kinds, Types
    <3>. QED
      BY <1>2, <1>6, <3>1, ReplyIsDownlink DEF P
  <2> HIDE DEF r
  <2>2. ASSUME NEW T \in SUBSET Kinds PROVE r \in Answers(T, i) => p \in Requests(T, i)
    <3>1. \A t, u \in Kinds : AnswerTo[t] = AnswerTo[u] => t = u
      BY DEF AnswerTo, Kinds
    <3>2. ASSUME r \in Answers(T, i) PROVE p.id = i /\ p.type \in T
      <4>1. r.id = i /\ \E t \in T : r.type = AnswerTo[t]
        BY <3>2, NoAnswer
      <4>. QED
        BY <1>6, <2>1, <3>1, <4>1
    <3>. QED
      BY <1>2, <3>2 DEF Requests
  <2>3. CASE p \notin Requests(Kinds, i)
    <3>1. ASSUME NEW T \in SUBSET Kinds PROVE r \notin Answers(T, i)
      BY <2>2, <2>3 DEF Requests
    <3>2. WayLess(i)
      BY <1>1, <1>2, <1>3, <1>6, <2>1, <3>1, MoreInAppend, SameIsNoMore DEF WayLess
    <3>. QED
      BY <1>1, <3>2, FollowStay
  <2>4. CASE p \in Requests(Kinds, i)
    <3>1. /\ OneToken(i) /\ OneRecord(i) /\ Fresh(i) /\ LateSilent(i) /\ Searching(i) /\ Leaving(i)
          /\ \A t \in Kinds : Backed(t, i)
      BY DEF Follow
    <3>2. ~Free(toBroker, Requests(Kinds, i)) /\ Free(toBroker', Requests(Kinds, i))
      BY <1>2, <1>6, <2>4, <3>1, FewerInTail DEF OneToken
    <3>3. /\ Free(todo, Resends(Kinds, i)) /\ Free(txQueue, Requests(Kinds, i))
          /\ Free(toClient, Answers(Kinds, i)) /\ ~Silent(i) /\ ~Away(i) /\ ~Ahead(i)'
      BY <3>1, <3>2 DEF OneToken, Away, Silent, Fresh
    <3>4. Once(toClient', Answers(Kinds, i))
      BY <1>2, <2>1, <3>3, MoreInAppend
    <3>5. OneToken(i)'
      BY <1>1, <3>2, <3>3, <3>4, FreeIsOnce DEF OneToken
    <3>6. OneRecord(i)' /\ ~Going(i)'
      BY <1>1, <3>1, <3>3 DEF OneRecord, Going, Leaving
    <3>7. ASSUME NEW u \in Kinds PROVE Backed(u, i)'
      <4>1. /\ Free(txQueue', Requests({u}, i)) /\ Free(toBroker', Requests({u}, i))
            /\ Free(todo', Resends({u}, i))
        BY <1>1, <3>2, <3>3 DEF Free, Requests, Resends
      <4>2. Free(toClient', Answers({u}, i)) \/ ~Free(qosQueue', Records({u}, i))
        <5>1. CASE r \in Answers({u}, i)
          <6>1. ~Free(toBroker, Requests({u}, i))
            BY <1>2, <2>2, <5>1, FewerInTail, {u} \in SUBSET Kinds
          <6>. QED
            BY <1>1, <3>1, <6>1 DEF Backed
        <5>2. CASE r \notin Answers({u}, i)
          <6>1. Free(toClient, Answers({u}, i))
            BY <3>3 DEF Free, Answers
          <6>. QED
            BY <1>2, <2>1, <5>2, <6>1, MoreInAppend DEF NoMore
        <5>. QED
          BY <5>1, <5>2
      <4>. QED
        BY <4>1, <4>2 DEF Backed
    <3>8. LateSilent(i)' /\ Searching(i)' /\ Leaving(i)' /\ Fresh(i)'
      BY <1>1, <3>1, <3>3, <3>6 DEF LateSilent, Searching, Leaving, Fresh
    <3>. QED
      BY <3>5, <3>6, <3>7, <3>8 DEF Follow
  <2>. QED
    BY <2>3, <2>4
<1>. QED
  BY <1>4, <1>5, <1>6, BrokerMoves

\* Ticks, messages of the broker, a lost connection.
LEMMA QuietFollow ==
  ASSUME TInv, Quiet \/ Drop, NEW i, Follow(i), Ahead(i)' => Ahead(i)
  PROVE  Follow(i)'
<1>1. UNCHANGED todo /\ UNCHANGED seen /\ UNCHANGED qosQueue /\ UNCHANGED txQueue
  BY QuietSame DEF Drop, taskVars, sharedVars
<1>2. toClient \in Seq(Downlink)
  BY DEF TInv, QueuesOK
<1>3. CASE Drop
  <2>1. toBroker' = <<>> /\ \E n \in 0..Len(toClient) : toClient' = SubSeq(toClient, 1, n)
    BY <1>3 DEF Drop
  <2>2. \A S : NoMore(toBroker', toBroker, S) /\ NoMore(toClient', toClient, S)
    BY <1>2, <2>1, EmptyIsFree, FewerInPrefix DEF NoMore
  <2>3. WayLess(i)
    BY <1>1, <2>2, SameIsNoMore DEF WayLess
  <2>. QED
    BY <1>1, <2>3, FollowStay
<1>4. ASSUME NEW m \in Messages, BrokerPublishes(m) PROVE Follow(i)'
  <2>1. PICK id \in 1..Cardinality(Messages) :
          toClient' = Append(toClient, [type |-> "publish", id |-> id, msg |-> m])
    BY <1>4 DEF BrokerPublishes, Reply
  <2> DEFINE p == [type |-> "publish", id |-> id, msg |-> m]
  <2>2. p \in Downlink /\ p.type = "publish"
    <3>1. id \in Numbers
      BY NumbersType, MqttAssumption DEF Numbers
    <3>. QED
      BY <3>1 DEF Downlink, Packet, Types
  <2> HIDE DEF p
  <2>3. ASSUME NEW T \in SUBSET Kinds PROVE p \notin Answers(T, i)
    BY <2>2, NoAnswer
  <2>4. toBroker' = toBroker /\ toClient' = Append(toClient, p)
    BY <1>4, <2>1 DEF BrokerPublishes, p
  <2>5. WayLess(i)
    BY <1>1, <1>2, <2>2, <2>3, <2>4, MoreInAppend, SameIsNoMore DEF WayLess
  <2>. QED
    BY <1>1, <2>5, FollowStay
<1>5. CASE ~Drop /\ ~\E m \in Messages : BrokerPublishes(m)
  <2>1. toBroker' = toBroker /\ toClient' = toClient
    BY <1>5 DEF Quiet, CallbackTakesBuffer, PingTick, PublishTick, Suspend, Resume, HeldExpires,
       vars, linkVars
  <2>. QED
    BY <1>1, <2>1, WayStays, FollowStay
<1>. QED
  BY <1>3, <1>4, <1>5

\* The deadline passes when nothing is under way.
LEMMA ExpireFollow ==
  ASSUME TInv, NEW n, Expire(n), NEW i, Follow(i), Ahead(i)' => Ahead(i)
  PROVE  Follow(i)'
<1>1. /\ UNCHANGED todo /\ UNCHANGED seen /\ UNCHANGED txQueue /\ UNCHANGED toBroker
      /\ UNCHANGED toClient /\ Head(todo).op # "acknowledged"
      /\ qosQueue' = [qosQueue EXCEPT ![n].due = TRUE]
      /\ n \in DOMAIN qosQueue /\ qosQueue \in Seq(Entry)
      /\ ~About({"publish", "pubrec", "pubrel", "pubcomp"}, qosQueue[n].id)
  BY DEF Expire, Expires, taskVars, linkVars, TInv, LookOK
<1> DEFINE e == qosQueue[n]
<1>2. /\ n \in 1..Len(qosQueue) /\ e \in Entry /\ Len(qosQueue') = Len(qosQueue)
      /\ \A k \in 1..Len(qosQueue) :
           /\ qosQueue'[k] \in Entry
           /\ qosQueue'[k].type = qosQueue[k].type /\ qosQueue'[k].id = qosQueue[k].id
           /\ k # n => qosQueue'[k] = qosQueue[k]
  <2>1. n \in 1..Len(qosQueue) /\ e \in Entry
    BY <1>1, ElementOfSeq
  <2>2. Len(qosQueue') = Len(qosQueue)
    BY <1>1, ExceptSeq
  <2>3. ASSUME NEW k \in 1..Len(qosQueue)
        PROVE  /\ qosQueue'[k] \in Entry
               /\ qosQueue'[k].type = qosQueue[k].type /\ qosQueue'[k].id = qosQueue[k].id
               /\ k # n => qosQueue'[k] = qosQueue[k]
    <3>1. qosQueue[k] \in Entry
      BY <1>1, ElementOfSeq
    <3>2. qosQueue'[k] = IF k = n THEN [qosQueue[n] EXCEPT !.due = TRUE] ELSE qosQueue[k]
      BY <1>1, <2>1
    <3>. QED
      BY <3>1, <3>2 DEF Entry
  <2>. QED
    BY <2>1, <2>2, <2>3
<1> HIDE DEF e
<1>3. ASSUME NEW T \in SUBSET Kinds PROVE Same(qosQueue', qosQueue, Records(T, i))
  <2>1. \A k \in 1..Len(qosQueue) : qosQueue'[k] \in Records(T, i) <=> qosQueue[k] \in Records(T, i)
    BY <1>1, <1>2, ElementOfSeq DEF Records
  <2>. QED
    BY <1>2, <2>1, SamePlaces
<1>4. Free(qosQueue, Late(i)) => Free(qosQueue', Late(i)) \/ Silent(i)
  <2>1. CASE e.id # i
    <3>1. \A k \in 1..Len(qosQueue) : qosQueue'[k] \in Late(i) => qosQueue[k] \in Late(i)
      BY <1>2, <2>1 DEF Late, e
    <3>. QED
      BY <1>2, <3>1 DEF Free
  <2>2. CASE e.id = i
    <3> DEFINE types == {"publish", "pubrec", "pubrel", "pubcomp"}
    <3>1. ~About(types, i)
      BY <1>1, <2>2 DEF e
    <3>2. ASSUME NEW q \in {txQueue, toBroker, toClient}, NEW k \in DOMAIN q, q[k].type \in types
          PROVE  q[k].id # i
      BY <3>1, <3>2 DEF About, Has
    <3>3. ASSUME NEW k \in DOMAIN todo, todo[k].arg.type \in types PROVE todo[k].arg.id # i
      BY <3>1, <3>3 DEF About
    <3>4. /\ DOMAIN txQueue = 1..Len(txQueue) /\ DOMAIN toBroker = 1..Len(toBroker)
          /\ DOMAIN toClient = 1..Len(toClient) /\ DOMAIN todo = 1..Len(todo)
      BY DEF TInv, QueuesOK, TodoOK
    <3>5. Kinds \subseteq types /\ {"pubrec", "pubcomp"} \subseteq types
      BY DEF Kinds
    <3> HIDE DEF types
    <3>6. Free(txQueue, Requests(Kinds, i)) /\ Free(toBroker, Requests(Kinds, i))
      BY <3>2, <3>4, <3>5 DEF Free, Requests
    <3>7. Free(toClient, Answers(Kinds, i))
      <4>1. ASSUME NEW p \in Answers(Kinds, i) PROVE p.type \in types /\ p.id = i
        BY <3>5, NoAnswer, Kinds \in SUBSET Kinds
      <4>. QED
        BY <3>2, <3>4, <4>1 DEF Free
    <3>8. Free(todo, Resends(Kinds, i))
      BY <3>3, <3>4, <3>5 DEF Free, Resends
    <3>. QED
      BY <3>6, <3>7, <3>8 DEF Silent, Away
  <2>. QED
    BY <2>1, <2>2
<1>5. QueueLess(i)
  BY <1>3, <1>4 DEF QueueLess, Same
<1>. QED
  BY <1>1, <1>5, TodoStays, WayStays, FollowPlain

-----------------------------------------------------------------------------
(* All steps *)

LEMMA EarlyStays == TInv /\ [Next]_vars /\ ~early' => ~early
<1> SUFFICES ASSUME TInv, [Next]_vars, ~early' PROVE ~early
  OBVIOUS
<1>1. CASE \/ Open \/ OpenFails \/ AwaitConnack \/ AwaitSuback \/ AwaitTimesOut \/ StartTimers
           \/ StopTimers \/ Prune \/ PruneHeld \/ Search \/ PollTimesOut \/ Hold \/ Deliver \/ Close
           \/ Prepare \/ Flush \/ Pruned \/ Acknowledged \/ Track \/ Tracked
  BY <1>1 DEF Open, OpenFails, AwaitConnack, AwaitSuback, AwaitTimesOut, StartTimers, StopTimers,
     Prune, PruneHeld, Search, PollTimesOut, Hold, Deliver, Close, Prepare, Flush, Pruned,
     Acknowledged, Track, Tracked, history
<1>2. CASE \/ ReceivePublish \/ ReceivePubrel \/ ReceivePubcomp \/ ReceivePingresp \/ ReceiveLate
           \/ ReceivePubrec
  BY <1>2 DEF ReceivePublish, ReceivePubrel, ReceivePubcomp, ReceivePingresp, ReceiveLate,
     ReceivePubrec, Receive
<1>3. CASE \/ Quiet \/ Drop \/ BrokerReceives \/ CallbackSends
  BY <1>3 DEF Quiet, CallbackTakesBuffer, PingTick, PublishTick, Suspend, Resume, HeldExpires,
     BrokerPublishes, Drop, BrokerReceives, CallbackSends, vars, history
<1>4. CASE TimePasses \/ \E k \in DOMAIN qosQueue : ExpireEarly(k)
  BY <1>4 DEF TimePasses, Expire, ExpireEarly
<1>. QED
  BY <1>1, <1>2, <1>3, <1>4 DEF Next, MqttStep, TimerStep, Halt, Quiet

LEMMA NextFollow ==
  ASSUME TInv, Current, Ordered(todo), Overdue, [Next]_vars, ~raced', ~early', NEW i \in Numbers,
         \A n \in Numbers : Follow(n)
  PROVE  Follow(i)'
<1>1. Follow(i) /\ (Ahead(i)' => Ahead(i))
  BY AheadStays
<1>2. CASE CalmTask
  BY <1>1, <1>2, CalmFollow, FlushFollow
<1>3. CASE Search \/ Prepare \/ Track \/ Tracked \/ Acknowledged
  BY <1>1, <1>3, SearchFollow, PrepareFollow, TrackFollow, TrackedFollow, AcknowledgedFollow
<1>4. CASE Pruned \/ ReceivePubrec \/ CallbackSends
  BY <1>1, <1>4, PrunedFollow, PubrecFollow, CallbackFollow
<1>5. CASE BrokerReceives \/ Quiet \/ Drop
  BY <1>1, <1>5, BrokerFollow, QuietFollow
<1>6. CASE TimePasses
  BY <1>1, <1>6, ExpireFollow DEF TimePasses
<1>7. CASE \E k \in DOMAIN qosQueue : ExpireEarly(k)
  BY <1>7 DEF ExpireEarly
<1>. QED
  BY <1>2, <1>3, <1>4, <1>5, <1>6, <1>7 DEF Next, MqttStep, TimerStep, Halt, CalmTask, Quiet

LEMMA NewHead ==
  ASSUME TInv, NEW s \in Seq(Todo), s # <<>>, Then(s)
  PROVE  Head(todo') = s[1]
<1>1. Free(s, {})
  BY DEF Free
<1>. QED
  BY <1>1, ThenLess

\* Only Prune leads to Pruned, and no callback changes the list in between.
LEMMA NextOverdue ==
  ASSUME TInv, Overdue, [Next]_vars, ~raced'
  PROVE  Overdue'
<1>1. CASE Prune
  <2>1. DueEntries # {} /\ seen'.at = FirstOf(DueEntries) /\ UNCHANGED qosQueue
    BY <1>1, PruneHead DEF Look
  <2>2. DueEntries \in SUBSET Nat
    BY DEF DueEntries, TInv, LookOK
  <2>3. FirstOf(DueEntries) \in DueEntries
    BY <2>1, <2>2, FirstOfIsFirst
  <2>. QED
    BY <2>1, <2>3 DEF DueEntries, Overdue
<1>2. CASE CalmTask /\ ~Prune /\ ~ReceivePubcomp
  <2>1. IdleMove /\ Head(todo).op \in CalmOps
    BY <1>2, CalmTaskHead
  <2>2. UNCHANGED <<todo, seen>> \/ Head(todo').op \notin Looked
    BY <1>2, <2>1, IdleHead DEF Search, At, CalmOps
  <2>3. CASE Head(todo').op \notin Looked
    BY <2>3 DEF Overdue, Looked
  <2>4. CASE UNCHANGED <<todo, seen>>
    <3>1. Head(todo).op # "pruned" \/ UNCHANGED qosQueue
      BY <1>2, QuietTaskSame DEF CalmTask, QuietTask, Close, Flush, sharedVars
    <3>. QED
      BY <2>4, <3>1 DEF Overdue
  <2>. QED
    BY <2>2, <2>3, <2>4
<1>3. CASE ReceivePubcomp
  <2>1. Fail \/ Then(<<Step("acknowledged"), Poll>>)
    BY <1>3 DEF ReceivePubcomp
  <2>2. CASE Then(<<Step("acknowledged"), Poll>>)
    <3>1. Step("acknowledged") \in Todo /\ Poll \in Todo /\ Step("acknowledged").op = "acknowledged"
      BY PlainSteps, PlainTodo, PollStep DEF Ops
    <3>2. /\ <<Step("acknowledged"), Poll>> \in Seq(Todo) /\ <<Step("acknowledged"), Poll>> # <<>>
          /\ <<Step("acknowledged"), Poll>>[1] = Step("acknowledged")
      BY <3>1
    <3>3. Head(todo') = Step("acknowledged")
      BY <2>2, <3>2, NewHead
    <3>. QED
      BY <3>1, <3>3 DEF Overdue
  <2>. QED
    BY <2>1, <2>2, FailTodo DEF Overdue, Looked
<1>4. CASE ReceivePubrec
  <2>1. PICK p \in Incoming :
          /\ Receive(p)
          /\ \/ /\ Entries("publish", p.id) # {} /\ Look(FirstOf(Entries("publish", p.id)))
                /\ Then(<<Step("acknowledged"), With("search", P("pubrel", p.id)),
                          With("prepare", P("pubrel", p.id)),
                          With("track", P("pubrel", p.id)), Poll>>)
             \/ Fail
    BY <1>4 DEF ReceivePubrec
  <2>2. CASE Fail
    BY <2>2, FailTodo DEF Overdue, Looked
  <2>3. CASE ~Fail
    <3>1. p.id \in Ids
      BY <2>1, <2>3, LooksAtEntry DEF TInv, Receive
    <3>2. ASSUME NEW s \in Seq(Todo), s # <<>>, s[1].op = "acknowledged", Then(s) PROVE Overdue'
      <4>1. Head(todo').op = "acknowledged"
        BY <3>2, NewHead
      <4>. QED
        BY <4>1 DEF Overdue
    <3>. QED
      BY <2>1, <2>3, <3>1, <3>2, PubrecSteps
  <2>. QED
    BY <2>2, <2>3
<1>5. CASE Search
  <2>1. Continue \/ Then(<<Step("acknowledged")>>)
    BY <1>5 DEF Search
  <2>2. CASE Continue
    BY <1>5, <2>2, ContinueTodo DEF Search, At, TInv, Ends, Looked, Overdue
  <2>3. CASE Then(<<Step("acknowledged")>>)
    <3>1. Step("acknowledged") \in Todo /\ Step("acknowledged").op = "acknowledged"
      BY PlainSteps, PlainTodo DEF Ops
    <3>2. /\ <<Step("acknowledged")>> \in Seq(Todo) /\ <<Step("acknowledged")>> # <<>>
          /\ <<Step("acknowledged")>>[1] = Step("acknowledged")
      BY <3>1
    <3>3. Head(todo') = Step("acknowledged")
      BY <2>3, <3>2, NewHead
    <3>. QED
      BY <3>1, <3>3 DEF Overdue
  <2>. QED
    BY <2>1, <2>2, <2>3
<1>6. CASE Track
  <2>1. Then(<<With("tracked", Arg)>>) /\ Head(todo).op = "track" /\ Head(todo) \in Todo
    BY <1>6, HeadOfTodo DEF Track, At, TInv
  <2>2. With("tracked", Arg) \in Todo /\ With("tracked", Arg).op = "tracked"
    BY <2>1 DEF Todo, With, Arg, Ops
  <2> DEFINE a == With("tracked", Arg)
  <2> HIDE DEF a
  <2>3. <<a>> \in Seq(Todo) /\ <<a>> # <<>> /\ <<a>>[1] = a /\ Then(<<a>>)
    BY <2>1, <2>2 DEF a
  <2>4. Head(todo') = a
    BY <2>3, NewHead
  <2>. QED
    BY <2>2, <2>4 DEF Overdue, a
<1>7. CASE Pruned
  <2> DEFINE a == With("prepare", P(Removed.type, Removed.id))
             b == With("track", P(Removed.type, Removed.id))
  <2>1. Removed \in Entry /\ Then(<<a, b>>)
    BY <1>7, RemovesEntry DEF Pruned, At, TInv
  <2>2. a \in Todo /\ b \in Todo /\ a.op = "prepare"
    BY <2>1, AgainSteps
  <2> HIDE DEF a, b
  <2>3. <<a, b>> \in Seq(Todo) /\ <<a, b>> # <<>> /\ <<a, b>>[1] = a
    BY <2>2
  <2>4. Head(todo') = a
    BY <2>1, <2>3, NewHead
  <2>. QED
    BY <2>2, <2>4 DEF Overdue
<1>8. CASE Prepare \/ Acknowledged \/ Tracked
  <2>1. \/ Head(todo).op = "prepare" /\ UNCHANGED todo
        \/ Head(todo).op \notin Ends /\ Continue
    BY <1>8 DEF Prepare, Acknowledged, Tracked, At, Ends
  <2>. QED
    BY <2>1, ContinueTodo DEF TInv, Looked, Overdue
<1>9. CASE Quiet \/ Drop \/ BrokerReceives
  <2>1. UNCHANGED todo /\ UNCHANGED seen /\ UNCHANGED qosQueue
    BY <1>9, QuietSame DEF Drop, BrokerReceives, taskVars, sharedVars
  <2>. QED
    BY <2>1 DEF Overdue
<1>10. CASE CallbackSends
  <2>1. /\ UNCHANGED todo /\ UNCHANGED seen
        /\ UNCHANGED qosQueue \/ Head(todo).op # "pruned"
    BY <1>10 DEF CallbackSends, taskVars
  <2>. QED
    BY <2>1 DEF Overdue
<1>11. CASE TimePasses \/ \E k \in DOMAIN qosQueue : ExpireEarly(k)
  <2>1. UNCHANGED todo /\ Head(todo).op # "pruned"
    BY <1>11 DEF TimePasses, Expire, ExpireEarly, Expires, taskVars
  <2>. QED
    BY <2>1 DEF Overdue
<1>. QED
  BY <1>1, <1>2, <1>3, <1>4, <1>5, <1>6, <1>7, <1>8, <1>9, <1>10, <1>11
  DEF Next, MqttStep, TimerStep, Halt, CalmTask, Quiet

LEMMA InitAInv == Init => AInv
<1> SUFFICES ASSUME Init PROVE AInv
  OBVIOUS
<1>1. Step("open") \in Idle /\ Step("open").op = "open" /\ todo = <<Step("open")>>
  BY IdleSteps DEF Init, Ops
<1>2. Head(todo) = Step("open") /\ todo \in Seq(Idle) /\ Head(todo).op = "open"
  BY <1>1
<1>3. Free(todo, Urgent)
  BY <1>2, IdleIsCalm
<1>4. Ordered(todo) /\ Overdue
  BY <1>2, <1>3, FreeIsOrdered DEF Overdue
<1>5. ASSUME NEW i \in Numbers PROVE Follow(i)
  <2>1. ASSUME NEW T \in SUBSET Kinds
        PROVE  Free(todo, Resends(T, i)) /\ Free(todo, Tracks(T, i)) /\ Free(todo, Searches(i))
    BY <1>3, CalmIsFree
  <2>2. /\ Free(todo, Resends(Kinds, i)) /\ Free(todo, Tracks(Kinds, i)) /\ Free(todo, Searches(i))
        /\ \A t \in Kinds : Free(todo, Resends({t}, i))
    BY <2>1, Kinds \in SUBSET Kinds, \A t \in Kinds : {t} \in SUBSET Kinds
  <2>3. \A S : Free(txQueue, S) /\ Free(toBroker, S) /\ Free(toClient, S) /\ Free(qosQueue, S)
    BY EmptyIsFree DEF Init
  <2>4. OneToken(i) /\ OneRecord(i) /\ Silent(i)
    BY <2>2, <2>3, FreeIsOnce DEF OneToken, OneRecord, Silent, Away
  <2>5. Fresh(i) /\ (\A t \in Kinds : Backed(t, i)) /\ LateSilent(i) /\ Leaving(i) /\ Searching(i)
    BY <2>2, <2>3, <2>4 DEF Fresh, Backed, LateSilent, Leaving, Silent, Searching
  <2>. QED
    BY <2>4, <2>5 DEF Follow
<1>. QED
  BY <1>4, <1>5 DEF AInv

LEMMA NextAInv == TInv /\ FInv /\ AInv /\ [Next]_vars => AInv'
<1> SUFFICES ASSUME TInv, FInv, AInv, [Next]_vars PROVE AInv'
  OBVIOUS
<1>1. Ordered(todo)'
  BY NextOrdered DEF AInv, Ordered
<1>2. ASSUME ~raced', ~early' PROVE Overdue' /\ (\A i \in Numbers : Follow(i))'
  <2>1. ~raced /\ ~early
    BY <1>2, RacedStays, EarlyStays
  <2>2. Current /\ Ordered(todo) /\ Overdue /\ \A i \in Numbers : Follow(i)
    BY <2>1 DEF FInv, AInv
  <2>3. \A i \in Numbers : Follow(i)'
    BY <1>2, <2>2, NextFollow
  <2>4. Numbers' = Numbers
    BY DEF Numbers
  <2>. QED
    BY <1>2, <2>2, <2>3, <2>4, NextOverdue
<1>. QED
  BY <1>1, <1>2 DEF AInv

LEMMA AcksFollow == TInv /\ AInv => AcksAreExpected
<1> SUFFICES ASSUME TInv, AInv, ~early, ~raced, NEW k \in DOMAIN toClient
             PROVE  /\ toClient[k].type = "pubrec" => Has(qosQueue, "publish", toClient[k].id)
                    /\ toClient[k].type = "pubcomp" => Has(qosQueue, "pubrel", toClient[k].id)
  BY DEF AcksAreExpected
<1> DEFINE p == toClient[k]
<1>1. k \in 1..Len(toClient) /\ p \in Packet /\ p.id \in Numbers
  <2>1. k \in 1..Len(toClient) /\ toClient \in Seq(Downlink)
    BY DEF TInv, QueuesOK
  <2>2. p \in Downlink
    BY <2>1, ElementOfSeq
  <2>. QED
    BY <2>1, <2>2 DEF Downlink, Packet
<1>2. \A t \in Kinds : Backed(t, p.id)
  BY <1>1 DEF AInv, Follow
<1>3. ASSUME NEW t \in Kinds, p.type = AnswerTo[t] PROVE Has(qosQueue, t, p.id)
  <2>1. p \in Answers({t}, p.id)
    BY <1>1, <1>3 DEF Answers
  <2>2. ~Free(toClient, Answers({t}, p.id))
    BY <1>1, <2>1 DEF Free
  <2>3. ~Free(qosQueue, Records({t}, p.id))
    BY <1>2, <2>2 DEF Backed
  <2>. QED
    BY <2>3 DEF Free, Records, Has, TInv, LookOK
<1>4. /\ AnswerTo["publish"] = "pubrec" /\ AnswerTo["pubrel"] = "pubcomp"
      /\ "publish" \in Kinds /\ "pubrel" \in Kinds
  BY DEF AnswerTo, Kinds
<1>. QED
  BY <1>3, <1>4

\* Nothing is under way without its entry: as long as no deadline passes early
\* and no callback runs inside an update of qosQueue, every PUBREC and PUBCOMP,
\* also a late one after a retry, finds the entry it acknowledges and no
\* connection is ended over it (mqtt.zig:679, 706, 750).
THEOREM AcksFindEntries == Spec => []AcksAreExpected
<1>. QED
  BY InitFInv, NextFInv, InitAInv, NextAInv, AcksFollow, MqttTypesInductive, PTL DEF Spec

===============================================================================

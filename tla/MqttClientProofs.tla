--------------------------- MODULE MqttClientProofs ---------------------------
(***************************************************************************)
(* Proofs about MqttClient for every set of messages, every size of        *)
(* txQueue and every bound on time and failures.                           *)
(***************************************************************************)
EXTENDS MqttClient, SequenceTheorems, FiniteSetTheorems, WellFoundedInduction, TLAPS

-----------------------------------------------------------------------------
(* Sequences *)

\* Every set of positions has a first one.
LEMMA FirstOfIsFirst ==
  ASSUME NEW S \in SUBSET Nat, S # {}
  PROVE  FirstOf(S) \in S
<1>1. PICK k \in S : \A j \in S : ~(<<j, k>> \in OpToRel(<, Nat))
  BY WFMin, NatLessThanWellFounded
<1>2. ASSUME NEW j \in S PROVE k <= j
  <2>1. j \in Nat /\ k \in Nat /\ ~(<<j, k>> \in OpToRel(<, Nat))
    BY <1>1
  <2>. QED
    BY <2>1 DEF OpToRel
<1>. QED
  BY <1>2 DEF FirstOf

LEMMA TailIsSeq ==
  ASSUME NEW T, NEW q \in Seq(T), q # <<>>
  PROVE  /\ Tail(q) \in Seq(T) /\ Head(q) \in T /\ Head(q) = q[1]
         /\ Len(q) \in Nat \ {0} /\ Len(Tail(q)) = Len(q) - 1
         /\ \A i \in 1..Len(Tail(q)) : Tail(q)[i] = q[i + 1]
BY HeadTailProperties, EmptySeq

LEMMA PrefixIsSeq ==
  ASSUME NEW T, NEW q \in Seq(T), NEW n \in 0..Len(q)
  PROVE  /\ SubSeq(q, 1, n) \in Seq(T) /\ Len(SubSeq(q, 1, n)) = n
         /\ \A i \in 1..n : SubSeq(q, 1, n)[i] = q[i]
<1>1. Len(q) \in Nat /\ \A i \in 1..n : q[i] \in T
  BY ElementOfSeq, LenProperties
<1>. QED
  BY <1>1, SubSeqProperties

LEMMA RemoveAtIsSeq ==
  ASSUME NEW T, NEW q \in Seq(T), NEW k \in 1..Len(q)
  PROVE  /\ RemoveAt(q, k) \in Seq(T) /\ Len(RemoveAt(q, k)) = Len(q) - 1
         /\ \A i \in 1..(Len(q) - 1) :
              RemoveAt(q, k)[i] = IF i < k THEN q[i] ELSE q[i + 1]
<1> DEFINE a == SubSeq(q, 1, k - 1)
           b == SubSeq(q, k + 1, Len(q))
<1>0. Len(q) \in Nat /\ \A i \in 1..Len(q) : q[i] \in T
  BY ElementOfSeq, LenProperties
<1>1. a \in Seq(T) /\ Len(a) = k - 1 /\ \A i \in 1..(k - 1) : a[i] = q[i]
  <2>1. k - 1 \in Int /\ 1 \in Int /\ \A i \in 1..(k - 1) : q[i] \in T
    BY <1>0
  <2>. QED
    BY <2>1, <1>0, SubSeqProperties
<1>2. b \in Seq(T) /\ Len(b) = Len(q) - k /\ \A i \in 1..(Len(q) - k) : b[i] = q[k + i]
  <2>1. k + 1 \in Int /\ Len(q) \in Int /\ \A i \in (k + 1)..Len(q) : q[i] \in T
    BY <1>0
  <2>2. /\ b \in Seq(T)
        /\ Len(b) = IF k + 1 <= Len(q) THEN Len(q) - (k + 1) + 1 ELSE 0
        /\ \A i \in 1..(Len(q) - (k + 1) + 1) : b[i] = q[(k + 1) + i - 1]
    BY <2>1, SubSeqProperties
  <2>3. \A i \in 1..(Len(q) - k) : (k + 1) + i - 1 = k + i /\ i \in 1..(Len(q) - (k + 1) + 1)
    BY <1>0
  <2>. QED
    BY <1>0, <2>2, <2>3
<1>3. /\ a \o b \in Seq(T) /\ Len(a \o b) = Len(a) + Len(b)
      /\ \A i \in 1..(Len(a) + Len(b)) : (a \o b)[i] = IF i <= Len(a) THEN a[i] ELSE b[i - Len(a)]
  BY <1>1, <1>2, ConcatProperties
<1>4. RemoveAt(q, k) = a \o b
  BY DEF RemoveAt
<1> HIDE DEF a, b
<1>5. ASSUME NEW i \in 1..(Len(q) - 1)
      PROVE  (a \o b)[i] = IF i < k THEN q[i] ELSE q[i + 1]
  <2>1. CASE i < k
    <3>1. i \in 1..(k - 1) /\ i \in 1..(Len(a) + Len(b)) /\ i <= Len(a)
      BY <1>0, <1>1, <1>2, <2>1
    <3>. QED
      BY <1>1, <1>3, <2>1, <3>1
  <2>2. CASE ~(i < k)
    <3>1. /\ i - Len(a) \in 1..(Len(q) - k) /\ i \in 1..(Len(a) + Len(b)) /\ ~(i <= Len(a))
          /\ k + (i - Len(a)) = i + 1
      BY <1>0, <1>1, <1>2, <2>2
    <3>. QED
      BY <1>2, <1>3, <2>2, <3>1
  <2>. QED
    BY <2>1, <2>2
<1>6. Len(a) + Len(b) = Len(q) - 1
  BY <1>0, <1>1, <1>2
<1>. QED
  BY <1>3, <1>4, <1>5, <1>6

-----------------------------------------------------------------------------
(* What each sequence holds *)

\* What the client sends by itself, and with the pings of pingTimer.
Outgoing == {p \in Packet : /\ p.msg = NoMessage
                            /\ p.type \notin {"pingreq", "pingresp"}
                            /\ p.type = "publish" => p.id \in Ids}
Uplink == Outgoing \cup {P("pingreq", 0)}

\* What the broker sends.
Downlink == {p \in Packet : /\ p.type = "publish" <=> p.msg \in Messages
                            /\ p.type # "pingreq"}

\* Only "hold" and "deliver" have a message.
Todo == {s \in [op : Ops, arg : Packet] :
           /\ s.op = "prepare" => s.arg \in Outgoing
           /\ s.op \in {"search", "track", "tracked"} =>
                s.arg.type \in {"publish", "pubrel"} /\ s.arg.id \in Ids
           /\ s.op \in {"hold", "deliver"} <=> s.arg.msg \in Messages}
Plain == {s \in Todo : s.arg.msg = NoMessage}

\* The last step is one at which the task chooses what to do next; a step that
\* uses what was read of qosQueue is never put off.
Ends   == {"open", "prune", "prune_held", "poll"}
Looked == {"pruned", "acknowledged", "tracked"}
Shape(q) ==
  /\ q # <<>>
  /\ \A k \in 1..Len(q) : /\ q[k].op \in Ends <=> k = Len(q)
                          /\ k > 1 => q[k].op \notin Looked

-----------------------------------------------------------------------------
(* The steps of the mqtt task *)

LEMMA NumbersType == Cardinality(Messages) \in Nat /\ Ids \subseteq Numbers /\ 0 \in Numbers
BY MqttAssumption, FS_CardinalityType DEF Ids, Numbers

LEMMA PacketType ==
  ASSUME NEW type \in Types, NEW id \in Numbers
  PROVE  P(type, id) \in Packet /\ P(type, id).type = type /\ P(type, id).id = id
           /\ P(type, id).msg = NoMessage
BY DEF P, Packet

LEMMA PlainSteps ==
  /\ \A op \in Ops \ {"prepare", "search", "track", "tracked", "hold", "deliver"} :
       Step(op) \in Plain /\ Step(op).op = op
  /\ \A type \in Types \ {"publish", "pingreq", "pingresp"}, id \in Numbers :
       With("prepare", P(type, id)) \in Plain /\ With("prepare", P(type, id)).op = "prepare"
  /\ \A op \in {"prepare", "search", "track", "tracked"}, type \in {"publish", "pubrel"}, id \in Ids :
       With(op, P(type, id)) \in Plain /\ With(op, P(type, id)).op = op
BY NumbersType, MqttAssumption DEF Step, With, P, Plain, Todo, Outgoing, Packet, Ops, Types

LEMMA LoopIsPlain == Loop \in Seq(Plain) /\ Shape(Loop)
BY PlainSteps DEF Loop, Shape, Ends, Looked, Ops

LEMMA LoopStarts == Loop \in Seq(Todo) /\ Shape(Loop) /\ Loop[1].op \notin Looked
<1>1. Loop[1].op = "prune"
  BY PlainSteps DEF Loop, Ops
<1>2. Loop \in Seq(Todo)
  BY LoopIsPlain, SeqMonotonic DEF Plain
<1>. QED
  BY <1>1, <1>2, LoopIsPlain DEF Looked

LEMMA ReopenIsPlain == Reopen \in Seq(Plain) /\ Shape(Reopen)
BY PlainSteps DEF Reopen, Shape, Ends, Looked, Ops

\* Steps that come before others.
Before(q) ==
  \A k \in 1..Len(q) : q[k].op \notin Ends /\ (k > 1 => q[k].op \notin Looked)

LEMMA ConcatShape ==
  ASSUME NEW s \in Seq(Todo), NEW q \in Seq(Todo), Before(s), Shape(q),
         q[1].op \notin Looked
  PROVE  s \o q \in Seq(Todo) /\ Shape(s \o q)
<1>1. Len(s) \in Nat /\ Len(q) \in Nat \ {0}
  BY EmptySeq, LenProperties DEF Shape
<1>2. /\ s \o q \in Seq(Todo) /\ Len(s \o q) = Len(s) + Len(q)
      /\ \A i \in 1..(Len(s) + Len(q)) : (s \o q)[i] = IF i <= Len(s) THEN s[i] ELSE q[i - Len(s)]
  BY ConcatProperties
<1>3. ASSUME NEW k \in 1..(Len(s) + Len(q))
      PROVE  /\ (s \o q)[k].op \in Ends <=> k = Len(s) + Len(q)
             /\ k > 1 => (s \o q)[k].op \notin Looked
  <2>1. CASE k <= Len(s)
    <3>1. k \in 1..Len(s) /\ k # Len(s) + Len(q)
      BY <1>1, <2>1
    <3>. QED
      BY <1>2, <2>1, <3>1 DEF Before
  <2>2. CASE ~(k <= Len(s))
    <3>1. k - Len(s) \in 1..Len(q)
      BY <1>1, <2>2
    <3>2. (k = Len(s) + Len(q) <=> k - Len(s) = Len(q)) /\ (k - Len(s) = 1 \/ k - Len(s) > 1)
      BY <1>1, <2>2
    <3>. QED
      BY <1>2, <2>2, <3>1, <3>2 DEF Shape
  <2>. QED
    BY <2>1, <2>2
<1>4. s \o q # <<>>
  BY <1>1, <1>2, EmptySeq
<1>. QED
  BY <1>2, <1>3, <1>4 DEF Shape

LEMMA PlainIsTodo == ASSUME NEW q \in Seq(Plain) PROVE q \in Seq(Todo)
BY SeqMonotonic DEF Plain

LEMMA ConcatPlain ==
  ASSUME NEW s \in Seq(Plain), NEW q \in Seq(Plain)
  PROVE  s \o q \in Seq(Plain)
BY ConcatProperties

LEMMA DisconnectIsPlain == Disconnect \in Seq(Plain) /\ Shape(Disconnect)
<1> DEFINE s == <<Step("stop"), With("prepare", P("disconnect", 0)), Step("last_flush")>>
<1>1. s \in Seq(Plain)
  BY PlainSteps, NumbersType DEF Ops, Types
<1>2. Before(s)
  BY PlainSteps, NumbersType DEF Before, Ends, Looked, Ops, Types
<1>3. Reopen[1].op \notin Looked
  BY PlainSteps DEF Reopen, Looked, Ops
<1>4. Disconnect = s \o Reopen
  BY DEF Disconnect
<1> HIDE DEF s
<1>. QED
  BY <1>1, <1>2, <1>3, <1>4, ReopenIsPlain, ConcatShape, ConcatPlain, PlainIsTodo

LEMMA FourSteps ==
  ASSUME NEW a \in Plain, NEW b \in Plain, NEW c \in Plain, NEW d \in Plain
  PROVE  /\ <<a, b, c, d>> \in Seq(Plain)
         /\ {a.op, b.op, c.op, d.op} \cap (Ends \cup Looked) = {} => Before(<<a, b, c, d>>)
BY DEF Before

LEMMA ConnectIsPlain == Connect \in Seq(Plain) /\ Shape(Connect)
<1> DEFINE a == With("prepare", P("connect", 0))  b == Step("flush")  c == Step("connack")
           d == With("prepare", P("subscribe", 0))  f == Step("suback")
           g == Step("start")
<1>1. /\ a \in Plain /\ b \in Plain /\ c \in Plain /\ d \in Plain /\ f \in Plain
      /\ g \in Plain
      /\ a.op = "prepare" /\ b.op = "flush" /\ c.op = "connack" /\ d.op = "prepare"
      /\ f.op = "suback" /\ g.op = "start"
  BY PlainSteps, NumbersType DEF Ops, Types
<1>2. Connect = <<a, b, c, d, b, f, g>> \o Loop
  BY DEF Connect
<1> HIDE DEF a, b, c, d, f, g
<1>3. <<a, b, c, d, b, f, g>> \in Seq(Plain)
  BY <1>1
<1>4. Before(<<a, b, c, d, b, f, g>>)
  BY <1>1 DEF Before, Ends, Looked
<1>5. Loop[1].op \notin Looked
  BY PlainSteps DEF Loop, Looked, Ops
<1>. QED
  BY <1>2, <1>3, <1>4, <1>5, LoopIsPlain, ConcatShape, ConcatPlain, PlainIsTodo

-----------------------------------------------------------------------------
(* The inductive invariant of the types *)

TodoOK == todo \in Seq(Todo) /\ Shape(todo)

\* What was read of qosQueue is still there: the callbacks only append.
LookOK ==
  /\ qosQueue \in Seq(Entry) /\ seen \in [at : Nat, len : Nat]
  /\ Head(todo).op \in Looked => seen.len <= Len(qosQueue)
  /\ Head(todo).op \in {"pruned", "acknowledged"} => seen.at \in 1..seen.len

QueuesOK ==
  /\ txQueue \in Seq(Uplink) /\ Len(txQueue) <= TxRoom
  /\ toBroker \in Seq(Uplink) /\ toClient \in Seq(Downlink)
  /\ qos2Queue \in Seq(Held)

\* A callback that has the buffer is under way, and a publish has its number.
CallbackOK ==
  /\ mutex = "timer" => callback # "none"
  /\ callback = "publish" => published \in Ids

FlagsOK ==
  /\ state \in {"not_connected", "connecting", "connected", "err"}
  /\ suspended \in BOOLEAN
  /\ mutex \in {"free", "mqtt", "timer"}
  /\ pingQueue \in BOOLEAN /\ timers \in BOOLEAN /\ panicked \in BOOLEAN
  /\ callback \in {"none", "ping", "publish"}
  /\ delivered \in [Messages -> Nat]
  /\ link \in {"down", "open", "broken"}
  /\ session \in {"none", "fresh", "open", "subscribed"}
  /\ stored \subseteq Ids /\ forwarded \in [Ids -> Nat]
  /\ phase \in [Messages -> {"unsent", "published", "released", "done", "lost"}]
  /\ number \in [Messages -> Nat]
  /\ completed \subseteq Ids /\ raced \in BOOLEAN /\ early \in BOOLEAN
  /\ published \in 0..MaxPublishes /\ pings \in 0..MaxPings
  /\ faults \in 0..MaxFaults

TInv == TodoOK /\ LookOK /\ QueuesOK /\ CallbackOK /\ FlagsOK

LEMMA TypesFollow == TInv => TypeOK
<1> SUFFICES ASSUME TInv PROVE TypeOK
  OBVIOUS
<1>1. todo \in Seq([op : Ops, arg : Packet]) /\ todo # <<>>
  <2>1. Todo \subseteq [op : Ops, arg : Packet]
    BY DEF Todo
  <2>. QED
    BY <2>1, SeqMonotonic DEF TInv, TodoOK, Shape
<1>2. txQueue \in Seq(Packet) /\ toBroker \in Seq(Packet) /\ toClient \in Seq(Packet)
  <2>1. Uplink \subseteq Packet /\ Downlink \subseteq Packet
    BY PacketType, NumbersType DEF Uplink, Outgoing, Downlink, Types
  <2>. QED
    BY <2>1, SeqMonotonic DEF TInv, QueuesOK
<1>. QED
  BY <1>1, <1>2 DEF TInv, TypeOK, LookOK, QueuesOK, FlagsOK

-----------------------------------------------------------------------------
(* How the mqtt task goes on *)

LEMMA HeadOfTodo ==
  ASSUME TodoOK
  PROVE  /\ todo # <<>> /\ Len(todo) \in Nat \ {0} /\ Head(todo) = todo[1]
         /\ Head(todo) \in Todo
BY TailIsSeq DEF TodoOK, Shape

LEMMA TailShape ==
  ASSUME NEW q \in Seq(Todo), Shape(q), Head(q).op \notin Ends
  PROVE  /\ Tail(q) \in Seq(Todo) /\ Shape(Tail(q))
         /\ Head(Tail(q)) = Tail(q)[1] /\ Head(Tail(q)).op \notin Looked
<1> DEFINE t == Tail(q)
<1>1. /\ t \in Seq(Todo) /\ Len(t) = Len(q) - 1
      /\ Len(q) \in Nat \ {0} /\ q[1] = Head(q)
      /\ \A i \in 1..Len(t) : t[i] = q[i + 1]
  BY TailIsSeq DEF Shape
<1> HIDE DEF t
<1>2. Len(q) # 1
  BY <1>1 DEF Shape
<1>3. t # <<>>
  BY <1>1, <1>2, EmptySeq
<1>4. \A k \in 1..Len(t) : /\ t[k].op \in Ends <=> k = Len(t)
                           /\ t[k].op \notin Looked
  BY <1>1 DEF Shape
<1>5. Head(t) = t[1] /\ 1 \in 1..Len(t)
  BY <1>1, <1>3, TailIsSeq
<1>6. t \in Seq(Todo) /\ Shape(t) /\ Head(t) = t[1] /\ Head(t).op \notin Looked
  BY <1>1, <1>3, <1>4, <1>5 DEF Shape
<1>. QED
  BY <1>6 DEF t

LEMMA LastStep ==
  ASSUME NEW q \in Seq(Todo), Shape(q), Head(q).op \in Ends
  PROVE  Tail(q) = <<>>
<1> DEFINE t == Tail(q)
<1>1. /\ t \in Seq(Todo) /\ Len(t) = Len(q) - 1
      /\ Len(q) \in Nat \ {0} /\ q[1] = Head(q)
  BY TailIsSeq DEF Shape
<1> HIDE DEF t
<1>2. Len(q) = 1
  BY <1>1 DEF Shape
<1>3. t = <<>>
  BY <1>1, <1>2, EmptySeq
<1>. QED
  BY <1>3 DEF t

LEMMA ContinueTodo ==
  ASSUME TodoOK, Head(todo).op \notin Ends, Continue
  PROVE  TodoOK' /\ Head(todo').op \notin Looked
BY TailShape DEF Continue, TodoOK

LEMMA NewTodo ==
  ASSUME NEW s \in Seq(Todo), Shape(s), todo' = s
  PROVE  TodoOK' /\ Head(todo') = s[1]
BY TailIsSeq DEF TodoOK, Shape

LEMMA FailTodo ==
  ASSUME Fail
  PROVE  TodoOK' /\ Head(todo').op \notin Looked
<1>1. Reopen[1].op \notin Looked /\ Disconnect[1].op \notin Looked
  BY PlainSteps DEF Disconnect, Reopen, Looked, Ops, Step
<1>2. CASE todo' = Reopen
  BY <1>1, <1>2, NewTodo, ReopenIsPlain, PlainIsTodo
<1>3. CASE todo' = Disconnect
  BY <1>1, <1>3, NewTodo, DisconnectIsPlain, PlainIsTodo
<1>. QED
  BY <1>2, <1>3 DEF Fail

\* At its last step the task replaces it.
LEMMA EndTodo ==
  ASSUME TodoOK, Head(todo).op \in Ends, NEW s \in Seq(Todo), Shape(s), Then(s)
  PROVE  TodoOK' /\ todo' = s /\ Head(todo') = s[1]
<1>3. Tail(todo) = <<>>
  BY LastStep DEF TodoOK
<1>4. todo' = s
  BY <1>3, ConcatEmptySeq DEF Then
<1>. QED
  BY <1>4, NewTodo

\* Before it, it puts the new steps in front.
LEMMA BeforeTodo ==
  ASSUME TodoOK, Head(todo).op \notin Ends, NEW s \in Seq(Todo), s # <<>>, Before(s), Then(s)
  PROVE  TodoOK' /\ Head(todo') = s[1]
<1>1. Tail(todo) \in Seq(Todo) /\ Shape(Tail(todo))
  BY TailShape DEF TodoOK
<1>2. Tail(todo)[1].op \notin Looked
  BY TailShape DEF TodoOK
<1>3. s \o Tail(todo) \in Seq(Todo) /\ Shape(s \o Tail(todo))
  BY <1>1, <1>2, ConcatShape
<1>4. (s \o Tail(todo))[1] = s[1]
  <2>1. Len(s) \in Nat \ {0} /\ Len(Tail(todo)) \in Nat
    BY <1>1, EmptySeq, LenProperties
  <2>2. 1 \in 1..(Len(s) + Len(Tail(todo))) /\ 1 <= Len(s)
    BY <2>1
  <2>. QED
    BY <1>1, <2>2, ConcatProperties
<1>. QED
  BY <1>3, <1>4, NewTodo DEF Then

-----------------------------------------------------------------------------
(* qosQueue *)

LEMMA NothingLooked ==
  ASSUME Head(todo').op \notin Looked, qosQueue' \in Seq(Entry),
         seen' \in [at : Nat, len : Nat]
  PROVE  LookOK'
BY DEF LookOK, Looked

LEMMA LooksAtEntry ==
  ASSUME LookOK, NEW type, NEW id, Entries(type, id) # {}, Look(FirstOf(Entries(type, id))),
         qosQueue' = qosQueue
  PROVE  /\ LookOK' /\ type \in {"publish", "pubrel"} /\ id \in Ids
<1>1. /\ Len(qosQueue) \in Nat /\ DOMAIN qosQueue = 1..Len(qosQueue)
      /\ \A k \in 1..Len(qosQueue) : qosQueue[k] \in Entry
  BY LenProperties, ElementOfSeq DEF LookOK
<1>2. Entries(type, id) \in SUBSET Nat
  BY <1>1 DEF Entries
<1>3. FirstOf(Entries(type, id)) \in Entries(type, id)
  BY <1>2, FirstOfIsFirst
<1>4. FirstOf(Entries(type, id)) \in 1..Len(qosQueue)
  BY <1>1, <1>3 DEF Entries
<1>5. PICK k \in 1..Len(qosQueue) : qosQueue[k].type = type /\ qosQueue[k].id = id
  BY <1>1, <1>3 DEF Entries
<1>. QED
  BY <1>1, <1>4, <1>5 DEF LookOK, Look, Entry

LEMMA LooksAtDue ==
  ASSUME LookOK, DueEntries # {}, Look(FirstOf(DueEntries)), qosQueue' = qosQueue
  PROVE  LookOK'
<1>1. Len(qosQueue) \in Nat /\ DOMAIN qosQueue = 1..Len(qosQueue)
  BY LenProperties DEF LookOK
<1>2. DueEntries \in SUBSET Nat
  BY <1>1 DEF DueEntries
<1>3. FirstOf(DueEntries) \in DueEntries
  BY <1>2, FirstOfIsFirst
<1>4. FirstOf(DueEntries) \in 1..Len(qosQueue)
  BY <1>1, <1>3 DEF DueEntries
<1>. QED
  BY <1>1, <1>4 DEF LookOK, Look

\* What the task changes is an entry it has read.
LEMMA RemovesEntry ==
  ASSUME LookOK, Head(todo).op \in {"pruned", "acknowledged"}
  PROVE  OrderedRemove \in Seq(Entry) /\ Removed \in Entry
<1>1. /\ Len(qosQueue) \in Nat /\ seen.len \in 1..Len(qosQueue) /\ seen.at \in 1..seen.len
      /\ \A k \in 1..Len(qosQueue) : qosQueue[k] \in Entry
  BY LenProperties, ElementOfSeq DEF LookOK, Looked
<1>2. Front(qosQueue) \in Seq(Entry)
  BY <1>1, PrefixIsSeq DEF LookOK, Front
<1>3. RemoveAt(SubSeq(qosQueue, 1, seen.len), seen.at) \in Seq(Entry)
  <2> DEFINE q == SubSeq(qosQueue, 1, seen.len)
  <2>1. q \in Seq(Entry) /\ Len(q) = seen.len
    BY <1>1, PrefixIsSeq DEF LookOK
  <2>2. seen.at \in 1..Len(q)
    BY <1>1, <2>1
  <2> HIDE DEF q
  <2>3. RemoveAt(q, seen.at) \in Seq(Entry)
    BY <2>1, <2>2, RemoveAtIsSeq
  <2>. QED
    BY <2>3 DEF q
<1>4. Last(qosQueue) \in Entry /\ qosQueue[seen.at] \in Entry
  BY <1>1 DEF Last
<1>. QED
  BY <1>2, <1>3, <1>4 DEF OrderedRemove, Removed

LEMMA TracksEntry ==
  ASSUME LookOK, TodoOK, Head(todo).op = "tracked"
  PROVE  Append(SubSeq(qosQueue, 1, seen.len),
                [type |-> Arg.type, id |-> Arg.id, due |-> FALSE]) \in Seq(Entry)
<1>1. Arg.type \in {"publish", "pubrel"} /\ Arg.id \in Ids
  BY HeadOfTodo DEF Arg, Todo
<1>2. Len(qosQueue) \in Nat /\ seen.len \in 0..Len(qosQueue)
  BY LenProperties DEF LookOK, Looked
<1>3. SubSeq(qosQueue, 1, seen.len) \in Seq(Entry)
  BY <1>2, PrefixIsSeq DEF LookOK
<1>. QED
  BY <1>1, <1>3, AppendProperties DEF Entry

-----------------------------------------------------------------------------
(* The steps of the mqtt task keep todo and what was read of qosQueue *)

\* A step that is not the last and looks at nothing.
LEMMA ContinueOK ==
  ASSUME TInv, Head(todo).op \notin Ends, Continue \/ Fail, UNCHANGED <<seen, qosQueue>>
  PROVE  TodoOK' /\ LookOK'
<1>1. TodoOK' /\ Head(todo').op \notin Looked
  BY ContinueTodo, FailTodo DEF TInv
<1>. QED
  BY <1>1, NothingLooked DEF TInv, LookOK

\* New steps at the end that look at nothing.
LEMMA RoundOK ==
  ASSUME TInv, Head(todo).op \in Ends, NEW s \in Seq(Todo), Shape(s), s[1].op \notin Looked,
         Then(s), UNCHANGED <<seen, qosQueue>>
  PROVE  TodoOK' /\ LookOK'
<1>1. TodoOK' /\ Head(todo').op \notin Looked
  BY EndTodo DEF TInv
<1>. QED
  BY <1>1, NothingLooked DEF TInv, LookOK

LEMMA OpenOK ==
  ASSUME TInv, Open \/ OpenFails
  PROVE  TodoOK' /\ LookOK'
<1>1. CASE Open
  <2>1. Connect[1].op \notin Looked
    BY PlainSteps DEF Connect, Loop, Looked, Ops, With
  <2>2. todo' = Connect /\ UNCHANGED <<seen, qosQueue>>
    BY <1>1 DEF Open, sharedVars
  <2>3. TodoOK' /\ Head(todo').op \notin Looked
    BY <2>1, <2>2, NewTodo, ConnectIsPlain, PlainIsTodo
  <2>. QED
    BY <2>2, <2>3, NothingLooked DEF TInv, LookOK
<1>2. CASE OpenFails
  BY <1>2 DEF OpenFails, sharedVars, TInv, TodoOK, LookOK
<1>. QED
  BY <1>1, <1>2

LEMMA PlainContinueOK ==
  ASSUME TInv,
         \/ AwaitConnack \/ AwaitSuback \/ AwaitTimesOut \/ StartTimers \/ StopTimers \/ Close
         \/ Hold \/ Deliver
  PROVE  TodoOK' /\ LookOK'
<1>1. /\ Head(todo).op \notin Ends /\ (Continue \/ Fail)
      /\ UNCHANGED <<seen, qosQueue>>
  BY DEF AwaitConnack, AwaitSuback, AwaitTimesOut, StartTimers, StopTimers, Close, Hold, Deliver,
         At, Ends, sharedVars
<1>. QED
  BY <1>1, ContinueOK

LEMMA SendOK ==
  ASSUME TInv, Prepare \/ Flush
  PROVE  TodoOK' /\ LookOK'
<1>1. /\ Head(todo).op \in {"prepare", "flush", "last_flush"}
      /\ UNCHANGED todo \/ Continue \/ Fail
      /\ UNCHANGED <<seen, qosQueue>>
  BY DEF Prepare, Flush, At
<1>2. CASE UNCHANGED todo
  BY <1>1, <1>2 DEF TInv, TodoOK, LookOK
<1>3. CASE Continue \/ Fail
  BY <1>1, <1>3, ContinueOK DEF Ends
<1>. QED
  BY <1>1, <1>2, <1>3

LEMMA TwoSteps ==
  ASSUME NEW a \in Todo, NEW b \in Todo
  PROVE  /\ <<a>> \in Seq(Todo) /\ <<a, b>> \in Seq(Todo)
         /\ a.op \in Ends => Shape(<<a>>)
         /\ a.op \notin Ends /\ b.op \in Ends => Shape(<<a, b>>)
         /\ a.op \notin Ends => Before(<<a>>)
         /\ a.op \notin Ends /\ b.op \notin Ends \cup Looked => Before(<<a, b>>)
BY DEF Shape, Before, Ends, Looked

LEMMA LongSteps ==
  ASSUME NEW a \in Todo, NEW b \in Todo, NEW c \in Todo, NEW d \in Todo,
         a.op \notin Ends, b.op \notin Ends \cup Looked, c.op \notin Ends \cup Looked,
         d.op \in Ends \ Looked
  PROVE  /\ <<b, c, d>> \in Seq(Todo) /\ Shape(<<b, c, d>>)
         /\ <<a, b, c, d>> \in Seq(Todo) /\ Shape(<<a, b, c, d>>)
BY DEF Shape

LEMMA FiveSteps ==
  ASSUME NEW a \in Todo, NEW b \in Todo, NEW c \in Todo, NEW d \in Todo, NEW e \in Todo,
         a.op \notin Ends, b.op \notin Ends \cup Looked, c.op \notin Ends \cup Looked,
         d.op \notin Ends \cup Looked, e.op \in Ends \ Looked
  PROVE  <<a, b, c, d, e>> \in Seq(Todo) /\ Shape(<<a, b, c, d, e>>)
BY DEF Shape

LEMMA PlainTodo == Plain \subseteq Todo
BY DEF Plain

LEMMA PruneOK ==
  ASSUME TInv, Prune \/ PruneHeld
  PROVE  TodoOK' /\ LookOK'
<1>1. CASE Prune
  <2>1. Step("pruned") \in Todo /\ Step("pruned").op = "pruned"
    BY PlainSteps, PlainTodo DEF Ops
  <2>2. <<Step("pruned")>> \in Seq(Todo) /\ Before(<<Step("pruned")>>)
    BY <2>1, TwoSteps DEF Ends
  <2>3. Loop \in Seq(Todo) /\ Shape(Loop) /\ Loop[1].op \notin Looked
    BY LoopStarts
  <2>4. <<Step("pruned")>> \o Loop \in Seq(Todo) /\ Shape(<<Step("pruned")>> \o Loop)
    BY <2>2, <2>3, ConcatShape
  <2>5. TodoOK'
    BY <1>1, <2>4, EndTodo DEF TInv, Prune, At, Ends
  <2>6. LookOK'
    BY <1>1, LooksAtDue DEF Prune, sharedVars, TInv
  <2>. QED
    BY <2>5, <2>6
<1>2. CASE PruneHeld
  <2>1. /\ Step("prune_held") \in Todo /\ Step("flush") \in Todo /\ Poll \in Todo
        /\ Step("prune_held").op = "prune_held" /\ Step("flush").op = "flush" /\ Poll.op = "poll"
    BY PlainSteps, PlainTodo DEF Ops, Poll
  <2>2. /\ Head(todo).op \in Ends /\ UNCHANGED <<seen, qosQueue>>
        /\ Then(<<Step("prune_held")>>) \/ Then(<<Step("flush"), Poll>>)
    BY <1>2 DEF PruneHeld, At, Ends, sharedVars, Poll
  <2>3. CASE Then(<<Step("prune_held")>>)
    <3>1. <<Step("prune_held")>> \in Seq(Todo) /\ Shape(<<Step("prune_held")>>)
      BY <2>1, TwoSteps DEF Ends
    <3>2. <<Step("prune_held")>>[1].op \notin Looked
      BY <2>1 DEF Looked
    <3>. QED
      BY <2>2, <2>3, <3>1, <3>2, RoundOK
  <2>4. CASE Then(<<Step("flush"), Poll>>)
    <3>1. <<Step("flush"), Poll>> \in Seq(Todo) /\ Shape(<<Step("flush"), Poll>>)
      BY <2>1, TwoSteps DEF Ends
    <3>2. <<Step("flush"), Poll>>[1].op \notin Looked
      BY <2>1 DEF Looked
    <3>. QED
      BY <2>2, <2>4, <3>1, <3>2, RoundOK
  <2>. QED
    BY <2>2, <2>3, <2>4
<1>. QED
  BY <1>1, <1>2

LEMMA PrunedOK ==
  ASSUME TInv, Pruned
  PROVE  TodoOK' /\ LookOK'
<1>1. Removed \in Entry /\ OrderedRemove \in Seq(Entry)
  BY RemovesEntry DEF Pruned, At, TInv
<1>2. Removed.type \in {"publish", "pubrel"} /\ Removed.id \in Ids
  BY <1>1 DEF Entry
<1> DEFINE a == With("prepare", P(Removed.type, Removed.id))
           b == With("track", P(Removed.type, Removed.id))
<1>3. a \in Todo /\ b \in Todo /\ a.op = "prepare" /\ b.op = "track"
  BY <1>2, PlainSteps, PlainTodo
<1>4. /\ Then(<<a, b>>) /\ Head(todo).op \notin Ends
      /\ qosQueue' = OrderedRemove /\ seen' = Nothing
  BY DEF Pruned, At, Ends
<1> HIDE DEF a, b
<1>5. <<a, b>> \in Seq(Todo) /\ Before(<<a, b>>) /\ <<a, b>> # <<>>
  BY <1>3, TwoSteps DEF Ends, Looked
<1>6. TodoOK' /\ Head(todo') = a
  BY <1>4, <1>5, BeforeTodo DEF TInv
<1>. QED
  BY <1>1, <1>3, <1>4, <1>6, NothingLooked DEF Nothing, Looked

LEMMA AcknowledgedOK ==
  ASSUME TInv, Acknowledged \/ Tracked
  PROVE  TodoOK' /\ LookOK'
<1>1. Head(todo).op \in {"acknowledged", "tracked"} /\ Continue /\ seen' = Nothing
  BY DEF Acknowledged, Tracked, At
<1>2. TodoOK' /\ Head(todo').op \notin Looked
  BY <1>1, ContinueTodo DEF TInv, Ends
<1>3. qosQueue' \in Seq(Entry)
  <2>1. CASE Acknowledged
    BY <2>1, RemovesEntry DEF Acknowledged, At, TInv
  <2>2. CASE Tracked
    BY <2>2, TracksEntry DEF Tracked, At, TInv
  <2>. QED
    BY <2>1, <2>2
<1>. QED
  BY <1>1, <1>2, <1>3, NothingLooked DEF Nothing

LEMMA SearchOK ==
  ASSUME TInv, Search
  PROVE  TodoOK' /\ LookOK'
<1>1. Head(todo).op \notin Ends /\ qosQueue' = qosQueue
  BY DEF Search, At, Ends, sharedVars
<1>2. CASE Continue /\ UNCHANGED seen
  BY <1>1, <1>2, ContinueOK
<1>3. CASE /\ Entries(Arg.type, Arg.id) # {}
           /\ Look(FirstOf(Entries(Arg.type, Arg.id))) /\ Then(<<Step("acknowledged")>>)
  <2>1. LookOK'
    BY <1>1, <1>3, LooksAtEntry DEF TInv
  <2>2. Step("acknowledged") \in Todo /\ Step("acknowledged").op = "acknowledged"
    BY PlainSteps, PlainTodo DEF Ops
  <2>3. <<Step("acknowledged")>> \in Seq(Todo) /\ Before(<<Step("acknowledged")>>)
          /\ <<Step("acknowledged")>> # <<>>
    BY <2>2, TwoSteps DEF Ends
  <2>4. TodoOK'
    BY <1>1, <1>3, <2>3, BeforeTodo DEF TInv
  <2>. QED
    BY <2>1, <2>4
<1>. QED
  BY <1>2, <1>3 DEF Search

LEMMA TrackOK ==
  ASSUME TInv, Track
  PROVE  TodoOK' /\ LookOK'
<1>1. /\ Head(todo).op = "track" /\ Then(<<With("tracked", Arg)>>)
      /\ Look(0) /\ qosQueue' = qosQueue
  BY DEF Track, At, sharedVars
<1>2. With("tracked", Arg) \in Todo /\ With("tracked", Arg).op = "tracked"
  BY <1>1, HeadOfTodo DEF TInv, Todo, With, Arg, Ops
<1>3. <<With("tracked", Arg)>> \in Seq(Todo) /\ Before(<<With("tracked", Arg)>>)
        /\ <<With("tracked", Arg)>> # <<>>
  BY <1>2, TwoSteps DEF Ends
<1>4. TodoOK' /\ Head(todo').op = "tracked"
  BY <1>1, <1>2, <1>3, BeforeTodo DEF TInv, Ends
<1>5. Len(qosQueue) \in Nat
  BY LenProperties DEF TInv, LookOK
<1>. QED
  BY <1>1, <1>4, <1>5 DEF TInv, LookOK, Look

LEMMA IncomingType ==
  ASSUME TInv, NEW p \in Incoming
  PROVE  p \in Downlink /\ p \in Packet /\ toClient # <<>> /\ p = Head(toClient)
<1>1. toClient # <<>> /\ p = Head(toClient)
  BY DEF Incoming
<1>. QED
  BY <1>1, TailIsSeq DEF TInv, QueuesOK, Downlink

LEMMA HeldIsHeld ==
  ASSUME TInv, NEW id, NEW Under, Under = {k \in DOMAIN qos2Queue : qos2Queue[k].id = id},
         Under # {}
  PROVE  FirstOf(Under) \in 1..Len(qos2Queue) /\ qos2Queue[FirstOf(Under)] \in Held
<1>1. /\ Len(qos2Queue) \in Nat /\ DOMAIN qos2Queue = 1..Len(qos2Queue)
      /\ \A k \in 1..Len(qos2Queue) : qos2Queue[k] \in Held
  BY LenProperties, ElementOfSeq DEF TInv, QueuesOK
<1>2. Under \in SUBSET Nat
  BY <1>1
<1>3. FirstOf(Under) \in Under
  BY <1>2, FirstOfIsFirst
<1>. QED
  BY <1>1, <1>3

LEMMA PollStep ==
  /\ Poll \in Todo /\ Poll.op = "poll" /\ Poll.op \in Ends \ Looked
  /\ Poll.arg.msg = NoMessage
BY PlainSteps, PlainTodo DEF Poll, Ops, Ends, Looked, Plain

LEMMA ReceivePublishOK ==
  ASSUME TInv, ReceivePublish
  PROVE  TodoOK' /\ LookOK'
<1>1. PICK p \in Incoming :
        /\ Receive(p) /\ p.type = "publish" /\ UNCHANGED seen
        /\ \/ Then(<<With("prepare", P("pubrec", p.id)), With("hold", p), Poll>>)
           \/ Then(<<With("prepare", P("puback", p.id)), Step("flush"), With("deliver", p), Poll>>)
  BY DEF ReceivePublish
<1>2. p \in Packet /\ p.msg \in Messages /\ p.id \in Numbers
  BY <1>1, IncomingType DEF Downlink, Packet
<1> DEFINE a == With("prepare", P("pubrec", p.id))  b == With("prepare", P("puback", p.id))
           c == Step("flush")  d == With("deliver", p)  e == With("hold", p)
<1>3. /\ a \in Todo /\ b \in Todo /\ c \in Todo
      /\ a.op = "prepare" /\ b.op = "prepare" /\ c.op = "flush"
  BY <1>2, PlainSteps, PlainTodo DEF Ops, Types
<1>4. d \in Todo /\ e \in Todo /\ d.op = "deliver" /\ e.op = "hold"
  BY <1>2 DEF Todo, With, Ops
<1>5. Then(<<a, e, Poll>>) \/ Then(<<b, c, d, Poll>>)
  BY <1>1
<1> HIDE DEF a, b, c, d, e
<1>6. /\ <<a, e, Poll>> \in Seq(Todo) /\ Shape(<<a, e, Poll>>)
      /\ <<b, c, d, Poll>> \in Seq(Todo) /\ Shape(<<b, c, d, Poll>>)
  <2>1. /\ {a.op, b.op, c.op, d.op, e.op} \cap (Ends \cup Looked) = {}
    BY <1>3, <1>4 DEF Ends, Looked
  <2>. QED
    BY <2>1, <1>3, <1>4, PollStep, LongSteps
<1>7. <<a, e, Poll>>[1].op \notin Looked /\ <<b, c, d, Poll>>[1].op \notin Looked
  BY <1>3 DEF Looked
<1>8. Head(todo).op \in Ends /\ UNCHANGED <<seen, qosQueue>>
  BY <1>1 DEF Receive, At, Ends
<1>. QED
  BY <1>5, <1>6, <1>7, <1>8, RoundOK

LEMMA ReceivePubrelOK ==
  ASSUME TInv, ReceivePubrel
  PROVE  TodoOK' /\ LookOK'
<1>1. PICK p \in Incoming :
        /\ Receive(p) /\ p.type = "pubrel" /\ UNCHANGED seen
        /\ LET Under == {k \in DOMAIN qos2Queue : qos2Queue[k].id = p.id}
           IN  \/ /\ Under # {}
                  /\ Then(<<With("prepare", P("pubcomp", p.id)), Step("flush"),
                            With("deliver", [p EXCEPT !.msg = qos2Queue[FirstOf(Under)].msg]),
                            Poll>>)
               \/ Then(<<Poll>>)
  BY DEF ReceivePubrel
<1>2. Head(todo).op \in Ends /\ UNCHANGED <<seen, qosQueue>>
  BY <1>1 DEF Receive, At, Ends
<1>3. CASE Then(<<Poll>>)
  <2>1. <<Poll>> \in Seq(Todo) /\ Shape(<<Poll>>) /\ <<Poll>>[1].op \notin Looked
    BY PollStep, TwoSteps
  <2>. QED
    BY <1>2, <1>3, <2>1, RoundOK
<1>4. ASSUME NEW Under, Under = {k \in DOMAIN qos2Queue : qos2Queue[k].id = p.id}, Under # {},
             Then(<<With("prepare", P("pubcomp", p.id)), Step("flush"),
                    With("deliver", [p EXCEPT !.msg = qos2Queue[FirstOf(Under)].msg]), Poll>>)
      PROVE  TodoOK' /\ LookOK'
  <2>1. p \in Packet /\ p.id \in Numbers
    BY <1>1, IncomingType DEF Packet
  <2>2. qos2Queue[FirstOf(Under)].msg \in Messages
    BY <1>4, HeldIsHeld DEF Held
  <2> DEFINE a == With("prepare", P("pubcomp", p.id))  b == Step("flush")
             c == With("deliver", [p EXCEPT !.msg = qos2Queue[FirstOf(Under)].msg])
  <2>3. a \in Todo /\ b \in Todo /\ a.op = "prepare" /\ b.op = "flush"
    BY <2>1, PlainSteps, PlainTodo DEF Ops, Types
  <2>4. c \in Todo /\ c.op = "deliver"
    BY <2>1, <2>2 DEF Todo, With, Ops, Packet
  <2>5. Then(<<a, b, c, Poll>>)
    BY <1>4
  <2> HIDE DEF a, b, c
  <2>6. <<a, b, c, Poll>> \in Seq(Todo) /\ Shape(<<a, b, c, Poll>>)
          /\ <<a, b, c, Poll>>[1].op \notin Looked
    <3>1. {a.op, b.op, c.op} \cap (Ends \cup Looked) = {}
      BY <2>3, <2>4 DEF Ends, Looked
    <3>. QED
      BY <3>1, <2>3, <2>4, PollStep, LongSteps
  <2>. QED
    BY <1>2, <2>5, <2>6, RoundOK
<1>. QED
  BY <1>1, <1>3, <1>4

LEMMA ReceivePubrecOK ==
  ASSUME TInv, ReceivePubrec
  PROVE  TodoOK' /\ LookOK'
<1>1. PICK p \in Incoming :
        /\ Receive(p)
        /\ \/ /\ Entries("publish", p.id) # {} /\ Look(FirstOf(Entries("publish", p.id)))
              /\ Then(<<Step("acknowledged"), With("search", P("pubrel", p.id)),
                        With("prepare", P("pubrel", p.id)),
                        With("track", P("pubrel", p.id)), Poll>>)
           \/ Fail /\ UNCHANGED seen
  BY DEF ReceivePubrec
<1>2. Head(todo).op \in Ends /\ qosQueue' = qosQueue
  BY <1>1 DEF Receive, At, Ends
<1>3. CASE Fail /\ UNCHANGED seen
  BY <1>2, <1>3, FailTodo, NothingLooked DEF TInv, LookOK
<1>4. CASE /\ Entries("publish", p.id) # {} /\ Look(FirstOf(Entries("publish", p.id)))
           /\ Then(<<Step("acknowledged"), With("search", P("pubrel", p.id)),
                     With("prepare", P("pubrel", p.id)), With("track", P("pubrel", p.id)), Poll>>)
  <2>1. LookOK' /\ p.id \in Ids
    BY <1>2, <1>4, LooksAtEntry DEF TInv
  <2> DEFINE a == Step("acknowledged")  b == With("search", P("pubrel", p.id))
             c == With("prepare", P("pubrel", p.id))  d == With("track", P("pubrel", p.id))
  <2>2. /\ a \in Todo /\ b \in Todo /\ c \in Todo /\ d \in Todo
        /\ a.op = "acknowledged" /\ b.op = "search" /\ c.op = "prepare" /\ d.op = "track"
    BY <2>1, PlainSteps, PlainTodo DEF Ops
  <2>3. Then(<<a, b, c, d, Poll>>)
    BY <1>4
  <2> HIDE DEF a, b, c, d
  <2>4. /\ a.op \notin Ends /\ b.op \notin Ends \cup Looked /\ c.op \notin Ends \cup Looked
        /\ d.op \notin Ends \cup Looked
    BY <2>2 DEF Ends, Looked
  <2>5. <<a, b, c, d, Poll>> \in Seq(Todo) /\ Shape(<<a, b, c, d, Poll>>)
    BY <2>2, <2>4, PollStep, FiveSteps
  <2>. QED
    BY <1>2, <2>1, <2>3, <2>5, EndTodo DEF TInv
<1>. QED
  BY <1>1, <1>3, <1>4

LEMMA ReceivePubcompOK ==
  ASSUME TInv, ReceivePubcomp
  PROVE  TodoOK' /\ LookOK'
<1>1. PICK p \in Incoming :
        /\ Receive(p)
        /\ \/ /\ Entries("pubrel", p.id) # {} /\ Look(FirstOf(Entries("pubrel", p.id)))
              /\ Then(<<Step("acknowledged"), Poll>>)
           \/ Fail /\ UNCHANGED seen
  BY DEF ReceivePubcomp
<1>2. Head(todo).op \in Ends /\ qosQueue' = qosQueue
  BY <1>1 DEF Receive, At, Ends
<1>3. CASE Fail /\ UNCHANGED seen
  BY <1>2, <1>3, FailTodo, NothingLooked DEF TInv, LookOK
<1>4. CASE /\ Entries("pubrel", p.id) # {} /\ Look(FirstOf(Entries("pubrel", p.id)))
           /\ Then(<<Step("acknowledged"), Poll>>)
  <2>1. LookOK'
    BY <1>2, <1>4, LooksAtEntry DEF TInv
  <2>2. Step("acknowledged") \in Todo /\ Step("acknowledged").op = "acknowledged"
    BY PlainSteps, PlainTodo DEF Ops
  <2>3. <<Step("acknowledged"), Poll>> \in Seq(Todo) /\ Shape(<<Step("acknowledged"), Poll>>)
    BY <2>2, PollStep, TwoSteps DEF Ends
  <2>. QED
    BY <1>2, <1>4, <2>1, <2>3, EndTodo DEF TInv
<1>. QED
  BY <1>1, <1>3, <1>4

LEMMA ReceiveOtherOK ==
  ASSUME TInv, PollTimesOut \/ ReceivePingresp \/ ReceiveLate
  PROVE  TodoOK' /\ LookOK'
<1>1. /\ Head(todo).op \in Ends /\ UNCHANGED <<seen, qosQueue>>
      /\ Then(Loop) \/ Then(<<Poll>>)
  BY DEF PollTimesOut, ReceivePingresp, ReceiveLate, Receive, At, Ends, sharedVars
<1>2. <<Poll>> \in Seq(Todo) /\ Shape(<<Poll>>) /\ <<Poll>>[1].op \notin Looked
  BY PollStep, TwoSteps
<1>3. Loop \in Seq(Todo) /\ Shape(Loop) /\ Loop[1].op \notin Looked
  BY LoopStarts
<1>. QED
  BY <1>1, <1>2, <1>3, RoundOK

-----------------------------------------------------------------------------
(* The queues *)

LEMMA QueuesKept ==
  ASSUME QueuesOK, UNCHANGED <<txQueue, toBroker, toClient, qos2Queue>>
  PROVE  QueuesOK'
BY DEF QueuesOK

LEMMA UplinkTypes == Outgoing \subseteq Uplink /\ P("pingreq", 0) \in Uplink
BY DEF Uplink

LEMMA PublishIsUplink == ASSUME NEW id \in Ids PROVE P("publish", id) \in Uplink
<1>1. P("publish", id) \in Packet
  BY PacketType, NumbersType DEF Types
<1>. QED
  BY <1>1, NumbersType, PacketType DEF Uplink, Outgoing, P

LEMMA ReplyIsDownlink ==
  ASSUME NEW type \in Types \ {"publish", "pingreq"}, NEW id \in Numbers
  PROVE  P(type, id) \in Downlink
BY PacketType, MqttAssumption DEF Downlink, P

\* Nothing is received, or the first packet.
LEMMA ReceivesFirst ==
  ASSUME QueuesOK, UNCHANGED <<txQueue, toBroker, qos2Queue>>,
         toClient' \in {toClient, <<>>} \/ (toClient # <<>> /\ toClient' = Tail(toClient))
  PROVE  QueuesOK'
BY TailIsSeq, EmptySeq DEF QueuesOK

LEMMA PrepareQueues == ASSUME TInv, Prepare PROVE QueuesOK'
<1>1. CASE txQueue' = txQueue
  BY <1>1, QueuesKept DEF Prepare, TInv, rxVars, linkVars
<1>2. CASE Len(txQueue) < TxRoom /\ txQueue' = Append(txQueue, Arg)
  <2>1. Arg \in Uplink
    BY HeadOfTodo, UplinkTypes DEF Prepare, At, Arg, Todo, TInv
  <2>2. txQueue' \in Seq(Uplink) /\ Len(txQueue') = Len(txQueue) + 1 /\ Len(txQueue) \in Nat
    BY <1>2, <2>1, AppendProperties, LenProperties DEF TInv, QueuesOK
  <2>3. UNCHANGED <<toBroker, toClient, qos2Queue>>
    BY DEF Prepare, rxVars, linkVars
  <2>. QED
    BY <1>2, <2>2, <2>3, MqttAssumption DEF TInv, QueuesOK
<1>. QED
  BY <1>1, <1>2 DEF Prepare

LEMMA FlushQueues == ASSUME TInv, Flush PROVE QueuesOK'
<1>0. UNCHANGED <<toClient, qos2Queue>>
  BY DEF Flush, rxVars
<1>1. CASE UNCHANGED <<txQueue, toBroker>>
  BY <1>0, <1>1, QueuesKept DEF TInv
<1>2. CASE /\ txQueue # <<>> /\ txQueue' = Tail(txQueue)
           /\ toBroker' \in {toBroker, Append(toBroker, Head(txQueue))}
  <2>1. /\ Head(txQueue) \in Uplink /\ Tail(txQueue) \in Seq(Uplink)
        /\ Len(Tail(txQueue)) = Len(txQueue) - 1 /\ Len(txQueue) \in Nat
    BY <1>2, TailIsSeq DEF TInv, QueuesOK
  <2>2. toBroker' \in Seq(Uplink)
    <3>1. toBroker \in Seq(Uplink) /\ Append(toBroker, Head(txQueue)) \in Seq(Uplink)
      BY <2>1, AppendProperties DEF TInv, QueuesOK
    <3>. QED
      BY <1>2, <3>1
  <2>3. Len(txQueue') <= TxRoom
    BY <1>2, <2>1, MqttAssumption DEF TInv, QueuesOK
  <2>. QED
    BY <1>0, <1>2, <2>1, <2>2, <2>3 DEF TInv, QueuesOK
<1>. QED
  BY <1>1, <1>2 DEF Flush

LEMMA HeldQueues ==
  ASSUME TInv, PruneHeld \/ Hold \/ (\E k \in DOMAIN qos2Queue : HeldExpires(k))
  PROVE  QueuesOK'
<1>0. UNCHANGED <<txQueue, toBroker, toClient>>
  BY DEF PruneHeld, Hold, HeldExpires, sharedVars, linkVars
<1>1. Len(qos2Queue) \in Nat /\ DOMAIN qos2Queue = 1..Len(qos2Queue) /\ qos2Queue \in Seq(Held)
  BY LenProperties DEF TInv, QueuesOK
<1>2. qos2Queue' \in Seq(Held)
  <2>1. CASE PruneHeld
    <3>1. CASE DueHeld # {} /\ qos2Queue' = RemoveAt(qos2Queue, FirstOf(DueHeld))
      <4>1. DueHeld \in SUBSET Nat
        BY <1>1 DEF DueHeld
      <4>2. FirstOf(DueHeld) \in 1..Len(qos2Queue)
        BY <1>1, <3>1, <4>1, FirstOfIsFirst DEF DueHeld
      <4>. QED
        BY <1>1, <3>1, <4>2, RemoveAtIsSeq
    <3>2. CASE qos2Queue' = qos2Queue
      BY <1>1, <3>2
    <3>. QED
      BY <2>1, <3>1, <3>2 DEF PruneHeld
  <2>2. CASE Hold
    <3>1. [id |-> Arg.id, msg |-> Arg.msg, due |-> FALSE] \in Held
      BY <2>2, HeadOfTodo DEF Hold, At, Arg, Todo, Packet, Held, TInv
    <3>. QED
      BY <1>1, <2>2, <3>1, AppendProperties DEF Hold
  <2>3. ASSUME NEW k \in DOMAIN qos2Queue, HeldExpires(k) PROVE qos2Queue' \in Seq(Held)
    <3>1. qos2Queue' = [qos2Queue EXCEPT ![k] = [qos2Queue[k] EXCEPT !.due = TRUE]]
      BY <2>3 DEF HeldExpires
    <3>2. k \in 1..Len(qos2Queue) /\ qos2Queue[k] \in Held
      BY <1>1, ElementOfSeq
    <3>3. [qos2Queue[k] EXCEPT !.due = TRUE] \in Held
      BY <3>2 DEF Held
    <3>. QED
      BY <1>1, <3>1, <3>2, <3>3, ExceptSeq
  <2>. QED
    BY <2>1, <2>2, <2>3
<1>. QED
  BY <1>0, <1>2 DEF TInv, QueuesOK

LEMMA ReceiveQueues ==
  ASSUME TInv,
         \/ AwaitConnack \/ AwaitSuback \/ ReceivePublish \/ ReceivePubrel \/ ReceivePubrec
         \/ ReceivePubcomp \/ ReceivePingresp \/ ReceiveLate
  PROVE  QueuesOK'
<1>1. CASE AwaitConnack \/ AwaitSuback
  BY <1>1, ReceivesFirst DEF AwaitConnack, AwaitSuback, sharedVars, rxVars, TInv
<1>2. CASE ReceivePublish \/ ReceivePubrec \/ ReceivePubcomp \/ ReceivePingresp \/ ReceiveLate
  <2>1. PICK p \in Incoming : Receive(p) /\ UNCHANGED qos2Queue
    BY <1>2 DEF ReceivePublish, ReceivePubrec, ReceivePubcomp, ReceivePingresp, ReceiveLate
  <2>. QED
    BY <2>1, IncomingType, ReceivesFirst DEF Receive, TInv
<1>3. CASE ReceivePubrel
  <2>1. PICK p \in Incoming :
          /\ Receive(p)
          /\ LET Under == {k \in DOMAIN qos2Queue : qos2Queue[k].id = p.id}
             IN  \/ Under # {} /\ qos2Queue' = RemoveAt(qos2Queue, FirstOf(Under))
                 \/ UNCHANGED qos2Queue
    BY <1>3 DEF ReceivePubrel
  <2>2. qos2Queue' \in Seq(Held)
    BY <2>1, HeldIsHeld, RemoveAtIsSeq DEF TInv, QueuesOK
  <2>3. toClient' \in Seq(Downlink)
    BY <2>1, IncomingType, TailIsSeq DEF Receive, TInv, QueuesOK
  <2>. QED
    BY <2>1, <2>2, <2>3 DEF Receive, TInv, QueuesOK
<1>. QED
  BY <1>1, <1>2, <1>3

LEMMA CallbackQueues == ASSUME TInv, CallbackSends PROVE QueuesOK'
<1>1. callback = "ping" \/ (callback = "publish" /\ published \in Ids)
  BY DEF CallbackSends, TInv, CallbackOK, FlagsOK
<1>2. PICK p \in Uplink : txQueue' = Append(txQueue, p)
  BY <1>1, UplinkTypes, PublishIsUplink DEF CallbackSends
<1>3. txQueue' \in Seq(Uplink) /\ Len(txQueue') = Len(txQueue) + 1 /\ Len(txQueue) \in Nat
  BY <1>2, AppendProperties, LenProperties DEF TInv, QueuesOK
<1>4. Len(txQueue) < TxRoom /\ UNCHANGED <<toBroker, toClient, qos2Queue>>
  BY DEF CallbackSends, rxVars, linkVars
<1>. QED
  BY <1>3, <1>4, MqttAssumption DEF TInv, QueuesOK

LEMMA UplinkHead ==
  ASSUME TInv, toBroker # <<>>
  PROVE  /\ Head(toBroker) \in Uplink /\ Head(toBroker).id \in Numbers
         /\ Head(toBroker).type = "publish" => Head(toBroker).id \in Ids
         /\ Tail(toBroker) \in Seq(Uplink)
<1>1. Head(toBroker) \in Uplink /\ Tail(toBroker) \in Seq(Uplink)
  BY TailIsSeq DEF TInv, QueuesOK
<1>2. P("pingreq", 0).id \in Numbers /\ P("pingreq", 0).type = "pingreq"
  BY PacketType, NumbersType DEF Types
<1>. QED
  BY <1>1, <1>2 DEF Uplink, Outgoing, Packet

LEMMA BrokerQueues == ASSUME TInv, BrokerReceives PROVE QueuesOK'
<1>1. UNCHANGED <<txQueue, qos2Queue>> /\ toBroker # <<>>
  BY DEF BrokerReceives, sharedVars, rxVars
<1>2. toBroker' \in Seq(Uplink)
  BY <1>1, UplinkHead, EmptySeq DEF BrokerReceives
<1>3. toClient' = toClient
      \/ \E type \in Types \ {"publish", "pingreq"}, id \in Numbers : Reply(P(type, id))
  BY <1>1, UplinkHead, NumbersType DEF BrokerReceives, Answer, Types
<1>4. toClient' \in Seq(Downlink)
  <2>1. ASSUME NEW q \in Downlink PROVE Append(toClient, q) \in Seq(Downlink)
    BY AppendProperties DEF TInv, QueuesOK
  <2>. QED
    BY <1>3, <2>1, ReplyIsDownlink DEF Reply, TInv, QueuesOK
<1>. QED
  BY <1>1, <1>2, <1>4 DEF TInv, QueuesOK

LEMMA PublishQueues ==
  ASSUME TInv, NEW m \in Messages, BrokerPublishes(m)
  PROVE  QueuesOK'
<1>1. PICK id \in 1..Cardinality(Messages) :
        toClient' = Append(toClient, [type |-> "publish", id |-> id, msg |-> m])
  BY DEF BrokerPublishes, Reply
<1>2. [type |-> "publish", id |-> id, msg |-> m] \in Downlink
  BY NumbersType, MqttAssumption DEF Downlink, Packet, Types, Numbers
<1>3. toClient' \in Seq(Downlink)
  BY <1>1, <1>2, AppendProperties DEF TInv, QueuesOK
<1>4. UNCHANGED <<txQueue, toBroker, qos2Queue>>
  BY DEF BrokerPublishes, sharedVars, rxVars
<1>. QED
  BY <1>3, <1>4 DEF TInv, QueuesOK

LEMMA LinkQueues == ASSUME TInv, Close \/ Drop PROVE QueuesOK'
<1>1. UNCHANGED <<txQueue, qos2Queue>> /\ toBroker' = <<>>
  BY DEF Close, Drop, sharedVars, rxVars
<1>2. toClient' \in Seq(Downlink)
  <2>1. CASE Close
    BY <2>1, EmptySeq DEF Close
  <2>2. CASE Drop
    BY <2>2, PrefixIsSeq DEF Drop, TInv, QueuesOK
  <2>. QED
    BY <2>1, <2>2
<1>. QED
  BY <1>1, <1>2, EmptySeq DEF TInv, QueuesOK

-----------------------------------------------------------------------------
(* The rest *)

\* The mqtt task.
LEMMA TaskFlags ==
  ASSUME TInv,
         \/ Open \/ OpenFails \/ AwaitConnack \/ AwaitSuback \/ AwaitTimesOut \/ StartTimers
         \/ StopTimers \/ Prepare \/ Flush \/ Prune \/ Pruned \/ PruneHeld \/ Acknowledged
         \/ Search \/ Track \/ Tracked \/ PollTimesOut \/ Hold
  PROVE  FlagsOK' /\ CallbackOK'
<1> USE DEF TInv, FlagsOK, CallbackOK, sharedVars, rxVars, linkVars, brokerVars, history, bounds
<1>1. CASE Open \/ OpenFails
  BY <1>1, MqttAssumption DEF Open, OpenFails, Fault
<1>2. CASE AwaitConnack \/ AwaitSuback \/ AwaitTimesOut
  BY <1>2, MqttAssumption DEF AwaitConnack, AwaitSuback, AwaitTimesOut, Fault, Fail
<1>3. CASE StartTimers \/ StopTimers
  <2>1. CASE StartTimers
    BY <2>1 DEF StartTimers
  <2>2. CASE StopTimers
    <3>1. timers' \in BOOLEAN /\ UNCHANGED <<suspended, pingQueue, panicked, raced, early>>
      BY <2>2 DEF StopTimers
    <3>. QED
      BY <2>2, <3>1 DEF StopTimers
  <2>. QED
    BY <1>3, <2>1, <2>2
<1>4. CASE Prepare \/ Flush
  BY <1>4 DEF Prepare, Flush, Fail
<1>5. CASE Prune \/ Pruned \/ PruneHeld \/ Acknowledged
  BY <1>5 DEF Prune, Pruned, PruneHeld, Acknowledged
<1>6. CASE Search \/ Track \/ Tracked \/ PollTimesOut \/ Hold
  BY <1>6 DEF Search, Track, Tracked, PollTimesOut, Hold
<1>. QED
  BY <1>1, <1>2, <1>3, <1>4, <1>5, <1>6

LEMMA ReceiveFlags ==
  ASSUME TInv,
         \/ ReceivePublish \/ ReceivePubrel \/ ReceivePubrec \/ ReceivePubcomp
         \/ ReceivePingresp \/ ReceiveLate
  PROVE  FlagsOK' /\ CallbackOK'
<1>1. PICK p \in Incoming :
        /\ Receive(p)
        /\ UNCHANGED state \/ Fail
        /\ completed' = completed \/ (Entries("pubrel", p.id) # {} /\ completed' = completed \cup {p.id})
        /\ pingQueue' \in {pingQueue, FALSE} /\ panicked' \in {panicked, TRUE}
  BY DEF ReceivePublish, ReceivePubrel, ReceivePubrec, ReceivePubcomp, ReceivePingresp, ReceiveLate
<1>2. completed' \subseteq Ids
  <2>1. ASSUME Entries("pubrel", p.id) # {} PROVE p.id \in Ids
    <3>1. PICK k \in DOMAIN qosQueue : qosQueue[k].id = p.id
      BY <2>1 DEF Entries
    <3>2. qosQueue[k] \in Entry
      BY ElementOfSeq, LenProperties DEF TInv, LookOK
    <3>. QED
      BY <3>1, <3>2 DEF Entry
  <2>. QED
    BY <1>1, <2>1 DEF TInv, FlagsOK
<1>3. state' \in {"not_connected", "connecting", "connected", "err"}
  BY <1>1 DEF Fail, TInv, FlagsOK
<1>4. pingQueue' \in BOOLEAN /\ panicked' \in BOOLEAN
  BY <1>1 DEF TInv, FlagsOK
<1>5. /\ UNCHANGED <<suspended, mutex, timers, callback, delivered, link, raced, early>>
      /\ UNCHANGED <<session, stored, forwarded, phase, number, published, pings, faults>>
  BY <1>1 DEF Receive, brokerVars, bounds
<1>. QED
  BY <1>2, <1>3, <1>4, <1>5 DEF TInv, FlagsOK, CallbackOK

LEMMA DeliverFlags == ASSUME TInv, Deliver PROVE FlagsOK' /\ CallbackOK'
<1>1. Arg.msg \in Messages
  BY HeadOfTodo DEF Deliver, At, Arg, Todo, TInv
<1>2. delivered' \in [Messages -> Nat]
  BY <1>1 DEF Deliver, TInv, FlagsOK
<1>3. state' \in {"not_connected", "connecting", "connected", "err"}
  BY DEF Deliver, Fail, TInv, FlagsOK
<1>4. UNCHANGED <<suspended, sharedVars, linkVars, brokerVars, history, bounds>>
  BY DEF Deliver
<1>. QED
  BY <1>2, <1>3, <1>4 DEF TInv, FlagsOK, CallbackOK, sharedVars, linkVars, brokerVars, history, bounds

SessionOK ==
    /\ session \in {"none", "fresh", "open", "subscribed"}
    /\ stored \subseteq Ids /\ forwarded \in [Ids -> Nat]
    /\ phase \in [Messages -> {"unsent", "published", "released", "done", "lost"}]
    /\ number \in [Messages -> Nat]

LEMMA EndSessionFlags ==
  ASSUME FlagsOK, EndSession
  PROVE  SessionOK'
BY DEF FlagsOK, SessionOK, EndSession

LEMMA LinkFlags == ASSUME TInv, Close \/ Drop PROVE FlagsOK' /\ CallbackOK'
<1>1. EndSession /\ link' \in {"down", "broken"} /\ faults' \in 0..MaxFaults
  BY MqttAssumption DEF Close, Drop, Fault, TInv, FlagsOK, bounds
<1>2. UNCHANGED <<state, suspended, sharedVars, delivered, history, published, pings>>
  BY DEF Close, Drop, taskVars, rxVars, bounds
<1>. QED
  BY <1>1, <1>2, EndSessionFlags DEF TInv, FlagsOK, SessionOK, CallbackOK, sharedVars, history

LEMMA TimerFlags ==
  ASSUME TInv, PingTick \/ PublishTick \/ CallbackTakesBuffer \/ CallbackSends
  PROVE  FlagsOK' /\ CallbackOK'
<1> USE MqttAssumption
    DEF TInv, FlagsOK, CallbackOK, taskVars, rxVars, linkVars, brokerVars, history, bounds
<1>1. CASE PingTick
  <2>1. /\ pingQueue' \in BOOLEAN /\ panicked' \in BOOLEAN
        /\ UNCHANGED <<suspended, timers, raced, early, mutex>>
    BY <1>1 DEF PingTick
  <2>2. callback' \in {callback, "ping"} /\ callback = "none" /\ pings' \in 0..MaxPings
    BY <1>1 DEF PingTick
  <2>. QED
    BY <1>1, <2>1, <2>2 DEF PingTick
<1>2. CASE PublishTick
  BY <1>2 DEF PublishTick, Ids
<1>3. CASE CallbackTakesBuffer
  BY <1>3 DEF CallbackTakesBuffer
<1>4. CASE CallbackSends
  <2>1. raced' \in BOOLEAN
    BY <1>4 DEF CallbackSends
  <2>. QED
    BY <1>4, <2>1 DEF CallbackSends
<1>. QED
  BY <1>1, <1>2, <1>3, <1>4

LEMMA BrokerFlags == ASSUME TInv, BrokerReceives PROVE FlagsOK' /\ CallbackOK'
<1>1. /\ UNCHANGED <<state, suspended, sharedVars, delivered, history, bounds>>
      /\ link' \in {link, "broken"}
  BY DEF BrokerReceives, taskVars, rxVars
<1>2. SessionOK'
  <2>1. CASE EndSession
    BY <2>1, EndSessionFlags DEF TInv
  <2>2. CASE session' = "open" /\ UNCHANGED <<stored, forwarded, phase, number>>
    BY <2>2 DEF TInv, FlagsOK, SessionOK
  <2>3. ASSUME toBroker # <<>>, Answer(Head(toBroker)), UNCHANGED number
        PROVE  SessionOK'
    <3> DEFINE p == Head(toBroker)
    <3>1. CASE p.type \in {"subscribe", "pingreq"}
      BY <2>3, <3>1 DEF Answer, TInv, FlagsOK, SessionOK
    <3>2. CASE p.type = "publish"
      BY <2>3, <3>2, UplinkHead DEF Answer, TInv, FlagsOK, SessionOK
    <3>3. CASE p.type = "pubrel"
      BY <2>3, <3>3 DEF Answer, TInv, FlagsOK, SessionOK
    <3>4. CASE p.type = "pubrec"
      BY <2>3, <3>4 DEF Answer, TInv, FlagsOK, SessionOK
    <3>5. CASE p.type \in {"puback", "pubcomp"}
      BY <2>3, <3>5 DEF Answer, TInv, FlagsOK, SessionOK
    <3>. QED
      BY <2>3, <3>1, <3>2, <3>3, <3>4, <3>5 DEF Answer
  <2>. QED
    BY <2>1, <2>2, <2>3 DEF BrokerReceives
<1>. QED
  BY <1>1, <1>2 DEF TInv, FlagsOK, SessionOK, CallbackOK, sharedVars, history, bounds

LEMMA PublishFlags ==
  ASSUME TInv, NEW m \in Messages, BrokerPublishes(m)
  PROVE  FlagsOK' /\ CallbackOK'
<1>1. PICK id \in 1..Cardinality(Messages) : number' = [number EXCEPT ![m] = id]
  BY DEF BrokerPublishes
<1>2. number' \in [Messages -> Nat]
  BY <1>1, NumbersType DEF TInv, FlagsOK
<1>. QED
  BY <1>2 DEF BrokerPublishes, TInv, FlagsOK, CallbackOK, taskVars, sharedVars, rxVars, history, bounds

LEMMA OtherFlags ==
  ASSUME TInv,
         \/ Suspend \/ Resume
         \/ \E k \in DOMAIN qosQueue : (Expire(k) \/ ExpireEarly(k))
         \/ \E k \in DOMAIN qos2Queue : HeldExpires(k)
  PROVE  FlagsOK' /\ CallbackOK'
<1> USE MqttAssumption DEF TInv, FlagsOK, CallbackOK, taskVars, sharedVars, rxVars, linkVars,
    brokerVars, history, bounds, Fault
<1>1. CASE Suspend \/ Resume
  <2>1. /\ suspended' \in BOOLEAN
        /\ UNCHANGED <<timers, raced, early, pingQueue, panicked>>
    BY <1>1 DEF Suspend, Resume
  <2>2. faults' \in 0..MaxFaults
    BY <1>1 DEF Suspend, Resume
  <2>. QED
    BY <1>1, <2>1, <2>2 DEF Suspend, Resume
<1>2. ASSUME NEW k \in DOMAIN qosQueue, Expire(k) PROVE FlagsOK' /\ CallbackOK'
  BY <1>2 DEF Expire, Expires
<1>3. ASSUME NEW k \in DOMAIN qosQueue, ExpireEarly(k) PROVE FlagsOK' /\ CallbackOK'
  BY <1>3 DEF ExpireEarly, Expires
<1>4. ASSUME NEW k \in DOMAIN qos2Queue, HeldExpires(k) PROVE FlagsOK' /\ CallbackOK'
  BY <1>4 DEF HeldExpires
<1>. QED
  BY <1>1, <1>2, <1>3, <1>4

-----------------------------------------------------------------------------
(* Type correctness *)

\* The others leave todo alone and append to qosQueue or mark one of its entries.
LEMMA OtherOK ==
  ASSUME TInv, UNCHANGED <<todo, seen>>, qosQueue' \in Seq(Entry),
         Len(qosQueue') >= Len(qosQueue)
  PROVE  TodoOK' /\ LookOK'
<1>1. TodoOK'
  BY DEF TInv, TodoOK
<1>2. Len(qosQueue) \in Nat /\ Len(qosQueue') \in Nat
  BY LenProperties DEF TInv, LookOK
<1>. QED
  BY <1>1, <1>2 DEF TInv, LookOK

LEMMA StillOK ==
  ASSUME TInv, UNCHANGED <<todo, seen, qosQueue>>
  PROVE  TodoOK' /\ LookOK'
BY DEF TInv, TodoOK, LookOK

LEMMA SendsOK ==
  ASSUME TInv, CallbackSends
  PROVE  TodoOK' /\ LookOK'
<1>1. UNCHANGED <<todo, seen>>
  BY DEF CallbackSends, taskVars
<1>2. CASE qosQueue' = qosQueue
  BY <1>1, <1>2, StillOK
<1>3. CASE /\ callback # "ping"
           /\ qosQueue' = Append(qosQueue, [type |-> "publish", id |-> published, due |-> FALSE])
  <2>1. published \in Ids
    BY <1>3 DEF CallbackSends, TInv, CallbackOK, FlagsOK
  <2>2. [type |-> "publish", id |-> published, due |-> FALSE] \in Entry
    BY <2>1 DEF Entry
  <2>3. qosQueue' \in Seq(Entry) /\ Len(qosQueue') = Len(qosQueue) + 1
    BY <1>3, <2>2, AppendProperties DEF TInv, LookOK
  <2>. QED
    BY <1>1, <2>3, LenProperties, OtherOK DEF TInv, LookOK
<1>. QED
  BY <1>2, <1>3 DEF CallbackSends

LEMMA ExpiresOK ==
  ASSUME TInv, NEW k, Expires(k)
  PROVE  TodoOK' /\ LookOK'
<1>1. UNCHANGED <<todo, seen>>
  BY DEF Expires, taskVars
<1>2. /\ k \in 1..Len(qosQueue) /\ qosQueue[k] \in Entry /\ qosQueue \in Seq(Entry)
      /\ Len(qosQueue) \in Nat
  BY LenProperties, ElementOfSeq DEF Expires, TInv, LookOK
<1>3. qosQueue' = [qosQueue EXCEPT ![k] = [qosQueue[k] EXCEPT !.due = TRUE]]
  BY DEF Expires
<1>4. [qosQueue[k] EXCEPT !.due = TRUE] \in Entry
  BY <1>2 DEF Entry
<1>5. qosQueue' \in Seq(Entry) /\ Len(qosQueue') = Len(qosQueue)
  BY <1>2, <1>3, <1>4, ExceptSeq
<1>. QED
  BY <1>1, <1>2, <1>5, OtherOK

LEMMA InitTInv == Init => TInv
<1> SUFFICES ASSUME Init PROVE TInv
  OBVIOUS
<1>1. Step("open") \in Todo /\ Step("open").op = "open"
  BY PlainSteps, PlainTodo DEF Ops
<1>2. TodoOK /\ Head(todo) = Step("open")
  <2>1. todo = <<Step("open")>>
    BY DEF Init
  <2>2. <<Step("open")>> \in Seq(Todo) /\ Shape(<<Step("open")>>)
    BY <1>1, TwoSteps DEF Ends
  <2>3. Head(<<Step("open")>>) = <<Step("open")>>[1]
    BY <2>2, TailIsSeq DEF Shape
  <2>. QED
    BY <2>1, <2>2, <2>3 DEF TodoOK
<1>3. LookOK
  BY <1>1, <1>2, EmptySeq DEF Init, LookOK, Looked, Nothing
<1>4. QueuesOK
  BY EmptySeq, MqttAssumption DEF Init, QueuesOK
<1>5. CallbackOK
  BY DEF Init, CallbackOK
<1>6. FlagsOK
  <2>1. /\ suspended \in BOOLEAN /\ pingQueue \in BOOLEAN /\ timers \in BOOLEAN
        /\ panicked \in BOOLEAN /\ raced \in BOOLEAN /\ early \in BOOLEAN
    BY DEF Init
  <2>2. delivered \in [Messages -> Nat] /\ number \in [Messages -> Nat] /\ forwarded \in [Ids -> Nat]
    BY DEF Init
  <2>3. published \in 0..MaxPublishes /\ pings \in 0..MaxPings /\ faults \in 0..MaxFaults
    BY MqttAssumption DEF Init
  <2>. QED
    BY <2>1, <2>2, <2>3 DEF Init, FlagsOK
<1>. QED
  BY <1>2, <1>3, <1>4, <1>5, <1>6 DEF TInv

\* What the mqtt task does next, and what it reads of qosQueue.
LEMMA NextTask == ASSUME TInv, [Next]_vars PROVE TodoOK' /\ LookOK'
<1>1. CASE MqttStep
  BY <1>1, OpenOK, PlainContinueOK, SendOK, PruneOK, PrunedOK, AcknowledgedOK, SearchOK, TrackOK,
     ReceivePublishOK, ReceivePubrelOK, ReceivePubrecOK, ReceivePubcompOK, ReceiveOtherOK
     DEF MqttStep
<1>2. CASE OpenFails \/ AwaitTimesOut
  BY <1>2, OpenOK, PlainContinueOK
<1>3. CASE CallbackSends
  BY <1>3, SendsOK
<1>4. CASE CallbackTakesBuffer \/ PingTick \/ PublishTick
  BY <1>4, StillOK DEF CallbackTakesBuffer, PingTick, PublishTick, taskVars
<1>5. CASE Suspend \/ Resume
  BY <1>5, StillOK DEF Suspend, Resume, sharedVars
<1>6. CASE TimePasses \/ \E k \in DOMAIN qosQueue : ExpireEarly(k)
  BY <1>6, ExpiresOK DEF TimePasses, Expire, ExpireEarly
<1>7. CASE \E k \in DOMAIN qos2Queue : HeldExpires(k)
  BY <1>7, StillOK DEF HeldExpires, taskVars, sharedVars
<1>8. CASE BrokerReceives \/ Drop \/ \E m \in Messages : BrokerPublishes(m)
  BY <1>8, StillOK DEF BrokerReceives, Drop, BrokerPublishes, taskVars, sharedVars
<1>9. CASE UNCHANGED vars
  BY <1>9, StillOK DEF vars, taskVars, sharedVars
<1>. QED
  BY <1>1, <1>2, <1>3, <1>4, <1>5, <1>6, <1>7, <1>8, <1>9 DEF Next, TimerStep, Halt

LEMMA NextQueues == ASSUME TInv, [Next]_vars PROVE QueuesOK'
<1>1. CASE Prepare \/ Flush \/ PruneHeld \/ Hold \/ CallbackSends \/ BrokerReceives \/ Close \/ Drop
  BY <1>1, PrepareQueues, FlushQueues, HeldQueues, CallbackQueues, BrokerQueues, LinkQueues
<1>2. CASE \/ AwaitConnack \/ AwaitSuback \/ ReceivePublish \/ ReceivePubrel \/ ReceivePubrec
           \/ ReceivePubcomp \/ ReceivePingresp \/ ReceiveLate
  BY <1>2, ReceiveQueues
<1>3. CASE \/ Open \/ StartTimers \/ StopTimers \/ Prune \/ Pruned \/ Acknowledged \/ Search
           \/ Track \/ Tracked \/ PollTimesOut \/ Deliver \/ OpenFails \/ AwaitTimesOut
  BY <1>3, QueuesKept DEF Open, StartTimers, StopTimers, Prune, Pruned, Acknowledged, Search, Track,
     Tracked, PollTimesOut, Deliver, OpenFails, AwaitTimesOut, TInv, sharedVars, rxVars, linkVars
<1>4. CASE \/ CallbackTakesBuffer \/ PingTick \/ PublishTick \/ Suspend \/ Resume
           \/ TimePasses \/ \E k \in DOMAIN qosQueue : ExpireEarly(k)
  BY <1>4, QueuesKept DEF CallbackTakesBuffer, PingTick, PublishTick, Suspend, Resume, TimePasses,
     Expire, ExpireEarly, Expires, TInv, sharedVars, rxVars, linkVars
<1>5. CASE \E k \in DOMAIN qos2Queue : HeldExpires(k)
  BY <1>5, HeldQueues
<1>6. CASE \E m \in Messages : BrokerPublishes(m)
  BY <1>6, PublishQueues
<1>7. CASE UNCHANGED vars
  BY <1>7, QueuesKept DEF vars, TInv, sharedVars, rxVars, linkVars
<1>. QED
  BY <1>1, <1>2, <1>3, <1>4, <1>5, <1>6, <1>7 DEF Next, MqttStep, TimerStep, Halt

LEMMA NextFlags == ASSUME TInv, [Next]_vars PROVE FlagsOK' /\ CallbackOK'
<1>1. CASE \/ Open \/ OpenFails \/ AwaitConnack \/ AwaitSuback \/ AwaitTimesOut \/ StartTimers
           \/ StopTimers \/ Prepare \/ Flush \/ Prune \/ Pruned \/ PruneHeld \/ Acknowledged
           \/ Search \/ Track \/ Tracked \/ PollTimesOut \/ Hold
  BY <1>1, TaskFlags
<1>2. CASE \/ ReceivePublish \/ ReceivePubrel \/ ReceivePubrec \/ ReceivePubcomp
           \/ ReceivePingresp \/ ReceiveLate
  BY <1>2, ReceiveFlags
<1>3. CASE Deliver \/ Close \/ Drop \/ BrokerReceives
  BY <1>3, DeliverFlags, LinkFlags, BrokerFlags
<1>4. CASE PingTick \/ PublishTick \/ CallbackTakesBuffer \/ CallbackSends
  BY <1>4, TimerFlags
<1>5. CASE \/ Suspend \/ Resume \/ TimePasses
           \/ \E k \in DOMAIN qosQueue : ExpireEarly(k)
           \/ \E k \in DOMAIN qos2Queue : HeldExpires(k)
  BY <1>5, OtherFlags DEF TimePasses
<1>6. CASE \E m \in Messages : BrokerPublishes(m)
  BY <1>6, PublishFlags
<1>7. CASE UNCHANGED vars
  <2>1. UNCHANGED FlagsOK /\ UNCHANGED CallbackOK
    BY <1>7 DEF FlagsOK, CallbackOK, vars, taskVars, sharedVars, rxVars, linkVars, brokerVars,
       history, bounds
  <2>. QED
    BY <2>1 DEF TInv
<1>. QED
  BY <1>1, <1>2, <1>3, <1>4, <1>5, <1>6, <1>7 DEF Next, MqttStep, TimerStep, Halt

LEMMA NextTInv == TInv /\ [Next]_vars => TInv'
BY NextTask, NextQueues, NextFlags DEF TInv

THEOREM MqttTypesInductive == Spec => []TInv
<1>. QED
  BY InitTInv, NextTInv, PTL DEF Spec

\* Type correctness, for every set of messages and every size of txQueue: what
\* the task still has to do ends with one step that chooses again, what it read
\* of qosQueue is never beyond its end (mqtt.zig:601-760), and txQueue never
\* holds more than fits.
THEOREM MqttTypeCorrect == Spec => []TypeOK
<1>. QED
  BY MqttTypesInductive, TypesFollow, PTL

-----------------------------------------------------------------------------
(* Things that are in at most one place *)

\* q holds nothing of S, or one thing; r holds nothing that q does not.
Free(q, S) == \A k \in 1..Len(q) : q[k] \notin S
Once(q, S) == \A j, k \in 1..Len(q) : q[j] \in S /\ q[k] \in S => j = k
NoMore(r, q, S) == (Free(q, S) => Free(r, S)) /\ (Once(q, S) => Once(r, S))

LEMMA FreeIsOnce == ASSUME NEW q, NEW S, Free(q, S) PROVE Once(q, S)
BY DEF Free, Once

LEMMA EmptyIsFree == ASSUME NEW S PROVE Free(<<>>, S) /\ Once(<<>>, S)
BY DEF Free, Once

LEMMA SameIsNoMore == ASSUME NEW q, NEW S PROVE NoMore(q, q, S)
BY DEF NoMore

\* r is q with places left out.
LEMMA FewerPlaces ==
  ASSUME NEW S, NEW q, NEW r, NEW f \in [1..Len(r) -> 1..Len(q)],
         \A i, j \in 1..Len(r) : f[i] = f[j] => i = j,
         \A i \in 1..Len(r) : r[i] \in S => q[f[i]] \in S
  PROVE  NoMore(r, q, S)
<1>1. ASSUME Free(q, S) PROVE Free(r, S)
  BY <1>1 DEF Free
<1>2. ASSUME Once(q, S), NEW j \in 1..Len(r), NEW k \in 1..Len(r), r[j] \in S, r[k] \in S
      PROVE  j = k
  <2>1. f[j] = f[k]
    BY <1>2 DEF Once
  <2>. QED
    BY <2>1
<1>. QED
  BY <1>1, <1>2 DEF NoMore, Once

LEMMA FewerInTail ==
  ASSUME NEW S, NEW T, NEW q \in Seq(T), q # <<>>
  PROVE  /\ NoMore(Tail(q), q, S)
         /\ Once(q, S) /\ Head(q) \in S => Free(Tail(q), S)
         /\ Free(q, S) => Head(q) \notin S
<1> DEFINE t == Tail(q)
<1>1. /\ Len(q) \in Nat \ {0} /\ Len(t) = Len(q) - 1 /\ Head(q) = q[1]
      /\ \A i \in 1..Len(t) : t[i] = q[i + 1]
  BY TailIsSeq
<1> HIDE DEF t
<1>2. \A i \in 1..Len(t) : i + 1 \in 1..Len(q) /\ i + 1 # 1
  BY <1>1
<1>3. NoMore(t, q, S)
  <2> DEFINE f == [i \in 1..Len(t) |-> i + 1]
  <2>1. f \in [1..Len(t) -> 1..Len(q)] /\ \A i \in 1..Len(t) : f[i] = i + 1
    BY <1>2
  <2>2. \A i, j \in 1..Len(t) : f[i] = f[j] => i = j
    BY <2>1
  <2>3. \A i \in 1..Len(t) : t[i] \in S => q[f[i]] \in S
    BY <1>1, <2>1
  <2> HIDE DEF f
  <2>. QED
    BY <2>1, <2>2, <2>3, FewerPlaces
<1>4. Once(q, S) /\ Head(q) \in S => Free(t, S)
  <2> SUFFICES ASSUME Once(q, S), Head(q) \in S, NEW i \in 1..Len(t), t[i] \in S PROVE FALSE
    BY DEF Free
  <2>1. q[1] \in S /\ q[i + 1] \in S /\ 1 \in 1..Len(q) /\ i + 1 \in 1..Len(q) /\ i + 1 # 1
    BY <1>1, <1>2
  <2>. QED
    BY <2>1 DEF Once
<1>5. Free(q, S) => Head(q) \notin S
  BY <1>1 DEF Free
<1>. QED
  BY <1>3, <1>4, <1>5 DEF t

LEMMA FewerInPrefix ==
  ASSUME NEW S, NEW T, NEW q \in Seq(T), NEW n \in 0..Len(q)
  PROVE  NoMore(SubSeq(q, 1, n), q, S)
<1> DEFINE r == SubSeq(q, 1, n)
           f == [i \in 1..n |-> i]
<1>1. Len(q) \in Nat /\ Len(r) = n /\ \A i \in 1..n : r[i] = q[i]
  BY PrefixIsSeq, LenProperties
<1> HIDE DEF r
<1>2. f \in [1..Len(r) -> 1..Len(q)] /\ \A i \in 1..Len(r) : f[i] = i
  BY <1>1
<1> HIDE DEF f
<1>3. NoMore(r, q, S)
  BY <1>1, <1>2, FewerPlaces
<1>. QED
  BY <1>3 DEF r

LEMMA FewerInRest ==
  ASSUME NEW S, NEW T, NEW q \in Seq(T), NEW k \in 1..Len(q)
  PROVE  /\ NoMore(RemoveAt(q, k), q, S)
         /\ Once(q, S) /\ q[k] \in S => Free(RemoveAt(q, k), S)
<1> DEFINE r == RemoveAt(q, k)
           f == [i \in 1..Len(r) |-> IF i < k THEN i ELSE i + 1]
<1>1. /\ Len(q) \in Nat /\ Len(r) = Len(q) - 1
      /\ \A i \in 1..Len(r) : r[i] = IF i < k THEN q[i] ELSE q[i + 1]
  BY RemoveAtIsSeq, LenProperties
<1> HIDE DEF r
<1>2. \A i \in 1..Len(r) : /\ f[i] = IF i < k THEN i ELSE i + 1
                           /\ f[i] \in 1..Len(q) /\ f[i] # k
  BY <1>1
<1>3. f \in [1..Len(r) -> 1..Len(q)]
  BY <1>2
<1>4. \A i, j \in 1..Len(r) : f[i] = f[j] => i = j
  BY <1>1
<1> HIDE DEF f
<1>5. \A i \in 1..Len(r) : r[i] = q[f[i]]
  BY <1>1, <1>2
<1>6. NoMore(r, q, S)
  BY <1>3, <1>4, <1>5, FewerPlaces
<1>7. Once(q, S) /\ q[k] \in S => Free(r, S)
  BY <1>2, <1>5 DEF Once, Free
<1>. QED
  BY <1>6, <1>7 DEF r

LEMMA MoreInAppend ==
  ASSUME NEW S, NEW T, NEW q \in Seq(T), NEW e \in T
  PROVE  /\ e \notin S => NoMore(Append(q, e), q, S)
         /\ Free(q, S) => Once(Append(q, e), S)
<1> DEFINE r == Append(q, e)
<1>1. /\ Len(q) \in Nat /\ Len(r) = Len(q) + 1 /\ r[Len(q) + 1] = e
      /\ \A i \in 1..Len(q) : r[i] = q[i]
  BY AppendProperties, LenProperties
<1> HIDE DEF r
<1>2. \A i \in 1..Len(r) : i \in 1..Len(q) \/ i = Len(q) + 1
  BY <1>1
<1>3. ASSUME e \notin S PROVE NoMore(r, q, S)
  BY <1>1, <1>2, <1>3 DEF NoMore, Free, Once
<1>4. ASSUME Free(q, S) PROVE Once(r, S)
  BY <1>1, <1>2, <1>4 DEF Free, Once
<1>. QED
  BY <1>3, <1>4 DEF r

LEMMA MoreInFront ==
  ASSUME NEW S, NEW T, NEW s \in Seq(T), NEW q \in Seq(T), Free(s, S)
  PROVE  NoMore(s \o q, q, S)
<1> DEFINE r == s \o q
<1>1. /\ Len(s) \in Nat /\ Len(q) \in Nat /\ Len(r) = Len(s) + Len(q)
      /\ \A i \in 1..(Len(s) + Len(q)) : r[i] = IF i <= Len(s) THEN s[i] ELSE q[i - Len(s)]
  BY ConcatProperties, LenProperties
<1> HIDE DEF r
<1>2. ASSUME NEW i \in 1..Len(r), r[i] \in S
      PROVE  i - Len(s) \in 1..Len(q) /\ q[i - Len(s)] \in S
  <2>1. ~(i <= Len(s))
    <3>1. i <= Len(s) => i \in 1..Len(s) /\ r[i] = s[i]
      BY <1>1
    <3>. QED
      BY <1>2, <3>1 DEF Free
  <2>. QED
    BY <1>1, <1>2, <2>1
<1>3. ASSUME Free(q, S) PROVE Free(r, S)
  BY <1>2, <1>3 DEF Free
<1>4. ASSUME Once(q, S), NEW i \in 1..Len(r), NEW j \in 1..Len(r), r[i] \in S, r[j] \in S
      PROVE  i = j
  <2>1. i - Len(s) = j - Len(s)
    BY <1>2, <1>4 DEF Once
  <2>. QED
    BY <1>1, <2>1
<1>5. NoMore(r, q, S)
  BY <1>3, <1>4 DEF NoMore, Once
<1>. QED
  BY <1>5 DEF r

-----------------------------------------------------------------------------
(* A PINGRESP finds its time stamp *)

\* The ping that is on its way: in the callback, as a PINGREQ or as its answer.
Pings == {p \in Packet : p.type \in {"pingreq", "pingresp"}}

PingFree == Free(txQueue, Pings) /\ Free(toBroker, Pings) /\ Free(toClient, Pings)

OnePing ==
  /\ Once(txQueue, Pings) /\ Once(toBroker, Pings) /\ Once(toClient, Pings)
  /\ Free(txQueue, Pings) \/ (Free(toBroker, Pings) /\ Free(toClient, Pings))
  /\ Free(toBroker, Pings) \/ Free(toClient, Pings)
  /\ callback = "ping" => pingQueue /\ PingFree
  /\ ~pingQueue => PingFree

LEMMA PingPackets ==
  /\ \A p \in Outgoing : p \notin Pings
  /\ \A p \in Uplink : p \in Pings <=> p.type = "pingreq"
  /\ \A p \in Downlink : p \in Pings <=> p.type = "pingresp"
  /\ P("pingresp", 0) \in Downlink
<1>1. P("pingreq", 0) \in Packet /\ P("pingreq", 0).type = "pingreq"
  BY PacketType, NumbersType DEF Types
<1>2. P("pingresp", 0) \in Downlink
  BY ReplyIsDownlink, NumbersType DEF Types
<1>. QED
  BY <1>1, <1>2 DEF Pings, Outgoing, Uplink, Downlink

\* A step after which no queue holds a ping that it did not hold before.
LEMMA FewerPings ==
  ASSUME OnePing, NoMore(txQueue', txQueue, Pings), NoMore(toBroker', toBroker, Pings),
         NoMore(toClient', toClient, Pings), callback' = "ping" => callback = "ping",
         pingQueue' = pingQueue
  PROVE  OnePing'
BY ZenonT(30) DEF OnePing, PingFree, NoMore

LEMMA SamePings ==
  ASSUME OnePing, UNCHANGED <<txQueue, toBroker, toClient, pingQueue>>,
         callback' = "ping" => callback = "ping"
  PROVE  OnePing'
<1>1. UNCHANGED txQueue /\ UNCHANGED toBroker /\ UNCHANGED toClient
  OBVIOUS
<1>. QED
  BY <1>1, FewerPings, SameIsNoMore

LEMMA PreparePing == ASSUME TInv, OnePing, Prepare PROVE OnePing'
<1>1. UNCHANGED <<toBroker, toClient, pingQueue, callback>>
  BY DEF Prepare, linkVars
<1>2. NoMore(txQueue', txQueue, Pings)
  <2>1. CASE txQueue' = txQueue
    BY <2>1, SameIsNoMore
  <2>2. CASE txQueue' = Append(txQueue, Arg)
    <3>1. Arg \in Uplink /\ Arg \notin Pings
      BY HeadOfTodo, UplinkTypes, PingPackets DEF Prepare, At, Arg, Todo, TInv
    <3>. QED
      BY <2>2, <3>1, MoreInAppend DEF TInv, QueuesOK
  <2>. QED
    BY <2>1, <2>2 DEF Prepare
<1>. QED
  BY <1>1, <1>2, FewerPings, SameIsNoMore

LEMMA FlushPing == ASSUME TInv, OnePing, Flush PROVE OnePing'
<1>1. UNCHANGED <<toClient, pingQueue, callback>>
  BY DEF Flush
<1>2. CASE UNCHANGED <<txQueue, toBroker>>
  BY <1>1, <1>2, SamePings
<1>3. CASE txQueue # <<>> /\ txQueue' = Tail(txQueue) /\ toBroker' = toBroker
  BY <1>1, <1>3, FewerInTail, SameIsNoMore, FewerPings DEF TInv, QueuesOK
<1>4. CASE txQueue # <<>> /\ txQueue' = Tail(txQueue) /\ toBroker' = Append(toBroker, Head(txQueue))
  <2>1. Head(txQueue) \in Uplink
    BY <1>4, TailIsSeq DEF TInv, QueuesOK
  <2>2. CASE Head(txQueue) \in Pings
    <3>1. Free(txQueue', Pings) /\ ~Free(txQueue, Pings)
      BY <1>4, <2>2, FewerInTail DEF TInv, QueuesOK, OnePing
    <3>2. Once(toBroker', Pings)
      BY <1>4, <2>1, <3>1, MoreInAppend DEF TInv, QueuesOK, OnePing
    <3>3. Once(txQueue', Pings) /\ Free(toClient', Pings) /\ Once(toClient', Pings)
      BY <1>1, <3>1, FreeIsOnce DEF OnePing
    <3>4. pingQueue' /\ callback' # "ping"
      BY <1>1, <3>1 DEF OnePing, PingFree
    <3>. QED
      BY <3>1, <3>2, <3>3, <3>4 DEF OnePing
  <2>3. CASE Head(txQueue) \notin Pings
    <3>1. NoMore(txQueue', txQueue, Pings) /\ NoMore(toBroker', toBroker, Pings)
      BY <1>4, <2>1, <2>3, FewerInTail, MoreInAppend DEF TInv, QueuesOK
    <3>. QED
      BY <1>1, <3>1, SameIsNoMore, FewerPings
  <2>. QED
    BY <2>2, <2>3
<1>. QED
  BY <1>2, <1>3, <1>4 DEF Flush

\* The client takes a packet that is no ping from the connection, or drops it.
LEMMA ReceivePing ==
  ASSUME TInv, OnePing,
         \/ AwaitConnack \/ AwaitSuback \/ ReceivePublish \/ ReceivePubrel \/ ReceivePubrec
         \/ ReceivePubcomp \/ ReceiveLate
  PROVE  OnePing'
<1>1. /\ UNCHANGED <<txQueue, toBroker, pingQueue, callback>>
      /\ toClient' \in {toClient, <<>>} \/ (toClient # <<>> /\ toClient' = Tail(toClient))
  BY DEF AwaitConnack, AwaitSuback, ReceivePublish, ReceivePubrel, ReceivePubrec, ReceivePubcomp,
     ReceiveLate, Receive, Incoming, sharedVars
<1>2. NoMore(toClient', toClient, Pings)
  BY <1>1, FewerInTail, SameIsNoMore, EmptyIsFree DEF TInv, QueuesOK, NoMore
<1>. QED
  BY <1>1, <1>2, SameIsNoMore, FewerPings

\* The answer takes the time stamp with it: no other ping is on its way.
LEMMA PingrespPing == ASSUME TInv, OnePing, ReceivePingresp PROVE OnePing'
<1>1. PICK p \in Incoming : Receive(p) /\ p.type = "pingresp"
  BY DEF ReceivePingresp
<1>2. /\ UNCHANGED <<txQueue, toBroker, callback>> /\ toClient # <<>> /\ p = Head(toClient)
      /\ toClient' = Tail(toClient)
  BY <1>1, IncomingType DEF Receive
<1>3. p \in Pings /\ toClient \in Seq(Downlink)
  BY <1>1, IncomingType, PingPackets DEF TInv, QueuesOK
<1>4. ~Free(toClient, Pings) /\ Free(toClient', Pings)
  BY <1>2, <1>3, FewerInTail DEF OnePing
<1>5. Free(txQueue', Pings) /\ Free(toBroker', Pings) /\ callback' # "ping"
  BY <1>2, <1>4 DEF OnePing, PingFree
<1>6. Once(txQueue', Pings) /\ Once(toBroker', Pings) /\ Once(toClient', Pings)
  BY <1>4, <1>5, FreeIsOnce
<1>. QED
  BY <1>4, <1>5, <1>6 DEF OnePing, PingFree

LEMMA TickPing == ASSUME TInv, OnePing, PingTick PROVE OnePing'
<1>1. UNCHANGED <<txQueue, toBroker, toClient>>
  BY DEF PingTick, linkVars
<1>2. CASE UNCHANGED <<pingQueue, callback>>
  BY <1>1, <1>2, SamePings
<1>3. CASE ~pingQueue /\ pingQueue' = TRUE
  <2>1. PingFree'
    BY <1>1, <1>3 DEF OnePing, PingFree
  <2>. QED
    BY <1>3, <2>1, FreeIsOnce DEF OnePing, PingFree
<1>. QED
  BY <1>2, <1>3 DEF PingTick

LEMMA CallbackPing == ASSUME TInv, OnePing, CallbackSends PROVE OnePing'
<1>1. UNCHANGED <<toBroker, toClient, pingQueue>> /\ callback' = "none"
  BY DEF CallbackSends, linkVars
<1>2. CASE callback = "ping"
  <2>1. txQueue' = Append(txQueue, P("pingreq", 0))
    BY <1>2 DEF CallbackSends
  <2>2. Once(txQueue', Pings)
    BY <1>2, <2>1, MoreInAppend, UplinkTypes DEF TInv, QueuesOK, OnePing, PingFree
  <2>3. Free(toBroker', Pings) /\ Free(toClient', Pings) /\ pingQueue'
    BY <1>1, <1>2 DEF OnePing, PingFree
  <2>. QED
    BY <1>1, <2>2, <2>3, FreeIsOnce DEF OnePing
<1>3. CASE callback # "ping"
  <2>1. published \in Ids /\ txQueue' = Append(txQueue, P("publish", published))
    BY <1>3 DEF CallbackSends, TInv, CallbackOK, FlagsOK
  <2>2. P("publish", published) \in Uplink /\ P("publish", published).type = "publish"
    BY <2>1, PublishIsUplink DEF P
  <2>3. NoMore(txQueue', txQueue, Pings)
    BY <2>1, <2>2, PingPackets, MoreInAppend DEF TInv, QueuesOK
  <2>. QED
    BY <1>1, <2>3, SameIsNoMore, FewerPings
<1>. QED
  BY <1>2, <1>3

LEMMA BrokerPing == ASSUME TInv, OnePing, BrokerReceives PROVE OnePing'
<1>1. UNCHANGED <<txQueue, pingQueue, callback>> /\ toBroker # <<>>
  BY DEF BrokerReceives, sharedVars
<1>2. Head(toBroker) \in Uplink /\ Head(toBroker).id \in Numbers
  BY <1>1, UplinkHead
<1>3. CASE toBroker' = <<>> /\ toClient' = toClient
  BY <1>1, <1>3, EmptyIsFree, SameIsNoMore, FewerPings DEF NoMore
<1>4. CASE /\ toBroker' = Tail(toBroker) /\ Head(toBroker).type = "pingreq"
           /\ Reply(P("pingresp", 0))
  <2>1. Head(toBroker) \in Pings
    BY <1>2, <1>4, PingPackets
  <2>2. ~Free(toBroker, Pings) /\ Free(toBroker', Pings)
    BY <1>1, <1>4, <2>1, FewerInTail DEF TInv, QueuesOK, OnePing
  <2>3. Free(txQueue', Pings) /\ Free(toClient, Pings) /\ pingQueue' /\ callback' # "ping"
    BY <1>1, <2>2 DEF OnePing, PingFree
  <2>4. Once(toClient', Pings)
    BY <1>4, <2>3, MoreInAppend, PingPackets DEF Reply, TInv, QueuesOK
  <2>. QED
    BY <2>2, <2>3, <2>4, FreeIsOnce DEF OnePing
<1>5. CASE /\ toBroker' = Tail(toBroker)
           /\ \/ toClient' = toClient
              \/ \E type \in Types \ {"publish", "pingreq", "pingresp"}, id \in Numbers :
                   Reply(P(type, id))
  <2>1. NoMore(toBroker', toBroker, Pings)
    BY <1>1, <1>5, FewerInTail DEF TInv, QueuesOK
  <2>2. NoMore(toClient', toClient, Pings)
    <3>1. ASSUME NEW type \in Types \ {"publish", "pingreq", "pingresp"}, NEW id \in Numbers,
                 Reply(P(type, id))
          PROVE  NoMore(toClient', toClient, Pings)
      <4>1. P(type, id) \in Downlink /\ P(type, id) \notin Pings
        BY <3>1, ReplyIsDownlink, PacketType, PingPackets
      <4>. QED
        BY <3>1, <4>1, MoreInAppend DEF Reply, TInv, QueuesOK
    <3>. QED
      BY <1>5, <3>1, SameIsNoMore
  <2>. QED
    BY <1>1, <2>1, <2>2, SameIsNoMore, FewerPings
<1>. QED
  BY <1>2, <1>3, <1>4, <1>5, NumbersType DEF BrokerReceives, Answer, Types

LEMMA PublishPing ==
  ASSUME TInv, OnePing, NEW m \in Messages, BrokerPublishes(m)
  PROVE  OnePing'
<1>1. PICK id \in 1..Cardinality(Messages) :
        toClient' = Append(toClient, [type |-> "publish", id |-> id, msg |-> m])
  BY DEF BrokerPublishes, Reply
<1>2. [type |-> "publish", id |-> id, msg |-> m] \in Downlink
  BY NumbersType, MqttAssumption DEF Downlink, Packet, Types, Numbers
<1>3. NoMore(toClient', toClient, Pings)
  BY <1>1, <1>2, PingPackets, MoreInAppend DEF TInv, QueuesOK
<1>4. UNCHANGED <<txQueue, toBroker, pingQueue, callback>>
  BY DEF BrokerPublishes, sharedVars
<1>. QED
  BY <1>3, <1>4, SameIsNoMore, FewerPings

LEMMA LinkPing == ASSUME TInv, OnePing, Close \/ Drop PROVE OnePing'
<1>1. UNCHANGED <<txQueue, pingQueue, callback>> /\ toBroker' = <<>>
  BY DEF Close, Drop, sharedVars
<1>2. NoMore(toClient', toClient, Pings)
  <2>1. CASE Close
    BY <2>1, EmptyIsFree DEF Close, NoMore
  <2>2. CASE Drop
    BY <2>2, FewerInPrefix DEF Drop, TInv, QueuesOK
  <2>. QED
    BY <2>1, <2>2
<1>3. NoMore(toBroker', toBroker, Pings)
  BY <1>1, EmptyIsFree DEF NoMore
<1>. QED
  BY <1>1, <1>2, <1>3, SameIsNoMore, FewerPings

LEMMA NextPing == ASSUME TInv, OnePing, [Next]_vars PROVE OnePing'
<1>1. CASE Prepare \/ Flush \/ CallbackSends \/ BrokerReceives \/ Close \/ Drop \/ PingTick
  BY <1>1, PreparePing, FlushPing, CallbackPing, BrokerPing, LinkPing, TickPing
<1>2. CASE \/ AwaitConnack \/ AwaitSuback \/ ReceivePublish \/ ReceivePubrel \/ ReceivePubrec
           \/ ReceivePubcomp \/ ReceivePingresp \/ ReceiveLate
  BY <1>2, ReceivePing, PingrespPing
<1>3. CASE \/ Open \/ StartTimers \/ StopTimers \/ Prune \/ Pruned \/ PruneHeld \/ Acknowledged
           \/ Search \/ Track \/ Tracked \/ PollTimesOut \/ Hold \/ Deliver \/ OpenFails
           \/ AwaitTimesOut
  BY <1>3, SamePings DEF Open, StartTimers, StopTimers, Prune, Pruned, PruneHeld, Acknowledged,
     Search, Track, Tracked, PollTimesOut, Hold, Deliver, OpenFails, AwaitTimesOut, sharedVars,
     linkVars
<1>4. CASE CallbackTakesBuffer \/ PublishTick \/ Suspend \/ Resume
  BY <1>4, SamePings DEF CallbackTakesBuffer, PublishTick, Suspend, Resume, sharedVars, linkVars
<1>5. CASE \/ TimePasses \/ \E k \in DOMAIN qosQueue : ExpireEarly(k)
           \/ \E k \in DOMAIN qos2Queue : HeldExpires(k)
  BY <1>5, SamePings DEF TimePasses, Expire, ExpireEarly, Expires, HeldExpires, sharedVars, linkVars
<1>6. CASE \E m \in Messages : BrokerPublishes(m)
  BY <1>6, PublishPing
<1>7. CASE UNCHANGED vars
  BY <1>7, SamePings DEF vars, sharedVars, linkVars
<1>. QED
  BY <1>1, <1>2, <1>3, <1>4, <1>5, <1>6, <1>7 DEF Next, MqttStep, TimerStep, Halt

LEMMA InitPing == Init => OnePing
BY EmptyIsFree DEF Init, OnePing, PingFree

\* Whatever is lost and however often the client reconnects, at most one ping is
\* on its way, and only while its time stamp is queued: the .? of mqtt.zig:684
\* is safe.
THEOREM PongsFindPings == Spec => []PongsHavePings
<1>1. TInv /\ OnePing => PongsHavePings
  <2> SUFFICES ASSUME TInv, OnePing, Has(toClient, "pingresp", 0) PROVE pingQueue
    BY DEF PongsHavePings
  <2>1. PICK k \in DOMAIN toClient : toClient[k].type = "pingresp"
    BY DEF Has
  <2>2. k \in 1..Len(toClient) /\ toClient[k] \in Downlink
    BY ElementOfSeq, LenProperties DEF TInv, QueuesOK
  <2>3. ~Free(toClient, Pings)
    BY <2>1, <2>2, PingPackets DEF Free
  <2>. QED
    BY <2>3 DEF OnePing, PingFree
<1>2. TInv /\ OnePing /\ [Next]_vars => OnePing'
  BY NextPing
<1>. QED
  BY <1>1, <1>2, InitPing, MqttTypesInductive, PTL DEF Spec

-----------------------------------------------------------------------------
(* No message is delivered twice *)

\* What carries message m: a packet of the broker, a step that holds or delivers
\* it, a message held in qos2Queue.
PacketsOf(m) == {p \in Packet : p.msg = m}
StepsOf(m)   == {s \in Todo : s.arg.msg = m}
HeldOf(m)    == {h \in Held : h.msg = m}

Gone(m) == /\ Free(toClient, PacketsOf(m)) /\ Free(todo, StepsOf(m))
           /\ Free(qos2Queue, HeldOf(m))

\* Until it is delivered a message is in one place, and it is sent only once.
OnePlace(m) ==
  /\ Once(toClient, PacketsOf(m)) /\ Once(todo, StepsOf(m)) /\ Once(qos2Queue, HeldOf(m))
  /\ Free(toClient, PacketsOf(m)) \/ (Free(todo, StepsOf(m)) /\ Free(qos2Queue, HeldOf(m)))
  /\ Free(todo, StepsOf(m)) \/ Free(qos2Queue, HeldOf(m))
  /\ delivered[m] \in {0, 1}
  /\ delivered[m] = 1 => Gone(m)
  /\ phase[m] = "unsent" => delivered[m] = 0 /\ Gone(m)

\* A step that adds m nowhere.
LEMMA FewerOf ==
  ASSUME NEW m \in Messages, OnePlace(m), NoMore(toClient', toClient, PacketsOf(m)),
         NoMore(todo', todo, StepsOf(m)), NoMore(qos2Queue', qos2Queue, HeldOf(m)),
         delivered'[m] = delivered[m], phase'[m] = "unsent" => phase[m] = "unsent"
  PROVE  OnePlace(m)'
<1>1. Gone(m) => Gone(m)'
  BY DEF Gone, NoMore
<1>. QED
  BY <1>1, ZenonT(30) DEF OnePlace, NoMore

LEMMA SamePlace ==
  ASSUME NEW m \in Messages, OnePlace(m), UNCHANGED <<toClient, todo, qos2Queue, delivered>>,
         phase'[m] = "unsent" => phase[m] = "unsent"
  PROVE  OnePlace(m)'
<1>1. UNCHANGED toClient /\ UNCHANGED todo /\ UNCHANGED qos2Queue /\ UNCHANGED delivered
  OBVIOUS
<1>. QED
  BY <1>1, FewerOf, SameIsNoMore

\* The steps that carry no message.
LEMMA PlainIsFree ==
  ASSUME NEW m \in Messages, NEW s \in Seq(Plain)
  PROVE  Free(s, StepsOf(m))
BY ElementOfSeq, MqttAssumption DEF Free, StepsOf, Plain

LEMMA PlainSeqs ==
  ASSUME NEW a \in Plain, NEW b \in Plain, NEW c \in Plain, NEW d \in Plain, NEW e \in Plain
  PROVE  <<a>> \in Seq(Plain) /\ <<a, b>> \in Seq(Plain) /\ <<a, b, c, d, e>> \in Seq(Plain)
OBVIOUS

LEMMA ContinueFewer ==
  ASSUME TInv, NEW m \in Messages, Continue
  PROVE  NoMore(todo', todo, StepsOf(m))
BY FewerInTail, HeadOfTodo DEF Continue, TInv, TodoOK

LEMMA PlainFewer ==
  ASSUME NEW m \in Messages, NEW s \in Seq(Plain), todo' = s
  PROVE  NoMore(todo', todo, StepsOf(m))
BY PlainIsFree, FreeIsOnce DEF NoMore

LEMMA FailFewer ==
  ASSUME NEW m \in Messages, Fail
  PROVE  NoMore(todo', todo, StepsOf(m))
BY PlainFewer, ReopenIsPlain, DisconnectIsPlain DEF Fail

LEMMA ThenFewer ==
  ASSUME TInv, NEW m \in Messages, NEW s \in Seq(Plain), Then(s)
  PROVE  NoMore(todo', todo, StepsOf(m))
<1>1. Tail(todo) \in Seq(Todo) /\ s \in Seq(Todo)
  BY HeadOfTodo, TailIsSeq, PlainIsTodo DEF TInv, TodoOK
<1>2. NoMore(Tail(todo), todo, StepsOf(m))
  BY FewerInTail, HeadOfTodo DEF TInv, TodoOK
<1>3. NoMore(s \o Tail(todo), Tail(todo), StepsOf(m))
  BY <1>1, PlainIsFree, MoreInFront
<1>. QED
  BY <1>2, <1>3 DEF Then, NoMore

LEMMA PollIsPlain == Poll \in Plain
BY PlainSteps DEF Poll, Ops

\* All but the steps that receive, hold and deliver a message.
LEMMA TaskFewer ==
  ASSUME TInv, NEW m \in Messages,
         \/ Open \/ OpenFails \/ AwaitConnack \/ AwaitSuback \/ AwaitTimesOut \/ StartTimers
         \/ StopTimers \/ Close \/ Prepare \/ Flush \/ Prune \/ Pruned \/ PruneHeld
         \/ Acknowledged \/ Search \/ Track \/ Tracked \/ PollTimesOut
         \/ ReceivePubrec \/ ReceivePubcomp \/ ReceivePingresp \/ ReceiveLate
  PROVE  NoMore(todo', todo, StepsOf(m))
<1>0. /\ Step("pruned") \in Plain /\ Step("prune_held") \in Plain /\ Step("flush") \in Plain
      /\ Step("poll") \in Plain /\ Step("acknowledged") \in Plain
  BY PlainSteps DEF Ops
<1>1. CASE Open \/ OpenFails
  BY <1>1, PlainFewer, ConnectIsPlain, SameIsNoMore DEF Open, OpenFails
<1>2. CASE \/ AwaitConnack \/ AwaitSuback \/ AwaitTimesOut \/ StartTimers \/ StopTimers \/ Close
           \/ Prepare \/ Flush \/ Acknowledged \/ Tracked
  <2>1. Continue \/ Fail \/ todo' = todo
    BY <1>2 DEF AwaitConnack, AwaitSuback, AwaitTimesOut, StartTimers, StopTimers, Close, Prepare,
       Flush, Acknowledged, Tracked
  <2>. QED
    BY <2>1, ContinueFewer, FailFewer, SameIsNoMore
<1>3. CASE Prune
  <2>1. <<Step("pruned")>> \o Loop \in Seq(Plain)
    BY <1>0, PlainSeqs, ConcatPlain, LoopIsPlain
  <2>. QED
    BY <1>3, <2>1, ThenFewer DEF Prune
<1>4. CASE PruneHeld
  BY <1>0, <1>4, PlainSeqs, ThenFewer DEF PruneHeld
<1>5. CASE Pruned
  <2>1. Removed \in Entry
    BY <1>5, RemovesEntry DEF Pruned, At, TInv
  <2>2. Removed.type \in {"publish", "pubrel"} /\ Removed.id \in Ids
    BY <2>1 DEF Entry
  <2>3. <<With("prepare", P(Removed.type, Removed.id)),
          With("track", P(Removed.type, Removed.id))>> \in Seq(Plain)
    BY <2>2, PlainSteps, PlainSeqs
  <2>. QED
    BY <1>5, <2>3, ThenFewer DEF Pruned
<1>6. CASE Search
  BY <1>0, <1>6, PlainSeqs, ThenFewer, ContinueFewer DEF Search
<1>7. CASE Track
  <2>1. With("tracked", Arg) \in Plain
    <3>1. Head(todo) \in Todo /\ Head(todo).op = "track"
      BY <1>7, HeadOfTodo DEF Track, At, TInv
    <3>2. Arg \in Packet /\ Arg.msg = NoMessage /\ Arg.type \in {"publish", "pubrel"} /\ Arg.id \in Ids
      BY <3>1, MqttAssumption DEF Todo, Arg, Packet
    <3>. QED
      BY <3>2, MqttAssumption DEF Plain, Todo, With, Ops
  <2>. QED
    BY <1>7, <2>1, PlainSeqs, ThenFewer DEF Track
<1>8. CASE PollTimesOut
  BY <1>8, LoopIsPlain, ThenFewer DEF PollTimesOut
<1>9. CASE ReceivePubrec
  <2>1. PICK p \in Incoming :
          \/ /\ Entries("publish", p.id) # {} /\ Look(FirstOf(Entries("publish", p.id)))
             /\ qosQueue' = qosQueue
             /\ Then(<<Step("acknowledged"), With("search", P("pubrel", p.id)),
                       With("prepare", P("pubrel", p.id)),
                       With("track", P("pubrel", p.id)), Poll>>)
          \/ Fail
    BY <1>9 DEF ReceivePubrec, Receive
  <2>2. ASSUME p.id \in Ids
        PROVE  <<Step("acknowledged"), With("search", P("pubrel", p.id)),
                 With("prepare", P("pubrel", p.id)),
                 With("track", P("pubrel", p.id)), Poll>> \in Seq(Plain)
    BY <1>0, <2>2, PlainSteps, PollIsPlain, PlainSeqs
  <2>3. CASE Fail
    BY <2>3, FailFewer
  <2>4. CASE /\ Entries("publish", p.id) # {} /\ Look(FirstOf(Entries("publish", p.id)))
             /\ qosQueue' = qosQueue
             /\ Then(<<Step("acknowledged"), With("search", P("pubrel", p.id)),
                       With("prepare", P("pubrel", p.id)),
                       With("track", P("pubrel", p.id)), Poll>>)
    <3>1. p.id \in Ids
      BY <2>4, LooksAtEntry DEF TInv
    <3>. QED
      BY <2>2, <2>4, <3>1, ThenFewer
  <2>. QED
    BY <2>1, <2>3, <2>4
<1>10. CASE ReceivePubcomp \/ ReceivePingresp \/ ReceiveLate
  <2>1. Then(<<Step("acknowledged"), Poll>>) \/ Then(<<Poll>>) \/ Fail
    BY <1>10 DEF ReceivePubcomp, ReceivePingresp, ReceiveLate
  <2>. QED
    BY <1>0, <2>1, PollIsPlain, PlainSeqs, ThenFewer, FailFewer
<1>. QED
  BY <1>1, <1>2, <1>3, <1>4, <1>5, <1>6, <1>7, <1>8, <1>9, <1>10

\* At its last step the task carries nothing.
LEMMA EndIsFree ==
  ASSUME TInv, NEW m \in Messages, Head(todo).op \in Ends
  PROVE  Free(todo, StepsOf(m))
<1>1. /\ todo \in Seq(Todo) /\ Shape(todo) /\ Len(todo) \in Nat \ {0} /\ Head(todo) = todo[1]
      /\ Head(todo) \in Todo
  BY HeadOfTodo DEF TInv, TodoOK
<1>2. Len(todo) = 1
  BY <1>1 DEF Shape
<1>3. todo[1].arg.msg \notin Messages
  BY <1>1 DEF Todo, Ends
<1>4. \A k \in 1..Len(todo) : k = 1
  BY <1>2
<1>. QED
  BY <1>3, <1>4 DEF Free, StepsOf

LEMMA OneCarrier ==
  ASSUME NEW m \in Messages, NEW a \in Plain, NEW b \in Plain, NEW e \in Todo
  PROVE  /\ Once(<<a, e, Poll>>, StepsOf(m)) /\ Once(<<a, b, e, Poll>>, StepsOf(m))
         /\ e.arg.msg # m => Free(<<a, e, Poll>>, StepsOf(m)) /\ Free(<<a, b, e, Poll>>, StepsOf(m))
<1>1. a \notin StepsOf(m) /\ b \notin StepsOf(m) /\ Poll \notin StepsOf(m)
  BY MqttAssumption, PollIsPlain DEF Plain, StepsOf
<1>2. e.arg.msg # m => e \notin StepsOf(m)
  BY DEF StepsOf
<1> DEFINE c == Poll
<1>3. c \notin StepsOf(m)
  BY <1>1
<1> HIDE DEF c
<1>4. Once(<<a, e, c>>, StepsOf(m)) /\ (e \notin StepsOf(m) => Free(<<a, e, c>>, StepsOf(m)))
  BY <1>1, <1>3 DEF Once, Free
<1>5. Once(<<a, b, e, c>>, StepsOf(m)) /\ (e \notin StepsOf(m) => Free(<<a, b, e, c>>, StepsOf(m)))
  BY <1>1, <1>3 DEF Once, Free
<1>. QED
  BY <1>2, <1>4, <1>5 DEF c

\* A message that the broker sends enters todo.
LEMMA ReceivePlace ==
  ASSUME TInv, NEW m \in Messages, OnePlace(m), ReceivePublish
  PROVE  OnePlace(m)'
<1>1. PICK p \in Incoming :
        /\ Receive(p) /\ p.type = "publish"
        /\ \/ Then(<<With("prepare", P("pubrec", p.id)), With("hold", p), Poll>>)
           \/ Then(<<With("prepare", P("puback", p.id)), Step("flush"), With("deliver", p), Poll>>)
        /\ UNCHANGED qos2Queue
  BY DEF ReceivePublish
<1>2. /\ p \in Packet /\ p.msg \in Messages /\ p.id \in Numbers /\ p = Head(toClient)
      /\ toClient # <<>> /\ toClient \in Seq(Downlink)
  BY <1>1, IncomingType DEF Downlink, Packet, TInv, QueuesOK
<1>3. /\ toClient' = Tail(toClient) /\ Head(todo).op = "poll"
      /\ UNCHANGED <<delivered, phase>>
  BY <1>1 DEF Receive, At, brokerVars
<1>4. Free(todo, StepsOf(m))
  BY <1>3, EndIsFree DEF Ends
<1>5. Once(todo', StepsOf(m)) /\ (p.msg # m => Free(todo', StepsOf(m)))
  <2> DEFINE a == With("prepare", P("pubrec", p.id))  b == With("prepare", P("puback", p.id))
             c == Step("flush")  d == With("deliver", p)  e == With("hold", p)
  <2>1. a \in Plain /\ b \in Plain /\ c \in Plain
    BY <1>2, PlainSteps DEF Ops, Types
  <2>2. d \in Todo /\ e \in Todo /\ d.arg = p /\ e.arg = p
    BY <1>2 DEF Todo, With, Ops
  <2>3. Then(<<a, e, Poll>>) \/ Then(<<b, c, d, Poll>>)
    BY <1>1
  <2> HIDE DEF a, b, c, d, e
  <2>4. Tail(todo) = <<>>
    BY <1>3, LastStep DEF TInv, TodoOK, Ends
  <2>5. <<a, e, Poll>> \in Seq(Todo) /\ <<b, c, d, Poll>> \in Seq(Todo)
    BY <2>1, <2>2, PollStep, PlainTodo
  <2>6. todo' = <<a, e, Poll>> \/ todo' = <<b, c, d, Poll>>
    BY <2>3, <2>4, <2>5, ConcatEmptySeq DEF Then
  <2>7. /\ Once(<<a, e, Poll>>, StepsOf(m)) /\ Once(<<b, c, d, Poll>>, StepsOf(m))
        /\ p.msg # m => Free(<<a, e, Poll>>, StepsOf(m)) /\ Free(<<b, c, d, Poll>>, StepsOf(m))
    BY <2>1, <2>2, OneCarrier
  <2>. QED
    BY <2>6, <2>7
<1>6. CASE p.msg = m
  <2>1. Head(toClient) \in PacketsOf(m)
    BY <1>2, <1>6 DEF PacketsOf
  <2>2. ~Free(toClient, PacketsOf(m)) /\ Free(toClient', PacketsOf(m))
    BY <1>2, <1>3, <2>1, FewerInTail DEF OnePlace
  <2>3. Free(qos2Queue', HeldOf(m)) /\ delivered'[m] = 0 /\ phase'[m] # "unsent"
    BY <1>1, <1>3, <2>2 DEF OnePlace, Gone
  <2>. QED
    BY <1>5, <2>2, <2>3, FreeIsOnce DEF OnePlace
<1>7. CASE p.msg # m
  <2>1. NoMore(toClient', toClient, PacketsOf(m))
    BY <1>2, <1>3, FewerInTail
  <2>2. NoMore(todo', todo, StepsOf(m))
    BY <1>5, <1>7 DEF NoMore
  <2>. QED
    BY <1>1, <1>3, <2>1, <2>2, FewerOf, SameIsNoMore
<1>. QED
  BY <1>6, <1>7

\* A message that is released goes from qos2Queue to todo.
LEMMA ReleasePlace ==
  ASSUME TInv, NEW m \in Messages, OnePlace(m), ReceivePubrel
  PROVE  OnePlace(m)'
<1>1. PICK p \in Incoming :
        /\ Receive(p) /\ p.type = "pubrel"
        /\ LET Under == {k \in DOMAIN qos2Queue : qos2Queue[k].id = p.id}
           IN  \/ /\ Under # {}
                  /\ qos2Queue' = RemoveAt(qos2Queue, FirstOf(Under))
                  /\ Then(<<With("prepare", P("pubcomp", p.id)), Step("flush"),
                            With("deliver", [p EXCEPT !.msg = qos2Queue[FirstOf(Under)].msg]),
                            Poll>>)
               \/ Then(<<Poll>>) /\ UNCHANGED qos2Queue
  BY DEF ReceivePubrel
<1>2. /\ p \in Packet /\ p.id \in Numbers /\ toClient # <<>> /\ toClient \in Seq(Downlink)
      /\ toClient' = Tail(toClient) /\ Head(todo).op = "poll" /\ UNCHANGED <<delivered, phase>>
  BY <1>1, IncomingType DEF Receive, At, brokerVars, Packet, TInv, QueuesOK
<1>3. NoMore(toClient', toClient, PacketsOf(m))
  BY <1>2, FewerInTail
<1>4. CASE Then(<<Poll>>) /\ UNCHANGED qos2Queue
  BY <1>2, <1>3, <1>4, PollIsPlain, PlainSeqs, ThenFewer, FewerOf, SameIsNoMore
<1>5. ASSUME NEW Under, Under = {k \in DOMAIN qos2Queue : qos2Queue[k].id = p.id}, Under # {},
             qos2Queue' = RemoveAt(qos2Queue, FirstOf(Under)),
             Then(<<With("prepare", P("pubcomp", p.id)), Step("flush"),
                    With("deliver", [p EXCEPT !.msg = qos2Queue[FirstOf(Under)].msg]), Poll>>)
      PROVE  OnePlace(m)'
  <2> DEFINE k == FirstOf(Under)
             h == qos2Queue[k]
             a == With("prepare", P("pubcomp", p.id))  b == Step("flush")
             c == With("deliver", [p EXCEPT !.msg = h.msg])
  <2>1. k \in 1..Len(qos2Queue) /\ h \in Held /\ h.msg \in Messages
    BY <1>5, HeldIsHeld DEF Held
  <2>2. a \in Plain /\ b \in Plain
    BY <1>2, PlainSteps DEF Ops, Types
  <2>3. c \in Todo /\ c.arg.msg = h.msg
    BY <1>2, <2>1 DEF Todo, With, Ops, Packet
  <2>4. Then(<<a, b, c, Poll>>) /\ qos2Queue' = RemoveAt(qos2Queue, k)
    BY <1>5
  <2> HIDE DEF k, a, b, c
  <2>5. todo' = <<a, b, c, Poll>>
    <3>1. Tail(todo) = <<>>
      BY <1>2, LastStep DEF TInv, TodoOK, Ends
    <3>2. <<a, b, c, Poll>> \in Seq(Todo)
      BY <2>2, <2>3, PollStep, PlainTodo
    <3>. QED
      BY <2>4, <3>1, <3>2, ConcatEmptySeq DEF Then
  <2>6. Once(todo', StepsOf(m)) /\ (h.msg # m => Free(todo', StepsOf(m)))
    BY <2>2, <2>3, <2>5, OneCarrier
  <2>7. CASE h.msg = m
    <3>1. qos2Queue[k] \in HeldOf(m) /\ qos2Queue \in Seq(Held)
      BY <2>1, <2>7 DEF HeldOf, TInv, QueuesOK
    <3>2. ~Free(qos2Queue, HeldOf(m)) /\ Free(qos2Queue', HeldOf(m))
      <4>1. ~Free(qos2Queue, HeldOf(m))
        BY <2>1, <3>1 DEF Free
      <4>2. Free(qos2Queue', HeldOf(m))
        BY <2>1, <2>4, <3>1, FewerInRest DEF OnePlace
      <4>. QED
        BY <4>1, <4>2
    <3>3. Free(toClient', PacketsOf(m)) /\ delivered'[m] = 0 /\ phase'[m] # "unsent"
      BY <1>2, <1>3, <3>2 DEF OnePlace, Gone, NoMore
    <3>. QED
      BY <2>6, <3>2, <3>3, FreeIsOnce DEF OnePlace
  <2>8. CASE h.msg # m
    <3>1. NoMore(qos2Queue', qos2Queue, HeldOf(m))
      BY <2>1, <2>4, FewerInRest DEF TInv, QueuesOK
    <3>2. NoMore(todo', todo, StepsOf(m))
      BY <2>6, <2>8, FreeIsOnce DEF NoMore
    <3>. QED
      BY <1>2, <1>3, <3>1, <3>2, FewerOf
  <2>. QED
    BY <2>7, <2>8
<1>. QED
  BY <1>1, <1>4, <1>5

\* A long message is dropped with the rest of todo.
LEMMA DropPlace ==
  ASSUME TInv, NEW m \in Messages, OnePlace(m), Deliver, Arg.msg \in LongMessages
  PROVE  OnePlace(m)'
<1>1. Fail /\ UNCHANGED <<delivered, qos2Queue, toClient, phase>>
  BY DEF Deliver, linkVars, brokerVars
<1>. QED
  BY <1>1, FailFewer, FewerOf, SameIsNoMore

\* Hold and Deliver take the message out of todo.
LEMMA TakePlace ==
  ASSUME TInv, NEW m \in Messages, OnePlace(m),
         Hold \/ (Deliver /\ Arg.msg \notin LongMessages)
  PROVE  OnePlace(m)'
<1>1. /\ Head(todo).op \in {"hold", "deliver"} /\ todo' = Tail(todo)
      /\ UNCHANGED <<toClient, phase>>
  BY DEF Hold, Deliver, At, Continue, linkVars, brokerVars
<1>2. /\ Head(todo) \in Todo /\ Arg = Head(todo).arg /\ Arg \in Packet /\ Arg.msg \in Messages
      /\ todo \in Seq(Todo) /\ todo # <<>>
  BY <1>1, HeadOfTodo DEF TInv, TodoOK, Todo, Arg
<1>3. NoMore(todo', todo, StepsOf(m))
  BY <1>1, <1>2, FewerInTail
<1>4. ASSUME Arg.msg = m
      PROVE  /\ Free(todo', StepsOf(m)) /\ Free(toClient', PacketsOf(m)) /\ Free(qos2Queue, HeldOf(m))
             /\ delivered[m] = 0 /\ phase'[m] # "unsent"
  <2>1. Head(todo) \in StepsOf(m)
    BY <1>2, <1>4 DEF StepsOf
  <2>2. ~Free(todo, StepsOf(m)) /\ Free(todo', StepsOf(m))
    BY <1>1, <1>2, <2>1, FewerInTail DEF OnePlace
  <2>. QED
    BY <1>1, <2>2 DEF OnePlace, Gone
<1>5. CASE Hold
  <2> DEFINE h == [id |-> Arg.id, msg |-> Arg.msg, due |-> FALSE]
  <2>1. h \in Held /\ (Arg.msg # m => h \notin HeldOf(m))
    BY <1>2 DEF Packet, Held, HeldOf
  <2>2. qos2Queue' = Append(qos2Queue, h) /\ delivered' = delivered
    BY <1>5 DEF Hold
  <2> HIDE DEF h
  <2>3. CASE Arg.msg = m
    <3>1. Once(qos2Queue', HeldOf(m))
      BY <1>4, <2>1, <2>2, <2>3, MoreInAppend DEF TInv, QueuesOK
    <3>. QED
      BY <1>4, <2>2, <2>3, <3>1, FreeIsOnce DEF OnePlace
  <2>4. CASE Arg.msg # m
    <3>1. NoMore(qos2Queue', qos2Queue, HeldOf(m))
      BY <2>1, <2>2, <2>4, MoreInAppend DEF TInv, QueuesOK
    <3>. QED
      BY <1>1, <1>3, <2>2, <3>1, FewerOf, SameIsNoMore
  <2>. QED
    BY <2>3, <2>4
<1>6. CASE Deliver /\ Arg.msg \notin LongMessages
  <2>1. qos2Queue' = qos2Queue /\ delivered' = [delivered EXCEPT ![Arg.msg] = @ + 1]
        /\ delivered \in [Messages -> Nat]
    BY <1>6 DEF Deliver, TInv, FlagsOK
  <2>2. CASE Arg.msg = m
    <3>1. delivered'[m] = 1
      BY <1>4, <2>1, <2>2
    <3>. QED
      BY <1>4, <2>1, <2>2, <3>1, FreeIsOnce DEF OnePlace, Gone
  <2>3. CASE Arg.msg # m
    <3>1. delivered'[m] = delivered[m]
      BY <2>1, <2>3
    <3>. QED
      BY <1>1, <1>3, <2>1, <3>1, FewerOf, SameIsNoMore
  <2>. QED
    BY <2>2, <2>3
<1>. QED
  BY <1>5, <1>6

\* The broker sends a message once, and never again after a session ends.
LEMMA PublishPlace ==
  ASSUME TInv, NEW m \in Messages, OnePlace(m), NEW n \in Messages, BrokerPublishes(n)
  PROVE  OnePlace(m)'
<1>1. PICK id \in 1..Cardinality(Messages) :
        toClient' = Append(toClient, [type |-> "publish", id |-> id, msg |-> n])
  BY DEF BrokerPublishes, Reply
<1> DEFINE p == [type |-> "publish", id |-> id, msg |-> n]
<1>2. p \in Downlink /\ (n # m => p \notin PacketsOf(m))
  BY NumbersType, MqttAssumption DEF Downlink, Packet, Types, Numbers, PacketsOf
<1>3. /\ UNCHANGED <<todo, qos2Queue, delivered>> /\ phase[n] = "unsent"
      /\ phase' = [phase EXCEPT ![n] = "published"]
  BY DEF BrokerPublishes, taskVars, rxVars
<1>4. toClient' = Append(toClient, p) /\ toClient \in Seq(Downlink)
  BY <1>1 DEF TInv, QueuesOK
<1> HIDE DEF p
<1>5. CASE n = m
  <2>1. delivered'[m] = 0 /\ Free(todo', StepsOf(m)) /\ Free(qos2Queue', HeldOf(m))
        /\ Free(toClient, PacketsOf(m))
    BY <1>3, <1>5 DEF OnePlace, Gone
  <2>2. phase'[m] # "unsent"
    BY <1>3, <1>5 DEF TInv, FlagsOK
  <2>3. Once(toClient', PacketsOf(m))
    BY <1>2, <1>4, <2>1, MoreInAppend
  <2>. QED
    BY <2>1, <2>2, <2>3, FreeIsOnce DEF OnePlace
<1>6. CASE n # m
  <2>1. NoMore(toClient', toClient, PacketsOf(m))
    BY <1>2, <1>4, <1>6, MoreInAppend
  <2>2. phase'[m] = phase[m]
    BY <1>3, <1>6 DEF TInv, FlagsOK
  <2>. QED
    BY <1>3, <2>1, <2>2, FewerOf, SameIsNoMore
<1>. QED
  BY <1>5, <1>6

LEMMA EndSessionPhase ==
  ASSUME NEW m \in Messages, EndSession, phase'[m] = "unsent"
  PROVE  phase[m] = "unsent"
BY DEF EndSession

LEMMA BrokerPlace ==
  ASSUME TInv, NEW m \in Messages, OnePlace(m), BrokerReceives
  PROVE  OnePlace(m)'
<1>1. UNCHANGED <<todo, qos2Queue, delivered>> /\ toBroker # <<>>
  BY DEF BrokerReceives, taskVars, rxVars
<1>2. Head(toBroker) \in Uplink /\ Head(toBroker).id \in Numbers
  BY <1>1, UplinkHead
<1>3. toClient' = toClient
      \/ \E type \in Types \ {"publish", "pingreq"}, id \in Numbers : Reply(P(type, id))
  BY <1>2, NumbersType DEF BrokerReceives, Answer, Types
<1>4. NoMore(toClient', toClient, PacketsOf(m))
  <2>1. ASSUME NEW type \in Types \ {"publish", "pingreq"}, NEW id \in Numbers, Reply(P(type, id))
        PROVE  NoMore(toClient', toClient, PacketsOf(m))
    <3>1. P(type, id) \in Downlink /\ P(type, id) \notin PacketsOf(m)
      BY ReplyIsDownlink, PacketType, MqttAssumption DEF PacketsOf
    <3>. QED
      BY <2>1, <3>1, MoreInAppend DEF Reply, TInv, QueuesOK
  <2>. QED
    BY <1>3, <2>1, SameIsNoMore
<1>5. phase'[m] = "unsent" => phase[m] = "unsent"
  <2>1. CASE EndSession \/ UNCHANGED phase
    BY <2>1, EndSessionPhase
  <2>2. CASE \/ phase' = [n \in Messages |-> IF n \in Numbered(Head(toBroker).id, "published")
                                             THEN "released" ELSE phase[n]]
             \/ phase' = [n \in Messages |->
                            IF n \in Numbered(Head(toBroker).id,
                                              IF Head(toBroker).type = "puback" THEN "published"
                                                                                ELSE "released")
                            THEN "done" ELSE phase[n]]
    BY <2>2
  <2>. QED
    BY <2>1, <2>2 DEF BrokerReceives, Answer
<1>. QED
  BY <1>1, <1>4, <1>5, FewerOf, SameIsNoMore

LEMMA LinkPlace ==
  ASSUME TInv, NEW m \in Messages, OnePlace(m), Close \/ Drop
  PROVE  OnePlace(m)'
<1>1. UNCHANGED <<qos2Queue, delivered>> /\ EndSession
  BY DEF Close, Drop, rxVars
<1>2. NoMore(toClient', toClient, PacketsOf(m))
  <2>1. CASE Close
    BY <2>1, EmptyIsFree DEF Close, NoMore
  <2>2. CASE Drop
    BY <2>2, FewerInPrefix DEF Drop, TInv, QueuesOK
  <2>. QED
    BY <2>1, <2>2
<1>3. NoMore(todo', todo, StepsOf(m))
  BY TaskFewer, SameIsNoMore DEF Drop, taskVars
<1>. QED
  BY <1>1, <1>2, <1>3, EndSessionPhase, FewerOf, SameIsNoMore

LEMMA DropsPlace ==
  ASSUME TInv, NEW m \in Messages, OnePlace(m),
         \/ AwaitConnack \/ AwaitSuback \/ ReceivePubrec \/ ReceivePubcomp \/ ReceivePingresp
         \/ ReceiveLate
  PROVE  OnePlace(m)'
<1>1. /\ UNCHANGED <<qos2Queue, delivered, phase>>
      /\ toClient' \in {toClient, <<>>} \/ (toClient # <<>> /\ toClient' = Tail(toClient))
  BY DEF AwaitConnack, AwaitSuback, ReceivePubrec, ReceivePubcomp, ReceivePingresp, ReceiveLate,
     Receive, Incoming, rxVars, brokerVars
<1>2. NoMore(toClient', toClient, PacketsOf(m))
  BY <1>1, FewerInTail, SameIsNoMore, EmptyIsFree DEF TInv, QueuesOK, NoMore
<1>. QED
  BY <1>1, <1>2, TaskFewer, FewerOf, SameIsNoMore

\* A message that is never released, or whose deadline passes.
LEMMA HeldPlace ==
  ASSUME TInv, NEW m \in Messages, OnePlace(m),
         PruneHeld \/ \E k \in DOMAIN qos2Queue : HeldExpires(k)
  PROVE  OnePlace(m)'
<1>1. UNCHANGED <<toClient, delivered, phase>>
  BY DEF PruneHeld, HeldExpires, linkVars, brokerVars
<1>2. NoMore(todo', todo, StepsOf(m))
  BY TaskFewer, SameIsNoMore DEF HeldExpires, taskVars
<1>3. Len(qos2Queue) \in Nat /\ DOMAIN qos2Queue = 1..Len(qos2Queue) /\ qos2Queue \in Seq(Held)
  BY LenProperties DEF TInv, QueuesOK
<1>4. NoMore(qos2Queue', qos2Queue, HeldOf(m))
  <2>1. CASE PruneHeld
    <3>1. CASE DueHeld # {} /\ qos2Queue' = RemoveAt(qos2Queue, FirstOf(DueHeld))
      <4>1. DueHeld \in SUBSET Nat
        BY <1>3 DEF DueHeld
      <4>2. FirstOf(DueHeld) \in 1..Len(qos2Queue)
        BY <1>3, <3>1, <4>1, FirstOfIsFirst DEF DueHeld
      <4>. QED
        BY <1>3, <3>1, <4>2, FewerInRest
    <3>. QED
      BY <2>1, <3>1, SameIsNoMore DEF PruneHeld
  <2>2. ASSUME NEW k \in DOMAIN qos2Queue, HeldExpires(k)
        PROVE  NoMore(qos2Queue', qos2Queue, HeldOf(m))
    <3>1. qos2Queue' = [qos2Queue EXCEPT ![k] = [qos2Queue[k] EXCEPT !.due = TRUE]]
      BY <2>2 DEF HeldExpires
    <3>2. \A i \in 1..Len(qos2Queue) : qos2Queue[i] \in Held
      BY <1>3, ElementOfSeq
    <3>3. Len(qos2Queue') = Len(qos2Queue)
      <4>1. [qos2Queue[k] EXCEPT !.due = TRUE] \in Held
        BY <1>3, <3>2 DEF Held
      <4>. QED
        BY <1>3, <3>1, <4>1, ExceptSeq
    <3>4. \A i \in 1..Len(qos2Queue) : qos2Queue'[i] \in HeldOf(m) => qos2Queue[i] \in HeldOf(m)
      BY <1>3, <3>1, <3>2 DEF HeldOf, Held
    <3> DEFINE f == [i \in 1..Len(qos2Queue) |-> i]
    <3>5. f \in [1..Len(qos2Queue') -> 1..Len(qos2Queue)] /\ \A i \in 1..Len(qos2Queue') : f[i] = i
      BY <3>3
    <3> HIDE DEF f
    <3>. QED
      BY <3>3, <3>4, <3>5, FewerPlaces
  <2>. QED
    BY <2>1, <2>2
<1>. QED
  BY <1>1, <1>2, <1>4, FewerOf, SameIsNoMore

LEMMA NextPlace ==
  ASSUME TInv, NEW m \in Messages, OnePlace(m), [Next]_vars
  PROVE  OnePlace(m)'
<1>1. CASE \/ ReceivePublish \/ ReceivePubrel \/ Hold \/ Deliver \/ Close \/ Drop \/ BrokerReceives
  BY <1>1, ReceivePlace, ReleasePlace, TakePlace, DropPlace, LinkPlace, BrokerPlace
<1>2. CASE \/ AwaitConnack \/ AwaitSuback \/ ReceivePubrec \/ ReceivePubcomp \/ ReceivePingresp
           \/ ReceiveLate
  BY <1>2, DropsPlace
<1>3. CASE PruneHeld \/ \E k \in DOMAIN qos2Queue : HeldExpires(k)
  BY <1>3, HeldPlace
<1>4. CASE \E n \in Messages : BrokerPublishes(n)
  BY <1>4, PublishPlace
<1>5. CASE \/ Open \/ OpenFails \/ AwaitTimesOut \/ StartTimers \/ StopTimers \/ Prepare \/ Flush
           \/ Prune \/ Pruned \/ Acknowledged \/ Search \/ Track \/ Tracked \/ PollTimesOut
  <2>1. UNCHANGED <<toClient, qos2Queue, delivered, phase>>
    BY <1>5 DEF Open, OpenFails, AwaitTimesOut, StartTimers, StopTimers, Prepare, Flush, Prune,
       Pruned, Acknowledged, Search, Track, Tracked, PollTimesOut, rxVars, linkVars, brokerVars
  <2>. QED
    BY <1>5, <2>1, TaskFewer, FewerOf, SameIsNoMore
<1>6. CASE \/ CallbackTakesBuffer \/ CallbackSends \/ PingTick \/ PublishTick \/ Suspend \/ Resume
           \/ TimePasses \/ \E k \in DOMAIN qosQueue : ExpireEarly(k)
  <2>1. UNCHANGED <<toClient, todo, qos2Queue, delivered, phase>>
    BY <1>6 DEF CallbackTakesBuffer, CallbackSends, PingTick, PublishTick, Suspend, Resume,
       TimePasses, Expire, ExpireEarly, Expires, taskVars, rxVars, linkVars, brokerVars
  <2>. QED
    BY <2>1, SamePlace
<1>7. CASE UNCHANGED vars
  BY <1>7, SamePlace DEF vars, taskVars, rxVars, linkVars, brokerVars
<1>. QED
  BY <1>1, <1>2, <1>3, <1>4, <1>5, <1>6, <1>7 DEF Next, MqttStep, TimerStep, Halt

LEMMA InitPlace == ASSUME Init, NEW m \in Messages PROVE OnePlace(m)
<1>1. TInv /\ Head(todo).op \in Ends
  BY InitTInv, PlainSteps DEF Init, Ends, Ops
<1>2. Free(todo, StepsOf(m)) /\ Once(todo, StepsOf(m))
  BY <1>1, EndIsFree, FreeIsOnce
<1>. QED
  BY <1>2, EmptyIsFree DEF Init, OnePlace, Gone

OnePlaceEach == \A m \in Messages : OnePlace(m)

\* Until it is delivered, a message is in one place: on the connection, in todo
\* or in qos2Queue.  A reconnect uses identifiers again and drops what is on
\* the connection, yet no message reaches the application twice
\* (mqtt.zig:635-671, 719-743).
THEOREM NoneDeliveredTwice == Spec => []DeliveredOnce
<1>1. Init => OnePlaceEach
  BY InitPlace DEF OnePlaceEach
<1>2. TInv /\ OnePlaceEach /\ [Next]_vars => OnePlaceEach'
  BY NextPlace DEF OnePlaceEach
<1>3. OnePlaceEach => DeliveredOnce
  BY DEF OnePlaceEach, OnePlace, DeliveredOnce
<1>. QED
  BY <1>1, <1>2, <1>3, MqttTypesInductive, PTL DEF Spec

===============================================================================

------------------------- MODULE OrderServiceProofs -------------------------
(***************************************************************************)
(* Proofs about OrderService for any number of customers, orders,          *)
(* goroutines and crashes, with or without a schema registry, and for any  *)
(* bounds of the slice, the client buffer and a poll.                      *)
(***************************************************************************)
EXTENDS OrderService, KafkaProducerProofs, FiniteSetTheorems

-----------------------------------------------------------------------------
(* The script of CreateOrder. *)

(* Where the script produces to the i-th topic. *)
At == <<1, 2, 4, 6>>

ScriptStep == {ProduceTo(i) : i \in DOMAIN Topics} \cup {Add(n) : n \in {1, 2}}

USE OrderServiceAssumption

LEMMA TopicsShape ==
  /\ DOMAIN Topics = IF SchemaRegistry THEN 1..4 ELSE 1..2
  /\ Len(Topics) = IF SchemaRegistry THEN 4 ELSE 2
  /\ Partition = {Topics[i] : i \in DOMAIN Topics}
  /\ \A i \in DOMAIN Topics : Topics[i] \in Partition
  /\ \A i, j \in DOMAIN Topics : Topics[i] = Topics[j] => i = j
  /\ \A i \in DOMAIN Topics : Topics[i] = "orders-avro-sr" => i = 4
  /\ SchemaRegistry => Topics[4] = "orders-avro-sr"
<1>1. CASE SchemaRegistry
  BY <1>1 DEF Topics, Range
<1>2. CASE ~ SchemaRegistry
  BY <1>2 DEF Topics, Range
<1> QED BY <1>1, <1>2

LEMMA ScriptSteps ==
  Script = IF SchemaRegistry
           THEN <<ProduceTo(1), ProduceTo(2), Add(2),
                  ProduceTo(3), Add(1), ProduceTo(4), Add(1)>>
           ELSE <<ProduceTo(1), ProduceTo(2), Add(2)>>
<1>1. CASE SchemaRegistry
  <2> DEFINE a == <<ProduceTo(1), ProduceTo(2), Add(2)>>
             b == <<ProduceTo(3), Add(1), ProduceTo(4), Add(1)>>
             s == <<ProduceTo(1), ProduceTo(2), Add(2),
                    ProduceTo(3), Add(1), ProduceTo(4), Add(1)>>
  <2>1. /\ a \in Seq(ScriptStep) /\ b \in Seq(ScriptStep) /\ s \in Seq(ScriptStep)
        /\ Len(a) = 3 /\ Len(b) = 4 /\ Len(s) = 7
    BY <1>1, TopicsShape DEF ScriptStep
  <2>2. /\ a \o b \in Seq(ScriptStep)
        /\ Len(a \o b) = 7
        /\ \A i \in 1..7 : (a \o b)[i] = IF i <= 3 THEN a[i] ELSE b[i - 3]
    BY <2>1, ConcatProperties
  <2>3. \A i \in 1..7 : (a \o b)[i] = s[i]
    BY <2>2
  <2>4. a \o b = s
    BY <2>1, <2>2, <2>3, SeqEqual
  <2> QED BY <1>1, <2>4 DEF Script
<1>2. CASE ~ SchemaRegistry
  BY <1>2 DEF Script
<1> QED BY <1>1, <1>2

LEMMA ScriptShape ==
  /\ Script \in Seq(ScriptStep)
  /\ Len(Script) = IF SchemaRegistry THEN 7 ELSE 3
  /\ DOMAIN Script = 1..Len(Script)
  /\ \A i \in DOMAIN Topics :
       At[i] \in DOMAIN Script /\ Script[At[i]] = ProduceTo(i) /\ At[i] \in 1..6
  /\ \A k \in DOMAIN Script :
       \/ \E i \in DOMAIN Topics : k = At[i]
       \/ Script[k] = Add(2) \/ Script[k] = Add(1)
  /\ \A i, j \in DOMAIN Topics : i < j <=> At[i] < At[j]
  /\ Script[Len(Script)].do = "count"
<1>1. CASE SchemaRegistry
  <2> DEFINE s == <<ProduceTo(1), ProduceTo(2), Add(2),
                    ProduceTo(3), Add(1), ProduceTo(4), Add(1)>>
  <2>1. Script = s
    BY <1>1, ScriptSteps
  <2>2. s \in Seq(ScriptStep)
    BY <1>1, TopicsShape DEF ScriptStep
  <2>3. Len(s) = 7 /\ DOMAIN s = 1..7
    OBVIOUS
  <2> QED BY <1>1, <2>1, <2>2, <2>3, TopicsShape DEF At, Add
<1>2. CASE ~ SchemaRegistry
  <2> DEFINE s == <<ProduceTo(1), ProduceTo(2), Add(2)>>
  <2>1. Script = s
    BY <1>2, ScriptSteps
  <2>2. s \in Seq(ScriptStep)
    BY <1>2, TopicsShape DEF ScriptStep
  <2>3. Len(s) = 3 /\ DOMAIN s = 1..3
    OBVIOUS
  <2> QED BY <1>2, <2>1, <2>2, <2>3, TopicsShape DEF At, Add
<1> QED BY <1>1, <1>2

(* What is left of the script after k - 1 steps. *)
LEMMA RestOfScript ==
  ASSUME NEW k \in DOMAIN Script
  PROVE  /\ SubSeq(Script, k, Len(Script)) # <<>>
         /\ Len(SubSeq(Script, k, Len(Script))) = Len(Script) - k + 1
         /\ Head(SubSeq(Script, k, Len(Script))) = Script[k]
         /\ Tail(SubSeq(Script, k, Len(Script))) = SubSeq(Script, k + 1, Len(Script))
<1> DEFINE s == Script
           n == Len(Script)
<1>1. s \in Seq(ScriptStep) /\ k \in 1..n /\ n \in Nat /\ Len(s) = n
      /\ n \in k..Len(s)
  BY ScriptShape, LenProperties
<1> HIDE DEF s, n
<1>2. /\ Head(SubSeq(s, k, n)) = s[k]
      /\ Tail(SubSeq(s, k, n)) = SubSeq(s, k + 1, n)
  BY <1>1, HeadTailOfSubSeq
<1>3. /\ SubSeq(s, k, n) \in Seq(ScriptStep)
      /\ Len(SubSeq(s, k, n)) = n - k + 1
  BY <1>1
<1>4. SubSeq(s, k, n) # <<>>
  <2> DEFINE rest == SubSeq(s, k, n)
  <2>1. Len(rest) # 0
    BY <1>1, <1>3
  <2> HIDE DEF rest
  <2>2. rest = <<>> => Len(rest) = 0
    OBVIOUS
  <2> QED BY <2>1, <2>2 DEF rest
<1> QED BY <1>1, <1>2, <1>3, <1>4 DEF s, n

-----------------------------------------------------------------------------
(* A busy goroutine and its next step. *)

LEMMA NextId ==
  ASSUME TypeOK, orderIds # OrderId
  PROVE  FreshId \in OrderId /\ FreshId \notin orderIds
<1>1. \E id \in OrderId : id \notin orderIds
  BY DEF TypeOK
<1> QED BY <1>1 DEF FreshId

LEMMA BusyTask ==
  ASSUME TypeOK, NEW g \in Goroutine, Busy(g)
  PROVE  /\ task[g] \in Unfinished /\ task[g].order \in Order
         /\ StepsDone(g) \in 0..(Len(Script) - 1) /\ Len(Script) \in {3, 7}
         /\ StepsDone(g) + 1 \in DOMAIN Script
         /\ Len(task[g].left) = Len(Script) - StepsDone(g)
         /\ Todo(g) = Script[StepsDone(g) + 1]
         /\ Tail(task[g].left) = SubSeq(Script, StepsDone(g) + 2, Len(Script))
<1>1. task[g] \in Unfinished
  BY DEF TypeOK, Busy, Idle
<1>2. PICK k \in DOMAIN Script : task[g].left = SubSeq(Script, k, Len(Script))
  BY <1>1 DEF Unfinished
<1>3. k \in 1..Len(Script) /\ Len(Script) \in {3, 7}
  BY ScriptShape
<1>4. /\ Len(task[g].left) = Len(Script) - k + 1
      /\ Head(task[g].left) = Script[k]
      /\ Tail(task[g].left) = SubSeq(Script, k + 1, Len(Script))
  BY <1>2, RestOfScript
<1>5. StepsDone(g) = k - 1
  BY <1>3, <1>4 DEF StepsDone
<1>6. /\ StepsDone(g) \in 0..(Len(Script) - 1)
      /\ StepsDone(g) + 1 = k /\ StepsDone(g) + 2 = k + 1
      /\ Len(Script) - k + 1 = Len(Script) - StepsDone(g)
  BY ONLY <1>3, <1>5
<1>7. task[g].order \in Order
  BY <1>1 DEF Unfinished
<1>8. Todo(g) = Script[StepsDone(g) + 1]
  BY <1>4, <1>6 DEF Todo
<1> QED BY ONLY <1>1, <1>2, <1>3, <1>4, <1>6, <1>7, <1>8

(* A step that is not the last leaves the goroutine busy with its order.   *)
LEMMA StepForward ==
  ASSUME TypeOK, NEW g \in Goroutine, Busy(g),
         StepsDone(g) + 1 # Len(Script),
         task' = [task EXCEPT ![g].left = Tail(@)]
  PROVE  /\ task' \in [Goroutine -> {Idle} \cup Unfinished]
         /\ Busy(g)'
         /\ task'[g].order = task[g].order
         /\ StepsDone(g)' = StepsDone(g) + 1
         /\ \A h \in Goroutine : h # g =>
              task'[h] = task[h] /\ StepsDone(h)' = StepsDone(h)
<1> DEFINE n == StepsDone(g)
<1>1. /\ n \in 0..(Len(Script) - 1) /\ Len(Script) \in {3, 7}
      /\ Tail(task[g].left) = SubSeq(Script, n + 2, Len(Script))
      /\ task[g] \in Unfinished
      /\ n + 1 # Len(Script)
  BY BusyTask
<1> HIDE DEF n
<1>0. n + 2 \in DOMAIN Script
  <2>1. n + 2 \in 1..Len(Script)
    BY ONLY <1>1
  <2> QED BY <2>1, ScriptShape
<1>2. task'[g] = [task[g] EXCEPT !.left = Tail(@)]
      /\ \A h \in Goroutine : h # g => task'[h] = task[h]
  BY DEF TypeOK
<1>3. task'[g].left = SubSeq(Script, n + 2, Len(Script))
      /\ task'[g].order = task[g].order
      /\ task'[g] \in Unfinished
  <2> DEFINE rest == SubSeq(Script, n + 2, Len(Script))
             Rests == {SubSeq(Script, k, Len(Script)) : k \in DOMAIN Script}
  <2>1. rest \in Rests /\ task'[g] = [task[g] EXCEPT !.left = rest]
    BY <1>0, <1>1, <1>2
  <2>2. task[g] \in [left : Rests, order : Order]
    BY <1>1 DEF Unfinished
  <2> HIDE DEF rest, Rests
  <2>3. /\ task'[g].left = rest /\ task'[g].order = task[g].order
        /\ task'[g] \in [left : Rests, order : Order]
    BY ONLY <2>1, <2>2
  <2> QED BY ONLY <2>3 DEF Unfinished, rest, Rests
<1>4. Busy(g)' /\ Len(task'[g].left) = Len(Script) - (n + 2) + 1
  BY <1>0, <1>3, RestOfScript DEF Busy
<1>5. StepsDone(g)' = n + 1
  <2>1. StepsDone(g)' = Len(Script) - Len(task'[g].left)
    BY DEF StepsDone
  <2> QED BY ONLY <1>1, <1>4, <2>1
<1>6. \A h \in Goroutine : h # g => StepsDone(h)' = StepsDone(h)
  BY <1>2 DEF StepsDone
<1>7. task' \in [Goroutine -> {Idle} \cup Unfinished]
  BY <1>3 DEF TypeOK
<1> QED BY <1>2, <1>3, <1>4, <1>5, <1>6, <1>7 DEF n

(* The steps of the script, with their place in it.                        *)
LEMMA ProduceStep ==
  ASSUME TypeOK, NEW g \in Goroutine, Busy(g), Todo(g).do = "produce"
  PROVE  \E i \in DOMAIN Topics :
           /\ At[i] = StepsDone(g) + 1
           /\ Todo(g).topic = Topics[i] /\ Topics[i] \in Partition
           /\ StepsDone(g) + 1 # Len(Script)
<1> DEFINE k == StepsDone(g) + 1
<1>1. /\ k \in DOMAIN Script /\ Todo(g) = Script[k]
  BY BusyTask
<1> HIDE DEF k
<1>2. PICK i \in DOMAIN Topics : k = At[i]
  BY <1>1, ScriptShape DEF Add
<1>3. Todo(g) = ProduceTo(i)
  BY <1>1, <1>2, ScriptShape
<1>4. k # Len(Script)
  BY <1>1, ScriptShape
<1> QED BY <1>2, <1>3, <1>4, TopicsShape DEF ProduceTo, k

LEMMA CountStep ==
  ASSUME TypeOK, NEW g \in Goroutine, Busy(g), Todo(g).do = "count"
  PROVE  /\ \A i \in DOMAIN Topics : At[i] # StepsDone(g) + 1
         /\ Todo(g).n \in {1, 2}
         /\ Len(task[g].left) = 1 <=> StepsDone(g) + 1 = Len(Script)
<1> DEFINE k == StepsDone(g) + 1
<1>1. /\ k \in DOMAIN Script /\ Todo(g) = Script[k]
  BY BusyTask
<1>2. Len(task[g].left) = 1 <=> k = Len(Script)
  <2>1. /\ StepsDone(g) \in 0..(Len(Script) - 1) /\ Len(Script) \in {3, 7}
        /\ Len(task[g].left) = Len(Script) - StepsDone(g)
    BY BusyTask
  <2> QED BY ONLY <2>1
<1> HIDE DEF k
<1>3. \A i \in DOMAIN Topics : At[i] # k
  <2>1. \A i \in DOMAIN Topics : Script[At[i]].do = "produce"
    <3>1. \A i \in DOMAIN Topics : Script[At[i]] = ProduceTo(i)
      BY ScriptShape
    <3>2. \A i : ProduceTo(i).do = "produce"
      BY DEF ProduceTo
    <3> QED BY ONLY <3>1, <3>2
  <2> QED BY <1>1, <2>1
<1>4. Todo(g) = Add(2) \/ Todo(g) = Add(1)
  BY <1>1, <1>3, ScriptShape
<1> QED BY <1>2, <1>3, <1>4 DEF k, Add

-----------------------------------------------------------------------------
(* Type correctness, part by part. *)

ConsumerTypeOK ==
  /\ source \in Seq(SourceRecord)
  /\ fetched \in Seq(SourceRecord)
  /\ position \in 0..Len(source)
  /\ committable \in 0..position
  /\ committed \in 0..committable
  /\ consumed \in 0..HandledUpTo

SliceTypeOK ==
  /\ recentCustomers \in Seq(CachedCustomer)
  /\ Len(recentCustomers) <= BufferSize

TaskTypeOK ==
  /\ orderIds \in SUBSET OrderId
  /\ task \in [Goroutine -> {Idle} \cup Unfinished]
  /\ counted \in Nat
  /\ crashes \in 0..MaxCrashes

ProducerTypeOK == RecordsIn(OrderMessage) /\ lost \in SUBSET OrderMessage

LEMMA TypeParts ==
  TypeOK <=> ConsumerTypeOK /\ SliceTypeOK /\ TaskTypeOK /\ ProducerTypeOK
  BY DEF TypeOK, ConsumerTypeOK, SliceTypeOK, TaskTypeOK, ProducerTypeOK, RecordsIn

(* A poll, a handled record. *)
LEMMA PollType ==
  ASSUME TypeOK, EnterPoll \/ PollReturns, UNCHANGED <<source, consumed>>
  PROVE  /\ ConsumerTypeOK'
         /\ HandledUpTo' = HandledUpTo
         /\ fetched = <<>>
         /\ \A i \in DOMAIN fetched' : fetched'[i] = source[HandledUpTo + i]
<1>0. fetched = <<>> /\ Len(fetched) = 0 /\ UNCHANGED committed
  BY EmptySeq DEF EnterPoll, PollReturns
<1>1. /\ source \in Seq(SourceRecord) /\ Len(source) \in Nat
      /\ position \in 0..Len(source) /\ committable \in 0..position
      /\ committed \in 0..committable /\ consumed \in 0..HandledUpTo
      /\ fetched \in Seq(SourceRecord)
      /\ HandledUpTo = position - Len(fetched)
  BY LenProperties DEF TypeOK, HandledUpTo
<1>4. HandledUpTo = position
  BY ONLY <1>0, <1>1
<1>2. CASE EnterPoll
  BY <1>0, <1>1, <1>2, <1>4 DEF EnterPoll, ConsumerTypeOK, HandledUpTo
<1>3. CASE PollReturns
  <2>1. PICK n \in (position + 1)..Len(source) :
          fetched' = SubSeq(source, position + 1, n) /\ position' = n
    BY <1>3 DEF PollReturns
  <2>2. /\ fetched' \in Seq(SourceRecord)
        /\ Len(fetched') = n - position
        /\ \A i \in 1..(n - position) : fetched'[i] = source[position + i]
    BY <1>1, <2>1, PolledPart
  <2>3. DOMAIN fetched' = 1..(n - position)
    BY <2>2, LenProperties
  <2>4. HandledUpTo' = position
    <3>1. HandledUpTo' = position' - Len(fetched')
      BY DEF HandledUpTo
    <3> QED BY ONLY <1>1, <2>1, <2>2, <3>1
  <2>5. position' \in 0..Len(source) /\ committable' \in 0..position'
    BY <1>1, <1>3, <2>1 DEF PollReturns
  <2>6. ConsumerTypeOK'
    BY <1>0, <1>1, <1>3, <1>4, <2>2, <2>4, <2>5 DEF PollReturns, ConsumerTypeOK
  <2> QED BY <1>0, <1>4, <2>2, <2>3, <2>4, <2>6
<1> QED BY <1>2, <1>3

LEMMA HandleShape ==
  ASSUME TypeOK, NextRecord, consumed' = consumed + 1, UNCHANGED source
  PROVE  /\ ConsumerTypeOK'
         /\ HandledUpTo \in Nat /\ HandledUpTo' = HandledUpTo + 1
         /\ HandledUpTo + 1 \in DOMAIN source
         /\ 1 \in DOMAIN fetched /\ Head(fetched) = fetched[1]
         /\ Head(fetched) \in SourceRecord
         /\ \A i \in DOMAIN fetched' :
              i \in Nat /\ i + 1 \in DOMAIN fetched /\ fetched'[i] = fetched[i + 1]
<1>1. /\ fetched \in Seq(SourceRecord) /\ fetched # <<>> /\ fetched' = Tail(fetched)
      /\ source \in Seq(SourceRecord) /\ UNCHANGED <<position, committable, committed>>
  BY DEF TypeOK, NextRecord
<1>2. /\ Len(fetched) \in Nat \ {0}
      /\ 1 \in DOMAIN fetched /\ Head(fetched) = fetched[1]
      /\ Head(fetched) \in SourceRecord
      /\ fetched' \in Seq(SourceRecord) /\ Len(fetched') = Len(fetched) - 1
      /\ DOMAIN fetched' = 1..(Len(fetched) - 1)
      /\ \A i \in 1..(Len(fetched) - 1) :
           i + 1 \in DOMAIN fetched /\ fetched'[i] = fetched[i + 1]
  BY <1>1, TailShape
<1>3. /\ Len(source) \in Nat /\ DOMAIN source = 1..Len(source)
      /\ position \in 0..Len(source) /\ consumed \in 0..(position - Len(fetched))
      /\ HandledUpTo = position - Len(fetched)
      /\ HandledUpTo' = position - Len(fetched')
  BY <1>1, LenProperties DEF TypeOK, HandledUpTo
<1>4. /\ HandledUpTo \in Nat /\ HandledUpTo' = HandledUpTo + 1
      /\ HandledUpTo + 1 \in 1..Len(source)
      /\ consumed' \in 0..HandledUpTo'
  BY ONLY <1>2, <1>3, consumed' = consumed + 1
<1>5. ConsumerTypeOK'
  BY <1>1, <1>2, <1>4 DEF TypeOK, ConsumerTypeOK
<1> QED BY <1>2, <1>3, <1>4, <1>5

(* The slice: a customer is remembered, or dropped, or popped. *)
LEMMA RememberShape ==
  ASSUME TypeOK, NEW c \in CachedCustomer, Remember(c)
  PROVE  /\ SliceTypeOK'
         /\ \A i \in DOMAIN recentCustomers' :
              \/ i \in DOMAIN recentCustomers /\ recentCustomers'[i] = recentCustomers[i]
              \/ /\ recentCustomers'[i] = c
                 /\ i = Len(recentCustomers) + 1
<1> DEFINE s == recentCustomers
<1>1. /\ s \in Seq(CachedCustomer) /\ Len(s) <= BufferSize
      /\ Len(s) \in Nat /\ DOMAIN s = 1..Len(s)
      /\ s' = IF Len(s) < BufferSize THEN Append(s, c) ELSE s
  BY LenProperties DEF TypeOK, Remember
<1> HIDE DEF s
<1>2. /\ Append(s, c) \in Seq(CachedCustomer)
      /\ Len(Append(s, c)) = Len(s) + 1
      /\ DOMAIN Append(s, c) = 1..(Len(s) + 1)
      /\ \A i \in 1..Len(s) : Append(s, c)[i] = s[i]
      /\ Append(s, c)[Len(s) + 1] = c
  BY <1>1, AppendShape
<1>3. /\ s' \in Seq(CachedCustomer) /\ Len(s') <= BufferSize
      /\ \A i \in DOMAIN s' :
              \/ i \in DOMAIN s /\ s'[i] = s[i]
              \/ s'[i] = c /\ i = Len(s) + 1
  BY <1>1, <1>2
<1> QED BY <1>3 DEF SliceTypeOK, s

LEMMA PopShape ==
  ASSUME TypeOK, recentCustomers # <<>>, recentCustomers' = Tail(recentCustomers)
  PROVE  /\ SliceTypeOK'
         /\ 1 \in DOMAIN recentCustomers
         /\ Head(recentCustomers) = recentCustomers[1]
         /\ Head(recentCustomers).id \in Customer
         /\ Head(recentCustomers).state \in State
         /\ \A i \in DOMAIN recentCustomers' :
              /\ i \in Nat /\ i + 1 \in DOMAIN recentCustomers /\ i + 1 # 1
              /\ recentCustomers'[i] = recentCustomers[i + 1]
<1> DEFINE s == recentCustomers
<1>1. s \in Seq(CachedCustomer) /\ s # <<>> /\ Len(s) <= BufferSize /\ s' = Tail(s)
  BY DEF TypeOK
<1> HIDE DEF s
<1>2. /\ Len(s) \in Nat \ {0} /\ DOMAIN s = 1..Len(s)
      /\ 1 \in DOMAIN s /\ Head(s) = s[1] /\ Head(s) \in CachedCustomer
      /\ s' \in Seq(CachedCustomer) /\ Len(s') = Len(s) - 1
      /\ DOMAIN s' = 1..(Len(s) - 1)
      /\ \A i \in 1..(Len(s) - 1) : i + 1 \in DOMAIN s /\ s'[i] = s[i + 1]
  BY <1>1, TailShape
<1>3. Head(s).id \in Customer /\ Head(s).state \in State
  BY <1>2 DEF CachedCustomer
<1>4. Len(s') <= BufferSize /\ \A i \in DOMAIN s' : i \in Nat /\ i + 1 # 1
  BY <1>1, <1>2
<1> QED BY <1>2, <1>3, <1>4 DEF SliceTypeOK, s

(* The message an order is produced as. *)
LEMMA MessageShape ==
  ASSUME NEW t \in Partition, NEW order \in Order
  PROVE  /\ Message(t, order) \in OrderMessage
         /\ Message(t, order).topic = t
         /\ Message(t, order).id = order.id
         /\ Message(t, order).customer = order.customer
         /\ Message(t, order).state = order.state
  BY DEF Message, Order, OrderMessage

LEMMA ProduceOrderShape ==
  ASSUME TypeOK, NEW g \in Goroutine, ProduceOrder(g)
  PROVE  \E i \in DOMAIN Topics :
           /\ Busy(g) /\ At[i] = StepsDone(g) + 1
           /\ Topics[i] \in Partition /\ Encodes(Topics[i], task[g].order)
           /\ Message(Topics[i], task[g].order) \in OrderMessage
           /\ Produce(Topics[i], Message(Topics[i], task[g].order))
           /\ task' \in [Goroutine -> {Idle} \cup Unfinished]
           /\ Busy(g)'
           /\ task'[g].order = task[g].order
           /\ StepsDone(g)' = StepsDone(g) + 1
           /\ \A h \in Goroutine : h # g =>
                task'[h] = task[h] /\ StepsDone(h)' = StepsDone(h)
<1>1. PICK i \in DOMAIN Topics :
        /\ At[i] = StepsDone(g) + 1
        /\ Todo(g).topic = Topics[i] /\ Topics[i] \in Partition
        /\ StepsDone(g) + 1 # Len(Script)
  BY ProduceStep DEF ProduceOrder
<1>2. Message(Topics[i], task[g].order) \in OrderMessage
  BY <1>1, BusyTask, MessageShape DEF ProduceOrder
<1>3. /\ Produce(Topics[i], Message(Topics[i], task[g].order))
      /\ Encodes(Topics[i], task[g].order)
      /\ Busy(g) /\ task' = [task EXCEPT ![g].left = Tail(@)]
  BY <1>1 DEF ProduceOrder
<1> QED BY <1>1, <1>2, <1>3, StepForward

(* The metric is added to; after the last step the goroutine is idle.      *)
LEMMA CountProducedShape ==
  ASSUME TypeOK, NEW g \in Goroutine, CountProduced(g)
  PROVE  /\ Busy(g) /\ \A i \in DOMAIN Topics : At[i] # StepsDone(g) + 1
         /\ task' \in [Goroutine -> {Idle} \cup Unfinished]
         /\ \A h \in Goroutine : h # g =>
              task'[h] = task[h] /\ StepsDone(h)' = StepsDone(h)
         /\ \/ task'[g] = Idle /\ StepsDone(g) + 1 = Len(Script)
            \/ /\ Busy(g)' /\ task'[g].order = task[g].order
               /\ StepsDone(g)' = StepsDone(g) + 1
<1>1. /\ Busy(g) /\ \A i \in DOMAIN Topics : At[i] # StepsDone(g) + 1
      /\ Len(task[g].left) = 1 <=> StepsDone(g) + 1 = Len(Script)
  BY CountStep DEF CountProduced
<1>2. CASE StepsDone(g) + 1 # Len(Script)
  <2>1. task' = [task EXCEPT ![g] = [left |-> Tail(@.left), order |-> @.order]]
    BY <1>1, <1>2 DEF CountProduced
  <2>2. task[g] = [left |-> task[g].left, order |-> task[g].order]
    BY <1>1, BusyTask DEF Unfinished
  <2>3. task' = [task EXCEPT ![g].left = Tail(@)]
    BY ONLY <2>1, <2>2
  <2> QED BY <1>1, <1>2, <2>3, StepForward
<1>3. CASE StepsDone(g) + 1 = Len(Script)
  <2>1. task' = [task EXCEPT ![g] = Idle]
    BY <1>1, <1>3 DEF CountProduced, TypeOK
  <2> QED BY <1>1, <1>3, <2>1 DEF TypeOK, StepsDone
<1> QED BY <1>2, <1>3

(* At the start all of the script is left. *)
LEMMA WholeScript ==
  /\ Script = SubSeq(Script, 1, Len(Script)) /\ 1 \in DOMAIN Script
  /\ Script # <<>>
<1> DEFINE s == Script
<1>1. s \in Seq(ScriptStep) /\ Len(s) \in {3, 7} /\ DOMAIN s = 1..Len(s)
  BY ScriptShape
<1> HIDE DEF s
<1>2. SubSeq(s, 1, Len(s)) = s
  BY <1>1, SubSeqFull
<1>3. s # <<>>
  BY <1>1, EmptySeq
<1> QED BY <1>1, <1>2, <1>3 DEF s

LEMMA InitTypeOK == Init => TypeOK
<1> SUFFICES ASSUME Init PROVE TypeOK
  OBVIOUS
<1>1. ConsumerTypeOK
  BY EmptySeq DEF Init, ConsumerInit, ConsumerTypeOK, HandledUpTo
<1>2. SliceTypeOK
  BY EmptySeq DEF Init, SliceTypeOK
<1>3. TaskTypeOK /\ ProducerTypeOK
  BY DEF Init, ProducerInit, TaskTypeOK, ProducerTypeOK, RecordsIn
<1> QED BY <1>1, <1>2, <1>3, TypeParts

LEMMA NextTypeOK == TypeOK /\ [Next]_vars => TypeOK'
<1> SUFFICES ASSUME TypeOK, [Next]_vars PROVE TypeOK'
  OBVIOUS
<1>0. ConsumerTypeOK /\ SliceTypeOK /\ TaskTypeOK /\ ProducerTypeOK
  BY TypeParts
<1>a. UNCHANGED <<source, consumerVars, consumed>> => ConsumerTypeOK'
  BY <1>0 DEF ConsumerTypeOK, consumerVars, HandledUpTo
<1>b. UNCHANGED recentCustomers => SliceTypeOK'
  BY <1>0 DEF SliceTypeOK
<1>c. UNCHANGED <<orderIds, task, counted, crashes>> => TaskTypeOK'
  BY <1>0 DEF TaskTypeOK
<1>d. UNCHANGED producerVars => ProducerTypeOK'
  BY <1>0 DEF ProducerTypeOK, RecordsIn, producerVars
<1> SUFFICES ConsumerTypeOK' /\ SliceTypeOK' /\ TaskTypeOK' /\ ProducerTypeOK'
  BY DEF TypeOK, ConsumerTypeOK, SliceTypeOK, TaskTypeOK, ProducerTypeOK, RecordsIn
<1>1. CASE CustomerPublished
  <2>1. PICK rec \in SourceRecord : source' = Append(source, rec)
    BY <1>1 DEF CustomerPublished
  <2>2. /\ source' \in Seq(SourceRecord) /\ Len(source') = Len(source) + 1
        /\ Len(source) \in Nat
    BY <1>0, <2>1, AppendShape DEF ConsumerTypeOK
  <2>3. position \in 0..Len(source')
    BY <1>0, <2>2 DEF ConsumerTypeOK
  <2>4. ConsumerTypeOK'
    BY <1>0, <1>1, <2>2, <2>3
       DEF CustomerPublished, ConsumerTypeOK, consumerVars, serviceVars, HandledUpTo
  <2> QED BY <1>1, <1>b, <1>c, <1>d, <2>4 DEF CustomerPublished, serviceVars
<1>2. CASE HandleRecord
  <2>1. /\ NextRecord /\ consumed' = consumed + 1
        /\ UNCHANGED <<producerVars, source, orderIds, task, counted, crashes>>
    BY <1>2 DEF HandleRecord, HandleRecordSkipping
  <2>2. ConsumerTypeOK' /\ Head(fetched) \in SourceRecord
    BY <2>1, HandleShape
  <2>3. SliceTypeOK'
    <3>1. CASE Head(fetched).value \in {Nil, Undecodable}
      BY <1>2, <1>b, <3>1 DEF HandleRecord, HandleRecordSkipping
    <3>2. CASE Head(fetched).value \notin {Nil, Undecodable}
      <4>1. Remember([id |-> Head(fetched).key, state |-> Head(fetched).value])
        BY <1>2, <3>2 DEF HandleRecord, HandleRecordSkipping
      <4>2. [id |-> Head(fetched).key, state |-> Head(fetched).value] \in CachedCustomer
        BY <2>2, <3>2 DEF SourceRecord, CachedCustomer, State
      <4> QED BY <4>1, <4>2, RememberShape
    <3> QED BY <3>1, <3>2
  <2> QED BY <1>c, <1>d, <2>1, <2>2, <2>3
<1>3. CASE Poll
  BY <1>3, <1>b, <1>c, <1>d, PollType DEF Poll, serviceVars
<1>4. CASE Commit
  <2>1. ConsumerTypeOK'
    BY <1>0, <1>4 DEF Commit, AutoCommit, ConsumerTypeOK, HandledUpTo, serviceVars
  <2> QED BY <1>4, <1>b, <1>c, <1>d, <2>1 DEF Commit, serviceVars
<1>5. ASSUME NEW g \in Goroutine, CreateOrder(g)
      PROVE  ConsumerTypeOK' /\ SliceTypeOK' /\ TaskTypeOK' /\ ProducerTypeOK'
  <2> DEFINE order == [id |-> FreshId, customer |-> Head(recentCustomers).id,
                       state |-> Head(recentCustomers).state]
  <2>1. /\ orderIds # OrderId /\ recentCustomers # <<>>
        /\ recentCustomers' = Tail(recentCustomers)
        /\ orderIds' = orderIds \cup {FreshId}
        /\ task' = [task EXCEPT ![g] = [left |-> Script, order |-> order]]
        /\ UNCHANGED <<producerVars, source, consumerVars, counted, consumed, crashes>>
    BY <1>5 DEF CreateOrder, CreateOrderLeaving
  <2>2. FreshId \in OrderId
    BY <2>1, NextId
  <2>3. order \in Order /\ SliceTypeOK'
    BY <2>1, <2>2, PopShape DEF Order
  <2>4. [left |-> Script, order |-> order] \in Unfinished
    BY <2>3, WholeScript DEF Unfinished
  <2> HIDE DEF order
  <2>5. TaskTypeOK'
    BY <1>0, <2>1, <2>2, <2>4 DEF TaskTypeOK
  <2> QED BY <1>a, <1>d, <2>1, <2>3, <2>5
<1>6. ASSUME NEW g \in Goroutine, NothingToPop(g) \/ UNCHANGED vars
      PROVE  ConsumerTypeOK' /\ SliceTypeOK' /\ TaskTypeOK' /\ ProducerTypeOK'
  BY <1>6, <1>a, <1>b, <1>c, <1>d DEF NothingToPop, vars, serviceVars
<1>7. ASSUME NEW g \in Goroutine, ProduceOrder(g)
      PROVE  ConsumerTypeOK' /\ SliceTypeOK' /\ TaskTypeOK' /\ ProducerTypeOK'
  <2>1. UNCHANGED <<source, consumerVars, recentCustomers, orderIds, counted,
                    consumed, crashes>>
    BY <1>7 DEF ProduceOrder
  <2>2. PICK t \in Partition, m \in OrderMessage :
          Produce(t, m) /\ task' \in [Goroutine -> {Idle} \cup Unfinished]
    BY <1>7, ProduceOrderShape
  <2>3. ProducerTypeOK'
    <3>1. RecordsIn(OrderMessage)'
      BY <1>0, <2>2, PipeProduce DEF ProducerTypeOK
    <3> QED BY <1>0, <2>2, <3>1 DEF ProducerTypeOK, Produce
  <2>4. TaskTypeOK'
    BY <1>0, <2>1, <2>2 DEF TaskTypeOK
  <2> QED BY <1>a, <1>b, <2>1, <2>3, <2>4
<1>8. ASSUME NEW g \in Goroutine, EncodingFails(g)
      PROVE  ConsumerTypeOK' /\ SliceTypeOK' /\ TaskTypeOK' /\ ProducerTypeOK'
  <2>1. TaskTypeOK'
    BY <1>0, <1>8 DEF EncodingFails, TaskTypeOK
  <2> QED BY <1>8, <1>a, <1>b, <1>d, <2>1 DEF EncodingFails
<1>9. ASSUME NEW g \in Goroutine, CountProduced(g)
      PROVE  ConsumerTypeOK' /\ SliceTypeOK' /\ TaskTypeOK' /\ ProducerTypeOK'
  <2>1. Todo(g).n \in {1, 2} /\ Busy(g)
    BY <1>9, CountStep DEF CountProduced
  <2>2. task' \in [Goroutine -> {Idle} \cup Unfinished]
    BY <1>9, CountProducedShape
  <2>3. TaskTypeOK'
    BY <1>0, <1>9, <2>1, <2>2 DEF CountProduced, TaskTypeOK
  <2> QED BY <1>9, <1>a, <1>b, <1>d, <2>3 DEF CountProduced
<1>10. ASSUME NEW t \in Partition, ProducerClient(t)
       PROVE  ConsumerTypeOK' /\ SliceTypeOK' /\ TaskTypeOK' /\ ProducerTypeOK'
  <2>1. CASE Deliver(t)
    <3>1. RecordsIn(OrderMessage)'
      BY <1>0, <2>1, PipeDeliver DEF ProducerTypeOK
    <3>2. ProducerTypeOK'
      BY <1>0, <2>1, <3>1 DEF ProducerTypeOK, Deliver
    <3> QED BY <1>10, <1>a, <1>b, <1>c, <3>2 DEF ProducerClient, serviceVars
  <2>2. CASE ExpireBuffered(t)
    <3>1. ProducerTypeOK'
      BY <1>0, <2>2, PipeCut DEF ProducerTypeOK
    <3> QED BY <1>10, <1>a, <1>b, <1>c, <3>1 DEF ProducerClient, serviceVars
  <2> QED BY <1>10, <2>1, <2>2 DEF ProducerClient
<1>11. CASE Crash
  <2>1. ProducerTypeOK'
    BY <1>0, <1>11, PipeCut DEF ProducerTypeOK, Crash
  <2>2. SliceTypeOK'
    BY <1>11, EmptySeq DEF Crash, SliceTypeOK
  <2>3. TaskTypeOK'
    BY <1>0, <1>11 DEF Crash, TaskTypeOK
  <2>4. ConsumerTypeOK'
    <3>1. /\ position' = committed /\ committable' = committed /\ fetched' = <<>>
          /\ committed' = committed /\ source' = source /\ consumed' = 0
      BY <1>11 DEF Crash, Resume
    <3>2. HandledUpTo' = committed
      BY <1>0, <3>1, EmptySeq DEF ConsumerTypeOK, HandledUpTo
    <3>3. committed \in Nat /\ committed \in 0..Len(source)
      BY <1>0, LenProperties DEF ConsumerTypeOK
    <3> QED BY <1>0, <3>1, <3>2, <3>3, EmptySeq DEF ConsumerTypeOK
  <2> QED BY <2>1, <2>2, <2>3, <2>4
<1>12. CASE UNCHANGED vars
  BY <1>12, <1>a, <1>b, <1>c, <1>d DEF vars, serviceVars
<1> QED BY <1>1, <1>2, <1>3, <1>4, <1>5, <1>6, <1>7, <1>8, <1>9, <1>10, <1>11, <1>12
        DEF Next, Start, Continue

(* Whatever impressions, the client, the consumer and crashes do, every    *)
(* variable of the order service keeps its type: the slice its bound, the  *)
(* offsets their order and a goroutine the rest of the script.             *)
THEOREM TypeCorrect == Spec => []TypeOK
  BY InitTypeOK, NextTypeOK, PTL DEF Spec

-----------------------------------------------------------------------------
(* What has been handed to the client for a topic: it only ever grows, by  *)
(* what is produced.                                                       *)

RightTopic == \A t \in Partition : \A m \in Handed(t) : m.topic = t

LEMMA HandedRange ==
  ASSUME ProducerTypeOK, NEW t \in Partition
  PROVE  /\ Handed(t) = Range(log[t]) \cup Range(buffered[t])
                         \cup {m \in lost : m.topic = t}
         /\ Handed(t) \subseteq OrderMessage
<1>1. Range(Pipe(t)) = Range(log[t]) \cup Range(buffered[t])
  BY PipeRange DEF ProducerTypeOK
<1>2. Range(Pipe(t)) \subseteq OrderMessage
  BY PipeShape, RangeInSet DEF ProducerTypeOK
<1> QED BY <1>1, <1>2 DEF Handed, ProducerTypeOK

LEMMA HandedProduce ==
  ASSUME TypeOK, NEW p \in Partition, NEW m \in OrderMessage, Produce(p, m)
  PROVE  \A t \in Partition :
           Handed(t)' = IF t = p THEN Handed(t) \cup {m} ELSE Handed(t)
<1> SUFFICES ASSUME NEW t \in Partition
             PROVE  Handed(t)' = IF t = p THEN Handed(t) \cup {m} ELSE Handed(t)
  OBVIOUS
<1>1. ProducerTypeOK
  BY TypeParts
<1>2. /\ Pipe(t)' = IF t = p THEN Append(Pipe(t), m) ELSE Pipe(t)
      /\ Pipe(t) \in Seq(OrderMessage)
  BY <1>1, PipeProduce, PipeShape DEF ProducerTypeOK
<1>3. Range(Append(Pipe(t), m)) = Range(Pipe(t)) \cup {m}
  BY <1>2, AppendShape
<1>4. lost' = lost
  BY DEF Produce
<1> QED BY <1>2, <1>3, <1>4 DEF Handed

LEMMA HandedKept ==
  ASSUME TypeOK, RightTopic,
         LoseBuffered \/ \E p \in Partition : Deliver(p) \/ ExpireBuffered(p)
  PROVE  \A t \in Partition : Handed(t)' = Handed(t)
<1> SUFFICES ASSUME NEW t \in Partition PROVE Handed(t)' = Handed(t)
  OBVIOUS
<1>1. ProducerTypeOK
  BY TypeParts
<1>2. ASSUME NEW p \in Partition, Deliver(p) PROVE Handed(t)' = Handed(t)
  <2>1. Pipe(t)' = Pipe(t) /\ lost' = lost
    BY <1>1, <1>2, PipeDeliver DEF ProducerTypeOK, Deliver
  <2> QED BY <2>1 DEF Handed
<1>3. CASE LoseBuffered \/ \E p \in Partition : ExpireBuffered(p)
  <2>1. ProducerTypeOK'
    BY <1>1, <1>3, PipeCut DEF ProducerTypeOK
  <2>2. Handed(t)' = Range(log'[t]) \cup Range(buffered'[t])
                     \cup {m \in lost' : m.topic = t}
    <3>1. log'[t] \in Seq(OrderMessage) /\ buffered'[t] \in Seq(OrderMessage)
      BY <2>1 DEF ProducerTypeOK, RecordsIn
    <3>2. Range(log'[t] \o buffered'[t]) = Range(log'[t]) \cup Range(buffered'[t])
      BY <3>1, RangeConcatenation
    <3> QED BY <3>2 DEF Handed, Pipe
  <2>3. /\ Handed(t) = Range(log[t]) \cup Range(buffered[t])
                       \cup {m \in lost : m.topic = t}
        /\ \A q \in Partition : \A m \in Range(buffered[q]) : m.topic = q
    BY <1>1, HandedRange DEF RightTopic
  <2>4. Range(<<>>) = {}
    BY DEF Range
  <2>5. CASE LoseBuffered
    <3>1. /\ log' = log /\ buffered'[t] = <<>>
          /\ lost' = lost \cup UNION {Range(buffered[q]) : q \in Partition}
      BY <2>5 DEF LoseBuffered
    <3>2. {m \in lost' : m.topic = t}
            = {m \in lost : m.topic = t} \cup Range(buffered[t])
      BY <2>3, <3>1
    <3> QED BY <2>2, <2>3, <2>4, <3>1, <3>2
  <2>6. ASSUME NEW p \in Partition, ExpireBuffered(p)
        PROVE  Handed(t)' = Handed(t)
    <3>1. /\ log' = log /\ lost' = lost \cup Range(buffered[p])
          /\ buffered'[t] = IF t = p THEN <<>> ELSE buffered[t]
      BY <1>1, <2>6 DEF ExpireBuffered, ProducerTypeOK, RecordsIn
    <3>2. {m \in lost' : m.topic = t}
            = {m \in lost : m.topic = t}
              \cup (IF t = p THEN Range(buffered[t]) ELSE {})
      BY <2>3, <3>1
    <3> QED BY <2>2, <2>3, <2>4, <3>1, <3>2
  <2> QED BY <1>3, <2>5, <2>6
<1> QED BY <1>2, <1>3

LEMMA HandedUnchanged ==
  ASSUME UNCHANGED producerVars
  PROVE  \A t \in Partition : Handed(t)' = Handed(t)
  BY DEF producerVars, Handed, Pipe

-----------------------------------------------------------------------------
(* FanOut. *)

SameOrder(o, q) == o.id = q.id /\ o.customer = q.customer /\ o.state = q.state

(* An id stands for one order wherever it occurs, and at most one          *)
(* goroutine works on it.                                                  *)
IdsIdentifyOrders ==
  /\ RightTopic
  /\ \A t \in Partition : \A m \in Handed(t) : m.id \in orderIds
  /\ \A t, u \in Partition : \A m \in Handed(t), n \in Handed(u) :
       m.id = n.id => SameOrder(m, n)
  /\ \A g \in Goroutine : Busy(g) => task[g].order.id \in orderIds
  /\ \A g, h \in Goroutine :
       Busy(g) /\ Busy(h) /\ task[g].order.id = task[h].order.id => g = h
  /\ \A g \in Goroutine : Busy(g) =>
       \A t \in Partition : \A m \in Handed(t) :
         m.id = task[g].order.id => SameOrder(m, task[g].order)

(* An order that is being worked on has been handed to the topics whose    *)
(* turn has passed and to no others.                                       *)
HandedAsFarAsDone ==
  \A g \in Goroutine : Busy(g) =>
    \A i \in DOMAIN Topics :
      /\ task[g].order.id \in IdsOf(Handed(Topics[i])) <=> At[i] <= StepsDone(g)
      /\ At[i] <= StepsDone(g) => Encodes(Topics[i], task[g].order)

(* An order nobody works on any more is complete.                          *)
Complete(id) ==
  \A t \in Partition : id \in IdsOf(Handed(t)) <=> ~ Inexpressible(t, id)

InSequence ==
  \A i \in 2..Len(Topics) :
    IdsOf(Handed(Topics[i])) \subseteq IdsOf(Handed(Topics[i - 1]))

FinishedAreComplete ==
  \A id \in orderIds :
    crashes = 0 => \/ \E g \in Goroutine : Busy(g) /\ task[g].order.id = id
                   \/ Complete(id)

FanOutInv ==
  IdsIdentifyOrders /\ HandedAsFarAsDone /\ InSequence /\ FinishedAreComplete

LEMMA FanOutFollows == TypeOK /\ FanOutInv => FanOut
<1> SUFFICES ASSUME TypeOK, FanOutInv PROVE FanOut
  OBVIOUS
<1>1. InSequence
  BY DEF FanOutInv
<1>2. ASSUME NEW id \in orderIds, Complete(id)
      PROVE  \A t \in Partition : (id \in IdsOf(Handed(t))) # Inexpressible(t, id)
  <2> SUFFICES ASSUME NEW t \in Partition
               PROVE  (id \in IdsOf(Handed(t))) # Inexpressible(t, id)
    OBVIOUS
  <2>1. id \in IdsOf(Handed(t)) <=> ~ Inexpressible(t, id)
    BY <1>2 DEF Complete
  <2> QED BY <2>1 DEF Inexpressible
<1>3. crashes > 0 \/ crashes = 0
  BY DEF TypeOK
<1> QED BY <1>1, <1>2, <1>3 DEF FanOut, FanOutInv, InSequence, FinishedAreComplete

(* Steps that neither hand over a message nor begin or end an order.       *)
LEMMA QuietStep ==
  ASSUME FanOutInv,
         \A t \in Partition : Handed(t)' = Handed(t),
         UNCHANGED <<orderIds, crashes>>,
         \A g \in Goroutine : Busy(g)' <=> Busy(g),
         \A g \in Goroutine : Busy(g) =>
           /\ task'[g].order = task[g].order
           /\ \A i \in DOMAIN Topics :
                At[i] <= StepsDone(g)' <=> At[i] <= StepsDone(g)
  PROVE  FanOutInv'
<1>1. \A i \in DOMAIN Topics : Topics[i] \in Partition
  BY TopicsShape
<1>2. IdsIdentifyOrders'
  BY DEF FanOutInv, IdsIdentifyOrders, RightTopic, SameOrder
<1>3. HandedAsFarAsDone'
  BY <1>1 DEF FanOutInv, HandedAsFarAsDone, IdsOf, Encodes
<1>4. InSequence'
  <2>1. \A i \in 2..Len(Topics) : i \in DOMAIN Topics /\ i - 1 \in DOMAIN Topics
    BY TopicsShape
  <2> QED BY <1>1, <2>1 DEF FanOutInv, InSequence, IdsOf
<1>5. FinishedAreComplete'
  <2>1. Topics[1] \in Partition
    BY TopicsShape
  <2>2. \A id : \A t \in Partition : Inexpressible(t, id)' <=> Inexpressible(t, id)
    BY <2>1 DEF Inexpressible, Encodes
  <2>3. \A id : Complete(id)' <=> Complete(id)
    BY <2>2 DEF Complete, IdsOf
  <2> QED BY <2>3 DEF FanOutInv, FinishedAreComplete
<1> QED BY <1>2, <1>3, <1>4, <1>5 DEF FanOutInv

(* A goroutine ends with its order complete.                               *)
LEMMA EndStep ==
  ASSUME FanOutInv, NEW g \in Goroutine, Busy(g), Complete(task[g].order.id),
         \A t \in Partition : Handed(t)' = Handed(t),
         UNCHANGED <<orderIds, crashes>>,
         task'[g] = Idle,
         \A h \in Goroutine : h # g =>
           task'[h] = task[h] /\ StepsDone(h)' = StepsDone(h)
  PROVE  FanOutInv'
<1>1. /\ \A i \in DOMAIN Topics : Topics[i] \in Partition
      /\ Topics[1] \in Partition
      /\ \A i \in 2..Len(Topics) : i \in DOMAIN Topics /\ i - 1 \in DOMAIN Topics
  BY TopicsShape
<1>2. \A h \in Goroutine : Busy(h)' <=> h # g /\ Busy(h)
  BY DEF Busy, Idle
<1>3. IdsIdentifyOrders'
  BY <1>2 DEF FanOutInv, IdsIdentifyOrders, RightTopic, SameOrder
<1>4. HandedAsFarAsDone'
  BY <1>1, <1>2 DEF FanOutInv, HandedAsFarAsDone, IdsOf, Encodes
<1>5. InSequence'
  BY <1>1 DEF FanOutInv, InSequence, IdsOf
<1>6. FinishedAreComplete'
  <2>1. \A id : \A t \in Partition : Inexpressible(t, id)' <=> Inexpressible(t, id)
    BY <1>1 DEF Inexpressible, Encodes
  <2>2. \A id : Complete(id)' <=> Complete(id)
    BY <2>1 DEF Complete, IdsOf
  <2> QED BY <1>2, <2>2 DEF FanOutInv, FinishedAreComplete
<1> QED BY <1>3, <1>4, <1>5, <1>6 DEF FanOutInv

(* A goroutine whose last produce call is behind it has completed its      *)
(* order; so has one that meets a format which cannot express it.          *)
LEMMA LastStepCompletes ==
  ASSUME TypeOK, FanOutInv, NEW g \in Goroutine, Busy(g),
         \A i \in DOMAIN Topics :
           \/ At[i] <= StepsDone(g)
           \/ ~ Encodes(Topics[i], task[g].order)
  PROVE  Complete(task[g].order.id)
<1> DEFINE order == task[g].order
<1>1. /\ \A i \in DOMAIN Topics :
           /\ order.id \in IdsOf(Handed(Topics[i])) <=> At[i] <= StepsDone(g)
           /\ At[i] <= StepsDone(g) => Encodes(Topics[i], order)
      /\ \A t \in Partition : \A m \in Handed(t) :
           m.id = order.id => SameOrder(m, order)
  BY DEF FanOutInv, HandedAsFarAsDone, IdsIdentifyOrders
<1>2. 1 \in DOMAIN Topics /\ Topics[1] \in Partition /\ Encodes(Topics[1], order)
  BY TopicsShape DEF Encodes
<1> HIDE DEF order
<1>3. \A i \in DOMAIN Topics :
        At[i] <= StepsDone(g) \/ ~ Encodes(Topics[i], order)
  BY DEF order
<1>4. PICK m1 \in Handed(Topics[1]) : m1.id = order.id
  BY <1>1, <1>2, <1>3 DEF IdsOf
<1>5. \A t \in Partition : Inexpressible(t, order.id) <=> ~ Encodes(t, order)
  BY <1>1, <1>2, <1>4 DEF Inexpressible, Encodes, SameOrder
<1>6. \A t \in Partition : order.id \in IdsOf(Handed(t)) <=> Encodes(t, order)
  <2> SUFFICES ASSUME NEW t \in Partition
               PROVE  order.id \in IdsOf(Handed(t)) <=> Encodes(t, order)
    OBVIOUS
  <2>1. PICK i \in DOMAIN Topics : t = Topics[i]
    BY TopicsShape
  <2> QED BY <1>1, <1>3, <2>1
<1> QED BY <1>5, <1>6 DEF Complete, order

(* The next message of the script is handed over.                          *)
LEMMA HandOverStep ==
  ASSUME TypeOK, FanOutInv, NEW g \in Goroutine, ProduceOrder(g)
  PROVE  FanOutInv'
<1>1. PICK i \in DOMAIN Topics :
        /\ Busy(g) /\ At[i] = StepsDone(g) + 1
        /\ Topics[i] \in Partition /\ Encodes(Topics[i], task[g].order)
        /\ Message(Topics[i], task[g].order) \in OrderMessage
        /\ Produce(Topics[i], Message(Topics[i], task[g].order))
        /\ Busy(g)' /\ task'[g].order = task[g].order
        /\ StepsDone(g)' = StepsDone(g) + 1
        /\ \A h \in Goroutine : h # g =>
             task'[h] = task[h] /\ StepsDone(h)' = StepsDone(h)
  BY ProduceOrderShape
<1> DEFINE order == task[g].order
           m == Message(Topics[i], order)
<1>2. \A t \in Partition :
        Handed(t)' = IF t = Topics[i] THEN Handed(t) \cup {m} ELSE Handed(t)
  BY <1>1, HandedProduce
<1>3. /\ m.topic = Topics[i] /\ m.id = order.id /\ SameOrder(m, order)
      /\ order.id \in orderIds
  BY <1>1, BusyTask, MessageShape DEF FanOutInv, IdsIdentifyOrders, SameOrder
<1>4. UNCHANGED <<orderIds, crashes>> /\ \A h \in Goroutine : Busy(h)' <=> Busy(h)
  BY <1>1 DEF ProduceOrder, Busy
<1>5. \A h \in Goroutine : task'[h].order = task[h].order
  BY <1>1
<1>6. /\ \A h \in Goroutine : Busy(h) /\ task[h].order.id = order.id => h = g
      /\ \A t \in Partition : \A n \in Handed(t) : n.id = order.id => SameOrder(n, order)
  BY <1>1 DEF FanOutInv, IdsIdentifyOrders
<1>7. /\ \A t \in Partition : \A id : id # order.id =>
           (id \in IdsOf(Handed(t)') <=> id \in IdsOf(Handed(t)))
      /\ \A t \in Partition :
           order.id \in IdsOf(Handed(t)') <=>
             t = Topics[i] \/ order.id \in IdsOf(Handed(t))
  BY <1>2, <1>3 DEF IdsOf
<1> HIDE DEF m, order
<1>8. IdsIdentifyOrders'
  <2>1. RightTopic'
    BY <1>2, <1>3 DEF FanOutInv, IdsIdentifyOrders, RightTopic
  <2>2. \A t \in Partition : \A n \in Handed(t)' : n.id \in orderIds'
    BY <1>2, <1>3, <1>4 DEF FanOutInv, IdsIdentifyOrders
  <2>3. \A t, u \in Partition : \A n \in Handed(t)', q \in Handed(u)' :
          n.id = q.id => SameOrder(n, q)
    BY <1>2, <1>3, <1>6 DEF FanOutInv, IdsIdentifyOrders, SameOrder
  <2>4. \A h \in Goroutine : Busy(h)' =>
          \A t \in Partition : \A n \in Handed(t)' :
            n.id = task'[h].order.id => SameOrder(n, task'[h].order)
    BY <1>2, <1>3, <1>4, <1>5, <1>6 DEF FanOutInv, IdsIdentifyOrders, order
  <2> QED BY <1>4, <1>5, <2>1, <2>2, <2>3, <2>4
          DEF FanOutInv, IdsIdentifyOrders, SameOrder
<1>9. HandedAsFarAsDone'
  <2> SUFFICES ASSUME NEW h \in Goroutine, Busy(h), NEW j \in DOMAIN Topics
               PROVE  /\ task[h].order.id \in IdsOf(Handed(Topics[j])')
                           <=> At[j] <= StepsDone(h)'
                      /\ At[j] <= StepsDone(h)' => Encodes(Topics[j], task[h].order)
    BY <1>4, <1>5 DEF HandedAsFarAsDone, IdsOf, Encodes
  <2>1. /\ Topics[j] \in Partition
        /\ task[h].order.id \in IdsOf(Handed(Topics[j])) <=> At[j] <= StepsDone(h)
        /\ At[j] <= StepsDone(h) => Encodes(Topics[j], task[h].order)
    BY TopicsShape DEF FanOutInv, HandedAsFarAsDone
  <2>2. CASE h # g
    BY <1>1, <1>6, <1>7, <2>1, <2>2
  <2>3. CASE h = g
    <3>1. /\ At[j] \in Nat /\ StepsDone(g) \in Nat
          /\ At[j] = At[i] => j = i
          /\ Topics[j] = Topics[i] => j = i
      <4>1. StepsDone(g) \in Nat
        BY <1>1, BusyTask
      <4>2. At[j] \in 1..6 /\ At[i] \in 1..6 /\ (i < j <=> At[i] < At[j])
            /\ (j < i <=> At[j] < At[i])
        BY ScriptShape
      <4>3. i \in Nat /\ j \in Nat /\ (Topics[j] = Topics[i] => j = i)
        BY TopicsShape
      <4> QED BY ONLY <4>1, <4>2, <4>3
    <3>2. At[j] <= StepsDone(g)' <=> j = i \/ At[j] <= StepsDone(g)
      BY <1>1, <3>1
    <3> QED BY <1>1, <1>7, <2>1, <2>3, <3>1, <3>2 DEF order
  <2> QED BY <2>2, <2>3
<1>10. InSequence'
  <2> SUFFICES ASSUME NEW j \in 2..Len(Topics), NEW id \in IdsOf(Handed(Topics[j])')
               PROVE  id \in IdsOf(Handed(Topics[j - 1])')
    BY DEF InSequence, IdsOf
  <2>1. /\ j \in DOMAIN Topics /\ j - 1 \in DOMAIN Topics
        /\ Topics[j] \in Partition /\ Topics[j - 1] \in Partition
        /\ IdsOf(Handed(Topics[j])) \subseteq IdsOf(Handed(Topics[j - 1]))
    BY TopicsShape DEF FanOutInv, InSequence
  <2>2. CASE id \in IdsOf(Handed(Topics[j]))
    BY <1>7, <2>1, <2>2
  <2>3. CASE id = order.id /\ Topics[j] = Topics[i]
    <3>1. j = i
      BY <2>1, <2>3, TopicsShape
    <3>2. At[j - 1] <= StepsDone(g)
      <4>1. /\ At[j - 1] < At[j] /\ At[j - 1] \in Nat /\ At[j] \in Nat
            /\ StepsDone(g) \in Nat
        BY <1>1, <2>1, BusyTask, ScriptShape
      <4> QED BY <1>1, <3>1, <4>1
    <3>3. order.id \in IdsOf(Handed(Topics[j - 1]))
      BY <1>1, <2>1, <3>2 DEF FanOutInv, HandedAsFarAsDone, order
    <3> QED BY <1>7, <2>1, <2>3, <3>3
  <2> QED BY <1>7, <2>1, <2>2, <2>3
<1>11. FinishedAreComplete'
  <2> SUFFICES ASSUME NEW id \in orderIds, crashes = 0,
                      ~ \E h \in Goroutine : Busy(h) /\ task[h].order.id = id
               PROVE  Complete(id)'
    BY <1>4, <1>5 DEF FinishedAreComplete
  <2>1. id # order.id /\ Complete(id)
    BY <1>1 DEF FanOutInv, FinishedAreComplete, order
  <2>2. \A t \in Partition : Inexpressible(t, id)' <=> Inexpressible(t, id)
    BY <1>2, <1>3, <2>1, TopicsShape DEF Inexpressible, Encodes
  <2> QED BY <1>7, <2>1, <2>2 DEF Complete, IdsOf
<1> QED BY <1>8, <1>9, <1>10, <1>11 DEF FanOutInv

(* An impression begins an order under an id nothing mentions.             *)
LEMMA BeginStep ==
  ASSUME TypeOK, FanOutInv, NEW g \in Goroutine, CreateOrder(g)
  PROVE  FanOutInv'
<1>1. /\ orderIds' = orderIds \cup {FreshId} /\ FreshId \notin orderIds
      /\ crashes' = crashes /\ task[g] = Idle
  BY NextId DEF CreateOrder, CreateOrderLeaving
<1>2. /\ task'[g].left = Script /\ task'[g].order.id = FreshId
      /\ \A h \in Goroutine : h # g => task'[h] = task[h]
  BY DEF CreateOrder, CreateOrderLeaving, TypeOK
<1>3. /\ ~ Busy(g) /\ Busy(g)' /\ StepsDone(g)' = 0
      /\ \A h \in Goroutine : h # g =>
           (Busy(h)' <=> Busy(h)) /\ StepsDone(h)' = StepsDone(h)
  <2>1. ~ Busy(g) /\ Busy(g)'
    BY <1>1, <1>2, WholeScript DEF Busy, Idle
  <2>2. StepsDone(g)' = 0
    <3>1. StepsDone(g)' = Len(Script) - Len(Script)
      BY <1>2 DEF StepsDone
    <3>2. Len(Script) \in {3, 7}
      BY ScriptShape
    <3> QED BY ONLY <3>1, <3>2
  <2>3. \A h \in Goroutine : h # g =>
          (Busy(h)' <=> Busy(h)) /\ StepsDone(h)' = StepsDone(h)
    BY <1>2 DEF Busy, StepsDone
  <2> QED BY <2>1, <2>2, <2>3
<1>4. \A t \in Partition : Handed(t)' = Handed(t)
  BY HandedUnchanged DEF CreateOrder, CreateOrderLeaving
<1>5. /\ \A i \in DOMAIN Topics : Topics[i] \in Partition
      /\ Topics[1] \in Partition
      /\ \A i \in 2..Len(Topics) : i \in DOMAIN Topics /\ i - 1 \in DOMAIN Topics
  BY TopicsShape
<1>6. \A t \in Partition : \A m \in Handed(t) : m.id # FreshId
  BY <1>1 DEF FanOutInv, IdsIdentifyOrders
<1>7. IdsIdentifyOrders'
  BY <1>1, <1>2, <1>3, <1>4, <1>6
     DEF FanOutInv, IdsIdentifyOrders, RightTopic, SameOrder
<1>8. HandedAsFarAsDone'
  <2> SUFFICES ASSUME NEW h \in Goroutine, Busy(h)', NEW i \in DOMAIN Topics
               PROVE  /\ task'[h].order.id \in IdsOf(Handed(Topics[i])')
                           <=> At[i] <= StepsDone(h)'
                      /\ At[i] <= StepsDone(h)' => Encodes(Topics[i], task'[h].order)
    BY DEF HandedAsFarAsDone, IdsOf, Encodes
  <2>1. CASE h = g
    <3>1. FreshId \notin IdsOf(Handed(Topics[i])')
      BY <1>4, <1>5, <1>6 DEF IdsOf
    <3>2. ~ (At[i] <= 0)
      BY ScriptShape
    <3> QED BY <1>2, <1>3, <2>1, <3>1, <3>2
  <2>2. CASE h # g
    BY <1>2, <1>3, <1>4, <1>5, <2>2 DEF FanOutInv, HandedAsFarAsDone
  <2> QED BY <2>1, <2>2
<1>9. InSequence'
  BY <1>4, <1>5 DEF FanOutInv, InSequence, IdsOf
<1>10. FinishedAreComplete'
  <2>1. \A id : \A t \in Partition : Inexpressible(t, id)' <=> Inexpressible(t, id)
    BY <1>4, <1>5 DEF Inexpressible, Encodes
  <2>2. \A id : Complete(id)' <=> Complete(id)
    BY <1>4, <2>1 DEF Complete, IdsOf
  <2> QED BY <1>1, <1>2, <1>3, <2>2 DEF FanOutInv, FinishedAreComplete
<1> QED BY <1>7, <1>8, <1>9, <1>10 DEF FanOutInv

(* A restart finds no goroutine and leaves the topics as they are.         *)
LEMMA CrashStep ==
  ASSUME TypeOK, FanOutInv, Crash
  PROVE  FanOutInv'
<1>1. /\ \A g \in Goroutine : ~ Busy(g)'
      /\ orderIds' = orderIds /\ crashes' # 0
  BY DEF Crash, Busy, Idle, TypeOK
<1>2. \A t \in Partition : Handed(t)' = Handed(t)
  BY HandedKept DEF Crash, FanOutInv, IdsIdentifyOrders
<1>3. /\ \A i \in DOMAIN Topics : Topics[i] \in Partition
      /\ \A i \in 2..Len(Topics) : i \in DOMAIN Topics /\ i - 1 \in DOMAIN Topics
  BY TopicsShape
<1>4. IdsIdentifyOrders'
  BY <1>1, <1>2 DEF FanOutInv, IdsIdentifyOrders, RightTopic, SameOrder
<1>5. InSequence'
  BY <1>2, <1>3 DEF FanOutInv, InSequence, IdsOf
<1> QED BY <1>1, <1>4, <1>5 DEF FanOutInv, HandedAsFarAsDone, FinishedAreComplete

LEMMA InitFanOut == Init => FanOutInv
<1> SUFFICES ASSUME Init PROVE FanOutInv
  OBVIOUS
<1>1. \A t \in Partition : Handed(t) = {}
  BY DEF Init, ProducerInit, Handed, Pipe, Range
<1>2. \A g \in Goroutine : ~ Busy(g)
  BY DEF Init, Busy, Idle
<1>3. orderIds = {}
  BY DEF Init
<1>4. \A i \in 2..Len(Topics) : i \in DOMAIN Topics /\ Topics[i] \in Partition
  BY TopicsShape
<1> QED BY <1>1, <1>2, <1>3, <1>4
        DEF FanOutInv, IdsIdentifyOrders, RightTopic, HandedAsFarAsDone,
            InSequence, FinishedAreComplete, IdsOf

LEMMA NextFanOut == TypeOK /\ FanOutInv /\ [Next]_vars => FanOutInv'
<1> SUFFICES ASSUME TypeOK, FanOutInv, [Next]_vars PROVE FanOutInv'
  OBVIOUS
<1>1. ASSUME UNCHANGED <<producerVars, orderIds, crashes, task>>
      PROVE  FanOutInv'
  BY <1>1, QuietStep, HandedUnchanged DEF Busy, StepsDone
<1>2. CASE CustomerPublished \/ HandleRecord \/ Poll \/ Commit
  BY <1>1, <1>2 DEF CustomerPublished, HandleRecord, HandleRecordSkipping, Poll,
                    Commit, serviceVars
<1>3. ASSUME NEW g \in Goroutine, NothingToPop(g) PROVE FanOutInv'
  BY <1>1, <1>3 DEF NothingToPop, vars, serviceVars
<1>4. ASSUME NEW g \in Goroutine, EncodingFails(g) PROVE FanOutInv'
  <2>1. PICK i \in DOMAIN Topics :
          At[i] = StepsDone(g) + 1 /\ Todo(g).topic = Topics[i]
    BY <1>4, ProduceStep DEF EncodingFails
  <2>2. ~ Encodes(Topics[i], task[g].order) /\ Busy(g)
    BY <1>4, <2>1 DEF EncodingFails
  <2>3. i = 4 /\ \A j \in DOMAIN Topics : j \in 1..4
    BY <2>2, TopicsShape DEF Encodes
  <2>4. \A j \in DOMAIN Topics : j = i \/ At[j] <= StepsDone(g)
    <3> SUFFICES ASSUME NEW j \in DOMAIN Topics, j # i PROVE At[j] <= StepsDone(g)
      OBVIOUS
    <3>1. At[j] \in 1..6 /\ (j < i <=> At[j] < At[i])
      BY ScriptShape
    <3>2. StepsDone(g) \in Nat
      BY <2>2, BusyTask
    <3> QED BY <2>1, <2>3, <3>1, <3>2
  <2>5. Complete(task[g].order.id)
    BY <2>2, <2>4, LastStepCompletes
  <2>6. /\ task'[g] = Idle /\ UNCHANGED <<producerVars, orderIds, crashes>>
        /\ \A h \in Goroutine : h # g =>
             task'[h] = task[h] /\ StepsDone(h)' = StepsDone(h)
    BY <1>4 DEF EncodingFails, TypeOK, StepsDone
  <2> QED BY <2>2, <2>5, <2>6, EndStep, HandedUnchanged
<1>5. ASSUME NEW g \in Goroutine, CountProduced(g) PROVE FanOutInv'
  <2>1. UNCHANGED <<producerVars, orderIds, crashes>>
    BY <1>5 DEF CountProduced
  <2>2. /\ Busy(g) /\ \A i \in DOMAIN Topics : At[i] # StepsDone(g) + 1
        /\ \A h \in Goroutine : h # g =>
             task'[h] = task[h] /\ StepsDone(h)' = StepsDone(h)
    BY <1>5, CountProducedShape
  <2>3. StepsDone(g) \in Nat /\ \A i \in DOMAIN Topics : At[i] \in Nat
    BY <2>2, BusyTask, ScriptShape
  <2>4. CASE task'[g] = Idle /\ StepsDone(g) + 1 = Len(Script)
    <3>1. \A i \in DOMAIN Topics : At[i] <= StepsDone(g)
      <4>1. \A i \in DOMAIN Topics : At[i] \in 1..Len(Script)
        BY ScriptShape
      <4> QED BY ONLY <2>2, <2>3, <2>4, <4>1
    <3> QED BY <2>1, <2>2, <2>4, <3>1, LastStepCompletes, EndStep, HandedUnchanged
  <2>5. CASE /\ Busy(g)' /\ task'[g].order = task[g].order
             /\ StepsDone(g)' = StepsDone(g) + 1
    <3>1. \A i \in DOMAIN Topics : At[i] <= StepsDone(g)' <=> At[i] <= StepsDone(g)
      BY <2>2, <2>3, <2>5
    <3>2. \A h \in Goroutine : Busy(h)' <=> Busy(h)
      BY <2>2, <2>5 DEF Busy
    <3>3. \A h \in Goroutine : task'[h].order = task[h].order
      BY <2>2, <2>5
    <3>4. \A t \in Partition : Handed(t)' = Handed(t)
      BY <2>1, HandedUnchanged
    <3>5. \A h \in Goroutine : \A i \in DOMAIN Topics :
            At[i] <= StepsDone(h)' <=> At[i] <= StepsDone(h)
      BY <2>2, <3>1
    <3> QED BY <2>1, <3>2, <3>3, <3>4, <3>5, QuietStep
  <2> QED BY <1>5, <2>4, <2>5, CountProducedShape
<1>6. ASSUME NEW t \in Partition, ProducerClient(t) PROVE FanOutInv'
  <2>1. \A q \in Partition : Handed(q)' = Handed(q)
    BY <1>6, HandedKept DEF ProducerClient, FanOutInv, IdsIdentifyOrders
  <2>2. UNCHANGED <<orderIds, crashes, task>>
    BY <1>6 DEF ProducerClient, serviceVars
  <2> QED BY <2>1, <2>2, QuietStep DEF Busy, StepsDone
<1>7. CASE UNCHANGED vars
  BY <1>1, <1>7 DEF vars, serviceVars
<1> QED BY <1>2, <1>3, <1>4, <1>5, <1>6, <1>7, HandOverStep, BeginStep, CrashStep
        DEF Next, Start, Continue

(* The formats of an order are produced in sequence and, without a crash,  *)
(* none is left out, for any number of concurrent impressions, either set  *)
(* of topics, any losses of the client and any order an Avro schema cannot *)
(* express (order_service.go:381-418).                                     *)
THEOREM FanOutInvariant == Spec => []FanOut
  BY InitTypeOK, NextTypeOK, InitFanOut, NextFanOut, FanOutFollows, PTL DEF Spec

-----------------------------------------------------------------------------
(* A customer record leads to at most one order per process lifetime.      *)

FetchedFromSource ==
  \A i \in DOMAIN fetched : fetched[i] = source[HandledUpTo + i]

ClaimsDiffer ==
  \A i, j \in DOMAIN source : SameClaim(source[i], source[j]) => i = j

CustomerRecord(c, state) == [key |-> c, value |-> state]

(* Start has come to the record in this lifetime; it is in the topic.      *)
Handled(c, state) ==
  \E n \in 1..HandledUpTo : source[n] = CustomerRecord(c, state)
Published(c, state) ==
  \E n \in DOMAIN source : source[n] = CustomerRecord(c, state)

WorksOn(g, c, state) ==
  Busy(g) /\ task[g].order.customer = c /\ task[g].order.state = state

InSlice(i, c, state) ==
  recentCustomers[i].id = c /\ recentCustomers[i].state = state

(* What Start has read is held once, by the slice or by one goroutine.     *)
HeldOnce ==
  \A c \in Customer, state \in State :
    /\ \A i, j \in DOMAIN recentCustomers :
         InSlice(i, c, state) /\ InSlice(j, c, state) => i = j
    /\ \A g, h \in Goroutine :
         WorksOn(g, c, state) /\ WorksOn(h, c, state) => g = h
    /\ \A i \in DOMAIN recentCustomers, g \in Goroutine :
         ~ (InSlice(i, c, state) /\ WorksOn(g, c, state))
    /\ \/ \E i \in DOMAIN recentCustomers : InSlice(i, c, state)
       \/ \E g \in Goroutine : WorksOn(g, c, state)
       => Handled(c, state)

OrdersIn(t, c, state) ==
  {m \in Handed(t) : m.customer = c /\ m.state = state}

(* Topic t may still get an order for the record in this lifetime.         *)
Due(t, c, state) ==
  \/ ~ Handled(c, state)
  \/ \E i \in DOMAIN recentCustomers : InSlice(i, c, state)
  \/ \E g \in Goroutine :
       WorksOn(g, c, state) /\ task[g].order.id \notin IdsOf(Handed(t))

(* As long as an order is due, the topic got at most one per crash.        *)
OrdersWithinLifetimes ==
  \A t \in Partition, c \in Customer, state \in State :
    /\ IsFiniteSet(OrdersIn(t, c, state))
    /\ Cardinality(OrdersIn(t, c, state)) <= 1 + crashes
    /\ Due(t, c, state) => Cardinality(OrdersIn(t, c, state)) <= crashes

CustomersArePublished ==
  \A t \in Partition : \A m \in Handed(t) : Published(m.customer, m.state)

LifetimeInv ==
  /\ FetchedFromSource /\ ClaimsDiffer /\ HeldOnce
  /\ OrdersWithinLifetimes /\ CustomersArePublished

LEMMA LifetimesFollow == TypeOK /\ LifetimeInv => OneOrderPerLifetime
<1>1. Topics[1] \in Partition
  BY TopicsShape
<1> QED BY <1>1 DEF OneOrderPerLifetime, OrdersFor, LifetimeInv,
                    OrdersWithinLifetimes, OrdersIn

LEMMA HandledIsPublished ==
  ASSUME TypeOK, NEW c, NEW state, Handled(c, state)
  PROVE  Published(c, state)
<1>1. /\ position \in 0..Len(source) /\ Len(source) \in Nat
      /\ DOMAIN source = 1..Len(source) /\ Len(fetched) \in Nat
      /\ HandledUpTo = position - Len(fetched)
  BY LenProperties DEF TypeOK, HandledUpTo
<1>2. 1..HandledUpTo \subseteq DOMAIN source
  BY ONLY <1>1
<1> QED BY <1>2 DEF Handled, Published

(* Steps that read no record, hand over no message and begin no order.     *)
LEMMA QuietLifetime ==
  ASSUME TypeOK, LifetimeInv,
         \A t \in Partition : Handed(t)' = Handed(t),
         UNCHANGED <<source, crashes, recentCustomers>>,
         HandledUpTo' = HandledUpTo, FetchedFromSource',
         \A g \in Goroutine : Busy(g)' => Busy(g) /\ task'[g].order = task[g].order
  PROVE  LifetimeInv'
<1>1. /\ \A c, state : Handled(c, state)' <=> Handled(c, state)
      /\ \A c, state : Published(c, state)' <=> Published(c, state)
  BY DEF Handled, Published, CustomerRecord
<1>2. \A g \in Goroutine : \A c, state :
        WorksOn(g, c, state)' => WorksOn(g, c, state)
  BY DEF WorksOn
<1>3. ClaimsDiffer'
  BY DEF LifetimeInv, ClaimsDiffer, SameClaim
<1>4. HeldOnce'
  BY <1>1, <1>2 DEF LifetimeInv, HeldOnce, InSlice, State
<1>5. \A t \in Partition : \A c, state :
        /\ OrdersIn(t, c, state)' = OrdersIn(t, c, state)
        /\ Due(t, c, state)' => Due(t, c, state)
  BY <1>1, <1>2 DEF OrdersIn, Due, IdsOf, WorksOn, InSlice
<1>6. OrdersWithinLifetimes'
  BY <1>5 DEF LifetimeInv, OrdersWithinLifetimes, State
<1>7. CustomersArePublished'
  BY <1>1 DEF LifetimeInv, CustomersArePublished
<1> QED BY <1>3, <1>4, <1>6, <1>7 DEF LifetimeInv

(* The topic grows behind what Start has come to.                          *)
LEMMA PublishKeepsLifetimes ==
  ASSUME TypeOK, LifetimeInv, CustomerPublished
  PROVE  LifetimeInv'
<1>1. PICK rec \in SourceRecord :
        /\ \A i \in DOMAIN source : ~ SameClaim(source[i], rec)
        /\ source' = Append(source, rec)
  BY DEF CustomerPublished
<1>2. /\ Len(source) \in Nat /\ DOMAIN source = 1..Len(source)
      /\ DOMAIN source' = 1..(Len(source) + 1)
      /\ \A i \in 1..Len(source) : source'[i] = source[i]
      /\ source'[Len(source) + 1] = rec
  BY <1>1, AppendShape DEF TypeOK
<1>3. /\ HandledUpTo' = HandledUpTo
      /\ UNCHANGED <<fetched, recentCustomers, task, crashes>>
      /\ \A t \in Partition : Handed(t)' = Handed(t)
  BY HandedUnchanged DEF CustomerPublished, consumerVars, serviceVars, HandledUpTo
<1>4. /\ HandledUpTo + Len(fetched) = position /\ position \in 0..Len(source)
      /\ HandledUpTo \in Nat /\ HandledUpTo <= Len(source)
      /\ DOMAIN fetched = 1..Len(fetched) /\ Len(fetched) \in Nat
  <2>1. /\ position \in 0..Len(source) /\ consumed \in 0..HandledUpTo
        /\ DOMAIN fetched = 1..Len(fetched) /\ Len(fetched) \in Nat
        /\ HandledUpTo = position - Len(fetched)
    BY LenProperties DEF TypeOK, HandledUpTo
  <2> QED BY ONLY <1>2, <2>1
<1>5. /\ \A n \in 1..HandledUpTo : n \in 1..Len(source)
      /\ \A i \in DOMAIN fetched : HandledUpTo + i \in 1..Len(source)
  BY ONLY <1>2, <1>4
<1>6. /\ \A c, state : Handled(c, state)' <=> Handled(c, state)
      /\ \A c, state : Published(c, state) => Published(c, state)'
  BY <1>2, <1>3, <1>5 DEF Handled, Published, CustomerRecord
<1>7. FetchedFromSource'
  BY <1>2, <1>3, <1>5 DEF LifetimeInv, FetchedFromSource
<1>8. ClaimsDiffer'
  <2>1. \A a, b : SameClaim(a, b) => SameClaim(b, a)
    BY DEF SameClaim
  <2> QED BY <1>1, <1>2, <2>1 DEF LifetimeInv, ClaimsDiffer
<1>9. HeldOnce'
  BY <1>3, <1>6 DEF LifetimeInv, HeldOnce, WorksOn, Busy, InSlice, State
<1>10. OrdersWithinLifetimes'
  <2>1. \A t \in Partition : \A c, state :
          /\ OrdersIn(t, c, state)' = OrdersIn(t, c, state)
          /\ Due(t, c, state)' => Due(t, c, state)
    BY <1>3, <1>6 DEF OrdersIn, Due, IdsOf, WorksOn, Busy, InSlice
  <2> QED BY <1>3, <2>1 DEF LifetimeInv, OrdersWithinLifetimes, State
<1>11. CustomersArePublished'
  BY <1>3, <1>6 DEF LifetimeInv, CustomersArePublished
<1> QED BY <1>7, <1>8, <1>9, <1>10, <1>11 DEF LifetimeInv

(* A record Start comes to was due, and is then held at most once.         *)
LEMMA HandleKeepsLifetimes ==
  ASSUME TypeOK, LifetimeInv, HandleRecord
  PROVE  LifetimeInv'
<1> DEFINE rec == Head(fetched)
           H == HandledUpTo
<1>1. /\ NextRecord /\ consumed' = consumed + 1 /\ UNCHANGED source
      /\ UNCHANGED <<producerVars, task, crashes>>
      /\ \/ rec.value \in {Nil, Undecodable} /\ UNCHANGED recentCustomers
         \/ Remember([id |-> rec.key, state |-> rec.value])
            /\ rec.value \notin {Nil, Undecodable}
  BY DEF HandleRecord, HandleRecordSkipping
<1>2. /\ H \in Nat /\ HandledUpTo' = H + 1
      /\ H + 1 \in DOMAIN source
      /\ 1 \in DOMAIN fetched /\ rec = fetched[1]
      /\ rec \in SourceRecord
      /\ \A i \in DOMAIN fetched' :
           i \in Nat /\ i + 1 \in DOMAIN fetched /\ fetched'[i] = fetched[i + 1]
  BY <1>1, HandleShape
<1>3. /\ rec = source[H + 1]
      /\ \A i \in DOMAIN fetched : fetched[i] = source[H + i]
  BY <1>2 DEF LifetimeInv, FetchedFromSource
<1> HIDE DEF rec, H
<1>4. FetchedFromSource'
  <2> SUFFICES ASSUME NEW i \in DOMAIN fetched'
               PROVE  fetched'[i] = source[HandledUpTo' + i]
    BY <1>1 DEF FetchedFromSource
  <2>1. H + (i + 1) = (H + 1) + i
    BY <1>2
  <2> QED BY <1>2, <1>3, <2>1
<1>5. ClaimsDiffer'
  BY <1>1 DEF LifetimeInv, ClaimsDiffer, SameClaim
<1>6. \A c, state : Handled(c, state)' <=>
        Handled(c, state) \/ rec = CustomerRecord(c, state)
  <2>1. \A n : n \in 1..(H + 1) <=> n \in 1..H \/ n = H + 1
    BY <1>2
  <2> QED BY <1>1, <1>2, <1>3, <2>1 DEF Handled, CustomerRecord, H
<1>7. \A c, state : rec = CustomerRecord(c, state) => ~ Handled(c, state)
  <2> SUFFICES ASSUME NEW n \in 1..H, source[n] = rec PROVE FALSE
    BY DEF Handled, H
  <2>1. SameClaim(source[n], source[H + 1])
    BY <1>3 DEF SameClaim
  <2>2. n \in DOMAIN source
    <3>1. DOMAIN source = 1..Len(source) /\ Len(source) \in Nat
      BY LenProperties DEF TypeOK
    <3> QED BY <1>2, <3>1
  <2>3. n = H + 1
    BY <1>2, <2>1, <2>2 DEF LifetimeInv, ClaimsDiffer
  <2> QED BY <1>2, <2>3
<1>8. rec = CustomerRecord(rec.key, rec.value)
  BY <1>2 DEF SourceRecord, CustomerRecord
<1>9. \A i \in DOMAIN recentCustomers' : \A c, state : InSlice(i, c, state)' =>
        \/ i \in DOMAIN recentCustomers /\ InSlice(i, c, state)
        \/ rec = CustomerRecord(c, state) /\ i = Len(recentCustomers) + 1
  <2>1. CASE UNCHANGED recentCustomers
    BY <2>1 DEF InSlice
  <2>2. CASE /\ Remember([id |-> rec.key, state |-> rec.value])
             /\ rec.value \notin {Nil, Undecodable}
    <3>1. [id |-> rec.key, state |-> rec.value] \in CachedCustomer
      BY <1>2, <2>2 DEF SourceRecord, CachedCustomer, State
    <3>2. \A i \in DOMAIN recentCustomers' :
            \/ i \in DOMAIN recentCustomers /\ recentCustomers'[i] = recentCustomers[i]
            \/ /\ recentCustomers'[i] = [id |-> rec.key, state |-> rec.value]
               /\ i = Len(recentCustomers) + 1
      BY <2>2, <3>1, RememberShape
    <3> QED BY <1>8, <3>2 DEF InSlice
  <2> QED BY <1>1, <2>1, <2>2
<1>10. \A g \in Goroutine : \A c, state :
         WorksOn(g, c, state)' <=> WorksOn(g, c, state)
  BY <1>1 DEF WorksOn, Busy
<1>11. HeldOnce'
  <2> SUFFICES ASSUME NEW c \in Customer, NEW state \in State
      PROVE /\ \A i, j \in DOMAIN recentCustomers' :
                 InSlice(i, c, state)' /\ InSlice(j, c, state)' => i = j
            /\ \A g, h \in Goroutine :
                 WorksOn(g, c, state)' /\ WorksOn(h, c, state)' => g = h
            /\ \A i \in DOMAIN recentCustomers', g \in Goroutine :
                 ~ (InSlice(i, c, state)' /\ WorksOn(g, c, state)')
            /\ \/ \E i \in DOMAIN recentCustomers' : InSlice(i, c, state)'
               \/ \E g \in Goroutine : WorksOn(g, c, state)'
               => Handled(c, state)'
    BY DEF HeldOnce, State
  <2>1. /\ \A i, j \in DOMAIN recentCustomers :
             InSlice(i, c, state) /\ InSlice(j, c, state) => i = j
        /\ \A g, h \in Goroutine :
             WorksOn(g, c, state) /\ WorksOn(h, c, state) => g = h
        /\ \A i \in DOMAIN recentCustomers, g \in Goroutine :
             ~ (InSlice(i, c, state) /\ WorksOn(g, c, state))
        /\ \/ \E i \in DOMAIN recentCustomers : InSlice(i, c, state)
           \/ \E g \in Goroutine : WorksOn(g, c, state)
           => Handled(c, state)
    BY DEF LifetimeInv, HeldOnce
  <2> QED BY <1>6, <1>7, <1>9, <1>10, <2>1
<1>12. \A t \in Partition : Handed(t)' = Handed(t)
  BY <1>1, HandedUnchanged
<1>13. OrdersWithinLifetimes'
  <2>1. \A t \in Partition : \A c, state :
          /\ OrdersIn(t, c, state)' = OrdersIn(t, c, state)
          /\ Due(t, c, state)' => Due(t, c, state)
    BY <1>1, <1>6, <1>7, <1>8, <1>9, <1>10, <1>12 DEF OrdersIn, Due, IdsOf
  <2> QED BY <1>1, <2>1 DEF LifetimeInv, OrdersWithinLifetimes, State
<1>14. CustomersArePublished'
  <2>1. \A c, state : Published(c, state)' <=> Published(c, state)
    BY <1>1 DEF Published, CustomerRecord
  <2> QED BY <1>12, <2>1 DEF LifetimeInv, CustomersArePublished
<1> QED BY <1>4, <1>5, <1>11, <1>13, <1>14 DEF LifetimeInv

(* The first customer of the slice becomes the goroutine's.                *)
LEMMA BeginKeepsLifetimes ==
  ASSUME TypeOK, FanOutInv, LifetimeInv, NEW g \in Goroutine, CreateOrder(g)
  PROVE  LifetimeInv'
<1> DEFINE head == recentCustomers[1]
<1>1. /\ recentCustomers # <<>> /\ recentCustomers' = Tail(recentCustomers)
      /\ orderIds # OrderId /\ ~ Busy(g)
      /\ UNCHANGED <<producerVars, source, consumerVars, crashes>>
  BY DEF CreateOrder, CreateOrderLeaving, Busy, Idle
<1>2. /\ 1 \in DOMAIN recentCustomers
      /\ Head(recentCustomers) = head
      /\ \A i \in DOMAIN recentCustomers' :
           /\ i \in Nat /\ i + 1 \in DOMAIN recentCustomers /\ i + 1 # 1
           /\ \A c, state : InSlice(i, c, state)' <=> InSlice(i + 1, c, state)
      /\ InSlice(1, head.id, head.state)
  BY <1>1, PopShape DEF InSlice
<1>3. /\ task'[g].order.customer = head.id /\ task'[g].order.state = head.state
      /\ task'[g].order.id = FreshId
      /\ \A h \in Goroutine : h # g => task'[h] = task[h]
  BY <1>2 DEF CreateOrder, CreateOrderLeaving, TypeOK
<1>4. \A t \in Partition : FreshId \notin IdsOf(Handed(t))
  BY <1>1, NextId DEF FanOutInv, IdsIdentifyOrders, IdsOf
<1>5. /\ \A t \in Partition : Handed(t)' = Handed(t)
      /\ \A c, state : Handled(c, state)' <=> Handled(c, state)
      /\ \A c, state : Published(c, state)' <=> Published(c, state)
  BY <1>1, HandedUnchanged DEF consumerVars, Handled, Published, HandledUpTo,
                               CustomerRecord
<1> HIDE DEF head
<1>6. FetchedFromSource' /\ ClaimsDiffer' /\ CustomersArePublished'
  BY <1>1, <1>5 DEF LifetimeInv, FetchedFromSource, ClaimsDiffer, SameClaim,
                    CustomersArePublished, consumerVars, HandledUpTo
<1>7. \A h \in Goroutine : \A c, state : WorksOn(h, c, state)' =>
        \/ h # g /\ WorksOn(h, c, state)
        \/ h = g /\ InSlice(1, c, state)
  BY <1>3 DEF WorksOn, Busy, InSlice, head
<1>9. HeldOnce'
  <2> SUFFICES ASSUME NEW c \in Customer, NEW state \in State
      PROVE /\ \A i, j \in DOMAIN recentCustomers' :
                 InSlice(i, c, state)' /\ InSlice(j, c, state)' => i = j
            /\ \A k, h \in Goroutine :
                 WorksOn(k, c, state)' /\ WorksOn(h, c, state)' => k = h
            /\ \A i \in DOMAIN recentCustomers', k \in Goroutine :
                 ~ (InSlice(i, c, state)' /\ WorksOn(k, c, state)')
            /\ \/ \E i \in DOMAIN recentCustomers' : InSlice(i, c, state)'
               \/ \E k \in Goroutine : WorksOn(k, c, state)'
               => Handled(c, state)'
    BY DEF HeldOnce, State
  <2>1. /\ \A i, j \in DOMAIN recentCustomers :
             InSlice(i, c, state) /\ InSlice(j, c, state) => i = j
        /\ \A k, h \in Goroutine :
             WorksOn(k, c, state) /\ WorksOn(h, c, state) => k = h
        /\ \A i \in DOMAIN recentCustomers, k \in Goroutine :
             ~ (InSlice(i, c, state) /\ WorksOn(k, c, state))
        /\ \/ \E i \in DOMAIN recentCustomers : InSlice(i, c, state)
           \/ \E k \in Goroutine : WorksOn(k, c, state)
           => Handled(c, state)
    BY DEF LifetimeInv, HeldOnce
  <2>2. \A i, j \in DOMAIN recentCustomers' : i + 1 = j + 1 => i = j
    BY <1>2
  <2> QED BY <1>2, <1>5, <1>7, <2>1, <2>2
<1>10. OrdersWithinLifetimes'
  <2>1. \A t \in Partition : \A c, state :
          /\ OrdersIn(t, c, state)' = OrdersIn(t, c, state)
          /\ Due(t, c, state)' => Due(t, c, state)
    <3> SUFFICES ASSUME NEW t \in Partition, NEW c, NEW state, Due(t, c, state)'
                 PROVE  Due(t, c, state)
      BY <1>5 DEF OrdersIn
    <3>1. CASE ~ Handled(c, state)'
      BY <1>5, <3>1 DEF Due
    <3>2. ASSUME NEW i \in DOMAIN recentCustomers', InSlice(i, c, state)'
          PROVE  Due(t, c, state)
      BY <1>2, <3>2 DEF Due
    <3>3. ASSUME NEW h \in Goroutine, WorksOn(h, c, state)',
                 task'[h].order.id \notin IdsOf(Handed(t)')
          PROVE  Due(t, c, state)
      BY <1>2, <1>3, <1>5, <1>7, <3>3 DEF Due
    <3> QED BY <3>1, <3>2, <3>3 DEF Due, IdsOf
  <2> QED BY <1>1, <2>1 DEF LifetimeInv, OrdersWithinLifetimes, State
<1> QED BY <1>6, <1>9, <1>10 DEF LifetimeInv

(* A message is handed over to a topic that was due it, and is due no more.*)
LEMMA HandOverKeepsLifetimes ==
  ASSUME TypeOK, FanOutInv, LifetimeInv, NEW g \in Goroutine, ProduceOrder(g)
  PROVE  LifetimeInv'
<1>1. PICK i \in DOMAIN Topics :
        /\ Busy(g) /\ At[i] = StepsDone(g) + 1
        /\ Topics[i] \in Partition
        /\ Message(Topics[i], task[g].order) \in OrderMessage
        /\ Produce(Topics[i], Message(Topics[i], task[g].order))
        /\ Busy(g)' /\ task'[g].order = task[g].order
        /\ \A h \in Goroutine : h # g => task'[h] = task[h]
  BY ProduceOrderShape
<1> DEFINE order == task[g].order
           t0 == Topics[i]
           m == Message(t0, order)
           c0 == order.customer
           s0 == order.state
<1>2. /\ \A t \in Partition :
           Handed(t)' = IF t = t0 THEN Handed(t) \cup {m} ELSE Handed(t)
      /\ m.id = order.id /\ m.customer = c0 /\ m.state = s0
      /\ c0 \in Customer /\ s0 \in State /\ WorksOn(g, c0, s0)
  BY <1>1, HandedProduce, BusyTask, MessageShape DEF Order, WorksOn
<1>3. order.id \notin IdsOf(Handed(t0))
  <2>1. StepsDone(g) \in Nat
    BY <1>1, BusyTask
  <2>2. ~ (At[i] <= StepsDone(g))
    BY <1>1, <2>1
  <2> QED BY <1>1, <2>2 DEF FanOutInv, HandedAsFarAsDone
<1>4. UNCHANGED <<source, consumerVars, recentCustomers, crashes>>
  BY DEF ProduceOrder
<1>5. \A h \in Goroutine : \A c, state :
        WorksOn(h, c, state)' <=> WorksOn(h, c, state)
  BY <1>1, <1>4 DEF WorksOn, Busy
<1>6. /\ \A c, state : Handled(c, state)' <=> Handled(c, state)
      /\ \A c, state : Published(c, state)' <=> Published(c, state)
      /\ \A j, c, state : InSlice(j, c, state)' <=> InSlice(j, c, state)
      /\ \A h \in Goroutine : task'[h].order = task[h].order
  BY <1>1, <1>4 DEF Handled, Published, InSlice, CustomerRecord, consumerVars,
                    HandledUpTo
<1>7. /\ \A h \in Goroutine : WorksOn(h, c0, s0) => h = g
      /\ \A j \in DOMAIN recentCustomers : ~ InSlice(j, c0, s0)
      /\ Handled(c0, s0)
  BY <1>2 DEF LifetimeInv, HeldOnce
<1>8. t0 \in Partition
  BY <1>1
<1>9. FetchedFromSource' /\ ClaimsDiffer'
  BY <1>4 DEF LifetimeInv, FetchedFromSource, ClaimsDiffer, SameClaim,
              consumerVars, HandledUpTo
<1>10. HeldOnce'
  BY <1>4, <1>5, <1>6 DEF LifetimeInv, HeldOnce, State
<1> HIDE DEF order, t0, m, c0, s0
<1>11. CustomersArePublished'
  <2>1. Published(c0, s0)
    BY <1>7, HandledIsPublished
  <2>2. ASSUME NEW t \in Partition, NEW n \in Handed(t)'
        PROVE  Published(n.customer, n.state)
    BY <1>2, <2>1, <2>2 DEF LifetimeInv, CustomersArePublished
  <2> QED BY <1>6, <2>2 DEF CustomersArePublished
<1>12. OrdersWithinLifetimes'
  <2> SUFFICES ASSUME NEW t \in Partition, NEW c \in Customer, NEW state \in State
      PROVE /\ IsFiniteSet(OrdersIn(t, c, state)')
            /\ Cardinality(OrdersIn(t, c, state)') <= 1 + crashes
            /\ Due(t, c, state)' => Cardinality(OrdersIn(t, c, state)') <= crashes
    BY <1>4 DEF OrdersWithinLifetimes, State
  <2>1. /\ IsFiniteSet(OrdersIn(t, c, state))
        /\ Cardinality(OrdersIn(t, c, state)) <= 1 + crashes
        /\ Due(t, c, state) => Cardinality(OrdersIn(t, c, state)) <= crashes
    BY DEF LifetimeInv, OrdersWithinLifetimes
  <2>2. CASE t = t0 /\ c = c0 /\ state = s0
    <3>1. OrdersIn(t, c, state)' = OrdersIn(t, c, state) \cup {m}
      BY <1>2, <2>2 DEF OrdersIn
    <3>2. Due(t, c, state)
      BY <1>2, <1>3, <2>2 DEF Due, order
    <3>3. ~ Due(t, c, state)'
      <4>1. order.id \in IdsOf(Handed(t)')
        BY <1>2, <2>2 DEF IdsOf
      <4> QED BY <1>4, <1>5, <1>6, <1>7, <2>2, <4>1 DEF Due, IdsOf, order
    <3>4. /\ IsFiniteSet(OrdersIn(t, c, state) \cup {m})
          /\ Cardinality(OrdersIn(t, c, state) \cup {m})
               <= Cardinality(OrdersIn(t, c, state)) + 1
          /\ Cardinality(OrdersIn(t, c, state)) \in Nat
      <4>1. Cardinality(OrdersIn(t, c, state)) \in Nat
        BY <2>1, FS_CardinalityType
      <4>2. IF m \in OrdersIn(t, c, state)
            THEN Cardinality(OrdersIn(t, c, state) \cup {m})
                   = Cardinality(OrdersIn(t, c, state))
            ELSE Cardinality(OrdersIn(t, c, state) \cup {m})
                   = Cardinality(OrdersIn(t, c, state)) + 1
        BY <2>1, FS_AddElement
      <4> QED BY <2>1, <4>1, <4>2, FS_AddElement
    <3>5. Cardinality(OrdersIn(t, c, state) \cup {m}) \in Nat /\ crashes \in Nat
      BY <3>4, FS_CardinalityType DEF TypeOK
    <3>6. Cardinality(OrdersIn(t, c, state) \cup {m}) <= 1 + crashes
      <4>1. Cardinality(OrdersIn(t, c, state)) <= crashes
        BY <2>1, <3>2
      <4> QED BY ONLY <3>4, <3>5, <4>1
    <3> QED BY <3>1, <3>3, <3>4, <3>6
  <2>3. CASE ~ (t = t0 /\ c = c0 /\ state = s0)
    <3>1. OrdersIn(t, c, state)' = OrdersIn(t, c, state)
      BY <1>2, <2>3 DEF OrdersIn
    <3>2. Due(t, c, state)' => Due(t, c, state)
      <4>1. IdsOf(Handed(t)) \subseteq IdsOf(Handed(t)')
        BY <1>2 DEF IdsOf
      <4> QED BY <1>4, <1>5, <1>6, <4>1 DEF Due, IdsOf
    <3> QED BY <2>1, <3>1, <3>2
  <2> QED BY <2>2, <2>3
<1> QED BY <1>9, <1>10, <1>11, <1>12 DEF LifetimeInv

(* After a restart everything may be due again, once.                      *)
LEMMA CrashKeepsLifetimes ==
  ASSUME TypeOK, FanOutInv, LifetimeInv, Crash
  PROVE  LifetimeInv'
<1>1. /\ crashes' = crashes + 1 /\ crashes \in Nat /\ source' = source
      /\ fetched' = <<>> /\ recentCustomers' = <<>>
      /\ \A g \in Goroutine : ~ Busy(g)'
  BY DEF Crash, Resume, Busy, Idle, TypeOK
<1>2. \A t \in Partition : Handed(t)' = Handed(t)
  BY HandedKept DEF Crash, FanOutInv, IdsIdentifyOrders
<1>3. DOMAIN fetched' = {} /\ DOMAIN recentCustomers' = {}
  BY <1>1, EmptySeq
<1>4. /\ FetchedFromSource' /\ ClaimsDiffer' /\ HeldOnce'
  BY <1>1, <1>3 DEF LifetimeInv, FetchedFromSource, ClaimsDiffer, SameClaim,
                    HeldOnce, WorksOn, State
<1>5. CustomersArePublished'
  <2>1. \A c, state : Published(c, state)' <=> Published(c, state)
    BY <1>1 DEF Published, CustomerRecord
  <2> QED BY <1>2, <2>1 DEF LifetimeInv, CustomersArePublished
<1>6. OrdersWithinLifetimes'
  <2> SUFFICES ASSUME NEW t \in Partition, NEW c \in Customer, NEW state \in State
      PROVE /\ IsFiniteSet(OrdersIn(t, c, state)')
            /\ Cardinality(OrdersIn(t, c, state)') <= crashes'
    <3>1. \A n \in Nat : n <= crashes' => n <= 1 + crashes'
      BY <1>1
    <3> QED BY <3>1, FS_CardinalityType DEF OrdersWithinLifetimes, State
  <2>1. OrdersIn(t, c, state)' = OrdersIn(t, c, state)
    BY <1>2 DEF OrdersIn
  <2>2. 1 + crashes = crashes + 1
    BY <1>1
  <2> QED BY <1>1, <2>1, <2>2 DEF LifetimeInv, OrdersWithinLifetimes
<1> QED BY <1>4, <1>5, <1>6 DEF LifetimeInv

LEMMA InitLifetimes == Init => LifetimeInv
<1> SUFFICES ASSUME Init PROVE LifetimeInv
  OBVIOUS
<1>1. \A t \in Partition : Handed(t) = {}
  BY DEF Init, ProducerInit, Handed, Pipe, Range
<1>2. /\ \A g \in Goroutine : ~ Busy(g)
      /\ crashes = 0 /\ source = <<>> /\ fetched = <<>> /\ recentCustomers = <<>>
  BY DEF Init, ConsumerInit, Busy, Idle
<1>3. DOMAIN source = {} /\ DOMAIN fetched = {} /\ DOMAIN recentCustomers = {}
  BY <1>2, EmptySeq
<1>4. FetchedFromSource /\ ClaimsDiffer /\ HeldOnce /\ CustomersArePublished
  BY <1>1, <1>2, <1>3 DEF FetchedFromSource, ClaimsDiffer, HeldOnce, WorksOn,
                          CustomersArePublished
<1>5. \A t \in Partition : \A c, state : OrdersIn(t, c, state) = {}
  BY <1>1 DEF OrdersIn
<1>6. OrdersWithinLifetimes
  <2>1. IsFiniteSet({}) /\ Cardinality({}) = 0 /\ 0 <= crashes /\ 0 <= 1 + crashes
    BY <1>2, FS_EmptySet
  <2> QED BY <1>5, <2>1, Zenon DEF OrdersWithinLifetimes
<1> QED BY <1>4, <1>6 DEF LifetimeInv

LEMMA NextLifetimes ==
  TypeOK /\ FanOutInv /\ LifetimeInv /\ [Next]_vars => LifetimeInv'
<1> SUFFICES ASSUME TypeOK, FanOutInv, LifetimeInv, [Next]_vars PROVE LifetimeInv'
  OBVIOUS
<1>1. ASSUME \A t \in Partition : Handed(t)' = Handed(t),
             UNCHANGED <<source, crashes, recentCustomers, position, fetched>>,
             \A g \in Goroutine : Busy(g)' => Busy(g) /\ task'[g].order = task[g].order
      PROVE  LifetimeInv'
  <2>1. FetchedFromSource' /\ HandledUpTo' = HandledUpTo
    BY <1>1 DEF LifetimeInv, FetchedFromSource, HandledUpTo
  <2> QED BY <1>1, <2>1, QuietLifetime
<1>2. CASE Poll
  <2>1. /\ EnterPoll \/ PollReturns
        /\ UNCHANGED <<producerVars, source, recentCustomers, task, consumed, crashes>>
    BY <1>2 DEF Poll, serviceVars
  <2>2. /\ HandledUpTo' = HandledUpTo
        /\ \A i \in DOMAIN fetched' : fetched'[i] = source[HandledUpTo + i]
    BY <2>1, PollType
  <2>3. FetchedFromSource'
    BY <2>1, <2>2 DEF FetchedFromSource
  <2>4. \A t \in Partition : Handed(t)' = Handed(t)
    BY <2>1, HandedUnchanged
  <2> QED BY <2>1, <2>2, <2>3, <2>4, QuietLifetime DEF Busy
<1>3. CASE Commit \/ UNCHANGED vars
  BY <1>1, <1>3, HandedUnchanged
     DEF Commit, AutoCommit, vars, serviceVars, consumerVars, Busy
<1>4. ASSUME NEW g \in Goroutine, NothingToPop(g) PROVE LifetimeInv'
  BY <1>1, <1>4, HandedUnchanged DEF NothingToPop, vars, serviceVars, consumerVars, Busy
<1>5. ASSUME NEW g \in Goroutine, EncodingFails(g) PROVE LifetimeInv'
  <2>1. /\ UNCHANGED <<producerVars, source, consumerVars, recentCustomers, crashes>>
        /\ \A h \in Goroutine : Busy(h)' => Busy(h) /\ task'[h].order = task[h].order
    BY <1>5 DEF EncodingFails, TypeOK, Busy, Idle
  <2> QED BY <1>1, <2>1, HandedUnchanged DEF consumerVars
<1>6. ASSUME NEW g \in Goroutine, CountProduced(g) PROVE LifetimeInv'
  <2>1. UNCHANGED <<producerVars, source, consumerVars, recentCustomers, crashes>>
    BY <1>6 DEF CountProduced
  <2>2. \A h \in Goroutine : Busy(h)' => Busy(h) /\ task'[h].order = task[h].order
    BY <1>6, CountProducedShape DEF Busy, Idle
  <2> QED BY <1>1, <2>1, <2>2, HandedUnchanged DEF consumerVars
<1>7. ASSUME NEW t \in Partition, ProducerClient(t) PROVE LifetimeInv'
  <2>1. \A q \in Partition : Handed(q)' = Handed(q)
    BY <1>7, HandedKept DEF ProducerClient, FanOutInv, IdsIdentifyOrders
  <2> QED BY <1>1, <1>7, <2>1 DEF ProducerClient, serviceVars, consumerVars, Busy
<1> QED BY <1>2, <1>3, <1>4, <1>5, <1>6, <1>7, PublishKeepsLifetimes,
           HandleKeepsLifetimes, BeginKeepsLifetimes, HandOverKeepsLifetimes,
           CrashKeepsLifetimes
        DEF Next, Start, Continue

(* A customer state leads to at most one order more than the process has   *)
(* crashed, for any number of customers, impressions and crashes: the pop  *)
(* hands a customer to one impression, and a restart replays nothing but   *)
(* what had not been committed (order_service.go:67-73, 105-136, 541-553). *)
THEOREM OrdersPerLifetime == Spec => []OneOrderPerLifetime
  BY InitTypeOK, NextTypeOK, InitFanOut, NextFanOut, InitLifetimes, NextLifetimes,
     LifetimesFollow, PTL DEF Spec

-----------------------------------------------------------------------------
(* The metric. *)

(* Where the metric catches up with the message for the i-th topic. *)
CountedAt == <<3, 3, 5, 7>>

LEMMA ScriptCounts ==
  /\ \A i \in DOMAIN Topics :
       i \in 1..4 /\ CountedAt[i] \in DOMAIN Script /\ CountedAt[i] \in {3, 5, 7}
  /\ \A k \in DOMAIN Script :
       \/ k = 1 /\ Script[k] = ProduceTo(1)
       \/ k = 2 /\ Script[k] = ProduceTo(2)
       \/ k = 3 /\ Script[k] = Add(2)
       \/ SchemaRegistry /\ k = 4 /\ Script[k] = ProduceTo(3)
       \/ SchemaRegistry /\ k = 5 /\ Script[k] = Add(1)
       \/ SchemaRegistry /\ k = 6 /\ Script[k] = ProduceTo(4)
       \/ SchemaRegistry /\ k = 7 /\ Script[k] = Add(1)
<1>1. CASE SchemaRegistry
  <2>1. DOMAIN Script = 1..7 /\ DOMAIN Topics = 1..4
    BY <1>1, ScriptShape, TopicsShape
  <2> QED BY <1>1, <2>1, ScriptSteps DEF CountedAt
<1>2. CASE ~ SchemaRegistry
  <2>1. DOMAIN Script = 1..3 /\ DOMAIN Topics = 1..2
    BY <1>2, ScriptShape, TopicsShape
  <2> QED BY <1>2, <2>1, ScriptSteps DEF CountedAt
<1> QED BY <1>1, <1>2

LEMMA CountedUpToShape ==
  ASSUME NEW n \in 0..Len(Script), NEW i \in DOMAIN Topics
  PROVE  CountedUpTo(n, Topics[i]) <=> CountedAt[i] <= n
<1>1. /\ DOMAIN Script = 1..Len(Script) /\ Len(Script) \in {3, 7}
      /\ At[i] \in DOMAIN Script /\ Script[At[i]] = ProduceTo(i)
  BY ScriptShape
<1>2. /\ i \in 1..4 /\ CountedAt[i] \in DOMAIN Script
      /\ Script[CountedAt[i]].do = "count" /\ At[i] < CountedAt[i]
      /\ \A k \in DOMAIN Script :
           At[i] < k /\ Script[k].do = "count" => CountedAt[i] <= k
  <2>1. i \in 1..4 /\ CountedAt[i] \in DOMAIN Script
    BY ScriptCounts
  <2>2. (\A j : ProduceTo(j).do = "produce") /\ (\A j : Add(j).do = "count")
    BY DEF ProduceTo, Add
  <2>3. \A k \in DOMAIN Script : Script[k].do = "count" => k \in {3, 5, 7}
    BY <2>2, ScriptCounts
  <2>4. At[i] < CountedAt[i]
    BY <2>1 DEF At, CountedAt
  <2>5. Script[CountedAt[i]].do = "count"
    BY <2>1, <2>2, ScriptCounts DEF CountedAt
  <2>6. \A k \in {3, 5, 7} : At[i] < k => CountedAt[i] <= k
    BY <2>1 DEF At, CountedAt
  <2> QED BY <2>1, <2>3, <2>4, <2>5, <2>6
<1>3. \A k \in DOMAIN Script :
        Script[k].do = "produce" /\ Script[k].topic = Topics[i] => k = At[i]
  <2> SUFFICES ASSUME NEW k \in DOMAIN Script, Script[k].do = "produce",
                      Script[k].topic = Topics[i]
               PROVE  k = At[i]
    OBVIOUS
  <2>1. PICK j \in DOMAIN Topics : k = At[j]
    BY ScriptShape DEF Add
  <2>2. Script[k].topic = Topics[j]
    <3>1. Script[At[j]] = ProduceTo(j)
      BY ScriptShape
    <3> QED BY <2>1, <3>1 DEF ProduceTo
  <2> QED BY <2>1, <2>2, TopicsShape
<1>4. Script[At[i]].do = "produce" /\ Script[At[i]].topic = Topics[i]
  BY <1>1 DEF ProduceTo
<1>5. ASSUME CountedAt[i] <= n PROVE CountedUpTo(n, Topics[i])
  <2>1. At[i] \in 1..n /\ CountedAt[i] \in 1..n
    BY <1>1, <1>2, <1>5
  <2> QED BY <1>2, <1>4, <2>1 DEF CountedUpTo
<1>6. ASSUME CountedUpTo(n, Topics[i]) PROVE CountedAt[i] <= n
  <2>1. PICK a \in 1..n, b \in 1..n :
          /\ a < b /\ Script[b].do = "count"
          /\ Script[a].do = "produce" /\ Script[a].topic = Topics[i]
    BY <1>6 DEF CountedUpTo
  <2>2. a \in DOMAIN Script /\ b \in DOMAIN Script
    BY <1>1
  <2>3. a = At[i] /\ CountedAt[i] <= b
    BY <1>2, <1>3, <2>1, <2>2
  <2> QED BY <1>1, <1>2, <2>3
<1> QED BY <1>5, <1>6

(* What has been produced is what was handed over for some topic, and a    *)
(* message is known by its order and its topic.                            *)
LEMMA EverProducedIsHanded ==
  ASSUME TypeOK, FanOutInv
  PROVE  /\ \A m : m \in EverProduced <=> \E t \in Partition : m \in Handed(t)
         /\ \A m \in EverProduced :
              /\ m \in OrderMessage /\ m.id \in orderIds
              /\ m.topic \in Partition /\ m \in Handed(m.topic)
<1>1. ProducerTypeOK /\ RightTopic
  BY TypeParts DEF FanOutInv, IdsIdentifyOrders
<1>2. \A m \in lost : m.topic \in Partition
  BY <1>1 DEF ProducerTypeOK, OrderMessage
<1>3. \A m : m \in EverProduced <=> \E t \in Partition : m \in Handed(t)
  BY <1>2 DEF EverProduced, Handed
<1>4. \A t \in Partition : \A m \in Handed(t) :
        m \in OrderMessage /\ m.topic = t /\ m.id \in orderIds
  BY <1>1, HandedRange DEF RightTopic, FanOutInv, IdsIdentifyOrders
<1> QED BY <1>3, <1>4

(* The messages of the order goroutine g works on: those whose turn has    *)
(* passed.                                                                 *)
LEMMA MessagesOfTask ==
  ASSUME TypeOK, FanOutInv, NEW g \in Goroutine, Busy(g), NEW m
  PROVE  m \in EverProduced /\ m.id = task[g].order.id <=>
           \E i \in DOMAIN Topics :
             At[i] <= StepsDone(g) /\ m = Message(Topics[i], task[g].order)
<1> DEFINE order == task[g].order
<1>1. /\ \A i \in DOMAIN Topics :
           order.id \in IdsOf(Handed(Topics[i])) <=> At[i] <= StepsDone(g)
      /\ \A t \in Partition : \A n \in Handed(t) :
           n.id = order.id => SameOrder(n, order)
      /\ order \in Order
  BY BusyTask DEF FanOutInv, HandedAsFarAsDone, IdsIdentifyOrders
<1> HIDE DEF order
<1>2. ASSUME NEW t \in Partition, NEW n \in Handed(t), n.id = order.id
      PROVE  n = Message(t, order)
  <2>1. n \in OrderMessage /\ n.topic = t /\ SameOrder(n, order)
    BY <1>1, <1>2, TypeParts, HandedRange DEF FanOutInv, IdsIdentifyOrders, RightTopic
  <2> QED BY <2>1 DEF OrderMessage, SameOrder, Message
<1>3. ASSUME m \in EverProduced, m.id = order.id
      PROVE  \E i \in DOMAIN Topics :
               At[i] <= StepsDone(g) /\ m = Message(Topics[i], order)
  <2>1. PICK i \in DOMAIN Topics : m.topic = Topics[i] /\ m \in Handed(Topics[i])
    BY <1>3, EverProducedIsHanded, TopicsShape
  <2>2. Topics[i] \in Partition /\ m.id \in IdsOf(Handed(Topics[i]))
    BY <2>1, TopicsShape DEF IdsOf
  <2> QED BY <1>1, <1>2, <1>3, <2>1, <2>2
<1>4. ASSUME NEW i \in DOMAIN Topics, At[i] <= StepsDone(g),
             m = Message(Topics[i], order)
      PROVE  m \in EverProduced /\ m.id = order.id
  <2>1. Topics[i] \in Partition
    BY TopicsShape
  <2>2. PICK n \in Handed(Topics[i]) : n.id = order.id
    BY <1>1, <1>4 DEF IdsOf
  <2>3. n = m
    BY <1>2, <1>4, <2>1, <2>2
  <2> QED BY <2>1, <2>2, <2>3, EverProducedIsHanded
<1> QED BY <1>3, <1>4 DEF order

(* The topics whose message goroutine g has handed over and not counted.   *)
Pending(g) ==
  {i \in DOMAIN Topics :
     Busy(g) /\ At[i] <= StepsDone(g) /\ StepsDone(g) < CountedAt[i]}

PendingMessages(g) == {Message(Topics[i], task[g].order) : i \in Pending(g)}

UncountedArePending == Uncounted = UNION {PendingMessages(g) : g \in Goroutine}

LEMMA UncountedShape == TypeOK /\ FanOutInv => UncountedArePending
<1> SUFFICES ASSUME TypeOK, FanOutInv PROVE UncountedArePending
  OBVIOUS
<1>1. ASSUME NEW g \in Goroutine, Busy(g), NEW i \in DOMAIN Topics
      PROVE  CountedUpTo(StepsDone(g), Topics[i]) <=> ~ (StepsDone(g) < CountedAt[i])
  <2>1. StepsDone(g) \in 0..Len(Script) /\ StepsDone(g) \in Nat
    BY <1>1, BusyTask
  <2>2. CountedUpTo(StepsDone(g), Topics[i]) <=> CountedAt[i] <= StepsDone(g)
    BY <2>1, CountedUpToShape
  <2>3. CountedAt[i] \in {3, 5, 7}
    BY ScriptCounts
  <2> QED BY <2>1, <2>2, <2>3
<1>2. ASSUME NEW m \in Uncounted
      PROVE  \E g \in Goroutine : m \in PendingMessages(g)
  <2>1. PICK g \in Goroutine :
          /\ m \in EverProduced /\ Busy(g) /\ task[g].order.id = m.id
          /\ ~ CountedUpTo(StepsDone(g), m.topic)
    BY DEF Uncounted
  <2>2. PICK i \in DOMAIN Topics :
          At[i] <= StepsDone(g) /\ m = Message(Topics[i], task[g].order)
    BY <2>1, MessagesOfTask
  <2>3. m.topic = Topics[i]
    BY <2>2 DEF Message
  <2> QED BY <1>1, <2>1, <2>2, <2>3 DEF PendingMessages, Pending
<1>3. ASSUME NEW g \in Goroutine, NEW m \in PendingMessages(g)
      PROVE  m \in Uncounted
  <2>1. PICK i \in DOMAIN Topics :
          /\ Busy(g) /\ At[i] <= StepsDone(g) /\ StepsDone(g) < CountedAt[i]
          /\ m = Message(Topics[i], task[g].order)
    BY DEF PendingMessages, Pending
  <2>2. m \in EverProduced /\ m.id = task[g].order.id /\ m.topic = Topics[i]
    BY <2>1, MessagesOfTask DEF Message
  <2> QED BY <1>1, <2>1, <2>2 DEF Uncounted
<1> QED BY <1>2, <1>3 DEF UncountedArePending

LEMMA UncountedShapeNext == TypeOK' /\ FanOutInv' => UncountedArePending'
  BY UncountedShape, PTL

(* The inductive invariant: the set of messages ever produced is finite,   *)
(* or the metric could not agree with it.                                  *)
MetricInv == IsFiniteSet(EverProduced) /\ MetricCountsMessages

LEMMA MetricSums ==
  ASSUME TypeOK, MetricInv
  PROVE  /\ IsFiniteSet(EverProduced) /\ Cardinality(EverProduced) \in Nat
         /\ IsFiniteSet(Uncounted) /\ Cardinality(Uncounted) \in Nat
         /\ Uncounted \subseteq EverProduced
         /\ counted \in Nat
<1>1. IsFiniteSet(EverProduced) /\ Uncounted \subseteq EverProduced
  BY DEF MetricInv, Uncounted
<1>2. IsFiniteSet(Uncounted)
  BY <1>1, FS_Subset
<1> QED BY <1>1, <1>2, FS_CardinalityType DEF TypeOK

(* What another goroutine does leaves the messages of this one alone.      *)
LEMMA OthersKeepPending ==
  ASSUME NEW h \in Goroutine, task'[h] = task[h]
  PROVE  Pending(h)' = Pending(h) /\ PendingMessages(h)' = PendingMessages(h)
<1>1. Pending(h)' = Pending(h)
  BY DEF Pending, Busy, StepsDone
<1> QED BY <1>1 DEF PendingMessages, Message

(* The messages of two goroutines belong to two orders.                    *)
LEMMA PendingOfOneOrder ==
  ASSUME FanOutInv, NEW g \in Goroutine, NEW h \in Goroutine, h # g
  PROVE  PendingMessages(g) \cap PendingMessages(h) = {}
<1>1. \A x \in Goroutine : \A m \in PendingMessages(x) :
        Busy(x) /\ m.id = task[x].order.id
  BY DEF PendingMessages, Pending, Message
<1> QED BY <1>1 DEF FanOutInv, IdsIdentifyOrders

(* A step that neither produces nor counts.                                *)
LEMMA QuietMetric ==
  ASSUME TypeOK, FanOutInv, TypeOK', FanOutInv', MetricInv,
         EverProduced' = EverProduced, UNCHANGED <<counted, crashes>>,
         \A h \in Goroutine : PendingMessages(h)' = PendingMessages(h)
  PROVE  MetricInv'
<1>1. Uncounted' = Uncounted
  BY UncountedShape, UncountedShapeNext DEF UncountedArePending
<1> QED BY <1>1 DEF MetricInv, MetricCountsMessages

(* A message is handed over and waits for its Add.                         *)
LEMMA ProduceKeepsMetric ==
  ASSUME TypeOK, FanOutInv, TypeOK', FanOutInv', MetricInv,
         NEW g \in Goroutine, ProduceOrder(g)
  PROVE  MetricInv'
<1>1. PICK i \in DOMAIN Topics :
        /\ Busy(g) /\ At[i] = StepsDone(g) + 1
        /\ Topics[i] \in Partition
        /\ Message(Topics[i], task[g].order) \in OrderMessage
        /\ Produce(Topics[i], Message(Topics[i], task[g].order))
        /\ Busy(g)' /\ task'[g].order = task[g].order
        /\ StepsDone(g)' = StepsDone(g) + 1
        /\ \A h \in Goroutine : h # g => task'[h] = task[h]
  BY ProduceOrderShape
<1>2. PICK m \in OrderMessage : m = Message(Topics[i], task[g].order)
  BY <1>1
<1>3. EverProduced' = EverProduced \cup {m}
  BY <1>1, <1>2, TypeParts, EverProducedProduce DEF ProducerTypeOK
<1>4. m \notin EverProduced
  <2>1. m.topic = Topics[i] /\ m.id = task[g].order.id
    BY <1>2 DEF Message
  <2>2. m.id \notin IdsOf(Handed(Topics[i]))
    <3>1. StepsDone(g) \in Nat /\ ~ (At[i] <= StepsDone(g))
      BY <1>1, BusyTask
    <3> QED BY <1>1, <2>1, <3>1 DEF FanOutInv, HandedAsFarAsDone
  <2> QED BY <2>1, <2>2, EverProducedIsHanded DEF IdsOf
<1>5. Pending(g)' = Pending(g) \cup {i}
  <2>1. StepsDone(g) \in Nat
    BY <1>1, BusyTask
  <2>2. \A j \in DOMAIN Topics :
          /\ At[j] \in Nat /\ CountedAt[j] \in Nat
          /\ At[j] = At[i] => j = i
          /\ CountedAt[j] # At[i] /\ At[i] < CountedAt[i]
    <3>1. \A j \in DOMAIN Topics : j \in 1..4
      BY ScriptCounts
    <3> QED BY <3>1 DEF At, CountedAt
  <2>3. \A j \in DOMAIN Topics :
          /\ At[j] <= StepsDone(g)' <=> j = i \/ At[j] <= StepsDone(g)
          /\ StepsDone(g)' < CountedAt[j] <=> StepsDone(g) < CountedAt[j]
    BY <1>1, <2>1, <2>2
  <2>4. StepsDone(g) < CountedAt[i]
    BY <1>1, <2>1, <2>2
  <2> QED BY <1>1, <2>3, <2>4 DEF Pending
<1>6. PendingMessages(g)' = PendingMessages(g) \cup {m}
  BY <1>1, <1>2, <1>5 DEF PendingMessages, Message
<1>7. Uncounted' = Uncounted \cup {m}
  <2>1. \A h \in Goroutine : h # g => PendingMessages(h)' = PendingMessages(h)
    BY <1>1, OthersKeepPending
  <2>2. /\ Uncounted = UNION {PendingMessages(h) : h \in Goroutine}
        /\ Uncounted' = UNION {PendingMessages(h)' : h \in Goroutine}
    BY UncountedShape, UncountedShapeNext DEF UncountedArePending
  <2> QED BY <1>6, <2>1, <2>2
<1>8. UNCHANGED <<counted, crashes>>
  BY DEF ProduceOrder
<1>9. /\ IsFiniteSet(EverProduced \cup {m})
      /\ Cardinality(EverProduced \cup {m}) = Cardinality(EverProduced) + 1
      /\ Cardinality(Uncounted \cup {m}) = Cardinality(Uncounted) + 1
  BY <1>4, MetricSums, FS_AddElement
<1> QED BY <1>3, <1>7, <1>8, <1>9, MetricSums DEF MetricInv, MetricCountsMessages

(* An Add of n is for n messages.                                          *)
LEMMA AddMatchesPending ==
  ASSUME TypeOK, NEW g \in Goroutine, CountProduced(g)
  PROVE  /\ \/ /\ Todo(g).n = 1
               /\ \E a : PendingMessages(g) = {a}
            \/ /\ Todo(g).n = 2
               /\ \E a, b : a # b /\ PendingMessages(g) = {a, b}
         /\ Pending(g)' = {}
<1>1. /\ Busy(g) /\ Todo(g).do = "count" /\ Todo(g) = Script[StepsDone(g) + 1]
      /\ StepsDone(g) \in Nat /\ StepsDone(g) + 1 \in DOMAIN Script
  BY BusyTask DEF CountProduced
<1>2. \A j : ProduceTo(j).do = "produce" /\ Add(j).n = j
  BY DEF ProduceTo, Add
<1>3. \/ StepsDone(g) = 2 /\ Todo(g).n = 2
      \/ SchemaRegistry /\ StepsDone(g) = 4 /\ Todo(g).n = 1
      \/ SchemaRegistry /\ StepsDone(g) = 6 /\ Todo(g).n = 1
  BY <1>1, <1>2, ScriptCounts
<1>4. /\ DOMAIN Topics = IF SchemaRegistry THEN 1..4 ELSE 1..2
      /\ \A i, j \in DOMAIN Topics : Topics[i] = Topics[j] => i = j
  BY TopicsShape
<1>5. Pending(g) = {i \in DOMAIN Topics :
                      At[i] <= StepsDone(g) /\ StepsDone(g) < CountedAt[i]}
  BY <1>1 DEF Pending
<1>6. \/ Todo(g).n = 2 /\ Pending(g) = {1, 2}
      \/ Todo(g).n = 1 /\ Pending(g) = {3}
      \/ Todo(g).n = 1 /\ Pending(g) = {4}
  <2>1. CASE StepsDone(g) = 2 /\ Todo(g).n = 2
    BY <1>4, <1>5, <2>1 DEF At, CountedAt
  <2>2. CASE SchemaRegistry /\ StepsDone(g) = 4 /\ Todo(g).n = 1
    BY <1>4, <1>5, <2>2 DEF At, CountedAt
  <2>3. CASE SchemaRegistry /\ StepsDone(g) = 6 /\ Todo(g).n = 1
    BY <1>4, <1>5, <2>3 DEF At, CountedAt
  <2> QED BY <1>3, <2>1, <2>2, <2>3
<1>7. Message(Topics[1], task[g].order) # Message(Topics[2], task[g].order)
  BY <1>4 DEF Message
<1>8. \/ Todo(g).n = 1 /\ \E a : PendingMessages(g) = {a}
      \/ Todo(g).n = 2 /\ \E a, b : a # b /\ PendingMessages(g) = {a, b}
  <2> DEFINE M(i) == Message(Topics[i], task[g].order)
  <2>1. PendingMessages(g) = {M(i) : i \in Pending(g)} /\ M(1) # M(2)
    BY <1>7 DEF PendingMessages
  <2> HIDE DEF M
  <2>2. CASE Todo(g).n = 2 /\ Pending(g) = {1, 2}
    <3>1. PendingMessages(g) = {M(1), M(2)}
      BY <2>1, <2>2
    <3> QED BY <2>1, <2>2, <3>1
  <2>3. CASE Todo(g).n = 1 /\ Pending(g) = {3}
    <3>1. PendingMessages(g) = {M(3)}
      BY <2>1, <2>3
    <3> QED BY <2>3, <3>1
  <2>4. CASE Todo(g).n = 1 /\ Pending(g) = {4}
    <3>1. PendingMessages(g) = {M(4)}
      BY <2>1, <2>4
    <3> QED BY <2>4, <3>1
  <2> QED BY <1>6, <2>2, <2>3, <2>4
<1>9. Pending(g)' = {}
  <2>1. ~ Busy(g)' \/ StepsDone(g)' = StepsDone(g) + 1
    BY CountProducedShape DEF Busy, Idle
  <2>2. CASE ~ Busy(g)'
    BY <2>2 DEF Pending
  <2>3. CASE StepsDone(g)' \in {3, 5, 7}
    <3>1. \A i \in DOMAIN Topics : i \in 1..4
      BY ScriptCounts
    <3> QED BY <2>3, <3>1 DEF Pending, At, CountedAt
  <2> QED BY <1>3, <2>1, <2>2, <2>3
<1> QED BY <1>8, <1>9

(* The metric moves by as many messages as have been waiting for it.       *)
LEMMA CountKeepsMetric ==
  ASSUME TypeOK, FanOutInv, TypeOK', FanOutInv', MetricInv,
         NEW g \in Goroutine, CountProduced(g)
  PROVE  MetricInv'
<1>1. /\ counted' = counted + Todo(g).n
      /\ UNCHANGED <<producerVars, crashes>>
      /\ \A h \in Goroutine : h # g => task'[h] = task[h]
  BY CountProducedShape DEF CountProduced
<1>2. EverProduced' = EverProduced
  BY <1>1, TypeParts, EverProducedKept DEF ProducerTypeOK
<1>3. /\ PendingMessages(g)' = {}
      /\ \A h \in Goroutine : h # g =>
           /\ PendingMessages(h)' = PendingMessages(h)
           /\ PendingMessages(g) \cap PendingMessages(h) = {}
  BY <1>1, AddMatchesPending, OthersKeepPending, PendingOfOneOrder
     DEF PendingMessages
<1>4. /\ Uncounted' = Uncounted \ PendingMessages(g)
      /\ PendingMessages(g) \subseteq Uncounted
  <2>1. /\ Uncounted = UNION {PendingMessages(h) : h \in Goroutine}
        /\ Uncounted' = UNION {PendingMessages(h)' : h \in Goroutine}
    BY UncountedShape, UncountedShapeNext DEF UncountedArePending
  <2> QED BY <1>3, <2>1
<1>5. Todo(g).n \in Nat /\ Cardinality(Uncounted') = Cardinality(Uncounted) - Todo(g).n
  <2>1. CASE Todo(g).n = 1 /\ \E a : PendingMessages(g) = {a}
    <3>1. PICK a : PendingMessages(g) = {a}
      BY <2>1
    <3>2. Cardinality(Uncounted \ {a}) = Cardinality(Uncounted) - 1
      BY <1>4, <3>1, MetricSums, FS_RemoveElement
    <3>3. Uncounted' = Uncounted \ {a}
      BY <1>4, <3>1
    <3> QED BY <2>1, <3>2, <3>3
  <2>2. CASE Todo(g).n = 2 /\ \E a, b : a # b /\ PendingMessages(g) = {a, b}
    <3>1. PICK a, b : a # b /\ PendingMessages(g) = {a, b}
      BY <2>2
    <3>2. /\ IsFiniteSet(Uncounted \ {a})
          /\ Cardinality(Uncounted \ {a}) = Cardinality(Uncounted) - 1
      BY <1>4, <3>1, MetricSums, FS_RemoveElement
    <3>3. /\ Uncounted' = (Uncounted \ {a}) \ {b} /\ b \in Uncounted \ {a}
      BY <1>4, <3>1
    <3>4. Cardinality(Uncounted') = Cardinality(Uncounted \ {a}) - 1
      BY <3>2, <3>3, FS_RemoveElement
    <3> QED BY <2>2, <3>2, <3>4, MetricSums
  <2> QED BY <2>1, <2>2, AddMatchesPending
<1> QED BY <1>1, <1>2, <1>5, MetricSums DEF MetricInv, MetricCountsMessages

(* An order ends on an encoding error with nothing left to be counted.     *)
LEMMA FailureKeepsMetric ==
  ASSUME TypeOK, FanOutInv, TypeOK', FanOutInv', MetricInv,
         NEW g \in Goroutine, EncodingFails(g)
  PROVE  MetricInv'
<1>1. /\ Busy(g) /\ task'[g] = Idle /\ Todo(g).do = "produce"
      /\ ~ Encodes(Todo(g).topic, task[g].order)
      /\ UNCHANGED <<producerVars, counted, crashes>>
      /\ \A h \in Goroutine : h # g => task'[h] = task[h]
  BY DEF EncodingFails, TypeOK
<1>2. EverProduced' = EverProduced
  BY <1>1, TypeParts, EverProducedKept DEF ProducerTypeOK
<1>3. StepsDone(g) = 5
  <2>1. PICK i \in DOMAIN Topics :
          At[i] = StepsDone(g) + 1 /\ Todo(g).topic = Topics[i]
    BY <1>1, ProduceStep
  <2>2. i = 4 /\ StepsDone(g) \in Nat
    BY <1>1, <2>1, TopicsShape, BusyTask DEF Encodes
  <2> QED BY <2>1, <2>2 DEF At
<1>4. PendingMessages(g) = {}
  <2>1. \A i \in DOMAIN Topics : i \in 1..4
    BY ScriptCounts
  <2>2. Pending(g) = {}
    BY <1>3, <2>1 DEF Pending, At, CountedAt
  <2> QED BY <2>2 DEF PendingMessages
<1>5. PendingMessages(g)' = {}
  BY <1>1 DEF PendingMessages, Pending, Busy, Idle
<1> QED BY <1>1, <1>2, <1>4, <1>5, OthersKeepPending, QuietMetric

(* An order begins with nothing handed over.                               *)
LEMMA BeginKeepsMetric ==
  ASSUME TypeOK, FanOutInv, TypeOK', FanOutInv', MetricInv,
         NEW g \in Goroutine, CreateOrder(g)
  PROVE  MetricInv'
<1>1. /\ task[g] = Idle /\ task'[g].left = Script
      /\ UNCHANGED <<producerVars, counted, crashes>>
      /\ \A h \in Goroutine : h # g => task'[h] = task[h]
  BY DEF CreateOrder, CreateOrderLeaving, TypeOK
<1>2. EverProduced' = EverProduced
  BY <1>1, TypeParts, EverProducedKept DEF ProducerTypeOK
<1>3. PendingMessages(g) = {}
  BY <1>1 DEF PendingMessages, Pending, Busy, Idle
<1>4. PendingMessages(g)' = {}
  <2>1. StepsDone(g)' = 0
    <3>1. StepsDone(g)' = Len(Script) - Len(Script) /\ Len(Script) \in {3, 7}
      BY <1>1, ScriptShape DEF StepsDone
    <3> QED BY ONLY <3>1
  <2>2. \A i \in DOMAIN Topics : ~ (At[i] <= 0)
    BY ScriptShape
  <2> QED BY <2>1, <2>2 DEF PendingMessages, Pending
<1> QED BY <1>1, <1>2, <1>3, <1>4, OthersKeepPending, QuietMetric

(* A crash forgets the metric and whoever was about to move it.            *)
LEMMA CrashKeepsMetric ==
  ASSUME TypeOK, FanOutInv, MetricInv, Crash
  PROVE  MetricInv'
<1>1. EverProduced' = EverProduced
  BY TypeParts, EverProducedKept DEF ProducerTypeOK, Crash
<1>2. /\ \A g \in Goroutine : ~ Busy(g)'
      /\ counted' = 0 /\ crashes' # 0
  BY DEF Crash, Busy, Idle, TypeOK
<1>3. Uncounted' = {}
  BY <1>2 DEF Uncounted
<1>4. Cardinality({}) = 0
  BY FS_EmptySet
<1> QED BY <1>1, <1>2, <1>3, <1>4, MetricSums DEF MetricInv, MetricCountsMessages

LEMMA InitMetric == Init => MetricInv
<1> SUFFICES ASSUME Init PROVE MetricInv
  OBVIOUS
<1>1. EverProduced = {}
  BY DEF Init, ProducerInit, EverProduced, Pipe, Range
<1>2. Uncounted = {} /\ counted = 0
  BY <1>1 DEF Init, Uncounted
<1> QED BY <1>1, <1>2, FS_EmptySet DEF MetricInv, MetricCountsMessages

LEMMA NextMetric ==
  TypeOK /\ FanOutInv /\ TypeOK' /\ FanOutInv' /\ MetricInv /\ [Next]_vars => MetricInv'
<1> SUFFICES ASSUME TypeOK, FanOutInv, TypeOK', FanOutInv', MetricInv, [Next]_vars
             PROVE  MetricInv'
  OBVIOUS
<1>1. ASSUME EverProduced' = EverProduced, UNCHANGED <<task, counted, crashes>>
      PROVE  MetricInv'
  BY <1>1, OthersKeepPending, QuietMetric
<1>2. CASE UNCHANGED producerVars /\ UNCHANGED <<task, counted, crashes>>
  BY <1>1, <1>2, TypeParts, EverProducedKept DEF ProducerTypeOK
<1>3. CASE CustomerPublished \/ Start \/ Commit
  BY <1>2, <1>3 DEF CustomerPublished, Start, HandleRecord, HandleRecordSkipping,
                    Poll, Commit, serviceVars
<1>4. ASSUME NEW t \in Partition, ProducerClient(t) PROVE MetricInv'
  <2>1. EverProduced' = EverProduced
    BY <1>4, TypeParts, EverProducedKept DEF ProducerTypeOK, ProducerClient
  <2> QED BY <1>1, <1>4, <2>1 DEF ProducerClient, serviceVars
<1>5. ASSUME NEW g \in Goroutine, NothingToPop(g) PROVE MetricInv'
  BY <1>2, <1>5 DEF NothingToPop, vars, serviceVars
<1>6. CASE UNCHANGED vars
  BY <1>2, <1>6 DEF vars, serviceVars
<1> QED BY <1>3, <1>4, <1>5, <1>6, ProduceKeepsMetric, CountKeepsMetric,
           FailureKeepsMetric, BeginKeepsMetric, CrashKeepsMetric
        DEF Next, Continue

(* The metric agrees with the calls of Produce, the early end of an order  *)
(* that Avro cannot express included, for any number of impressions and    *)
(* any losses; only a restart makes it forget (order_service.go:399-415).  *)
THEOREM MetricIsExact == Spec => []MetricCountsMessages
<1>1. MetricInv => MetricCountsMessages
  BY DEF MetricInv
<1> QED BY <1>1, InitTypeOK, NextTypeOK, InitFanOut, NextFanOut, InitMetric,
           NextMetric, PTL DEF Spec

-----------------------------------------------------------------------------
(* Refinement of the abstract order topics.                                *)

NoDuplicates ==
  \A t \in Partition : \A i, j \in DOMAIN Pipe(t) :
    Pipe(t)[i].id = Pipe(t)[j].id => i = j

LEMMA HandOverWithoutDuplicates ==
  ASSUME TypeOK, FanOutInv, NoDuplicates, NEW g \in Goroutine, ProduceOrder(g)
  PROVE  NoDuplicates'
<1>1. PICK i \in DOMAIN Topics :
        /\ Busy(g) /\ At[i] = StepsDone(g) + 1
        /\ Topics[i] \in Partition
        /\ Message(Topics[i], task[g].order) \in OrderMessage
        /\ Produce(Topics[i], Message(Topics[i], task[g].order))
  BY ProduceOrderShape
<1> DEFINE t0 == Topics[i]
           m == Message(t0, task[g].order)
<1>2. m.id \notin IdsOf(Handed(t0))
  <2>1. StepsDone(g) \in Nat /\ m.id = task[g].order.id
    BY <1>1, BusyTask, MessageShape
  <2>2. ~ (At[i] <= StepsDone(g))
    BY <1>1, <2>1
  <2> QED BY <1>1, <2>1, <2>2 DEF FanOutInv, HandedAsFarAsDone
<1>3. t0 \in Partition /\ m \in OrderMessage /\ Produce(t0, m) /\ ProducerTypeOK
  BY <1>1, TypeParts
<1> HIDE DEF t0, m
<1>4. \A t \in Partition :
        /\ Pipe(t) \in Seq(OrderMessage)
        /\ Pipe(t)' = IF t = t0 THEN Append(Pipe(t), m) ELSE Pipe(t)
  BY <1>3, PipeProduce, PipeShape DEF ProducerTypeOK
<1> SUFFICES ASSUME NEW t \in Partition, NEW k \in DOMAIN Pipe(t)',
                    NEW j \in DOMAIN Pipe(t)', Pipe(t)'[k].id = Pipe(t)'[j].id
             PROVE  k = j
  BY DEF NoDuplicates
<1>5. CASE t # t0
  BY <1>4, <1>5 DEF NoDuplicates
<1>6. CASE t = t0
  <2> DEFINE p == Pipe(t)
  <2>1. p \in Seq(OrderMessage) /\ Pipe(t)' = Append(p, m)
    BY <1>4, <1>6
  <2>2. \A n \in DOMAIN p : p[n].id # m.id
    BY <1>2, <1>6 DEF Handed, IdsOf, Range
  <2>3. \A a, b \in DOMAIN p : p[a].id = p[b].id => a = b
    BY DEF NoDuplicates
  <2> HIDE DEF p
  <2>4. /\ Len(p) \in Nat /\ DOMAIN p = 1..Len(p)
        /\ DOMAIN Append(p, m) = 1..(Len(p) + 1)
        /\ \A n \in 1..Len(p) : Append(p, m)[n] = p[n]
        /\ Append(p, m)[Len(p) + 1] = m
    BY <1>3, <2>1, AppendShape
  <2>5. \A n \in DOMAIN Append(p, m) : n \in DOMAIN p \/ n = Len(p) + 1
    BY <2>4
  <2> QED BY <2>1, <2>2, <2>3, <2>4, <2>5
<1> QED BY <1>5, <1>6

LEMMA InitNoDuplicates == Init => NoDuplicates
  BY DEF Init, ProducerInit, Pipe, NoDuplicates

LEMMA NextNoDuplicates ==
  TypeOK /\ FanOutInv /\ NoDuplicates /\ [Next]_vars => NoDuplicates'
<1> SUFFICES ASSUME TypeOK, FanOutInv, NoDuplicates, [Next]_vars
             PROVE  NoDuplicates'
  OBVIOUS
<1>1. ASSUME \A t \in Partition :
               /\ DOMAIN Pipe(t)' \subseteq DOMAIN Pipe(t)
               /\ \A i \in DOMAIN Pipe(t)' : Pipe(t)'[i] = Pipe(t)[i]
      PROVE  NoDuplicates'
  BY <1>1 DEF NoDuplicates
<1>2. CASE UNCHANGED producerVars
  BY <1>1, <1>2 DEF producerVars, Pipe
<1>3. ASSUME NEW t \in Partition, Deliver(t) PROVE NoDuplicates'
  BY <1>1, <1>3, TypeParts, PipeDeliver DEF ProducerTypeOK
<1>4. CASE LoseBuffered \/ \E t \in Partition : ExpireBuffered(t)
  BY <1>1, <1>4, TypeParts, PipeCut DEF ProducerTypeOK
<1>5. ASSUME NEW g \in Goroutine, Continue(g) PROVE NoDuplicates'
  BY <1>2, <1>5, HandOverWithoutDuplicates DEF Continue, EncodingFails, CountProduced
<1>6. CASE CustomerPublished \/ Start \/ Commit
  BY <1>2, <1>6 DEF CustomerPublished, Start, HandleRecord, HandleRecordSkipping,
                    Poll, Commit
<1>7. ASSUME NEW g \in Goroutine, CreateOrder(g) \/ NothingToPop(g)
      PROVE  NoDuplicates'
  BY <1>2, <1>7 DEF CreateOrder, CreateOrderLeaving, NothingToPop, vars
<1>8. CASE UNCHANGED vars
  BY <1>2, <1>8 DEF vars
<1> QED BY <1>3, <1>4, <1>5, <1>6, <1>7, <1>8 DEF Next, ProducerClient, Crash

(* The instance has a Cardinality of its own, with the same definition.    *)
LEMMA SameCardinality ==
  ASSUME NEW S
  PROVE  OrdersTopics!Cardinality(S) = Cardinality(S)
  BY Zenon DEF Cardinality, OrdersTopics!Cardinality

(* What is delivered is published as the abstract topics allow it.         *)
LEMMA DeliverPublishes ==
  ASSUME TypeOK, FanOutInv, LifetimeInv, NoDuplicates, UNCHANGED source,
         NEW t \in Partition, Deliver(t)
  PROVE  OrdersTopics!Publish(Head(buffered[t]))
         /\ Head(buffered[t]) \in OrderMessage
<1> DEFINE o == Head(buffered[t])
           S == {i \in DOMAIN log[t] : OrdersTopics!SameCustomer(log[t][i], o)}
           T == OrdersIn(t, o.customer, o.state)
<1>1. RecordsIn(OrderMessage) /\ ProducerTypeOK
  BY TypeParts DEF ProducerTypeOK
<1>2. o \in OrderMessage /\ o \in Range(buffered[t])
  BY <1>1, TailShape DEF RecordsIn, Deliver, Range
<1>3. /\ \A u \in Partition : \A i \in DOMAIN log[u] :
           /\ i \in DOMAIN Pipe(u) /\ Pipe(u)[i] = log[u][i]
           /\ log[u][i] \in Handed(u)
      /\ o \in Handed(t)
  BY <1>1, <1>2, PipeShape, HandedRange DEF Range
<1>4. \A i \in DOMAIN log[t] : log[t][i].id # o.id
  <2>1. \A r \in Range(buffered[t]) :
          \E n \in DOMAIN Pipe(t) \ DOMAIN log[t] : Pipe(t)[n] = r
    BY <1>1, PipeShape
  <2> HIDE DEF o
  <2>2. PICK n \in DOMAIN Pipe(t) \ DOMAIN log[t] : Pipe(t)[n] = o
    BY <1>2, <2>1
  <2> QED BY <1>3, <2>2 DEF NoDuplicates
<1>5. o.topic = t
  BY <1>3 DEF FanOutInv, IdsIdentifyOrders, RightTopic
<1>6. \E n \in DOMAIN source : source[n].key = o.customer /\ source[n].value = o.state
  <2>1. Published(o.customer, o.state)
    BY <1>3 DEF LifetimeInv, CustomersArePublished
  <2> QED BY <2>1 DEF Published, CustomerRecord
<1>7. \A u \in Partition : \A i \in DOMAIN log[u] :
        log[u][i].id = o.id => OrdersTopics!SameCustomer(log[u][i], o)
  BY <1>3 DEF FanOutInv, IdsIdentifyOrders, SameOrder, OrdersTopics!SameCustomer
<1>8. Cardinality(S) < MaxCrashes + 1
  <2>1. /\ IsFiniteSet(T) /\ Cardinality(T) <= 1 + crashes /\ o \in T
        /\ crashes \in 0..MaxCrashes /\ MaxCrashes \in Nat
    <3> HIDE DEF o
    <3>1. o.customer \in Customer /\ o.state \in State
      BY <1>2 DEF OrderMessage
    <3>2. IsFiniteSet(T) /\ Cardinality(T) <= 1 + crashes
      BY <3>1 DEF LifetimeInv, OrdersWithinLifetimes
    <3>3. o \in T
      BY <1>3 DEF OrdersIn
    <3>4. crashes \in 0..MaxCrashes /\ MaxCrashes \in Nat
      BY DEF TypeOK
    <3> QED BY <3>2, <3>3, <3>4
  <2>2. [i \in S |-> log[t][i]] \in Injection(S, T \ {o})
    <3>1. \A i \in S : log[t][i] \in T \ {o}
      BY <1>3, <1>4 DEF OrdersIn, OrdersTopics!SameCustomer
    <3>2. \A i, j \in S : log[t][i] = log[t][j] => i = j
      BY <1>3 DEF NoDuplicates
    <3> HIDE DEF S, T
    <3> QED BY <3>1, <3>2 DEF Injection, IsInjective
  <2> HIDE DEF S, T, o
  <2>3. IsFiniteSet(T \ {o}) /\ Cardinality(T \ {o}) = Cardinality(T) - 1
    BY <2>1, FS_RemoveElement
  <2>4. IsFiniteSet(S) /\ Cardinality(S) <= Cardinality(T \ {o})
    BY <2>2, <2>3, FS_Injection
  <2>5. Cardinality(S) \in Nat /\ Cardinality(T) \in Nat
    BY <2>1, <2>4, FS_CardinalityType
  <2> QED BY ONLY <2>1, <2>3, <2>4, <2>5
<1>9. log' = [log EXCEPT ![o.topic] = Append(@, o)]
  BY <1>5 DEF Deliver
<1> HIDE DEF o
<1>10. OrdersTopics!Publish(o)
  <2>1. /\ \A i \in DOMAIN log[o.topic] : log[o.topic][i].id # o.id
        /\ Cardinality({i \in DOMAIN log[o.topic] :
             OrdersTopics!SameCustomer(log[o.topic][i], o)}) < MaxCrashes + 1
    BY <1>4, <1>5, <1>8
  <2> QED BY <1>6, <1>7, <1>9, <2>1, SameCardinality DEF OrdersTopics!Publish
<1> QED BY <1>2, <1>10 DEF o

LEMMA NextRefinesTopics ==
  TypeOK /\ FanOutInv /\ LifetimeInv /\ NoDuplicates /\ [Next]_vars
    => [OrdersTopics!Next]_<<source, log>>
<1> SUFFICES ASSUME TypeOK, FanOutInv, LifetimeInv, NoDuplicates, [Next]_vars
             PROVE  OrdersTopics!Next \/ UNCHANGED <<source, log>>
  OBVIOUS
<1>1. ASSUME NEW t \in Partition, ProducerClient(t)
      PROVE  OrdersTopics!Next \/ UNCHANGED <<source, log>>
  <2>1. UNCHANGED source
    BY <1>1 DEF ProducerClient
  <2>2. CASE ExpireBuffered(t)
    BY <2>1, <2>2 DEF ExpireBuffered
  <2>3. CASE Deliver(t)
    <3>1. OrderMessage = OrdersTopics!Order
      BY DEF OrderMessage, OrdersTopics!Order
    <3> QED BY <2>1, <2>3, <3>1, DeliverPublishes DEF OrdersTopics!Next
  <2> QED BY <1>1, <2>2, <2>3 DEF ProducerClient
<1>2. CASE CustomerPublished
  BY <1>2 DEF CustomerPublished, producerVars, OrdersTopics!Next,
              OrdersTopics!CustomersGrow
<1>3. CASE Start \/ Commit
  BY <1>3 DEF Start, HandleRecord, HandleRecordSkipping, Poll, Commit, producerVars
<1>4. ASSUME NEW g \in Goroutine, CreateOrder(g) \/ NothingToPop(g) \/ Continue(g)
      PROVE  UNCHANGED <<source, log>>
  BY <1>4 DEF CreateOrder, CreateOrderLeaving, NothingToPop, Continue, ProduceOrder,
              EncodingFails, CountProduced, Produce, vars, producerVars
<1>5. CASE Crash
  BY <1>5 DEF Crash, LoseBuffered
<1>6. CASE UNCHANGED vars
  BY <1>6 DEF vars, producerVars
<1> QED BY <1>1, <1>2, <1>3, <1>4, <1>5, <1>6 DEF Next

(* The order service, with its slice, its goroutines, its lossy client and *)
(* its crashes, writes nothing but what the abstract order topics allow:   *)
(* no topic holds an order twice, the formats of one order embed the same  *)
(* customer, some record of the customers topic is that customer, and no   *)
(* topic gets more orders for it than the service had lifetimes.           *)
THEOREM ImplementsTopics == Spec => OrdersTopicsSpec
<1>1. Init => OrdersTopics!Init
  BY DEF Init, ProducerInit, OrdersTopics!Init
<1> QED BY <1>1, NextRefinesTopics, InitTypeOK, NextTypeOK, InitFanOut, NextFanOut,
           InitLifetimes, NextLifetimes, InitNoDuplicates, NextNoDuplicates, PTL
        DEF Spec, OrdersTopicsSpec, OrdersTopics!Spec
=============================================================================

------------------------ MODULE KafkaProducerProofs ------------------------
(***************************************************************************)
(* What the producer's operations do to a pipe, for records of any set R.  *)
(* The proofs about the services that own a producer cite these lemmas.    *)
(***************************************************************************)
EXTENDS KafkaProducer, SequenceTheorems, TLAPS

(* An appended sequence, element by element and as a set. *)
LEMMA AppendShape ==
  ASSUME NEW R, NEW s \in Seq(R), NEW e \in R
  PROVE  /\ Append(s, e) \in Seq(R)
         /\ Len(s) \in Nat /\ DOMAIN s = 1..Len(s)
         /\ Len(Append(s, e)) = Len(s) + 1
         /\ DOMAIN Append(s, e) = 1..(Len(s) + 1)
         /\ \A i \in 1..Len(s) : Append(s, e)[i] = s[i]
         /\ Append(s, e)[Len(s) + 1] = e
         /\ Range(Append(s, e)) = Range(s) \cup {e}
<1>1. /\ Append(s, e) \in Seq(R)
      /\ Len(s) \in Nat /\ DOMAIN s = 1..Len(s)
      /\ Len(Append(s, e)) = Len(s) + 1
      /\ DOMAIN Append(s, e) = 1..(Len(s) + 1)
      /\ \A i \in 1..Len(s) : Append(s, e)[i] = s[i]
      /\ Append(s, e)[Len(s) + 1] = e
  BY AppendProperties, LenProperties
<1> DEFINE a == Append(s, e)
<1> HIDE DEF a
<1>2. Range(a) = Range(s) \cup {e}
  <2>1. \A i \in DOMAIN a : a[i] \in Range(s) \cup {e}
    BY <1>1 DEF Range, a
  <2>2. \A i \in DOMAIN s : i \in DOMAIN a /\ a[i] = s[i]
    BY <1>1 DEF a
  <2>3. Len(s) + 1 \in DOMAIN a /\ a[Len(s) + 1] = e
    BY <1>1 DEF a
  <2> QED BY <2>1, <2>2, <2>3 DEF Range
<1> QED BY <1>1, <1>2 DEF a

(* The head and the tail of a sequence. *)
LEMMA TailShape ==
  ASSUME NEW R, NEW s \in Seq(R), s # <<>>
  PROVE  /\ Len(s) \in Nat \ {0} /\ DOMAIN s = 1..Len(s)
         /\ 1 \in DOMAIN s /\ Head(s) = s[1] /\ Head(s) \in R
         /\ Tail(s) \in Seq(R)
         /\ Len(Tail(s)) = Len(s) - 1
         /\ DOMAIN Tail(s) = 1..(Len(s) - 1)
         /\ \A i \in 1..(Len(s) - 1) :
              i + 1 \in DOMAIN s /\ Tail(s)[i] = s[i + 1]
         /\ Range(s) = {Head(s)} \cup Range(Tail(s))
<1> DEFINE t == Tail(s)
<1>1. /\ Len(s) \in Nat \ {0} /\ DOMAIN s = 1..Len(s)
      /\ 1 \in DOMAIN s /\ Head(s) = s[1] /\ Head(s) \in R
      /\ t \in Seq(R) /\ Len(t) = Len(s) - 1 /\ DOMAIN t = 1..(Len(s) - 1)
      /\ \A i \in 1..(Len(s) - 1) : i + 1 \in DOMAIN s /\ t[i] = s[i + 1]
  BY HeadTailProperties, LenProperties, EmptySeq
<1> HIDE DEF t
<1>2. Range(s) = {s[1]} \cup Range(t)
  <2>1. \A i \in DOMAIN s : s[i] \in {s[1]} \cup Range(t)
    <3> SUFFICES ASSUME NEW i \in 1..Len(s), i # 1
                 PROVE  s[i] \in Range(t)
      BY <1>1
    <3>1. i - 1 \in DOMAIN t /\ t[i - 1] = s[(i - 1) + 1]
      BY <1>1
    <3> QED BY <3>1 DEF Range
  <2>2. \A i \in DOMAIN t : t[i] \in Range(s)
    BY <1>1 DEF Range
  <2> QED BY <1>1, <2>1, <2>2 DEF Range
<1> QED BY <1>1, <1>2 DEF t

(* The elements of a sequence come from its set. *)
LEMMA RangeInSet ==
  ASSUME NEW R, NEW s \in Seq(R)
  PROVE  Range(s) \subseteq R
  BY LenProperties, ElementOfSeq DEF Range

(* The part of a sequence a poll takes. *)
LEMMA PolledPart ==
  ASSUME NEW R, NEW s \in Seq(R), NEW k \in Nat, NEW n \in (k + 1)..Len(s)
  PROVE  /\ SubSeq(s, k + 1, n) \in Seq(R)
         /\ Len(SubSeq(s, k + 1, n)) = n - k
         /\ \A i \in 1..(n - k) : SubSeq(s, k + 1, n)[i] = s[k + i]
  OBVIOUS

(* Appending to the second of two concatenated sequences. *)
LEMMA ConcatAppend ==
  ASSUME NEW R, NEW s \in Seq(R), NEW t \in Seq(R), NEW e \in R
  PROVE  s \o Append(t, e) = Append(s \o t, e)
<1>1. <<e>> \in Seq(R)
  OBVIOUS
<1>2. Append(t, e) = t \o <<e>>
  BY AppendIsConcat
<1>3. s \o t \in Seq(R)
  BY ConcatProperties
<1>4. Append(s \o t, e) = (s \o t) \o <<e>>
  BY <1>3, AppendIsConcat
<1>5. (s \o t) \o <<e>> = s \o (t \o <<e>>)
  BY <1>1, ConcatAssociative
<1> QED BY <1>2, <1>4, <1>5

(* Moving the first element of the second sequence to the end of the first. *)
LEMMA ConcatMove ==
  ASSUME NEW R, NEW s \in Seq(R), NEW t \in Seq(R), t # <<>>
  PROVE  Append(s, Head(t)) \o Tail(t) = s \o t
<1>1. Head(t) \in R /\ Tail(t) \in Seq(R) /\ <<Head(t)>> \in Seq(R)
  BY HeadTailProperties
<1>2. Append(s, Head(t)) = s \o <<Head(t)>>
  BY <1>1, AppendIsConcat
<1>3. (s \o <<Head(t)>>) \o Tail(t) = s \o (<<Head(t)>> \o Tail(t))
  BY <1>1, ConcatAssociative
<1>4. <<Head(t)>> \o Tail(t) = t
  OBVIOUS
<1> QED BY <1>2, <1>3, <1>4

-----------------------------------------------------------------------------
(* The lanes and the logs hold records of R. *)
RecordsIn(R) ==
  /\ buffered \in [Partition -> Seq(R)]
  /\ log \in [Partition -> Seq(R)]

(* The pipe is a sequence; its first Len(log[p]) elements are the log and  *)
(* every buffered record is one of the later elements.                     *)
LEMMA PipeShape ==
  ASSUME NEW R, RecordsIn(R), NEW p \in Partition
  PROVE  /\ Pipe(p) \in Seq(R)
         /\ DOMAIN log[p] \subseteq DOMAIN Pipe(p)
         /\ \A i \in DOMAIN log[p] : Pipe(p)[i] = log[p][i]
         /\ \A r \in Range(buffered[p]) :
              \E i \in DOMAIN Pipe(p) \ DOMAIN log[p] : Pipe(p)[i] = r
<1> DEFINE l == log[p]
           b == buffered[p]
<1>1. l \in Seq(R) /\ b \in Seq(R)
  BY DEF RecordsIn
<1> HIDE DEF l, b
<1>2. /\ l \o b \in Seq(R)
      /\ Len(l \o b) = Len(l) + Len(b)
      /\ \A i \in 1..Len(l) + Len(b) :
           (l \o b)[i] = IF i <= Len(l) THEN l[i] ELSE b[i - Len(l)]
  BY <1>1, ConcatProperties
<1>3. /\ Len(l) \in Nat /\ DOMAIN l = 1..Len(l)
      /\ Len(b) \in Nat /\ DOMAIN b = 1..Len(b)
      /\ DOMAIN (l \o b) = 1..Len(l \o b)
  BY <1>1, <1>2, LenProperties
<1>4. \A r \in Range(b) :
        \E i \in DOMAIN (l \o b) \ DOMAIN l : (l \o b)[i] = r
  <2> SUFFICES ASSUME NEW j \in DOMAIN b
               PROVE  \E i \in DOMAIN (l \o b) \ DOMAIN l : (l \o b)[i] = b[j]
    BY DEF Range
  <2>1. Len(l) + j \in DOMAIN (l \o b) \ DOMAIN l
    BY <1>2, <1>3
  <2>2. (l \o b)[Len(l) + j] = b[j]
    BY <1>2, <1>3
  <2> QED BY <2>1, <2>2
<1>5. /\ DOMAIN l \subseteq DOMAIN (l \o b)
      /\ \A i \in DOMAIN l : (l \o b)[i] = l[i]
  BY <1>2, <1>3
<1> QED BY <1>2, <1>4, <1>5 DEF Pipe, l, b

(* What is in a pipe is in the log or in the buffer. *)
LEMMA PipeRange ==
  ASSUME NEW R, RecordsIn(R), NEW p \in Partition
  PROVE  Range(Pipe(p)) = Range(log[p]) \cup Range(buffered[p])
<1> DEFINE l == log[p]
           b == buffered[p]
<1>1. l \in Seq(R) /\ b \in Seq(R)
  BY DEF RecordsIn
<1> HIDE DEF l, b
<1> QED BY <1>1, RangeConcatenation DEF Pipe, l, b

(* A produced record is appended to the pipe of its partition. *)
LEMMA PipeProduce ==
  ASSUME NEW R, RecordsIn(R), NEW p \in Partition, NEW rec \in R,
         Produce(p, rec)
  PROVE  /\ RecordsIn(R)'
         /\ \A q \in Partition :
              Pipe(q)' = IF q = p THEN Append(Pipe(q), rec) ELSE Pipe(q)
<1>1. RecordsIn(R)'
  BY DEF RecordsIn, Produce
<1>2. ASSUME NEW q \in Partition
      PROVE  Pipe(q)' = IF q = p THEN Append(Pipe(q), rec) ELSE Pipe(q)
  <2> DEFINE l == log[q]
             b == buffered[q]
  <2>1. l \in Seq(R) /\ b \in Seq(R) /\ log'[q] = l
        /\ buffered'[q] = IF q = p THEN Append(b, rec) ELSE b
    BY DEF RecordsIn, Produce
  <2> HIDE DEF l, b
  <2>2. l \o Append(b, rec) = Append(l \o b, rec)
    BY <2>1, ConcatAppend
  <2> QED BY <2>1, <2>2 DEF Pipe, l, b
<1> QED BY <1>1, <1>2

(* Delivery moves a record inside its pipe and leaves every pipe as it is. *)
LEMMA PipeDeliver ==
  ASSUME NEW R, RecordsIn(R), NEW p \in Partition, Deliver(p)
  PROVE  /\ RecordsIn(R)'
         /\ \A q \in Partition : Pipe(q)' = Pipe(q)
<1>1. buffered[p] \in Seq(R) /\ log[p] \in Seq(R) /\ buffered[p] # <<>>
  BY DEF RecordsIn, Deliver
<1>2. /\ Head(buffered[p]) \in R
      /\ Tail(buffered[p]) \in Seq(R)
      /\ Append(log[p], Head(buffered[p])) \in Seq(R)
  BY <1>1, HeadTailProperties, AppendProperties
<1>3. RecordsIn(R)'
  BY <1>2 DEF RecordsIn, Deliver
<1>4. ASSUME NEW q \in Partition
      PROVE  Pipe(q)' = Pipe(q)
  <2>1. CASE q = p
    <3>1. Append(log[p], Head(buffered[p])) \o Tail(buffered[p])
            = log[p] \o buffered[p]
      BY <1>1, ConcatMove
    <3>2. /\ log'[p] = Append(log[p], Head(buffered[p]))
          /\ buffered'[p] = Tail(buffered[p])
      BY DEF RecordsIn, Deliver
    <3> QED BY <2>1, <3>1, <3>2 DEF Pipe
  <2>2. CASE q # p
    BY <2>2 DEF Pipe, RecordsIn, Deliver
  <2> QED BY <2>1, <2>2
<1> QED BY <1>3, <1>4

(* A failed delivery, or a crash, cuts pipes at their end: what is left of *)
(* a pipe keeps its place and every newly lost record was in the part that *)
(* has been cut off.                                                       *)
LEMMA PipeCut ==
  ASSUME NEW R, RecordsIn(R), lost \in SUBSET R,
         LoseBuffered \/ \E p \in Partition : ExpireBuffered(p)
  PROVE  /\ RecordsIn(R)'
         /\ lost' \in SUBSET R
         /\ lost \subseteq lost'
         /\ \A q \in Partition :
              /\ DOMAIN Pipe(q)' \subseteq DOMAIN Pipe(q)
              /\ \A i \in DOMAIN Pipe(q)' : Pipe(q)'[i] = Pipe(q)[i]
         /\ \A r \in lost' \ lost :
              \E q \in Partition : \E i \in DOMAIN Pipe(q) \ DOMAIN Pipe(q)' :
                r = Pipe(q)[i]
<1>1. PICK C \in SUBSET Partition :
        /\ log' = log
        /\ lost' = lost \cup UNION {Range(buffered[q]) : q \in C}
        /\ buffered' = [q \in Partition |-> IF q \in C THEN <<>> ELSE buffered[q]]
  <2>1. CASE LoseBuffered
    BY <2>1 DEF LoseBuffered
  <2>2. ASSUME NEW p \in Partition, ExpireBuffered(p)
        PROVE  \E C \in SUBSET Partition :
                 /\ log' = log
                 /\ lost' = lost \cup UNION {Range(buffered[q]) : q \in C}
                 /\ buffered' = [q \in Partition |->
                                   IF q \in C THEN <<>> ELSE buffered[q]]
    <3>1. UNION {Range(buffered[q]) : q \in {p}} = Range(buffered[p])
      OBVIOUS
    <3>2. buffered' = [q \in Partition |-> IF q \in {p} THEN <<>> ELSE buffered[q]]
      BY <2>2 DEF RecordsIn, ExpireBuffered
    <3> QED BY <2>2, <3>1, <3>2 DEF ExpireBuffered
  <2> QED BY <2>1, <2>2
<1>2. RecordsIn(R)'
  BY <1>1 DEF RecordsIn
<1>3. \A q \in Partition : Range(buffered[q]) \subseteq R
  BY DEF RecordsIn, Range
<1>4. \A q \in Partition : Pipe(q)' = IF q \in C THEN log[q] ELSE Pipe(q)
  BY <1>1, ConcatEmptySeq DEF RecordsIn, Pipe
<1>5. \A q \in Partition :
        /\ DOMAIN Pipe(q)' \subseteq DOMAIN Pipe(q)
        /\ \A i \in DOMAIN Pipe(q)' : Pipe(q)'[i] = Pipe(q)[i]
  BY <1>4, PipeShape
<1>6. ASSUME NEW r \in lost' \ lost
      PROVE  \E q \in Partition : \E i \in DOMAIN Pipe(q) \ DOMAIN Pipe(q)' :
               r = Pipe(q)[i]
  <2>1. PICK q \in C : r \in Range(buffered[q])
    BY <1>1, <1>6
  <2>2. PICK i \in DOMAIN Pipe(q) \ DOMAIN log[q] : Pipe(q)[i] = r
    BY <2>1, PipeShape
  <2> QED BY <1>4, <2>1, <2>2
<1> QED BY <1>1, <1>2, <1>3, <1>5, <1>6

(* Where a record that was ever produced is now. *)
LEMMA EverProducedShape ==
  ASSUME NEW R, RecordsIn(R)
  PROVE  \A r : r \in EverProduced <=>
           \/ r \in lost
           \/ \E p \in Partition : r \in Range(log[p]) \/ r \in Range(buffered[p])
<1>1. \A p \in Partition : Range(Pipe(p)) = Range(log[p]) \cup Range(buffered[p])
  BY PipeRange
<1> QED BY <1>1 DEF EverProduced

(* What is in the log or may still get there. *)
Piped == UNION {Range(Pipe(p)) : p \in Partition}

(* Only a call of Produce adds to it, its record. *)
LEMMA PipedProduce ==
  ASSUME NEW R, RecordsIn(R), NEW p \in Partition, NEW rec \in R,
         Produce(p, rec)
  PROVE  Piped' = Piped \cup {rec}
<1>1. \A q \in Partition : Pipe(q)' = IF q = p THEN Append(Pipe(q), rec) ELSE Pipe(q)
  BY PipeProduce
<1>2. \A q \in Partition :
        Range(Pipe(q)') = IF q = p THEN Range(Pipe(q)) \cup {rec} ELSE Range(Pipe(q))
  <2> SUFFICES ASSUME NEW q \in Partition
               PROVE  Range(Pipe(q)') = IF q = p THEN Range(Pipe(q)) \cup {rec}
                                        ELSE Range(Pipe(q))
    OBVIOUS
  <2>1. Pipe(q) \in Seq(R)
    BY PipeShape
  <2>2. Range(Append(Pipe(q), rec)) = Range(Pipe(q)) \cup {rec}
    BY <2>1, AppendShape
  <2> QED BY <1>1, <2>2
<1>3. Piped' = UNION {Range(Pipe(q)') : q \in Partition}
  BY DEF Piped
<1> QED BY <1>2, <1>3 DEF Piped

LEMMA EverProducedProduce ==
  ASSUME NEW R, RecordsIn(R), NEW p \in Partition, NEW rec \in R,
         Produce(p, rec)
  PROVE  EverProduced' = EverProduced \cup {rec}
<1>1. lost' = lost /\ Piped' = Piped \cup {rec}
  BY PipedProduce DEF Produce
<1>2. EverProduced = lost \cup Piped /\ EverProduced' = lost' \cup Piped'
  BY DEF EverProduced, Piped
<1> QED BY <1>1, <1>2

LEMMA EverProducedKept ==
  ASSUME NEW R, RecordsIn(R), lost \in SUBSET R,
         \/ UNCHANGED producerVars
         \/ LoseBuffered
         \/ \E p \in Partition : Deliver(p) \/ ExpireBuffered(p)
  PROVE  EverProduced' = EverProduced
<1>1. CASE UNCHANGED producerVars
  BY <1>1 DEF producerVars, EverProduced, Pipe
<1>2. ASSUME NEW p \in Partition, Deliver(p)
      PROVE  EverProduced' = EverProduced
  <2>1. lost' = lost /\ \A q \in Partition : Pipe(q)' = Pipe(q)
    BY <1>2, PipeDeliver DEF Deliver
  <2> QED BY <2>1 DEF EverProduced
<1>3. CASE LoseBuffered \/ \E p \in Partition : ExpireBuffered(p)
  <2>1. RecordsIn(R)'
    BY <1>3, PipeCut
  <2>2. \A r : r \in EverProduced' <=>
          \/ r \in lost'
          \/ \E p \in Partition : r \in Range(log'[p]) \/ r \in Range(buffered'[p])
    <3>1. \A p \in Partition : log'[p] \in Seq(R) /\ buffered'[p] \in Seq(R)
      BY <2>1 DEF RecordsIn
    <3>2. \A p \in Partition :
            Range(log'[p] \o buffered'[p]) = Range(log'[p]) \cup Range(buffered'[p])
      BY <3>1, RangeConcatenation
    <3> QED BY <3>2 DEF EverProduced, Pipe
  <2>3. Range(<<>>) = {}
    BY DEF Range
  <2>4. CASE LoseBuffered
    <3>1. /\ log' = log /\ \A p \in Partition : buffered'[p] = <<>>
          /\ lost' = lost \cup UNION {Range(buffered[q]) : q \in Partition}
      BY <2>4 DEF LoseBuffered
    <3> QED BY <2>2, <2>3, <3>1, EverProducedShape
  <2>5. ASSUME NEW p \in Partition, ExpireBuffered(p)
        PROVE  EverProduced' = EverProduced
    <3>1. /\ log' = log /\ lost' = lost \cup Range(buffered[p])
          /\ \A q \in Partition : buffered'[q] = IF q = p THEN <<>> ELSE buffered[q]
      BY <2>5 DEF ExpireBuffered, RecordsIn
    <3> QED BY <2>2, <2>3, <3>1, EverProducedShape
  <2> QED BY <1>3, <2>4, <2>5
<1> QED BY <1>1, <1>2, <1>3
=============================================================================

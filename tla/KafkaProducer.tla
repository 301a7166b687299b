---------------------------- MODULE KafkaProducer ----------------------------
(***************************************************************************)
(* The franz-go producer of one owl-shop service (its metaClient) together *)
(* with the topic partitions it writes.  The library is not part of the    *)
(* repository; it is modelled from how the services use it:                *)
(*                                                                         *)
(*  - Produce is asynchronous: it places the record in the client's buffer *)
(*    and returns; the only error ever reported goes to the callback,      *)
(*    which logs it.  It blocks while the client's buffer is full.         *)
(*  - Records of one partition reach the log in the order in which they    *)
(*    were produced, without duplicates (idempotent producer, the default).*)
(*  - kgo.RecordDeliveryTimeout(10s): when it expires the records buffered *)
(*    for a partition fail together, so nothing overtakes a failed record. *)
(***************************************************************************)
EXTENDS Naturals, Sequences, FiniteSetsExt

CONSTANTS
  Partition,            \* the topic partitions this client produces to
  MaxBufferedRecords    \* records the client holds before Produce blocks

ASSUME MaxBufferedRecordsAssumption == MaxBufferedRecords \in Nat \ {0}

VARIABLES
  buffered,   \* per partition: produced, not yet appended to the log
  log,        \* per partition: what the broker holds
  lost        \* records that will never reach the log

producerVars == <<buffered, log, lost>>

(* How many records the client holds, over all its partitions. *)
Backlog == MapThenSumSet(LAMBDA p : Len(buffered[p]), Partition)

ProducerInit ==
  /\ buffered = [p \in Partition |-> <<>>]
  /\ log = [p \in Partition |-> <<>>]
  /\ lost = {}

(* A call of Produce that returns: the record joins its partition's lane. *)
Produce(p, rec) ==
  /\ Backlog < MaxBufferedRecords
  /\ buffered' = [buffered EXCEPT ![p] = Append(@, rec)]
  /\ UNCHANGED <<log, lost>>

(* The broker acknowledges the oldest record of a partition. *)
Deliver(p) ==
  /\ buffered[p] # <<>>
  /\ log' = [log EXCEPT ![p] = Append(@, Head(buffered[p]))]
  /\ buffered' = [buffered EXCEPT ![p] = Tail(@)]
  /\ UNCHANGED lost

(* The delivery timeout fails every record buffered for a partition. *)
ExpireBuffered(p) ==
  /\ buffered[p] # <<>>
  /\ lost' = lost \cup Range(buffered[p])
  /\ buffered' = [buffered EXCEPT ![p] = <<>>]
  /\ UNCHANGED log

(* The process dies: whatever the client still holds is gone. *)
LoseBuffered ==
  /\ lost' = lost \cup UNION {Range(buffered[p]) : p \in Partition}
  /\ buffered' = [p \in Partition |-> <<>>]
  /\ UNCHANGED log

(* Every record ever handed to Produce and not lost, oldest first. *)
Pipe(p) == log[p] \o buffered[p]

(* Every record ever handed to Produce, by this process or an earlier one.  *)
EverProduced == lost \cup UNION {Range(Pipe(p)) : p \in Partition}
=============================================================================

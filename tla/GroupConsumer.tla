---------------------------- MODULE GroupConsumer ----------------------------
(***************************************************************************)
(* The franz-go group consumer of one owl-shop service, which reads a      *)
(* topic of one partition (the default TopicPartitionCount).  The library  *)
(* is not part of the repository; it is modelled from how the services use *)
(* it: kgo.ConsumerGroup, kgo.ConsumeTopics, kgo.AutoCommitInterval and a  *)
(* loop around PollFetches.                                                *)
(*                                                                         *)
(*  - A group without a commit starts at the beginning of the topic.       *)
(*  - Entering PollFetches declares the records of the previous poll       *)
(*    handled; then the call blocks until there is something to return.    *)
(*  - The autocommit timer commits what has been declared handled.         *)
(*  - After a restart the group resumes at its commit.                     *)
(***************************************************************************)
EXTENDS Naturals, Sequences

CONSTANT MaxPollRecords   \* bound: records one poll returns

ASSUME MaxPollAssumption == MaxPollRecords \in Nat \ {0}

VARIABLES
  source,       \* the records of the consumed partition, owned by others
  position,     \* offset of the next record to be polled
  fetched,      \* polled records the loop has not come to yet
  committable,  \* offset the autocommit timer may commit
  committed     \* offset the group has committed, kept by the broker

consumerVars == <<position, fetched, committable, committed>>

ConsumerInit ==
  /\ position = 0
  /\ fetched = <<>>
  /\ committable = 0
  /\ committed = 0

(* PollFetches is entered: everything polled so far counts as handled.     *)
EnterPoll ==
  /\ fetched = <<>>
  /\ committable # position
  /\ committable' = position
  /\ UNCHANGED <<position, fetched, committed>>

(* PollFetches returns records.                                            *)
PollReturns ==
  /\ fetched = <<>>
  /\ committable = position
  /\ \E n \in (position + 1)..Len(source) :
       /\ n <= position + MaxPollRecords
       /\ fetched' = SubSeq(source, position + 1, n)
       /\ position' = n
  /\ UNCHANGED <<committable, committed>>

(* The loop body takes the next record of the fetch.                       *)
NextRecord ==
  /\ fetched # <<>>
  /\ fetched' = Tail(fetched)
  /\ UNCHANGED <<position, committable, committed>>

AutoCommit ==
  /\ committed # committable
  /\ committed' = committable
  /\ UNCHANGED <<position, fetched, committable>>

(* The process dies and the group resumes at its commit.                   *)
Resume ==
  /\ position' = committed
  /\ committable' = committed
  /\ fetched' = <<>>
  /\ UNCHANGED committed

(* How far the loop has come in this process lifetime.                     *)
HandledUpTo == position - Len(fetched)
=============================================================================

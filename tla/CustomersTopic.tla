--------------------------- MODULE CustomersTopic ---------------------------
(***************************************************************************)
(* What the customers topic promises its readers: for every customer at    *)
(* most one registration (revision 0) and at most one change, which is     *)
(* either the one modification (revision 1) or a tombstone, never both.    *)
(* It does NOT promise that the registration comes first, or comes at all. *)
(***************************************************************************)
EXTENDS Naturals, Sequences

CONSTANTS
  Customer,      \* the ids gofakeit.UUID hands out
  Partition,     \* the partitions of the customers topic
  PartitionOf,   \* the client's partitioner: the partition of a key
  Nil            \* the nil value of a tombstone

VARIABLE log     \* per partition, the records the broker holds

Record == [key : Customer, value : {0, 1, Nil}]

IsChange(rec) == rec.value # 0

(* Two records make the same claim on a customer: both register it, or     *)
(* both change it.                                                         *)
SameClaim(r, s) == r.key = s.key /\ (IsChange(r) <=> IsChange(s))

Init == log = [p \in Partition |-> <<>>]

Publish(rec) ==
  LET p == PartitionOf[rec.key]
  IN  /\ \A i \in DOMAIN log[p] : ~ SameClaim(log[p][i], rec)
      /\ log' = [log EXCEPT ![p] = Append(@, rec)]

Next == \E rec \in Record : Publish(rec)

Spec == Init /\ [][Next]_log
=============================================================================

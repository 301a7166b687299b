------------------------- MODULE MCCustomerService -------------------------
(* Constant values for model checking CustomerService. *)
EXTENDS CustomerService

CONSTANT p1

(* One partition, the default of config.Shop (TopicPartitionCount = 1). *)
OnePartition == {p1}
AllToOne == [c \in Customer |-> p1]
=============================================================================

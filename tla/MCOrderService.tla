--------------------------- MODULE MCOrderService ---------------------------
(* Constant values for model checking OrderService. *)
EXTENDS OrderService, TLC

TwoTopics == {"orders", "orders-protobuf-plain"}
FourTopics == TwoTopics \cup {"orders-protobuf-sr", "orders-avro-sr"}

(* Bound: customer records, as many as there are orders to be created.      *)
TwoRecords == Len(source) <= 2

(* Not over OrderId: FreshId chooses among its elements. *)
Symmetry == Permutations(Customer) \cup Permutations(Goroutine)
=============================================================================

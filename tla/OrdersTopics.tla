---------------------------- MODULE OrdersTopics ----------------------------
(***************************************************************************)
(* What the order topics promise their readers, given the customers topic: *)
(* an order embeds a customer as some record of that topic has it, no      *)
(* topic holds an order twice, the formats of one order agree, and a       *)
(* customer record leads to at most one order per process lifetime.  An    *)
(* order may be missing from some topics, the topics may hold the orders   *)
(* in different sequences, and the customer may have been deleted.         *)
(***************************************************************************)
EXTENDS Naturals, Sequences, FiniteSets

CONSTANTS
  Customer,       \* customer ids
  OrderId,        \* the ids gofakeit.UUID hands out
  Partition,      \* the order topics, one partition each
  State,          \* the customer states an order may embed
  SourceRecord,   \* what the customers topic may hold
  Lifetimes       \* processes that may read the same customer record

VARIABLES
  source,         \* the customers topic
  log             \* the order topics

Order ==
  [topic : Partition, id : OrderId, customer : Customer, state : State]

Init ==
  /\ source = <<>>
  /\ log = [t \in Partition |-> <<>>]

CustomersGrow ==
  /\ \E rec \in SourceRecord : source' = Append(source, rec)
  /\ UNCHANGED log

SameCustomer(o, q) == o.customer = q.customer /\ o.state = q.state

Publish(o) ==
  LET t == o.topic
  IN  /\ \E n \in DOMAIN source :
           source[n].key = o.customer /\ source[n].value = o.state
      /\ \A i \in DOMAIN log[t] : log[t][i].id # o.id
      /\ \A u \in Partition : \A i \in DOMAIN log[u] :
           log[u][i].id = o.id => SameCustomer(log[u][i], o)
      /\ Cardinality({i \in DOMAIN log[t] : SameCustomer(log[t][i], o)}) < Lifetimes
      /\ log' = [log EXCEPT ![t] = Append(@, o)]
      /\ UNCHANGED source

Next == CustomersGrow \/ \E o \in Order : Publish(o)

Spec == Init /\ [][Next]_<<source, log>>
=============================================================================

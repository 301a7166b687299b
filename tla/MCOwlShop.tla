----------------------------- MODULE MCOwlShop -----------------------------
(* Constant values for model checking OwlShop. *)
EXTENDS OwlShop

TwoTopics == {"orders", "orders-protobuf-plain"}
=============================================================================

-------------------------- MODULE MCAddressService --------------------------
(* Constant values for model checking AddressService. *)
EXTENDS AddressService, TLC

CONSTANTS t, c1, a1, a2, a3, a4, a5

OneTopic == {t}

NoRecords == <<>>

(* A topic that was in use before: an address, a tombstone and an address. *)
UsedTopic ==
  <<[key |-> a1, value |-> c1], [key |-> a1, value |-> Nil],
    [key |-> a2, value |-> c1]>>

Symmetry == Permutations(Goroutine)
=============================================================================

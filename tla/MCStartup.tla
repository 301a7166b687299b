------------------------------ MODULE MCStartup ------------------------------
(* Constant values for model checking Startup. *)
EXTENDS Startup, TLC

CONSTANTS i1, i2, p, q

(* A second deployment with another TopicPartitionCount.                   *)
OtherParams == [i \in Instance |-> IF i = i1 THEN p ELSE q]
=============================================================================

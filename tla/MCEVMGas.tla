------------------------------- MODULE MCEVMGas -------------------------------
(* Small instances of EVMGas for TLC. *)
EXTENDS EVMGas

CONSTANTS a, b, e   \* a contract, one that delegates, another account

MCDelegate == [x \in {b} |-> a]

\* The theorem on GasIsNeverForgotten applies to the instances.
ASSUME InstanceHasRoom == RoomFor(9, 8)
=============================================================================

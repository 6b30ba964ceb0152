----------------------------- MODULE MCEVMFrames -----------------------------
(* Small instances of EVMFrames for TLC. *)
EXTENDS EVMFrames

CONSTANTS a, b, e   \* two contracts and an account without code

\* Some value, held by a contract or by an account without code.
MCValueGenesis ==
  {[c \in Cell |-> IF c = <<owner, Balance>> THEN Supply ELSE 0] : owner \in {a, e}}

\* One storage slot, already set, and no value.
MCStorageGenesis == {[c \in Cell |-> IF c[2] = Balance THEN 0 ELSE 1]}
=============================================================================

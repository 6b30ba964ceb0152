-------------------------------- MODULE MCLibrary --------------------------------
(***************************************************************************)
(* The heap and the transaction builder in one exploration: each moves     *)
(* while the other is at rest, for neither calls the other.                *)
(***************************************************************************)
EXTENDS FibonacciHeap, TransactionBuilder

\* b, n times.
Repeat(b, n) == [i \in 1 .. n |-> b]

MCPlain ==
  [nonce |-> 1, maxPriorityFeePerGas |-> 1, maxFeePerGas |-> 2, gasLimit |-> 21000,
   dst |-> Repeat(1, 20), value |-> 3, calldata |-> <<>>, accessList |-> <<>>]

MCShort ==
  {[MCPlain EXCEPT !.nonce = n, !.maxPriorityFeePerGas = p, !.maxFeePerGas = 1066263560,
                   !.value = v, !.calldata = Repeat(b, k)] :
     n \in {0, 127, 128, 256}, p \in {0, 1000000000}, v \in {0, 16777216},
     b \in {0, 127, 128}, k \in {0, 1, 2, 23, 24, 54, 55}}

\* Strings of 56 bytes and more, lists of 256 and more, access lists.
MCLong ==
  {[MCPlain EXCEPT !.calldata = Repeat(4, k), !.accessList = Repeat(entry, a)] :
     k \in {0, 56, 60, 200, 256, 300}, a \in {0, 1, 2},
     entry \in {[address |-> Repeat(7, 20), storageKeys |-> Repeat(Repeat(9, 32), n)] : n \in 0 .. 2}}

MCRequests   == {MCPlain} \cup MCShort \cup MCLong
MCSignatures == {[v |-> 0, r |-> Repeat(255, 32), s |-> Repeat(3, 31)],
                 [v |-> 1, r |-> <<5>>, s |-> <<>>]}

MCInit == Init /\ BuilderInit

MCNext ==
  \/ stage = "idle" /\ request = MCPlain /\ Next /\ UNCHANGED builderVars
  \/ count = 0 /\ out = 0 /\ BuilderNext /\ UNCHANGED vars

MCSpec == MCInit /\ [][MCNext]_<<vars, builderVars>>
=============================================================================

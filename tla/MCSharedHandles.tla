---------------------------- MODULE MCSharedHandles ----------------------------
(* Small instances of SharedHandles for TLC. *)
EXTENDS SharedHandles

CONSTANTS th1, th2,             \* threads
          bytes1, bytes2, bytes3,
          tx1, tx2              \* transactions

\* Threads are alike, and so are the handles of one class.
Symmetry ==
  {f @@ g : f \in Permutations(Thread),
            g \in {k @@ l : k \in Permutations(Handle \ Transaction),
                            l \in Permutations(Transaction)}}
=============================================================================

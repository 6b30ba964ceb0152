------------------------------ MODULE SerialChain ------------------------------
(***************************************************************************)
(* What threads that execute on one chain may rely on: a call's changes    *)
(* take effect together at one moment, at which all that it read still     *)
(* holds, and nobody is in its way.  Afterwards the provider takes each    *)
(* piece, accounts before storage, and where it refuses one by raising an  *)
(* exception, that piece and those after it are undone.                    *)
(***************************************************************************)
CONSTANTS
  Thread,
  Cell,            \* accounts, and slots of storage
  Value,           \* what a cell may hold
  None,            \* no value
  AccountPieces,   \* cells that one update of the provider stores
  StoragePieces

VARIABLES
  world,           \* what the chain holds
  seen,            \* per thread, what its call has read
  cache,           \* per thread, what its call has made of that
  unsettled        \* per thread, what to restore if the provider raises

serialVars == <<world, seen, cache, unsettled>>

Nothing == [c \in Cell |-> None]

Kept(entries) == {c \in Cell : entries[c] # None}

\* base with entries on top, and entries without some cells.
Over(entries, base)   == [c \in Cell |-> IF entries[c] = None THEN base[c] ELSE entries[c]]
Without(entries, gone) == [c \in Cell |-> IF c \in gone THEN None ELSE entries[c]]

Idle(t) == cache[t] = Nothing /\ unsettled[t] = Nothing

Init ==
  /\ world \in [Cell -> Value]
  /\ seen = [t \in Thread |-> Nothing]
  /\ cache = [t \in Thread |-> Nothing]
  /\ unsettled = [t \in Thread |-> Nothing]

Read(t, c) ==
  /\ cache[t][c] = None /\ unsettled[t] = Nothing
  /\ seen' = [seen EXCEPT ![t] = [@ EXCEPT ![c] = world[c]]]
  /\ cache' = [cache EXCEPT ![t] = [@ EXCEPT ![c] = world[c]]]
  /\ UNCHANGED <<world, unsettled>>

Write(t, c, v) ==
  /\ cache[t][c] # None
  /\ cache' = [cache EXCEPT ![t] = [@ EXCEPT ![c] = v]]
  /\ UNCHANGED <<world, seen, unsettled>>

Close(t) ==
  /\ seen' = [seen EXCEPT ![t] = Nothing]
  /\ cache' = [cache EXCEPT ![t] = Nothing]

Commit(t) ==
  /\ \A c \in Kept(seen[t]) : world[c] = seen[t][c]
  /\ world' = Over(cache[t], world)
  /\ unsettled' = [unsettled EXCEPT ![t] =
                     [c \in Cell |-> IF cache[t][c] = None THEN None ELSE world[c]]]
  /\ Close(t)

\* The call has failed, raised an exception, or was a simulation.
Forget(t) == Close(t) /\ UNCHANGED <<world, unsettled>>

Settle(t, piece) ==
  /\ piece \in StoragePieces
       => \A account \in AccountPieces : account \cap Kept(unsettled[t]) = {}
  /\ unsettled' = [unsettled EXCEPT ![t] = Without(@, piece)]
  /\ UNCHANGED <<world, seen, cache>>

Undo(t) ==
  /\ world' = Over(unsettled[t], world)
  /\ unsettled' = [unsettled EXCEPT ![t] = Nothing]
  /\ UNCHANGED <<seen, cache>>

\* A thread changes the chain outside of any call of its own.
Update(t, c, v) ==
  /\ Idle(t)
  /\ world' = [world EXCEPT ![c] = v]
  /\ UNCHANGED <<seen, cache, unsettled>>

Next ==
  \E t \in Thread :
    \/ Commit(t) \/ Forget(t) \/ Undo(t)
    \/ \E piece \in AccountPieces \cup StoragePieces : Settle(t, piece)
    \/ \E c \in Cell : Read(t, c) \/ \E v \in Value : Write(t, c, v) \/ Update(t, c, v)

Spec == Init /\ [][Next]_serialVars
=============================================================================

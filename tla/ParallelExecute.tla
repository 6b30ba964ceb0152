---------------------------- MODULE ParallelExecute ----------------------------
(***************************************************************************)
(* Python threads that call simulate and execute on one provider, written  *)
(* in Python.  A call gives up the interpreter lock, and takes it again    *)
(* for every callback into the provider and to return.  What contracts     *)
(* compute is any use of the cells, which every thread may read and write. *)
(***************************************************************************)
CONSTANTS
  Thread,
  Nobody,          \* holds no lock
  Cell,            \* accounts, and slots of storage
  Value,
  None,
  AccountPieces,   \* the cells that update_account stores,
  StoragePieces    \* and update_storage_slots, in one call

Pieces == AccountPieces \cup StoragePieces

ASSUME ParallelAssumption ==
  /\ Nobody \notin Thread /\ None \notin Value
  /\ UNION Pieces = Cell
  /\ \A p, q \in Pieces : p # q => p \cap q = {}

VARIABLES
  gil,      \* who holds the interpreter lock
  chain,    \* what the provider has stored
  stage,    \* per thread, "python", "executing", "simulating" or "returning"
  overlay,  \* per thread, the context's cells while it runs, then those yet to
            \* be written to the provider
  seen      \* history: per thread, what the running call has read

parallelVars == <<gil, chain, stage, overlay, seen>>

Nothing == [c \in Cell |-> None]

Kept(entries) == {c \in Cell : entries[c] # None}

Without(entries, gone) == [c \in Cell |-> IF c \in gone THEN None ELSE entries[c]]

InCode(t) == stage[t] \in {"executing", "simulating"}

\* Cells are read before they are written, here and in the code.
ParallelTypeOK ==
  /\ gil \in Thread \cup {Nobody}
  /\ chain \in [Cell -> Value]
  /\ stage \in [Thread -> {"python", "executing", "simulating", "returning"}]
  /\ overlay \in [Thread -> [Cell -> Value \cup {None}]]
  /\ seen \in [Thread -> [Cell -> Value \cup {None}]]
  /\ \A t \in Thread :
       /\ stage[t] = "python" => overlay[t] = Nothing
       /\ InCode(t) => Kept(seen[t]) = Kept(overlay[t])
       /\ ~InCode(t) => seen[t] = Nothing

-----------------------------------------------------------------------------
(* The interpreter lock *)

Unread(t) == {c \in Cell : overlay[t][c] = None}

\* Python asks for the lock whenever it can, the interpreter for callbacks.
Wants(t) == InCode(t) => Unread(t) # {}

Acquire(t) ==
  /\ gil = Nobody /\ Wants(t)
  /\ gil' = t
  /\ UNCHANGED <<chain, stage, overlay, seen>>

\* Python lets others run, between any two of its instructions.
Yield(t) ==
  /\ gil = t
  /\ gil' = Nobody
  /\ UNCHANGED <<chain, stage, overlay, seen>>

-----------------------------------------------------------------------------
(* Calls *)

\* Python changes what the provider holds, through update_account or its own way.
PythonUpdate(t, c, v) ==
  /\ gil = t /\ stage[t] = "python"
  /\ chain' = [chain EXCEPT ![c] = v]
  /\ UNCHANGED <<gil, stage, overlay, seen>>

Call(t, how) ==
  /\ gil = t /\ stage[t] = "python"
  /\ stage' = [stage EXCEPT ![t] = how]
  /\ gil' = Nobody
  /\ UNCHANGED <<chain, overlay, seen>>

\* Mutant of Cached: what a callback returned is not kept.
CachedNot(entries, c, v) == entries

Cached(entries, c, v) == [entries EXCEPT ![c] = v]

ReadCell(t, c) ==
  /\ gil = t /\ InCode(t)
  /\ c \in Unread(t)
  /\ overlay' = [overlay EXCEPT ![t] = Cached(@, c, chain[c])]
  /\ seen' = [seen EXCEPT ![t] = Cached(@, c, chain[c])]
  /\ gil' = Nobody
  /\ UNCHANGED <<chain, stage>>

WriteLocal(t, c, v) ==
  /\ gil # t /\ InCode(t)
  /\ overlay[t][c] # None
  /\ overlay' = [overlay EXCEPT ![t] = [@ EXCEPT ![c] = v]]
  /\ UNCHANGED <<gil, chain, stage, seen>>

\* The code has run: a success of execute is to be stored, the rest is dropped.
Finish(t, success) ==
  /\ gil # t /\ InCode(t)
  /\ stage' = [stage EXCEPT ![t] = "returning"]
  /\ overlay' = IF success /\ stage[t] = "executing" THEN overlay
                ELSE [overlay EXCEPT ![t] = Nothing]
  /\ seen' = [seen EXCEPT ![t] = Nothing]
  /\ UNCHANGED <<gil, chain>>

\* Mutant of Due: accounts and storage are stored in any order.
DueAnyOrder(entries) == {piece \in Pieces : piece \cap Kept(entries) # {}}

\* The pieces of an overlay that may be stored next.
Due(entries) ==
  {piece \in Pieces :
     /\ piece \cap Kept(entries) # {}
     /\ piece \in StoragePieces
          => \A account \in AccountPieces : account \cap Kept(entries) = {}}

WriteBack(t, piece) ==
  /\ gil = t /\ stage[t] = "returning"
  /\ piece \in Due(overlay[t])
  /\ chain' = [c \in Cell |->
                 IF c \in piece /\ overlay[t][c] # None THEN overlay[t][c] ELSE chain[c]]
  /\ overlay' = [overlay EXCEPT ![t] = Without(@, piece)]
  /\ gil' = Nobody
  /\ UNCHANGED <<stage, seen>>

\* A callback raises an exception, which passes through the context.
Throw(t) ==
  /\ gil = t
  /\ InCode(t) \/ Due(overlay[t]) # {}
  /\ stage' = [stage EXCEPT ![t] = "returning"]
  /\ overlay' = [overlay EXCEPT ![t] = Nothing]
  /\ seen' = [seen EXCEPT ![t] = Nothing]
  /\ gil' = Nobody
  /\ UNCHANGED chain

\* Mutant of MayReturn: the call does not wait for its write-back.
MayReturnAtOnce(t) == stage[t] = "returning"

MayReturn(t) == stage[t] = "returning" /\ overlay[t] = Nothing

Return(t) ==
  /\ gil = t /\ MayReturn(t)
  /\ stage' = [stage EXCEPT ![t] = "python"]
  /\ UNCHANGED <<gil, chain, overlay, seen>>

-----------------------------------------------------------------------------

ParallelInit ==
  /\ gil = Nobody
  /\ chain \in [Cell -> Value]
  /\ stage = [t \in Thread |-> "python"]
  /\ overlay = [t \in Thread |-> Nothing]
  /\ seen = [t \in Thread |-> Nothing]

\* What a thread does with the lock before it gives it up or is in Python again.
Callback(t) ==
  \/ \E c \in Cell : ReadCell(t, c)
  \/ \E piece \in Pieces : WriteBack(t, piece)
  \/ Throw(t)
  \/ Return(t)

InPython(t) ==
  \/ \E how \in {"executing", "simulating"} : Call(t, how)
  \/ \E c \in Cell, v \in Value : PythonUpdate(t, c, v)

Ends(t) == \E success \in BOOLEAN : Finish(t, success)

Step(t) ==
  \/ Acquire(t) \/ Yield(t) \/ Callback(t) \/ InPython(t) \/ Ends(t)
  \/ \E c \in Cell, v \in Value : WriteLocal(t, c, v)

ParallelNext == \E t \in Thread : Step(t)

\* Gas ends the code; a thread that is asked for the lock yields it, one that
\* waits for it gets it at some time, and a callback that gets it again and again
\* comes to its end.
Fairness ==
  \A t \in Thread :
    /\ WF_parallelVars(Ends(t)) /\ WF_parallelVars(Yield(t))
    /\ SF_parallelVars(Acquire(t)) /\ SF_parallelVars(Callback(t))

ParallelSpec == ParallelInit /\ [][ParallelNext]_parallelVars
FairSpec     == ParallelSpec /\ Fairness

-----------------------------------------------------------------------------
(* Properties *)

\* An execute has taken effect when its code ends: what remains to be written is
\* part of the world already, and what it replaces could still be restored.
Pending(t) == IF stage[t] = "returning" THEN Kept(overlay[t]) ELSE {}

World ==
  [c \in Cell |->
     IF \E t \in Thread : c \in Pending(t)
     THEN overlay[CHOOSE t \in Thread : c \in Pending(t)][c] ELSE chain[c]]

Cache ==
  [t \in Thread |-> IF stage[t] = "returning" THEN Nothing ELSE overlay[t]]

Unsettled ==
  [t \in Thread |-> [c \in Cell |-> IF c \in Pending(t) THEN chain[c] ELSE None]]

Serial == INSTANCE SerialChain
  WITH world <- World, seen <- seen, cache <- Cache, unsettled <- Unsettled

\* Cells that one thread is to change and another has yet to store.
Contested ==
  {c \in Cell : \E t, u \in Thread :
     t # u /\ c \in Pending(t) \cap Pending(u) /\ overlay[t][c] # chain[c]}

\* A call reads what an execute that has taken effect is yet to replace.
ReadsBehind ==
  \E t \in Thread, c \in Cell :
    seen[t][c] = None /\ seen'[t][c] \notin {None, World[c]}

\* An execute ends, and is to store a cell that is no longer what it has read,
\* or that another is to store as well.
EndsBehind ==
  \E t \in Thread : \E c \in Pending(t)' \ Pending(t) :
    World[c] # seen[t][c] \/ c \in Contested'

\* Others change what an execute is yet to store.
Undermines ==
  \E t \in Thread : \E c \in Pending(t) \cap Pending(t)' : chain'[c] # chain[c]

\* A contested cell is stored, or given up.
SettlesContested ==
  \E t \in Thread : \E c \in Pending(t) \cap Contested : c \notin Pending(t)'

Conflict == ReadsBehind \/ EndsBehind \/ Undermines \/ SettlesContested

\* execute in several threads at once is as good as one execute after the other,
\* although it reads cell by cell, lets others run at every callback, and stores
\* piece by piece, all that it has read, changed or not; an exception of the
\* provider leaves the accounts of a transaction stored without some of its
\* storage, never the other way round.  Nothing keeps threads from using the same
\* cells: the only steps that are not the serial chain's are those at which one
\* of four conflicts over a cell happens, and each excuses no step but its own.
SerialButForConflicts ==
  Serial!Init /\ [][Serial!Next \/ Conflict]_(Serial!serialVars)

\* Every simulate and execute comes back to Python, whatever its callbacks do and
\* however often the lock changes hands.
EveryCallReturns == \A t \in Thread : InCode(t) ~> stage[t] = "python"
=============================================================================

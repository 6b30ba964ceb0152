----------------------------- MODULE SharedHandles -----------------------------
(***************************************************************************)
(* The two reference-counted handle classes: Bytes and EthereumTransaction. *)
(* A handle points to a block on the heap that counts its handles; threads  *)
(* copy, move, assign and destroy handles of their own.  A handle inside an *)
(* object of Python's (a traced call, an account, a transaction) is shared: *)
(* every thread may copy it, and whoever drops the object destroys it.      *)
(* Only the operations on the counts are visible to other threads, so an    *)
(* operation is one step on the handles followed by one step for each       *)
(* atomic operation it makes.                                               *)
(***************************************************************************)
EXTENDS Naturals, Sequences, FiniteSets, SequencesExt

CONSTANTS
  Thread,        \* threads
  Handle,        \* handles
  Shared,        \* owns the handles that every thread may copy
  Transaction,   \* the handles that are EthereumTransactions, not Bytes
  Block,         \* addresses that malloc may return, numbered
  TransactionBlock, \* those it returns for transactions
  Null,          \* nullptr
  Free,          \* not allocated
  RefMod,        \* values of a transaction's uint16_t count
  MaxMoves       \* bound on the number of move assignments of transactions

ASSUME HandleAssumption ==
  /\ IsFiniteSet(Thread)
  /\ Shared \notin Thread
  /\ Transaction \subseteq Handle /\ TransactionBlock \subseteq Block
  /\ Block \subseteq Nat /\ Null \notin Block \cup Handle /\ IsFiniteSet(Block) /\ IsFiniteSet(Handle)
  /\ RefMod \in Nat /\ Free \notin Nat
  /\ MaxMoves \in Nat

VARIABLES
  owner,     \* the thread that may write each handle, or Shared
  storage,   \* Bytes::storage and EthereumTransaction::data
  refs,      \* the count in each block, or Free
  todo,      \* what each thread has still to do for its current operation
  source,    \* the handle that it copies from until it has counted the copy
  moves      \* how many transactions were move-assigned

vars == <<owner, storage, refs, todo, source, moves>>

Operation == [op : {"add", "sub", "free"}, block : Block]

TypeOK ==
  /\ owner \in [Handle -> Thread \cup {Shared}]
  /\ storage \in [Handle -> Block \cup {Null}]
  /\ refs \in [Block -> Nat \cup {Free}]
  /\ todo \in [Thread -> Seq(Operation)]
  /\ source \in [Thread -> Handle \cup {Null}]
  /\ moves \in 0 .. MaxMoves

Allocated == {b \in Block : refs[b] # Free}

Idle(t)        == todo[t] = <<>>
Mine(t, h)     == Idle(t) /\ owner[h] = t
Readable(t, h) == owner[h] \in {t, Shared}
\* The blocks a handle may point to.
BlocksFor(h) == IF h \in Transaction THEN TransactionBlock ELSE Block \ TransactionBlock

SameClass(h, g) == (h \in Transaction) <=> (g \in Transaction)

\* Mutant of On: nullptr is not told from a block.
OnAnyPointer(op, p) == <<[op |-> op, block |-> p]>>

\* The operation on a pointer's count, if there is a block behind it.
On(op, p) == IF p = Null THEN <<>> ELSE <<[op |-> op, block |-> p]>>

Will(t, operations) == todo' = [todo EXCEPT ![t] = operations]

\* A handle with a block behind it is read until the copy is counted.
Reads(t, g) == source' = [source EXCEPT ![t] = IF storage[g] = Null THEN Null ELSE g]

-----------------------------------------------------------------------------
(* Whose a handle is *)

\* A thread hands a handle to Python, inside an object that any thread may reach.
Share(t, h) ==
  /\ Mine(t, h)
  /\ storage[h] # Null
  /\ owner' = [owner EXCEPT ![h] = Shared]
  /\ UNCHANGED <<storage, refs, todo, source, moves>>

\* A thread drops the last reference to such an object: nobody can be reading it.
Take(t, h) ==
  /\ Idle(t) /\ owner[h] = Shared
  /\ \A u \in Thread : source[u] # h
  /\ owner' = [owner EXCEPT ![h] = t]
  /\ UNCHANGED <<storage, refs, todo, source, moves>>

-----------------------------------------------------------------------------
(* Handles *)

Construct(t, h) ==
  /\ Mine(t, h)
  /\ storage[h] = Null
  /\ \E b \in BlocksFor(h) \ Allocated :
       /\ \A c \in BlocksFor(h) \ Allocated : b <= c
       /\ storage' = [storage EXCEPT ![h] = b]
       /\ refs' = [refs EXCEPT ![b] = 1]
  /\ UNCHANGED <<owner, todo, source, moves>>

CopyConstruct(t, h, g) ==
  /\ Mine(t, h) /\ Readable(t, g) /\ SameClass(h, g)
  /\ storage[h] = Null
  /\ storage' = [storage EXCEPT ![h] = storage[g]]
  /\ Will(t, On("add", storage[g])) /\ Reads(t, g)
  /\ UNCHANGED <<owner, refs, moves>>

MoveConstruct(t, h, g) ==
  /\ Mine(t, h) /\ Mine(t, g) /\ SameClass(h, g)
  /\ storage[h] = Null
  /\ storage' = [storage EXCEPT ![g] = Null, ![h] = storage[g]]
  /\ UNCHANGED <<owner, refs, todo, source, moves>>

CopyAssign(t, h, g) ==
  /\ Mine(t, h) /\ Readable(t, g) /\ SameClass(h, g)
  /\ storage[h] # storage[g]
  /\ storage' = [storage EXCEPT ![h] = storage[g]]
  /\ Will(t, On("sub", storage[h]) \o On("add", storage[g])) /\ Reads(t, g)
  /\ UNCHANGED <<owner, refs, moves>>

\* Of Bytes: also of a handle to itself, which loses its block.
MoveAssignBytes(t, h, g) ==
  /\ Mine(t, h) /\ Mine(t, g) /\ {h, g} \cap Transaction = {}
  /\ storage' = [storage EXCEPT ![h] = storage[g], ![g] = Null]
  /\ Will(t, On("sub", storage[h]))
  /\ UNCHANGED <<owner, refs, source, moves>>

\* Mutant of MoveAssignTransaction: the count stays and the other handle does
\* not let go.
MoveAssignTransactionKeeps(t, h, g) ==
  /\ Mine(t, h) /\ Mine(t, g) /\ {h, g} \subseteq Transaction
  /\ moves < MaxMoves
  /\ moves' = moves + 1
  /\ storage[h] # storage[g]
  /\ storage' = [storage EXCEPT ![h] = storage[g]]
  /\ Will(t, On("sub", storage[h]))
  /\ UNCHANGED <<owner, refs, source>>

\* Of transactions: the count goes up although the other handle lets go.
MoveAssignTransaction(t, h, g) ==
  /\ Mine(t, h) /\ Mine(t, g) /\ {h, g} \subseteq Transaction
  /\ moves < MaxMoves
  /\ moves' = moves + 1
  /\ storage[h] # storage[g]
  /\ storage' = [storage EXCEPT ![h] = storage[g], ![g] = Null]
  /\ Will(t, On("sub", storage[h]) \o On("add", storage[g]))
  /\ UNCHANGED <<owner, refs, source>>

Destroy(t, h) ==
  /\ Mine(t, h)
  /\ storage[h] # Null
  /\ storage' = [storage EXCEPT ![h] = Null]
  /\ Will(t, On("sub", storage[h]))
  /\ UNCHANGED <<owner, refs, source, moves>>

\* fetch_add and fetch_sub; who takes the count from one to zero must free.
Counted(b, n) == IF b \in TransactionBlock THEN n % RefMod ELSE n

Add(t) ==
  /\ ~Idle(t)
  /\ Head(todo[t]).op = "add"
  /\ LET b == Head(todo[t]).block
     IN  refs' = [refs EXCEPT ![b] = Counted(b, @ + 1)]
  /\ Will(t, Tail(todo[t]))
  /\ source' = [source EXCEPT ![t] = Null]
  /\ UNCHANGED <<owner, storage, moves>>

\* Mutant of Sub: finds out whether it is the last before it decrements.
SubIfNotLast(t) ==
  /\ ~Idle(t)
  /\ Head(todo[t]).op \in {"sub", "lower"}
  /\ LET b == Head(todo[t]).block
     IN  IF Head(todo[t]).op = "lower" \/ refs[b] = 1
         THEN /\ refs' = [refs EXCEPT ![b] = @ - 1]
              /\ Will(t, IF Head(todo[t]).op = "lower" THEN Tail(Tail(todo[t]))
                         ELSE On("free", b) \o Tail(todo[t]))
         ELSE /\ Will(t, On("lower", b) \o todo[t])
              /\ UNCHANGED refs
  /\ UNCHANGED <<owner, storage, source, moves>>

\* Mutant of Sub: decrements, and decides by a second read of the count.
SubThenRead(t) ==
  /\ ~Idle(t)
  /\ Head(todo[t]).op \in {"sub", "read"}
  /\ LET b == Head(todo[t]).block
     IN  IF Head(todo[t]).op = "sub"
         THEN /\ refs' = [refs EXCEPT ![b] = @ - 1]
              /\ Will(t, On("read", b) \o Tail(todo[t]))
         ELSE /\ Will(t, (IF refs[b] = 0 THEN On("free", b) ELSE <<>>) \o Tail(todo[t]))
              /\ UNCHANGED <<owner, refs, source>>
  /\ UNCHANGED <<owner, storage, source, moves>>

Sub(t) ==
  /\ ~Idle(t)
  /\ Head(todo[t]).op = "sub"
  /\ LET b == Head(todo[t]).block
     IN  /\ refs' = [refs EXCEPT ![b] = @ - 1]
         /\ Will(t, (IF refs[b] = 1 THEN On("free", b) ELSE <<>>) \o Tail(todo[t]))
  /\ UNCHANGED <<owner, storage, source, moves>>

Release(t) ==
  /\ ~Idle(t)
  /\ Head(todo[t]).op = "free"
  /\ refs' = [refs EXCEPT ![Head(todo[t]).block] = Free]
  /\ Will(t, Tail(todo[t]))
  /\ UNCHANGED <<owner, storage, source, moves>>

-----------------------------------------------------------------------------

Init ==
  /\ owner \in [Handle -> Thread]
  /\ storage = [h \in Handle |-> Null]
  /\ refs = [b \in Block |-> Free]
  /\ todo = [t \in Thread |-> <<>>]
  /\ source = [t \in Thread |-> Null]
  /\ moves = 0

Next ==
  \E t \in Thread :
    \/ \E h \in Handle : Construct(t, h) \/ Destroy(t, h) \/ Share(t, h) \/ Take(t, h)
    \/ \E h, g \in Handle :
         \/ CopyConstruct(t, h, g)
         \/ MoveConstruct(t, h, g)
         \/ CopyAssign(t, h, g)
         \/ MoveAssignBytes(t, h, g)
         \/ MoveAssignTransaction(t, h, g)
    \/ Add(t)
    \/ Sub(t)
    \/ Release(t)

Spec == Init /\ [][Next]_vars

-----------------------------------------------------------------------------
(* Properties *)

HandlesOf(b) == {h \in Handle : storage[h] = b}

Pending(op, b) ==
  {w \in Thread \X (1 .. 3) :
     w[2] <= Len(todo[w[1]]) /\ todo[w[1]][w[2]] = [op |-> op, block |-> b]}

\* Nothing is used after it was freed, or freed twice: a block that a handle
\* points to, or on which a thread has an operation to do, is allocated.
NeverUsedAfterFree ==
  \A b \in Block :
    refs[b] = Free =>
      HandlesOf(b) = {} /\ \A op \in {"add", "sub", "free"} : Pending(op, b) = {}

\* The count of a Bytes block is the number of its handles, allowing for the
\* operations that threads have still to do; it is zero exactly when one thread
\* is about to free the block, so nothing leaks.
BytesCountHandles ==
  \A b \in Allocated \ TransactionBlock :
    /\ refs[b] + Cardinality(Pending("add", b))
         = Cardinality(HandlesOf(b)) + Cardinality(Pending("sub", b))
    /\ Cardinality(Pending("free", b)) = (IF refs[b] = 0 THEN 1 ELSE 0)

\* The count of a transaction is never below the number of its handles, as
\* long as the moves that leave it too high are fewer than a uint16_t counts.
TransactionsCountEnough ==
  \A b \in Allocated \cap TransactionBlock :
    refs[b] + Cardinality(Pending("add", b))
      >= Cardinality(HandlesOf(b)) + Cardinality(Pending("sub", b))
=============================================================================

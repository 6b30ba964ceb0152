------------------------- MODULE SharedHandles_proofs -------------------------
(***************************************************************************)
(* The count of a Bytes block is right at every moment, for any threads    *)
(* and handles, shared or handed from one thread to another.  The argument: *)
(* a thread that has still to add one holds a handle of the block and reads *)
(* another, its own or one that nobody takes meanwhile, so that the count  *)
(* cannot reach zero before it adds.  A count of a  *)
(* transaction is never too low, by the same argument and because each     *)
(* move that leaves it too high leaves it too high by one.                 *)
(***************************************************************************)
EXTENDS SharedHandles, FiniteSetTheorems, TLAPS

BytesBlock == Block \ TransactionBlock

Due(op, b) == [op |-> op, block |-> b]

\* Threads that have an operation on b to do.
Waiting(op, b) ==
  {t \in Thread : \E i \in 1 .. Len(todo[t]) : todo[t][i] = Due(op, b)}

\* At most two operations wait, on different blocks, and an addition is the last.
Queued(ops) ==
  /\ ops \in Seq(Operation) /\ Len(ops) <= 2
  /\ Len(ops) = 2 => ops[1].block # ops[2].block /\ ops[1].op # "add"

Typed ==
  /\ owner \in [Handle -> Thread \cup {Shared}]
  /\ source \in [Thread -> Handle \cup {Null}]
  /\ storage \in [Handle -> Block \cup {Null}]
  /\ \A h \in Handle : storage[h] # Null => storage[h] \in BlocksFor(h)
  /\ DOMAIN refs = Block /\ refs = [b \in Block |-> refs[b]]
  /\ todo \in [Thread -> Seq(Operation)]
  /\ \A t \in Thread : Queued(todo[t])

\* Who has to add one has written a handle of its own, and the other, which it
\* copied, still points to the block and is its own or shared.
AdderHolds(t, b) ==
  \E h, g \in Handle :
    /\ h # g /\ owner[h] = t /\ owner[g] \in {t, Shared} /\ source[t] = g
    /\ storage[h] = b /\ storage[g] = b

AddersHold ==
  \A b \in BytesBlock : \A t \in Waiting("add", b) : AdderHolds(t, b)

Unused(b) == HandlesOf(b) = {} /\ \A op \in {"add", "sub", "free"} : Waiting(op, b) = {}

Balanced(b) ==
  /\ refs[b] \in Nat
  /\ refs[b] + Cardinality(Waiting("add", b))
       = Cardinality(HandlesOf(b)) + Cardinality(Waiting("sub", b))
  /\ Cardinality(Waiting("free", b)) = (IF refs[b] = 0 THEN 1 ELSE 0)

CountsHold == \A b \in BytesBlock : IF refs[b] = Free THEN Unused(b) ELSE Balanced(b)

Inv == Typed /\ AddersHold /\ CountsHold

-----------------------------------------------------------------------------
(* Finite sets of handles and threads *)

LEMMA Finite ==
  \A b, op : IsFiniteSet(HandlesOf(b)) /\ IsFiniteSet(Waiting(op, b))
<1> TAKE b, op
<1>1. HandlesOf(b) \in SUBSET Handle /\ Waiting(op, b) \in SUBSET Thread
  BY DEF HandlesOf, Waiting
<1> QED BY <1>1, HandleAssumption, FS_Subset

LEMMA FiniteNext ==
  \A b, op : IsFiniteSet(HandlesOf(b)') /\ IsFiniteSet(Waiting(op, b)')
<1> TAKE b, op
<1>1. HandlesOf(b)' \in SUBSET Handle /\ Waiting(op, b)' \in SUBSET Thread
  BY DEF HandlesOf, Waiting
<1> QED BY <1>1, HandleAssumption, FS_Subset

\* Threads that hold two handles of a block are fewer than its handles.
LEMMA HoldersAreFewer ==
  ASSUME NEW b, NEW A \in SUBSET Thread, A # {}, \A t \in A : AdderHolds(t, b)
  PROVE  Cardinality(A) < Cardinality(HandlesOf(b))
<1> DEFINE H == HandlesOf(b)
           f == [t \in A |-> CHOOSE h \in H : owner[h] = t]
<1>1. \A t \in A : \E h \in H : owner[h] = t
  BY DEF AdderHolds, HandlesOf
<1>2. \A t \in A : f[t] \in H /\ owner[f[t]] = t
  BY <1>1
<1>3. PICK t \in A : TRUE
  OBVIOUS
<1>4. PICK h, g \in Handle : /\ h # g /\ owner[h] = t /\ owner[g] \in {t, Shared}
                             /\ storage[h] = b /\ storage[g] = b
  BY <1>3 DEF AdderHolds
<1>5. ASSUME \A u \in A : f[u] # g
      PROVE  \E k \in H : \A u \in A : f[u] # k
  BY <1>4, <1>5 DEF HandlesOf
<1>6. ASSUME NEW u \in A, f[u] = g
      PROVE  \E k \in H : \A v \in A : f[v] # k
  <2>1. owner[g] = u
    BY <1>2, <1>6
  <2>2. u = t
    BY <2>1, <1>4, HandleAssumption
  <2>3. \A v \in A : f[v] # h
    BY <1>2, <1>4, <1>6, <2>2
  <2> QED BY <2>3, <1>4 DEF HandlesOf
<1>7. PICK k \in H : \A u \in A : f[u] # k
  BY <1>5, <1>6
<1>8. f \in Injection(A, H \ {k})
  <2>1. f \in [A -> H \ {k}]
    BY <1>2, <1>7
  <2>2. \A u, v \in A : f[u] = f[v] => u = v
    BY <1>2
  <2> HIDE DEF f
  <2> QED BY <2>1, <2>2 DEF Injection, IsInjective
<1>9. IsFiniteSet(H) /\ IsFiniteSet(A)
  BY Finite, FS_Subset, HandleAssumption
<1>10. IsFiniteSet(H \ {k}) /\ Cardinality(H \ {k}) = Cardinality(H) - 1
  BY <1>7, <1>9, FS_RemoveElement
<1>11. Cardinality(A) <= Cardinality(H \ {k})
  <2> HIDE DEF f, H
  <2> QED BY <1>8, <1>10, FS_Injection
<1>12. Cardinality(A) \in Nat /\ Cardinality(H) \in Nat
  BY <1>9, FS_CardinalityType
<1> QED BY <1>10, <1>11, <1>12

\* Fewer threads have one to add than there are handles, if any has.
LEMMA AddersAreFewer ==
  ASSUME Typed, AddersHold, NEW b \in BytesBlock, Waiting("add", b) # {}
  PROVE  Cardinality(Waiting("add", b)) < Cardinality(HandlesOf(b))
<1>1. Waiting("add", b) \in SUBSET Thread /\ \A t \in Waiting("add", b) : AdderHolds(t, b)
  BY DEF Waiting, AddersHold
<1> QED BY <1>1, HoldersAreFewer

\* So a count of zero leaves nothing behind, and what waits has something to
\* count with.
LEMMA CountIsPositive ==
  ASSUME Inv, NEW b \in BytesBlock, refs[b] # Free,
         Waiting("add", b) # {} \/ Waiting("sub", b) # {} \/ HandlesOf(b) # {}
  PROVE  refs[b] \in Nat /\ refs[b] > 0
<1>1. Balanced(b)
  BY DEF Inv, CountsHold
<1>2. /\ IsFiniteSet(HandlesOf(b)) /\ IsFiniteSet(Waiting("add", b)) /\ IsFiniteSet(Waiting("sub", b))
  BY Finite
<1>3. /\ Cardinality(Waiting("add", b)) \in Nat /\ Cardinality(Waiting("sub", b)) \in Nat
      /\ Cardinality(HandlesOf(b)) \in Nat
      /\ Cardinality(Waiting("sub", b)) = 0 <=> Waiting("sub", b) = {}
      /\ Cardinality(Waiting("add", b)) = 0 <=> Waiting("add", b) = {}
      /\ Cardinality(HandlesOf(b)) = 0 <=> HandlesOf(b) = {}
  BY <1>2, FS_CardinalityType, FS_EmptySet
<1>4. Waiting("add", b) # {} => Cardinality(Waiting("add", b)) < Cardinality(HandlesOf(b))
  BY AddersAreFewer DEF Inv
<1>5. \A n, a, h, s \in Nat :
        /\ n + a = h + s /\ (a # 0 => a < h) /\ (a # 0 \/ s # 0 \/ h # 0)
        => n > 0
  OBVIOUS
<1>6. refs[b] \in Nat /\ refs[b] + Cardinality(Waiting("add", b))
        = Cardinality(HandlesOf(b)) + Cardinality(Waiting("sub", b))
  BY <1>1 DEF Balanced
<1>7. Cardinality(Waiting("add", b)) # 0 \/ Cardinality(Waiting("sub", b)) # 0
        \/ Cardinality(HandlesOf(b)) # 0
  BY <1>3
<1>8. Cardinality(Waiting("add", b)) # 0
        => Cardinality(Waiting("add", b)) < Cardinality(HandlesOf(b))
  BY <1>3, <1>4
<1> QED BY <1>3, <1>5, <1>6, <1>7, <1>8

-----------------------------------------------------------------------------
(* Threads that wait, and blocks that keep their balance, after a step *)

LEMMA WaitingAfter ==
  ASSUME Typed, NEW t \in Thread, NEW ops \in Seq(Operation), Will(t, ops)
  PROVE  \A op, b :
           Waiting(op, b)' = (Waiting(op, b) \ {t})
             \cup IF \E i \in 1 .. Len(ops) : ops[i] = Due(op, b) THEN {t} ELSE {}
<1>1. todo' = [todo EXCEPT ![t] = ops] /\ todo \in [Thread -> Seq(Operation)]
  BY DEF Will, Typed
<1>2. todo'[t] = ops /\ \A u \in Thread \ {t} : todo'[u] = todo[u]
  BY <1>1
<1> QED BY <1>2 DEF Waiting

\* A thread that is idle waits for nothing.
LEMMA IdleWaitsNot ==
  ASSUME NEW t \in Thread, Idle(t)
  PROVE  \A op, b : t \notin Waiting(op, b)
BY DEF Idle, Waiting

DropsAndAdds(ops, p, q) ==
  /\ ops \in Seq(Operation) /\ Queued(ops)
  /\ \A b \in Block :
       /\ (\E i \in 1 .. Len(ops) : ops[i] = Due("sub", b)) <=> b = p
       /\ (\E i \in 1 .. Len(ops) : ops[i] = Due("add", b)) <=> b = q
       /\ ~ \E i \in 1 .. Len(ops) : ops[i] = Due("free", b)

\* What a thread queues: it drops p and adds to q.
LEMMA QueueOf ==
  ASSUME NEW p \in Block \cup {Null}, NEW q \in Block \cup {Null}, p # q \/ q = Null,
         NEW ops, ops = On("sub", p) \o On("add", q)
  PROVE  DropsAndAdds(ops, p, q)
<1> USE DEF DropsAndAdds
<1> DEFINE drops == On("sub", p)
           adds  == On("add", q)
<1>0. Null \notin Block
  BY HandleAssumption
<1>1. /\ drops \in Seq(Operation)
      /\ p = Null => Len(drops) = 0
      /\ p # Null => Len(drops) = 1 /\ drops[1] = Due("sub", p)
  <2>1. CASE p = Null
    BY <2>1 DEF On
  <2>2. CASE p # Null
    <3>1. drops = <<Due("sub", p)>>
      BY <2>2 DEF On, Due
    <3>2. Due("sub", p) \in Operation
      BY <2>2 DEF Due, Operation
    <3> HIDE DEF drops
    <3> QED BY <3>1, <3>2, <2>2
  <2> QED BY <2>1, <2>2
<1>2. /\ adds \in Seq(Operation)
      /\ q = Null => Len(adds) = 0
      /\ q # Null => Len(adds) = 1 /\ adds[1] = Due("add", q)
  <2>1. CASE q = Null
    BY <2>1 DEF On
  <2>2. CASE q # Null
    <3>1. adds = <<Due("add", q)>>
      BY <2>2 DEF On, Due
    <3>2. Due("add", q) \in Operation
      BY <2>2 DEF Due, Operation
    <3> HIDE DEF adds
    <3> QED BY <3>1, <3>2, <2>2
  <2> QED BY <2>1, <2>2
<1> HIDE DEF drops, adds
<1>3. /\ ops \in Seq(Operation) /\ Len(ops) = Len(drops) + Len(adds)
      /\ \A i \in 1 .. Len(ops) :
           ops[i] = IF i <= Len(drops) THEN drops[i] ELSE adds[i - Len(drops)]
  BY <1>1, <1>2 DEF drops, adds
<1>4. \A op, b, u, c : Due(op, b) = Due(u, c) <=> op = u /\ b = c
  BY DEF Due
<1>5. \A op, b : Due(op, b).block = b
  BY DEF Due
<1>6. CASE p = Null /\ q = Null
  BY <1>0, <1>1, <1>2, <1>3, <1>6 DEF Queued
<1>7. CASE p # Null /\ q = Null
  <2>1. Len(ops) = 1 /\ ops[1] = Due("sub", p)
    BY <1>1, <1>2, <1>3, <1>7
  <2> QED BY <2>1, <1>0, <1>3, <1>4, <1>7 DEF Queued
<1>8. CASE p = Null /\ q # Null
  <2>1. Len(ops) = 1 /\ ops[1] = Due("add", q)
    BY <1>1, <1>2, <1>3, <1>8
  <2> QED BY <2>1, <1>0, <1>3, <1>4, <1>8 DEF Queued
<1>9. CASE p # Null /\ q # Null
  <2>0. Len(drops) = 1 /\ Len(adds) = 1 /\ drops[1] = Due("sub", p) /\ adds[1] = Due("add", q)
    BY <1>1, <1>2, <1>9
  <2>1. Len(ops) = 2 /\ ops[1] = Due("sub", p) /\ ops[2] = Due("add", q)
    BY <2>0, <1>3
  <2>2. \A i \in 1 .. Len(ops) : i = 1 \/ i = 2
    BY <2>1
  <2>3. ops[1].op # "add" /\ ops[1].block # ops[2].block
    BY <2>1, <1>5, <1>9 DEF Due
  <2>4. Queued(ops)
    BY <2>1, <2>3, <1>3 DEF Queued
  <2>5. 1 \in 1 .. Len(ops) /\ 2 \in 1 .. Len(ops)
    BY <2>1
  <2> QED BY SMTT(30), <2>1, <2>2, <2>4, <2>5, <1>3, <1>4
<1> QED BY <1>6, <1>7, <1>8, <1>9

\* To drop is to drop and add to nothing.
LEMMA DropsOnly ==
  ASSUME NEW p \in Block \cup {Null}
  PROVE  On("sub", p) = On("sub", p) \o On("add", Null)
<1>1. On("add", Null) = <<>>
  BY DEF On
<1>2. CASE p = Null
  BY <1>1, <1>2 DEF On
<1>3. CASE p # Null
  <2>1. PICK x : x = Due("sub", p)
    OBVIOUS
  <2>2. On("sub", p) = <<x>>
    BY <1>3, <2>1 DEF On, Due
  <2>3. \A z : z = <<x>> => z = z \o <<>>
    OBVIOUS
  <2> QED BY <2>2, <2>3, <1>1
<1> QED BY <1>2, <1>3

\* A block whose count and whose sets stay as they are keeps its balance.
LEMMA KeepsBalance ==
  ASSUME Inv, NEW b \in BytesBlock, refs'[b] = refs[b],
         HandlesOf(b)' = HandlesOf(b),
         \A op \in {"add", "sub", "free"} : Waiting(op, b)' = Waiting(op, b)
  PROVE  IF refs'[b] = Free THEN Unused(b)' ELSE Balanced(b)'
BY DEF Inv, CountsHold, Unused, Balanced

\* One handle less, and one thread more that will say so.
LEMMA DropKeepsBalance ==
  ASSUME Inv, NEW b \in BytesBlock, refs'[b] = refs[b],
         NEW h \in HandlesOf(b), HandlesOf(b)' = HandlesOf(b) \ {h},
         NEW t, t \notin Waiting("sub", b), Waiting("sub", b)' = Waiting("sub", b) \cup {t},
         \A op \in {"add", "free"} : Waiting(op, b)' = Waiting(op, b)
  PROVE  IF refs'[b] = Free THEN Unused(b)' ELSE Balanced(b)'
<1>1. refs[b] # Free /\ Balanced(b)
  BY DEF Inv, CountsHold, Unused
<1>2. Cardinality(HandlesOf(b)') = Cardinality(HandlesOf(b)) - 1
  BY Finite, FS_RemoveElement
<1>3. Cardinality(Waiting("sub", b)') = Cardinality(Waiting("sub", b)) + 1
  BY Finite, FS_AddElement
<1>4. /\ Cardinality(HandlesOf(b)) \in Nat /\ Cardinality(Waiting("sub", b)) \in Nat
      /\ Cardinality(Waiting("add", b)) \in Nat
  BY Finite, FS_CardinalityType
<1>5. /\ Cardinality(Waiting("add", b)') = Cardinality(Waiting("add", b))
      /\ Cardinality(Waiting("free", b)') = Cardinality(Waiting("free", b))
  OBVIOUS
<1> QED BY <1>1, <1>2, <1>3, <1>4, <1>5 DEF Balanced

\* One handle more, and one thread more that will say so.
LEMMA CopyKeepsBalance ==
  ASSUME Inv, NEW b \in BytesBlock, refs'[b] = refs[b], HandlesOf(b) # {},
         NEW h, h \notin HandlesOf(b), HandlesOf(b)' = HandlesOf(b) \cup {h},
         NEW t, t \notin Waiting("add", b), Waiting("add", b)' = Waiting("add", b) \cup {t},
         \A op \in {"sub", "free"} : Waiting(op, b)' = Waiting(op, b)
  PROVE  IF refs'[b] = Free THEN Unused(b)' ELSE Balanced(b)'
<1>1. refs[b] # Free /\ Balanced(b)
  BY DEF Inv, CountsHold, Unused
<1>2. Cardinality(HandlesOf(b)') = Cardinality(HandlesOf(b)) + 1
  BY Finite, FS_AddElement
<1>3. Cardinality(Waiting("add", b)') = Cardinality(Waiting("add", b)) + 1
  BY Finite, FS_AddElement
<1>4. /\ Cardinality(HandlesOf(b)) \in Nat /\ Cardinality(Waiting("sub", b)) \in Nat
      /\ Cardinality(Waiting("add", b)) \in Nat
  BY Finite, FS_CardinalityType
<1>5. /\ Cardinality(Waiting("sub", b)') = Cardinality(Waiting("sub", b))
      /\ Cardinality(Waiting("free", b)') = Cardinality(Waiting("free", b))
  OBVIOUS
<1> QED BY <1>1, <1>2, <1>3, <1>4, <1>5 DEF Balanced

\* One handle for another.
LEMMA MoveKeepsBalance ==
  ASSUME Inv, NEW b \in BytesBlock, refs'[b] = refs[b],
         NEW g \in HandlesOf(b), NEW h, h \notin HandlesOf(b),
         HandlesOf(b)' = (HandlesOf(b) \ {g}) \cup {h},
         \A op \in {"add", "sub", "free"} : Waiting(op, b)' = Waiting(op, b)
  PROVE  IF refs'[b] = Free THEN Unused(b)' ELSE Balanced(b)'
<1>1. refs[b] # Free /\ Balanced(b)
  BY DEF Inv, CountsHold, Unused
<1>2. /\ IsFiniteSet(HandlesOf(b) \ {g})
      /\ Cardinality(HandlesOf(b) \ {g}) = Cardinality(HandlesOf(b)) - 1
  BY Finite, FS_RemoveElement
<1>3. h \notin HandlesOf(b) \ {g}
  OBVIOUS
<1>4. Cardinality((HandlesOf(b) \ {g}) \cup {h}) = Cardinality(HandlesOf(b) \ {g}) + 1
  BY <1>2, <1>3, FS_AddElement
<1>5. Cardinality(HandlesOf(b)) \in Nat
  BY Finite, FS_CardinalityType
<1>6. Cardinality(HandlesOf(b)') = Cardinality(HandlesOf(b))
  BY <1>2, <1>4, <1>5
<1> QED BY <1>1, <1>6 DEF Balanced

-----------------------------------------------------------------------------
(* Operations on handles *)

\* Threads other than t keep the handles they need.
LEMMA OthersHold ==
  ASSUME Inv, NEW t \in Thread,
         \A h \in Handle : owner[h] # t => storage'[h] = storage[h],
         \A h \in Handle : owner[h] # t => owner'[h] = owner[h],
         NEW b \in BytesBlock, NEW u \in Waiting("add", b), u # t, source'[u] = source[u]
  PROVE  AdderHolds(u, b)'
<1>1. PICK h, g \in Handle :
        /\ h # g /\ owner[h] = u /\ owner[g] \in {u, Shared} /\ source[u] = g
        /\ storage[h] = b /\ storage[g] = b
  BY DEF Inv, AddersHold, AdderHolds
<1>2. owner[h] # t /\ owner[g] # t
  BY <1>1, HandleAssumption
<1> QED BY <1>1, <1>2 DEF AdderHolds

\* The type of source, and what it says of the threads other than t.
SourceBy(t) ==
  /\ source' \in [Thread -> Handle \cup {Null}]
  /\ \A u \in Thread \ {t} : source'[u] = source[u]

LEMMA SameSource ==
  ASSUME Typed, source' = source, NEW t
  PROVE  SourceBy(t)
BY DEF Typed, SourceBy

LEMMA ReadsIsBy ==
  ASSUME Typed, NEW t \in Thread, NEW g \in Handle, Reads(t, g)
  PROVE  SourceBy(t) /\ (storage[g] # Null => source'[t] = g)
BY DEF Typed, Reads, SourceBy

LEMMA QueuedAfter ==
  ASSUME Typed, NEW t \in Thread, NEW ops \in Seq(Operation), Queued(ops), Will(t, ops)
  PROVE  /\ todo' \in [Thread -> Seq(Operation)]
         /\ \A u \in Thread : Queued(todo'[u])
BY DEF Typed, Will

\* h lets go of p and points to q, to which some other handle points as well.
LEMMA PointKeepsInv ==
  ASSUME Inv, NEW t \in Thread, NEW h \in Handle, Mine(t, h),
         NEW p, p = storage[h],
         NEW q \in Block \cup {Null}, p # q \/ q = Null,
         q # Null => q \in BlocksFor(h)
                     /\ \E g \in Handle : /\ g # h /\ Readable(t, g) /\ storage[g] = q
                                         /\ source'[t] = g,
         storage' = [storage EXCEPT ![h] = q], owner' = owner, SourceBy(t),
         Will(t, On("sub", p) \o On("add", q)), refs' = refs
  PROVE  Inv'
<1>0. PICK ops : ops = On("sub", p) \o On("add", q)
  OBVIOUS
<1>1. Typed /\ p \in Block \cup {Null} /\ Null \notin Block
  BY HandleAssumption DEF Inv, Typed
<1>2. DropsAndAdds(ops, p, q)
  BY <1>0, <1>1, QueueOf
<1>3. Will(t, ops)
  BY <1>0
<1>4. \A op, b : /\ t \notin Waiting(op, b)
                 /\ Waiting(op, b)' =
                      IF \E i \in 1 .. Len(ops) : ops[i] = Due(op, b)
                      THEN Waiting(op, b) \cup {t} ELSE Waiting(op, b)
  <2> TAKE op, b
  <2>1. t \notin Waiting(op, b)
    BY IdleWaitsNot DEF Mine
  <2>2. ops \in Seq(Operation)
    BY <1>2 DEF DropsAndAdds
  <2>3. Waiting(op, b)' = (Waiting(op, b) \ {t})
          \cup IF \E i \in 1 .. Len(ops) : ops[i] = Due(op, b) THEN {t} ELSE {}
    BY <1>1, <1>3, <2>2, WaitingAfter
  <2> QED BY <2>1, <2>3
<1>5. \A b \in Block :
        /\ Waiting("free", b)' = Waiting("free", b)
        /\ Waiting("sub", b)' = IF b = p THEN Waiting("sub", b) \cup {t} ELSE Waiting("sub", b)
        /\ Waiting("add", b)' = IF b = q THEN Waiting("add", b) \cup {t} ELSE Waiting("add", b)
  BY <1>2, <1>4 DEF DropsAndAdds
<1>6. \A b \in Block : HandlesOf(b)' =
        IF b = q THEN HandlesOf(b) \cup {h} ELSE IF b = p THEN HandlesOf(b) \ {h} ELSE HandlesOf(b)
  BY <1>1 DEF HandlesOf, Typed
<1>7. Typed'
  <2>1. /\ storage' \in [Handle -> Block \cup {Null}]
        /\ \A k \in Handle : storage'[k] # Null => storage'[k] \in BlocksFor(k)
    BY <1>1 DEF Typed
  <2>2. /\ todo' \in [Thread -> Seq(Operation)]
        /\ \A u \in Thread : Queued(todo'[u])
    BY <1>1, <1>2, <1>3, QueuedAfter DEF DropsAndAdds
  <2> QED BY <2>1, <2>2, <1>1 DEF Typed, BlocksFor, Queued, SourceBy
<1>8. AddersHold'
  <2> SUFFICES ASSUME NEW b \in BytesBlock, NEW u \in Waiting("add", b)'
               PROVE  AdderHolds(u, b)'
    BY DEF AddersHold
  <2>1. b \in Block
    BY DEF BytesBlock
  <2>2. CASE u = t
    <3>1. b = q
      BY <2>1, <2>2, <1>4, <1>5
    <3>2. PICK g \in Handle : g # h /\ Readable(t, g) /\ storage[g] = q /\ source'[t] = g
      BY <3>1, <2>1, <1>1
    <3>3. storage'[h] = b /\ storage'[g] = b
      BY <3>1, <3>2, <1>1 DEF Typed
    <3>4. owner'[h] = u /\ owner'[g] \in {u, Shared} /\ source'[u] = g
      BY <2>2, <3>2 DEF Mine, Readable
    <3> QED BY <3>2, <3>3, <3>4 DEF AdderHolds
  <2>3. CASE u # t
    <3>1. u \in Waiting("add", b)
      BY <2>1, <2>3, <1>5
    <3>2. \A k \in Handle : owner[k] # t => storage'[k] = storage[k] /\ owner'[k] = owner[k]
      BY <1>1 DEF Mine, Typed
    <3>3. source'[u] = source[u]
      BY <3>1, <2>3 DEF SourceBy, Waiting
    <3> QED BY <3>1, <3>2, <3>3, <2>3, OthersHold
  <2> QED BY <2>2, <2>3
<1>9. CountsHold'
  <2> SUFFICES ASSUME NEW b \in BytesBlock
               PROVE  IF refs'[b] = Free THEN Unused(b)' ELSE Balanced(b)'
    BY DEF CountsHold
  <2>0. b \in Block /\ refs'[b] = refs[b]
    BY DEF BytesBlock
  <2>1. CASE b # p /\ b # q
    BY <2>0, <2>1, <1>5, <1>6, KeepsBalance
  <2>2. CASE b = p /\ b # q
    <3>1. h \in HandlesOf(b)
      BY <2>2 DEF HandlesOf
    <3> QED BY <3>1, <2>0, <2>2, <1>4, <1>5, <1>6, DropKeepsBalance
  <2>3. CASE b = q
    <3>1. b # p
      BY <2>0, <2>3, <1>1
    <3>2. HandlesOf(b) # {} /\ h \notin HandlesOf(b)
      BY <2>0, <2>3, <3>1, <1>1 DEF HandlesOf
    <3>3. HandlesOf(b)' = HandlesOf(b) \cup {h}
      BY <2>0, <2>3, <1>6
    <3>4. /\ t \notin Waiting("add", b) /\ Waiting("add", b)' = Waiting("add", b) \cup {t}
          /\ \A op \in {"sub", "free"} : Waiting(op, b)' = Waiting(op, b)
      BY <2>0, <2>3, <3>1, <1>4, <1>5
    <3> QED BY <2>0, <3>2, <3>3, <3>4, CopyKeepsBalance
  <2> QED BY <2>1, <2>2, <2>3
<1> QED BY <1>7, <1>8, <1>9 DEF Inv

\* h takes over what g points to, and g lets go.
LEMMA TakeOverKeepsInv ==
  ASSUME Inv, NEW t \in Thread, NEW h \in Handle, NEW g \in Handle,
         Mine(t, h), Mine(t, g), h # g, SameClass(h, g),
         NEW p, p = storage[h], NEW q, q = storage[g],
         storage' = [storage EXCEPT ![h] = q, ![g] = Null],
         owner' = owner, source' = source,
         Will(t, On("sub", p)), refs' = refs
  PROVE  Inv'
<1>0. PICK ops : ops = On("sub", p) \o On("add", Null)
  OBVIOUS
<1>1. /\ Typed /\ p \in Block \cup {Null} /\ q \in Block \cup {Null} /\ Null \notin Block
      /\ Null \in Block \cup {Null}
  BY HandleAssumption DEF Inv, Typed
<1>2. DropsAndAdds(ops, p, Null)
  BY <1>0, <1>1, QueueOf
<1>3. Will(t, ops)
  BY <1>0, <1>1, DropsOnly
<1>4. \A op, b : /\ t \notin Waiting(op, b)
                 /\ Waiting(op, b)' =
                      IF \E i \in 1 .. Len(ops) : ops[i] = Due(op, b)
                      THEN Waiting(op, b) \cup {t} ELSE Waiting(op, b)
  <2> TAKE op, b
  <2>1. t \notin Waiting(op, b)
    BY IdleWaitsNot DEF Mine
  <2>2. ops \in Seq(Operation)
    BY <1>2 DEF DropsAndAdds
  <2>3. Waiting(op, b)' = (Waiting(op, b) \ {t})
          \cup IF \E i \in 1 .. Len(ops) : ops[i] = Due(op, b) THEN {t} ELSE {}
    BY <1>1, <1>3, <2>2, WaitingAfter
  <2> QED BY <2>1, <2>3
<1>5. \A b \in Block :
        /\ Waiting("free", b)' = Waiting("free", b)
        /\ Waiting("sub", b)' = IF b = p THEN Waiting("sub", b) \cup {t} ELSE Waiting("sub", b)
        /\ Waiting("add", b)' = Waiting("add", b)
  BY <1>1, <1>2, <1>4 DEF DropsAndAdds
<1>6. /\ storage'[h] = q /\ storage'[g] = Null
      /\ \A k \in Handle \ {h, g} : storage'[k] = storage[k]
  BY <1>1 DEF Typed
<1>7. Typed'
  <2>1. storage' \in [Handle -> Block \cup {Null}]
    BY <1>1 DEF Typed
  <2>2. \A k \in Handle : storage'[k] # Null => storage'[k] \in BlocksFor(k)
    <3>1. BlocksFor(h) = BlocksFor(g)
      BY DEF BlocksFor, SameClass
    <3> QED BY <3>1, <1>1, <1>6 DEF Typed
  <2>3. /\ todo' \in [Thread -> Seq(Operation)]
        /\ \A u \in Thread : Queued(todo'[u])
    BY <1>1, <1>2, <1>3, QueuedAfter DEF DropsAndAdds
  <2>4. DOMAIN refs' = Block /\ refs' = [b \in Block |-> refs'[b]]
    BY <1>1 DEF Typed
  <2> QED BY <2>1, <2>2, <2>3, <2>4, <1>1 DEF Typed, BlocksFor, Queued
<1>8. AddersHold'
  <2> SUFFICES ASSUME NEW b \in BytesBlock, NEW u \in Waiting("add", b)'
               PROVE  AdderHolds(u, b)'
    BY DEF AddersHold
  <2>1. u \in Waiting("add", b) /\ u # t
    BY <1>4, <1>5 DEF BytesBlock
  <2>2. \A k \in Handle : owner[k] # t => storage'[k] = storage[k] /\ owner'[k] = owner[k]
    BY <1>6 DEF Mine
  <2> QED BY <2>1, <2>2, OthersHold
<1>9. CountsHold'
  <2> SUFFICES ASSUME NEW b \in BytesBlock
               PROVE  IF refs'[b] = Free THEN Unused(b)' ELSE Balanced(b)'
    BY DEF CountsHold
  <2>0. b \in Block /\ refs'[b] = refs[b] /\ b # Null
    BY <1>1 DEF BytesBlock
  <2>1. CASE b # p /\ b # q
    <3>1. HandlesOf(b)' = HandlesOf(b)
      BY <2>0, <2>1, <1>6 DEF HandlesOf
    <3> QED BY <2>0, <2>1, <3>1, <1>5, KeepsBalance
  <2>2. CASE b = p /\ b # q
    <3>1. h \in HandlesOf(b) /\ HandlesOf(b)' = HandlesOf(b) \ {h}
      BY <2>0, <2>2, <1>6 DEF HandlesOf
    <3> QED BY <3>1, <2>0, <2>2, <1>4, <1>5, DropKeepsBalance
  <2>3. CASE b = p /\ b = q
    <3>1. g \in HandlesOf(b) /\ HandlesOf(b)' = HandlesOf(b) \ {g}
      BY <2>0, <2>3, <1>6 DEF HandlesOf
    <3> QED BY <3>1, <2>0, <2>3, <1>4, <1>5, DropKeepsBalance
  <2>4. CASE b # p /\ b = q
    <3>1. /\ g \in HandlesOf(b) /\ h \notin HandlesOf(b)
          /\ HandlesOf(b)' = (HandlesOf(b) \ {g}) \cup {h}
      BY <2>0, <2>4, <1>6 DEF HandlesOf
    <3> QED BY <3>1, <2>0, <2>4, <1>5, MoveKeepsBalance
  <2> QED BY <2>1, <2>2, <2>3, <2>4
<1> QED BY <1>7, <1>8, <1>9 DEF Inv

LEMMA ConstructKeepsInv ==
  ASSUME Inv, NEW t \in Thread, NEW h \in Handle, Construct(t, h)
  PROVE  Inv'
<1>1. PICK c \in BlocksFor(h) \ Allocated :
        /\ storage' = [storage EXCEPT ![h] = c] /\ refs' = [refs EXCEPT ![c] = 1]
        /\ todo' = todo /\ owner' = owner /\ source' = source
  BY DEF Construct
<1>2. /\ Typed /\ c \in Block /\ refs[c] = Free /\ storage[h] = Null /\ Null \notin Block
      /\ Free \notin Nat /\ owner[h] = t
  BY HandleAssumption DEF Inv, BlocksFor, Allocated, Construct, Mine
<1>3. refs'[c] = 1 /\ \A b \in Block \ {c} : refs'[b] = refs[b]
  BY <1>1, <1>2 DEF Typed
<1>4. storage'[h] = c /\ \A k \in Handle \ {h} : storage'[k] = storage[k]
  BY <1>1, <1>2 DEF Typed
<1>5. \A op, b : Waiting(op, b)' = Waiting(op, b)
  BY <1>1 DEF Waiting
<1>6. Typed'
  <2>1. /\ storage' \in [Handle -> Block \cup {Null}]
        /\ \A k \in Handle : storage'[k] # Null => storage'[k] \in BlocksFor(k)
    BY <1>1, <1>2, <1>4 DEF Typed
  <2>2. DOMAIN refs' = Block /\ refs' = [b \in Block |-> refs'[b]]
    BY <1>1, <1>2 DEF Typed
  <2> QED BY <2>1, <2>2, <1>1, <1>2 DEF Typed, BlocksFor, Queued
<1>7. AddersHold'
  <2> SUFFICES ASSUME NEW b \in BytesBlock, NEW u \in Waiting("add", b)'
               PROVE  AdderHolds(u, b)'
    BY DEF AddersHold
  <2>1. u \in Waiting("add", b) /\ AdderHolds(u, b)
    BY <1>5 DEF Inv, AddersHold
  <2>2. PICK k, g \in Handle :
          /\ k # g /\ owner[k] = u /\ owner[g] \in {u, Shared} /\ source[u] = g
          /\ storage[k] = b /\ storage[g] = b
    BY <2>1 DEF AdderHolds
  <2>3. k # h /\ g # h
    BY <2>2, <1>2 DEF BytesBlock
  <2> QED BY <2>2, <2>3, <1>1, <1>4 DEF AdderHolds
<1>8. CountsHold'
  <2> SUFFICES ASSUME NEW b \in BytesBlock
               PROVE  IF refs'[b] = Free THEN Unused(b)' ELSE Balanced(b)'
    BY DEF CountsHold
  <2>1. CASE b = c
    <3>1. Unused(b)
      BY <2>1, <1>2 DEF Inv, CountsHold
    <3>2. HandlesOf(b)' = {h}
      BY <3>1, <2>1, <1>4 DEF Unused, HandlesOf
    <3>3. /\ Cardinality(HandlesOf(b)') = 1
          /\ \A op \in {"add", "sub", "free"} : Cardinality(Waiting(op, b)') = 0
      BY <3>1, <3>2, <1>5, FS_Singleton, FS_EmptySet DEF Unused
    <3> QED BY <3>3, <2>1, <1>2, <1>3 DEF Balanced
  <2>2. CASE b # c
    <3>1. HandlesOf(b)' = HandlesOf(b)
      BY <2>2, <1>2, <1>4 DEF HandlesOf, BytesBlock
    <3> QED BY <3>1, <2>2, <1>3, <1>5, KeepsBalance DEF BytesBlock
  <2> QED BY <2>1, <2>2
<1> QED BY <1>6, <1>7, <1>8 DEF Inv

\* Transactions have blocks of their own.
LEMMA MoveTransactionKeepsInv ==
  ASSUME Inv, NEW t \in Thread, NEW h \in Handle, NEW g \in Handle,
         MoveAssignTransaction(t, h, g)
  PROVE  Inv'
<1>0. PICK p, q, ops : /\ p = storage[h] /\ q = storage[g]
                       /\ ops = On("sub", p) \o On("add", q)
  OBVIOUS
<1>1. /\ Typed /\ p \in Block \cup {Null} /\ q \in Block \cup {Null} /\ Null \notin Block
      /\ p # q /\ h # g /\ owner[h] = t /\ owner[g] = t /\ Idle(t) /\ refs' = refs
      /\ owner' = owner /\ source' = source
      /\ storage' = [storage EXCEPT ![h] = q, ![g] = Null]
      /\ p \notin BytesBlock /\ q \notin BytesBlock
  BY <1>0, HandleAssumption
  DEF Inv, Typed, MoveAssignTransaction, Mine, BlocksFor, BytesBlock
<1>2. DropsAndAdds(ops, p, q)
  BY <1>0, <1>1, QueueOf
<1>3. Will(t, ops)
  BY <1>0 DEF MoveAssignTransaction
<1>4. \A op \in {"add", "sub", "free"} : \A b \in BytesBlock :
        t \notin Waiting(op, b) /\ Waiting(op, b)' = Waiting(op, b)
  <2> TAKE op \in {"add", "sub", "free"}
  <2> TAKE b \in BytesBlock
  <2>1. t \notin Waiting(op, b)
    BY <1>1, IdleWaitsNot
  <2>2. ops \in Seq(Operation) /\ ~ \E i \in 1 .. Len(ops) : ops[i] = Due(op, b)
    BY <1>1, <1>2 DEF DropsAndAdds, BytesBlock
  <2>3. Waiting(op, b)' = (Waiting(op, b) \ {t})
          \cup IF \E i \in 1 .. Len(ops) : ops[i] = Due(op, b) THEN {t} ELSE {}
    BY <1>1, <1>3, <2>2, WaitingAfter
  <2> QED BY <2>1, <2>2, <2>3
<1>5. /\ storage'[h] = q /\ storage'[g] = Null
      /\ \A k \in Handle \ {h, g} : storage'[k] = storage[k]
  BY <1>1 DEF Typed
<1>6. Typed'
  <2>1. storage' \in [Handle -> Block \cup {Null}]
    BY <1>1 DEF Typed
  <2>2. \A k \in Handle : storage'[k] # Null => storage'[k] \in BlocksFor(k)
    <3>1. BlocksFor(h) = BlocksFor(g)
      BY DEF BlocksFor, MoveAssignTransaction
    <3> QED BY <3>1, <1>0, <1>1, <1>5 DEF Typed
  <2>3. /\ todo' \in [Thread -> Seq(Operation)]
        /\ \A u \in Thread : Queued(todo'[u])
    BY <1>1, <1>2, <1>3, QueuedAfter DEF DropsAndAdds
  <2>4. DOMAIN refs' = Block /\ refs' = [b \in Block |-> refs'[b]]
    BY <1>1 DEF Typed
  <2> QED BY <2>1, <2>2, <2>3, <2>4, <1>1 DEF Typed, BlocksFor, Queued
<1>7. AddersHold'
  <2> SUFFICES ASSUME NEW b \in BytesBlock, NEW u \in Waiting("add", b)'
               PROVE  AdderHolds(u, b)'
    BY DEF AddersHold
  <2>1. u \in Waiting("add", b) /\ u # t
    BY <1>4
  <2>2. \A k \in Handle : owner[k] # t => storage'[k] = storage[k] /\ owner'[k] = owner[k]
    BY <1>1, <1>5
  <2> QED BY <2>1, <2>2, <1>1, OthersHold
<1>8. CountsHold'
  <2> SUFFICES ASSUME NEW b \in BytesBlock
               PROVE  IF refs'[b] = Free THEN Unused(b)' ELSE Balanced(b)'
    BY DEF CountsHold
  <2>1. HandlesOf(b)' = HandlesOf(b)
    BY <1>0, <1>1, <1>5 DEF HandlesOf, BytesBlock
  <2> QED BY <2>1, <1>1, <1>4, KeepsBalance
<1> QED BY <1>6, <1>7, <1>8 DEF Inv

-----------------------------------------------------------------------------
(* Operations on counts *)

\* What thread t does next, and on which block.
NextOp(t)    == Head(todo[t]).op
NextBlock(t) == Head(todo[t]).block

\* The threads' queues, by their elements.
AsksFor(s, x) == \E i \in 1 .. Len(s) : s[i] = x

LEMMA QueueElements ==
  ASSUME NEW s, Queued(s), s # <<>>
  PROVE  /\ Head(s) = s[1] /\ s[1] \in Operation
         /\ Tail(s) \in Seq(Operation) /\ Len(Tail(s)) < 2 /\ Queued(Tail(s))
         /\ \A x : AsksFor(s, x) <=> x = s[1] \/ AsksFor(Tail(s), x)
         /\ \A x : AsksFor(Tail(s), x) => x.block # s[1].block /\ s[1].op # "add"
<1>1. s \in Seq(Operation) /\ Len(s) \in Nat /\ Len(s) # 0 /\ Len(s) <= 2
  BY DEF Queued
<1>2. Len(s) = 1 \/ Len(s) = 2
  <2>1. \A n \in Nat : n # 0 /\ n <= 2 => n = 1 \/ n = 2
    OBVIOUS
  <2> QED BY <1>1, <2>1
<1>3. Head(s) = s[1] /\ s[1] \in Operation /\ Tail(s) \in Seq(Operation) /\ Len(Tail(s)) = Len(s) - 1
  BY <1>1, <1>2
<1>4. \A i \in 1 .. Len(Tail(s)) : Tail(s)[i] = s[i + 1]
  BY <1>1
<1>5. Queued(Tail(s)) /\ Len(Tail(s)) < 2
  BY <1>2, <1>3 DEF Queued
<1>6. CASE Len(s) = 1
  <2>1. \A x : ~ AsksFor(Tail(s), x)
    BY <1>3, <1>6 DEF AsksFor
  <2>2. \A x : AsksFor(s, x) <=> x = s[1]
    BY <1>6 DEF AsksFor
  <2> QED BY <2>1, <2>2, <1>3, <1>5
<1>7. CASE Len(s) = 2
  <2>1. \A x : AsksFor(Tail(s), x) <=> x = s[2]
    <3>1. Len(Tail(s)) = 1
      BY <1>3, <1>7
    <3>2. 1 .. 1 = {1} /\ 1 + 1 = 2
      OBVIOUS
    <3>3. Tail(s)[1] = s[1 + 1]
      BY <1>4, <3>1, <3>2
    <3> QED BY <3>1, <3>2, <3>3 DEF AsksFor
  <2>2. \A i \in 1 .. Len(s) : i = 1 \/ i = 2
    BY <1>7
  <2>3. 1 \in 1 .. Len(s) /\ 2 \in 1 .. Len(s)
    BY <1>7
  <2>4. \A x : AsksFor(s, x) <=> x = s[1] \/ x = s[2]
    BY <2>2, <2>3 DEF AsksFor
  <2> QED BY <2>1, <2>4, <1>3, <1>5, <1>7 DEF Queued
<1> QED BY <1>2, <1>6, <1>7

\* The same with one more operation in front of the rest.
LEMMA QueueInFront ==
  ASSUME NEW tail \in Seq(Operation), Len(tail) < 2, NEW x \in Operation, x.op # "add",
         \A y : AsksFor(tail, y) => y.block # x.block
  PROVE  /\ <<x>> \o tail \in Seq(Operation) /\ Queued(<<x>> \o tail)
         /\ \A y : AsksFor(<<x>> \o tail, y) <=> y = x \/ AsksFor(tail, y)
<1> DEFINE s == <<x>> \o tail
<1>1. /\ s \in Seq(Operation) /\ Len(s) = Len(tail) + 1 /\ s[1] = x
      /\ \A i \in 1 .. Len(tail) : s[i + 1] = tail[i]
  OBVIOUS
<1> HIDE DEF s
<1>2. Len(tail) = 0 \/ Len(tail) = 1
  <2>1. Len(tail) \in Nat
    OBVIOUS
  <2>2. \A n \in Nat : n < 2 => n = 0 \/ n = 1
    OBVIOUS
  <2> QED BY <2>1, <2>2
<1>3. CASE Len(tail) = 0
  BY <1>1, <1>3 DEF s, Queued, AsksFor
<1>4. CASE Len(tail) = 1
  <2>1. Len(s) = 2 /\ s[2] = tail[1]
    BY <1>1, <1>4
  <2>2. AsksFor(tail, tail[1]) /\ \A y : AsksFor(tail, y) <=> y = tail[1]
    BY <1>4 DEF AsksFor
  <2>3. \A i \in 1 .. Len(s) : i = 1 \/ i = 2
    BY <2>1
  <2>4. 1 \in 1 .. Len(s) /\ 2 \in 1 .. Len(s)
    BY <2>1
  <2>5. \A y : AsksFor(s, y) <=> y = s[1] \/ y = s[2]
    BY <2>3, <2>4 DEF AsksFor
  <2>6. Queued(s)
    BY <1>1, <2>1, <2>2 DEF Queued
  <2> QED BY <1>1, <2>1, <2>2, <2>5, <2>6 DEF s
<1> QED BY <1>2, <1>3, <1>4

LEMMA WaitingContains ==
  \A op, b : Waiting(op, b) = {t \in Thread : AsksFor(todo[t], Due(op, b))}
BY DEF Waiting, AsksFor

\* A thread that goes on with the rest of its queue waits for one operation less.
LEMMA RestWaits ==
  ASSUME Typed, NEW t \in Thread, ~Idle(t), NEW o, NEW c,
         o = Head(todo[t]).op, c = Head(todo[t]).block, Will(t, Tail(todo[t]))
  PROVE  /\ c \in Block /\ t \in Waiting(o, c)
         /\ \A op, b : Waiting(op, b)' = IF op = o /\ b = c THEN Waiting(o, c) \ {t}
                                         ELSE Waiting(op, b)
         /\ o = "add" => \A op, b : t \notin Waiting(op, b)'
         /\ todo' \in [Thread -> Seq(Operation)]
         /\ \A u \in Thread : Queued(todo'[u])
<1>0. PICK s : s = todo[t]
  OBVIOUS
<1>1. Queued(s) /\ s # <<>> /\ todo' = [todo EXCEPT ![t] = Tail(s)]
  BY <1>0 DEF Typed, Idle, Will
<1>2. /\ Head(s) = s[1] /\ s[1] \in Operation
      /\ Tail(s) \in Seq(Operation) /\ Queued(Tail(s))
      /\ \A x : AsksFor(s, x) <=> x = s[1] \/ AsksFor(Tail(s), x)
      /\ \A x : AsksFor(Tail(s), x) => x.block # s[1].block /\ s[1].op # "add"
  BY <1>1, QueueElements
<1>3. s[1] = Due(o, c) /\ c \in Block
  BY <1>0, <1>2 DEF Due, Operation
<1>4. \A op, b : /\ Due(op, b).block = b
                 /\ Due(op, b) = Due(o, c) <=> op = o /\ b = c
  BY DEF Due
<1>5. /\ todo'[t] = Tail(s) /\ todo[t] = s
      /\ \A u \in Thread \ {t} : todo'[u] = todo[u]
  BY <1>0, <1>1 DEF Typed
<1>6. \A op, b : Waiting(op, b)' = IF op = o /\ b = c THEN Waiting(o, c) \ {t}
                                   ELSE Waiting(op, b)
  <2> TAKE op, b
  <2>1. AsksFor(s, Due(op, b)) <=> (op = o /\ b = c) \/ AsksFor(Tail(s), Due(op, b))
    BY <1>2, <1>3, <1>4
  <2>2. op = o /\ b = c => ~ AsksFor(Tail(s), Due(op, b))
    BY <1>2, <1>3, <1>4
  <2>3. Waiting(op, b)' = {u \in Thread : AsksFor(todo'[u], Due(op, b))}
    BY DEF Waiting, AsksFor
  <2> QED BY <2>1, <2>2, <2>3, <1>5, WaitingContains
<1>7. t \in Waiting(o, c)
  BY <1>2, <1>3, <1>5, WaitingContains
<1>8. todo' \in [Thread -> Seq(Operation)] /\ \A u \in Thread : Queued(todo'[u])
  BY <1>1, <1>2 DEF Typed
<1>9. ASSUME o = "add", NEW op, NEW b
      PROVE  t \notin Waiting(op, b)'
  <2>1. s[1].op = "add"
    BY <1>3, <1>9 DEF Due
  <2>2. ~ AsksFor(todo'[t], Due(op, b))
    BY <2>1, <1>2, <1>5
  <2> QED BY <2>2 DEF Waiting, AsksFor
<1> QED BY <1>3, <1>6, <1>7, <1>8, <1>9

\* The same for one that is to free the block before it goes on.
LEMMA FreeWaits ==
  ASSUME Typed, NEW t \in Thread, ~Idle(t), NEW o, NEW c,
         o = Head(todo[t]).op, c = Head(todo[t]).block, o # "free",
         Will(t, On("free", c) \o Tail(todo[t]))
  PROVE  /\ c \in Block /\ t \in Waiting(o, c) /\ t \notin Waiting("free", c)
         /\ \A op, b : Waiting(op, b)' =
              IF op = o /\ b = c THEN Waiting(o, c) \ {t}
              ELSE IF op = "free" /\ b = c THEN Waiting("free", c) \cup {t}
              ELSE Waiting(op, b)
         /\ todo' \in [Thread -> Seq(Operation)]
         /\ \A u \in Thread : Queued(todo'[u])
<1>0. PICK s : s = todo[t]
  OBVIOUS
<1>1. Queued(s) /\ s # <<>>
  BY <1>0 DEF Typed, Idle
<1>2. /\ Head(s) = s[1] /\ s[1] \in Operation
      /\ Tail(s) \in Seq(Operation) /\ Len(Tail(s)) < 2
      /\ \A x : AsksFor(s, x) <=> x = s[1] \/ AsksFor(Tail(s), x)
      /\ \A x : AsksFor(Tail(s), x) => x.block # s[1].block
  BY <1>1, QueueElements
<1>3. s[1] = Due(o, c) /\ c \in Block /\ Due("free", c) \in Operation
  BY <1>0, <1>2 DEF Due, Operation
<1>4. \A op, b : /\ Due(op, b).block = b
                 /\ \A u, d : Due(op, b) = Due(u, d) <=> op = u /\ b = d
  BY DEF Due
<1>5. PICK rest : rest = <<Due("free", c)>> \o Tail(s)
  OBVIOUS
<1>6. On("free", c) = <<Due("free", c)>>
  BY <1>3, HandleAssumption DEF On, Due
<1>7. todo' = [todo EXCEPT ![t] = rest]
  BY <1>0, <1>5, <1>6 DEF Will
<1>8. /\ rest \in Seq(Operation) /\ Queued(rest)
      /\ \A y : AsksFor(rest, y) <=> y = Due("free", c) \/ AsksFor(Tail(s), y)
  <2>1. \A y : AsksFor(Tail(s), y) => y.block # Due("free", c).block
    BY <1>2, <1>3, <1>4
  <2>2. Due("free", c).op # "add"
    BY DEF Due
  <2> QED BY <2>1, <2>2, <1>2, <1>3, <1>5, QueueInFront
<1>9. /\ todo'[t] = rest /\ todo[t] = s
      /\ \A u \in Thread \ {t} : todo'[u] = todo[u]
  BY <1>0, <1>7 DEF Typed
<1>10. \A op, b : Waiting(op, b)' =
         IF op = o /\ b = c THEN Waiting(o, c) \ {t}
         ELSE IF op = "free" /\ b = c THEN Waiting("free", c) \cup {t}
         ELSE Waiting(op, b)
  <2> TAKE op, b
  <2>1. AsksFor(s, Due(op, b)) <=> (op = o /\ b = c) \/ AsksFor(Tail(s), Due(op, b))
    BY <1>2, <1>3, <1>4
  <2>2. AsksFor(rest, Due(op, b)) <=> (op = "free" /\ b = c) \/ AsksFor(Tail(s), Due(op, b))
    BY <1>4, <1>8
  <2>3. b = c => ~ AsksFor(Tail(s), Due(op, b))
    BY <1>2, <1>3, <1>4
  <2>4. Waiting(op, b)' = {u \in Thread : AsksFor(todo'[u], Due(op, b))}
    BY DEF Waiting, AsksFor
  <2>5. Waiting(op, b) = {u \in Thread : AsksFor(todo[u], Due(op, b))}
    BY WaitingContains
  <2>6. CASE op = o /\ b = c
    BY <2>1, <2>2, <2>3, <2>4, <2>5, <2>6, <1>9
  <2>7. CASE op = "free" /\ b = c
    BY <2>1, <2>2, <2>3, <2>4, <2>5, <2>7, <1>9
  <2>8. CASE ~(op = o /\ b = c) /\ ~(op = "free" /\ b = c)
    BY <2>1, <2>2, <2>4, <2>5, <2>8, <1>9
  <2> QED BY <2>6, <2>7, <2>8
<1>11. t \in Waiting(o, c) /\ t \notin Waiting("free", c)
  BY <1>2, <1>3, <1>4, <1>9, WaitingContains
<1>12. todo' \in [Thread -> Seq(Operation)] /\ \A u \in Thread : Queued(todo'[u])
  BY <1>7, <1>8 DEF Typed
<1> QED BY <1>3, <1>10, <1>11, <1>12

\* Handles stay, and no thread has more to add: only the counts are left to show.
LEMMA StepKeepsInv ==
  ASSUME Inv, storage' = storage, owner' = owner,
         source' \in [Thread -> Handle \cup {Null}],
         DOMAIN refs' = Block, refs' = [b \in Block |-> refs'[b]],
         todo' \in [Thread -> Seq(Operation)], \A t \in Thread : Queued(todo'[t]),
         \A b \in BytesBlock : Waiting("add", b)' \subseteq Waiting("add", b),
         \A b \in BytesBlock : \A t \in Waiting("add", b)' : source'[t] = source[t],
         CountsHold'
  PROVE  Inv'
<1>1. Typed'
  BY DEF Inv, Typed, BlocksFor, Queued
<1>2. AddersHold'
  <2> SUFFICES ASSUME NEW b \in BytesBlock, NEW t \in Waiting("add", b)'
               PROVE  AdderHolds(t, b)'
    BY DEF AddersHold
  <2>1. AdderHolds(t, b) /\ source'[t] = source[t]
    BY DEF Inv, AddersHold
  <2> QED BY <2>1 DEF AdderHolds
<1> QED BY <1>1, <1>2 DEF Inv

\* Only the block that is counted changes its balance.
LEMMA OthersKeepBalance ==
  ASSUME Inv, storage' = storage, NEW c,
         \A b \in Block \ {c} : refs'[b] = refs[b],
         \A op \in {"add", "sub", "free"} : \A b \in Block \ {c} : Waiting(op, b)' = Waiting(op, b),
         c \in BytesBlock => IF refs'[c] = Free THEN Unused(c)' ELSE Balanced(c)'
  PROVE  CountsHold'
<1> SUFFICES ASSUME NEW b \in BytesBlock
             PROVE  IF refs'[b] = Free THEN Unused(b)' ELSE Balanced(b)'
  BY DEF CountsHold
<1>1. CASE b = c
  BY <1>1
<1>2. CASE b # c
  <2>1. HandlesOf(b)' = HandlesOf(b)
    BY DEF HandlesOf
  <2>2. refs'[b] = refs[b] /\ \A op \in {"add", "sub", "free"} : Waiting(op, b)' = Waiting(op, b)
    BY <1>2 DEF BytesBlock
  <2> QED BY <2>1, <2>2, KeepsBalance
<1> QED BY <1>1, <1>2

LEMMA AddKeepsInv ==
  ASSUME Inv, NEW t \in Thread, Add(t)
  PROVE  Inv'
<1>0. PICK c : c = Head(todo[t]).block
  OBVIOUS
<1>1. /\ Typed /\ ~Idle(t) /\ Head(todo[t]).op = "add" /\ Will(t, Tail(todo[t]))
      /\ storage' = storage /\ owner' = owner /\ source' = [source EXCEPT ![t] = Null]
      /\ refs' = [refs EXCEPT ![c] = IF c \in TransactionBlock THEN (refs[c] + 1) % RefMod
                                     ELSE refs[c] + 1]
  BY <1>0 DEF Add, Inv, Counted
<1>2. /\ c \in Block /\ t \in Waiting("add", c)
      /\ \A op, b : Waiting(op, b)' = IF op = "add" /\ b = c THEN Waiting("add", c) \ {t}
                                      ELSE Waiting(op, b)
      /\ \A op, b : t \notin Waiting(op, b)'
      /\ todo' \in [Thread -> Seq(Operation)]
      /\ \A u \in Thread : Queued(todo'[u])
  BY <1>0, <1>1, RestWaits
<1>3. DOMAIN refs' = Block /\ refs' = [b \in Block |-> refs'[b]]
  BY <1>1 DEF Typed
<1>4. \A b \in Block \ {c} : refs'[b] = refs[b]
  BY <1>1 DEF Typed
<1>5. ASSUME c \in BytesBlock
      PROVE  refs'[c] # Free /\ Balanced(c)'
  <2>1. refs[c] # Free /\ Balanced(c)
    BY <1>2, <1>5 DEF Inv, CountsHold, Unused
  <2>2. refs[c] \in Nat /\ refs[c] > 0
    BY <1>2, <1>5, <2>1, CountIsPositive
  <2>3. refs'[c] = refs[c] + 1
    BY <1>1, <1>2, <1>5 DEF BytesBlock, Typed
  <2>4. /\ HandlesOf(c)' = HandlesOf(c)
        /\ \A op \in {"sub", "free"} : Waiting(op, c)' = Waiting(op, c)
        /\ Waiting("add", c)' = Waiting("add", c) \ {t}
    BY <1>1, <1>2 DEF HandlesOf
  <2>5. Cardinality(Waiting("add", c)') = Cardinality(Waiting("add", c)) - 1
    BY <1>2, <2>4, Finite, FS_RemoveElement
  <2>6. /\ Cardinality(Waiting("add", c)) \in Nat /\ Cardinality(Waiting("sub", c)) \in Nat
        /\ Cardinality(HandlesOf(c)) \in Nat
    BY Finite, FS_CardinalityType
  <2>7. /\ Cardinality(Waiting("sub", c)') = Cardinality(Waiting("sub", c))
        /\ Cardinality(Waiting("free", c)') = Cardinality(Waiting("free", c))
        /\ Cardinality(HandlesOf(c)') = Cardinality(HandlesOf(c))
    BY <2>4
  <2>8. Balanced(c)'
    BY <2>1, <2>2, <2>3, <2>5, <2>6, <2>7 DEF Balanced
  <2> QED BY <2>2, <2>3, <2>8, HandleAssumption
<1>6. CountsHold'
  BY <1>1, <1>2, <1>4, <1>5, OthersKeepBalance
<1>7. /\ source' \in [Thread -> Handle \cup {Null}]
      /\ \A u \in Thread \ {t} : source'[u] = source[u]
  BY <1>1 DEF Typed
<1>8. \A b \in BytesBlock : \A u \in Waiting("add", b)' : source'[u] = source[u]
  BY <1>2, <1>7 DEF Waiting
<1>9. \A b \in BytesBlock : Waiting("add", b)' \subseteq Waiting("add", b)
  BY <1>2
<1> QED BY <1>1, <1>2, <1>3, <1>6, <1>7, <1>8, <1>9, StepKeepsInv

LEMMA SubKeepsInv ==
  ASSUME Inv, NEW t \in Thread, Sub(t)
  PROVE  Inv'
<1>0. PICK c : c = Head(todo[t]).block
  OBVIOUS
<1>1. /\ Typed /\ ~Idle(t) /\ Head(todo[t]).op = "sub" /\ storage' = storage
      /\ owner' = owner /\ source' = source
      /\ refs' = [refs EXCEPT ![c] = refs[c] - 1]
      /\ IF refs[c] = 1 THEN Will(t, On("free", c) \o Tail(todo[t]))
         ELSE Will(t, <<>> \o Tail(todo[t]))
  BY <1>0 DEF Sub, Inv
<1>2. todo[t] \in Seq(Operation) /\ todo[t] # <<>>
  BY <1>1 DEF Typed, Idle
<1>3. refs[c] # 1 => Will(t, Tail(todo[t]))
  <2>1. Tail(todo[t]) \in Seq(Operation)
    BY <1>2
  <2>2. \A s \in Seq(Operation) : <<>> \o s = s
    OBVIOUS
  <2> QED BY <2>1, <2>2, <1>1
<1>4. /\ c \in Block /\ t \in Waiting("sub", c)
      /\ refs[c] = 1 => t \notin Waiting("free", c)
      /\ \A op, b : Waiting(op, b)' =
           IF op = "sub" /\ b = c THEN Waiting("sub", c) \ {t}
           ELSE IF op = "free" /\ b = c /\ refs[c] = 1 THEN Waiting("free", c) \cup {t}
           ELSE Waiting(op, b)
      /\ todo' \in [Thread -> Seq(Operation)]
      /\ \A u \in Thread : Queued(todo'[u])
  <2>1. CASE refs[c] = 1
    BY <1>0, <1>1, <2>1, FreeWaits
  <2>2. CASE refs[c] # 1
    BY <1>0, <1>1, <1>3, <2>2, RestWaits
  <2> QED BY <2>1, <2>2
<1>5. DOMAIN refs' = Block /\ refs' = [b \in Block |-> refs'[b]]
  BY <1>1 DEF Typed
<1>6. \A b \in Block \ {c} : refs'[b] = refs[b]
  BY <1>1 DEF Typed
<1>7. ASSUME c \in BytesBlock
      PROVE  refs'[c] # Free /\ Balanced(c)'
  <2>1. refs[c] # Free /\ Balanced(c)
    BY <1>4, <1>7 DEF Inv, CountsHold, Unused
  <2>2. refs[c] \in Nat /\ refs[c] > 0
    BY <1>4, <1>7, <2>1, CountIsPositive
  <2>3. refs'[c] = refs[c] - 1
    BY <1>1, <1>4 DEF Typed
  <2>4. /\ HandlesOf(c)' = HandlesOf(c) /\ Waiting("add", c)' = Waiting("add", c)
        /\ Waiting("sub", c)' = Waiting("sub", c) \ {t}
        /\ Waiting("free", c)' = IF refs[c] = 1 THEN Waiting("free", c) \cup {t}
                                 ELSE Waiting("free", c)
    BY <1>1, <1>4 DEF HandlesOf
  <2>5. Cardinality(Waiting("sub", c)') = Cardinality(Waiting("sub", c)) - 1
    BY <1>4, <2>4, Finite, FS_RemoveElement
  <2>6. /\ Cardinality(Waiting("add", c)) \in Nat /\ Cardinality(Waiting("sub", c)) \in Nat
        /\ Cardinality(HandlesOf(c)) \in Nat
    BY Finite, FS_CardinalityType
  <2>7. /\ Cardinality(Waiting("add", c)') = Cardinality(Waiting("add", c))
        /\ Cardinality(HandlesOf(c)') = Cardinality(HandlesOf(c))
    BY <2>4
  <2>8. Cardinality(Waiting("free", c)') = IF refs'[c] = 0 THEN 1 ELSE 0
    <3>1. Cardinality(Waiting("free", c)) = 0
      BY <2>1, <2>2 DEF Balanced
    <3>2. CASE refs[c] = 1
      <4>1. Cardinality(Waiting("free", c)') = Cardinality(Waiting("free", c)) + 1
        BY <1>4, <2>4, <3>2, Finite, FS_AddElement
      <4> QED BY <4>1, <3>1, <3>2, <2>3
    <3>3. CASE refs[c] # 1
      BY <3>1, <3>3, <2>2, <2>3, <2>4
    <3> QED BY <3>2, <3>3
  <2>9. Balanced(c)'
    BY <2>1, <2>2, <2>3, <2>5, <2>6, <2>7, <2>8 DEF Balanced
  <2> QED BY <2>2, <2>3, <2>9, HandleAssumption
<1>8. \A op \in {"add", "sub", "free"} : \A b \in Block \ {c} : Waiting(op, b)' = Waiting(op, b)
  BY <1>4
<1>9. CountsHold'
  BY <1>1, <1>6, <1>7, <1>8, OthersKeepBalance
<1>10. source' \in [Thread -> Handle \cup {Null}]
  BY <1>1 DEF Typed
<1> QED BY <1>1, <1>4, <1>5, <1>9, <1>10, StepKeepsInv

LEMMA ReleaseKeepsInv ==
  ASSUME Inv, NEW t \in Thread, Release(t)
  PROVE  Inv'
<1>0. PICK c : c = Head(todo[t]).block
  OBVIOUS
<1>1. /\ Typed /\ ~Idle(t) /\ Head(todo[t]).op = "free" /\ Will(t, Tail(todo[t]))
      /\ storage' = storage /\ refs' = [refs EXCEPT ![c] = Free]
      /\ owner' = owner /\ source' = source
  BY <1>0 DEF Release, Inv
<1>2. /\ c \in Block /\ t \in Waiting("free", c)
      /\ \A op, b : Waiting(op, b)' = IF op = "free" /\ b = c THEN Waiting("free", c) \ {t}
                                      ELSE Waiting(op, b)
      /\ todo' \in [Thread -> Seq(Operation)]
      /\ \A u \in Thread : Queued(todo'[u])
  BY <1>0, <1>1, RestWaits
<1>3. /\ DOMAIN refs' = Block /\ refs' = [b \in Block |-> refs'[b]]
      /\ refs'[c] = Free /\ \A b \in Block \ {c} : refs'[b] = refs[b]
  BY <1>1, <1>2 DEF Typed
<1>4. ASSUME c \in BytesBlock
      PROVE  Unused(c)'
  <2>1. refs[c] # Free /\ Balanced(c)
    BY <1>2, <1>4 DEF Inv, CountsHold, Unused
  <2>2. Waiting("free", c) # {}
    BY <1>2
  <2>3. Cardinality(Waiting("free", c)) # 0
    BY <2>2, Finite, FS_EmptySet
  <2>4. refs[c] = 0 /\ Cardinality(Waiting("free", c)) = 1
    BY <2>1, <2>3 DEF Balanced
  <2>5. Waiting("add", c) = {} /\ Waiting("sub", c) = {} /\ HandlesOf(c) = {}
    BY <1>4, <2>1, <2>4, CountIsPositive
  <2>6. PICK x : Waiting("free", c) = {x}
    BY <2>4, Finite, FS_Singleton
  <2>7. Waiting("free", c) \ {t} = {}
    BY <1>2, <2>6
  <2> QED BY <2>5, <2>7, <1>1, <1>2 DEF Unused, HandlesOf
<1>5. CountsHold'
  BY <1>1, <1>2, <1>3, <1>4, OthersKeepBalance
<1>6. source' \in [Thread -> Handle \cup {Null}]
  BY <1>1 DEF Typed
<1> QED BY <1>1, <1>2, <1>3, <1>5, <1>6, StepKeepsInv

-----------------------------------------------------------------------------
(* All steps *)

LEMMA InitInv == Init => Inv
<1> SUFFICES ASSUME Init PROVE Inv
  OBVIOUS
<1>1. \A op, b : Waiting(op, b) = {}
  BY DEF Init, Waiting
<1>2. Typed
  <2>1. todo \in [Thread -> Seq(Operation)] /\ \A t \in Thread : Queued(todo[t])
    BY DEF Init, Queued
  <2> QED BY <2>1 DEF Init, Typed
<1>3. AddersHold
  BY <1>1 DEF AddersHold
<1>4. ASSUME NEW b \in BytesBlock
      PROVE  refs[b] = Free /\ Unused(b)
  <2>1. b # Null /\ refs[b] = Free
    BY HandleAssumption DEF Init, BytesBlock
  <2>2. HandlesOf(b) = {}
    BY <2>1 DEF Init, HandlesOf
  <2> QED BY <2>1, <2>2, <1>1 DEF Unused
<1> QED BY <1>2, <1>3, <1>4 DEF Inv, CountsHold

LEMMA CopyConstructKeepsInv ==
  ASSUME Inv, NEW t \in Thread, NEW h \in Handle, NEW g \in Handle, CopyConstruct(t, h, g)
  PROVE  Inv'
<1>0. PICK q : q = storage[g]
  OBVIOUS
<1>1. /\ q \in Block \cup {Null} /\ Null = storage[h] /\ Mine(t, h) /\ Readable(t, g)
      /\ refs' = refs /\ storage' = [storage EXCEPT ![h] = q] /\ Will(t, On("add", q))
      /\ Null \in Block \cup {Null} /\ owner' = owner /\ Reads(t, g)
  BY <1>0 DEF CopyConstruct, Inv, Typed
<1>2. SourceBy(t) /\ (q # Null => source'[t] = g)
  BY <1>0, <1>1, ReadsIsBy DEF Inv
<1>3. q # Null => /\ q \in BlocksFor(h)
                  /\ \E k \in Handle : k # h /\ Readable(t, k) /\ storage[k] = q /\ source'[t] = k
  BY <1>0, <1>1, <1>2 DEF CopyConstruct, SameClass, BlocksFor, Inv, Typed
<1>4. On("sub", Null) \o On("add", q) = On("add", q)
  <2>0. On("sub", Null) = <<>>
    BY DEF On
  <2>1. On("add", q) \in Seq(Operation)
    <3>1. CASE q = Null
      <4>1. On("add", q) = <<>> /\ <<>> \in Seq(Operation)
        BY <3>1 DEF On
      <4> QED BY <4>1, Zenon
    <3>2. CASE q # Null
      <4>1. Due("add", q) \in Operation
        BY <3>2, <1>1 DEF Due, Operation
      <4>2. On("add", q) = <<Due("add", q)>>
        BY <3>2 DEF On, Due
      <4>3. \A x \in Operation : <<x>> \in Seq(Operation)
        OBVIOUS
      <4> QED BY <4>1, <4>2, <4>3, Zenon
    <3> QED BY <3>1, <3>2
  <2>2. \A s \in Seq(Operation) : <<>> \o s = s
    OBVIOUS
  <2> QED BY <2>0, <2>1, <2>2
<1>5. Will(t, On("sub", Null) \o On("add", q))
  BY <1>1, <1>4
<1> QED BY <1>1, <1>3, <1>5, <1>2, PointKeepsInv

LEMMA CopyAssignKeepsInv ==
  ASSUME Inv, NEW t \in Thread, NEW h \in Handle, NEW g \in Handle, CopyAssign(t, h, g)
  PROVE  Inv'
<1>0. PICK p, q : p = storage[h] /\ q = storage[g]
  OBVIOUS
<1>1. /\ q \in Block \cup {Null} /\ p # q /\ Mine(t, h) /\ Readable(t, g) /\ g # h
      /\ refs' = refs /\ storage' = [storage EXCEPT ![h] = q]
      /\ Will(t, On("sub", p) \o On("add", q)) /\ owner' = owner /\ Reads(t, g)
  BY <1>0 DEF CopyAssign, Inv, Typed
<1>2. SourceBy(t) /\ (q # Null => source'[t] = g)
  BY <1>0, <1>1, ReadsIsBy DEF Inv
<1>3. q # Null => /\ q \in BlocksFor(h)
                  /\ \E k \in Handle : k # h /\ Readable(t, k) /\ storage[k] = q /\ source'[t] = k
  BY <1>0, <1>1, <1>2 DEF CopyAssign, SameClass, BlocksFor, Inv, Typed
<1> QED BY <1>0, <1>1, <1>3, <1>2, PointKeepsInv

\* A handle that lets go of its block and points to none.
LEMMA LetGoKeepsInv ==
  ASSUME Inv, NEW t \in Thread, NEW h \in Handle, Mine(t, h),
         storage' = [storage EXCEPT ![h] = Null], Will(t, On("sub", storage[h])),
         owner' = owner, source' = source, refs' = refs
  PROVE  Inv'
<1>0. PICK p : p = storage[h]
  OBVIOUS
<1>1. p \in Block \cup {Null} /\ Null \in Block \cup {Null}
  BY <1>0 DEF Inv, Typed
<1>2. Will(t, On("sub", p) \o On("add", Null))
  BY <1>0, <1>1, DropsOnly
<1>3. SourceBy(t)
  BY SameSource DEF Inv
<1> QED BY <1>0, <1>1, <1>2, <1>3, PointKeepsInv

LEMMA MoveConstructKeepsInv ==
  ASSUME Inv, NEW t \in Thread, NEW h \in Handle, NEW g \in Handle, MoveConstruct(t, h, g)
  PROVE  Inv'
<1>1. /\ Mine(t, h) /\ Mine(t, g) /\ SameClass(h, g) /\ storage[h] = Null
      /\ storage' = [storage EXCEPT ![g] = Null, ![h] = storage[g]]
      /\ refs' = refs /\ todo' = todo /\ owner' = owner /\ source' = source
      /\ storage \in [Handle -> Block \cup {Null}] /\ todo \in [Thread -> Seq(Operation)]
  BY DEF MoveConstruct, Inv, Typed
<1>2. Will(t, On("sub", storage[h]))
  BY <1>1 DEF Will, On, Mine, Idle
<1>3. CASE h = g
  <2>1. storage' = [storage EXCEPT ![h] = Null]
    BY <1>1, <1>3
  <2> QED BY <2>1, <1>1, <1>2, LetGoKeepsInv
<1>4. CASE h # g
  <2>1. storage' = [storage EXCEPT ![h] = storage[g], ![g] = Null]
    BY <1>1, <1>4
  <2> QED BY <2>1, <1>1, <1>2, <1>4, TakeOverKeepsInv
<1> QED BY <1>3, <1>4

LEMMA MoveAssignBytesKeepsInv ==
  ASSUME Inv, NEW t \in Thread, NEW h \in Handle, NEW g \in Handle, MoveAssignBytes(t, h, g)
  PROVE  Inv'
<1>1. /\ Mine(t, h) /\ Mine(t, g) /\ SameClass(h, g)
      /\ storage' = [storage EXCEPT ![h] = storage[g], ![g] = Null]
      /\ refs' = refs /\ Will(t, On("sub", storage[h])) /\ owner' = owner /\ source' = source
      /\ storage \in [Handle -> Block \cup {Null}]
  BY DEF MoveAssignBytes, SameClass, Inv, Typed
<1>2. CASE h = g
  <2>1. storage' = [storage EXCEPT ![h] = Null]
    BY <1>1, <1>2
  <2> QED BY <2>1, <1>1, LetGoKeepsInv
<1>3. CASE h # g
  BY <1>1, <1>3, TakeOverKeepsInv
<1> QED BY <1>2, <1>3

\* A handle goes to another owner, or becomes everybody's: whoever still waits
\* keeps its own, and what it copies.
OthersKeepOwn(t, h) ==
  /\ owner' \in [Handle -> Thread \cup {Shared}]
  /\ \A k \in Handle \ {h} : owner'[k] = owner[k]
  /\ storage' = storage /\ refs' = refs /\ todo' = todo /\ source' = source /\ moves' = moves
  /\ \/ owner[h] = t /\ owner'[h] = Shared
     \/ owner[h] = Shared /\ owner'[h] = t /\ \A u \in Thread : source[u] # h

LEMMA HandOver ==
  ASSUME Typed, NEW t \in Thread, NEW h \in Handle, Share(t, h) \/ Take(t, h)
  PROVE  Idle(t) /\ OthersKeepOwn(t, h)
BY DEF Share, Take, Mine, Typed, OthersKeepOwn

LEMMA HandOverHolds ==
  ASSUME NEW t \in Thread, NEW h \in Handle, OthersKeepOwn(t, h),
         NEW u \in Thread, u # t, NEW b, AdderHolds(u, b)
  PROVE  AdderHolds(u, b)'
<1>1. PICK k, g \in Handle :
        /\ k # g /\ owner[k] = u /\ owner[g] \in {u, Shared} /\ source[u] = g
        /\ storage[k] = b /\ storage[g] = b
  BY DEF AdderHolds
<1>2. owner'[k] = u
  BY <1>1, HandleAssumption DEF OthersKeepOwn
<1>3. owner'[g] \in {u, Shared}
  BY <1>1, HandleAssumption DEF OthersKeepOwn
<1> QED BY <1>1, <1>2, <1>3 DEF OthersKeepOwn, AdderHolds

LEMMA HandOverKeepsInv ==
  ASSUME Inv, NEW t \in Thread, NEW h \in Handle, Share(t, h) \/ Take(t, h)
  PROVE  Inv'
<1>1. Idle(t) /\ OthersKeepOwn(t, h)
  BY HandOver DEF Inv
<1>2. /\ \A op, b : Waiting(op, b)' = Waiting(op, b) /\ t \notin Waiting(op, b)
      /\ \A b : HandlesOf(b)' = HandlesOf(b)
  BY <1>1, IdleWaitsNot DEF OthersKeepOwn, Waiting, HandlesOf
<1>3. Typed'
  BY <1>1 DEF Inv, Typed, BlocksFor, Queued, OthersKeepOwn
<1>4. AddersHold'
  <2> SUFFICES ASSUME NEW b \in BytesBlock, NEW u \in Waiting("add", b)
               PROVE  AdderHolds(u, b)'
    BY <1>2 DEF AddersHold
  <2>1. u \in Thread /\ u # t /\ AdderHolds(u, b)
    BY <1>2 DEF Inv, AddersHold, Waiting
  <2> QED BY <2>1, <1>1, HandOverHolds
<1>5. CountsHold'
  BY <1>1, <1>2, KeepsBalance DEF CountsHold, OthersKeepOwn
<1> QED BY <1>3, <1>4, <1>5 DEF Inv

LEMMA NextKeepsInv ==
  ASSUME Inv, [Next]_vars
  PROVE  Inv'
<1>1. CASE UNCHANGED vars
  <2>1. /\ storage' = storage /\ refs' = refs /\ todo' = todo
        /\ owner' = owner /\ source' = source
        /\ \A op, b : Waiting(op, b)' = Waiting(op, b)
        /\ \A b : HandlesOf(b)' = HandlesOf(b)
    BY <1>1 DEF vars, Waiting, HandlesOf
  <2>2. CountsHold'
    BY <2>1, KeepsBalance DEF CountsHold
  <2> QED BY <2>1, <2>2, StepKeepsInv DEF Inv, Typed
<1>2. ASSUME NEW t \in Thread, NEW h \in Handle, Construct(t, h) \/ Destroy(t, h)
      PROVE  Inv'
  <2>1. CASE Construct(t, h)
    BY <2>1, ConstructKeepsInv
  <2>2. CASE Destroy(t, h)
    BY <2>2, LetGoKeepsInv DEF Destroy
  <2> QED BY <1>2, <2>1, <2>2
<1>3. ASSUME NEW t \in Thread, NEW h \in Handle, Share(t, h) \/ Take(t, h)
      PROVE  Inv'
  BY <1>3, HandOverKeepsInv
<1>4. ASSUME NEW t \in Thread, NEW h \in Handle, NEW g \in Handle,
             \/ CopyConstruct(t, h, g) \/ MoveConstruct(t, h, g) \/ CopyAssign(t, h, g)
             \/ MoveAssignBytes(t, h, g) \/ MoveAssignTransaction(t, h, g)
      PROVE  Inv'
  BY <1>4, CopyConstructKeepsInv, MoveConstructKeepsInv, CopyAssignKeepsInv,
     MoveAssignBytesKeepsInv, MoveTransactionKeepsInv
<1>5. ASSUME NEW t \in Thread, Add(t) \/ Sub(t) \/ Release(t)
      PROVE  Inv'
  BY <1>5, AddKeepsInv, SubKeepsInv, ReleaseKeepsInv
<1> QED BY <1>1, <1>2, <1>4, <1>5, <1>3 DEF Next

\* The inductive invariant holds: a waiting thread holds handles, counts balance.
THEOREM InvHolds == Spec => []Inv
<1>1. Init => Inv
  BY InitInv
<1>2. Inv /\ [Next]_vars => Inv'
  BY NextKeepsInv
<1> QED BY <1>1, <1>2, PTL DEF Spec

-----------------------------------------------------------------------------
(* What follows *)

\* Each thread that waits has one place in its queue where it does.
LEMMA PendingIsWaiting ==
  ASSUME Typed, NEW op, NEW b \in Block
  PROVE  /\ Cardinality(Pending(op, b)) = Cardinality(Waiting(op, b))
         /\ Pending(op, b) = {} <=> Waiting(op, b) = {}
<1>0. PICK x : x = [op |-> op, block |-> b]
  OBVIOUS
<1>1. \A t \in Thread : Len(todo[t]) \in Nat /\ Len(todo[t]) <= 2
  BY DEF Typed, Queued
<1>2. \A t \in Thread : \A i, j \in 1 .. Len(todo[t]) :
        todo[t][i] = x /\ todo[t][j] = x => i = j
  <2> TAKE t \in Thread
  <2> TAKE i, j \in 1 .. Len(todo[t])
  <2>1. ASSUME i # j, todo[t][i] = x, todo[t][j] = x
        PROVE  FALSE
    <3>1. \A n \in Nat : n <= 2 =>
            \A k, l \in 1 .. n : k # l => n = 2 /\ ((k = 1 /\ l = 2) \/ (k = 2 /\ l = 1))
      OBVIOUS
    <3>2. Len(todo[t]) = 2 /\ ((i = 1 /\ j = 2) \/ (i = 2 /\ j = 1))
      BY <2>1, <3>1, <1>1
    <3>3. todo[t][1].block # todo[t][2].block
      BY <3>2 DEF Typed, Queued
    <3> QED BY <2>1, <3>2, <3>3
  <2> QED BY <2>1
<1>3. Waiting(op, b) = {t \in Thread : \E i \in 1 .. Len(todo[t]) : todo[t][i] = x}
  BY <1>0 DEF Waiting, Due
<1>4. Pending(op, b) = {w \in Thread \X (1 .. 3) :
                          w[2] <= Len(todo[w[1]]) /\ todo[w[1]][w[2]] = x}
  BY <1>0 DEF Pending
<1> DEFINE W == Waiting(op, b)
           P == Pending(op, b)
           place(t) == CHOOSE i \in 1 .. Len(todo[t]) : todo[t][i] = x
           f == [t \in W |-> <<t, place(t)>>]
<1>5. \A t \in W : t \in Thread /\ place(t) \in 1 .. Len(todo[t]) /\ todo[t][place(t)] = x
  BY <1>3
<1>6. \A t \in W : f[t] = <<t, place(t)>> /\ f[t] \in P
  <2> SUFFICES ASSUME NEW t \in W PROVE f[t] = <<t, place(t)>> /\ f[t] \in P
    OBVIOUS
  <2>1. PICK i : i = place(t)
    OBVIOUS
  <2>2. t \in Thread /\ i \in 1 .. Len(todo[t]) /\ todo[t][i] = x
    BY <1>5, <2>1
  <2>3. i \in 1 .. 3 /\ i <= Len(todo[t])
    BY <1>1, <2>2
  <2>4. <<t, i>> \in P
    BY <1>4, <2>2, <2>3
  <2> QED BY <2>1, <2>4
<1>7. \A w \in P : w[1] \in W /\ f[w[1]] = w
  <2> TAKE w \in P
  <2>1. PICK t \in Thread, i \in 1 .. 3 : w = <<t, i>> /\ i <= Len(todo[t]) /\ todo[t][i] = x
    BY <1>4
  <2>2. i \in 1 .. Len(todo[t]) /\ t \in W
    BY <1>1, <1>3, <2>1
  <2>3. place(t) = i
    BY <1>2, <1>5, <2>1, <2>2
  <2> QED BY <2>1, <2>2, <2>3
<1>8. f \in Bijection(W, P)
  <2>1. f \in [W -> P]
    BY <1>6
  <2>2. \A t, u \in W : f[t] = f[u] => t = u
    BY <1>6
  <2>3. \A w \in P : \E t \in W : f[t] = w
    BY <1>7
  <2> HIDE DEF f, W, P
  <2> QED BY <2>1, <2>2, <2>3 DEF Bijection, Injection, Surjection, IsInjective
<1>9. ExistsBijection(W, P)
  BY <1>8 DEF ExistsBijection
<1>10. IsFiniteSet(W)
  BY Finite
<1>11. Cardinality(P) = Cardinality(W)
  <2> HIDE DEF f, W, P
  <2> QED BY <1>9, <1>10, FS_Bijection
<1> QED BY <1>6, <1>7, <1>11

\* The count of a Bytes block is the number of its handles, but for operations
\* that threads have still to do, and exactly one thread frees the block when the
\* count is zero, however threads copy, move, assign, share and destroy handles,
\* the last ones of a block in two threads at once included.
THEOREM BytesAlwaysCountHandles == Spec => []BytesCountHandles
<1>1. Inv => BytesCountHandles
  <2> SUFFICES ASSUME Inv, NEW b \in Allocated \ TransactionBlock
               PROVE  /\ refs[b] + Cardinality(Pending("add", b))
                           = Cardinality(HandlesOf(b)) + Cardinality(Pending("sub", b))
                      /\ Cardinality(Pending("free", b)) = (IF refs[b] = 0 THEN 1 ELSE 0)
    BY DEF BytesCountHandles
  <2>1. b \in Block /\ Balanced(b)
    BY DEF Allocated, BytesBlock, Inv, CountsHold
  <2>2. \A op : Cardinality(Pending(op, b)) = Cardinality(Waiting(op, b))
    BY <2>1, PendingIsWaiting DEF Inv
  <2> QED BY <2>1, <2>2 DEF Balanced
<1> QED BY <1>1, InvHolds, PTL

\* No handle and no operation reaches a Bytes block that has been freed.
THEOREM BytesNeverUsedAfterFree ==
  Spec => [](\A b \in Block \ TransactionBlock :
               refs[b] = Free =>
                 HandlesOf(b) = {} /\ \A op \in {"add", "sub", "free"} : Pending(op, b) = {})
<1>1. Inv => \A b \in Block \ TransactionBlock :
               refs[b] = Free =>
                 HandlesOf(b) = {} /\ \A op \in {"add", "sub", "free"} : Pending(op, b) = {}
  BY PendingIsWaiting DEF Inv, CountsHold, BytesBlock, Unused
<1> QED BY <1>1, InvHolds, PTL

-----------------------------------------------------------------------------
(* The counts of transactions: what they promise *)

\* The moves that leave a count too high cannot make it wrap.
CountsAreWide == Cardinality(Transaction) + MaxMoves < RefMod

\* The threads that have to add one for a copy, and not for a move.
Copying(b) == {t \in Waiting("add", b) : AdderHolds(t, b)}

\* Who has to add one to a transaction has a handle of it, and who has to take
\* one off has a handle that let go.
HolderOf(t, b)  == \E h \in Handle : owner[h] = t /\ storage[h] = b
DropperOf(t, b) == \E h \in Transaction : owner[h] = t /\ storage[h] # b

WaitersHold ==
  \A b \in TransactionBlock :
    /\ \A t \in Waiting("add", b) : HolderOf(t, b)
    /\ \A t \in Waiting("sub", b) : DropperOf(t, b)

\* The count is at most as much too high as there were moves.
Enough(b) ==
  /\ refs[b] \in Nat
  /\ refs[b] + Cardinality(Copying(b))
       >= Cardinality(HandlesOf(b)) + Cardinality(Waiting("sub", b))
  /\ refs[b] + Cardinality(Waiting("add", b))
       <= Cardinality(HandlesOf(b)) + Cardinality(Waiting("sub", b)) + moves
  /\ Cardinality(Waiting("free", b)) = (IF refs[b] = 0 THEN 1 ELSE 0)

CountsSuffice == \A b \in TransactionBlock : IF refs[b] = Free THEN Unused(b) ELSE Enough(b)

TransactionInv == Inv /\ moves \in 0 .. MaxMoves /\ WaitersHold /\ CountsSuffice

-----------------------------------------------------------------------------
(* The counts of transactions: how many threads wait *)

\* The handles of a transaction and the threads that have to take one off are
\* together at most as many as there are handles of transactions.
LEMMA DroppersAreBounded ==
  ASSUME TransactionInv, NEW b \in TransactionBlock
  PROVE  Cardinality(HandlesOf(b)) + Cardinality(Waiting("sub", b)) <= Cardinality(Transaction)
<1> DEFINE S == Waiting("sub", b)
           H == HandlesOf(b)
           R == Transaction \ H
           f == [t \in S |-> CHOOSE h \in R : owner[h] = t]
<1>1. H \in SUBSET Transaction
  BY HandleAssumption DEF TransactionInv, Inv, Typed, BlocksFor, HandlesOf
<1>2. \A t \in S : \E h \in R : owner[h] = t
  BY DEF TransactionInv, WaitersHold, DropperOf, HandlesOf
<1>3. \A t \in S : f[t] \in R /\ owner[f[t]] = t
  BY <1>2
<1>4. f \in Injection(S, R)
  <2>1. f \in [S -> R]
    BY <1>3
  <2>2. \A u, v \in S : f[u] = f[v] => u = v
    BY <1>3
  <2> HIDE DEF f, S, R
  <2> QED BY <2>1, <2>2 DEF Injection, IsInjective
<1>5. IsFiniteSet(Transaction) /\ IsFiniteSet(H)
  BY Finite, FS_Subset, HandleAssumption
<1>6. R \in SUBSET Transaction
  OBVIOUS
<1>7. IsFiniteSet(R)
  <2> HIDE DEF R
  <2> QED BY <1>5, <1>6, FS_Subset
<1>8. Cardinality(S) <= Cardinality(R)
  <2> HIDE DEF f, S, R
  <2> QED BY <1>4, <1>7, FS_Injection
<1>9. Cardinality(H \cup R) = Cardinality(H) + Cardinality(R) - Cardinality(H \cap R)
  <2> HIDE DEF R, H
  <2> QED BY <1>5, <1>7, FS_Union
<1>10. H \cup R = Transaction /\ H \cap R = {}
  BY <1>1, Zenon
<1>11. Cardinality(Transaction) = Cardinality(H) + Cardinality(R) - Cardinality({})
  BY <1>9, <1>10
<1>12. /\ Cardinality(H) \in Nat /\ Cardinality(R) \in Nat /\ Cardinality(S) \in Nat
       /\ Cardinality({}) = 0
  <2>1. IsFiniteSet(S)
    BY Finite
  <2> QED BY <2>1, <1>5, <1>7, FS_CardinalityType, FS_EmptySet
<1> HIDE DEF H, R, S
<1>13. Cardinality(H) + Cardinality(S) <= Cardinality(Transaction)
  BY <1>8, <1>11, <1>12
<1> QED BY <1>13 DEF H, S

\* The numbers that the counts are compared with.
LEMMA Sizes ==
  \A b : /\ IsFiniteSet(HandlesOf(b)) /\ Cardinality(HandlesOf(b)) \in Nat
         /\ IsFiniteSet(Copying(b)) /\ Cardinality(Copying(b)) \in Nat
         /\ \A op : IsFiniteSet(Waiting(op, b)) /\ Cardinality(Waiting(op, b)) \in Nat
         /\ Cardinality(Copying(b)) <= Cardinality(Waiting("add", b))
<1> TAKE b
<1>1. Copying(b) \in SUBSET Waiting("add", b)
  BY DEF Copying
<1> QED BY <1>1, Finite, FS_Subset, FS_CardinalityType

LEMMA SizesNext ==
  \A b : /\ IsFiniteSet(HandlesOf(b)') /\ Cardinality(HandlesOf(b)') \in Nat
         /\ IsFiniteSet(Copying(b)') /\ Cardinality(Copying(b)') \in Nat
         /\ \A op : IsFiniteSet(Waiting(op, b)') /\ Cardinality(Waiting(op, b)') \in Nat
<1> TAKE b
<1>1. Copying(b)' \in SUBSET (Waiting("add", b)')
  BY DEF Copying
<1> QED BY <1>1, FiniteNext, FS_Subset, FS_CardinalityType

\* As for Bytes, what waits or points to a transaction finds it counted.
LEMMA TransactionCountIsPositive ==
  ASSUME TransactionInv, NEW b \in TransactionBlock, refs[b] # Free,
         Waiting("add", b) # {} \/ Waiting("sub", b) # {} \/ HandlesOf(b) # {}
  PROVE  refs[b] \in Nat /\ refs[b] > 0
<1>1. Enough(b)
  BY DEF TransactionInv, CountsSuffice
<1>2. Copying(b) # {} => Cardinality(Copying(b)) < Cardinality(HandlesOf(b))
  <2>1. Copying(b) \in SUBSET Thread /\ \A t \in Copying(b) : AdderHolds(t, b)
    BY DEF Copying, Waiting
  <2> QED BY <2>1, HoldersAreFewer
<1>3. Waiting("sub", b) # {} \/ HandlesOf(b) # {}
  BY DEF TransactionInv, WaitersHold, HolderOf, HandlesOf
<1>4. /\ Cardinality(Waiting("sub", b)) = 0 <=> Waiting("sub", b) = {}
      /\ Cardinality(HandlesOf(b)) = 0 <=> HandlesOf(b) = {}
      /\ Cardinality(Copying(b)) = 0 <=> Copying(b) = {}
  BY Sizes, FS_EmptySet
<1>5. PICK n, c, h, s \in Nat :
        /\ n = refs[b] /\ c = Cardinality(Copying(b)) /\ h = Cardinality(HandlesOf(b))
        /\ s = Cardinality(Waiting("sub", b))
  BY <1>1, Sizes DEF Enough
<1>6. n + c >= h + s /\ (c # 0 => c < h) /\ (s # 0 \/ h # 0)
  BY <1>1, <1>2, <1>3, <1>4, <1>5 DEF Enough
<1> QED BY <1>5, <1>6

-----------------------------------------------------------------------------
(* The counts of transactions: blocks that keep them *)

Sufficient(b) == IF refs[b] = Free THEN Unused(b) ELSE Enough(b)

\* A block whose count and queue to free stay is counted enough if neither
\* side of either comparison loses.
LEMMA KeepsEnough ==
  ASSUME TransactionInv, NEW b \in TransactionBlock, refs'[b] = refs[b], refs[b] # Free,
         moves' \in Nat, Waiting("free", b)' = Waiting("free", b),
         Cardinality(HandlesOf(b)') + Cardinality(Waiting("sub", b)') + Cardinality(Copying(b))
           <= Cardinality(HandlesOf(b)) + Cardinality(Waiting("sub", b)) + Cardinality(Copying(b)'),
         Cardinality(HandlesOf(b)) + Cardinality(Waiting("sub", b)) + moves
             + Cardinality(Waiting("add", b)')
           <= Cardinality(HandlesOf(b)') + Cardinality(Waiting("sub", b)') + moves'
             + Cardinality(Waiting("add", b))
  PROVE  Sufficient(b)'
<1>1. Enough(b) /\ moves \in Nat
  BY DEF TransactionInv, CountsSuffice
<1>2. PICK n, c, h, s, a, m, c1, h1, s1, a1, m1 \in Nat :
        /\ n = refs[b] /\ c = Cardinality(Copying(b)) /\ h = Cardinality(HandlesOf(b))
        /\ s = Cardinality(Waiting("sub", b)) /\ a = Cardinality(Waiting("add", b)) /\ m = moves
        /\ c1 = Cardinality(Copying(b)') /\ h1 = Cardinality(HandlesOf(b)')
        /\ s1 = Cardinality(Waiting("sub", b)') /\ a1 = Cardinality(Waiting("add", b)')
        /\ m1 = moves'
  BY <1>1, Sizes, SizesNext DEF Enough
<1>3. /\ n + c >= h + s /\ n + a <= h + s + m
      /\ Cardinality(Waiting("free", b)') = (IF n = 0 THEN 1 ELSE 0)
  BY <1>1, <1>2 DEF Enough
<1>4. h1 + s1 + c <= h + s + c1 /\ h + s + m + a1 <= h1 + s1 + m1 + a
  BY <1>2
<1>5. n + c1 >= h1 + s1 /\ n + a1 <= h1 + s1 + m1
  BY <1>3, <1>4
<1>6. Enough(b)'
  BY <1>2, <1>3, <1>5 DEF Enough
<1> QED BY <1>6, <1>2, HandleAssumption DEF Sufficient

\* What a step of t on its handles leaves to the others.
OnlyBy(t) ==
  /\ owner' = owner /\ SourceBy(t)
  /\ \A h \in Handle : owner[h] # t => storage'[h] = storage[h]
  /\ \A op, b : Waiting(op, b) \ {t} = Waiting(op, b)' \ {t}
  /\ moves' \in Nat /\ moves' >= moves

LEMMA OthersKeepCopying ==
  ASSUME NEW t \in Thread, Idle(t), OnlyBy(t), NEW b
  PROVE  Copying(b) \subseteq Copying(b)' /\ t \notin Copying(b)
<1>1. \A op : t \notin Waiting(op, b)
  BY IdleWaitsNot
<1>2. ASSUME NEW u \in Copying(b)
      PROVE  u \in Copying(b)'
  <2>1. u \in Waiting("add", b)' /\ u \in Thread /\ u # t /\ AdderHolds(u, b)
    BY <1>1, <1>2 DEF Copying, OnlyBy, Waiting
  <2>2. PICK h, g \in Handle :
          /\ h # g /\ owner[h] = u /\ owner[g] \in {u, Shared} /\ source[u] = g
          /\ storage[h] = b /\ storage[g] = b
    BY <2>1 DEF AdderHolds
  <2>3. owner[h] # t /\ owner[g] # t
    BY <2>1, <2>2, HandleAssumption
  <2>4. storage'[h] = b /\ storage'[g] = b
    BY <2>2, <2>3 DEF OnlyBy
  <2>5. source'[u] = g /\ owner' = owner
    BY <2>1, <2>2 DEF OnlyBy, SourceBy
  <2>6. AdderHolds(u, b)'
    BY <2>2, <2>4, <2>5 DEF AdderHolds
  <2> QED BY <2>1, <2>6 DEF Copying
<1> QED BY <1>1, <1>2 DEF Copying

\* So they have no fewer copies to count, and one more if t copies.
LEMMA CopyingGrows ==
  ASSUME NEW t \in Thread, Idle(t), OnlyBy(t), NEW b
  PROVE  /\ Cardinality(Copying(b)) <= Cardinality(Copying(b)')
         /\ t \in Copying(b)' => Cardinality(Copying(b)) + 1 <= Cardinality(Copying(b)')
<1>1. Copying(b) \in SUBSET (Copying(b)') /\ t \notin Copying(b)
  BY OthersKeepCopying
<1>2. Cardinality(Copying(b)) <= Cardinality(Copying(b)')
  BY <1>1, SizesNext, FS_Subset
<1>3. ASSUME t \in Copying(b)'
      PROVE  Cardinality(Copying(b)) + 1 <= Cardinality(Copying(b)')
  <2>1. Copying(b) \cup {t} \in SUBSET (Copying(b)')
    BY <1>1, <1>3
  <2>2. Cardinality(Copying(b) \cup {t}) <= Cardinality(Copying(b)')
    BY <2>1, SizesNext, FS_Subset
  <2>3. Cardinality(Copying(b) \cup {t}) = Cardinality(Copying(b)) + 1
    BY <1>1, Sizes, FS_AddElement
  <2> QED BY <2>2, <2>3
<1> QED BY <1>2, <1>3

LEMMA Numbers ==
  ASSUME TransactionInv, NEW b
  PROVE  /\ Cardinality(Copying(b)) \in Nat /\ Cardinality(HandlesOf(b)) \in Nat
         /\ Cardinality(Waiting("sub", b)) \in Nat /\ Cardinality(Waiting("add", b)) \in Nat
         /\ Cardinality(Copying(b)') \in Nat /\ Cardinality(Waiting("add", b)') \in Nat
         /\ moves \in Nat
<1>1. moves \in Nat
  BY DEF TransactionInv
<1> QED BY <1>1, Sizes, SizesNext

Untouched(b) ==
  HandlesOf(b)' = HandlesOf(b) /\ \A op \in {"add", "sub", "free"} : Waiting(op, b)' = Waiting(op, b)

\* Whether a thread copies depends on its queue, its source and the handles.
LEMMA SameCopying ==
  ASSUME NEW b, HandlesOf(b)' = HandlesOf(b), owner' = owner
  PROVE  \A t \in Thread : source'[t] = source[t] => (AdderHolds(t, b)' <=> AdderHolds(t, b))
<1>1. \A h \in Handle : storage'[h] = b <=> storage[h] = b
  BY DEF HandlesOf
<1> SUFFICES ASSUME NEW t \in Thread, source'[t] = source[t]
             PROVE  AdderHolds(t, b)' <=> AdderHolds(t, b)
  OBVIOUS
<1> QED BY <1>1 DEF AdderHolds

LEMMA SameSuffices ==
  ASSUME TransactionInv, NEW b \in TransactionBlock, Untouched(b), refs'[b] = refs[b], moves' = moves,
         Copying(b)' = Copying(b)
  PROVE  Sufficient(b)'
<1>1. Copying(b)' = Copying(b)
  OBVIOUS
<1>2. IF refs[b] = Free THEN Unused(b) ELSE Enough(b)
  BY DEF TransactionInv, CountsSuffice
<1> QED BY <1>1, <1>2 DEF Sufficient, Unused, Enough, Untouched

LEMMA UntouchedSuffices ==
  ASSUME TransactionInv, NEW t \in Thread, Idle(t), OnlyBy(t), refs' = refs,
         NEW b \in TransactionBlock, Untouched(b)
  PROVE  Sufficient(b)'
<1>1. refs'[b] = refs[b] /\ moves' \in Nat /\ moves' >= moves
  BY DEF OnlyBy
<1>2. CASE refs[b] = Free
  BY <1>1, <1>2 DEF Untouched, Sufficient, Unused, TransactionInv, CountsSuffice
<1>3. CASE refs[b] # Free
  <2>1. Cardinality(Copying(b)) <= Cardinality(Copying(b)')
    BY CopyingGrows
  <2>2. PICK c, h, s, a, m, c1, m1 \in Nat :
          /\ c = Cardinality(Copying(b)) /\ h = Cardinality(HandlesOf(b))
          /\ s = Cardinality(Waiting("sub", b)) /\ a = Cardinality(Waiting("add", b)) /\ m = moves
          /\ c1 = Cardinality(Copying(b)') /\ m1 = moves'
    BY <1>1, Numbers
  <2>3. h + s + c <= h + s + c1 /\ h + s + m + a <= h + s + m1 + a
    BY <2>1, <2>2, <1>1
  <2> QED BY <1>1, <1>3, <2>2, <2>3, KeepsEnough DEF Untouched
<1> QED BY <1>2, <1>3

\* One handle less, and t will say so.
LEMMA DropSuffices ==
  ASSUME TransactionInv, NEW t \in Thread, Idle(t), OnlyBy(t), refs' = refs, NEW b \in TransactionBlock,
         NEW h \in HandlesOf(b), HandlesOf(b)' = HandlesOf(b) \ {h},
         Waiting("sub", b)' = Waiting("sub", b) \cup {t},
         \A op \in {"add", "free"} : Waiting(op, b)' = Waiting(op, b)
  PROVE  Sufficient(b)'
<1>1. /\ refs'[b] = refs[b] /\ moves' \in Nat /\ moves' >= moves /\ t \notin Waiting("sub", b)
      /\ refs[b] # Free
  BY IdleWaitsNot DEF OnlyBy, TransactionInv, CountsSuffice, Unused
<1>2. /\ Cardinality(HandlesOf(b)') = Cardinality(HandlesOf(b)) - 1
      /\ Cardinality(Waiting("sub", b)') = Cardinality(Waiting("sub", b)) + 1
  <2>1. Cardinality(HandlesOf(b)') = Cardinality(HandlesOf(b)) - 1
    BY Finite, FS_RemoveElement
  <2>2. Cardinality(Waiting("sub", b)') = Cardinality(Waiting("sub", b)) + 1
    BY <1>1, Finite, FS_AddElement
  <2> QED BY <2>1, <2>2
<1>3. Cardinality(Copying(b)) <= Cardinality(Copying(b)')
  BY CopyingGrows
<1>4. PICK c, k, s, a, m, c1, m1 \in Nat :
        /\ c = Cardinality(Copying(b)) /\ k = Cardinality(HandlesOf(b))
        /\ s = Cardinality(Waiting("sub", b)) /\ a = Cardinality(Waiting("add", b)) /\ m = moves
        /\ c1 = Cardinality(Copying(b)') /\ m1 = moves'
  BY <1>1, Numbers
<1>5. (k - 1) + (s + 1) + c <= k + s + c1 /\ k + s + m + a <= (k - 1) + (s + 1) + m1 + a
  BY <1>1, <1>3, <1>4
<1> QED BY <1>1, <1>2, <1>4, <1>5, KeepsEnough

\* One handle more, a copy of one there is, and t will say so.
LEMMA CopySuffices ==
  ASSUME TransactionInv, NEW t \in Thread, Idle(t), OnlyBy(t), refs' = refs, NEW b \in TransactionBlock,
         HandlesOf(b) # {}, NEW h, h \notin HandlesOf(b), HandlesOf(b)' = HandlesOf(b) \cup {h},
         Waiting("add", b)' = Waiting("add", b) \cup {t}, t \in Copying(b)',
         \A op \in {"sub", "free"} : Waiting(op, b)' = Waiting(op, b)
  PROVE  Sufficient(b)'
<1>1. /\ refs'[b] = refs[b] /\ moves' \in Nat /\ moves' >= moves /\ t \notin Waiting("add", b)
      /\ refs[b] # Free
  BY IdleWaitsNot DEF OnlyBy, TransactionInv, CountsSuffice, Unused
<1>2. /\ Cardinality(HandlesOf(b)') = Cardinality(HandlesOf(b)) + 1
      /\ Cardinality(Waiting("add", b)') = Cardinality(Waiting("add", b)) + 1
  BY <1>1, Finite, FS_AddElement
<1>3. Cardinality(Copying(b)) + 1 <= Cardinality(Copying(b)')
  BY CopyingGrows
<1>4. PICK c, k, s, a, m, c1, m1 \in Nat :
        /\ c = Cardinality(Copying(b)) /\ k = Cardinality(HandlesOf(b))
        /\ s = Cardinality(Waiting("sub", b)) /\ a = Cardinality(Waiting("add", b)) /\ m = moves
        /\ c1 = Cardinality(Copying(b)') /\ m1 = moves'
  BY <1>1, Numbers
<1>5. (k + 1) + s + c <= k + s + c1 /\ k + s + m + (a + 1) <= (k + 1) + s + m1 + a
  BY <1>1, <1>3, <1>4
<1> QED BY <1>1, <1>2, <1>4, <1>5, KeepsEnough

\* One handle for another; and if t adds one for it, one more move.
LEMMA MoveSuffices ==
  ASSUME TransactionInv, NEW t \in Thread, Idle(t), OnlyBy(t), refs' = refs, NEW b \in TransactionBlock,
         NEW g \in HandlesOf(b), NEW h, h \notin HandlesOf(b),
         HandlesOf(b)' = (HandlesOf(b) \ {g}) \cup {h},
         \/ Waiting("add", b)' = Waiting("add", b)
         \/ Waiting("add", b)' = Waiting("add", b) \cup {t} /\ moves' = moves + 1,
         \A op \in {"sub", "free"} : Waiting(op, b)' = Waiting(op, b)
  PROVE  Sufficient(b)'
<1>1. /\ refs'[b] = refs[b] /\ moves' \in Nat /\ moves' >= moves /\ t \notin Waiting("add", b)
      /\ refs[b] # Free
  BY IdleWaitsNot DEF OnlyBy, TransactionInv, CountsSuffice, Unused
<1>2. Cardinality(HandlesOf(b)') = Cardinality(HandlesOf(b))
  <2>1. /\ IsFiniteSet(HandlesOf(b) \ {g})
        /\ Cardinality(HandlesOf(b) \ {g}) = Cardinality(HandlesOf(b)) - 1
    BY Finite, FS_RemoveElement
  <2>2. h \notin HandlesOf(b) \ {g}
    OBVIOUS
  <2>3. Cardinality((HandlesOf(b) \ {g}) \cup {h}) = Cardinality(HandlesOf(b) \ {g}) + 1
    BY <2>1, <2>2, FS_AddElement
  <2> QED BY <2>1, <2>3, Sizes
<1>3. Cardinality(Copying(b)) <= Cardinality(Copying(b)')
  BY CopyingGrows
<1>4. PICK c, k, s, a, m, c1, a1, m1 \in Nat :
        /\ c = Cardinality(Copying(b)) /\ k = Cardinality(HandlesOf(b))
        /\ s = Cardinality(Waiting("sub", b)) /\ a = Cardinality(Waiting("add", b)) /\ m = moves
        /\ c1 = Cardinality(Copying(b)') /\ a1 = Cardinality(Waiting("add", b)') /\ m1 = moves'
  BY <1>1, Numbers
<1>5. a1 = a \/ (a1 = a + 1 /\ m1 = m + 1)
  BY <1>1, <1>4, Finite, FS_AddElement
<1>6. k + s + c <= k + s + c1 /\ k + s + m + a1 <= k + s + m1 + a
  BY <1>1, <1>3, <1>4, <1>5
<1> QED BY <1>1, <1>2, <1>4, <1>6, KeepsEnough

-----------------------------------------------------------------------------
(* The counts of transactions: operations on handles *)

\* An idle thread that drops p and adds to q waits for that and nothing else.
LEMMA WaitsForBoth ==
  ASSUME Typed, NEW t \in Thread, Idle(t), NEW p, NEW q, NEW ops,
         DropsAndAdds(ops, p, q), Will(t, ops)
  PROVE  /\ \A op, b : t \notin Waiting(op, b) /\ Waiting(op, b) \ {t} = Waiting(op, b)' \ {t}
         /\ \A b \in Block :
              /\ Waiting("free", b)' = Waiting("free", b)
              /\ Waiting("sub", b)' = IF b = p THEN Waiting("sub", b) \cup {t} ELSE Waiting("sub", b)
              /\ Waiting("add", b)' = IF b = q THEN Waiting("add", b) \cup {t} ELSE Waiting("add", b)
<1>1. \A op, b : /\ t \notin Waiting(op, b)
                 /\ Waiting(op, b)' = (Waiting(op, b) \ {t})
                      \cup IF \E i \in 1 .. Len(ops) : ops[i] = Due(op, b) THEN {t} ELSE {}
  BY IdleWaitsNot, WaitingAfter DEF DropsAndAdds
<1> QED BY <1>1 DEF DropsAndAdds

\* t drops p with h, which then points elsewhere, and adds to what h points to.
LEMMA HandleStepKeepsWaiters ==
  ASSUME TransactionInv, NEW t \in Thread, Idle(t), OnlyBy(t), NEW p, NEW q, NEW ops,
         DropsAndAdds(ops, p, q), Will(t, ops), Null \notin Block,
         NEW h \in Handle, owner[h] = t, p \in TransactionBlock => storage[h] = p /\ storage'[h] # p,
         q \in Block => storage'[h] = q
  PROVE  WaitersHold'
<1>1. owner' = owner
  BY DEF OnlyBy
<1> SUFFICES ASSUME NEW b \in TransactionBlock
             PROVE  /\ \A u \in Waiting("add", b)' : HolderOf(u, b)'
                    /\ \A u \in Waiting("sub", b)' : DropperOf(u, b)'
  BY DEF WaitersHold
<1>2. Typed /\ b \in Block
  BY HandleAssumption DEF TransactionInv, Inv
<1>3. /\ t \notin Waiting("add", b) /\ t \notin Waiting("sub", b)
      /\ Waiting("sub", b)' = IF b = p THEN Waiting("sub", b) \cup {t} ELSE Waiting("sub", b)
      /\ Waiting("add", b)' = IF b = q THEN Waiting("add", b) \cup {t} ELSE Waiting("add", b)
  BY <1>2, WaitsForBoth
<1>4. \A k \in Handle : owner[k] # t => storage'[k] = storage[k]
  BY DEF OnlyBy
<1>5. ASSUME NEW u \in Waiting("add", b)'
      PROVE  HolderOf(u, b)'
  <2>1. CASE u = t
    BY <1>2, <1>3, <1>5, <1>1, <2>1 DEF HolderOf
  <2>2. CASE u # t
    BY <1>3, <1>4, <1>5, <1>1, <2>2 DEF HolderOf, TransactionInv, WaitersHold
  <2> QED BY <2>1, <2>2
<1>6. ASSUME NEW u \in Waiting("sub", b)'
      PROVE  DropperOf(u, b)'
  <2>1. CASE u = t
    <3>1. storage[h] = b /\ storage'[h] # b
      BY <1>2, <1>3, <1>6, <2>1
    <3>2. h \in Transaction
      BY <3>1, <1>2 DEF Typed, BlocksFor
    <3> QED BY <3>1, <3>2, <2>1, <1>1 DEF DropperOf
  <2>2. CASE u # t
    BY <1>3, <1>4, <1>6, <1>1, <2>2, HandleAssumption DEF DropperOf, TransactionInv, WaitersHold
  <2> QED BY <2>1, <2>2
<1> QED BY <1>5, <1>6

LEMMA PointSuffices ==
  ASSUME TransactionInv, NEW t \in Thread, NEW h \in Handle, Mine(t, h),
         NEW p, p = storage[h],
         NEW q \in Block \cup {Null}, p # q \/ q = Null,
         q # Null => q \in BlocksFor(h)
                     /\ \E g \in Handle : /\ g # h /\ Readable(t, g) /\ storage[g] = q
                                         /\ source'[t] = g,
         storage' = [storage EXCEPT ![h] = q], owner' = owner, SourceBy(t),
         Will(t, On("sub", p) \o On("add", q)), refs' = refs, moves' = moves
  PROVE  WaitersHold' /\ CountsSuffice'
<1>0. PICK ops : ops = On("sub", p) \o On("add", q)
  OBVIOUS
<1>1. /\ Typed /\ p \in Block \cup {Null} /\ Null \notin Block /\ moves \in Nat /\ Idle(t)
      /\ owner[h] = t
  BY HandleAssumption DEF TransactionInv, Inv, Typed, Mine
<1>2. DropsAndAdds(ops, p, q) /\ Will(t, ops)
  BY <1>0, <1>1, QueueOf
<1>3. /\ \A op, b : t \notin Waiting(op, b) /\ Waiting(op, b) \ {t} = Waiting(op, b)' \ {t}
      /\ \A b \in Block :
           /\ Waiting("free", b)' = Waiting("free", b)
           /\ Waiting("sub", b)' = IF b = p THEN Waiting("sub", b) \cup {t} ELSE Waiting("sub", b)
           /\ Waiting("add", b)' = IF b = q THEN Waiting("add", b) \cup {t} ELSE Waiting("add", b)
  BY <1>1, <1>2, WaitsForBoth
<1>4. storage'[h] = q /\ \A k \in Handle \ {h} : storage'[k] = storage[k]
  BY <1>1 DEF Typed
<1>5. OnlyBy(t)
  BY <1>1, <1>3, <1>4 DEF OnlyBy
<1>6. WaitersHold'
  <2>1. /\ p \in TransactionBlock => storage[h] = p /\ storage'[h] # p
        /\ q \in Block => storage'[h] = q
    BY <1>1, <1>4, HandleAssumption
  <2>2. \A r, k, o : /\ Idle(t) /\ owner[h] = t /\ DropsAndAdds(o, r, k) /\ Will(t, o)
                    /\ (r \in TransactionBlock => storage[h] = r /\ storage'[h] # r)
                    /\ (k \in Block => storage'[h] = k)
                    => WaitersHold'
    BY <1>1, <1>5, HandleStepKeepsWaiters
  <2> QED BY <2>1, <2>2, <1>1, <1>2
<1>7. \A b \in Block : HandlesOf(b)' =
        IF b = q THEN HandlesOf(b) \cup {h} ELSE IF b = p THEN HandlesOf(b) \ {h} ELSE HandlesOf(b)
  BY <1>1, <1>4 DEF HandlesOf
<1>8. ASSUME NEW b \in TransactionBlock
      PROVE  Sufficient(b)'
  <2>0. b \in Block
    BY HandleAssumption
  <2>1. CASE b # p /\ b # q
    <3>1. Untouched(b)
      BY <2>0, <2>1, <1>3, <1>7 DEF Untouched
    <3> QED BY <3>1, <1>1, <1>5, UntouchedSuffices
  <2>2. CASE b = p /\ b # q
    <3>1. h \in HandlesOf(b) /\ HandlesOf(b)' = HandlesOf(b) \ {h}
      BY <2>0, <2>2, <1>7 DEF HandlesOf
    <3>2. /\ Waiting("sub", b)' = Waiting("sub", b) \cup {t}
          /\ \A op \in {"add", "free"} : Waiting(op, b)' = Waiting(op, b)
      BY <2>0, <2>2, <1>3
    <3> QED BY <3>1, <3>2, <1>1, <1>5, DropSuffices
  <2>3. CASE b = q
    <3>1. b # p
      BY <2>0, <2>3, <1>1
    <3>2. PICK g \in Handle : g # h /\ Readable(t, g) /\ storage[g] = b /\ source'[t] = g
      BY <2>0, <2>3, <1>1
    <3>3. g \in HandlesOf(b) /\ h \notin HandlesOf(b) /\ HandlesOf(b)' = HandlesOf(b) \cup {h}
      BY <2>0, <2>3, <3>1, <3>2, <1>7 DEF HandlesOf
    <3>4. /\ Waiting("add", b)' = Waiting("add", b) \cup {t}
          /\ \A op \in {"sub", "free"} : Waiting(op, b)' = Waiting(op, b)
      BY <2>0, <2>3, <3>1, <1>3
    <3>5. AdderHolds(t, b)'
      BY <2>3, <3>2, <1>1, <1>4 DEF AdderHolds, Readable
    <3>6. t \in Copying(b)'
      BY <3>4, <3>5 DEF Copying
    <3> QED BY <3>3, <3>4, <3>6, <1>1, <1>5, CopySuffices
  <2> QED BY <2>1, <2>2, <2>3
<1> QED BY <1>6, <1>8 DEF CountsSuffice, Sufficient

\* h takes over what g points to, and g lets go; of transactions, t may add one.
LEMMA TakeOverSuffices ==
  ASSUME TransactionInv, NEW t \in Thread, NEW h \in Handle, NEW g \in Handle,
         Mine(t, h), Mine(t, g), h # g,
         NEW p, p = storage[h], NEW q, q = storage[g], NEW added, NEW ops,
         DropsAndAdds(ops, p, added), Will(t, ops),
         \/ added = Null /\ moves' = moves
         \/ added = q /\ moves' = moves + 1,
         p # q \/ p \notin TransactionBlock,
         storage' = [storage EXCEPT ![h] = q, ![g] = Null], refs' = refs,
         owner' = owner, source' = source
  PROVE  WaitersHold' /\ CountsSuffice'
<1>1. /\ Typed /\ p \in Block \cup {Null} /\ q \in Block \cup {Null} /\ Null \notin Block
      /\ moves \in Nat /\ Idle(t) /\ owner[h] = t /\ owner[g] = t
  BY HandleAssumption DEF TransactionInv, Inv, Typed, Mine
<1>3. /\ \A op, b : t \notin Waiting(op, b) /\ Waiting(op, b) \ {t} = Waiting(op, b)' \ {t}
      /\ \A b \in Block :
           /\ Waiting("free", b)' = Waiting("free", b)
           /\ Waiting("sub", b)' = IF b = p THEN Waiting("sub", b) \cup {t} ELSE Waiting("sub", b)
           /\ Waiting("add", b)' = IF b = added THEN Waiting("add", b) \cup {t} ELSE Waiting("add", b)
  BY <1>1, WaitsForBoth
<1>4. /\ storage'[h] = q /\ storage'[g] = Null
      /\ \A k \in Handle \ {h, g} : storage'[k] = storage[k]
  BY <1>1 DEF Typed
<1>5. OnlyBy(t)
  <2>1. moves' \in Nat /\ moves' >= moves
    BY <1>1
  <2>2. \A k \in Handle : owner[k] # t => storage'[k] = storage[k]
    BY <1>1, <1>4
  <2>3. SourceBy(t)
    BY <1>1, SameSource
  <2> QED BY <2>1, <2>2, <2>3, <1>3 DEF OnlyBy
<1>6. WaitersHold'
  <2>1. /\ p \in TransactionBlock => storage[h] = p /\ storage'[h] # p
        /\ added \in Block => storage'[h] = added
    BY <1>1, <1>4
  <2>2. \A r, k, o : /\ Idle(t) /\ owner[h] = t /\ DropsAndAdds(o, r, k) /\ Will(t, o)
                    /\ (r \in TransactionBlock => storage[h] = r /\ storage'[h] # r)
                    /\ (k \in Block => storage'[h] = k)
                    => WaitersHold'
    BY <1>1, <1>5, HandleStepKeepsWaiters
  <2> QED BY <2>1, <2>2, <1>1
<1>7. ASSUME NEW b \in TransactionBlock
      PROVE  Sufficient(b)'
  <2>0. b \in Block /\ b # Null
    BY <1>1, HandleAssumption
  <2>1. CASE b # p /\ b # q
    <3>1. HandlesOf(b)' = HandlesOf(b)
      BY <2>0, <2>1, <1>4 DEF HandlesOf
    <3>2. Untouched(b)
      BY <2>0, <2>1, <3>1, <1>3 DEF Untouched
    <3> QED BY <3>2, <1>1, <1>5, UntouchedSuffices
  <2>2. CASE b = p
    <3>1. h \in HandlesOf(b) /\ HandlesOf(b)' = HandlesOf(b) \ {h} /\ b # q
      BY <2>0, <2>2, <1>4 DEF HandlesOf
    <3>2. /\ Waiting("sub", b)' = Waiting("sub", b) \cup {t}
          /\ \A op \in {"add", "free"} : Waiting(op, b)' = Waiting(op, b)
      BY <2>0, <2>2, <3>1, <1>3
    <3> QED BY <3>1, <3>2, <1>1, <1>5, DropSuffices
  <2>3. CASE b = q /\ b # p
    <3>1. /\ g \in HandlesOf(b) /\ h \notin HandlesOf(b)
          /\ HandlesOf(b)' = (HandlesOf(b) \ {g}) \cup {h}
      BY <2>0, <2>3, <1>4 DEF HandlesOf
    <3>2. /\ \/ Waiting("add", b)' = Waiting("add", b)
             \/ Waiting("add", b)' = Waiting("add", b) \cup {t} /\ moves' = moves + 1
          /\ \A op \in {"sub", "free"} : Waiting(op, b)' = Waiting(op, b)
      BY <2>0, <2>3, <1>3
    <3> QED BY <3>1, <3>2, <1>1, <1>5, MoveSuffices
  <2> QED BY <2>1, <2>2, <2>3
<1> QED BY <1>6, <1>7 DEF CountsSuffice, Sufficient

\* Two handles more make a block.
LEMMA ConstructSuffices ==
  ASSUME TransactionInv, NEW t \in Thread, NEW h \in Handle, Construct(t, h)
  PROVE  WaitersHold' /\ CountsSuffice'
<1>1. PICK c \in BlocksFor(h) \ Allocated :
        /\ storage' = [storage EXCEPT ![h] = c] /\ refs' = [refs EXCEPT ![c] = 1]
        /\ todo' = todo /\ moves' = moves /\ owner' = owner /\ source' = source
  BY DEF Construct
<1>2. /\ Typed /\ c \in Block /\ refs[c] = Free /\ storage[h] = Null /\ Null \notin Block
      /\ Free \notin Nat /\ owner[h] = t /\ Idle(t) /\ moves \in Nat
  BY HandleAssumption DEF TransactionInv, Inv, BlocksFor, Allocated, Construct, Mine
<1>3. refs'[c] = 1 /\ \A b \in Block \ {c} : refs'[b] = refs[b]
  BY <1>1, <1>2 DEF Typed
<1>4. storage'[h] = c /\ \A k \in Handle \ {h} : storage'[k] = storage[k]
  BY <1>1, <1>2 DEF Typed
<1>5. \A op, b : Waiting(op, b)' = Waiting(op, b) /\ t \notin Waiting(op, b)
  BY <1>1, <1>2, IdleWaitsNot DEF Waiting
<1>6. WaitersHold'
  <2> SUFFICES ASSUME NEW b \in TransactionBlock
               PROVE  /\ \A u \in Waiting("add", b) : HolderOf(u, b)'
                      /\ \A u \in Waiting("sub", b) : DropperOf(u, b)'
    BY <1>5 DEF WaitersHold
  <2>1. b # Null
    BY <1>2, HandleAssumption
  <2>2. \A u \in Waiting("add", b) : u # t /\ HolderOf(u, b)
    BY <1>5 DEF TransactionInv, WaitersHold
  <2>3. \A u \in Waiting("sub", b) : u # t /\ DropperOf(u, b)
    BY <1>5 DEF TransactionInv, WaitersHold
  <2>4. \A u \in Waiting("add", b) : HolderOf(u, b)'
    BY <2>1, <2>2, <1>1, <1>2, <1>4 DEF HolderOf
  <2>5. \A u \in Waiting("sub", b) : DropperOf(u, b)'
    BY <2>3, <1>1, <1>2, <1>4, HandleAssumption DEF DropperOf
  <2> QED BY <2>4, <2>5
<1>7. ASSUME NEW b \in TransactionBlock
      PROVE  Sufficient(b)'
  <2>1. CASE b = c
    <3>1. Unused(b)
      BY <2>1, <1>2 DEF TransactionInv, CountsSuffice
    <3>2. HandlesOf(b)' = {h}
      BY <3>1, <2>1, <1>4 DEF Unused, HandlesOf
    <3>3. \A op \in {"add", "sub", "free"} : Waiting(op, b)' = {}
      BY <3>1, <1>5 DEF Unused
    <3>4. Copying(b)' = {}
      BY <3>3 DEF Copying
    <3>5. /\ Cardinality(HandlesOf(b)') = 1 /\ Cardinality(Copying(b)') = 0
          /\ \A op \in {"add", "sub", "free"} : Cardinality(Waiting(op, b)') = 0
      BY <3>2, <3>3, <3>4, FS_Singleton, FS_EmptySet
    <3>6. Enough(b)'
      BY <3>5, <2>1, <1>1, <1>2, <1>3 DEF Enough
    <3> QED BY <3>6, <2>1, <1>2, <1>3 DEF Sufficient
  <2>2. CASE b # c
    <3>0. b \in Block
      BY HandleAssumption
    <3>1. HandlesOf(b)' = HandlesOf(b)
      BY <3>0, <2>2, <1>2, <1>4 DEF HandlesOf
    <3>2. Copying(b)' = Copying(b)
      BY <3>1, <1>1, <1>5, SameCopying DEF Copying, Waiting
    <3> QED BY <3>0, <3>1, <3>2, <2>2, <1>1, <1>3, <1>5, SameSuffices DEF Untouched
  <2> QED BY <2>1, <2>2
<1> QED BY <1>6, <1>7 DEF CountsSuffice, Sufficient

-----------------------------------------------------------------------------
(* The counts of transactions: operations on counts *)

\* Handles stay and no thread has more to do: only the block counted is left.
LEMMA CountStepSuffices ==
  ASSUME TransactionInv, storage' = storage, moves' = moves, NEW c,
         \A b \in Block \ {c} : refs'[b] = refs[b],
         \A op \in {"add", "sub", "free"} : \A b \in Block \ {c} : Waiting(op, b)' = Waiting(op, b),
         \A op \in {"add", "sub"} : Waiting(op, c)' \subseteq Waiting(op, c),
         owner' = owner, \A b : \A u \in Waiting("add", b)' : source'[u] = source[u],
         c \in TransactionBlock => Sufficient(c)'
  PROVE  WaitersHold' /\ CountsSuffice'
<1>1. ASSUME NEW b \in TransactionBlock
      PROVE  Sufficient(b)'
  <2>1. CASE b = c
    BY <1>1, <2>1
  <2>2. CASE b # c
    <3>1. b \in Block \ {c}
      BY <2>2, HandleAssumption
    <3>2. Untouched(b)
      BY <3>1 DEF Untouched, HandlesOf
    <3>3. Waiting("add", b)' = Waiting("add", b) /\ Waiting("add", b) \subseteq Thread
      BY <3>2 DEF Untouched, Waiting
    <3>4. Copying(b)' = Copying(b)
      BY <3>2, <3>3, SameCopying DEF Copying, Untouched
    <3> QED BY <3>1, <3>2, <3>4, SameSuffices
  <2> QED BY <2>1, <2>2
<1>2. ASSUME NEW b \in TransactionBlock
      PROVE  \A op \in {"add", "sub"} : Waiting(op, b)' \subseteq Waiting(op, b)
  <2>1. b \in Block
    BY HandleAssumption
  <2> QED BY <2>1
<1>3. WaitersHold'
  BY <1>2 DEF WaitersHold, HolderOf, DropperOf, TransactionInv
<1> QED BY <1>1, <1>3 DEF CountsSuffice, Sufficient

\* The count does not wrap.
LEMMA AddSuffices ==
  ASSUME CountsAreWide, TransactionInv, NEW t \in Thread, Add(t)
  PROVE  WaitersHold' /\ CountsSuffice'
<1>0. PICK c : c = Head(todo[t]).block
  OBVIOUS
<1>1. /\ Typed /\ ~Idle(t) /\ Head(todo[t]).op = "add" /\ Will(t, Tail(todo[t]))
      /\ storage' = storage /\ moves' = moves /\ moves \in Nat /\ moves <= MaxMoves
      /\ owner' = owner /\ source' = [source EXCEPT ![t] = Null]
      /\ refs' = [refs EXCEPT ![c] = IF c \in TransactionBlock THEN (refs[c] + 1) % RefMod
                                     ELSE refs[c] + 1]
  BY <1>0, HandleAssumption DEF Add, TransactionInv, Inv, Counted
<1>2. /\ c \in Block /\ t \in Waiting("add", c)
      /\ \A op, b : Waiting(op, b)' = IF op = "add" /\ b = c THEN Waiting("add", c) \ {t}
                                      ELSE Waiting(op, b)
      /\ \A op, b : t \notin Waiting(op, b)'
  BY <1>0, <1>1, RestWaits
<1>3. \A b \in Block \ {c} : refs'[b] = refs[b]
  BY <1>1 DEF Typed
<1>4. \A u \in Thread \ {t} : source'[u] = source[u]
  BY <1>1 DEF Typed
<1>5. \A b : \A u \in Waiting("add", b)' : source'[u] = source[u]
  BY <1>2, <1>4 DEF Waiting
<1>6. ASSUME c \in TransactionBlock
      PROVE  Sufficient(c)'
  <2>1. refs[c] # Free /\ Enough(c)
    BY <1>2, <1>6 DEF TransactionInv, CountsSuffice, Unused
  <2>2. refs[c] \in Nat /\ refs[c] > 0
    BY <1>2, <1>6, <2>1, TransactionCountIsPositive
  <2>3. /\ HandlesOf(c)' = HandlesOf(c)
        /\ \A op \in {"sub", "free"} : Waiting(op, c)' = Waiting(op, c)
        /\ Waiting("add", c)' = Waiting("add", c) \ {t}
    BY <1>1, <1>2 DEF HandlesOf
  <2>4. Copying(c)' = Copying(c) \ {t}
    <3>1. \A u \in Thread \ {t} : AdderHolds(u, c)' <=> AdderHolds(u, c)
      BY <2>3, <1>1, <1>4, SameCopying
    <3> QED BY <3>1, <2>3 DEF Copying, Waiting
  <2>5. Cardinality(Waiting("add", c)') = Cardinality(Waiting("add", c)) - 1
    BY <1>2, <2>3, Finite, FS_RemoveElement
  <2>6. Cardinality(Copying(c)) <= Cardinality(Copying(c)') + 1
    <3>1. Cardinality(Copying(c) \ {t})
            = IF t \in Copying(c) THEN Cardinality(Copying(c)) - 1 ELSE Cardinality(Copying(c))
      BY Sizes, FS_RemoveElement
    <3> QED BY <3>1, <2>4, Sizes
  <2>7. Cardinality(HandlesOf(c)) + Cardinality(Waiting("sub", c)) <= Cardinality(Transaction)
    BY <1>6, DroppersAreBounded
  <2>8. Cardinality(Transaction) \in Nat
    BY HandleAssumption, FS_Subset, FS_CardinalityType
  <2>9. PICK n, m, h, s, a, k, k1, a1, max, all, mod \in Nat :
          /\ n = refs[c] /\ m = moves /\ h = Cardinality(HandlesOf(c))
          /\ s = Cardinality(Waiting("sub", c)) /\ a = Cardinality(Waiting("add", c))
          /\ k = Cardinality(Copying(c)) /\ k1 = Cardinality(Copying(c)')
          /\ a1 = Cardinality(Waiting("add", c)') /\ max = MaxMoves
          /\ all = Cardinality(Transaction) /\ mod = RefMod
    BY <1>1, <2>2, <2>8, Numbers, HandleAssumption
  <2>10. /\ n + k >= h + s /\ n + a <= h + s + m /\ h + s <= all /\ a1 = a - 1 /\ k <= k1 + 1
         /\ m <= max /\ all + max < mod /\ n > 0
    BY <1>1, <2>1, <2>2, <2>5, <2>6, <2>7, <2>9 DEF Enough, CountsAreWide
  <2>11. n + 1 < mod /\ (n + 1) + k1 >= h + s /\ (n + 1) + a1 <= h + s + m /\ n + 1 # 0
    BY <2>9, <2>10
  <2>12. (n + 1) % mod = n + 1
    BY <2>11, <2>9
  <2>13. refs'[c] = n + 1
    BY <1>1, <1>2, <1>6, <2>9, <2>12 DEF Typed
  <2>14. Cardinality(Waiting("free", c)') = 0
    BY <2>1, <2>2, <2>3 DEF Enough
  <2>15. Enough(c)'
    BY <1>1, <2>3, <2>9, <2>11, <2>13, <2>14 DEF Enough
  <2> QED BY <2>13, <2>15, HandleAssumption DEF Sufficient
<1>7. /\ \A op \in {"add", "sub", "free"} : \A b \in Block \ {c} : Waiting(op, b)' = Waiting(op, b)
      /\ \A op \in {"add", "sub"} : Waiting(op, c)' \subseteq Waiting(op, c)
  BY <1>2
<1> QED BY <1>1, <1>3, <1>6, <1>5, <1>7, CountStepSuffices

LEMMA SubSuffices ==
  ASSUME TransactionInv, NEW t \in Thread, Sub(t)
  PROVE  WaitersHold' /\ CountsSuffice'
<1>0. PICK c : c = Head(todo[t]).block
  OBVIOUS
<1>1. /\ Typed /\ ~Idle(t) /\ Head(todo[t]).op = "sub" /\ storage' = storage
      /\ moves' = moves /\ moves \in Nat /\ owner' = owner /\ source' = source
      /\ refs' = [refs EXCEPT ![c] = refs[c] - 1]
      /\ IF refs[c] = 1 THEN Will(t, On("free", c) \o Tail(todo[t]))
         ELSE Will(t, <<>> \o Tail(todo[t]))
  <2>1. Typed /\ moves \in Nat
    BY DEF TransactionInv, Inv
  <2> QED BY <2>1, <1>0 DEF Sub
<1>2. todo[t] \in Seq(Operation) /\ todo[t] # <<>>
  BY <1>1 DEF Typed, Idle
<1>3. refs[c] # 1 => Will(t, Tail(todo[t]))
  <2>1. Tail(todo[t]) \in Seq(Operation)
    BY <1>2
  <2>2. \A s \in Seq(Operation) : <<>> \o s = s
    OBVIOUS
  <2> QED BY <2>1, <2>2, <1>1
<1>4. /\ c \in Block /\ t \in Waiting("sub", c)
      /\ refs[c] = 1 => t \notin Waiting("free", c)
      /\ \A op, b : Waiting(op, b)' =
           IF op = "sub" /\ b = c THEN Waiting("sub", c) \ {t}
           ELSE IF op = "free" /\ b = c /\ refs[c] = 1 THEN Waiting("free", c) \cup {t}
           ELSE Waiting(op, b)
  <2>1. CASE refs[c] = 1
    BY <1>0, <1>1, <2>1, FreeWaits
  <2>2. CASE refs[c] # 1
    BY <1>0, <1>1, <1>3, <2>2, RestWaits
  <2> QED BY <2>1, <2>2
<1>5. \A b \in Block \ {c} : refs'[b] = refs[b]
  BY <1>1 DEF Typed
<1>6. ASSUME c \in TransactionBlock
      PROVE  Sufficient(c)'
  <2>1. refs[c] # Free /\ Enough(c)
    BY <1>4, <1>6 DEF TransactionInv, CountsSuffice, Unused
  <2>2. refs[c] \in Nat /\ refs[c] > 0
    BY <1>4, <1>6, <2>1, TransactionCountIsPositive
  <2>3. refs'[c] = refs[c] - 1
    BY <1>1, <1>4 DEF Typed
  <2>4. /\ HandlesOf(c)' = HandlesOf(c) /\ Waiting("add", c)' = Waiting("add", c)
        /\ Waiting("sub", c)' = Waiting("sub", c) \ {t}
        /\ Waiting("free", c)' = IF refs[c] = 1 THEN Waiting("free", c) \cup {t}
                                 ELSE Waiting("free", c)
    BY <1>1, <1>4 DEF HandlesOf
  <2>5. Copying(c)' = Copying(c)
    BY <2>4, <1>1, SameCopying DEF Copying, Waiting
  <2>6. Cardinality(Waiting("sub", c)') = Cardinality(Waiting("sub", c)) - 1
    BY <1>4, <2>4, Finite, FS_RemoveElement
  <2>7. Cardinality(Waiting("free", c)') = IF refs'[c] = 0 THEN 1 ELSE 0
    <3>1. Cardinality(Waiting("free", c)) = 0
      BY <2>1, <2>2 DEF Enough
    <3>2. CASE refs[c] = 1
      <4>1. Cardinality(Waiting("free", c)') = Cardinality(Waiting("free", c)) + 1
        BY <1>4, <2>4, <3>2, Finite, FS_AddElement
      <4> QED BY <4>1, <3>1, <3>2, <2>3
    <3>3. CASE refs[c] # 1
      BY <3>1, <3>3, <2>2, <2>3, <2>4
    <3> QED BY <3>2, <3>3
  <2>8. PICK n, m, h, s, a, k \in Nat :
          /\ n = refs[c] /\ m = moves /\ h = Cardinality(HandlesOf(c))
          /\ s = Cardinality(Waiting("sub", c)) /\ a = Cardinality(Waiting("add", c))
          /\ k = Cardinality(Copying(c))
    BY <2>2, Numbers
  <2>9. n + k >= h + s /\ n + a <= h + s + m /\ n > 0
    BY <2>1, <2>2, <2>8 DEF Enough
  <2>10. n - 1 \in Nat /\ (n - 1) + k >= h + (s - 1) /\ (n - 1) + a <= h + (s - 1) + m
    BY <2>8, <2>9
  <2>11. Enough(c)'
    BY <1>1, <2>3, <2>4, <2>5, <2>6, <2>7, <2>8, <2>10 DEF Enough
  <2> QED BY <2>3, <2>8, <2>10, <2>11, HandleAssumption DEF Sufficient
<1>7. \A op \in {"add", "sub", "free"} : \A b \in Block \ {c} : Waiting(op, b)' = Waiting(op, b)
  BY <1>4
<1>8. \A op \in {"add", "sub"} : Waiting(op, c)' \subseteq Waiting(op, c)
  BY <1>4
<1> QED BY <1>1, <1>5, <1>6, <1>7, <1>8, CountStepSuffices

LEMMA ReleaseSuffices ==
  ASSUME TransactionInv, NEW t \in Thread, Release(t)
  PROVE  WaitersHold' /\ CountsSuffice'
<1>0. PICK c : c = Head(todo[t]).block
  OBVIOUS
<1>1. /\ Typed /\ ~Idle(t) /\ Head(todo[t]).op = "free" /\ Will(t, Tail(todo[t]))
      /\ storage' = storage /\ moves' = moves /\ refs' = [refs EXCEPT ![c] = Free]
      /\ owner' = owner /\ source' = source
  BY <1>0 DEF Release, TransactionInv, Inv
<1>2. /\ c \in Block /\ t \in Waiting("free", c)
      /\ \A op, b : Waiting(op, b)' = IF op = "free" /\ b = c THEN Waiting("free", c) \ {t}
                                      ELSE Waiting(op, b)
  BY <1>0, <1>1, RestWaits
<1>3. refs'[c] = Free /\ \A b \in Block \ {c} : refs'[b] = refs[b]
  BY <1>1, <1>2 DEF Typed
<1>4. ASSUME c \in TransactionBlock
      PROVE  Sufficient(c)'
  <2>1. refs[c] # Free /\ Enough(c)
    BY <1>2, <1>4 DEF TransactionInv, CountsSuffice, Unused
  <2>2. Cardinality(Waiting("free", c)) # 0
    BY <1>2, Finite, FS_EmptySet
  <2>3. refs[c] = 0 /\ Cardinality(Waiting("free", c)) = 1
    BY <2>1, <2>2 DEF Enough
  <2>4. Waiting("add", c) = {} /\ Waiting("sub", c) = {} /\ HandlesOf(c) = {}
    BY <1>4, <2>1, <2>3, TransactionCountIsPositive
  <2>5. PICK x : Waiting("free", c) = {x}
    BY <2>3, Finite, FS_Singleton
  <2>6. Waiting("free", c) \ {t} = {}
    BY <1>2, <2>5
  <2> QED BY <2>4, <2>6, <1>1, <1>2, <1>3 DEF Sufficient, Unused, HandlesOf
<1>5. \A op \in {"add", "sub", "free"} : \A b \in Block \ {c} : Waiting(op, b)' = Waiting(op, b)
  BY <1>2
<1>6. \A op \in {"add", "sub"} : Waiting(op, c)' \subseteq Waiting(op, c)
  BY <1>2
<1> QED BY <1>1, <1>3, <1>4, <1>5, <1>6, CountStepSuffices

-----------------------------------------------------------------------------
(* The counts of transactions: all steps *)

LEMMA InitTransactionInv == Init => TransactionInv
<1> SUFFICES ASSUME Init PROVE TransactionInv
  OBVIOUS
<1>1. Inv /\ moves \in 0 .. MaxMoves
  <2>1. moves = 0 /\ MaxMoves \in Nat
    BY HandleAssumption DEF Init
  <2> QED BY <2>1, InitInv
<1>2. \A op, b : Waiting(op, b) = {}
  BY DEF Init, Waiting
<1>3. WaitersHold
  BY <1>2 DEF WaitersHold
<1>4. CountsSuffice
  <2> SUFFICES ASSUME NEW b \in TransactionBlock
               PROVE  IF refs[b] = Free THEN Unused(b) ELSE Enough(b)
    BY DEF CountsSuffice
  <2>1. b # Null /\ refs[b] = Free
    BY HandleAssumption DEF Init
  <2>2. HandlesOf(b) = {}
    BY <2>1 DEF Init, HandlesOf
  <2> QED BY <2>1, <2>2, <1>2 DEF Unused
<1> QED BY <1>1, <1>3, <1>4 DEF TransactionInv

\* A handle that lets go of its block.
LEMMA LetGoSuffices ==
  ASSUME TransactionInv, NEW t \in Thread, NEW h \in Handle, Mine(t, h),
         storage' = [storage EXCEPT ![h] = Null], Will(t, On("sub", storage[h])),
         owner' = owner, source' = source, refs' = refs, moves' = moves
  PROVE  WaitersHold' /\ CountsSuffice'
<1>0. PICK p : p = storage[h]
  OBVIOUS
<1>1. p \in Block \cup {Null} /\ Null \in Block \cup {Null}
  BY <1>0 DEF TransactionInv, Inv, Typed
<1>2. Will(t, On("sub", p) \o On("add", Null))
  BY <1>0, <1>1, DropsOnly
<1>3. SourceBy(t)
  BY SameSource DEF TransactionInv, Inv
<1> QED BY <1>0, <1>1, <1>2, <1>3, PointSuffices

LEMMA CopySteps ==
  ASSUME TransactionInv, NEW t \in Thread, NEW h \in Handle, NEW g \in Handle,
         CopyConstruct(t, h, g) \/ CopyAssign(t, h, g)
  PROVE  WaitersHold' /\ CountsSuffice'
<1>0. PICK p, q : p = storage[h] /\ q = storage[g]
  OBVIOUS
<1>1. /\ q \in Block \cup {Null} /\ Mine(t, h) /\ Readable(t, g) /\ SameClass(h, g)
      /\ refs' = refs /\ moves' = moves /\ storage' = [storage EXCEPT ![h] = q]
      /\ p # q \/ q = Null
      /\ owner' = owner /\ Reads(t, g)
  BY <1>0 DEF CopyConstruct, CopyAssign, TransactionInv, Inv, Typed
<1>2. Will(t, On("sub", p) \o On("add", q))
  <2>1. CASE CopyAssign(t, h, g)
    BY <2>1, <1>0 DEF CopyAssign
  <2>2. CASE CopyConstruct(t, h, g)
    <3>1. p = Null /\ Will(t, On("add", q))
      BY <2>2, <1>0 DEF CopyConstruct
    <3>2. On("sub", p) = <<>>
      BY <3>1 DEF On
    <3>3. On("add", q) = <<>> \/ \E x : On("add", q) = <<x>>
      BY DEF On
    <3>4. \A x : <<>> \o <<x>> = <<x>>
      OBVIOUS
    <3>5. <<>> \o <<>> = <<>>
      OBVIOUS
    <3> QED BY <3>1, <3>2, <3>3, <3>4, <3>5
  <2> QED BY <1>0, <2>1, <2>2
<1>3. SourceBy(t) /\ (q # Null => source'[t] = g)
  BY <1>0, <1>1, ReadsIsBy DEF TransactionInv, Inv
<1>4. q # Null => /\ q \in BlocksFor(h)
                  /\ \E k \in Handle : k # h /\ Readable(t, k) /\ storage[k] = q /\ source'[t] = k
  BY <1>0, <1>1, <1>3 DEF SameClass, BlocksFor, TransactionInv, Inv, Typed
<1> QED BY <1>0, <1>1, <1>2, <1>4, <1>3, PointSuffices

LEMMA MoveSteps ==
  ASSUME TransactionInv, NEW t \in Thread, NEW h \in Handle, NEW g \in Handle,
         \/ MoveConstruct(t, h, g) \/ MoveAssignBytes(t, h, g)
         \/ MoveAssignTransaction(t, h, g)
  PROVE  WaitersHold' /\ CountsSuffice'
<1>0. PICK p, q : p = storage[h] /\ q = storage[g]
  OBVIOUS
<1>1. /\ p \in Block \cup {Null} /\ q \in Block \cup {Null} /\ Null \notin Block /\ Typed
      /\ Null \in Block \cup {Null}
      /\ Mine(t, h) /\ Mine(t, g) /\ refs' = refs /\ owner' = owner /\ source' = source
  BY <1>0, HandleAssumption
  DEF MoveConstruct, MoveAssignBytes, MoveAssignTransaction, TransactionInv, Inv, Typed
<1>2. CASE MoveConstruct(t, h, g) \/ MoveAssignBytes(t, h, g)
  <2>1. /\ moves' = moves
        /\ storage' = [storage EXCEPT ![h] = q, ![g] = Null]
        /\ p \notin TransactionBlock
    <3>1. CASE MoveConstruct(t, h, g)
      <4>1. p = Null /\ moves' = moves /\ storage' = [storage EXCEPT ![g] = Null, ![h] = q]
        BY <3>1, <1>0 DEF MoveConstruct
      <4>2. h = g => q = Null
        BY <4>1, <1>0
      <4>3. [storage EXCEPT ![g] = Null, ![h] = q] = [storage EXCEPT ![h] = q, ![g] = Null]
        BY <4>2, <1>1 DEF Typed
      <4> QED BY <4>1, <4>3, <1>1, HandleAssumption
    <3>2. CASE MoveAssignBytes(t, h, g)
      BY <3>2, <1>0, <1>1, HandleAssumption DEF MoveAssignBytes, Typed, BlocksFor
    <3> QED BY <1>2, <3>1, <3>2
  <2>2. Will(t, On("sub", p))
    BY <1>0, <1>1, <1>2 DEF MoveConstruct, MoveAssignBytes, Will, On, Mine, Idle, Typed
  <2>3. PICK ops : ops = On("sub", p) \o On("add", Null)
    OBVIOUS
  <2>4. DropsAndAdds(ops, p, Null) /\ Will(t, ops)
    BY <1>1, <2>2, <2>3, QueueOf, DropsOnly
  <2>5. CASE h = g
    <3>1. storage' = [storage EXCEPT ![h] = Null]
      BY <2>1, <2>5, <1>1
    <3> QED BY <3>1, <2>1, <2>2, <1>0, <1>1, LetGoSuffices
  <2>6. CASE h # g
    BY <2>1, <2>4, <2>6, <1>0, <1>1, TakeOverSuffices
  <2> QED BY <2>5, <2>6
<1>3. CASE MoveAssignTransaction(t, h, g)
  <2>1. /\ moves' = moves + 1 /\ p # q
        /\ storage' = [storage EXCEPT ![h] = q, ![g] = Null]
        /\ Will(t, On("sub", p) \o On("add", q))
    BY <1>0, <1>3 DEF MoveAssignTransaction
  <2>2. PICK ops : ops = On("sub", p) \o On("add", q)
    OBVIOUS
  <2>3. DropsAndAdds(ops, p, q) /\ Will(t, ops)
    BY <1>1, <2>1, <2>2, QueueOf
  <2> QED BY <2>1, <2>3, <1>0, <1>1, TakeOverSuffices
<1> QED BY <1>2, <1>3

\* Handing a handle over leaves the others what they wait with.
LEMMA HandOverSuffices ==
  ASSUME TransactionInv, NEW t \in Thread, NEW h \in Handle, Share(t, h) \/ Take(t, h)
  PROVE  WaitersHold' /\ CountsSuffice'
<1>1. Idle(t) /\ OthersKeepOwn(t, h)
  BY HandOver DEF TransactionInv, Inv
<1>2. /\ \A op, b : Waiting(op, b)' = Waiting(op, b) /\ t \notin Waiting(op, b)
      /\ \A b : HandlesOf(b)' = HandlesOf(b)
  BY <1>1, IdleWaitsNot DEF OthersKeepOwn, Waiting, HandlesOf
<1>3. \A u \in Thread : \A k \in Handle : u # t /\ owner[k] = u => owner'[k] = u
  BY <1>1, HandleAssumption DEF OthersKeepOwn
<1>4. WaitersHold'
  <2> SUFFICES ASSUME NEW b \in TransactionBlock
               PROVE  /\ \A u \in Waiting("add", b) : HolderOf(u, b)'
                      /\ \A u \in Waiting("sub", b) : DropperOf(u, b)'
    BY <1>2 DEF WaitersHold
  <2>1. \A op : \A u \in Waiting(op, b) : u \in Thread /\ u # t
    BY <1>2 DEF Waiting
  <2>2. \A u \in Waiting("add", b) : HolderOf(u, b)'
    BY <2>1, <1>1, <1>3 DEF TransactionInv, WaitersHold, HolderOf, OthersKeepOwn
  <2>3. \A u \in Waiting("sub", b) : DropperOf(u, b)'
    BY <2>1, <1>1, <1>3, HandleAssumption DEF TransactionInv, WaitersHold, DropperOf, OthersKeepOwn
  <2> QED BY <2>2, <2>3
<1>5. ASSUME NEW b \in TransactionBlock
      PROVE  Sufficient(b)'
  <2>1. refs'[b] = refs[b] /\ moves' = moves /\ Untouched(b)
    BY <1>1, <1>2 DEF OthersKeepOwn, Untouched
  <2>2. CASE refs[b] = Free
    BY <2>1, <2>2 DEF Untouched, Sufficient, Unused, TransactionInv, CountsSuffice
  <2>3. CASE refs[b] # Free
    <3>1. Copying(b) \in SUBSET (Copying(b)')
      BY <1>1, <1>2, HandOverHolds DEF Copying, Waiting
    <3>2. Cardinality(Copying(b)) <= Cardinality(Copying(b)')
      BY <3>1, SizesNext, FS_Subset
    <3>3. PICK c, k, s, a, m, c1 \in Nat :
            /\ c = Cardinality(Copying(b)) /\ k = Cardinality(HandlesOf(b))
            /\ s = Cardinality(Waiting("sub", b)) /\ a = Cardinality(Waiting("add", b)) /\ m = moves
            /\ c1 = Cardinality(Copying(b)')
      BY Numbers
    <3>4. k + s + c <= k + s + c1 /\ k + s + m + a <= k + s + m + a
      BY <3>2, <3>3
    <3> QED BY <2>1, <2>3, <3>3, <3>4, KeepsEnough DEF Untouched
  <2> QED BY <2>2, <2>3
<1> QED BY <1>4, <1>5 DEF CountsSuffice, Sufficient

\* Moves are counted up to their bound.
LEMMA MovesStayBounded ==
  ASSUME moves \in 0 .. MaxMoves, [Next]_vars
  PROVE  moves' \in 0 .. MaxMoves
<1>0. MaxMoves \in Nat
  BY HandleAssumption
<1>1. CASE moves' = moves
  BY <1>1
<1>2. CASE moves < MaxMoves /\ moves' = moves + 1
  BY <1>0, <1>2
<1>3. moves' = moves \/ (moves < MaxMoves /\ moves' = moves + 1)
  BY DEF Next, vars, Construct, Destroy, Share, Take, CopyConstruct, MoveConstruct, CopyAssign,
     MoveAssignBytes, MoveAssignTransaction, Add, Sub, Release
<1> QED BY <1>1, <1>2, <1>3

LEMMA NextKeepsTransactionInv ==
  ASSUME CountsAreWide, TransactionInv, [Next]_vars
  PROVE  TransactionInv'
<1>1. Inv' /\ moves' \in 0 .. MaxMoves
  BY NextKeepsInv, MovesStayBounded DEF TransactionInv
<1>2. WaitersHold' /\ CountsSuffice'
  <2>1. CASE UNCHANGED vars
    <3>1. /\ storage' = storage /\ refs' = refs /\ moves' = moves
          /\ owner' = owner /\ source' = source
          /\ \A op, b : Waiting(op, b)' = Waiting(op, b)
          /\ \A b : HandlesOf(b)' = HandlesOf(b)
      BY <2>1 DEF vars, Waiting, HandlesOf
    <3>2. WaitersHold'
      BY <3>1 DEF TransactionInv, WaitersHold, HolderOf, DropperOf
    <3>3. \A b : Copying(b)' = Copying(b)
      BY <3>1, SameCopying DEF Copying, Waiting
    <3>4. \A b \in TransactionBlock : Sufficient(b)'
      BY <3>1, <3>3, SameSuffices DEF Untouched
    <3> QED BY <3>2, <3>4 DEF CountsSuffice, Sufficient
  <2>2. ASSUME NEW t \in Thread, NEW h \in Handle, Construct(t, h) \/ Destroy(t, h)
        PROVE  WaitersHold' /\ CountsSuffice'
    BY <2>2, ConstructSuffices, LetGoSuffices DEF Destroy
  <2>3. ASSUME NEW t \in Thread, NEW h \in Handle, Share(t, h) \/ Take(t, h)
        PROVE  WaitersHold' /\ CountsSuffice'
    BY <2>3, HandOverSuffices
  <2>4. ASSUME NEW t \in Thread, NEW h \in Handle, NEW g \in Handle,
               \/ CopyConstruct(t, h, g) \/ MoveConstruct(t, h, g) \/ CopyAssign(t, h, g)
               \/ MoveAssignBytes(t, h, g) \/ MoveAssignTransaction(t, h, g)
        PROVE  WaitersHold' /\ CountsSuffice'
    BY <2>4, CopySteps, MoveSteps
  <2>5. ASSUME NEW t \in Thread, Add(t) \/ Sub(t) \/ Release(t)
        PROVE  WaitersHold' /\ CountsSuffice'
    BY <2>5, AddSuffices, SubSuffices, ReleaseSuffices
  <2> QED BY <2>1, <2>2, <2>4, <2>5, <2>3 DEF Next
<1> QED BY <1>1, <1>2 DEF TransactionInv

LEMMA TransactionInvHolds ==
  ASSUME CountsAreWide
  PROVE  Spec => []TransactionInv
<1>1. Init => TransactionInv
  BY InitTransactionInv
<1>2. TransactionInv /\ [Next]_vars => TransactionInv'
  BY NextKeepsTransactionInv
<1> QED BY <1>1, <1>2, PTL DEF Spec

\* If a transaction's count is wide enough for the handles there are and the
\* moves there were, it is never below the number of its handles, whatever the
\* threads do: the counts that moves leave too high only keep blocks too long.
THEOREM TransactionsAlwaysCountEnough ==
  CountsAreWide => (Spec => []TransactionsCountEnough)
<1> SUFFICES ASSUME CountsAreWide PROVE Spec => []TransactionsCountEnough
  OBVIOUS
<1>1. TransactionInv => TransactionsCountEnough
  <2> SUFFICES ASSUME TransactionInv, NEW b \in Allocated \cap TransactionBlock
               PROVE  refs[b] + Cardinality(Pending("add", b))
                        >= Cardinality(HandlesOf(b)) + Cardinality(Pending("sub", b))
    BY DEF TransactionsCountEnough
  <2>1. b \in Block /\ Enough(b)
    BY DEF Allocated, TransactionInv, CountsSuffice
  <2>2. \A op : Cardinality(Pending(op, b)) = Cardinality(Waiting(op, b))
    BY <2>1, PendingIsWaiting DEF TransactionInv, Inv
  <2>3. PICK n, h, s, a, k \in Nat :
          /\ n = refs[b] /\ h = Cardinality(HandlesOf(b)) /\ s = Cardinality(Waiting("sub", b))
          /\ a = Cardinality(Waiting("add", b)) /\ k = Cardinality(Copying(b))
    BY <2>1, Numbers DEF Enough
  <2>4. n + k >= h + s /\ k <= a
    BY <2>1, <2>3, Sizes DEF Enough
  <2> QED BY <2>2, <2>3, <2>4
<1> QED BY <1>1, TransactionInvHolds, PTL

\* No handle, and no operation that waits, ever reaches a block that was freed,
\* of Bytes or of a transaction.
THEOREM NothingIsUsedAfterFree ==
  CountsAreWide => (Spec => []NeverUsedAfterFree)
<1> SUFFICES ASSUME CountsAreWide PROVE Spec => []NeverUsedAfterFree
  OBVIOUS
<1>1. TransactionInv => NeverUsedAfterFree
  <2> SUFFICES ASSUME TransactionInv, NEW b \in Block, refs[b] = Free
               PROVE  HandlesOf(b) = {} /\ \A op \in {"add", "sub", "free"} : Pending(op, b) = {}
    BY DEF NeverUsedAfterFree
  <2>1. Unused(b)
    BY DEF TransactionInv, Inv, CountsHold, CountsSuffice, BytesBlock
  <2> QED BY <2>1, PendingIsWaiting DEF TransactionInv, Inv, Unused
<1> QED BY <1>1, TransactionInvHolds, PTL

\* Every count is a number, or its block is free.
THEOREM AlwaysTyped == CountsAreWide => (Spec => []TypeOK)
<1> SUFFICES ASSUME CountsAreWide PROVE Spec => []TypeOK
  OBVIOUS
<1>1. TransactionInv => TypeOK
  <2> SUFFICES ASSUME TransactionInv PROVE TypeOK
    OBVIOUS
  <2>1. Typed /\ moves \in 0 .. MaxMoves
    BY DEF TransactionInv, Inv
  <2>2. \A b \in Block : refs[b] \in Nat \cup {Free}
    BY DEF TransactionInv, Inv, CountsHold, CountsSuffice, BytesBlock, Balanced, Enough
  <2>3. refs \in [Block -> Nat \cup {Free}]
    BY <2>1, <2>2 DEF Typed
  <2> QED BY <2>1, <2>3 DEF TypeOK, Typed
<1> QED BY <1>1, TransactionInvHolds, PTL
=============================================================================

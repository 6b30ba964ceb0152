----------------------------- MODULE PriorityQueue -----------------------------
(* What FibonacciHeap promises: a bag of priorities that gives up a least one. *)
EXTENDS Integers

CONSTANT
  Priority    \* integers here, doubles in the code

VARIABLES
  queue,      \* how many elements there are of each priority
  out         \* what the last deleteMin returned

vars == <<queue, out>>

TypeOK == queue \in [Priority -> Nat] /\ out \in Priority \cup {0}

Present == {p \in Priority : queue[p] > 0}

Init == queue = [p \in Priority |-> 0] /\ out = 0

Insert(p) == queue' = [queue EXCEPT ![p] = @ + 1] /\ UNCHANGED out

DeleteMin ==
  \E p \in Present :
    /\ \A q \in Present : p <= q
    /\ queue' = [queue EXCEPT ![p] = @ - 1]
    /\ out' = p

\* deleteMin of an empty queue returns 0.
DeleteFromEmpty == Present = {} /\ out' = 0 /\ UNCHANGED queue

Next == (\E p \in Priority : Insert(p)) \/ DeleteMin \/ DeleteFromEmpty

Spec == Init /\ [][Next]_vars
=============================================================================

----------------------------- MODULE FibonacciHeap -----------------------------
(***************************************************************************)
(* The pointer structure of FibonacciHeapImpl: trees whose children form a *)
(* circular list, an array of roots, and a pointer to a least root.  A     *)
(* deleteMin promotes the children of that root and then links roots of    *)
(* equal degree, by way of an array indexed by degree.                     *)
(***************************************************************************)
EXTENDS Integers, Sequences, SequencesExt, FiniteSets, FiniteSetsExt

CONSTANTS
  Priority,   \* integers here, doubles in the code
  Node,       \* addresses that malloc may return, small integers
  Null        \* nullptr

Pointer == Node \cup {Null}
Tree    == [priority : Priority, degree : Nat,
            parent : Pointer, child : Pointer, left : Pointer, right : Pointer]

ASSUME HeapAssumption ==
  /\ Priority \subseteq Int
  /\ Node \subseteq Nat \ {0}
  /\ IsFiniteSet(Node)
  /\ Null \notin Node \cup Tree

VARIABLES
  tree,      \* the FibonacciTree at each address, or Null
  roots,     \* the array of roots
  min,       \* a root of least priority
  count,     \* number of elements
  out,       \* what the last deleteMin returned
  overrun    \* has consolidate indexed past the end of its array?

vars == <<tree, roots, min, count, out, overrun>>

TypeOK ==
  /\ tree \in [Node -> Tree \cup {Null}]
  /\ roots \in Seq(Node)
  /\ min \in Pointer
  /\ count \in 0 .. Cardinality(Node)
  /\ out \in Priority \cup {0}
  /\ overrun \in BOOLEAN

Allocated(t) == {n \in Node : t[n] # Null}

LessThan(t, x, y) == t[x].priority < t[y].priority

\* The ring of siblings from node c along the right pointers.
Siblings(t, c) ==
  LET nth[i \in Nat] == IF i = 0 THEN c ELSE t[nth[i - 1]].right
      Back(i)        == i = Cardinality(Node) \/ nth[i] = c \/ nth[i] = Null
      length         == CHOOSE i \in 1 .. Cardinality(Node) :
                          Back(i) /\ \A j \in 1 .. (i - 1) : ~Back(j)
  IN  IF c = Null THEN <<>> ELSE [i \in 1 .. length |-> nth[i - 1]]

\* Mutant of AddChild: the old neighbour still points past the new child.
AddChildOneWay(t, x, y) ==
  LET c == t[x].child
  IN  IF c = Null
      THEN [t EXCEPT ![x].child = y, ![x].degree = @ + 1,
                     ![y].left = y, ![y].right = y, ![y].parent = x]
      ELSE [t EXCEPT ![y].left = c, ![y].right = t[c].right, ![y].parent = x,
                     ![c].right = y, ![x].degree = @ + 1]

\* Mutant of AddChild: the first child still points past the new one.
AddChildUnlinked(t, x, y) ==
  LET c == t[x].child
  IN  IF c = Null
      THEN [t EXCEPT ![x].child = y, ![x].degree = @ + 1,
                     ![y].left = y, ![y].right = y, ![y].parent = x]
      ELSE [t EXCEPT ![y].left = c, ![y].right = t[c].right, ![y].parent = x,
                     ![x].degree = @ + 1]

\* addChild: a further child goes in to the right of the first one.
AddChild(t, x, y) ==
  LET c == t[x].child
  IN  IF c = Null
      THEN [t EXCEPT ![x].child = y, ![x].degree = @ + 1,
                     ![y].left = y, ![y].right = y, ![y].parent = x]
      ELSE LET joined == [t EXCEPT ![y].left = c, ![y].right = t[c].right, ![y].parent = x,
                                   ![x].degree = @ + 1]
               behind == [joined EXCEPT ![t[c].right].left = y]
           IN  [behind EXCEPT ![c].right = y]

-----------------------------------------------------------------------------
(* consolidate *)

Log2(n) == CHOOSE k \in 0 .. n : 2 ^ k <= n /\ n < 2 ^ (k + 1)

\* Mutant of MaxDegree: no place for a tree of all the elements.
MaxDegreeTight(n) == Log2(n)

\* Size of the array indexed by degree.
MaxDegree(n) == Log2(n) + 2

\* Two roots of the same degree become one: the smaller takes the other.
Link(s, y) ==
  IF LessThan(s.tree, y, s.x)
  THEN [tree |-> AddChild(s.tree, y, s.x), x |-> y]
  ELSE [tree |-> AddChild(s.tree, s.x, y), x |-> s.x]

\* One root goes into the array, linked with what it meets on the way up.
Settle(s, root) ==
  LET d      == s.tree[root].degree
      places == {i \in DOMAIN s.aux : i >= d /\ s.aux[i] = Null}
  IN  IF s.overrun \/ places = {} THEN [s EXCEPT !.overrun = TRUE]
      ELSE LET place == Min(places)
               met   == [i \in 1 .. (place - d) |-> s.aux[d + i - 1]]
               done  == FoldLeft(Link, [tree |-> s.tree, x |-> root], met)
           IN  [tree    |-> done.tree,
                aux     |-> [i \in DOMAIN s.aux |->
                               IF i = place THEN done.x
                               ELSE IF i \in d .. place THEN Null ELSE s.aux[i]],
                overrun |-> FALSE]

Consolidated(t, rs, n) ==
  FoldLeft(Settle,
           [tree |-> t, aux |-> [i \in 0 .. (MaxDegree(n) - 1) |-> Null], overrun |-> FALSE],
           rs)

\* The array, in order of degree, is the new array of roots.
RootsOf(aux) ==
  LET added[i \in 0 .. Cardinality(DOMAIN aux)] ==
        IF i = 0 THEN <<>>
        ELSE IF aux[i - 1] = Null THEN added[i - 1] ELSE Append(added[i - 1], aux[i - 1])
  IN  added[Cardinality(DOMAIN aux)]

\* The first of the least roots.
LeastRoot(t, rs) ==
  IF rs = <<>> THEN Null
  ELSE LET first == CHOOSE i \in DOMAIN rs :
                      /\ \A j \in DOMAIN rs : ~LessThan(t, rs[j], rs[i])
                      /\ \A j \in 1 .. (i - 1) : LessThan(t, rs[i], rs[j])
       IN  rs[first]

\* ArrayList::unorderedRemove: the last element takes the place.
UnorderedRemove(rs, n) ==
  LET i == CHOOSE i \in DOMAIN rs : rs[i] = n
  IN  [j \in 1 .. (Len(rs) - 1) |-> IF j = i THEN rs[Len(rs)] ELSE rs[j]]

-----------------------------------------------------------------------------

Init ==
  /\ tree = [n \in Node |-> Null]
  /\ roots = <<>>
  /\ min = Null
  /\ count = 0
  /\ out = 0
  /\ overrun = FALSE

Insert(p) ==
  /\ Allocated(tree) # Node
  /\ LET n == Min(Node \ Allocated(tree))
     IN  /\ tree' = [tree EXCEPT ![n] = [priority |-> p, degree |-> 0, parent |-> Null,
                                         child |-> Null, left |-> n, right |-> n]]
         /\ roots' = Append(roots, n)
         /\ min' = IF min = Null \/ LessThan(tree', n, min) THEN n ELSE min
  /\ count' = count + 1
  /\ UNCHANGED <<out, overrun>>

\* Mutant of Promoted: the children stay out of the array of roots.
PromotedNowhere ==
  LET children == Siblings(tree, tree[min].child)
  IN  [tree |-> [n \in Node |->
                   IF n \in Range(children)
                   THEN [tree[n] EXCEPT !.parent = Null, !.left = Null, !.right = Null]
                   ELSE tree[n]],
       roots |-> roots]

\* The children of min become roots.
Promoted ==
  LET children == Siblings(tree, tree[min].child)
  IN  [tree |-> [n \in Node |->
                   IF n \in Range(children)
                   THEN [tree[n] EXCEPT !.parent = Null, !.left = Null, !.right = Null]
                   ELSE tree[n]],
       roots |-> roots \o children]

\* Mutant of Remaining: the count is not decremented.
RemainingAll == count

Remaining == count - 1

DeleteMin ==
  /\ min # Null
  /\ out' = tree[min].priority
  /\ count' = Remaining
  /\ LET freed == [Promoted.tree EXCEPT ![min] = Null]
         left  == UnorderedRemove(Promoted.roots, min)
         done  == Consolidated(freed, left, Remaining)
     IN  IF Remaining = 0
         THEN /\ tree' = freed /\ roots' = left /\ min' = Null
              /\ UNCHANGED overrun
         ELSE /\ tree' = done.tree
              /\ roots' = RootsOf(done.aux)
              /\ min' = LeastRoot(done.tree, roots')
              /\ overrun' = (overrun \/ done.overrun)

DeleteFromEmpty == min = Null /\ out' = 0 /\ UNCHANGED <<tree, roots, min, count, overrun>>

Next == (\E p \in Priority : Insert(p)) \/ DeleteMin \/ DeleteFromEmpty

Spec == Init /\ [][Next]_vars

-----------------------------------------------------------------------------
(* Properties *)

Children(t, n) == Range(Siblings(t, t[n].child))

\* The nodes below a set of nodes, the set included, at most Cardinality(Node) deep.
Below(t, ns) ==
  LET level[i \in 0 .. Cardinality(Node)] ==
        IF i = 0 THEN ns
        ELSE level[i - 1] \cup UNION {Children(t, n) : n \in level[i - 1]}
  IN  level[Cardinality(Node)]

\* addChild, deleteMin and consolidate keep the pointers of a forest: rings of
\* siblings are linked both ways and know their parent, every element is in
\* exactly one place, degrees count children, and none is smaller than its
\* parent.
Forest ==
  /\ Below(tree, Range(roots)) = Allocated(tree)
  /\ Cardinality(Range(roots)) = Len(roots)
  /\ \A n \in Range(roots) : tree[n].parent = Null
  /\ \A n \in Allocated(tree) :
       /\ Cardinality(Children(tree, n)) = tree[n].degree
       /\ \A c \in Children(tree, n) :
            /\ tree[c].parent = n
            /\ tree[tree[c].right].left = c
            /\ ~LessThan(tree, c, n)

\* A tree of degree d has 2^d elements: nothing is ever cut out of a tree, so
\* linking keeps them exact, whatever the mix of insert and deleteMin.
BinomialTrees ==
  \A n \in Range(roots) : Cardinality(Below(tree, {n})) = 2 ^ tree[n].degree

\* consolidate stays within its array, whose size is a logarithm of count.
ArrayNeverOverrun == ~overrun

\* The heap is a priority queue: deleteMin returns a least priority and loses
\* no other element.
Queue ==
  INSTANCE PriorityQueue WITH
    queue <- [p \in Priority |-> Cardinality({n \in Below(tree, Range(roots)) : tree[n].priority = p})]

IsPriorityQueue == Queue!Spec
=============================================================================

---------------------------- MODULE Library_proofs ----------------------------
(***************************************************************************)
(* The two parts of the library beside the EVM.  The heap, for any nodes   *)
(* and priorities: its pointers are those of binomial trees, consolidate   *)
(* stays within its array, and it implements the priority queue.  The      *)
(* transaction builder: what signAndExport signs and exports is RLP's      *)
(* encoding of the request, for every request and signature whose strings  *)
(* are short.                                                              *)
(***************************************************************************)
EXTENDS FibonacciHeap, TransactionBuilder, DataLemmas, SequenceTheorems

-----------------------------------------------------------------------------
(* The structure of the pointers *)

\* t is what the memory may hold.
IsMemory(t) == t \in [Node -> Tree \cup {Null}]

\* The nodes whose parent is n; the roots are those without one.
Kids(t, n) == {c \in Allocated(t) : t[c].parent = n}

\* Going right from a child of p the degrees descend, from the least round to the
\* greatest; going left they ascend.
InRing(t, c, p) ==
  /\ t[c].right \in Kids(t, p) /\ t[c].left \in Kids(t, p)
  /\ t[t[c].right].degree = IF t[c].degree = 0 THEN t[p].degree - 1 ELSE t[c].degree - 1
  /\ t[t[c].left].degree = IF t[c].degree = t[p].degree - 1 THEN 0 ELSE t[c].degree + 1

\* A child is of lesser degree than its parent, and not smaller.
IsChild(t, c, p) ==
  /\ p \in Allocated(t) /\ t[c].degree < t[p].degree /\ t[p].priority <= t[c].priority
  /\ InRing(t, c, p)

\* A node of degree d has one child of each degree below d, and points at the one
\* of degree 0.
HasKids(t, n) ==
  /\ \A e \in 0 .. (t[n].degree - 1) : \E c \in Kids(t, n) : t[c].degree = e
  /\ IF t[n].degree = 0 THEN t[n].child = Null
     ELSE t[n].child \in Kids(t, n) /\ t[t[n].child].degree = 0

\* Siblings differ in their degrees.
Distinct(t) ==
  \A p \in Node : \A a, b \in Kids(t, p) : t[a].degree = t[b].degree => a = b

\* The memory holds binomial trees.
Binomial(t) ==
  /\ IsMemory(t) /\ Distinct(t)
  /\ \A n \in Allocated(t) : HasKids(t, n)
  /\ \A p \in Node : \A c \in Kids(t, p) : IsChild(t, c, p)

\* What an allocated node is.
LEMMA NodeType ==
  ASSUME NEW t, IsMemory(t), NEW n \in Allocated(t)
  PROVE  /\ n \in Node /\ t[n] \in Tree
         /\ t[n].priority \in Priority /\ t[n].priority \in Int /\ t[n].degree \in Nat
         /\ t[n].parent \in Pointer /\ t[n].child \in Pointer
         /\ t[n].left \in Pointer /\ t[n].right \in Pointer
<1>1. n \in Node /\ t[n] \in Tree
  BY DEF IsMemory, Allocated
<1>2. QED
  BY <1>1, HeapAssumption DEF Tree

-----------------------------------------------------------------------------
(* addChild *)

\* What addChild makes of the memory: u is t with y among x's children.
Linked(t, u, x, y) ==
  /\ IsMemory(u) /\ Allocated(u) = Allocated(t)
  /\ \A m \in Allocated(t) :
       /\ u[m].priority = t[m].priority
       /\ u[m].degree = IF m = x THEN t[m].degree + 1 ELSE t[m].degree
       /\ u[m].parent = IF m = y THEN x ELSE t[m].parent
       /\ u[m].child = IF m = x /\ t[x].child = Null THEN y ELSE t[m].child
       /\ u[m].right = IF m = y THEN (IF t[x].child = Null THEN y ELSE t[t[x].child].right)
                       ELSE IF m = t[x].child THEN y ELSE t[m].right
       /\ u[m].left = IF m = y THEN (IF t[x].child = Null THEN y ELSE t[x].child)
                      ELSE IF t[x].child # Null /\ m = t[t[x].child].right THEN y ELSE t[m].left

LEMMA AddChildFields ==
  ASSUME NEW t, Binomial(t), NEW x \in Kids(t, Null), NEW y \in Kids(t, Null), x # y
  PROVE  Linked(t, AddChild(t, x, y), x, y)
<1> DEFINE c == t[x].child
           u == AddChild(t, x, y)
<1>1. /\ IsMemory(t) /\ x \in Allocated(t) /\ y \in Allocated(t) /\ x \in Node /\ y \in Node
      /\ t[x] \in Tree /\ t[y] \in Tree /\ t[x].parent = Null /\ t[y].parent = Null
      /\ Null \notin Node /\ Null \notin Tree
  BY NodeType, HeapAssumption DEF Binomial, Kids
<1>2. CASE c = Null
  <2>1. u = [t EXCEPT ![x].child = y, ![x].degree = @ + 1,
                      ![y].left = y, ![y].right = y, ![y].parent = x]
    BY <1>2 DEF AddChild
  <2> DEFINE tx == [t[x] EXCEPT !.child = y, !.degree = @ + 1]
             ty == [t[y] EXCEPT !.left = y, !.right = y, !.parent = x]
  <2>2. u = [m \in Node |-> IF m = x THEN tx ELSE IF m = y THEN ty ELSE t[m]]
    BY <1>1, <2>1 DEF IsMemory
  <2>3. tx \in Tree /\ ty \in Tree
    <3>1. t[x].degree + 1 \in Nat /\ x \in Pointer /\ y \in Pointer
      BY <1>1, NodeType DEF Pointer
    <3>2. tx \in Tree
      BY <1>1, <3>1 DEF Tree
    <3>3. ty \in Tree
      BY <1>1, <3>1 DEF Tree
    <3>4. QED
      BY <3>2, <3>3
  <2>4. /\ tx.priority = t[x].priority /\ tx.degree = t[x].degree + 1 /\ tx.parent = t[x].parent
        /\ tx.child = y /\ tx.left = t[x].left /\ tx.right = t[x].right
        /\ ty.priority = t[y].priority /\ ty.degree = t[y].degree /\ ty.parent = x
        /\ ty.child = t[y].child /\ ty.left = y /\ ty.right = y
    BY <1>1 DEF Tree
  <2> HIDE DEF tx, ty, u
  <2>5. IsMemory(u)
    BY <1>1, <2>2, <2>3 DEF IsMemory
  <2>6. Allocated(u) = Allocated(t)
    BY <1>1, <2>2, <2>3 DEF Allocated
  <2>7. QED
    <3>1. \A m \in Allocated(t) : m \in Node /\ m # Null
      BY <1>1 DEF Allocated
    <3>2. QED
      BY <1>1, <1>2, <2>2, <2>4, <2>5, <2>6, <3>1 DEF Linked, u
<1>3. CASE c # Null
  <2> DEFINE r == t[c].right
  <2>1. c \in Kids(t, x) /\ r \in Kids(t, x)
    BY <1>1, <1>3 DEF Binomial, HasKids, IsChild, InRing
  <2>2. /\ c \in Allocated(t) /\ r \in Allocated(t) /\ c \in Node /\ r \in Node
        /\ t[c] \in Tree /\ t[r] \in Tree
        /\ c # x /\ c # y /\ r # x /\ r # y
    BY <1>1, <2>1, NodeType DEF Kids
  <2> DEFINE joined == [t EXCEPT ![y].left = c, ![y].right = r, ![y].parent = x, ![x].degree = @ + 1]
             behind == [joined EXCEPT ![r].left = y]
             tx == [t[x] EXCEPT !.degree = @ + 1]
             ty == [t[y] EXCEPT !.left = c, !.right = r, !.parent = x]
             b(m) == IF m = r THEN [t[m] EXCEPT !.left = y] ELSE t[m]
             tm(m) == IF m = c THEN [b(m) EXCEPT !.right = y] ELSE b(m)
  <2>3. u = [behind EXCEPT ![c].right = y]
    BY <1>3 DEF AddChild
  <2>4. joined = [m \in Node |-> IF m = x THEN tx ELSE IF m = y THEN ty ELSE t[m]]
    BY <1>1 DEF IsMemory
  <2>5. behind = [m \in Node |-> IF m = x THEN tx ELSE IF m = y THEN ty ELSE b(m)]
    <3> HIDE DEF joined, tx, ty
    <3>1. QED
      BY <2>2, <2>4
  <2>6. u = [m \in Node |-> IF m = x THEN tx ELSE IF m = y THEN ty ELSE tm(m)]
    <3> HIDE DEF joined, behind, tx, ty, b, u
    <3>1. QED
      BY <2>2, <2>3, <2>5
  <2>7. tx \in Tree /\ ty \in Tree
    <3>1. t[x].degree + 1 \in Nat /\ x \in Pointer /\ c \in Pointer /\ r \in Pointer
      BY <1>1, <2>2, NodeType DEF Pointer
    <3> HIDE DEF c, r
    <3>2. tx \in Tree
      BY <1>1, <3>1 DEF Tree
    <3>3. ty \in Tree
      BY <1>1, <3>1 DEF Tree
    <3>4. QED
      BY <3>2, <3>3
  <2>8. /\ tx.priority = t[x].priority /\ tx.degree = t[x].degree + 1 /\ tx.parent = t[x].parent
        /\ tx.child = t[x].child /\ tx.left = t[x].left /\ tx.right = t[x].right
        /\ ty.priority = t[y].priority /\ ty.degree = t[y].degree /\ ty.parent = x
        /\ ty.child = t[y].child /\ ty.left = c /\ ty.right = r
    BY <1>1 DEF Tree
  <2>9. ASSUME NEW m \in Allocated(t)
        PROVE  /\ tm(m) \in Tree
               /\ tm(m).priority = t[m].priority /\ tm(m).degree = t[m].degree
               /\ tm(m).parent = t[m].parent /\ tm(m).child = t[m].child
               /\ tm(m).left = (IF m = r THEN y ELSE t[m].left)
               /\ tm(m).right = (IF m = c THEN y ELSE t[m].right)
    <3>1. m \in Node /\ t[m] \in Tree
      BY <1>1, NodeType
    <3>2. b(m) \in Tree /\ b(m).left = (IF m = r THEN y ELSE t[m].left)
          /\ b(m).priority = t[m].priority /\ b(m).degree = t[m].degree
          /\ b(m).parent = t[m].parent /\ b(m).child = t[m].child /\ b(m).right = t[m].right
      BY <1>1, <3>1 DEF Tree, Pointer
    <3> HIDE DEF b, r, c
    <3>3. QED
      BY <1>1, <3>2 DEF Tree, Pointer
  <2>10. \A m \in Node : m \notin Allocated(t) => t[m] = Null /\ m # c /\ m # r
    BY <2>2 DEF Allocated
  <2>11. \A m \in Node : m \notin Allocated(t) => tm(m) = Null
    BY <2>10
  <2> HIDE DEF tm, tx, ty, u, b, joined, behind, r
  <2>12. IsMemory(u)
    BY <1>1, <2>6, <2>7, <2>9, <2>11 DEF IsMemory
  <2>13. Allocated(u) = Allocated(t)
    BY <1>1, <2>6, <2>7, <2>9, <2>11 DEF Allocated
  <2>14. ASSUME NEW m \in Allocated(t)
         PROVE /\ u[m].priority = t[m].priority
               /\ u[m].degree = IF m = x THEN t[m].degree + 1 ELSE t[m].degree
               /\ u[m].parent = IF m = y THEN x ELSE t[m].parent
               /\ u[m].child = t[m].child
               /\ u[m].right = IF m = y THEN r ELSE IF m = c THEN y ELSE t[m].right
               /\ u[m].left = IF m = y THEN c ELSE IF m = r THEN y ELSE t[m].left
    <3>1. m \in Node
      BY DEF Allocated
    <3> HIDE DEF c
    <3>2. QED
      BY <1>1, <2>2, <2>6, <2>8, <2>9, <3>1
  <2>15. QED
    BY <1>3, <2>12, <2>13, <2>14 DEF Linked, u, r
<1>4. QED
  BY <1>2, <1>3

\* Linking two roots of the same degree, the smaller above, keeps binomial trees.
LEMMA LinkKeepsTrees ==
  ASSUME NEW t, Binomial(t), NEW x \in Kids(t, Null), NEW y \in Kids(t, Null), x # y,
         t[x].degree = t[y].degree, t[x].priority <= t[y].priority,
         NEW u, Linked(t, u, x, y)
  PROVE  Binomial(u) /\ Kids(u, Null) = Kids(t, Null) \ {y}
<1> DEFINE d == t[x].degree
           c == t[x].child
           r == t[c].right
<1>1. /\ IsMemory(t) /\ x \in Allocated(t) /\ y \in Allocated(t) /\ x \in Node /\ y \in Node
      /\ t[x].parent = Null /\ t[y].parent = Null /\ Null \notin Node
      /\ d \in Nat /\ t[y].degree = d
  BY NodeType, HeapAssumption DEF Binomial, Kids
<1>2. /\ IsMemory(u) /\ Allocated(u) = Allocated(t)
      /\ \A m \in Allocated(t) :
           /\ u[m].priority = t[m].priority
           /\ u[m].degree = IF m = x THEN d + 1 ELSE t[m].degree
           /\ u[m].parent = IF m = y THEN x ELSE t[m].parent
           /\ u[m].child = IF m = x /\ c = Null THEN y ELSE t[m].child
           /\ u[m].right = IF m = y THEN (IF c = Null THEN y ELSE r)
                           ELSE IF m = c THEN y ELSE t[m].right
           /\ u[m].left = IF m = y THEN (IF c = Null THEN y ELSE c)
                          ELSE IF c # Null /\ m = r THEN y ELSE t[m].left
  BY DEF Linked
<1>3. /\ d = 0 => c = Null
      /\ d # 0 => c # Null /\ c \in Kids(t, x) /\ t[c].degree = 0
                  /\ r \in Kids(t, x) /\ t[r].degree = d - 1
  <2>1. HasKids(t, x)
    BY <1>1 DEF Binomial
  <2>2. CASE d = 0
    BY <2>1, <2>2 DEF HasKids
  <2>3. CASE d # 0
    <3>1. c \in Kids(t, x) /\ t[c].degree = 0
      BY <2>1, <2>3 DEF HasKids
    <3>2. c # Null
      BY <1>1, <3>1, NodeType DEF Kids
    <3>3. InRing(t, c, x)
      BY <1>1, <3>1 DEF Binomial, IsChild
    <3>4. r \in Kids(t, x) /\ t[r].degree = d - 1
      BY <3>1, <3>3 DEF InRing
    <3>5. QED
      BY <2>3, <3>1, <3>2, <3>4
  <2>4. QED
    BY <2>2, <2>3
<1> HIDE DEF r, c, d
<1>4. \A p \in Node : Kids(u, p) = IF p = x THEN Kids(t, x) \cup {y} ELSE Kids(t, p)
  BY <1>1, <1>2 DEF Kids
<1>5. Kids(u, Null) = Kids(t, Null) \ {y}
  BY <1>1, <1>2 DEF Kids
<1>6. \A p \in Node : \A a \in Kids(t, p) :
        /\ a \in Allocated(t) /\ a # x /\ a # y /\ a \in Node /\ t[a].degree \in Nat
        /\ u[a].degree = t[a].degree /\ t[a].degree < t[p].degree /\ p \in Allocated(t)
        /\ t[p].degree \in Nat
  <2> SUFFICES ASSUME NEW p \in Node, NEW a \in Kids(t, p)
               PROVE  /\ a \in Allocated(t) /\ a # x /\ a # y /\ a \in Node /\ t[a].degree \in Nat
                      /\ u[a].degree = t[a].degree /\ t[a].degree < t[p].degree
                      /\ p \in Allocated(t) /\ t[p].degree \in Nat
    OBVIOUS
  <2>1. a \in Allocated(t) /\ t[a].parent = p /\ p # Null
    BY <1>1 DEF Kids
  <2>2. a # x /\ a # y
    BY <1>1, <2>1
  <2>3. IsChild(t, a, p)
    BY DEF Binomial
  <2>4. t[a].degree < t[p].degree /\ p \in Allocated(t)
    BY <2>3 DEF IsChild
  <2>5. a \in Node /\ t[a].degree \in Nat /\ t[p].degree \in Nat
    BY <1>1, <2>1, <2>4, NodeType
  <2>6. QED
    BY <1>2, <2>1, <2>2, <2>4, <2>5
<1>7. u[y].degree = d /\ u[x].degree = d + 1
  BY <1>1, <1>2
<1>8. Distinct(u)
  <2> SUFFICES ASSUME NEW p \in Node, NEW a \in Kids(u, p), NEW b \in Kids(u, p),
                      u[a].degree = u[b].degree
               PROVE  a = b
    BY DEF Distinct
  <2>1. CASE a \in Kids(t, p) /\ b \in Kids(t, p)
    <3>1. t[a].degree = t[b].degree
      BY <1>6, <2>1
    <3>2. QED
      BY <2>1, <3>1 DEF Binomial, Distinct
  <2>2. ASSUME p = x, NEW e \in Kids(t, x) PROVE u[e].degree # d
    <3>1. u[e].degree < d /\ u[e].degree \in Nat
      BY <1>1, <1>6, <2>2 DEF d
    <3>2. QED
      BY <1>1, <3>1
  <2>3. QED
    BY <1>4, <1>7, <2>1, <2>2
<1>9. ASSUME NEW n \in Allocated(u) PROVE HasKids(u, n)
  <2>1. n \in Allocated(t) /\ n \in Node /\ HasKids(t, n)
    BY <1>1, <1>2, NodeType DEF Binomial
  <2>2. CASE n # x
    <3>1. Kids(u, n) = Kids(t, n) /\ u[n].degree = t[n].degree /\ u[n].child = t[n].child
      BY <1>2, <1>4, <2>1, <2>2
    <3>2. \A a \in Kids(t, n) : u[a].degree = t[a].degree
      BY <1>6, <2>1
    <3>3. QED
      BY <2>1, <3>1, <3>2 DEF HasKids
  <2>3. CASE n = x
    <3>1. Kids(u, n) = Kids(t, x) \cup {y} /\ u[n].degree = d + 1
      BY <1>4, <1>7, <2>1, <2>3
    <3>2. ASSUME NEW e \in 0 .. ((d + 1) - 1) PROVE \E k \in Kids(u, n) : u[k].degree = e
      <4>1. CASE e = d
        BY <1>7, <3>1, <4>1
      <4>2. CASE e # d
        <5>1. e \in 0 .. (d - 1)
          BY <1>1, <4>2
        <5>2. PICK k \in Kids(t, x) : t[k].degree = e
          BY <2>1, <2>3, <5>1 DEF HasKids, d
        <5>3. u[k].degree = e
          BY <1>1, <1>6, <5>2
        <5>4. QED
          BY <3>1, <5>2, <5>3
      <4>3. QED
        BY <4>1, <4>2
    <3>3. u[n].degree # 0
      BY <1>1, <3>1
    <3>4. u[n].child \in Kids(u, n) /\ u[u[n].child].degree = 0
      <4>1. CASE d = 0
        <5>1. u[n].child = y
          BY <1>1, <1>2, <1>3, <2>3, <4>1
        <5>2. QED
          BY <1>7, <3>1, <4>1, <5>1
      <4>2. CASE d # 0
        <5>1. u[n].child = c
          BY <1>1, <1>2, <1>3, <2>3, <4>2 DEF c
        <5>2. u[c].degree = 0
          BY <1>1, <1>3, <1>6, <4>2
        <5>3. QED
          BY <1>3, <3>1, <4>2, <5>1, <5>2
      <4>3. QED
        BY <4>1, <4>2
    <3>5. QED
      BY <3>1, <3>2, <3>3, <3>4 DEF HasKids
  <2>4. QED
    BY <2>2, <2>3
<1>10. ASSUME NEW p \in Node, NEW a \in Kids(u, p) PROVE IsChild(u, a, p)
  <2>1. CASE p # x
    <3>1. a \in Kids(t, p)
      BY <1>4, <2>1
    <3>2. IsChild(t, a, p) /\ InRing(t, a, p)
      BY <3>1 DEF Binomial, IsChild
    <3>3. /\ a \in Allocated(t) /\ a # x /\ a # y /\ u[a].degree = t[a].degree
          /\ p \in Allocated(t) /\ u[p].degree = t[p].degree
          /\ u[p].priority = t[p].priority /\ u[a].priority = t[a].priority
      BY <1>2, <1>6, <2>1, <3>1
    <3>4. (a # c /\ a # r) \/ (c = Null /\ a # c)
      <4>1. t[a].parent = p /\ a \in Node
        BY <1>6, <3>1 DEF Kids
      <4>2. CASE d = 0
        BY <1>1, <1>3, <4>1, <4>2
      <4>3. CASE d # 0
        BY <1>3, <2>1, <4>1, <4>3 DEF Kids
      <4>4. QED
        BY <4>2, <4>3
    <3>5. u[a].right = t[a].right /\ u[a].left = t[a].left
      BY <1>2, <3>3, <3>4
    <3>6. t[a].right \in Kids(t, p) /\ t[a].left \in Kids(t, p)
      BY <3>2 DEF InRing
    <3>7. u[t[a].right].degree = t[t[a].right].degree /\ u[t[a].left].degree = t[t[a].left].degree
      BY <1>6, <3>6
    <3>8. Kids(u, p) = Kids(t, p)
      BY <1>4, <2>1
    <3>9. InRing(u, a, p)
      BY <3>2, <3>3, <3>5, <3>7, <3>8 DEF InRing
    <3>10. QED
      BY <1>2, <3>2, <3>3, <3>9 DEF IsChild
  <2>2. CASE p = x /\ a = y
    <3>1. /\ x \in Allocated(u) /\ u[y].degree < u[x].degree /\ u[x].priority <= u[y].priority
      BY <1>1, <1>2, <1>7
    <3>2. y \in Kids(u, x) /\ Kids(t, x) \subseteq Kids(u, x)
      BY <1>1, <1>4
    <3>3. CASE d = 0
      <4>1. u[y].right = y /\ u[y].left = y
        BY <1>1, <1>2, <1>3, <3>3
      <4>2. InRing(u, y, x)
        BY <1>7, <3>2, <3>3, <4>1 DEF InRing
      <4>3. QED
        BY <2>2, <3>1, <4>2 DEF IsChild
    <3>4. CASE d # 0
      <4>1. u[y].right = r /\ u[y].left = c
        BY <1>1, <1>2, <1>3, <3>4
      <4>2. u[r].degree = d - 1 /\ u[c].degree = 0 /\ r \in Kids(u, x) /\ c \in Kids(u, x)
        BY <1>1, <1>3, <1>6, <3>2, <3>4
      <4>3. d = (d + 1) - 1
        BY <1>1
      <4>4. InRing(u, y, x)
        BY <1>7, <3>4, <4>1, <4>2, <4>3 DEF InRing
      <4>5. QED
        BY <2>2, <3>1, <4>4 DEF IsChild
    <3>5. QED
      BY <3>3, <3>4
  <2>3. CASE p = x /\ a # y
    <3> DEFINE e == t[a].degree
    <3>1. a \in Kids(t, x) /\ Kids(u, x) = Kids(t, x) \cup {y}
      BY <1>1, <1>4, <2>3
    <3>2. IsChild(t, a, x) /\ InRing(t, a, x)
      BY <1>1, <3>1 DEF Binomial, IsChild
    <3>3. /\ a \in Allocated(t) /\ a # x /\ u[a].degree = e /\ e \in Nat /\ e < d
          /\ u[a].priority = t[a].priority /\ u[x].priority = t[x].priority
      BY <1>1, <1>2, <1>6, <3>1 DEF d
    <3>4. d # 0
      BY <3>3
    <3>5. c \in Kids(t, x) /\ t[c].degree = 0 /\ r \in Kids(t, x) /\ t[r].degree = d - 1 /\ c # Null
      BY <1>3, <3>4
    <3>6. (a = c <=> e = 0) /\ (a = r <=> e = d - 1)
      BY <1>1, <3>1, <3>5 DEF Binomial, Distinct
    <3>7. /\ t[a].right \in Kids(t, x) /\ t[a].left \in Kids(t, x)
          /\ e # 0 => t[t[a].right].degree = e - 1
          /\ e # d - 1 => t[t[a].left].degree = e + 1
      BY <3>2 DEF InRing, d
    <3>8. u[a].right \in Kids(u, x)
          /\ u[u[a].right].degree = IF e = 0 THEN (d + 1) - 1 ELSE e - 1
      <4>1. CASE e = 0
        <5>1. u[a].right = y
          BY <1>2, <2>3, <3>3, <3>6, <4>1
        <5>2. (d + 1) - 1 = d
          BY <1>1
        <5>3. QED
          BY <1>7, <3>1, <4>1, <5>1, <5>2
      <4>2. CASE e # 0
        <5>1. u[a].right = t[a].right
          BY <1>2, <2>3, <3>3, <3>6, <4>2
        <5>2. u[t[a].right].degree = e - 1
          BY <1>1, <1>6, <3>7, <4>2
        <5>3. QED
          BY <3>1, <3>7, <4>2, <5>1, <5>2
      <4>3. QED
        BY <4>1, <4>2
    <3>9. u[a].left \in Kids(u, x)
          /\ u[u[a].left].degree = IF e = (d + 1) - 1 THEN 0 ELSE e + 1
      <4>0. e # (d + 1) - 1
        BY <1>1, <3>3
      <4>1. CASE e = d - 1
        <5>1. u[a].left = y
          BY <1>2, <2>3, <3>3, <3>5, <3>6, <4>1
        <5>2. e + 1 = d
          BY <1>1, <4>1
        <5>3. QED
          BY <1>7, <3>1, <4>0, <5>1, <5>2
      <4>2. CASE e # d - 1
        <5>1. u[a].left = t[a].left
          BY <1>2, <2>3, <3>3, <3>6, <4>2
        <5>2. u[t[a].left].degree = e + 1
          BY <1>1, <1>6, <3>7, <4>2
        <5>3. QED
          BY <3>1, <3>7, <4>0, <5>1, <5>2
      <4>3. QED
        BY <4>1, <4>2
    <3> HIDE DEF e
    <3>10. InRing(u, a, x)
      BY <1>7, <3>3, <3>8, <3>9 DEF InRing
    <3>11. e < d + 1
      BY <1>1, <3>3
    <3>12. x \in Allocated(u) /\ u[x].priority <= u[a].priority
      BY <1>1, <1>2, <3>2, <3>3 DEF IsChild
    <3>13. QED
      BY <1>7, <2>3, <3>3, <3>10, <3>11, <3>12 DEF IsChild
  <2>4. QED
    BY <2>1, <2>2, <2>3
<1>11. Binomial(u)
  BY <1>2, <1>8, <1>9, <1>10 DEF Binomial
<1>12. QED
  BY <1>5, <1>11

-----------------------------------------------------------------------------
(* consolidate's folds, one element at a time *)

\* The step of either fold of consolidate.
Op(kind, a, b) == IF kind = "link" THEN Link(a, b) ELSE Settle(a, b)

\* The recursive function of the sets of positions that a fold is.
FoldBody(g, n, kind, base, s) ==
  [u \in SUBSET (1 .. n) |->
     IF u = {} THEN base ELSE Op(kind, g[u \ {Max(u)}], s[Max(u)])]

LEMMA MaxOfPositions ==
  ASSUME NEW n \in Nat, NEW u \in SUBSET (1 .. n), u # {}
  PROVE  Max(u) \in u /\ \A k \in u : k <= Max(u)
<1>1. u \in SUBSET (0 .. n)
  OBVIOUS
<1>2. PICK m \in u : \A k \in u : k <= m
  BY <1>1, GreatestElement
<1>3. \A k \in u : m >= k
  BY <1>2
<1>4. Max(u) \in u /\ \A k \in u : Max(u) >= k
  BY <1>2, <1>3 DEF Max
<1>5. \A k \in u : k \in Int
  OBVIOUS
<1>6. QED
  BY <1>4, <1>5

\* The fold exists, whatever the step returns.
LEMMA FoldBodyExists ==
  ASSUME NEW n \in Nat, NEW kind, NEW base, NEW s
  PROVE  \E g : g = FoldBody(g, n, kind, base, s)
<1> DEFINE U == SUBSET (1 .. n)
           Value(g, u) == IF u = {} THEN base ELSE Op(kind, g[u \ {Max(u)}], s[Max(u)])
           UpTo(g, k) == \A u \in U : Cardinality(u) <= k => g[u] = Value(g, u)
           Good == {k \in Nat : \E g : UpTo(g, k)}
<1>1. IsFiniteSet(1 .. n) /\ \A u \in U : IsFiniteSet(u) /\ Cardinality(u) \in Nat
  <2>1. IsFiniteSet(1 .. n)
    BY FS_Interval
  <2>2. QED
    BY <2>1, FS_Subset, FS_CardinalityType
<1>2. \A u \in U : u # {} =>
        /\ u \ {Max(u)} \in U
        /\ Cardinality(u \ {Max(u)}) = Cardinality(u) - 1
  BY <1>1, FS_RemoveElement, MaxOfPositions
<1>3. 0 \in Good
  <2> DEFINE g == [u \in U |-> base]
  <2>1. \A u \in U : Cardinality(u) <= 0 => u = {}
    BY <1>1, FS_EmptySet
  <2>2. UpTo(g, 0)
    BY <2>1
  <2>3. QED
    BY <2>2
<1>4. \A k \in Nat : k \in Good => k + 1 \in Good
  <2> SUFFICES ASSUME NEW k \in Nat, k \in Good PROVE k + 1 \in Good
    OBVIOUS
  <2>1. PICK g : UpTo(g, k)
    OBVIOUS
  <2> DEFINE h == [u \in U |-> IF Cardinality(u) <= k THEN g[u] ELSE Value(g, u)]
  <2>2. ASSUME NEW u \in U, Cardinality(u) <= k + 1 PROVE h[u] = Value(h, u)
    <3>1. h[u] = Value(g, u)
      BY <2>1
    <3>2. u # {} => h[u \ {Max(u)}] = g[u \ {Max(u)}]
      BY SMTT(30), <1>1, <1>2, <2>2
    <3>3. QED
      BY <3>1, <3>2
  <2>3. UpTo(h, k + 1)
    BY <2>2
  <2> HIDE DEF h, UpTo
  <2>4. QED
    BY <2>3
<1>5. Nat \subseteq Good
  <2> HIDE DEF Good
  <2>1. QED
    BY <1>3, <1>4, NatSetInduction
<1>6. PICK g : UpTo(g, Cardinality(1 .. n))
  BY <1>1, <1>5
<1>7. \A u \in U : Cardinality(u) <= Cardinality(1 .. n)
  BY <1>1, FS_Subset
<1> DEFINE h == [u \in U |-> g[u]]
<1>8. \A u \in U : h[u] = Value(h, u)
  BY <1>2, <1>6, <1>7
<1>9. h = [u \in U |-> Value(h, u)]
  <2>1. h = [u \in U |-> h[u]]
    OBVIOUS
  <2> HIDE DEF h, Value
  <2>2. QED
    BY <1>8, <2>1
<1>10. h = FoldBody(h, n, kind, base, s)
  BY <1>9 DEF FoldBody
<1>11. QED
  BY <1>10

\* What h holds after each position of s.
InTurn(h, n, kind, base, s) ==
  h[0] = base /\ \A k \in 1 .. n : h[k] = Op(kind, h[k - 1], s[k])

\* Any such function goes through the positions in order.
LEMMA FoldInTurn ==
  ASSUME NEW n \in Nat, NEW kind, NEW base, NEW s, NEW g, g = FoldBody(g, n, kind, base, s)
  PROVE  \E h : InTurn(h, n, kind, base, s) /\ g[1 .. n] = h[n]
<1> DEFINE h == [k \in 0 .. n |-> g[1 .. k]]
<1>1. \A u \in SUBSET (1 .. n) :
        g[u] = IF u = {} THEN base ELSE Op(kind, g[u \ {Max(u)}], s[Max(u)])
  BY DEF FoldBody
<1>2. h[0] = base
  <2>1. 1 .. 0 = {}
    OBVIOUS
  <2>2. g[{}] = base
    BY <1>1
  <2>3. QED
    BY <2>1, <2>2
<1>3. ASSUME NEW k \in 1 .. n PROVE h[k] = Op(kind, h[k - 1], s[k])
  <2> DEFINE u == 1 .. k
  <2>1. u \in SUBSET (1 .. n) /\ u # {} /\ k \in u /\ \A j \in u : j <= k
    OBVIOUS
  <2>2. Max(u) \in u /\ k <= Max(u)
    BY <2>1, MaxOfPositions
  <2>3. Max(u) = k
    BY <2>2
  <2>4. u \ {k} = 1 .. (k - 1)
    OBVIOUS
  <2>5. h[k] = g[u] /\ h[k - 1] = g[1 .. (k - 1)]
    OBVIOUS
  <2> HIDE DEF u, h
  <2>6. QED
    BY <1>1, <2>1, <2>3, <2>4, <2>5
<1>4. g[1 .. n] = h[n]
  OBVIOUS
<1>5. InTurn(h, n, kind, base, s)
  <2> HIDE DEF h
  <2>1. QED
    BY <1>2, <1>3 DEF InTurn
<1> HIDE DEF h
<1>6. QED
  BY <1>4, <1>5

LEMMA LinksInTurn ==
  ASSUME NEW n \in Nat, NEW base, NEW s, DOMAIN s = 1 .. n
  PROVE  \E h : InTurn(h, n, "link", base, s) /\ FoldLeft(Link, base, s) = h[n]
<1> DEFINE Body(g) == FoldBody(g, n, "link", base, s)
           it == CHOOSE g : g = Body(g)
<1>1. it = Body(it)
  <2>1. PICK g : g = Body(g)
    BY FoldBodyExists
  <2> HIDE DEF Body
  <2>2. QED
    BY <2>1
<1>2. FoldLeft(Link, base, s) = it[1 .. n]
  BY DEF FoldLeft, MapThenFoldSet, FoldBody, Op
<1> HIDE DEF it
<1>3. QED
  BY <1>1, <1>2, FoldInTurn

LEMMA SettlesInTurn ==
  ASSUME NEW n \in Nat, NEW base, NEW s, DOMAIN s = 1 .. n
  PROVE  \E h : InTurn(h, n, "settle", base, s) /\ FoldLeft(Settle, base, s) = h[n]
<1> DEFINE Body(g) == FoldBody(g, n, "settle", base, s)
           it == CHOOSE g : g = Body(g)
<1>1. it = Body(it)
  <2>1. PICK g : g = Body(g)
    BY FoldBodyExists
  <2> HIDE DEF Body
  <2>2. QED
    BY <2>1
<1>2. FoldLeft(Settle, base, s) = it[1 .. n]
  BY DEF FoldLeft, MapThenFoldSet, FoldBody, Op
<1> HIDE DEF it
<1>3. QED
  BY <1>1, <1>2, FoldInTurn

-----------------------------------------------------------------------------
(* Links *)

\* u has the elements of t, and holds binomial trees.
Keeps(t, u) ==
  /\ Binomial(u) /\ Allocated(u) = Allocated(t)
  /\ \A m \in Allocated(t) : u[m].priority = t[m].priority

\* u is t where the trees of the roots R have become one, of root x and degree e.
Grown(t, u, R, x, e) ==
  /\ Keeps(t, u) /\ x \in R
  /\ Kids(u, Null) = (Kids(t, Null) \ R) \cup {x}
  /\ u[x].degree = e
  /\ \A m \in Kids(t, Null) \ R : u[m].degree = t[m].degree

\* A link takes a further root of the same degree into the tree.
LEMMA LinkGrows ==
  ASSUME NEW t, IsMemory(t), NEW u, NEW R, R \subseteq Kids(t, Null), NEW x, NEW e \in Nat,
         Grown(t, u, R, x, e), NEW y \in Kids(t, Null), y \notin R, t[y].degree = e,
         NEW w, w = Link([tree |-> u, x |-> x], y)
  PROVE  /\ w = [tree |-> w.tree, x |-> w.x]
         /\ Grown(t, w.tree, R \cup {y}, w.x, e + 1)
<1>1. /\ Binomial(u) /\ IsMemory(u) /\ x \in Kids(u, Null) /\ y \in Kids(u, Null) /\ x # y
      /\ u[x].degree = e /\ u[y].degree = e /\ x \in R
  BY DEF Grown, Keeps, Binomial
<1>2. u[x].priority \in Int /\ u[y].priority \in Int
  <2>1. x \in Allocated(u) /\ y \in Allocated(u)
    BY <1>1 DEF Kids
  <2>2. QED
    BY <1>1, <2>1, NodeType
\* v is what becomes of the memory when b goes under a.
<1>3. ASSUME NEW a \in {x, y}, NEW b \in {x, y}, a # b,
             u[a].priority <= u[b].priority
      PROVE  Grown(t, AddChild(u, a, b), R \cup {y}, a, e + 1)
  <2> DEFINE v == AddChild(u, a, b)
  <2>1. a \in Kids(u, Null) /\ b \in Kids(u, Null) /\ a # b /\ u[a].degree = u[b].degree
        /\ u[a].degree = e
    BY <1>1, <1>3
  <2>2. Linked(u, v, a, b)
    BY <1>1, <2>1, AddChildFields
  <2> HIDE DEF v
  <2>3. Binomial(v) /\ Kids(v, Null) = Kids(u, Null) \ {b}
    BY <1>1, <1>3, <2>1, <2>2, LinkKeepsTrees
  <2>4. /\ Allocated(v) = Allocated(u) /\ Allocated(u) = Allocated(t)
        /\ \A m \in Allocated(t) : v[m].priority = t[m].priority
        /\ \A m \in Allocated(t) : v[m].degree = IF m = a THEN u[m].degree + 1 ELSE u[m].degree
        /\ a \in Allocated(t)
    BY <2>1, <2>2 DEF Linked, Grown, Keeps, Kids
  <2>5. Keeps(t, v)
    BY <2>3, <2>4 DEF Keeps
  <2>6. Kids(v, Null) = (Kids(t, Null) \ (R \cup {y})) \cup {a}
    BY <1>1, <1>3, <2>3 DEF Grown
  <2>7. v[a].degree = e + 1
    BY <2>1, <2>4
  <2>8. \A m \in Kids(t, Null) \ (R \cup {y}) : v[m].degree = t[m].degree
    <3> SUFFICES ASSUME NEW m \in Kids(t, Null) \ (R \cup {y}) PROVE v[m].degree = t[m].degree
      OBVIOUS
    <3>1. m # a /\ m \in Allocated(t)
      BY <1>1, <1>3 DEF Kids
    <3>2. QED
      BY <2>4, <3>1 DEF Grown
  <2>9. a \in R \cup {y}
    BY <1>1, <1>3
  <2>10. QED
    BY <2>5, <2>6, <2>7, <2>8, <2>9 DEF Grown, v
<1>4. CASE LessThan(u, y, x)
  <2>1. w = [tree |-> AddChild(u, y, x), x |-> y]
    BY <1>4 DEF Link
  <2>2. u[y].priority <= u[x].priority
    BY <1>2, <1>4 DEF LessThan
  <2>3. Grown(t, AddChild(u, y, x), R \cup {y}, y, e + 1)
    BY <1>1, <1>3, <2>2
  <2>4. QED
    BY <2>1, <2>3
<1>5. CASE ~LessThan(u, y, x)
  <2>1. w = [tree |-> AddChild(u, x, y), x |-> x]
    BY <1>5 DEF Link
  <2>2. u[x].priority <= u[y].priority
    BY <1>2, <1>5 DEF LessThan
  <2>3. Grown(t, AddChild(u, x, y), R \cup {y}, x, e + 1)
    BY <1>1, <1>3, <2>2
  <2>4. QED
    BY <2>1, <2>3
<1>6. QED
  BY <1>4, <1>5

\* Links with roots of the degrees that the tree reaches in turn.
LEMMA LinksGrow ==
  ASSUME NEW t, Binomial(t), NEW r \in Kids(t, Null), NEW d \in Nat, t[r].degree = d,
         NEW n \in Nat, NEW met, DOMAIN met = 1 .. n,
         \A i \in 1 .. n : /\ met[i] \in Kids(t, Null) /\ met[i] # r
                           /\ t[met[i]].degree = (d + i) - 1,
         NEW w, w = FoldLeft(Link, [tree |-> t, x |-> r], met)
  PROVE  Grown(t, w.tree, {r} \cup Range(met), w.x, d + n)
<1> DEFINE base == [tree |-> t, x |-> r]
           R(k) == {r} \cup {met[i] : i \in 1 .. k}
<1>1. PICK h : InTurn(h, n, "link", base, met) /\ FoldLeft(Link, base, met) = h[n]
  BY LinksInTurn
<1>2. h[0] = base /\ \A k \in 1 .. n : h[k] = Link(h[k - 1], met[k])
  BY <1>1 DEF InTurn, Op
<1> DEFINE Holds(k) == /\ h[k] = [tree |-> h[k].tree, x |-> h[k].x]
                       /\ Grown(t, h[k].tree, R(k), h[k].x, d + k)
           Good == {k \in Nat : k <= n => Holds(k)}
<1>3. 0 \in Good
  <2>1. R(0) = {r}
    OBVIOUS
  <2>2. Keeps(t, t)
    BY DEF Keeps
  <2>3. Grown(t, t, {r}, r, d + 0)
    BY <2>2 DEF Grown
  <2>4. h[0].tree = t /\ h[0].x = r /\ h[0] = [tree |-> t, x |-> r]
    BY <1>2
  <2>5. Holds(0)
    <3> HIDE DEF R, base
    <3>1. QED
      BY <2>1, <2>3, <2>4
  <2> HIDE DEF Holds
  <2>6. QED
    BY <2>5
<1>4. \A k \in Nat : k \in Good => k + 1 \in Good
  <2> SUFFICES ASSUME NEW k \in Nat, k \in Good, k + 1 <= n PROVE Holds(k + 1)
    <3> HIDE DEF Holds
    <3>1. QED
      OBVIOUS
  <2> DEFINE y == met[k + 1]
  <2>1. k + 1 \in 1 .. n /\ (k + 1) - 1 = k /\ d + k \in Nat /\ (d + k) + 1 = d + (k + 1)
        /\ (d + (k + 1)) - 1 = d + k
    OBVIOUS
  <2>2. Holds(k)
    OBVIOUS
  <2>3. h[k + 1] = Link(h[k], y)
    BY <1>2, <2>1
  <2>4. y \in Kids(t, Null) /\ t[y].degree = d + k
    BY <2>1
  <2>5. R(k) \subseteq Kids(t, Null)
    BY <2>1
  <2>6. y \notin R(k)
    <3>1. \A i \in 1 .. k : t[met[i]].degree = (d + i) - 1 /\ (d + i) - 1 # d + k
      BY <2>1
    <3>2. y # r
      BY <2>1
    <3>3. QED
      BY <2>4, <3>1, <3>2
  <2>7. R(k + 1) = R(k) \cup {y}
    <3>1. 1 .. (k + 1) = (1 .. k) \cup {k + 1}
      OBVIOUS
    <3>2. QED
      BY <3>1
  <2> DEFINE u == h[k].tree
             x == h[k].x
             v == Link([tree |-> u, x |-> x], y)
  <2>8. IsMemory(t)
    BY DEF Binomial
  <2>9. v = [tree |-> v.tree, x |-> v.x] /\ Grown(t, v.tree, R(k) \cup {y}, v.x, (d + k) + 1)
    <3> HIDE DEF R, y
    <3> DEFINE e == d + k
    <3>1. e \in Nat /\ Grown(t, u, R(k), x, e) /\ t[y].degree = e
      BY <2>1, <2>2, <2>4
    <3> DEFINE P == R(k)
    <3>0. v = Link([tree |-> u, x |-> x], y)
      OBVIOUS
    <3> HIDE DEF e, u, x, v, P
    <3>2. P \subseteq Kids(t, Null) /\ y \notin P /\ Grown(t, u, P, x, e)
      BY <2>5, <2>6, <3>1 DEF P
    <3>3. /\ IsMemory(t) /\ P \subseteq Kids(t, Null) /\ e \in Nat /\ Grown(t, u, P, x, e)
          /\ y \in Kids(t, Null) /\ y \notin P /\ t[y].degree = e
          /\ v = Link([tree |-> u, x |-> x], y)
      BY <2>4, <2>8, <3>0, <3>1, <3>2
    <3>4. v = [tree |-> v.tree, x |-> v.x] /\ Grown(t, v.tree, P \cup {y}, v.x, e + 1)
      BY ONLY <3>3, LinkGrows
    <3>5. QED
      BY <3>4 DEF e, P
  <2>10. h[k + 1] = v
    BY <2>2, <2>3
  <2> HIDE DEF v, R
  <2>11. QED
    BY <2>1, <2>7, <2>9, <2>10
<1>5. n \in Good
  <2> HIDE DEF Good
  <2>1. Nat \subseteq Good
    BY <1>3, <1>4, NatSetInduction
  <2>2. QED
    BY <2>1
<1>6. R(n) = {r} \cup Range(met)
  BY DEF Range
<1>7. Holds(n)
  <2> HIDE DEF Holds
  <2>1. QED
    BY <1>5
<1> HIDE DEF R
<1>8. QED
  BY <1>1, <1>6, <1>7

-----------------------------------------------------------------------------
(* consolidate *)

LEMMA LeastOf ==
  ASSUME NEW S \in SUBSET Nat, S # {}
  PROVE  Min(S) \in S /\ \A i \in S : Min(S) <= i
<1>1. PICK m \in S : \A i \in S : m <= i
  BY LeastElement
<1>2. QED
  BY <1>1 DEF Min

\* The array of consolidate knows the trees that are settled, by degree; the roots S
\* are still to come. L is the greatest degree there is room for, but one.
SettledTrees(t, u, aux, L, S) ==
  /\ Keeps(t, u)
  /\ aux \in [0 .. (L + 1) -> Pointer]
  /\ S \subseteq Kids(u, Null)
  /\ \A m \in Kids(u, Null) : m \in S \/ \E i \in 0 .. (L + 1) : aux[i] = m
  /\ \A i \in 0 .. (L + 1) : aux[i] # Null =>
       aux[i] \in Kids(u, Null) /\ aux[i] \notin S /\ u[aux[i]].degree = i

\* No tree of t's elements is of a greater degree than L.
AtMost(t, L) == \A u : Keeps(t, u) => \A m \in Kids(u, Null) : u[m].degree <= L

\* What consolidate works on, while the array lasts.
Array(u, aux) == [tree |-> u, aux |-> aux, overrun |-> FALSE]

LEMMA SettleKeeps ==
  ASSUME NEW t, NEW L \in Nat, AtMost(t, L), NEW u, NEW aux, NEW S, SettledTrees(t, u, aux, L, S),
         NEW r \in S, NEW w, w = Settle(Array(u, aux), r)
  PROVE  /\ w = Array(w.tree, w.aux)
         /\ SettledTrees(t, w.tree, w.aux, L, S \ {r})
<1> DEFINE d == u[r].degree
           D == 0 .. (L + 1)
           places == {i \in D : i >= d /\ aux[i] = Null}
           place == Min(places)
           n == place - d
           met == [i \in 1 .. n |-> aux[d + i - 1]]
           done == FoldLeft(Link, [tree |-> u, x |-> r], met)
           v == done.tree
           x == done.x
           new == [i \in D |-> IF i = place THEN x ELSE IF i \in d .. place THEN Null ELSE aux[i]]
<1>1. /\ Keeps(t, u) /\ Binomial(u) /\ IsMemory(u) /\ DOMAIN aux = D /\ aux \in [D -> Pointer]
      /\ S \subseteq Kids(u, Null) /\ r \in Kids(u, Null) /\ Null \notin Node
  BY HeapAssumption DEF SettledTrees, Keeps, Binomial
<1>2. /\ \A m \in Kids(u, Null) : m \in S \/ \E i \in D : aux[i] = m
      /\ \A i \in D : aux[i] # Null =>
           aux[i] \in Kids(u, Null) /\ aux[i] \notin S /\ u[aux[i]].degree = i
  BY DEF SettledTrees
<1>3. d \in Nat /\ d <= L
  <2>1. r \in Allocated(u)
    BY <1>1 DEF Kids
  <2>2. d \in Nat
    BY <1>1, <2>1, NodeType
  <2>3. d <= L
    BY <1>1 DEF AtMost
  <2>4. QED
    BY <2>2, <2>3
<1>4. L + 1 \in places
  <2>1. L + 1 \in D /\ L + 1 >= d /\ ~(L + 1 <= L)
    BY <1>3
  <2>2. aux[L + 1] # Null => u[aux[L + 1]].degree <= L
    BY <1>1, <1>2, <2>1 DEF AtMost
  <2> HIDE DEF d, D
  <2>3. QED
    BY <1>2, <2>1, <2>2
<1>5. place \in places /\ \A i \in places : place <= i
  <2>1. places \in SUBSET Nat /\ places # {}
    BY <1>4
  <2> HIDE DEF places
  <2>2. QED
    BY <2>1, LeastOf
<1>6. /\ place \in D /\ place >= d /\ aux[place] = Null /\ n \in Nat /\ place \in Nat /\ d + n = place
      /\ \A i \in D : i >= d /\ i < place => aux[i] # Null
  <2> HIDE DEF place
  <2>1. place \in D /\ place >= d /\ aux[place] = Null
    BY <1>5
  <2>2. n \in Nat /\ d + n = place /\ place \in Nat
    BY <1>3, <2>1
  <2>3. \A i \in D : i >= d /\ i < place => aux[i] # Null
    BY <1>5
  <2>4. QED
    BY <2>1, <2>2, <2>3
<1> HIDE DEF place
<1>7. DOMAIN met = 1 .. n /\ \A i \in 1 .. n : met[i] = aux[d + i - 1] /\ d + i - 1 \in D
                             /\ d + i - 1 >= d /\ d + i - 1 < place /\ (d + i) - 1 = d + i - 1
  BY SMTT(30), <1>3, <1>6
<1>8. w = [tree |-> v, aux |-> new, overrun |-> FALSE]
  <2> DEFINE s == Array(u, aux)
  <2>1. places # {}
    BY <1>4
  <2>2. s.tree = u /\ s.aux = aux /\ s.overrun = FALSE
    BY DEF Array
  <2>3. w = Settle(s, r)
    OBVIOUS
  <2> HIDE DEF s
  <2>4. QED
    BY <2>1, <2>2, <2>3, <1>1 DEF Settle, place
<1> HIDE DEF places
<1>9. \A i \in 1 .. n : /\ met[i] \in Kids(u, Null) /\ met[i] # r
                        /\ u[met[i]].degree = (d + i) - 1
  <2> SUFFICES ASSUME NEW i \in 1 .. n
               PROVE  met[i] \in Kids(u, Null) /\ met[i] # r /\ u[met[i]].degree = (d + i) - 1
    OBVIOUS
  <2> DEFINE j == d + i - 1
  <2>1. met[i] = aux[j] /\ j \in D /\ j >= d /\ j < place /\ (d + i) - 1 = j
    BY <1>7
  <2> HIDE DEF j, met, n, d, D
  <2>2. aux[j] # Null
    BY <1>6, <2>1
  <2>3. QED
    BY <1>2, <2>1, <2>2
<1> DEFINE R == {r} \cup Range(met)
<1>10. Grown(u, v, R, x, place)
  <2>1. d = u[r].degree /\ done = FoldLeft(Link, [tree |-> u, x |-> r], met)
    OBVIOUS
  <2> HIDE DEF d, n, met, done
  <2>2. /\ Binomial(u) /\ r \in Kids(u, Null) /\ d \in Nat /\ u[r].degree = d
        /\ n \in Nat /\ DOMAIN met = 1 .. n
        /\ \A i \in 1 .. n : met[i] \in Kids(u, Null) /\ met[i] # r /\ u[met[i]].degree = (d + i) - 1
    BY <1>1, <1>3, <1>6, <1>7, <1>9, <2>1
  <2>3. Grown(u, done.tree, {r} \cup Range(met), done.x, d + n)
    BY ONLY <2>1, <2>2, LinksGrow
  <2>4. QED
    BY <1>6, <2>3
<1>11. \A m : m \in R <=> m = r \/ \E j \in D : j >= d /\ j < place /\ aux[j] = m
  <2>1. \A j \in D : j >= d /\ j < place => j - d + 1 \in 1 .. n /\ met[j - d + 1] = aux[j]
    <3> SUFFICES ASSUME NEW j \in D, j >= d, j < place
                 PROVE  j - d + 1 \in 1 .. n /\ met[j - d + 1] = aux[j]
      OBVIOUS
    <3>1. j - d + 1 \in 1 .. n /\ d + (j - d + 1) - 1 = j
      BY <1>3, <1>6
    <3>2. QED
      BY <3>1
  <2> HIDE DEF met, n, d, D
  <2>2. \A i \in 1 .. n : \E j \in D : j >= d /\ j < place /\ aux[j] = met[i]
    BY <1>7
  <2>3. \A m : m \in Range(met) <=> \E i \in 1 .. n : met[i] = m
    BY <1>7 DEF Range
  <2>4. QED
    BY <2>1, <2>2, <2>3
<1> HIDE DEF v, x, R, met, n, done
<1>12. \A i \in D : aux[i] # Null => aux[i] \in Kids(u, Null) /\ aux[i] # r /\ aux[i] \notin S
                                     /\ u[aux[i]].degree = i
  BY <1>2
<1>13. \A i \in D : aux[i] # Null /\ i \notin d .. place => aux[i] \notin R
  <2> SUFFICES ASSUME NEW i \in D, aux[i] # Null, i \notin d .. place, aux[i] \in R PROVE FALSE
    OBVIOUS
  <2>1. PICK j \in D : j >= d /\ j < place /\ aux[j] = aux[i]
    BY <1>11, <1>12
  <2>2. i = j
    BY <1>12, <2>1
  <2>3. QED
    BY <1>3, <1>6, <2>1, <2>2
<1>14. /\ Keeps(t, v) /\ x \in R /\ v[x].degree = place
       /\ Kids(v, Null) = (Kids(u, Null) \ R) \cup {x}
       /\ \A m \in Kids(u, Null) \ R : v[m].degree = u[m].degree
  <2>1. Keeps(u, v)
    BY <1>10 DEF Grown
  <2>2. Keeps(t, v)
    BY <1>1, <2>1 DEF Keeps
  <2>3. QED
    BY <1>10, <2>2 DEF Grown
<1>15. x \in Node /\ x # Null
  <2>1. x \in Kids(v, Null)
    BY <1>14
  <2>2. QED
    BY <1>1, <2>1 DEF Kids, Allocated
<1>16. new \in [D -> Pointer]
  <2>1. x \in Pointer /\ Null \in Pointer
    BY <1>15 DEF Pointer
  <2> HIDE DEF D
  <2>2. QED
    BY <1>1, <2>1
<1>17. S \ {r} \subseteq Kids(v, Null)
  <2> SUFFICES ASSUME NEW m \in S, m # r PROVE m \in Kids(v, Null)
    OBVIOUS
  <2>1. m \in Kids(u, Null) /\ m # Null
    BY <1>1 DEF Kids, Allocated
  <2>2. m \notin R
    BY <1>11, <1>12, <2>1
  <2>3. QED
    BY <1>14, <2>1, <2>2
<1>18. ASSUME NEW m \in Kids(v, Null) PROVE m \in S \ {r} \/ \E i \in D : new[i] = m
  <2>1. CASE m = x
    BY <1>6, <2>1
  <2>2. CASE m # x
    <3>1. m \in Kids(u, Null) /\ m \notin R /\ m # Null
      BY <1>1, <1>14, <2>2 DEF Kids, Allocated
    <3>2. m # r
      BY <1>11, <3>1
    <3>3. CASE m \notin S
      <4>1. PICK i \in D : aux[i] = m
        BY <1>2, <3>1, <3>3
      <4>2. i \notin d .. place
        <5>1. ~(i >= d /\ i < place)
          BY <1>11, <3>1, <4>1
        <5>2. i # place
          BY <1>6, <3>1, <4>1
        <5>3. QED
          BY <1>3, <1>6, <5>1, <5>2
      <4>3. i # place
        BY <1>6, <3>1, <4>1
      <4>4. QED
        BY <4>1, <4>2, <4>3
    <3>4. QED
      BY <3>2, <3>3
  <2>3. QED
    BY <2>1, <2>2
<1>19. ASSUME NEW i \in D, new[i] # Null
       PROVE  new[i] \in Kids(v, Null) /\ new[i] \notin S \ {r} /\ v[new[i]].degree = i
  <2>1. CASE i = place
    <3>1. new[i] = x
      BY <2>1
    <3>2. x \notin S \ {r}
      BY <1>6, <1>11, <1>12, <1>14
    <3>3. QED
      BY <1>14, <2>1, <3>1, <3>2
  <2>2. CASE i # place
    <3>1. i \notin d .. place /\ new[i] = aux[i] /\ aux[i] # Null
      BY <1>19, <2>2
    <3>2. aux[i] \in Kids(u, Null) \ R /\ aux[i] \notin S /\ u[aux[i]].degree = i
      BY <1>12, <1>13, <3>1
    <3>3. QED
      BY <1>14, <3>1, <3>2
  <2>3. QED
    BY <2>1, <2>2
<1> HIDE DEF new
<1>20. SettledTrees(t, v, new, L, S \ {r})
  BY <1>14, <1>16, <1>17, <1>18, <1>19 DEF SettledTrees
<1>21. w.tree = v /\ w.aux = new /\ w = Array(v, new)
  <2>1. w = Array(v, new)
    BY <1>8, Zenon DEF Array
  <2>2. QED
    BY <1>8, <2>1
<1>22. QED
  BY <1>20, <1>21

\* Twice the elements for every degree: there is room for the greatest.
LEMMA Log2Bounds ==
  ASSUME NEW n \in Nat \ {0}
  PROVE  Log2(n) \in Nat /\ 2 ^ Log2(n) <= n /\ n < 2 ^ (Log2(n) + 1)
<1> DEFINE Fits == {k \in 0 .. n : 2 ^ k <= n}
           Good == {k \in Nat : k < 2 ^ k}
<1>1. 0 \in Good
  BY PowerZero
<1>2. \A k \in Nat : k \in Good => k + 1 \in Good
  <2> SUFFICES ASSUME NEW k \in Nat, k < 2 ^ k PROVE k + 1 < 2 ^ (k + 1)
    OBVIOUS
  <2>1. 2 ^ (k + 1) = 2 * 2 ^ k /\ 2 ^ k \in Nat
    BY PowerNext, PowerType
  <2>2. QED
    BY <2>1
<1>3. \A k \in Nat : k < 2 ^ k
  <2> HIDE DEF Good
  <2>1. Nat \subseteq Good
    BY <1>1, <1>2, NatSetInduction
  <2>2. QED
    BY <2>1 DEF Good
<1>4. 0 \in Fits
  BY PowerZero
<1>5. PICK k \in Fits : \A j \in Fits : j <= k
  <2>1. Fits \in SUBSET (0 .. n)
    OBVIOUS
  <2> HIDE DEF Fits
  <2>2. QED
    BY <1>4, <2>1, GreatestElement
<1>6. k \in 0 .. n /\ 2 ^ k <= n /\ k + 1 \in Nat /\ 2 ^ (k + 1) \in Nat
  <2>1. k \in 0 .. n /\ 2 ^ k <= n
    OBVIOUS
  <2>2. QED
    BY <2>1, PowerType
<1>7. n < 2 ^ (k + 1)
  <2>1. CASE k + 1 <= n
    <3>1. ~(k + 1 <= k)
      BY <1>6
    <3>2. k + 1 \notin Fits
      BY <1>5, <3>1
    <3>3. QED
      BY <1>6, <2>1, <3>2
  <2>2. CASE ~(k + 1 <= n)
    <3>1. k + 1 < 2 ^ (k + 1)
      BY <1>3, <1>6
    <3>2. QED
      BY <1>6, <2>2, <3>1
  <2>3. QED
    BY <2>1, <2>2
<1>8. Log2(n) \in 0 .. n /\ 2 ^ Log2(n) <= n /\ n < 2 ^ (Log2(n) + 1)
  <2> DEFINE F(j) == 2 ^ j <= n /\ n < 2 ^ (j + 1)
  <2>1. F(k)
    BY <1>6, <1>7
  <2> HIDE DEF F
  <2>2. (CHOOSE j \in 0 .. n : F(j)) \in 0 .. n /\ F(CHOOSE j \in 0 .. n : F(j))
    BY <1>6, <2>1
  <2>3. Log2(n) = CHOOSE j \in 0 .. n : F(j)
    BY DEF Log2, F
  <2>4. QED
    BY <2>2, <2>3 DEF F
<1>9. QED
  BY <1>8

\* The roots after consolidate, in the array: consolidate settles them all, within it.
LEMMA ConsolidateSettles ==
  ASSUME NEW t, Binomial(t), NEW n \in Nat \ {0}, AtMost(t, Log2(n)),
         NEW k \in Nat, NEW rs, DOMAIN rs = 1 .. k, Range(rs) = Kids(t, Null),
         IsInjective(rs), NEW w, w = Consolidated(t, rs, n)
  PROVE  w.overrun = FALSE /\ SettledTrees(t, w.tree, w.aux, Log2(n), {})
<1> DEFINE L == Log2(n)
           empty == [i \in 0 .. (L + 1) |-> Null]
           base == Array(t, empty)
           S(j) == {rs[i] : i \in (j + 1) .. k}
<1>1. L \in Nat
  BY Log2Bounds
<1> HIDE DEF L
<1>2. w = FoldLeft(Settle, base, rs)
  <2>1. MaxDegree(n) - 1 = L + 1
    BY <1>1 DEF MaxDegree, L
  <2>2. QED
    BY <2>1 DEF Consolidated, Array
<1>3. PICK h : InTurn(h, k, "settle", base, rs) /\ FoldLeft(Settle, base, rs) = h[k]
  <2> HIDE DEF base
  <2>1. QED
    BY SettlesInTurn
<1>4. h[0] = base /\ \A j \in 1 .. k : h[j] = Settle(h[j - 1], rs[j])
  BY <1>3 DEF InTurn, Op
<1> DEFINE Holds(j) == /\ h[j] = Array(h[j].tree, h[j].aux)
                       /\ SettledTrees(t, h[j].tree, h[j].aux, L, S(j))
           Good == {j \in Nat : j <= k => Holds(j)}
<1>5. 0 \in Good
  <2>1. S(0) = Kids(t, Null)
    BY DEF Range
  <2>2. h[0].tree = t /\ h[0].aux = empty /\ h[0] = Array(t, empty)
    BY <1>4 DEF Array
  <2>3. SettledTrees(t, t, empty, L, Kids(t, Null))
    BY DEF SettledTrees, Keeps, Pointer
  <2>4. Holds(0)
    <3> HIDE DEF S, base, empty
    <3>1. QED
      BY <2>1, <2>2, <2>3
  <2> HIDE DEF Holds
  <2>5. QED
    BY <2>4
<1>6. \A j \in Nat : j \in Good => j + 1 \in Good
  <2> SUFFICES ASSUME NEW j \in Nat, j \in Good, j + 1 <= k PROVE Holds(j + 1)
    <3> HIDE DEF Holds
    <3>1. QED
      OBVIOUS
  <2> DEFINE u == h[j].tree
             aux == h[j].aux
             r == rs[j + 1]
             v == Settle(Array(u, aux), r)
  <2>1. Holds(j)
    <3> HIDE DEF Holds
    <3>1. QED
      OBVIOUS
  <2>2. r \in S(j) /\ S(j + 1) = S(j) \ {r}
    <3>1. j + 1 \in (j + 1) .. k /\ j + 1 \in 1 .. k /\ (j + 1) .. k = {j + 1} \cup ((j + 1) + 1) .. k
      OBVIOUS
    <3>2. \A i \in ((j + 1) + 1) .. k : i \in 1 .. k /\ i # j + 1
      OBVIOUS
    <3>3. \A i \in ((j + 1) + 1) .. k : rs[i] # r
      BY <3>1, <3>2 DEF IsInjective
    <3>4. QED
      BY <3>1, <3>3
  <2>3. h[j + 1] = Settle(h[j], r)
    <3>1. j + 1 \in 1 .. k /\ (j + 1) - 1 = j
      OBVIOUS
    <3>2. QED
      BY <1>4, <3>1
  <2>4. h[j + 1] = v
    <3> HIDE DEF S
    <3>1. QED
      BY <2>1, <2>3
  <2>5. SettledTrees(t, u, aux, L, S(j)) /\ v = Settle(Array(u, aux), r)
    BY <2>1
  <2>6. AtMost(t, L)
    BY DEF L
  <2> DEFINE P == S(j)
  <2>7. v = Array(v.tree, v.aux)
        /\ SettledTrees(t, v.tree, v.aux, L, P \ {r})
    <3>1. r \in P /\ SettledTrees(t, u, aux, L, P)
      BY <2>2, <2>5
    <3> HIDE DEF P, u, aux, r, v
    <3>2. QED
      BY ONLY SMTT(30), <1>1, <2>5, <2>6, <3>1, SettleKeeps
  <2> HIDE DEF v, S
  <2>8. QED
    BY <2>2, <2>4, <2>7
<1>7. Holds(k)
  <2> HIDE DEF Holds
  <2>1. Nat \subseteq Good
    <3> HIDE DEF Good
    <3>1. QED
      BY <1>5, <1>6, NatSetInduction
  <2>2. QED
    BY <2>1
<1>8. S(k) = {}
  <2>1. (k + 1) .. k = {}
    OBVIOUS
  <2>2. QED
    BY <2>1
<1>9. w = h[k]
  <2> HIDE DEF base
  <2>1. QED
    BY <1>2, <1>3
<1> HIDE DEF S
<1>10. w = Array(w.tree, w.aux) /\ SettledTrees(t, w.tree, w.aux, L, {})
  BY <1>7, <1>8, <1>9
<1>11. w.overrun = FALSE
  BY <1>10 DEF Array
<1>12. QED
  BY <1>10, <1>11 DEF L

-----------------------------------------------------------------------------
(* The array of roots *)

\* rs lists the elements of S, each once.
Lists(rs, S) == rs \in Seq(Node) /\ IsInjective(rs) /\ Range(rs) = S

LEMMA ListsAppend ==
  ASSUME NEW S, NEW rs, Lists(rs, S), NEW n \in Node, n \notin S
  PROVE  Lists(Append(rs, n), S \cup {n})
<1> DEFINE k == Len(rs)
           q == Append(rs, n)
<1>1. rs \in Seq(Node) /\ k \in Nat /\ DOMAIN rs = 1 .. k /\ \A i \in 1 .. k : rs[i] \in S
  BY DEF Lists, Range
<1>2. q \in Seq(Node) /\ DOMAIN q = 1 .. (k + 1) /\ q[k + 1] = n /\ \A i \in 1 .. k : q[i] = rs[i]
  BY <1>1, AppendProperties
<1>3. \A i \in 1 .. (k + 1) : i \in 1 .. k \/ i = k + 1
  BY <1>1
<1> HIDE DEF q
<1>4. IsInjective(q)
  <2> SUFFICES ASSUME NEW i \in 1 .. (k + 1), NEW j \in 1 .. (k + 1), q[i] = q[j] PROVE i = j
    BY <1>2 DEF IsInjective
  <2>1. CASE i \in 1 .. k /\ j \in 1 .. k
    BY <1>1, <1>2, <2>1 DEF Lists, IsInjective
  <2>2. QED
    BY <1>1, <1>2, <1>3, <2>1
<1>5. Range(q) = S \cup {n}
  <2>1. 1 .. (k + 1) = (1 .. k) \cup {k + 1}
    BY <1>1
  <2>2. \A m : m \in S <=> \E i \in 1 .. k : rs[i] = m
    BY <1>1 DEF Lists, Range
  <2>3. \A m : m \in Range(q) <=> \E i \in 1 .. (k + 1) : q[i] = m
    BY <1>2 DEF Range
  <2> HIDE DEF k
  <2>4. QED
    BY <1>2, <2>1, <2>2, <2>3
<1>6. QED
  BY <1>2, <1>4, <1>5 DEF Lists, q

\* The array of roots holds what the array of consolidate does.
LEMMA RootsOfArray ==
  ASSUME NEW L \in Nat, NEW aux \in [0 .. (L + 1) -> Pointer],
         \A i, j \in 0 .. (L + 1) : aux[i] # Null /\ aux[i] = aux[j] => i = j
  PROVE  Lists(RootsOf(aux), {aux[i] : i \in {j \in 0 .. (L + 1) : aux[j] # Null}})
<1> DEFINE D == 0 .. (L + 1)
           n == L + 2
           Filled(k) == {m \in Node : \E i \in 0 .. (k - 1) : aux[i] = m}
           Body(g) == [i \in 0 .. Cardinality(DOMAIN aux) |->
                         IF i = 0 THEN <<>>
                         ELSE IF aux[i - 1] = Null THEN g[i - 1] ELSE Append(g[i - 1], aux[i - 1])]
           added == CHOOSE g : g = Body(g)
<1>1. Cardinality(DOMAIN aux) = n /\ n \in Nat
  <2>1. DOMAIN aux = D
    OBVIOUS
  <2>2. Cardinality(0 .. (L + 1)) = (L + 1) - 0 + 1
    BY FS_Interval, 0 \in Int, L + 1 \in Int, ~(0 > L + 1)
  <2>3. QED
    BY <2>1, <2>2
<1>2. \A i \in 1 .. n : i - 1 \in D
  OBVIOUS
<1>3. \E g : g = Body(g)
  <2> DEFINE G == [p \in (0 .. n) \X Seq(Node) |->
                     IF p[1] = 0 THEN <<>>
                     ELSE IF aux[p[1] - 1] = Null THEN p[2] ELSE Append(p[2], aux[p[1] - 1])]
  <2>1. ASSUME NEW i \in 0 .. n, NEW q \in Seq(Node)
        PROVE  (IF i = 0 THEN <<>> ELSE IF aux[i - 1] = Null THEN q ELSE Append(q, aux[i - 1]))
                 \in Seq(Node)
    <3>1. i # 0 => i \in 1 .. n
      OBVIOUS
    <3>2. i # 0 /\ aux[i - 1] # Null => aux[i - 1] \in Node
      BY <1>2, <3>1 DEF Pointer
    <3>3. <<>> \in Seq(Node)
      OBVIOUS
    <3>4. i # 0 /\ aux[i - 1] # Null => Append(q, aux[i - 1]) \in Seq(Node)
      BY <3>2, AppendProperties
    <3>5. QED
      BY <3>3, <3>4
  <2>2. G \in [(0 .. n) \X Seq(Node) -> Seq(Node)]
    BY <2>1
  <2>3. <<>> \in Seq(Node)
    OBVIOUS
  <2>4. PICK g \in [0 .. n -> Seq(Node)] : IteratesOn(g, 0, n, <<>>, G)
    <3> HIDE DEF G, n
    <3>1. QED
      BY <1>1, <2>2, <2>3, RangeIterationExists
  <2>5. \A i \in 0 .. n : g[i] = IF i = 0 THEN <<>> ELSE G[<<i, g[i - 1]>>]
    <3> HIDE DEF G, n
    <3>1. QED
      BY <2>4 DEF IteratesOn
  <2>6. \A i \in 0 .. n : i # 0 => i - 1 \in 0 .. n
    OBVIOUS
  <2>7. \A i \in 0 .. n :
          g[i] = IF i = 0 THEN <<>>
                 ELSE IF aux[i - 1] = Null THEN g[i - 1] ELSE Append(g[i - 1], aux[i - 1])
    <3> SUFFICES ASSUME NEW i \in 0 .. n, i # 0
                 PROVE  g[i] = IF aux[i - 1] = Null THEN g[i - 1] ELSE Append(g[i - 1], aux[i - 1])
      BY <2>5
    <3>1. g[i - 1] \in Seq(Node)
      BY <2>6
    <3>2. G[<<i, g[i - 1]>>] = IF aux[i - 1] = Null THEN g[i - 1] ELSE Append(g[i - 1], aux[i - 1])
      BY <3>1
    <3> HIDE DEF G
    <3>3. QED
      BY <2>5, <3>2
  <2>8. g = Body(g)
    <3> HIDE DEF n
    <3>1. QED
      BY <1>1, <2>7
  <2>9. QED
    BY <2>8
<1>4. added = Body(added)
  <2> HIDE DEF Body
  <2>1. QED
    BY <1>3
<1>5. RootsOf(aux) = added[n]
  BY <1>1 DEF RootsOf
<1> HIDE DEF added
<1>6. /\ added[0] = <<>>
      /\ \A i \in 1 .. n : added[i] = IF aux[i - 1] = Null THEN added[i - 1]
                                      ELSE Append(added[i - 1], aux[i - 1])
  <2>1. \A i \in 0 .. n : added[i] = IF i = 0 THEN <<>>
                                     ELSE IF aux[i - 1] = Null THEN added[i - 1]
                                     ELSE Append(added[i - 1], aux[i - 1])
    <3> HIDE DEF n
    <3>1. QED
      BY <1>1, <1>4
  <2>2. QED
    BY <2>1
<1> DEFINE Good == {k \in Nat : k <= n => Lists(added[k], Filled(k))}
<1>7. 0 \in Good
  <2>1. Filled(0) = {}
    OBVIOUS
  <2>2. Lists(<<>>, {})
    BY DEF Lists, IsInjective, Range
  <2>3. QED
    BY <1>6, <2>1, <2>2
<1>8. \A k \in Nat : k \in Good => k + 1 \in Good
  <2> SUFFICES ASSUME NEW k \in Nat, k \in Good, k + 1 <= n
               PROVE  Lists(added[k + 1], Filled(k + 1))
    <3> HIDE DEF Filled, n
    <3>1. QED
      OBVIOUS
  <2>1. Lists(added[k], Filled(k))
    <3> HIDE DEF Filled
    <3>1. QED
      OBVIOUS
  <2>2. k + 1 \in 1 .. n /\ (k + 1) - 1 = k /\ k \in D /\ 0 .. k = (0 .. (k - 1)) \cup {k}
        /\ \A i \in 0 .. (k - 1) : i \in D /\ i # k
    OBVIOUS
  <2> HIDE DEF n
  <2>3. added[k + 1] = IF aux[k] = Null THEN added[k] ELSE Append(added[k], aux[k])
    BY <1>6, <2>2
  <2>4. \A m : m \in Filled(k + 1) <=> m \in Node /\ (m \in Filled(k) \/ m = aux[k])
    BY <2>2
  <2>5. CASE aux[k] = Null
    <3>1. Filled(k + 1) = Filled(k)
      BY <2>4, <2>5, HeapAssumption
    <3> HIDE DEF Filled
    <3>2. QED
      BY <2>1, <2>3, <2>5, <3>1
  <2>6. CASE aux[k] # Null
    <3>1. aux[k] \in Node
      BY <2>2, <2>6 DEF Pointer
    <3>2. Filled(k + 1) = Filled(k) \cup {aux[k]}
      BY <2>4, <3>1
    <3>3. aux[k] \notin Filled(k)
      BY <2>2, <2>6
    <3> HIDE DEF Filled
    <3>4. QED
      BY <2>1, <2>3, <2>6, <3>1, <3>2, <3>3, ListsAppend
  <2>7. QED
    BY <2>5, <2>6
<1>9. Lists(added[n], Filled(n))
  <2>1. Nat \subseteq Good
    <3> HIDE DEF Good
    <3>1. QED
      BY <1>7, <1>8, NatSetInduction
  <2>2. n \in Good
    BY <1>1, <2>1
  <2> HIDE DEF Filled, n
  <2>3. QED
    BY <1>1, <2>2
<1>10. Filled(n) = {aux[i] : i \in {j \in D : aux[j] # Null}}
  <2>1. 0 .. (n - 1) = D
    OBVIOUS
  <2>2. \A i \in D : aux[i] # Null => aux[i] \in Node
    BY DEF Pointer
  <2>3. Null \notin Node
    BY HeapAssumption
  <2> HIDE DEF D, n
  <2>4. QED
    BY <2>1, <2>2, <2>3
<1>11. QED
  BY <1>5, <1>9, <1>10

-----------------------------------------------------------------------------
(* The shape of binomial trees *)

\* What a child is.
LEMMA KidFacts ==
  ASSUME NEW t, Binomial(t), NEW p \in Node, NEW c \in Kids(t, p)
  PROVE  /\ c \in Allocated(t) /\ c \in Node /\ p \in Allocated(t) /\ c # p /\ t[c].parent = p
         /\ t[c].degree \in Nat /\ t[p].degree \in Nat /\ t[c].degree < t[p].degree
         /\ t[p].priority <= t[c].priority /\ t[p].priority \in Int /\ t[c].priority \in Int
         /\ InRing(t, c, p)
<1>1. IsMemory(t) /\ c \in Allocated(t) /\ t[c].parent = p /\ IsChild(t, c, p)
  BY DEF Binomial, Kids
<1>2. p \in Allocated(t) /\ t[c].degree < t[p].degree /\ t[p].priority <= t[c].priority
      /\ InRing(t, c, p)
  BY <1>1 DEF IsChild
<1>3. /\ c \in Node /\ t[c].degree \in Nat /\ t[p].degree \in Nat
      /\ t[p].priority \in Int /\ t[c].priority \in Int
  BY <1>1, <1>2, NodeType
<1>4. c # p
  BY <1>2, <1>3
<1>5. QED
  BY <1>1, <1>2, <1>3, <1>4

\* The parent of a node that is not a root is a node, allocated.
LEMMA ParentFacts ==
  ASSUME NEW t, Binomial(t), NEW c \in Allocated(t), c \notin Kids(t, Null)
  PROVE  t[c].parent \in Allocated(t) /\ c \in Kids(t, t[c].parent) /\ t[c].parent \in Node
<1>1. t[c].parent # Null /\ t[c].parent \in Node
  <2>1. t[c].parent \in Pointer
    BY NodeType DEF Binomial
  <2>2. QED
    BY <2>1 DEF Kids, Pointer
<1>2. c \in Kids(t, t[c].parent)
  BY DEF Kids
<1>3. QED
  BY <1>1, <1>2, KidFacts

\* A node has as many children as its degree, and there are more nodes than that.
LEMMA DegreeCounts ==
  ASSUME NEW t, Binomial(t), NEW n \in Allocated(t)
  PROVE  /\ IsFiniteSet(Kids(t, n)) /\ Cardinality(Kids(t, n)) = t[n].degree
         /\ t[n].degree \in Nat /\ Cardinality(Node) \in Nat /\ t[n].degree < Cardinality(Node)
<1> DEFINE d == t[n].degree
           D == 0 .. (d - 1)
           K == Kids(t, n)
           f == [e \in D |-> CHOOSE c \in K : t[c].degree = e]
<1>1. n \in Node /\ d \in Nat /\ HasKids(t, n)
  BY NodeType DEF Binomial
<1>2. \A c \in K : c \in Node /\ c # n /\ t[c].degree \in D
  <2>1. \A c \in K : c \in Node /\ c # n /\ t[c].degree \in Nat /\ t[c].degree < d
    BY <1>1, KidFacts
  <2> HIDE DEF K, d
  <2>2. QED
    BY <1>1, <2>1
<1>3. \A e \in D : \E c \in K : t[c].degree = e
  BY <1>1 DEF HasKids
<1>4. \A a, b \in K : t[a].degree = t[b].degree => a = b
  BY <1>1 DEF Binomial, Distinct
<1> HIDE DEF K, D
<1>5. \A e \in D : f[e] \in K /\ t[f[e]].degree = e
  BY <1>3
<1>6. f \in [D -> K]
  BY <1>5
<1> HIDE DEF f
<1>7. f \in Bijection(D, K)
  <2>1. \A a, b \in D : f[a] = f[b] => a = b
    BY <1>5
  <2>2. \A c \in K : \E e \in D : f[e] = c
    BY <1>2, <1>4, <1>5
  <2>3. QED
    BY <1>6, <2>1, <2>2 DEF Bijection, Injection, Surjection, IsInjective
<1>8. IsFiniteSet(D) /\ Cardinality(D) = d
  <2>1. IsFiniteSet(0 .. (d - 1)) /\ Cardinality(0 .. (d - 1)) = IF 0 > d - 1 THEN 0 ELSE (d - 1) - 0 + 1
    <3>1. 0 \in Int /\ d - 1 \in Int
      BY <1>1
    <3> HIDE DEF d
    <3>2. QED
      BY <3>1, FS_Interval
  <2>2. (IF 0 > d - 1 THEN 0 ELSE (d - 1) - 0 + 1) = d
    BY <1>1
  <2>3. QED
    BY <2>1, <2>2 DEF D
<1>9. IsFiniteSet(K) /\ Cardinality(K) = d
  <2>1. ExistsBijection(D, K)
    BY <1>7 DEF ExistsBijection
  <2>2. QED
    BY <1>8, <2>1, FS_Bijection
<1>10. IsFiniteSet(Node) /\ Cardinality(Node) \in Nat
  BY HeapAssumption, FS_CardinalityType
<1>11. d < Cardinality(Node)
  <2>1. IsFiniteSet(Node \ {n}) /\ Cardinality(Node \ {n}) = Cardinality(Node) - 1
    BY <1>1, <1>10, FS_RemoveElement
  <2>2. K \in SUBSET (Node \ {n})
    BY <1>2
  <2>3. d <= Cardinality(Node) - 1
    BY <1>9, <2>1, <2>2, FS_Subset
  <2>4. QED
    BY <1>1, <1>10, <2>3
<1>12. QED
  BY <1>1, <1>9, <1>10, <1>11 DEF K

\* The nodes met on the way round from n's first child.
Round(t, c, nth) == nth = [i \in Nat |-> IF i = 0 THEN c ELSE t[nth[i - 1]].right]

\* Going right i times from the first child leads to the child of degree d - i, then
\* back to the first.
LEMMA RoundDegrees ==
  ASSUME NEW t, Binomial(t), NEW n \in Allocated(t), t[n].degree # 0,
         NEW nth, Round(t, t[n].child, nth)
  PROVE  /\ \A i \in Nat : nth[i] \in Kids(t, n)
         /\ \A i \in 1 .. t[n].degree : t[nth[i]].degree = t[n].degree - i
<1> DEFINE d == t[n].degree
           K == Kids(t, n)
<1>1. n \in Node /\ d \in Nat /\ t[n].child \in K /\ t[t[n].child].degree = 0
  BY NodeType DEF Binomial, HasKids
<1>2. \A c \in K : InRing(t, c, n) /\ t[c].degree \in Nat
  BY <1>1, KidFacts
<1>3. nth[0] = t[n].child /\ \A i \in Nat : nth[i + 1] = t[nth[i]].right
  <2>1. \A i \in Nat : nth[i] = IF i = 0 THEN t[n].child ELSE t[nth[i - 1]].right
    BY DEF Round
  <2>2. \A i \in Nat : i + 1 \in Nat /\ i + 1 # 0 /\ (i + 1) - 1 = i
    OBVIOUS
  <2>3. QED
    BY <2>1, <2>2
<1> DEFINE Good == {i \in Nat : /\ nth[i] \in K
                                /\ i \in 1 .. d => t[nth[i]].degree = d - i}
<1>4. 0 \in Good
  BY <1>1, <1>3
<1>5. \A i \in Nat : i \in Good => i + 1 \in Good
  <2> SUFFICES ASSUME NEW i \in Nat, nth[i] \in K, i \in 1 .. d => t[nth[i]].degree = d - i
               PROVE  /\ nth[i + 1] \in K
                      /\ i + 1 \in 1 .. d => t[nth[i + 1]].degree = d - (i + 1)
    <3> HIDE DEF d, K
    <3>1. QED
      OBVIOUS
  <2>1. nth[i + 1] = t[nth[i]].right /\ InRing(t, nth[i], n)
    BY <1>2, <1>3
  <2>2. nth[i + 1] \in K
    BY <2>1 DEF InRing
  <2>3. t[nth[i + 1]].degree = IF t[nth[i]].degree = 0 THEN d - 1 ELSE t[nth[i]].degree - 1
    BY <2>1 DEF InRing
  <2>4. CASE i = 0
    BY <1>1, <1>3, <2>2, <2>3, <2>4
  <2>5. CASE i # 0
    <3> HIDE DEF d, K
    <3>1. ASSUME i + 1 \in 1 .. d PROVE t[nth[i + 1]].degree = d - (i + 1)
      <4>1. i \in 1 .. d /\ d - i # 0 /\ (d - i) - 1 = d - (i + 1)
        BY <1>1, <2>5, <3>1
      <4>2. QED
        BY <2>3, <4>1
    <3>2. QED
      BY <2>2, <3>1
  <2>6. QED
    BY <2>4, <2>5
<1>6. \A i \in Nat : i \in Good
  <2> HIDE DEF Good
  <2>1. QED
    BY <1>4, <1>5, NatSetInduction
<1>7. QED
  BY <1>1, <1>6

\* Going right from the first child lists the children, each once.
LEMMA SiblingsAreKids ==
  ASSUME NEW t, Binomial(t), NEW n \in Allocated(t)
  PROVE  Lists(Siblings(t, t[n].child), Kids(t, n))
<1> DEFINE c == t[n].child
           d == t[n].degree
           K == Kids(t, n)
           N == Cardinality(Node)
<1>1. n \in Node /\ d \in Nat /\ HasKids(t, n) /\ N \in Nat /\ d < N /\ Null \notin Node
  BY NodeType, DegreeCounts, HeapAssumption DEF Binomial
<1>2. \A m \in K : m \in Node /\ m # Null /\ t[m].degree \in Nat /\ t[m].degree < d
  BY <1>1, KidFacts
<1>3. CASE d = 0
  <2>1. c = Null
    BY <1>1, <1>3 DEF HasKids
  <2>2. K = {}
    BY <1>2, <1>3
  <2>3. Siblings(t, c) = <<>>
    BY <2>1 DEF Siblings
  <2>4. Lists(<<>>, {})
    BY DEF Lists, IsInjective, Range
  <2>5. QED
    BY <2>2, <2>3, <2>4
<1>4. CASE d # 0
  <2> DEFINE Body(g) == [i \in Nat |-> IF i = 0 THEN c ELSE t[g[i - 1]].right]
             nth == CHOOSE g : g = Body(g)
             Back(i) == i = Cardinality(Node) \/ nth[i] = c \/ nth[i] = Null
             length == CHOOSE i \in 1 .. Cardinality(Node) :
                         Back(i) /\ \A j \in 1 .. (i - 1) : ~Back(j)
             s == [i \in 1 .. length |-> nth[i - 1]]
  <2>1. c \in K /\ t[c].degree = 0 /\ c # Null
    BY <1>1, <1>2, <1>4 DEF HasKids
  <2>2. \E g : g = Body(g)
    <3> DEFINE G == [p \in Nat \X K |-> t[p[2]].right]
    <3>1. \A m \in K : t[m].right \in K
      BY <1>1, KidFacts DEF InRing
    <3>2. G \in [Nat \X K -> K]
      BY <3>1
    <3>3. PICK g \in [Nat -> K] : Iterates(g, c, G)
      <4> HIDE DEF G, K, c
      <4>1. QED
        BY <2>1, <3>2, IterationExists
    <3>4. g = [i \in Nat |-> IF i = 0 THEN c ELSE G[<<i, g[i - 1]>>]]
      BY <3>3 DEF Iterates
    <3>5. \A i \in Nat : g[i] = IF i = 0 THEN c ELSE t[g[i - 1]].right
      <4> SUFFICES ASSUME NEW i \in Nat PROVE g[i] = IF i = 0 THEN c ELSE t[g[i - 1]].right
        OBVIOUS
      <4>1. i # 0 => i - 1 \in Nat
        OBVIOUS
      <4>2. i # 0 => g[i - 1] \in K
        BY <4>1
      <4>3. i # 0 => G[<<i, g[i - 1]>>] = t[g[i - 1]].right
        BY <4>2
      <4>4. g[i] = IF i = 0 THEN c ELSE G[<<i, g[i - 1]>>]
        BY <3>4
      <4> HIDE DEF G, K, c
      <4>5. QED
        BY <4>3, <4>4
    <3>6. g = [i \in Nat |-> g[i]]
      OBVIOUS
    <3>7. g = Body(g)
      <4> HIDE DEF K, c
      <4>1. QED
        BY <3>5, <3>6
    <3>8. QED
      BY <3>7
  <2>3. nth = Body(nth)
    <3> HIDE DEF Body
    <3>1. QED
      BY <2>2
  <2>4. Siblings(t, c) = s
    BY <2>1 DEF Siblings
  <2> HIDE DEF nth
  <2>5. Round(t, c, nth) /\ nth[0] = c
    BY <2>3 DEF Round
  <2>6. /\ \A i \in Nat : nth[i] \in K
        /\ \A i \in 1 .. d : t[nth[i]].degree = d - i
    BY <1>4, <2>5, RoundDegrees
  <2> HIDE DEF c
  <2>7. Back(d)
    <3>1. t[nth[d]].degree = 0
      <4>1. d \in 1 .. d /\ d - d = 0
        BY <1>1, <1>4
      <4> HIDE DEF d
      <4>2. QED
        BY <2>6, <4>1
    <3>2. nth[d] = c
      BY <1>1, <2>1, <2>6, <3>1 DEF Binomial, Distinct
    <3>3. QED
      BY <3>2
  <2>8. ASSUME NEW j \in 1 .. (d - 1) PROVE ~Back(j)
    <3>1. j \in 1 .. d /\ j \in Nat /\ j # N /\ d - j # 0
      BY <1>1, <2>8
    <3> HIDE DEF d, K
    <3>2. nth[j] # Null /\ nth[j] # c
      BY <1>2, <2>1, <2>6, <3>1
    <3>3. QED
      BY <3>1, <3>2
  <2>9. length = d
    <3> DEFINE First(i) == Back(i) /\ \A j \in 1 .. (i - 1) : ~Back(j)
    <3>1. d \in 1 .. N /\ First(d)
      BY <1>1, <1>4, <2>7, <2>8
    <3>2. \A i \in 1 .. N : First(i) => i = d
      <4> SUFFICES ASSUME NEW i \in 1 .. N, First(i), i # d PROVE FALSE
        OBVIOUS
      <4>1. CASE i < d
        <5>1. i \in 1 .. (d - 1)
          BY <1>1, <4>1
        <5> HIDE DEF d, Back
        <5>2. QED
          BY <3>1, <5>1
      <4>2. CASE i > d
        <5>1. d \in 1 .. (i - 1)
          BY <1>1, <1>4, <4>2
        <5> HIDE DEF d, Back
        <5>2. QED
          BY <3>1, <5>1
      <4>3. QED
        BY <1>1, <4>1, <4>2
    <3>3. length = CHOOSE i \in 1 .. N : First(i)
      OBVIOUS
    <3> HIDE DEF First, length, d, N
    <3>4. QED
      BY <3>1, <3>2, <3>3
  <2>10. s = [i \in 1 .. d |-> nth[i - 1]]
    <3> HIDE DEF length
    <3>1. QED
      BY <2>9
  <2> HIDE DEF length, Back
  <2>11. \A i \in 1 .. d : /\ i - 1 \in Nat /\ s[i] \in K
                           /\ t[s[i]].degree = IF i = 1 THEN 0 ELSE d - (i - 1)
    <3> SUFFICES ASSUME NEW i \in 1 .. d
                 PROVE  /\ i - 1 \in Nat /\ s[i] \in K
                        /\ t[s[i]].degree = IF i = 1 THEN 0 ELSE d - (i - 1)
      OBVIOUS
    <3>1. i - 1 \in Nat /\ (i = 1 => i - 1 = 0) /\ (i # 1 => i - 1 \in 1 .. d)
      BY <1>1
    <3>2. s[i] = nth[i - 1]
      BY <2>10
    <3> HIDE DEF s, d, K
    <3>3. QED
      BY <2>1, <2>5, <2>6, <3>1, <3>2
  <2>12. s \in Seq(Node) /\ DOMAIN s = 1 .. d
    <3>1. \A i \in 1 .. d : s[i] \in Node
      BY <1>2, <2>11
    <3>2. s = [i \in 1 .. d |-> s[i]]
      BY <2>10
    <3> HIDE DEF s, d
    <3>3. s \in [1 .. d -> Node]
      BY <3>1, <3>2
    <3>4. QED
      BY <1>1, <3>3
  <2> HIDE DEF s
  <2>13. IsInjective(s)
    <3> SUFFICES ASSUME NEW i \in 1 .. d, NEW j \in 1 .. d, s[i] = s[j] PROVE i = j
      BY <2>12 DEF IsInjective
    <3>1. (IF i = 1 THEN 0 ELSE d - (i - 1)) = (IF j = 1 THEN 0 ELSE d - (j - 1))
      BY <2>11
    <3> HIDE DEF d
    <3>2. QED
      BY <1>1, <3>1
  <2>14. ASSUME NEW m \in K PROVE \E i \in 1 .. d : s[i] = m
    <3> DEFINE e == t[m].degree
    <3>1. e \in Nat /\ e < d
      BY <1>2
    <3>2. PICK i \in 1 .. d : e = IF i = 1 THEN 0 ELSE d - (i - 1)
      <4>1. CASE e = 0
        <5>1. 1 \in 1 .. d
          BY <1>1, <1>4
        <5>2. QED
          BY <4>1, <5>1
      <4>2. CASE e # 0
        <5> DEFINE i == d - e + 1
        <5> HIDE DEF d, e
        <5>1. i \in 1 .. d /\ i # 1 /\ e = d - (i - 1)
          BY <1>1, <3>1, <4>2
        <5>2. QED
          BY <5>1
      <4>3. QED
        BY <4>1, <4>2
    <3>3. t[s[i]].degree = e /\ s[i] \in K
      BY <2>11, <3>2
    <3>4. s[i] = m
      BY <1>1, <3>3 DEF Binomial, Distinct
    <3>5. QED
      BY <3>4
  <2>15. Range(s) = K
    <3> HIDE DEF K, d
    <3>1. QED
      BY <2>11, <2>12, <2>14 DEF Range
  <2>16. QED
    BY <2>4, <2>12, <2>13, <2>15 DEF Lists, c
<1>5. QED
  BY <1>3, <1>4

\* Every set of nodes has one whose parent is outside.
LEMMA TopOf ==
  ASSUME NEW t, Binomial(t), NEW W, W \subseteq Allocated(t), W # {}
  PROVE  \E m \in W : t[m].parent \notin W
<1> DEFINE N == Cardinality(Node)
           S == {t[m].degree : m \in W}
<1>1. N \in Nat /\ \A m \in W : m \in Allocated(t) /\ m \in Node /\ t[m].degree \in 0 .. N
  <2>1. \A m \in W : m \in Allocated(t) /\ m \in Node
    BY DEF Allocated
  <2>2. \A m \in W : t[m].degree \in Nat /\ N \in Nat /\ t[m].degree < N
    BY DegreeCounts
  <2>3. N \in Nat
    BY <2>2
  <2>4. QED
    BY <2>1, <2>2, <2>3
<1>2. PICK e \in S : \A f \in S : f <= e
  <2>1. S # {} /\ S \in SUBSET (0 .. N)
    BY <1>1
  <2> HIDE DEF S, N
  <2>2. QED
    BY <1>1, <2>1, GreatestElement
<1>3. PICK m \in W : t[m].degree = e
  OBVIOUS
<1>4. \A k \in W : t[k].degree <= t[m].degree
  BY <1>2, <1>3
<1>5. ASSUME t[m].parent \in W PROVE FALSE
  <2> DEFINE p == t[m].parent
  <2>1. p \in Node /\ m \in Kids(t, p)
    BY <1>1, <1>5 DEF Kids
  <2>2. t[m].degree < t[p].degree /\ t[p].degree \in Nat /\ t[m].degree \in Nat
    BY <2>1, KidFacts
  <2>3. t[p].degree <= t[m].degree
    BY <1>4, <1>5
  <2> HIDE DEF p
  <2>4. QED
    BY <2>2, <2>3
<1>6. QED
  BY <1>5

\* W holds the nodes ns and those below them.
IsBelow(t, ns, W) ==
  /\ ns \subseteq W /\ W \subseteq Allocated(t)
  /\ \A n \in W : Kids(t, n) \subseteq W
  /\ \A m \in W : m \in ns \/ t[m].parent \in W

LEMMA BelowUnique ==
  ASSUME NEW t, Binomial(t), NEW ns, NEW V, IsBelow(t, ns, V), NEW W, IsBelow(t, ns, W)
  PROVE  V \subseteq W
<1> SUFFICES ASSUME V \ W # {} PROVE FALSE
  OBVIOUS
<1>1. V \ W \subseteq Allocated(t)
  BY DEF IsBelow
<1>2. PICK m \in V \ W : t[m].parent \notin V \ W
  BY <1>1, TopOf
<1>3. m \notin ns /\ m \in Allocated(t)
  BY <1>1 DEF IsBelow
<1>4. t[m].parent \in W
  BY <1>2, <1>3 DEF IsBelow
<1>5. m \in Kids(t, t[m].parent)
  BY <1>3 DEF Kids
<1>6. QED
  BY <1>4, <1>5 DEF IsBelow

LEMMA ChildrenAreKids ==
  ASSUME NEW t, Binomial(t), NEW n \in Allocated(t)
  PROVE  Children(t, n) = Kids(t, n)
BY SiblingsAreKids DEF Children, Lists

LEMMA BelowIsBelow ==
  ASSUME NEW t, Binomial(t), NEW ns, ns \subseteq Allocated(t)
  PROVE  IsBelow(t, ns, Below(t, ns))
<1> DEFINE A == Allocated(t)
           N == Cardinality(Node)
           K(V) == UNION {Children(t, n) : n \in V}
           Body(g) == [i \in 0 .. Cardinality(Node) |->
                         IF i = 0 THEN ns
                         ELSE g[i - 1] \cup UNION {Children(t, n) : n \in g[i - 1]}]
           level == CHOOSE g : g = Body(g)
<1>1. N \in Nat /\ A \subseteq Node
  BY HeapAssumption, FS_CardinalityType DEF Allocated
<1>2. \A n \in A : Children(t, n) = Kids(t, n) /\ Kids(t, n) \subseteq A
  BY ChildrenAreKids DEF Kids
<1>3. \A V \in SUBSET A : K(V) = UNION {Kids(t, n) : n \in V} /\ K(V) \subseteq A
  BY <1>2
<1>4. \E g : g = Body(g)
  <2> DEFINE G == [p \in (0 .. N) \X SUBSET A |-> p[2] \cup K(p[2])]
  <2>1. G \in [(0 .. N) \X SUBSET A -> SUBSET A]
    <3> HIDE DEF A, N, K
    <3>1. QED
      BY <1>3
  <2>2. ns \in SUBSET A /\ 0 \in Nat
    OBVIOUS
  <2>3. PICK g \in [0 .. N -> SUBSET A] : IteratesOn(g, 0, N, ns, G)
    <3> HIDE DEF G, N, A
    <3>1. QED
      BY <1>1, <2>1, <2>2, RangeIterationExists
  <2>4. \A i \in 0 .. N : g[i] = IF i = 0 THEN ns ELSE g[i - 1] \cup K(g[i - 1])
    <3> SUFFICES ASSUME NEW i \in 0 .. N
                 PROVE  g[i] = IF i = 0 THEN ns ELSE g[i - 1] \cup K(g[i - 1])
      OBVIOUS
    <3>1. i # 0 => i - 1 \in 0 .. N
      BY <1>1
    <3>2. i # 0 => g[i - 1] \in SUBSET A
      BY <3>1
    <3> HIDE DEF A, K, N
    <3>3. i # 0 => G[<<i, g[i - 1]>>] = g[i - 1] \cup K(g[i - 1])
      BY <3>2
    <3>4. g[i] = IF i = 0 THEN ns ELSE G[<<i, g[i - 1]>>]
      BY <2>3 DEF IteratesOn
    <3> HIDE DEF G
    <3>5. QED
      BY <3>3, <3>4
  <2>5. g = [i \in 0 .. N |-> g[i]]
    OBVIOUS
  <2>6. g = Body(g)
    BY <2>4, <2>5
  <2>7. QED
    BY <2>6
<1>5. level = Body(level)
  <2> HIDE DEF Body
  <2>1. QED
    BY <1>4
<1>6. Below(t, ns) = level[N]
  BY DEF Below
<1> HIDE DEF level
<1>7. level[0] = ns /\ \A i \in 1 .. N : level[i] = level[i - 1] \cup K(level[i - 1])
  <2>1. \A i \in 0 .. N : level[i] = IF i = 0 THEN ns ELSE level[i - 1] \cup K(level[i - 1])
    BY <1>5
  <2> HIDE DEF N, K
  <2>2. 0 \in 0 .. N /\ \A i \in 1 .. N : i \in 0 .. N /\ i # 0
    BY <1>1
  <2>3. QED
    BY <2>1, <2>2
\* A node of degree at least N - i is in level i only with its children.
<1> DEFINE Holds(i) == /\ ns \subseteq level[i] /\ level[i] \subseteq A
                       /\ \A n \in level[i] : Kids(t, n) \subseteq level[i] \/ t[n].degree + i < N
                       /\ \A m \in level[i] : m \in ns \/ t[m].parent \in level[i]
           Good == {i \in Nat : i <= N => Holds(i)}
<1>8. 0 \in Good
  <2>1. \A n \in A : t[n].degree \in Nat /\ t[n].degree < N
    BY DegreeCounts
  <2>2. \A n \in A : t[n].degree + 0 < N
    <3> HIDE DEF A, N
    <3>1. QED
      BY <1>1, <2>1
  <2>3. ns \subseteq A
    OBVIOUS
  <2>4. Holds(0)
    <3> HIDE DEF A, N
    <3>1. QED
      BY <1>7, <2>2, <2>3
  <2> HIDE DEF Holds
  <2>5. QED
    BY <2>4
<1>9. \A i \in Nat : i \in Good => i + 1 \in Good
  <2> SUFFICES ASSUME NEW i \in Nat, i \in Good, i + 1 <= N PROVE Holds(i + 1)
    <3> HIDE DEF Holds, N
    <3>1. QED
      OBVIOUS
  <2>1. Holds(i) /\ i + 1 \in 1 .. N /\ (i + 1) - 1 = i
    <3> HIDE DEF Holds
    <3>1. QED
      BY <1>1
  <2> DEFINE V == level[i]
             W == level[i + 1]
  <2>2. W = V \cup K(V)
    <3> HIDE DEF K, N
    <3>1. QED
      BY <1>7, <2>1
  <2>3. V \subseteq A /\ ns \subseteq V /\ (\A m \in V : m \in ns \/ t[m].parent \in V)
        /\ \A n \in V : Kids(t, n) \subseteq V \/ t[n].degree + i < N
    BY <2>1
  <2>4. W \subseteq A /\ V \subseteq W /\ \A m : m \in W <=> m \in V \/ \E n \in V : m \in Kids(t, n)
    <3> HIDE DEF V, W, K, A
    <3>1. K(V) = UNION {Kids(t, n) : n \in V} /\ K(V) \subseteq A
      BY <1>3, <2>3
    <3>2. QED
      BY <2>2, <2>3, <3>1
  <2>5. \A n \in A : n \in Node /\ t[n].degree \in Nat
    BY <1>1, DegreeCounts
  <2> HIDE DEF V, W, K, A, N
  <2>6. ASSUME NEW n \in W PROVE Kids(t, n) \subseteq W \/ t[n].degree + (i + 1) < N
    <3>1. CASE n \in V
      BY <2>4, <3>1
    <3>2. CASE n \notin V
      <4>1. PICK p \in V : n \in Kids(t, p)
        BY <2>4, <3>2
      <4>2. t[p].degree + i < N
        BY <2>3, <3>2, <4>1
      <4>3. t[n].degree < t[p].degree
        BY <2>3, <2>5, <4>1, KidFacts
      <4>4. t[n].degree \in Nat /\ t[p].degree \in Nat
        BY <2>3, <2>4, <2>5
      <4>5. QED
        BY <1>1, <4>2, <4>3, <4>4
    <3>3. QED
      BY <3>1, <3>2
  <2>7. ASSUME NEW m \in W PROVE m \in ns \/ t[m].parent \in W
    BY <2>3, <2>4 DEF Kids
  <2>8. QED
    BY <2>3, <2>4, <2>6, <2>7 DEF V, W
<1>10. Holds(N)
  <2>1. Nat \subseteq Good
    <3> HIDE DEF Good
    <3>1. QED
      BY <1>8, <1>9, NatSetInduction
  <2>2. N \in Good
    BY <1>1, <2>1
  <2> HIDE DEF Holds, N
  <2>3. QED
    BY <1>1, <2>2
<1>11. \A n \in level[N] : ~(t[n].degree + N < N)
  <2>1. \A n \in level[N] : t[n].degree \in Nat
    BY <1>10, DegreeCounts
  <2> HIDE DEF N
  <2>2. QED
    BY <1>1, <2>1
<1> HIDE DEF N
<1>12. QED
  BY <1>6, <1>10, <1>11 DEF IsBelow

LEMMA BelowIs ==
  ASSUME NEW t, Binomial(t), NEW ns, NEW W, IsBelow(t, ns, W)
  PROVE  Below(t, ns) = W
<1>1. ns \subseteq Allocated(t)
  BY DEF IsBelow
<1>2. IsBelow(t, ns, Below(t, ns))
  BY <1>1, BelowIsBelow
<1>3. QED
  BY <1>2, BelowUnique

\* Everything is below the roots.
LEMMA AllBelowRoots ==
  ASSUME NEW t, Binomial(t)
  PROVE  Below(t, Kids(t, Null)) = Allocated(t)
<1>1. \A m \in Allocated(t) : m \in Kids(t, Null) \/ t[m].parent \in Allocated(t)
  BY ParentFacts
<1>2. \A n \in Allocated(t) : Kids(t, n) \subseteq Allocated(t)
  BY DEF Kids
<1>3. Kids(t, Null) \subseteq Allocated(t)
  BY DEF Kids
<1>4. IsBelow(t, Kids(t, Null), Allocated(t))
  BY <1>1, <1>2, <1>3 DEF IsBelow
<1>5. QED
  BY <1>4, BelowIs

\* W is n and what is below n's children of degree less than e.
IsPart(t, n, e, W) ==
  /\ n \in W /\ W \subseteq Allocated(t)
  /\ \A c \in Kids(t, n) : t[c].degree < e => c \in W
  /\ \A m \in W : m # n =>
       /\ t[m].degree < e /\ Kids(t, m) \subseteq W
       /\ t[m].parent = n \/ (t[m].parent \in W /\ t[m].parent # n)

\* The tree of the child k of degree e joins what is below the children before it.
LEMMA PartGrows ==
  ASSUME NEW t, Binomial(t), NEW e \in Nat, NEW n \in Allocated(t), e < t[n].degree,
         NEW k \in Kids(t, n), t[k].degree = e,
         NEW V, IsPart(t, n, e, V), NEW W, IsPart(t, k, e, W)
  PROVE  V \cap W = {} /\ IsPart(t, n, e + 1, V \cup W)
<1>1. n \in Node /\ k \in Node /\ k # n /\ k \in Allocated(t) /\ t[k].parent = n
      /\ t[n].degree \in Nat
  <2>1. n \in Node
    BY DEF Allocated
  <2>2. QED
    BY <2>1, KidFacts
<1>2. /\ n \in V /\ V \subseteq Allocated(t)
      /\ \A c \in Kids(t, n) : t[c].degree < e => c \in V
      /\ \A m \in V : m # n =>
           /\ t[m].degree < e /\ Kids(t, m) \subseteq V
           /\ t[m].parent = n \/ (t[m].parent \in V /\ t[m].parent # n)
  BY DEF IsPart
<1>3. /\ k \in W /\ W \subseteq Allocated(t)
      /\ \A c \in Kids(t, k) : t[c].degree < e => c \in W
      /\ \A m \in W : m # k =>
           /\ t[m].degree < e /\ Kids(t, m) \subseteq W
           /\ t[m].parent = k \/ (t[m].parent \in W /\ t[m].parent # k)
  BY DEF IsPart
<1>4. \A m \in Allocated(t) : t[m].degree \in Nat
  BY DegreeCounts
<1>5. n \notin W /\ k \notin V
  <2>1. n \notin W
    BY <1>1, <1>3
  <2>2. k \notin V
    BY <1>1, <1>2
  <2>3. QED
    BY <2>1, <2>2
<1>6. V \cap W = {}
  <2> SUFFICES ASSUME V \cap W # {} PROVE FALSE
    OBVIOUS
  <2>1. V \cap W \subseteq Allocated(t)
    BY <1>2
  <2>2. PICK m \in V \cap W : t[m].parent \notin V \cap W
    BY <2>1, TopOf
  <2>3. m # n /\ m # k
    BY <1>5
  <2>4. t[m].parent \in W
    BY <1>3, <2>3
  <2>5. t[m].parent \in V
    BY <1>2, <2>3
  <2>6. QED
    BY <2>2, <2>4, <2>5
<1>7. Kids(t, k) \subseteq W
  <2>1. \A c \in Kids(t, k) : t[c].degree < e
    BY <1>1, KidFacts
  <2>2. QED
    BY <1>3, <2>1
<1>8. ASSUME NEW c \in Kids(t, n), t[c].degree < e + 1 PROVE c \in V \cup W
  <2>1. c \in Allocated(t) /\ t[c].degree \in Nat
    BY <1>1, KidFacts
  <2>2. CASE t[c].degree < e
    BY <1>2, <2>2
  <2>3. CASE t[c].degree = e
    <3>1. c = k
      BY <1>1, <2>3 DEF Binomial, Distinct
    <3>2. QED
      BY <1>3, <3>1
  <2>4. QED
    BY <1>8, <2>1, <2>2, <2>3
<1>9. ASSUME NEW m \in V \cup W, m # n
      PROVE  /\ t[m].degree < e + 1 /\ Kids(t, m) \subseteq V \cup W
             /\ t[m].parent = n \/ (t[m].parent \in V \cup W /\ t[m].parent # n)
  <2>1. t[m].degree \in Nat
    BY <1>2, <1>3, <1>4
  <2>2. CASE m \in V
    <3>1. t[m].degree < e
      BY <1>2, <1>9, <2>2
    <3>2. t[m].degree < e + 1
      BY <2>1, <3>1
    <3>3. QED
      BY <1>2, <1>9, <2>2, <3>2
  <2>3. CASE m = k
    <3>1. t[m].degree < e + 1
      BY <2>3
    <3>2. QED
      BY <1>1, <1>7, <2>3, <3>1
  <2>4. CASE m \in W /\ m # k
    <3>1. t[m].degree < e
      BY <1>3, <2>4
    <3>2. t[m].degree < e + 1
      BY <2>1, <3>1
    <3>3. t[m].parent \in W
      BY <1>3, <2>4
    <3>4. QED
      BY <1>3, <1>5, <2>4, <3>2, <3>3
  <2>5. QED
    BY <2>2, <2>3, <2>4
<1>10. IsPart(t, n, e + 1, V \cup W)
  <2>1. V \cup W \subseteq Allocated(t) /\ n \in V \cup W
    BY <1>2, <1>3
  <2>2. QED
    BY <1>8, <1>9, <2>1 DEF IsPart
<1>11. QED
  BY <1>6, <1>10

LEMMA PartSize ==
  ASSUME NEW t, Binomial(t)
  PROVE  \A e \in Nat : \A n \in Allocated(t) : e <= t[n].degree =>
           \E W : IsPart(t, n, e, W) /\ Cardinality(W) = 2 ^ e
<1> DEFINE Sized(n, e) == \E W : IsPart(t, n, e, W) /\ Cardinality(W) = 2 ^ e
           Good == {e \in Nat : \A n \in Allocated(t) : e <= t[n].degree => Sized(n, e)}
<1>1. IsFiniteSet(Allocated(t)) /\ \A n \in Allocated(t) : n \in Node /\ t[n].degree \in Nat
  <2>1. Allocated(t) \in SUBSET Node
    BY DEF Allocated
  <2>2. IsFiniteSet(Allocated(t))
    BY <2>1, HeapAssumption, FS_Subset
  <2>3. QED
    BY <2>1, <2>2, DegreeCounts
<1>2. 0 \in Good
  <2> SUFFICES ASSUME NEW n \in Allocated(t) PROVE Sized(n, 0)
    <3> HIDE DEF Sized
    <3>1. QED
      OBVIOUS
  <2>1. \A c \in Kids(t, n) : ~(t[c].degree < 0)
    BY <1>1, KidFacts
  <2>2. IsPart(t, n, 0, {n})
    BY <2>1 DEF IsPart
  <2>3. Cardinality({n}) = 1
    BY FS_Singleton
  <2>4. QED
    BY <2>2, <2>3, PowerZero
<1>3. \A e \in Nat : e \in Good => e + 1 \in Good
  <2> SUFFICES ASSUME NEW e \in Nat, e \in Good, NEW n \in Allocated(t), e + 1 <= t[n].degree
               PROVE  Sized(n, e + 1)
    <3> HIDE DEF Sized
    <3>1. QED
      OBVIOUS
  <2>1. n \in Node /\ t[n].degree \in Nat /\ e < t[n].degree /\ e <= t[n].degree
    BY <1>1
  <2>2. PICK k \in Kids(t, n) : t[k].degree = e
    <3>1. HasKids(t, n) /\ e \in 0 .. (t[n].degree - 1)
      BY <2>1 DEF Binomial
    <3>2. QED
      BY <3>1 DEF HasKids
  <2>3. k \in Allocated(t) /\ e <= t[k].degree
    BY <2>2 DEF Kids
  <2>4. PICK V : IsPart(t, n, e, V) /\ Cardinality(V) = 2 ^ e
    BY <2>1
  <2>5. PICK W : IsPart(t, k, e, W) /\ Cardinality(W) = 2 ^ e
    BY <2>3
  <2>6. V \cap W = {} /\ IsPart(t, n, e + 1, V \cup W)
    BY ZenonT(30), <2>1, <2>2, <2>4, <2>5, PartGrows
  <2>7. IsFiniteSet(V) /\ IsFiniteSet(W)
    <3>1. V \in SUBSET Allocated(t) /\ W \in SUBSET Allocated(t)
      BY <2>4, <2>5 DEF IsPart
    <3>2. QED
      BY <1>1, <3>1, FS_Subset
  <2>8. Cardinality(V \cup W) = Cardinality(V) + Cardinality(W)
    <3>1. Cardinality(V \cup W) = Cardinality(V) + Cardinality(W) - Cardinality(V \cap W)
      BY <2>7, FS_Union
    <3>2. Cardinality(V \cap W) = 0
      BY <2>6, FS_EmptySet
    <3>3. Cardinality(V) \in Nat /\ Cardinality(W) \in Nat
      BY <2>7, FS_CardinalityType
    <3>4. QED
      BY <3>1, <3>2, <3>3
  <2>9. Cardinality(V \cup W) = 2 ^ (e + 1)
    <3>1. 2 ^ (e + 1) = 2 * 2 ^ e /\ 2 ^ e \in Nat
      BY PowerNext, PowerType
    <3>2. QED
      BY <2>4, <2>5, <2>8, <3>1
  <2>10. QED
    BY <2>6, <2>9
<1>4. Nat \subseteq Good
  <2> HIDE DEF Good
  <2>1. QED
    BY <1>2, <1>3, NatSetInduction
<1>5. QED
  BY <1>4

\* A tree of degree d has 2^d elements, and there is room for its degree.
LEMMA TreeSize ==
  ASSUME NEW t, Binomial(t), NEW n \in Allocated(t)
  PROVE  Cardinality(Below(t, {n})) = 2 ^ t[n].degree
<1>1. n \in Node /\ t[n].degree \in Nat
  BY DegreeCounts DEF Allocated
<1>2. PICK W : IsPart(t, n, t[n].degree, W) /\ Cardinality(W) = 2 ^ t[n].degree
  BY <1>1, PartSize
<1>3. IsBelow(t, {n}, W)
  <2>1. Kids(t, n) \subseteq W
    BY <1>1, <1>2, KidFacts DEF IsPart
  <2>2. QED
    BY <1>2, <2>1 DEF IsBelow, IsPart
<1>4. QED
  BY <1>2, <1>3, BelowIs

LEMMA DegreesAreLogarithms ==
  ASSUME NEW t, Binomial(t), Allocated(t) # {}
  PROVE  /\ Cardinality(Allocated(t)) \in Nat \ {0}
         /\ AtMost(t, Log2(Cardinality(Allocated(t))))
<1> DEFINE A == Allocated(t)
           N == Cardinality(A)
           L == Log2(N)
<1>1. IsFiniteSet(A) /\ N \in Nat \ {0}
  <2>1. A \in SUBSET Node
    BY DEF Allocated
  <2>2. IsFiniteSet(A)
    BY <2>1, HeapAssumption, FS_Subset
  <2>3. QED
    BY <2>2, FS_EmptySet, FS_CardinalityType
<1>2. L \in Nat /\ N < 2 ^ (L + 1)
  BY <1>1, Log2Bounds
<1>3. ASSUME NEW u, Keeps(t, u), NEW m \in Kids(u, Null)
      PROVE  u[m].degree <= L
  <2>1. Binomial(u) /\ Allocated(u) = A /\ m \in Allocated(u)
    BY <1>3 DEF Keeps, Kids
  <2> DEFINE d == u[m].degree
  <2>2. d \in Nat
    BY <2>1, DegreeCounts
  <2>3. 2 ^ d <= N
    <3>1. Cardinality(Below(u, {m})) = 2 ^ d
      BY <2>1, TreeSize
    <3>2. Below(u, {m}) \in SUBSET A
      <4>1. {m} \subseteq Allocated(u)
        BY <2>1
      <4>2. QED
        BY <2>1, <4>1, BelowIsBelow DEF IsBelow
    <3>3. Cardinality(Below(u, {m})) <= N
      BY <1>1, <3>2, FS_Subset
    <3>4. QED
      BY <3>1, <3>3
  <2> HIDE DEF d, N, L
  <2>4. ASSUME ~(d <= L) PROVE FALSE
    <3>1. L + 1 <= d /\ L + 1 \in Nat
      BY <1>2, <2>2, <2>4
    <3>2. 2 ^ (L + 1) <= 2 ^ d /\ 2 ^ (L + 1) \in Nat /\ 2 ^ d \in Nat
      BY <2>2, <3>1, PowerMonotone, PowerType
    <3>3. QED
      BY <1>1, <1>2, <2>3, <3>2
  <2>5. QED
    BY <2>4 DEF d
<1>4. QED
  BY <1>1, <1>3 DEF AtMost

\* Some root is no greater than a given node.
LEMMA RootsAreLeast ==
  ASSUME NEW t, Binomial(t), NEW n \in Allocated(t)
  PROVE  \E r \in Kids(t, Null) : t[r].priority <= t[n].priority
<1> DEFINE Led(m) == \E r \in Kids(t, Null) : t[r].priority <= t[m].priority
           W == {m \in Allocated(t) : ~Led(m)}
<1>1. \A m \in Allocated(t) : t[m].priority \in Int
  BY NodeType DEF Binomial
<1>2. ASSUME W # {} PROVE FALSE
  <2>1. PICK m \in W : t[m].parent \notin W
    <3>1. W \subseteq Allocated(t)
      OBVIOUS
    <3> HIDE DEF W
    <3>2. QED
      BY <1>2, <3>1, TopOf
  <2>2. m \notin Kids(t, Null)
    BY <1>1
  <2> DEFINE p == t[m].parent
  <2>3. p \in Allocated(t) /\ m \in Kids(t, p) /\ p \in Node
    BY <2>2, ParentFacts
  <2>4. t[p].priority <= t[m].priority
    BY <2>3, KidFacts
  <2>5. Led(p)
    BY <2>1, <2>3
  <2>6. PICK r \in Kids(t, Null) : t[r].priority <= t[p].priority
    BY <2>5
  <2>7. r \in Allocated(t)
    BY DEF Kids
  <2> HIDE DEF p
  <2>8. t[r].priority <= t[m].priority
    BY <1>1, <2>3, <2>4, <2>6, <2>7
  <2>9. QED
    BY <2>8
<1>3. QED
  BY <1>2

-----------------------------------------------------------------------------
(* insert and deleteMin *)

LEMMA ListFacts ==
  ASSUME NEW rs, NEW S, Lists(rs, S)
  PROVE  /\ rs \in Seq(Node) /\ Len(rs) \in Nat /\ DOMAIN rs = 1 .. Len(rs)
         /\ \A i \in 1 .. Len(rs) : rs[i] \in S /\ rs[i] \in Node
         /\ \A n \in S : \E i \in 1 .. Len(rs) : rs[i] = n
         /\ \A i, j \in 1 .. Len(rs) : rs[i] = rs[j] => i = j
<1>1. rs \in Seq(Node) /\ Len(rs) \in Nat /\ DOMAIN rs = 1 .. Len(rs)
  BY DEF Lists
<1>2. \A i \in 1 .. Len(rs) : rs[i] \in Node
  BY <1>1
<1>3. QED
  BY <1>1, <1>2 DEF Lists, IsInjective, Range

LEMMA ListsOf ==
  ASSUME NEW rs \in Seq(Node), NEW S,
         \A i \in 1 .. Len(rs) : rs[i] \in S,
         \A n \in S : \E i \in 1 .. Len(rs) : rs[i] = n,
         \A i, j \in 1 .. Len(rs) : rs[i] = rs[j] => i = j
  PROVE  Lists(rs, S)
<1>1. DOMAIN rs = 1 .. Len(rs)
  OBVIOUS
<1>2. QED
  BY <1>1 DEF Lists, IsInjective, Range

LEMMA ListsConcat ==
  ASSUME NEW a, NEW S, Lists(a, S), NEW b, NEW T, Lists(b, T), S \cap T = {}
  PROVE  Lists(a \o b, S \cup T)
<1> DEFINE k == Len(a)
           n == Len(b)
           q == a \o b
<1>1. /\ a \in Seq(Node) /\ k \in Nat
      /\ \A i \in 1 .. k : a[i] \in S
      /\ \A x \in S : \E i \in 1 .. k : a[i] = x
      /\ \A i, j \in 1 .. k : a[i] = a[j] => i = j
  BY ListFacts
<1>2. /\ b \in Seq(Node) /\ n \in Nat
      /\ \A i \in 1 .. n : b[i] \in T
      /\ \A x \in T : \E i \in 1 .. n : b[i] = x
      /\ \A i, j \in 1 .. n : b[i] = b[j] => i = j
  BY ListFacts
<1>3. q \in Seq(Node) /\ Len(q) = k + n
      /\ \A i \in 1 .. (k + n) : q[i] = IF i <= k THEN a[i] ELSE b[i - k]
  BY <1>1, <1>2, ConcatProperties
<1> HIDE DEF q, k, n
<1>4. \A i \in 1 .. (k + n) : IF i <= k THEN i \in 1 .. k ELSE i - k \in 1 .. n
  BY <1>1, <1>2
<1>5. \A i \in 1 .. (k + n) : q[i] \in IF i <= k THEN S ELSE T
  BY <1>1, <1>2, <1>3, <1>4
<1>6. \A x \in S \cup T : \E i \in 1 .. (k + n) : q[i] = x
  <2> SUFFICES ASSUME NEW x \in S \cup T PROVE \E i \in 1 .. (k + n) : q[i] = x
    OBVIOUS
  <2>1. CASE x \in S
    <3>1. PICK i \in 1 .. k : a[i] = x
      BY <1>1, <2>1
    <3>2. i \in 1 .. (k + n) /\ i <= k
      BY <1>1, <1>2
    <3>3. q[i] = x
      BY <1>3, <3>1, <3>2
    <3>4. QED
      BY <3>2, <3>3
  <2>2. CASE x \in T
    <3>1. PICK i \in 1 .. n : b[i] = x
      BY <1>2, <2>2
    <3>2. k + i \in 1 .. (k + n) /\ ~(k + i <= k) /\ (k + i) - k = i
      BY <1>1, <1>2
    <3>3. q[k + i] = x
      BY <1>3, <3>1, <3>2
    <3>4. QED
      BY <3>2, <3>3
  <2>3. QED
    BY <2>1, <2>2
<1>7. \A i, j \in 1 .. (k + n) : q[i] = q[j] => i = j
  <2> SUFFICES ASSUME NEW i \in 1 .. (k + n), NEW j \in 1 .. (k + n), q[i] = q[j] PROVE i = j
    OBVIOUS
  <2>1. CASE i <= k /\ j <= k
    BY <1>1, <1>3, <1>4, <2>1
  <2>2. CASE ~(i <= k) /\ ~(j <= k)
    <3>1. i - k = j - k
      BY <1>2, <1>3, <1>4, <2>2
    <3>2. QED
      BY <1>1, <1>2, <3>1
  <2>3. QED
    BY <1>5, <2>1, <2>2
<1>8. \A i \in 1 .. Len(q) : q[i] \in S \cup T
  BY <1>3, <1>5
<1>9. Lists(q, S \cup T)
  BY <1>3, <1>6, <1>7, <1>8, ListsOf
<1>10. QED
  BY <1>9 DEF q

\* unorderedRemove takes one element out, and moves the last to its place.
LEMMA ListsRemove ==
  ASSUME NEW rs, NEW S, Lists(rs, S), NEW n \in S
  PROVE  Lists(UnorderedRemove(rs, n), S \ {n})
<1> DEFINE k == Len(rs)
           at == CHOOSE i \in DOMAIN rs : rs[i] = n
           q == [j \in 1 .. (k - 1) |-> IF j = at THEN rs[k] ELSE rs[j]]
<1>1. /\ rs \in Seq(Node) /\ k \in Nat /\ DOMAIN rs = 1 .. k
      /\ \A i \in 1 .. k : rs[i] \in S /\ rs[i] \in Node
      /\ \A x \in S : \E i \in 1 .. k : rs[i] = x
      /\ \A i, j \in 1 .. k : rs[i] = rs[j] => i = j
  BY ListFacts
<1>2. at \in 1 .. k /\ rs[at] = n
  BY <1>1
<1>3. UnorderedRemove(rs, n) = q
  BY DEF UnorderedRemove
<1> HIDE DEF at
<1>4. k - 1 \in Nat /\ k \in 1 .. k /\ \A j \in 1 .. (k - 1) : j \in 1 .. k /\ j # k
  <2>1. k \in Nat /\ at \in 1 .. k
    BY <1>1, <1>2
  <2> HIDE DEF k
  <2>2. QED
    BY ONLY <2>1
<1>5. \A j \in 1 .. (k - 1) : q[j] = IF j = at THEN rs[k] ELSE rs[j]
  OBVIOUS
<1>6. q \in Seq(Node) /\ Len(q) = k - 1
  <2>1. \A j \in 1 .. (k - 1) : (IF j = at THEN rs[k] ELSE rs[j]) \in Node
    BY <1>1, <1>4
  <2> HIDE DEF k
  <2>2. q \in [1 .. (k - 1) -> Node]
    BY <2>1
  <2>3. QED
    BY <1>4, <2>2
<1> HIDE DEF q, k
<1>7. \A j \in 1 .. (k - 1) : q[j] \in S \ {n}
  BY <1>1, <1>2, <1>4, <1>5
<1>8. \A x \in S \ {n} : \E j \in 1 .. (k - 1) : q[j] = x
  <2> SUFFICES ASSUME NEW x \in S \ {n} PROVE \E j \in 1 .. (k - 1) : q[j] = x
    OBVIOUS
  <2>1. PICK i \in 1 .. k : rs[i] = x
    BY <1>1
  <2>2. i # at
    BY <1>2, <2>1
  <2>3. CASE i = k
    <3>1. at \in 1 .. (k - 1)
      BY <1>1, <1>2, <2>2, <2>3
    <3>2. QED
      BY <1>5, <2>1, <2>3, <3>1
  <2>4. CASE i # k
    <3>1. i \in 1 .. (k - 1)
      BY <1>1, <2>4
    <3>2. QED
      BY <1>5, <2>1, <2>2, <3>1
  <2>5. QED
    BY <2>3, <2>4
<1>9. \A i, j \in 1 .. (k - 1) : q[i] = q[j] => i = j
  BY <1>1, <1>4, <1>5
<1>10. QED
  BY <1>3, <1>6, <1>7, <1>8, <1>9, ListsOf

\* min is a root no greater than any other.
IsLeast(t, S, m) == m \in S /\ \A r \in S : t[m].priority <= t[r].priority

LEMMA LeastRootIsLeast ==
  ASSUME NEW t, Binomial(t), NEW rs, Lists(rs, Kids(t, Null)), rs # <<>>
  PROVE  IsLeast(t, Kids(t, Null), LeastRoot(t, rs))
<1> DEFINE S == Kids(t, Null)
           k == Len(rs)
           p(i) == t[rs[i]].priority
           Least(n) == \E i \in 1 .. n : \A j \in 1 .. n : p(i) <= p(j)
           Good == {n \in Nat : n # 0 /\ n <= k => Least(n)}
<1>1. /\ rs \in Seq(Node) /\ k \in Nat /\ DOMAIN rs = 1 .. k /\ k # 0
      /\ \A i \in 1 .. k : rs[i] \in S
      /\ \A x \in S : \E i \in 1 .. k : rs[i] = x
  <2>1. k # 0
    BY ListFacts
  <2>2. QED
    BY <2>1, ListFacts
<1>2. \A i \in 1 .. k : p(i) \in Int
  BY <1>1, NodeType DEF Binomial, Kids
<1> HIDE DEF S, k
<1>3. 0 \in Good
  OBVIOUS
<1>4. \A n \in Nat : n \in Good => n + 1 \in Good
  <2> SUFFICES ASSUME NEW n \in Nat, n \in Good, n + 1 <= k
               PROVE  Least(n + 1)
    <3> HIDE DEF Least
    <3>1. QED
      OBVIOUS
  <2> HIDE DEF p
  <2>1. /\ n + 1 \in 1 .. k /\ n <= k /\ 1 .. (n + 1) = (1 .. n) \cup {n + 1}
        /\ \A j \in 1 .. n : j \in 1 .. k
    BY <1>1
  <2>2. CASE n = 0
    <3>1. 1 .. n = {}
      BY <2>2
    <3>2. p(n + 1) <= p(n + 1)
      BY <1>2, <2>1
    <3>3. QED
      BY <2>1, <3>1, <3>2
  <2>3. CASE n # 0
    <3>1. PICK i \in 1 .. n : \A j \in 1 .. n : p(i) <= p(j)
      BY <2>1, <2>3
    <3>2. CASE p(i) <= p(n + 1)
      BY <2>1, <3>1, <3>2
    <3>3. CASE ~(p(i) <= p(n + 1))
      <4>1. \A j \in 1 .. n : p(n + 1) <= p(j)
        BY <1>2, <2>1, <3>1, <3>3
      <4>2. p(n + 1) <= p(n + 1)
        BY <1>2, <2>1
      <4>3. QED
        BY <2>1, <4>1, <4>2
    <3>4. QED
      BY <3>2, <3>3
  <2>4. QED
    BY <2>2, <2>3
<1>5. Least(k)
  <2>1. Nat \subseteq Good
    <3> HIDE DEF Good
    <3>1. QED
      BY <1>3, <1>4, NatSetInduction
  <2> HIDE DEF Least
  <2>2. QED
    BY <1>1, <2>1
<1> DEFINE Ms == {i \in 1 .. k : \A j \in 1 .. k : p(i) <= p(j)}
           First(i) == /\ \A j \in DOMAIN rs : ~LessThan(t, rs[j], rs[i])
                       /\ \A j \in 1 .. (i - 1) : LessThan(t, rs[i], rs[j])
<1>6. PICK i \in Ms : \A j \in Ms : i <= j
  <2>1. Ms # {} /\ Ms \in SUBSET Nat
    BY <1>1, <1>5
  <2> HIDE DEF Ms
  <2>2. QED
    BY <2>1, LeastElement
<1>7. i \in 1 .. k /\ First(i)
  <2>1. i \in 1 .. k /\ \A j \in 1 .. k : p(i) <= p(j)
    OBVIOUS
  <2>2. \A j \in DOMAIN rs : ~LessThan(t, rs[j], rs[i])
    <3> SUFFICES ASSUME NEW j \in 1 .. k PROVE ~(p(j) < p(i))
      BY <1>1 DEF LessThan
    <3> HIDE DEF p
    <3>1. QED
      BY <1>2, <2>1
  <2>3. ASSUME NEW j \in 1 .. (i - 1) PROVE LessThan(t, rs[i], rs[j])
    <3>1. j \in 1 .. k /\ ~(i <= j)
      BY <1>1, <2>1
    <3>2. j \notin Ms
      BY <1>6, <3>1
    <3>3. PICK l \in 1 .. k : ~(p(j) <= p(l))
      BY <3>1, <3>2
    <3>4. p(i) < p(j)
      <4> HIDE DEF p
      <4>1. QED
        BY <1>2, <2>1, <3>1, <3>3
    <3>5. QED
      BY <3>4 DEF LessThan
  <2>4. QED
    BY <2>1, <2>2, <2>3
<1> DEFINE first == CHOOSE n \in DOMAIN rs : First(n)
<1>8. first \in 1 .. k /\ First(first)
  <2> HIDE DEF First
  <2>1. QED
    BY <1>1, <1>7
<1>9. LeastRoot(t, rs) = rs[first]
  BY DEF LeastRoot
<1> HIDE DEF first
<1>10. \A j \in 1 .. k : p(first) <= p(j)
  <2> SUFFICES ASSUME NEW j \in 1 .. k PROVE p(first) <= p(j)
    OBVIOUS
  <2>1. ~(p(j) < p(first))
    BY <1>1, <1>8 DEF LessThan
  <2> HIDE DEF p
  <2>2. QED
    BY <1>2, <1>8, <2>1
<1>11. QED
  BY <1>1, <1>8, <1>9, <1>10 DEF IsLeast, S

\* The memory where n has become a root, of priority p.
Planted(t, n, p) == [t EXCEPT ![n] = [priority |-> p, degree |-> 0, parent |-> Null,
                                      child |-> Null, left |-> n, right |-> n]]

\* insert adds a root without children.
LEMMA InsertKeepsTrees ==
  ASSUME NEW t, Binomial(t), NEW n \in Node, n \notin Allocated(t), NEW p \in Priority,
         NEW u, u = Planted(t, n, p)
  PROVE  /\ Binomial(u) /\ Allocated(u) = Allocated(t) \cup {n}
         /\ Kids(u, Null) = Kids(t, Null) \cup {n}
         /\ u[n].priority = p /\ \A m \in Allocated(t) : u[m] = t[m]
<1> DEFINE new == [priority |-> p, degree |-> 0, parent |-> Null,
                   child |-> Null, left |-> n, right |-> n]
<1>1. /\ IsMemory(t) /\ Null \notin Node /\ Null \notin Tree
      /\ \A m \in Allocated(t) : m \in Node /\ m # n
  BY HeapAssumption DEF Binomial, Allocated
<1>2. new \in Tree /\ new.priority = p /\ new.degree = 0 /\ new.parent = Null /\ new.child = Null
  BY DEF Tree, Pointer
<1>3. u = [m \in Node |-> IF m = n THEN new ELSE t[m]]
  BY <1>1 DEF IsMemory, Planted
<1> HIDE DEF new
<1>4. IsMemory(u)
  BY <1>1, <1>2, <1>3 DEF IsMemory
<1>5. Allocated(u) = Allocated(t) \cup {n}
  BY <1>1, <1>2, <1>3 DEF Allocated
<1>6. u[n] = new /\ \A m \in Allocated(t) : u[m] = t[m]
  BY <1>1, <1>3
<1>7. Kids(u, Null) = Kids(t, Null) \cup {n}
  BY <1>2, <1>5, <1>6 DEF Kids
<1>8. \A q \in Node : Kids(u, q) = Kids(t, q)
  BY <1>1, <1>2, <1>5, <1>6 DEF Kids
<1>9. \A q \in Node : \A c \in Kids(t, q) : c \in Allocated(t) /\ u[c] = t[c]
  BY <1>6 DEF Kids
<1>10. Distinct(u)
  BY <1>8, <1>9 DEF Binomial, Distinct
<1>11. ASSUME NEW m \in Allocated(u) PROVE HasKids(u, m)
  <2>1. CASE m = n
    <3>1. u[m].degree = 0 /\ u[m].child = Null
      BY <1>2, <1>6, <2>1
    <3>2. 0 .. (0 - 1) = {}
      OBVIOUS
    <3>3. QED
      BY <3>1, <3>2 DEF HasKids
  <2>2. CASE m # n
    <3>1. m \in Allocated(t) /\ m \in Node /\ u[m] = t[m] /\ Kids(u, m) = Kids(t, m)
      BY <1>1, <1>5, <1>6, <1>8, <2>2
    <3>2. HasKids(t, m)
      BY <3>1 DEF Binomial
    <3>3. QED
      BY <1>9, <3>1, <3>2 DEF HasKids
  <2>3. QED
    BY <2>1, <2>2
<1>12. ASSUME NEW q \in Node, NEW c \in Kids(u, q) PROVE IsChild(u, c, q)
  <2>1. c \in Kids(t, q) /\ Kids(u, q) = Kids(t, q)
    BY <1>8
  <2>2. IsChild(t, c, q) /\ InRing(t, c, q) /\ u[c] = t[c]
    BY <1>9, <2>1 DEF Binomial, IsChild
  <2>3. q \in Allocated(t) /\ u[q] = t[q] /\ q \in Allocated(u)
    BY <1>5, <1>6, <2>2 DEF IsChild
  <2>4. t[c].right \in Kids(t, q) /\ t[c].left \in Kids(t, q)
    BY <2>2 DEF InRing
  <2>5. u[t[c].right] = t[t[c].right] /\ u[t[c].left] = t[t[c].left]
    BY <1>9, <2>4
  <2>6. InRing(u, c, q)
    BY <2>1, <2>2, <2>3, <2>5 DEF InRing
  <2>7. QED
    BY <2>2, <2>3, <2>6 DEF IsChild
<1>13. Binomial(u)
  BY <1>4, <1>10, <1>11, <1>12 DEF Binomial
<1>14. QED
  BY <1>2, <1>5, <1>6, <1>7, <1>13

\* The memory where the nodes C have become roots, and r is gone.
Freed(t, C, r) ==
  [[n \in Node |-> IF n \in C THEN [t[n] EXCEPT !.parent = Null, !.left = Null, !.right = Null]
                  ELSE t[n]] EXCEPT ![r] = Null]

\* deleteMin's promotion: the children C of the root r become roots, and r goes.
LEMMA FreeKeepsTrees ==
  ASSUME NEW t, Binomial(t), NEW r \in Kids(t, Null), NEW C, C = Kids(t, r),
         NEW u, u = Freed(t, C, r)
  PROVE  /\ Binomial(u) /\ Allocated(u) = Allocated(t) \ {r}
         /\ Kids(u, Null) = (Kids(t, Null) \cup Kids(t, r)) \ {r}
         /\ Kids(t, Null) \cap Kids(t, r) = {} /\ r \notin Kids(t, r)
         /\ \A m \in Allocated(t) \ {r} : u[m].priority = t[m].priority
<1> DEFINE freed(n) == [t[n] EXCEPT !.parent = Null, !.left = Null, !.right = Null]
           A == Allocated(t) \ {r}
<1>1. /\ IsMemory(t) /\ Null \notin Node /\ Null \notin Tree
      /\ r \in Allocated(t) /\ r \in Node /\ t[r].parent = Null
      /\ \A m \in Allocated(t) : m \in Node /\ t[m] \in Tree
  BY HeapAssumption, NodeType DEF Binomial, Kids
<1>2. C \subseteq A /\ r \notin C /\ Kids(t, Null) \cap C = {}
      /\ \A c \in C : t[c].parent = r
  BY <1>1 DEF Kids
<1>3. \A n \in C : /\ freed(n) \in Tree /\ freed(n).parent = Null
                   /\ freed(n).priority = t[n].priority /\ freed(n).degree = t[n].degree
                   /\ freed(n).child = t[n].child
  <2> SUFFICES ASSUME NEW n \in C
               PROVE  /\ freed(n) \in Tree /\ freed(n).parent = Null
                      /\ freed(n).priority = t[n].priority /\ freed(n).degree = t[n].degree
                      /\ freed(n).child = t[n].child
    OBVIOUS
  <2>1. t[n] \in Tree
    BY <1>1, <1>2
  <2>2. Null \in Pointer
    BY DEF Pointer
  <2>3. QED
    BY <2>1, <2>2 DEF Tree
<1> HIDE DEF freed
<1>4. u = [n \in Node |-> IF n = r THEN Null ELSE IF n \in C THEN freed(n) ELSE t[n]]
  <2> DEFINE s == [n \in Node |-> IF n \in C THEN freed(n) ELSE t[n]]
  <2>1. u = [s EXCEPT ![r] = Null]
    BY DEF Freed, freed
  <2>2. QED
    BY <1>1, <2>1
<1>5. IsMemory(u)
  BY <1>1, <1>3, <1>4 DEF IsMemory
<1>6. Allocated(u) = A
  BY <1>1, <1>2, <1>3, <1>4 DEF Allocated
<1>7. \A m \in A : /\ u[m] = IF m \in C THEN freed(m) ELSE t[m]
                   /\ u[m].priority = t[m].priority /\ u[m].degree = t[m].degree
                   /\ u[m].child = t[m].child
                   /\ u[m].parent = IF m \in C THEN Null ELSE t[m].parent
  BY <1>1, <1>3, <1>4
<1>8. Kids(u, Null) = (Kids(t, Null) \cup C) \ {r}
  BY <1>2, <1>6, <1>7 DEF Kids
<1>9. Kids(u, r) = {}
  BY <1>1, <1>2, <1>6, <1>7 DEF Kids
<1>10. \A q \in Node : q # r =>
         Kids(u, q) = Kids(t, q) /\ \A c \in Kids(t, q) : c \in A /\ c \notin C /\ u[c] = t[c]
  BY <1>1, <1>2, <1>6, <1>7 DEF Kids
<1>11. Distinct(u)
  BY <1>9, <1>10 DEF Binomial, Distinct
<1>12. ASSUME NEW m \in Allocated(u) PROVE HasKids(u, m)
  <2>1. m \in A /\ m \in Allocated(t) /\ m \in Node /\ m # r
    BY <1>1, <1>6
  <2>2. u[m].degree = t[m].degree /\ u[m].child = t[m].child
    BY <1>7, <2>1
  <2>3. HasKids(t, m)
    BY <2>1 DEF Binomial
  <2>4. Kids(u, m) = Kids(t, m) /\ \A c \in Kids(t, m) : u[c] = t[c]
    BY <1>10, <2>1
  <2>5. QED
    BY <2>2, <2>3, <2>4 DEF HasKids
<1>13. ASSUME NEW q \in Node, NEW c \in Kids(u, q) PROVE IsChild(u, c, q)
  <2>1. q # r
    BY <1>9
  <2>2. c \in Kids(t, q) /\ Kids(u, q) = Kids(t, q) /\ \A k \in Kids(t, q) : u[k] = t[k]
    BY <1>10, <2>1
  <2>3. IsChild(t, c, q) /\ InRing(t, c, q)
    BY <2>2 DEF Binomial, IsChild
  <2>4. q \in A /\ u[q].degree = t[q].degree /\ u[q].priority = t[q].priority /\ q \in Allocated(u)
    BY <1>6, <1>7, <2>1, <2>3 DEF IsChild
  <2>5. t[c].right \in Kids(t, q) /\ t[c].left \in Kids(t, q)
    BY <2>3 DEF InRing
  <2>6. InRing(u, c, q)
    BY <2>2, <2>3, <2>4, <2>5 DEF InRing
  <2>7. QED
    BY <2>2, <2>3, <2>4, <2>6 DEF IsChild
<1>14. Binomial(u)
  BY <1>5, <1>11, <1>12, <1>13 DEF Binomial
<1>15. QED
  BY <1>2, <1>6, <1>7, <1>8, <1>14

\* What consolidate makes of the heap: the same elements, in trees whose roots it lists.
LEMMA ConsolidateKeepsTrees ==
  ASSUME NEW t, Binomial(t), NEW n, n = Cardinality(Allocated(t)), Allocated(t) # {},
         NEW rs, Lists(rs, Kids(t, Null)), NEW w, w = Consolidated(t, rs, n)
  PROVE  /\ w.overrun = FALSE /\ Keeps(t, w.tree)
         /\ Lists(RootsOf(w.aux), Kids(w.tree, Null))
<1> DEFINE L == Log2(n)
           D == 0 .. (L + 1)
           u == w.tree
           aux == w.aux
<1>1. n \in Nat \ {0} /\ AtMost(t, L)
  BY DegreesAreLogarithms
<1>2. L \in Nat
  BY <1>1, Log2Bounds
<1>3. Len(rs) \in Nat /\ DOMAIN rs = 1 .. Len(rs) /\ Range(rs) = Kids(t, Null) /\ IsInjective(rs)
  BY ListFacts DEF Lists
<1>4. w.overrun = FALSE /\ SettledTrees(t, u, aux, L, {})
  <2> DEFINE k == Len(rs)
  <2> HIDE DEF u, aux
  <2>1. k \in Nat /\ DOMAIN rs = 1 .. k
    BY <1>3
  <2> HIDE DEF k
  <2>2. w.overrun = FALSE /\ SettledTrees(t, w.tree, w.aux, Log2(n), {})
    BY <1>1, <1>3, <2>1, ConsolidateSettles
  <2>3. QED
    BY <2>2 DEF u, aux
<1> HIDE DEF L
<1>5. /\ Keeps(t, u) /\ aux \in [D -> Pointer]
      /\ \A m \in Kids(u, Null) : \E i \in D : aux[i] = m
      /\ \A i \in D : aux[i] # Null => aux[i] \in Kids(u, Null) /\ u[aux[i]].degree = i
  BY <1>4 DEF SettledTrees
<1> HIDE DEF aux, u
<1>6. \A i, j \in D : aux[i] # Null /\ aux[i] = aux[j] => i = j
  BY <1>5
<1>7. Lists(RootsOf(aux), {aux[i] : i \in {j \in D : aux[j] # Null}})
  BY <1>2, <1>5, <1>6, RootsOfArray
<1>8. {aux[i] : i \in {j \in D : aux[j] # Null}} = Kids(u, Null)
  <2>1. \A m \in Kids(u, Null) : m # Null
    BY HeapAssumption DEF Kids, Allocated
  <2> HIDE DEF D
  <2>2. QED
    BY <1>5, <2>1
<1>9. QED
  BY <1>4, <1>5, <1>7, <1>8 DEF u, aux

-----------------------------------------------------------------------------
(* The inductive invariant *)

\* The memory holds binomial trees; the array lists their roots, once each, and
\* min is a least of them; count counts the elements, and consolidate's array has
\* never been too short.
HeapInv ==
  /\ Binomial(tree)
  /\ Lists(roots, Kids(tree, Null))
  /\ IF roots = <<>> THEN min = Null ELSE IsLeast(tree, Kids(tree, Null), min)
  /\ count = Cardinality(Allocated(tree))
  /\ out \in Priority \cup {0}
  /\ overrun = FALSE

\* A heap without roots is empty, and the other way round.
LEMMA NoRoots ==
  ASSUME NEW t, Binomial(t), NEW rs, Lists(rs, Kids(t, Null))
  PROVE  rs = <<>> <=> Allocated(t) = {}
<1>1. /\ rs \in Seq(Node) /\ DOMAIN rs = 1 .. Len(rs) /\ Len(rs) \in Nat
      /\ \A i \in 1 .. Len(rs) : rs[i] \in Kids(t, Null)
      /\ \A n \in Kids(t, Null) : \E i \in 1 .. Len(rs) : rs[i] = n
  BY ListFacts
<1>2. ASSUME rs = <<>>, Allocated(t) # {} PROVE FALSE
  <2>1. PICK n \in Allocated(t) : TRUE
    BY <1>2
  <2>2. PICK r \in Kids(t, Null) : TRUE
    BY <2>1, RootsAreLeast
  <2>3. PICK i \in 1 .. Len(rs) : rs[i] = r
    BY <1>1
  <2>4. Len(rs) = 0
    BY <1>2
  <2>5. QED
    BY <2>3, <2>4
<1>3. ASSUME rs # <<>>, Allocated(t) = {} PROVE FALSE
  <2>1. Len(rs) # 0
    BY <1>1, <1>3
  <2>2. 1 \in 1 .. Len(rs)
    BY <1>1, <2>1
  <2>3. rs[1] \in Allocated(t)
    BY <1>1, <2>2 DEF Kids
  <2>4. QED
    BY <1>3, <2>3
<1>4. QED
  BY <1>2, <1>3

LEMMA AllocatedIsFinite ==
  ASSUME NEW t
  PROVE  IsFiniteSet(Allocated(t)) /\ Cardinality(Allocated(t)) \in 0 .. Cardinality(Node)
<1>1. Allocated(t) \in SUBSET Node /\ IsFiniteSet(Node)
  BY HeapAssumption DEF Allocated
<1>2. IsFiniteSet(Allocated(t)) /\ Cardinality(Allocated(t)) <= Cardinality(Node)
  BY <1>1, FS_Subset
<1>3. Cardinality(Allocated(t)) \in Nat /\ Cardinality(Node) \in Nat
  BY <1>1, <1>2, FS_CardinalityType
<1>4. QED
  BY <1>2, <1>3

LEMMA HeapInvInit == ASSUME Init PROVE HeapInv
<1> DEFINE t == [n \in Node |-> Null]
<1>1. tree = t /\ roots = <<>> /\ min = Null /\ count = 0 /\ out = 0 /\ overrun = FALSE
  BY DEF Init
<1>2. Allocated(t) = {}
  BY DEF Allocated
<1>3. IsMemory(t)
  BY DEF IsMemory
<1> HIDE DEF t
<1>4. \A p : Kids(t, p) = {}
  BY <1>2 DEF Kids
<1>5. Binomial(t)
  BY <1>2, <1>3, <1>4 DEF Binomial, Distinct
<1>6. Lists(<<>>, Kids(t, Null))
  BY <1>4 DEF Lists, IsInjective, Range
<1>7. Cardinality(Allocated(t)) = 0
  BY <1>2, FS_EmptySet
<1>8. QED
  BY <1>1, <1>5, <1>6, <1>7 DEF HeapInv

\* What insert does to the elements.
Inserted(t, u, p) ==
  \E n \in Node \ Allocated(t) :
    /\ Allocated(u) = Allocated(t) \cup {n} /\ u[n].priority = p
    /\ \A m \in Allocated(t) : u[m].priority = t[m].priority

LEMMA InsertStep ==
  ASSUME HeapInv, NEW p \in Priority, Insert(p)
  PROVE  HeapInv' /\ Inserted(tree, tree', p)
<1> DEFINE n == Min(Node \ Allocated(tree))
<1>1. PICK t : t = tree
  OBVIOUS
<1>2. PICK u : u = tree'
  OBVIOUS
<1>3. n \in Node /\ n \notin Allocated(t)
  <2>1. Node \ Allocated(tree) # {} /\ Node \ Allocated(tree) \in SUBSET Nat
    BY HeapAssumption DEF Insert, Allocated
  <2>2. QED
    BY <1>1, <2>1, LeastOf
<1>4. /\ u = Planted(t, n, p)
      /\ roots' = Append(roots, n)
      /\ min' = IF min = Null \/ LessThan(u, n, min) THEN n ELSE min
      /\ count' = count + 1 /\ out' = out /\ overrun' = overrun
  BY <1>1, <1>2 DEF Insert, Planted
<1>5. /\ Binomial(t) /\ Lists(roots, Kids(t, Null)) /\ count = Cardinality(Allocated(t))
      /\ IF roots = <<>> THEN min = Null ELSE IsLeast(t, Kids(t, Null), min)
      /\ out \in Priority \cup {0} /\ overrun = FALSE
  BY <1>1 DEF HeapInv
<1> HIDE DEF n
<1>6. /\ Binomial(u) /\ Allocated(u) = Allocated(t) \cup {n}
      /\ Kids(u, Null) = Kids(t, Null) \cup {n}
      /\ u[n].priority = p /\ \A m \in Allocated(t) : u[m] = t[m]
  BY <1>3, <1>4, <1>5, InsertKeepsTrees
<1>7. Lists(roots', Kids(u, Null))
  <2>1. n \notin Kids(t, Null)
    BY <1>3 DEF Kids
  <2>2. Lists(Append(roots, n), Kids(t, Null) \cup {n})
    BY <1>3, <1>5, <2>1, ListsAppend
  <2>3. QED
    BY <1>4, <1>6, <2>2
<1>8. roots' # <<>>
  <2>1. Allocated(u) # {}
    BY <1>6
  <2>2. QED
    BY <1>6, <1>7, <2>1, NoRoots
<1>9. IsLeast(u, Kids(u, Null), min')
  <2>1. u[n].priority \in Int /\ \A m \in Kids(t, Null) : /\ u[m] = t[m] /\ u[m].priority \in Int
                                                          /\ m # Null
    BY <1>5, <1>6, NodeType, HeapAssumption DEF Binomial, Kids, Allocated
  <2>2. CASE roots = <<>>
    <3>1. Kids(t, Null) = {}
      BY <1>5, <2>2, NoRoots DEF Kids
    <3>2. min' = n
      BY <1>4, <1>5, <2>2
    <3>3. QED
      BY <1>6, <2>1, <3>1, <3>2 DEF IsLeast
  <2>3. CASE roots # <<>>
    <3>1. min \in Kids(t, Null) /\ \A r \in Kids(t, Null) : t[min].priority <= t[r].priority
      BY <1>5, <2>3 DEF IsLeast
    <3>2. \A r \in Kids(t, Null) : u[min].priority <= u[r].priority
      BY <2>1, <3>1
    <3>3. min' = IF u[n].priority < u[min].priority THEN n ELSE min
      BY <1>4, <2>1, <3>1 DEF LessThan
    <3>4. CASE u[n].priority < u[min].priority
      <4>1. \A r \in Kids(t, Null) : u[n].priority <= u[r].priority
        BY <2>1, <3>1, <3>2, <3>4
      <4>2. min' = n /\ u[n].priority <= u[n].priority
        BY <2>1, <3>3, <3>4
      <4>3. QED
        BY <1>6, <4>1, <4>2 DEF IsLeast
    <3>5. CASE ~(u[n].priority < u[min].priority)
      <4>1. min' = min /\ u[min].priority <= u[n].priority
        BY <2>1, <3>1, <3>3, <3>5
      <4>2. QED
        BY <1>6, <3>1, <3>2, <4>1 DEF IsLeast
    <3>6. QED
      BY <3>4, <3>5
  <2>4. QED
    BY <2>2, <2>3
<1>10. count' = Cardinality(Allocated(u))
  BY <1>3, <1>4, <1>5, <1>6, AllocatedIsFinite, FS_AddElement
<1>11. HeapInv'
  BY <1>2, <1>4, <1>5, <1>6, <1>7, <1>8, <1>9, <1>10 DEF HeapInv
<1>12. Inserted(t, u, p)
  BY <1>3, <1>6 DEF Inserted
<1>13. QED
  BY <1>1, <1>2, <1>11, <1>12

\* What deleteMin of the root r does to the elements.
Deleted(t, u, r) ==
  /\ r \in Allocated(t) /\ \A n \in Allocated(t) : t[r].priority <= t[n].priority
  /\ Allocated(u) = Allocated(t) \ {r}
  /\ \A m \in Allocated(u) : u[m].priority = t[m].priority

LEMMA DeleteStep ==
  ASSUME HeapInv, DeleteMin
  PROVE  HeapInv' /\ Deleted(tree, tree', min) /\ out' = tree[min].priority
<1>1. PICK t : t = tree
  OBVIOUS
<1>2. PICK u : u = tree'
  OBVIOUS
<1>3. PICK r : r = min
  OBVIOUS
<1> DEFINE children == Siblings(t, t[r].child)
           K == Kids(t, r)
           s == Promoted.tree
           freed == Freed(t, K, r)
           left == UnorderedRemove(roots \o children, r)
           n == count - 1
           done == Consolidated(freed, left, n)
<1>4. /\ Binomial(t) /\ Lists(roots, Kids(t, Null)) /\ count = Cardinality(Allocated(t))
      /\ IF roots = <<>> THEN r = Null ELSE IsLeast(t, Kids(t, Null), r)
      /\ overrun = FALSE /\ r # Null
  BY <1>1, <1>3 DEF HeapInv, DeleteMin
<1>5. r \in Kids(t, Null) /\ r \in Allocated(t) /\ r \in Node
      /\ \A m \in Kids(t, Null) : t[r].priority <= t[m].priority
  BY <1>4 DEF IsLeast, Kids, Allocated
<1>6. Lists(children, K) /\ Range(children) = K
  BY <1>4, <1>5, SiblingsAreKids DEF Lists
<1>7. Promoted.roots = roots \o children /\ [s EXCEPT ![r] = Null] = freed
  <2>1. Promoted = [tree |-> [m \in Node |->
                     IF m \in Range(children)
                     THEN [t[m] EXCEPT !.parent = Null, !.left = Null, !.right = Null]
                     ELSE t[m]],
                    roots |-> roots \o children]
    BY <1>1, <1>3 DEF Promoted
  <2>2. Promoted.roots = roots \o children
    BY <2>1
  <2>3. s = [m \in Node |->
               IF m \in K
               THEN [t[m] EXCEPT !.parent = Null, !.left = Null, !.right = Null]
               ELSE t[m]]
    BY <1>6, <2>1
  <2> HIDE DEF s
  <2>4. QED
    BY <2>2, <2>3 DEF Freed
<1> HIDE DEF s, children
<1>8. /\ Binomial(freed) /\ Allocated(freed) = Allocated(t) \ {r}
      /\ Kids(freed, Null) = (Kids(t, Null) \cup K) \ {r}
      /\ Kids(t, Null) \cap K = {} /\ r \notin K
      /\ \A m \in Allocated(t) \ {r} : freed[m].priority = t[m].priority
  BY <1>4, <1>5, FreeKeepsTrees
<1>9. Lists(left, Kids(freed, Null))
  <2>1. Lists(roots \o children, Kids(t, Null) \cup K)
    BY <1>4, <1>6, <1>8, ListsConcat
  <2>2. QED
    BY <1>5, <1>8, <2>1, ListsRemove
<1>10. n = Cardinality(Allocated(freed))
  BY <1>4, <1>5, <1>8, AllocatedIsFinite, FS_RemoveElement
<1>11. /\ out' = t[r].priority /\ count' = n
       /\ IF n = 0 THEN u = freed /\ roots' = left /\ min' = Null /\ overrun' = overrun
          ELSE /\ u = done.tree /\ roots' = RootsOf(done.aux)
               /\ min' = LeastRoot(done.tree, roots')
               /\ overrun' = (overrun \/ done.overrun)
  BY <1>1, <1>2, <1>3, <1>7 DEF DeleteMin, Remaining, s
<1> HIDE DEF freed, left, done, n
<1>12. out' \in Priority \cup {0}
  BY <1>4, <1>5, <1>11, NodeType DEF Binomial
<1>13. \A m \in Allocated(t) : t[r].priority <= t[m].priority
  <2> SUFFICES ASSUME NEW m \in Allocated(t) PROVE t[r].priority <= t[m].priority
    OBVIOUS
  <2>1. PICK q \in Kids(t, Null) : t[q].priority <= t[m].priority
    BY <1>4, RootsAreLeast
  <2>2. t[r].priority <= t[q].priority
    BY <1>5
  <2>3. t[r].priority \in Int /\ t[q].priority \in Int /\ t[m].priority \in Int
    BY <1>4, <1>5, NodeType DEF Binomial, Kids
  <2>4. QED
    BY <2>1, <2>2, <2>3
<1>14. CASE n = 0
  <2>1. u = freed /\ roots' = left /\ min' = Null /\ overrun' = FALSE /\ count' = n
    BY <1>4, <1>11, <1>14
  <2>2. Allocated(freed) = {}
    BY <1>10, <1>14, AllocatedIsFinite, FS_EmptySet
  <2>3. left = <<>>
    <3>1. Binomial(freed)
      BY <1>8
    <3>2. QED
      BY ONLY <1>9, <2>2, <3>1, NoRoots
  <2>4. HeapInv'
    BY <1>2, <1>8, <1>9, <1>10, <1>12, <2>1, <2>3 DEF HeapInv
  <2>5. Deleted(t, u, r)
    BY <1>5, <1>8, <1>13, <2>1 DEF Deleted
  <2>6. QED
    BY <1>1, <1>2, <1>3, <1>11, <2>4, <2>5
<1>15. CASE n # 0
  <2>1. /\ u = done.tree /\ roots' = RootsOf(done.aux) /\ min' = LeastRoot(u, roots')
        /\ overrun' = (overrun \/ done.overrun) /\ count' = n
    BY <1>11, <1>15
  <2>2. Allocated(freed) # {}
    BY <1>10, <1>15, FS_EmptySet
  <2>3. done = Consolidated(freed, left, n)
    BY DEF done
  <2>4. done.overrun = FALSE /\ Keeps(freed, u) /\ Lists(roots', Kids(u, Null))
    BY <1>8, <1>9, <1>10, <2>1, <2>2, <2>3, ConsolidateKeepsTrees
  <2>5. overrun' = FALSE
    BY <1>4, <2>1, <2>4
  <2>6. Binomial(u) /\ Allocated(u) = Allocated(freed)
        /\ \A m \in Allocated(freed) : u[m].priority = freed[m].priority
    BY <2>4 DEF Keeps
  <2>7. roots' # <<>>
    BY <2>2, <2>4, <2>6, NoRoots
  <2>8. IsLeast(u, Kids(u, Null), min')
    BY <2>1, <2>4, <2>6, <2>7, LeastRootIsLeast
  <2>9. HeapInv'
    BY <1>2, <1>10, <1>12, <2>1, <2>4, <2>5, <2>6, <2>7, <2>8 DEF HeapInv
  <2>10. Deleted(t, u, r)
    BY <1>5, <1>8, <1>13, <2>6 DEF Deleted
  <2>11. QED
    BY <1>1, <1>2, <1>3, <1>11, <2>9, <2>10
<1>16. QED
  BY <1>14, <1>15

LEMMA HeapInvNext == ASSUME HeapInv, [Next]_vars PROVE HeapInv'
<1>1. ASSUME NEW p \in Priority, Insert(p) PROVE HeapInv'
  BY <1>1, InsertStep
<1>2. CASE DeleteMin
  BY <1>2, DeleteStep
<1>3. CASE DeleteFromEmpty
  BY <1>3 DEF DeleteFromEmpty, HeapInv
<1>4. CASE UNCHANGED vars
  BY <1>4 DEF vars, HeapInv
<1>5. QED
  BY <1>1, <1>2, <1>3, <1>4 DEF Next

\* The invariant holds through insert and deleteMin, in any order and any number.
THEOREM HeapIsInductive == Spec => []HeapInv
<1>1. Init => HeapInv
  BY HeapInvInit
<1>2. HeapInv /\ [Next]_vars => HeapInv'
  BY HeapInvNext
<1>3. QED
  BY <1>1, <1>2, PTL DEF Spec

\* A heap is of its types, and has no more elements than there are addresses.
THEOREM HeapTypes == Spec => []TypeOK
<1>1. HeapInv => TypeOK
  <2> SUFFICES ASSUME HeapInv PROVE TypeOK
    OBVIOUS
  <2>1. /\ Binomial(tree) /\ Lists(roots, Kids(tree, Null))
        /\ IF roots = <<>> THEN min = Null ELSE IsLeast(tree, Kids(tree, Null), min)
        /\ count = Cardinality(Allocated(tree)) /\ out \in Priority \cup {0} /\ overrun = FALSE
    BY DEF HeapInv
  <2>2. tree \in [Node -> Tree \cup {Null}] /\ roots \in Seq(Node)
    BY <2>1 DEF Binomial, IsMemory, Lists
  <2>3. min \in Pointer
    BY <2>1 DEF IsLeast, Kids, Allocated, Pointer
  <2>4. count \in 0 .. Cardinality(Node)
    BY <2>1, AllocatedIsFinite
  <2>5. overrun \in BOOLEAN
    BY <2>1
  <2>6. QED
    BY <2>1, <2>2, <2>3, <2>4, <2>5 DEF TypeOK
<1>2. QED
  BY <1>1, HeapIsInductive, PTL

\* consolidate stays within its array: a tree of degree d takes 2^d elements.
THEOREM ArrayIsLongEnough == Spec => []ArrayNeverOverrun
<1>1. HeapInv => ArrayNeverOverrun
  BY DEF HeapInv, ArrayNeverOverrun
<1>2. QED
  BY <1>1, HeapIsInductive, PTL

\* Whatever the mix of insert and deleteMin, a tree of degree d has 2^d elements.
THEOREM TreesAreBinomial == Spec => []BinomialTrees
<1>1. HeapInv => BinomialTrees
  <2> SUFFICES ASSUME HeapInv, NEW n \in Range(roots)
               PROVE  Cardinality(Below(tree, {n})) = 2 ^ tree[n].degree
    BY DEF BinomialTrees
  <2>1. Binomial(tree) /\ n \in Allocated(tree)
    BY DEF HeapInv, Lists, Kids
  <2>2. QED
    BY <2>1, TreeSize
<1>2. QED
  BY <1>1, HeapIsInductive, PTL

\* A list has as many places as elements.
LEMMA ListLength ==
  ASSUME NEW rs, NEW S, Lists(rs, S)
  PROVE  Cardinality(S) = Len(rs)
<1> DEFINE D == 1 .. Len(rs)
<1>1. /\ rs \in Seq(Node) /\ Len(rs) \in Nat /\ DOMAIN rs = D
      /\ \A i \in D : rs[i] \in S
      /\ \A n \in S : \E i \in D : rs[i] = n
      /\ \A i, j \in D : rs[i] = rs[j] => i = j
  BY ListFacts
<1>2. IsFiniteSet(D) /\ Cardinality(D) = Len(rs)
  <2> DEFINE k == Len(rs)
  <2>1. k \in Nat /\ 1 \in Int
    BY <1>1
  <2> HIDE DEF k
  <2>2. IsFiniteSet(1 .. k) /\ Cardinality(1 .. k) = IF 1 > k THEN 0 ELSE k - 1 + 1
    BY <2>1, FS_Interval
  <2>3. (IF 1 > k THEN 0 ELSE k - 1 + 1) = k
    BY <2>1
  <2>4. QED
    BY <2>2, <2>3 DEF k
<1> DEFINE f == [i \in D |-> rs[i]]
<1> HIDE DEF D
<1>3. f \in Bijection(D, S)
  BY <1>1 DEF Bijection, Injection, Surjection, IsInjective
<1>4. ExistsBijection(D, S)
  BY <1>3 DEF ExistsBijection
<1>5. QED
  BY <1>2, <1>4, FS_Bijection

\* Rings are linked both ways.
LEMMA LeftOfRight ==
  ASSUME NEW t, Binomial(t), NEW n \in Node, NEW c \in Kids(t, n)
  PROVE  t[t[c].right].left = c
<1> DEFINE d == t[n].degree
           e == t[c].degree
           r == t[c].right
           l == t[r].left
<1>1. InRing(t, c, n) /\ d \in Nat /\ e \in Nat /\ e < d
  BY KidFacts
<1>2. r \in Kids(t, n) /\ t[r].degree = IF e = 0 THEN d - 1 ELSE e - 1
  BY <1>1 DEF InRing
<1>3. InRing(t, r, n)
  BY <1>2, KidFacts
<1>4. l \in Kids(t, n) /\ t[l].degree = IF t[r].degree = d - 1 THEN 0 ELSE t[r].degree + 1
  BY <1>3 DEF InRing
<1>5. t[l].degree = e
  <2> HIDE DEF d, e, r, l
  <2>1. QED
    BY <1>1, <1>2, <1>4
<1>6. QED
  BY <1>4, <1>5 DEF Binomial, Distinct

\* The pointers are those of a forest: every element is in one ring, linked both ways
\* under its parent, and none is smaller than that.
THEOREM PointersAreAForest == Spec => []Forest
<1>1. HeapInv => Forest
  <2> SUFFICES ASSUME HeapInv PROVE Forest
    OBVIOUS
  <2>1. Binomial(tree) /\ Lists(roots, Kids(tree, Null)) /\ Range(roots) = Kids(tree, Null)
    BY DEF HeapInv, Lists
  <2>2. Below(tree, Range(roots)) = Allocated(tree)
    BY <2>1, AllBelowRoots
  <2>3. Cardinality(Range(roots)) = Len(roots)
    BY <2>1, ListLength
  <2>4. \A n \in Range(roots) : tree[n].parent = Null
    BY <2>1 DEF Kids
  <2>5. ASSUME NEW n \in Allocated(tree)
        PROVE  /\ Cardinality(Children(tree, n)) = tree[n].degree
               /\ \A c \in Children(tree, n) :
                    /\ tree[c].parent = n
                    /\ tree[tree[c].right].left = c
                    /\ ~LessThan(tree, c, n)
    <3>1. Children(tree, n) = Kids(tree, n) /\ Cardinality(Kids(tree, n)) = tree[n].degree
          /\ n \in Node
      BY <2>1, ChildrenAreKids, DegreeCounts DEF Allocated
    <3>2. ASSUME NEW c \in Kids(tree, n)
          PROVE  tree[c].parent = n /\ tree[tree[c].right].left = c /\ ~LessThan(tree, c, n)
      <4>1. /\ tree[c].parent = n /\ tree[n].priority <= tree[c].priority
            /\ tree[n].priority \in Int /\ tree[c].priority \in Int
        BY <2>1, <3>1, KidFacts
      <4>2. tree[tree[c].right].left = c
        BY <2>1, <3>1, LeftOfRight
      <4>3. QED
        BY <4>1, <4>2 DEF LessThan
    <3>3. QED
      BY <3>1, <3>2
  <2>6. QED
    BY <2>2, <2>3, <2>4, <2>5 DEF Forest
<1>2. QED
  BY <1>1, HeapIsInductive, PTL

-----------------------------------------------------------------------------
(* The priority queue *)

\* The elements of priority q.
Of(t, q) == {n \in Allocated(t) : t[n].priority = q}

\* How many elements there are of each priority.
Counts(t) == [q \in Priority |-> Cardinality(Of(t, q))]

LEMMA OfIsFinite ==
  ASSUME NEW t, NEW q
  PROVE  IsFiniteSet(Of(t, q)) /\ Cardinality(Of(t, q)) \in Nat
         /\ (Cardinality(Of(t, q)) > 0 <=> Of(t, q) # {})
<1>1. Of(t, q) \in SUBSET Allocated(t)
  BY DEF Of
<1>2. IsFiniteSet(Of(t, q))
  BY <1>1, AllocatedIsFinite, FS_Subset
<1>3. Cardinality(Of(t, q)) \in Nat /\ (Cardinality(Of(t, q)) = 0 <=> Of(t, q) = {})
  BY <1>2, FS_CardinalityType, FS_EmptySet
<1>4. QED
  BY <1>2, <1>3

LEMMA InsertCounts ==
  ASSUME NEW t, NEW u, NEW p \in Priority, Inserted(t, u, p)
  PROVE  Counts(u) = [Counts(t) EXCEPT ![p] = @ + 1]
<1>1. PICK n \in Node \ Allocated(t) :
        /\ Allocated(u) = Allocated(t) \cup {n} /\ u[n].priority = p
        /\ \A m \in Allocated(t) : u[m].priority = t[m].priority
  BY DEF Inserted
<1>2. Of(u, p) = Of(t, p) \cup {n} /\ n \notin Of(t, p)
  BY <1>1 DEF Of
<1>3. \A q \in Priority : q # p => Of(u, q) = Of(t, q)
  BY <1>1 DEF Of
<1>4. Cardinality(Of(u, p)) = Cardinality(Of(t, p)) + 1
  BY <1>2, OfIsFinite, FS_AddElement
<1>5. QED
  BY <1>3, <1>4 DEF Counts

LEMMA DeleteCounts ==
  ASSUME NEW t, Binomial(t), NEW u, NEW r, Deleted(t, u, r)
  PROVE  LET p == t[r].priority
             Present == {q \in Priority : Counts(t)[q] > 0}
         IN  /\ p \in Present /\ \A q \in Present : p <= q
             /\ Counts(u) = [Counts(t) EXCEPT ![p] = @ - 1]
<1> DEFINE p == t[r].priority
           Present == {q \in Priority : Counts(t)[q] > 0}
<1>1. /\ r \in Allocated(t) /\ \A n \in Allocated(t) : p <= t[n].priority
      /\ Allocated(u) = Allocated(t) \ {r}
      /\ \A m \in Allocated(u) : u[m].priority = t[m].priority
  BY DEF Deleted
<1>2. p \in Priority
  BY <1>1, NodeType DEF Binomial
<1> HIDE DEF p
<1>3. r \in Of(t, p)
  BY <1>1 DEF Of, p
<1>4. \A q \in Priority : q \in Present <=> Of(t, q) # {}
  BY OfIsFinite DEF Counts
<1>5. p \in Present
  BY <1>2, <1>3, <1>4
<1>6. \A q \in Present : p <= q
  <2> SUFFICES ASSUME NEW q \in Present PROVE p <= q
    OBVIOUS
  <2>1. PICK n \in Of(t, q) : TRUE
    BY <1>4
  <2>2. QED
    BY <1>1, <2>1 DEF Of
<1>7. Of(u, p) = Of(t, p) \ {r}
  BY <1>1 DEF Of
<1>8. \A q \in Priority : q # p => Of(u, q) = Of(t, q)
  BY <1>1 DEF Of, p
<1>9. Cardinality(Of(u, p)) = Cardinality(Of(t, p)) - 1
  BY <1>3, <1>7, OfIsFinite, FS_RemoveElement
<1>10. Counts(u) = [Counts(t) EXCEPT ![p] = @ - 1]
  BY <1>8, <1>9 DEF Counts
<1>11. QED
  BY <1>5, <1>6, <1>10 DEF p

\* The bag that the heap stands for.
Bag == [p \in Priority |-> Cardinality({n \in Below(tree, Range(roots)) : tree[n].priority = p})]

LEMMA BagCounts == ASSUME HeapInv PROVE Bag = Counts(tree)
<1>1. Below(tree, Range(roots)) = Allocated(tree)
  BY AllBelowRoots DEF HeapInv, Lists
<1>2. QED
  BY <1>1 DEF Bag, Counts, Of

\* A heap is a bag of priorities: insert adds one, deleteMin takes out a least one
\* and returns it, and loses no other element.
THEOREM HeapIsAPriorityQueue == Spec => IsPriorityQueue
<1>1. Init => Queue!Init
  <2> SUFFICES ASSUME Init PROVE Queue!Init
    OBVIOUS
  <2>1. Bag = Counts(tree)
    BY HeapInvInit, BagCounts
  <2>2. Allocated(tree) = {} /\ out = 0
    BY DEF Init, Allocated
  <2>3. \A p \in Priority : Of(tree, p) = {}
    BY <2>2 DEF Of
  <2>4. Counts(tree) = [p \in Priority |-> 0]
    BY <2>3, FS_EmptySet DEF Counts
  <2>5. QED
    BY <2>1, <2>2, <2>4 DEF Queue!Init, Bag
<1>2. ASSUME HeapInv, HeapInv', [Next]_vars PROVE [Queue!Next]_Queue!vars
  <2>1. Bag = Counts(tree)
    BY <1>2, BagCounts
  <2>2. Bag' = Counts(tree')
    <3>1. PICK t : t = tree'
      OBVIOUS
    <3>2. Binomial(t) /\ Range(roots') = Kids(t, Null)
      BY <1>2, <3>1 DEF HeapInv, Lists
    <3>3. Below(t, Range(roots')) = Allocated(t)
      BY <3>2, AllBelowRoots
    <3>4. QED
      BY <3>1, <3>3 DEF Bag, Counts, Of
  <2>3. ASSUME NEW p \in Priority, Insert(p) PROVE Queue!Insert(p)
    <3>1. Inserted(tree, tree', p) /\ out' = out
      BY <1>2, <2>3, InsertStep DEF Insert
    <3>2. Counts(tree') = [Counts(tree) EXCEPT ![p] = @ + 1]
      BY <3>1, InsertCounts
    <3>3. Bag' = [Bag EXCEPT ![p] = @ + 1]
      BY <2>1, <2>2, <3>2
    <3>4. QED
      BY <3>1, <3>3 DEF Queue!Insert, Bag
  <2>4. CASE DeleteMin
    <3> DEFINE p == tree[min].priority
               Present == {q \in Priority : Bag[q] > 0}
    <3>1. Deleted(tree, tree', min) /\ out' = p
      BY <1>2, <2>4, DeleteStep
    <3>2. Binomial(tree)
      BY <1>2 DEF HeapInv
    <3>3. /\ p \in Present /\ \A q \in Present : p <= q
          /\ Bag' = [Bag EXCEPT ![p] = @ - 1]
      BY <2>1, <2>2, <3>1, <3>2, DeleteCounts
    <3> HIDE DEF p
    <3>4. Queue!Present = Present
      BY DEF Queue!Present, Bag
    <3>5. Queue!DeleteMin
      BY <3>1, <3>3, <3>4 DEF Queue!DeleteMin, Bag
    <3>6. QED
      BY <3>5 DEF Queue!Next
  <2>5. CASE DeleteFromEmpty
    <3>1. min = Null /\ out' = 0 /\ UNCHANGED <<tree, roots>>
      BY <2>5 DEF DeleteFromEmpty
    <3>2. Allocated(tree) = {}
      <4>1. roots = <<>>
        BY <1>2, <3>1, HeapAssumption DEF HeapInv, IsLeast, Kids, Allocated
      <4>2. QED
        BY <1>2, <4>1, NoRoots DEF HeapInv
    <3>3. \A p \in Priority : ~(Counts(tree)[p] > 0)
      BY <3>2, OfIsFinite DEF Counts, Of
    <3>4. Queue!Present = {}
      BY <2>1, <3>3 DEF Queue!Present, Bag
    <3>5. Bag' = Bag
      BY <3>1 DEF Bag
    <3>6. Queue!DeleteFromEmpty
      BY <3>1, <3>4, <3>5 DEF Queue!DeleteFromEmpty, Bag
    <3>7. QED
      BY <3>6 DEF Queue!Next
  <2>6. CASE UNCHANGED vars
    <3>1. UNCHANGED <<tree, roots, out>>
      BY <2>6 DEF vars
    <3>2. Bag' = Bag /\ out' = out
      BY <3>1 DEF Bag
    <3>3. UNCHANGED Queue!vars
      BY <3>2 DEF Queue!vars, Bag
    <3>4. QED
      BY <3>3
  <2>7. QED
    BY <1>2, <2>3, <2>4, <2>5, <2>6 DEF Next, Queue!Next
<1>3. QED
  BY <1>1, <1>2, HeapIsInductive, PTL DEF Spec, IsPriorityQueue, Queue!Spec

-----------------------------------------------------------------------------
(* The recursive functions of the model *)

\* What NumberBytes does at one number.
BytesFrom(g) == [n \in Nat |-> IF n = 0 THEN <<>> ELSE Append(g[n \div 256], n % 256)]

\* A quotient by 256 is smaller.
LEMMA QuotientBelow ==
  ASSUME NEW n \in Nat, n # 0
  PROVE  /\ n \div 256 \in Nat /\ n \div 256 < n /\ n % 256 \in Int
         /\ n < 256 => n \div 256 = 0 /\ n % 256 = n
<1> DEFINE q == n \div 256
           r == n % 256
<1>1. n = 256 * q + r /\ r \in 0 .. 255 /\ q \in Int
  BY DivMod
<1> HIDE DEF q, r
<1>2. q \in Nat /\ q < n /\ r \in Int /\ (n < 256 => q = 0 /\ r = n)
  BY <1>1
<1>3. QED
  BY <1>2 DEF q, r

\* f[k + 1] is made from f[k] as NumberBytes is from itself: at n, and everywhere.
UnfoldsAt(f, k, n) == f[k + 1][n] = Append(f[k][n \div 256], n % 256)
Unfolds(f) == \A k \in Nat, n \in Nat : n # 0 => UnfoldsAt(f, k, n)

\* A function that is defined by division exists: NumberBytes.
LEMMA BytesExist == \E g : g = BytesFrom(g)
<1> DEFINE V == [Nat -> Seq(Int)]
           start == [n \in Nat |-> <<>>]
           G == [p \in Nat \X V |-> BytesFrom(p[2])]
<1>1. \A g \in V : BytesFrom(g) \in V
  <2> SUFFICES ASSUME NEW g \in V, NEW n \in Nat
               PROVE  (IF n = 0 THEN <<>> ELSE Append(g[n \div 256], n % 256)) \in Seq(Int)
    BY DEF BytesFrom
  <2>1. CASE n = 0
    BY <2>1
  <2>2. CASE n # 0
    <3>1. g[n \div 256] \in Seq(Int) /\ n % 256 \in Int
      BY <2>2, QuotientBelow
    <3>2. QED
      BY <2>2, <3>1, AppendProperties
  <2>3. QED
    BY <2>1, <2>2
<1>2. start \in V /\ G \in [Nat \X V -> V]
  <2>1. start \in V
    OBVIOUS
  <2> HIDE DEF V
  <2>2. G \in [Nat \X V -> V]
    BY <1>1
  <2>3. QED
    BY <2>1, <2>2
<1>3. PICK f \in [Nat -> V] : Iterates(f, start, G)
  <2> HIDE DEF V, start, G
  <2>1. QED
    BY <1>2, IterationExists
<1>4. /\ \A k \in Nat : f[k] \in V
      /\ f[0] = start
      /\ \A k \in Nat : f[k + 1] = BytesFrom(f[k])
  <2>1. f = [k \in Nat |-> IF k = 0 THEN start ELSE G[<<k, f[k - 1]>>]]
    BY <1>3 DEF Iterates
  <2> HIDE DEF V, start
  <2>2. f[0] = start
    BY <2>1
  <2>3. ASSUME NEW k \in Nat PROVE f[k + 1] = BytesFrom(f[k])
    <3>1. f[k + 1] = G[<<k + 1, f[k]>>] /\ <<k + 1, f[k]>> \in Nat \X V
      <4>1. k + 1 \in Nat /\ k + 1 # 0 /\ (k + 1) - 1 = k
        OBVIOUS
      <4> HIDE DEF G
      <4>2. f[k + 1] = G[<<k + 1, f[(k + 1) - 1]>>]
        BY <2>1, <4>1
      <4>3. QED
        BY <4>1, <4>2
    <3>2. QED
      BY <3>1
  <2>4. QED
    BY <2>2, <2>3
<1>5. (\A k \in Nat : f[k][0] = <<>>) /\ Unfolds(f)
  <2>1. ASSUME NEW k \in Nat PROVE f[k][0] = <<>>
    <3>1. CASE k = 0
      BY <1>4, <3>1
    <3>2. CASE k # 0
      <4>1. k - 1 \in Nat /\ (k - 1) + 1 = k
        BY <3>2
      <4>2. f[k] = BytesFrom(f[k - 1])
        BY <1>4, <4>1
      <4>3. QED
        BY <4>2 DEF BytesFrom
    <3>3. QED
      BY <3>1, <3>2
  <2>2. ASSUME NEW k \in Nat, NEW n \in Nat, n # 0
        PROVE  f[k + 1][n] = Append(f[k][n \div 256], n % 256)
    <3>1. f[k + 1][n] = BytesFrom(f[k])[n]
      BY <1>4
    <3>2. BytesFrom(f[k])[n] = Append(f[k][n \div 256], n % 256)
      BY <2>2 DEF BytesFrom
    <3>3. QED
      BY <3>1, <3>2
  <2>3. QED
    BY <2>1, <2>2 DEF Unfolds, UnfoldsAt
<1> HIDE DEF V, start, G
<1> DEFINE Settled(n) == \A k \in Nat : k > n => f[k][n] = f[n + 1][n]
           Good == {m \in Nat : \A n \in 0 .. m : Settled(n)}
<1>6. ASSUME NEW n \in Nat, \A i \in Nat : i < n => Settled(i) PROVE Settled(n)
  <2> SUFFICES ASSUME NEW k \in Nat, k > n PROVE f[k][n] = f[n + 1][n]
    OBVIOUS
  <2>1. CASE n = 0
    <3>1. \A l \in Nat : f[l][0] = <<>>
      BY <1>5
    <3>2. n + 1 \in Nat
      OBVIOUS
    <3>3. QED
      BY <2>1, <3>1, <3>2
  <2>2. CASE n # 0
    <3> DEFINE q == n \div 256
               j == k - 1
    <3>1. q \in Nat /\ q < n /\ j \in Nat /\ j + 1 = k /\ j > q
      <4>1. q \in Nat /\ q < n
        BY <2>2, QuotientBelow
      <4> HIDE DEF q
      <4>2. QED
        BY <4>1
    <3> HIDE DEF j
    <3>2. f[j + 1][n] = Append(f[j][q], n % 256) /\ f[n + 1][n] = Append(f[n][q], n % 256)
      <4>1. UnfoldsAt(f, n, n) /\ UnfoldsAt(f, j, n)
        <5> HIDE DEF q
        <5>1. QED
          BY <1>5, <2>2, <3>1 DEF Unfolds
      <4>2. QED
        BY ONLY <4>1 DEF UnfoldsAt
    <3> HIDE DEF q
    <3>3. f[j][q] = f[q + 1][q] /\ f[n][q] = f[q + 1][q]
      BY <1>6, <3>1
    <3>4. QED
      BY <3>1, <3>2, <3>3
  <2>3. QED
    BY <2>1, <2>2
<1>7. Nat \subseteq Good
  <2> HIDE DEF Settled
  <2>1. 0 \in Good
    <3>1. Settled(0)
      BY <1>6
    <3>2. \A n \in 0 .. 0 : n = 0
      OBVIOUS
    <3>3. QED
      BY <3>1, <3>2
  <2>2. \A m \in Nat : m \in Good => m + 1 \in Good
    <3> SUFFICES ASSUME NEW m \in Nat, m \in Good PROVE m + 1 \in Good
      OBVIOUS
    <3>1. m + 1 \in Nat /\ \A i \in Nat : i < m + 1 => i \in 0 .. m
      OBVIOUS
    <3>2. Settled(m + 1)
      <4>1. \A i \in Nat : i < m + 1 => Settled(i)
        BY <3>1
      <4>2. QED
        BY <1>6, <3>1, <4>1
    <3>3. \A i \in 0 .. (m + 1) : i \in 0 .. m \/ i = m + 1
      OBVIOUS
    <3>4. QED
      BY <3>1, <3>2, <3>3
  <2> HIDE DEF Good
  <2>3. QED
    BY <2>1, <2>2, NatSetInduction
<1>8. \A n \in Nat : Settled(n)
  <2>1. \A n \in Nat : n \in 0 .. n
    OBVIOUS
  <2> HIDE DEF Settled
  <2>2. QED
    BY <1>7, <2>1
<1> DEFINE g == [n \in Nat |-> f[n + 1][n]]
<1>9. \A n \in Nat : g[n] = BytesFrom(g)[n]
  <2> SUFFICES ASSUME NEW n \in Nat
               PROVE  f[n + 1][n] = IF n = 0 THEN <<>> ELSE Append(g[n \div 256], n % 256)
    <3>1. \A k \in Nat : g[k] = f[k + 1][k]
      OBVIOUS
    <3> HIDE DEF g
    <3>2. \A k \in Nat :
            BytesFrom(g)[k] = IF k = 0 THEN <<>> ELSE Append(g[k \div 256], k % 256)
      BY DEF BytesFrom
    <3>3. QED
      BY <3>1, <3>2
  <2>1. CASE n = 0
    BY <1>5, <2>1
  <2>2. CASE n # 0
    <3> DEFINE q == n \div 256
    <3>1. q \in Nat /\ q < n
      BY <2>2, QuotientBelow
    <3>2. f[n + 1][n] = Append(f[n][q], n % 256)
      <4>1. UnfoldsAt(f, n, n)
        <5> HIDE DEF q
        <5>1. QED
          BY <1>5, <2>2 DEF Unfolds
      <4>2. QED
        BY ONLY <4>1 DEF UnfoldsAt
    <3> HIDE DEF q
    <3>3. f[n][q] = f[q + 1][q]
      BY <1>8, <3>1
    <3>4. g[q] = f[q + 1][q]
      BY <3>1
    <3>5. QED
      BY ZenonT(30), <2>2, <3>2, <3>3, <3>4 DEF q
  <2>3. QED
    BY <2>1, <2>2
<1>10. g = BytesFrom(g)
  <2> DEFINE b == BytesFrom(g)
  <2>1. DOMAIN b = Nat /\ b = [n \in Nat |-> b[n]]
    BY DEF BytesFrom
  <2>2. g = [n \in Nat |-> g[n]]
    OBVIOUS
  <2>3. \A n \in Nat : g[n] = b[n]
    BY <1>9
  <2> HIDE DEF g, b
  <2>4. QED
    BY <2>1, <2>2, <2>3 DEF b
<1> HIDE DEF g
<1>11. QED
  BY <1>10

\* NumberBytes is what it is defined to be.
LEMMA NumberBytesDefined ==
  /\ NumberBytes \in [Nat -> Seq(Int)]
  /\ NumberBytes[0] = <<>>
  /\ \A n \in 1 .. 255 : NumberBytes[n] = <<n>>
<1>1. NumberBytes = BytesFrom(NumberBytes)
  <2> DEFINE b == CHOOSE g : g = BytesFrom(g)
  <2>1. b = BytesFrom(b)
    BY BytesExist
  <2>2. NumberBytes = b
    BY DEF NumberBytes, BytesFrom
  <2> HIDE DEF b
  <2>3. QED
    BY <2>1, <2>2
<1>2. \A n \in Nat :
        NumberBytes[n] = IF n = 0 THEN <<>> ELSE Append(NumberBytes[n \div 256], n % 256)
  BY <1>1 DEF BytesFrom
<1> DEFINE Good == {m \in Nat : \A n \in 0 .. m : NumberBytes[n] \in Seq(Int)}
<1>3. 0 \in Good
  <2>1. \A n \in 0 .. 0 : n = 0
    OBVIOUS
  <2>2. NumberBytes[0] = <<>>
    BY <1>2
  <2>3. <<>> \in Seq(Int)
    BY EmptySeq
  <2>4. QED
    BY <2>1, <2>2, <2>3
<1>4. \A m \in Nat : m \in Good => m + 1 \in Good
  <2> SUFFICES ASSUME NEW m \in Nat, m \in Good PROVE m + 1 \in Good
    OBVIOUS
  <2>0. \A i \in 0 .. m : NumberBytes[i] \in Seq(Int)
    OBVIOUS
  <2> DEFINE n == m + 1
             q == n \div 256
  <2>1. n \in Nat /\ n # 0
    OBVIOUS
  <2> HIDE DEF n
  <2>2. q \in Nat /\ q < n /\ n % 256 \in Int
    BY <2>1, QuotientBelow
  <2>3. NumberBytes[n] = Append(NumberBytes[q], n % 256)
    BY <1>2, <2>1
  <2> HIDE DEF q
  <2>4. q \in 0 .. m
    BY <2>2 DEF n
  <2>5. NumberBytes[m + 1] \in Seq(Int)
    <3>1. NumberBytes[q] \in Seq(Int)
      BY <2>0, <2>4
    <3>2. QED
      BY <2>2, <2>3, <3>1, AppendProperties DEF n
  <2>6. m + 1 \in Nat /\ \A i \in 0 .. (m + 1) : i \in 0 .. m \/ i = m + 1
    OBVIOUS
  <2>7. QED
    BY <2>0, <2>5, <2>6
<1>5. Nat \subseteq Good
  <2> HIDE DEF Good
  <2>1. QED
    BY <1>3, <1>4, NatSetInduction
<1>6. \A n \in Nat : NumberBytes[n] \in Seq(Int)
  <2>1. \A n \in Nat : n \in 0 .. n
    OBVIOUS
  <2>2. QED
    BY <1>5, <2>1
<1>7. NumberBytes = [n \in Nat |-> NumberBytes[n]]
  BY <1>1 DEF BytesFrom
<1>8. ASSUME NEW n \in 1 .. 255 PROVE NumberBytes[n] = <<n>>
  <2>1. n \in Nat /\ n # 0 /\ n < 256
    OBVIOUS
  <2>2. n \div 256 = 0 /\ n % 256 = n
    BY <2>1, QuotientBelow
  <2>3. NumberBytes[n] = Append(<<>>, n)
    BY ZenonT(30), <1>2, <2>1, <2>2
  <2>4. QED
    BY <2>3
<1>9. QED
  BY <1>2, <1>6, <1>7, <1>8

-----------------------------------------------------------------------------
(* Sequences put together *)

\* w has the elements of s, of which there are m, and then those of t.
Joins(w, V, s, t, m, n) ==
  /\ w \in Seq(V) /\ Len(w) = m + n
  /\ \A i \in 1 .. m : w[i] = s[i]
  /\ \A i \in 1 .. n : w[m + i] = t[i]

\* The elements of a concatenation.
LEMMA ConcatAt ==
  ASSUME NEW V, NEW s \in Seq(V), NEW t \in Seq(V), NEW m \in Nat, NEW n \in Nat,
         Len(s) = m, Len(t) = n
  PROVE  Joins(s \o t, V, s, t, m, n)
<1> DEFINE w == s \o t
<1>1. /\ w \in Seq(V) /\ Len(w) = m + n
      /\ \A i \in 1 .. m + n : w[i] = IF i <= m THEN s[i] ELSE t[i - m]
  BY ConcatProperties
<1> HIDE DEF w
<1>2. \A i \in 1 .. m : w[i] = s[i]
  BY <1>1
<1>3. ASSUME NEW i \in 1 .. n PROVE w[m + i] = t[i]
  <2>1. m + i \in 1 .. m + n /\ ~ (m + i <= m) /\ (m + i) - m = i
    OBVIOUS
  <2>2. QED
    BY <1>1, <2>1
<1>4. QED
  BY <1>1, <1>2, <1>3 DEF Joins, w

\* Sequences given by their elements.
LEMMA PairIsConcat ==
  ASSUME NEW V, NEW a \in V, NEW b \in V, NEW c \in V
  PROVE  <<a>> \o <<b>> = <<a, b>> /\ <<a, b>> \o <<c>> = <<a, b, c>>
<1>1. <<a>> \o <<b>> = <<a, b>>
  <2> DEFINE s == <<a>>
             t == <<b>>
             u == <<a, b>>
  <2>1. /\ s \in Seq(V) /\ Len(s) = 1 /\ s[1] = a
        /\ t \in Seq(V) /\ Len(t) = 1 /\ t[1] = b
        /\ u \in Seq(V) /\ Len(u) = 2 /\ u[1] = a /\ u[2] = b
    OBVIOUS
  <2> HIDE DEF s, t, u
  <2>2. Joins(s \o t, V, s, t, 1, 1)
    BY <2>1, 1 \in Nat, 1 \in Nat, ConcatAt
  <2> DEFINE w == s \o t
  <2>3. w \in Seq(V) /\ Len(w) = 2 /\ w[1] = a /\ w[2] = b
    <3>1. w \in Seq(V) /\ Len(w) = 1 + 1 /\ w[1] = s[1] /\ w[1 + 1] = t[1]
      BY <2>2 DEF Joins
    <3>2. QED
      BY <2>1, <3>1
  <2> HIDE DEF w
  <2>4. \A i \in 1 .. 2 : w[i] = u[i]
    BY <2>1, <2>3
  <2>5. w = u
    BY <2>1, <2>3, <2>4, SeqEqual
  <2>6. QED
    BY <2>5 DEF s, t, u, w
<1>2. <<a, b>> \o <<c>> = <<a, b, c>>
  <2> DEFINE s == <<a, b>>
             t == <<c>>
             u == <<a, b, c>>
  <2>1. /\ s \in Seq(V) /\ Len(s) = 2 /\ s[1] = a /\ s[2] = b
        /\ t \in Seq(V) /\ Len(t) = 1 /\ t[1] = c
        /\ u \in Seq(V) /\ Len(u) = 3 /\ u[1] = a /\ u[2] = b /\ u[3] = c
    OBVIOUS
  <2> HIDE DEF s, t, u
  <2>2. Joins(s \o t, V, s, t, 2, 1)
    BY <2>1, 2 \in Nat, 1 \in Nat, ConcatAt
  <2> DEFINE w == s \o t
  <2>3. w \in Seq(V) /\ Len(w) = 3 /\ w[1] = a /\ w[2] = b /\ w[3] = c
    <3>1. w \in Seq(V) /\ Len(w) = 2 + 1 /\ w[1] = s[1] /\ w[2] = s[2] /\ w[2 + 1] = t[1]
      BY <2>2 DEF Joins
    <3>2. QED
      BY <2>1, <3>1
  <2> HIDE DEF w
  <2>4. \A i \in 1 .. 3 : w[i] = u[i]
    BY <2>1, <2>3
  <2>5. w = u
    BY <2>1, <2>3, <2>4, SeqEqual
  <2>6. QED
    BY <2>5 DEF s, t, u, w
<1>3. QED
  BY <1>1, <1>2

\* Five elements and four.
LEMMA NineIsConcat ==
  ASSUME NEW a1, NEW a2, NEW a3, NEW a4, NEW a5, NEW a6, NEW a7, NEW a8, NEW a9
  PROVE  <<a1, a2, a3, a4, a5>> \o <<a6, a7, a8, a9>> = <<a1, a2, a3, a4, a5, a6, a7, a8, a9>>
<1> DEFINE V == {a1, a2, a3, a4, a5, a6, a7, a8, a9}
           s == <<a1, a2, a3, a4, a5>>
           t == <<a6, a7, a8, a9>>
           u == <<a1, a2, a3, a4, a5, a6, a7, a8, a9>>
<1>1. /\ s \in Seq(V) /\ Len(s) = 5
      /\ s[1] = a1 /\ s[2] = a2 /\ s[3] = a3 /\ s[4] = a4 /\ s[5] = a5
  OBVIOUS
<1>2. /\ t \in Seq(V) /\ Len(t) = 4
      /\ t[1] = a6 /\ t[2] = a7 /\ t[3] = a8 /\ t[4] = a9
  OBVIOUS
<1>3. /\ u \in Seq(V) /\ Len(u) = 9
      /\ u[1] = a1 /\ u[2] = a2 /\ u[3] = a3 /\ u[4] = a4 /\ u[5] = a5
      /\ u[6] = a6 /\ u[7] = a7 /\ u[8] = a8 /\ u[9] = a9
  OBVIOUS
<1> HIDE DEF s, t, u
<1> DEFINE w == s \o t
<1>4. /\ w \in Seq(V) /\ Len(w) = 5 + 4
      /\ \A i \in 1 .. 5 : w[i] = s[i]
      /\ \A i \in 1 .. 4 : w[5 + i] = t[i]
  <2>1. Joins(s \o t, V, s, t, 5, 4)
    BY <1>1, <1>2, 5 \in Nat, 4 \in Nat, ConcatAt
  <2>2. QED
    BY <2>1 DEF Joins
<1> HIDE DEF w
<1>5. \A i \in 1 .. 5 : w[i] = u[i]
  BY <1>1, <1>3, <1>4
<1>6. w[6] = u[6] /\ w[7] = u[7] /\ w[8] = u[8] /\ w[9] = u[9]
  <2>1. w[5 + 1] = t[1] /\ w[5 + 2] = t[2] /\ w[5 + 3] = t[3] /\ w[5 + 4] = t[4]
    BY <1>4
  <2>2. QED
    BY <1>2, <1>3, <2>1
<1>7. \A i \in 1 .. 9 : w[i] = u[i]
  <2>1. \A i \in 1 .. 9 : i \in 1 .. 5 \/ i = 6 \/ i = 7 \/ i = 8 \/ i = 9
    OBVIOUS
  <2>2. QED
    BY <1>5, <1>6, <2>1
<1>8. w = u
  BY <1>3, <1>4, <1>7, SeqEqual
<1>9. QED
  BY <1>8 DEF s, t, u, w

-----------------------------------------------------------------------------
(* FlattenSeq, for sequences of bytes *)

\* The recursion by which FlattenSeq(s) is made.
Flattens(g, s) ==
  g = [i \in 1 .. Len(s) |-> IF i = 1 THEN s[i] ELSE g[i - 1] \o s[i]]

\* A function that flattens s exists, and FlattenSeq takes its last value.
LEMMA FlattenDefined ==
  ASSUME NEW s \in Seq(Seq(Int)), Len(s) # 0
  PROVE  \E g \in [1 .. Len(s) -> Seq(Int)] : Flattens(g, s) /\ FlattenSeq(s) = g[Len(s)]
<1> DEFINE n == Len(s)
           V == Seq(Int)
           start == s[1]
           G == [p \in (1 .. n) \X V |-> p[2] \o s[p[1]]]
<1>1. n \in Nat /\ n # 0 /\ 1 \in Nat /\ \A i \in 1 .. n : s[i] \in V
  BY LenProperties, ElementOfSeq
<1>2. start \in V
  BY <1>1
<1>3. G \in [(1 .. n) \X V -> V]
  <2>1. \A x, y \in V : x \o y \in V
    BY ConcatProperties
  <2> HIDE DEF V, n
  <2>2. QED
    BY <1>1, <2>1
<1>4. PICK f \in [1 .. n -> V] : IteratesOn(f, 1, n, start, G)
  <2> HIDE DEF V, n, start, G
  <2>1. QED
    BY <1>1, <1>2, <1>3, RangeIterationExists
<1>5. Flattens(f, s)
  <2>1. f = [k \in 1 .. n |-> IF k = 1 THEN start ELSE G[<<k, f[k - 1]>>]]
    BY <1>4 DEF IteratesOn
  <2>2. ASSUME NEW k \in 1 .. n, k # 1 PROVE G[<<k, f[k - 1]>>] = f[k - 1] \o s[k]
    <3>1. k - 1 \in 1 .. n
      BY <1>1, <2>2
    <3>2. f[k - 1] \in V
      BY <3>1
    <3> HIDE DEF V, n
    <3>3. QED
      BY <3>2
  <2> HIDE DEF G, V
  <2>3. f = [k \in 1 .. n |-> IF k = 1 THEN s[k] ELSE f[k - 1] \o s[k]]
    BY <2>1, <2>2
  <2>4. QED
    BY <2>3 DEF Flattens
<1> DEFINE b == CHOOSE g : Flattens(g, s)
<1>6. Flattens(b, s)
  BY <1>5
<1>7. FlattenSeq(s) = b[Len(s)]
  BY <1>1 DEF FlattenSeq, Flattens
<1> HIDE DEF b
<1>8. b = f
  <2>1. /\ b = [i \in 1 .. n |-> IF i = 1 THEN s[i] ELSE b[i - 1] \o s[i]]
        /\ f = [i \in 1 .. n |-> IF i = 1 THEN s[i] ELSE f[i - 1] \o s[i]]
    BY <1>5, <1>6 DEF Flattens
  <2> HIDE DEF n
  <2> DEFINE Same == {m \in Nat : m + 1 \in 1 .. n => b[m + 1] = f[m + 1]}
  <2>2. 0 \in Same
    BY <2>1
  <2>3. ASSUME NEW m \in Nat, m \in Same PROVE m + 1 \in Same
    <3> SUFFICES ASSUME (m + 1) + 1 \in 1 .. n PROVE b[(m + 1) + 1] = f[(m + 1) + 1]
      OBVIOUS
    <3>1. m + 1 \in 1 .. n /\ (m + 1) + 1 # 1 /\ ((m + 1) + 1) - 1 = m + 1
      BY <1>1
    <3> DEFINE k == (m + 1) + 1
    <3>2. b[m + 1] = f[m + 1]
      BY <2>3, <3>1
    <3>3. b[k] = b[k - 1] \o s[k] /\ f[k] = f[k - 1] \o s[k]
      <4>1. k \in 1 .. n /\ k # 1
        BY <3>1
      <4> HIDE DEF k
      <4>2. QED
        BY <2>1, <4>1
    <3>4. QED
      BY <3>1, <3>2, <3>3
  <2>4. Nat \subseteq Same
    <3> HIDE DEF Same
    <3>1. QED
      BY <2>2, <2>3, NatSetInduction
  <2>5. \A k \in 1 .. n : b[k] = f[k]
    <3> SUFFICES ASSUME NEW k \in 1 .. n PROVE b[k] = f[k]
      OBVIOUS
    <3>1. k - 1 \in Nat /\ (k - 1) + 1 = k
      BY <1>1
    <3>2. QED
      BY <2>4, <3>1
  <2>6. b = [k \in 1 .. n |-> b[k]] /\ f = [k \in 1 .. n |-> f[k]]
    <3>1. DOMAIN b = 1 .. n
      <4> DEFINE c == [i \in 1 .. n |-> IF i = 1 THEN s[i] ELSE b[i - 1] \o s[i]]
      <4>1. DOMAIN c = 1 .. n
        OBVIOUS
      <4>2. b = c
        BY <2>1
      <4> HIDE DEF c
      <4>3. QED
        BY <4>1, <4>2
    <3>2. b = [k \in DOMAIN b |-> b[k]]
      <4> DEFINE c == [i \in 1 .. n |-> IF i = 1 THEN s[i] ELSE b[i - 1] \o s[i]]
      <4>1. c = [k \in DOMAIN c |-> c[k]]
        OBVIOUS
      <4>2. b = c
        BY <2>1
      <4> HIDE DEF c
      <4>3. QED
        BY <4>1, <4>2
    <3>3. QED
      BY <3>1, <3>2
  <2>7. QED
    BY <2>5, <2>6
<1>9. QED
  BY <1>5, <1>7, <1>8

\* FlattenSeq gives a sequence of bytes, none for no sequence, and the bytes of
\* one more sequence come behind the others.
LEMMA FlattenEmpty == FlattenSeq(<<>>) = <<>>
BY DEF FlattenSeq

LEMMA FlattenType == ASSUME NEW s \in Seq(Seq(Int)) PROVE FlattenSeq(s) \in Seq(Int)
<1>1. CASE Len(s) = 0
  <2>1. s = <<>>
    BY <1>1, EmptySeq
  <2>2. QED
    BY <2>1, FlattenEmpty, EmptySeq
<1>2. CASE Len(s) # 0
  <2>1. Len(s) \in 1 .. Len(s)
    BY <1>2, LenProperties
  <2>2. QED
    BY <1>2, <2>1, FlattenDefined
<1>3. QED
  BY <1>1, <1>2

LEMMA FlattenAppend ==
  ASSUME NEW s \in Seq(Seq(Int)), NEW b \in Seq(Int)
  PROVE  FlattenSeq(Append(s, b)) = FlattenSeq(s) \o b
<1> DEFINE t == Append(s, b)
           n == Len(s)
<1>1. /\ t \in Seq(Seq(Int)) /\ n \in Nat /\ Len(t) = n + 1 /\ t[n + 1] = b
      /\ \A i \in 1 .. n : t[i] = s[i]
  BY AppendProperties, LenProperties
<1> HIDE DEF t, n
<1>2. n + 1 # 0
  BY <1>1
<1>3. PICK g \in [1 .. (n + 1) -> Seq(Int)] : Flattens(g, t) /\ FlattenSeq(t) = g[n + 1]
  BY <1>1, <1>2, FlattenDefined
<1>4. g = [i \in 1 .. (n + 1) |-> IF i = 1 THEN t[i] ELSE g[i - 1] \o t[i]]
  BY <1>1, <1>3 DEF Flattens
<1>5. CASE n = 0
  <2>1. s = <<>>
    BY <1>5, EmptySeq DEF n
  <2>2. g[1] = b
    BY <1>1, <1>4, <1>5
  <2>3. <<>> \o b = b
    BY ConcatEmptySeq
  <2>4. QED
    BY <1>1, <1>3, <1>5, <2>1, <2>2, <2>3, FlattenEmpty DEF t
<1>6. CASE n # 0
  <2>1. PICK f \in [1 .. n -> Seq(Int)] : Flattens(f, s) /\ FlattenSeq(s) = f[n]
    BY <1>6, FlattenDefined DEF n
  <2>2. f = [i \in 1 .. n |-> IF i = 1 THEN s[i] ELSE f[i - 1] \o s[i]]
    BY <2>1 DEF Flattens, n
  <2> DEFINE Same == {m \in Nat : m + 1 \in 1 .. n => g[m + 1] = f[m + 1]}
  <2>3. 0 \in Same
    BY <1>1, <1>4, <2>2
  <2>4. ASSUME NEW m \in Nat, m \in Same PROVE m + 1 \in Same
    <3> SUFFICES ASSUME (m + 1) + 1 \in 1 .. n PROVE g[(m + 1) + 1] = f[(m + 1) + 1]
      OBVIOUS
    <3> DEFINE k == (m + 1) + 1
    <3>1. m + 1 \in 1 .. n /\ k \in 1 .. n /\ k \in 1 .. (n + 1) /\ k # 1 /\ k - 1 = m + 1
      BY <1>1
    <3>2. g[m + 1] = f[m + 1]
      BY <2>4, <3>1
    <3> HIDE DEF k
    <3>3. g[k] = g[k - 1] \o t[k] /\ f[k] = f[k - 1] \o s[k] /\ t[k] = s[k]
      BY <1>1, <1>4, <2>2, <3>1
    <3>4. g[k] = f[k]
      BY <3>1, <3>2, <3>3
    <3>5. QED
      BY <3>4 DEF k
  <2>5. Nat \subseteq Same
    <3> HIDE DEF Same
    <3>1. QED
      BY <2>3, <2>4, NatSetInduction
  <2>6. g[n] = f[n]
    <3>1. n - 1 \in Nat /\ (n - 1) + 1 = n /\ n \in 1 .. n
      BY <1>1, <1>6
    <3>2. QED
      BY <2>5, <3>1
  <2>7. g[n + 1] = g[n] \o b
    <3>1. n + 1 \in 1 .. (n + 1) /\ n + 1 # 1 /\ (n + 1) - 1 = n
      BY <1>1, <1>6
    <3>2. g[n + 1] = g[(n + 1) - 1] \o t[n + 1]
      BY <1>4, <3>1
    <3>3. QED
      BY <1>1, <3>1, <3>2
  <2>8. QED
    BY <1>3, <2>1, <2>6, <2>7 DEF t
<1>7. QED
  BY <1>5, <1>6

-----------------------------------------------------------------------------
(* Short strings, the empty access list, and the header of a list *)

\* For strings below 56 bytes encodeString does what RLP says.
LEMMA ShortStrings ==
  ASSUME NEW b \in Seq(Int), Len(b) < 56
  PROVE  StringOf(b) = PlainString(b) /\ PlainString(b) \in Seq(Int)
<1>1. Header(Len(b), 128) = <<128 + Len(b)>> /\ PlainHeader(Len(b), 128) = <<128 + Len(b)>>
  BY DEF Header, PlainHeader
<1>2. <<128 + Len(b)>> \in Seq(Int) /\ <<128 + Len(b)>> \o b \in Seq(Int)
  <2>1. 128 + Len(b) \in Int
    BY LenProperties
  <2> DEFINE h == 128 + Len(b)
  <2> HIDE DEF h
  <2>2. <<h>> \in Seq(Int)
    BY <2>1 DEF h
  <2>3. QED
    BY <2>2, ConcatProperties DEF h
<1>3. QED
  BY <1>1, <1>2 DEF StringOf, PlainString

\* An access list without entries has one byte.
LEMMA NoAccessList ==
  /\ AccessListOf(<<>>) = <<192>>
  /\ PlainList([i \in 1 .. Len(<<>>) |-> PlainEntry(<<>>[i])]) = <<192>>
<1>1. FoldLeft(LAMBDA n, entry : n + LengthOfLength(EntryContent(entry)), 0, <<>>) = 0
  <2> DEFINE Body(g) == [s \in SUBSET {} |->
                           IF s = {} THEN 0
                           ELSE g[s \ {Max(s)}] + LengthOfLength(EntryContent(<<>>[Max(s)]))]
             it == CHOOSE g : g = Body(g)
             z == [s \in SUBSET {} |-> 0]
  <2>1. z = Body(z)
    OBVIOUS
  <2>2. it = Body(it)
    <3> HIDE DEF Body, z
    <3>1. QED
      BY <2>1
  <2>3. it[{}] = 0
    <3> HIDE DEF it
    <3>1. QED
      BY <2>2
  <2>4. FoldLeft(LAMBDA n, entry : n + LengthOfLength(EntryContent(entry)), 0, <<>>) = it[DOMAIN <<>>]
    BY DEF FoldLeft, MapThenFoldSet
  <2>5. DOMAIN <<>> = {}
    OBVIOUS
  <2>6. QED
    BY <2>3, <2>4, <2>5
<1>2. Header(0, 192) = <<192>> /\ PlainHeader(0, 192) = <<192>>
  BY DEF Header, PlainHeader
<1>3. <<192>> \o <<>> = <<192>>
  OBVIOUS
<1>4. /\ [i \in 1 .. Len(<<>>) |-> EntryOf(<<>>[i])] = <<>>
      /\ [i \in 1 .. Len(<<>>) |-> PlainEntry(<<>>[i])] = <<>>
      /\ Len(<<>>) = 0
  OBVIOUS
<1>5. AccessListOf(<<>>) = <<192>>
  BY <1>1, <1>2, <1>3, <1>4, FlattenEmpty DEF AccessListOf
<1>6. QED
  BY <1>2, <1>3, <1>4, <1>5, FlattenEmpty DEF PlainList

\* A list of at least 56 and less than 256 bytes: its length takes one byte.
LEMMA LengthOfLongList ==
  ASSUME NEW n \in 56 .. 255
  PROVE  LengthOfLength(n) = 2
<1> DEFINE S == {b \in 0 .. 30 : n < 2 ^ b}
           m == Min(S)
<1>1. 2 ^ 8 = 256 /\ 2 ^ 5 = 32
  <2>1. 2 ^ (0 + 1) = 2 /\ 2 ^ (1 + 1) = 4 /\ 2 ^ (2 + 3) = 2 ^ 2 * 2 ^ 3 /\ 2 ^ (2 + 1) = 8
    <3>1. 2 ^ (0 + 1) = 2 * 2 ^ 0
      BY PowerNext
    <3>2. 2 ^ (1 + 1) = 2 * 2 ^ (0 + 1) /\ 2 ^ (2 + 1) = 2 * 2 ^ (1 + 1)
      BY PowerNext
    <3>3. 2 ^ (2 + 3) = 2 ^ 2 * 2 ^ 3
      BY PowerSum
    <3>4. QED
      BY <3>1, <3>2, <3>3, PowerZero
  <2>2. QED
    BY <2>1, PowerEight
<1>2. 8 \in S /\ S \subseteq Nat
  BY <1>1
<1>3. \A b \in S : b >= 6
  <2> SUFFICES ASSUME NEW b \in S PROVE b >= 6
    OBVIOUS
  <2>1. b \in Nat /\ n < 2 ^ b
    OBVIOUS
  <2> HIDE DEF S
  <2> SUFFICES ASSUME b <= 5 PROVE FALSE
    BY <2>1
  <2>2. 5 \in Nat
    OBVIOUS
  <2>3. 2 ^ b <= 2 ^ 5 /\ 2 ^ b \in Nat
    BY ONLY <2>1, <2>2, b <= 5, PowerMonotone, PowerType
  <2> DEFINE pow == 2 ^ b
  <2>4. pow <= 32 /\ pow \in Nat /\ n < pow
    BY <1>1, <2>1, <2>3
  <2> HIDE DEF pow
  <2>5. QED
    BY <2>4
<1> HIDE DEF S
<1>4. m \in S /\ \A b \in S : m <= b
  BY <1>2, LeastElement DEF Min
<1>5. m \in 6 .. 8
  <2>1. m \in Nat /\ m >= 6 /\ m <= 8
    BY <1>2, <1>3, <1>4
  <2>2. QED
    BY <2>1
<1>6. CountBits(n) = m
  BY DEF CountBits, S
<1> HIDE DEF m
<1>7. (m + 15) \div 8 = 2
  BY <1>5
<1>8. QED
  BY <1>6, <1>7 DEF LengthOfLength

\* The header of a list below 256 bytes, which the second of the code's two
\* header writers makes, is the one that RLP says.
LEMMA ListHeaders ==
  ASSUME NEW n \in 0 .. 255
  PROVE  /\ ListHeader(n) = PlainHeader(n, 192)
         /\ ListHeader(n) \in Seq(Int) /\ Len(ListHeader(n)) \in 1 .. 2
<1>1. CASE n < 56
  BY <1>1 DEF ListHeader, PlainHeader
<1>2. CASE ~ (n < 56)
  <2>1. n \in 56 .. 255 /\ n \in 1 .. 255
    BY <1>2
  <2>2. LengthOfLength(n) = 2
    BY <2>1, LengthOfLongList
  <2>3. LengthByte(n, 1 - 1) = n
    <3>1. 8 * (1 - 1) = 0 /\ n \div 1 = n /\ n % 256 = n
      BY <2>1, ModOfSmall
    <3>2. 2 ^ (8 * (1 - 1)) = 1
      BY <3>1, PowerZero
    <3>3. QED
      BY <3>1, <3>2 DEF LengthByte
  <2>4. [i \in 1 .. (2 - 1) |-> LengthByte(n, i - 1)] = <<n>>
    <3>1. \A i \in 1 .. (2 - 1) : i = 1
      OBVIOUS
    <3>2. [i \in 1 .. (2 - 1) |-> LengthByte(n, i - 1)] = [i \in 1 .. 1 |-> n]
      BY <2>3, <3>1
    <3>3. QED
      BY <3>2
  <2>5. ListHeader(n) = <<248>> \o <<n>>
    BY <1>2, <2>2, <2>4 DEF ListHeader
  <2>6. PlainHeader(n, 192) = <<248>> \o <<n>>
    <3>1. NumberBytes[n] = <<n>> /\ Len(<<n>>) = 1
      BY <2>1, NumberBytesDefined
    <3>2. QED
      BY <1>2, <3>1 DEF PlainHeader
  <2>7. QED
    BY <2>5, <2>6
<1>3. QED
  BY <1>1, <1>2

-----------------------------------------------------------------------------
(* The buffer: content behind a gap of six bytes *)

\* buf holds the bytes c behind its gap.
Carries(buf, c) ==
  /\ buf \in Seq(Int) /\ Len(buf) = 6 + Len(c)
  /\ \A i \in 1 .. Len(c) : buf[6 + i] = c[i]

\* Bytes appended to the buffer are appended to what it carries.
LEMMA CarriesMore ==
  ASSUME NEW buf, NEW c \in Seq(Int), NEW b \in Seq(Int), Carries(buf, c)
  PROVE  Carries(buf \o b, c \o b) /\ c \o b \in Seq(Int) /\ Len(c) <= Len(c \o b)
<1> DEFINE w == buf \o b
           d == c \o b
           l == Len(c)
           k == Len(b)
<1>1. l \in Nat /\ k \in Nat /\ buf \in Seq(Int) /\ Len(buf) = 6 + l
      /\ \A i \in 1 .. l : buf[6 + i] = c[i]
  BY LenProperties DEF Carries
<1>2. /\ w \in Seq(Int) /\ Len(w) = (6 + l) + k
      /\ \A i \in 1 .. (6 + l) + k : w[i] = IF i <= 6 + l THEN buf[i] ELSE b[i - (6 + l)]
  <2> HIDE DEF l, k
  <2>1. /\ w \in Seq(Int) /\ Len(w) = Len(buf) + Len(b)
        /\ \A i \in 1 .. Len(buf) + Len(b) : w[i] = IF i <= Len(buf) THEN buf[i] ELSE b[i - Len(buf)]
    BY <1>1, ConcatProperties
  <2> HIDE DEF w
  <2>2. QED
    BY <1>1, <2>1 DEF k
<1>3. /\ d \in Seq(Int) /\ Len(d) = l + k
      /\ \A i \in 1 .. l + k : d[i] = IF i <= l THEN c[i] ELSE b[i - l]
  BY ConcatProperties
<1> HIDE DEF w, d, l, k
<1>4. \A i \in 1 .. l + k : w[6 + i] = d[i]
  <2> SUFFICES ASSUME NEW i \in 1 .. l + k PROVE w[6 + i] = d[i]
    OBVIOUS
  <2>1. 6 + i \in 1 .. (6 + l) + k /\ (6 + i) - (6 + l) = i - l
    BY <1>1
  <2>2. CASE i <= l
    <3>1. 6 + i <= 6 + l /\ i \in 1 .. l
      BY <1>1, <2>2
    <3>2. QED
      BY <1>1, <1>2, <1>3, <2>1, <2>2, <3>1
  <2>3. CASE ~ (i <= l)
    <3>1. ~ (6 + i <= 6 + l)
      BY <1>1, <2>3
    <3>2. QED
      BY <1>2, <1>3, <2>1, <2>3, <3>1
  <2>4. QED
    BY <2>2, <2>3
<1>5. Len(w) = 6 + Len(d) /\ Len(c) <= Len(d)
  BY <1>1, <1>2, <1>3 DEF l
<1>6. Carries(w, d)
  BY <1>2, <1>3, <1>4, <1>5 DEF Carries
<1>7. QED
  BY <1>3, <1>5, <1>6 DEF w, d

\* Writing type and header into the gap leaves what the buffer carries, and from
\* the type on the buffer is the type and the list.
LEMMA HeaderInGap ==
  ASSUME NEW buf, NEW c \in Seq(Int), Len(c) < 256, Carries(buf, c)
  PROVE  /\ TypeIndex(buf) \in 3 .. 4
         /\ Carries(Headed(buf), c)
         /\ \A w \in Seq(Int) :
              Len(w) = Len(buf) /\ (\A i \in 2 .. Len(buf) : w[i] = Headed(buf)[i])
                => From(w, TypeIndex(buf)) = <<2>> \o (PlainHeader(Len(c), 192) \o c)
<1> DEFINE n == Len(c)
           h == ListHeader(n)
           l == Len(h)
           t == TypeIndex(buf)
           head == <<2>> \o h
           g == Headed(buf)
<1>1. n \in 0 .. 255
  <2> DEFINE m == Len(c)
  <2>1. m \in Nat /\ m < 256
    BY LenProperties
  <2> HIDE DEF m
  <2>2. m \in 0 .. 255
    BY <2>1
  <2>3. QED
    BY <2>2 DEF m
<1>2. buf \in Seq(Int) /\ Len(buf) = 6 + n /\ (\A i \in 1 .. n : buf[6 + i] = c[i])
      /\ \A i \in 1 .. (6 + n) : buf[i] \in Int
  BY ElementOfSeq DEF Carries
<1>3. Len(buf) - Gap = n
  BY <1>1, <1>2 DEF Gap
<1> HIDE DEF n
<1>4. h = PlainHeader(n, 192) /\ h \in Seq(Int) /\ l \in 1 .. 2
  BY <1>1, ListHeaders
<1>5. t = 5 - l
  <2>1. t = Gap - l - 1
    BY <1>3 DEF TypeIndex
  <2> HIDE DEF l, t
  <2>2. QED
    BY <1>4, <2>1 DEF Gap
<1>6. g = [i \in 1 .. (6 + n) |-> IF i > t /\ i <= 6 THEN head[i - t] ELSE buf[i]]
  BY <1>2, <1>3 DEF Headed, Gap
<1> HIDE DEF h, t, g
<1>7. /\ head \in Seq(Int) /\ Len(head) = 1 + l
      /\ \A i \in 1 .. (1 + l) : head[i] \in Int
  <2>1. <<2>> \in Seq(Int) /\ Len(<<2>>) = 1
    OBVIOUS
  <2>2. head \in Seq(Int) /\ Len(head) = 1 + l
    BY <1>4, <2>1, ConcatProperties
  <2> HIDE DEF head, l
  <2>3. QED
    BY <2>2, ElementOfSeq
<1> HIDE DEF head, l
<1>8. t \in 3 .. 4
  BY <1>4, <1>5
<1>9. \A i \in 1 .. (6 + n) : i > t /\ i <= 6 => i - t \in 1 .. (1 + l)
  BY <1>4, <1>5
<1>10. g \in Seq(Int) /\ Len(g) = 6 + n
  <2>1. \A i \in 1 .. (6 + n) : (IF i > t /\ i <= 6 THEN head[i - t] ELSE buf[i]) \in Int
    BY <1>2, <1>7, <1>9
  <2>2. 6 + n \in Nat
    BY <1>1
  <2> DEFINE m == 6 + n
  <2> HIDE DEF m
  <2>3. m \in Nat /\ g \in [1 .. m -> Int]
    BY <1>6, <2>1, <2>2 DEF m
  <2>4. g \in Seq(Int) /\ Len(g) = m
    BY <2>3
  <2>5. QED
    BY <2>4 DEF m
<1>11. \A i \in 1 .. n : g[6 + i] = c[i]
  <2> SUFFICES ASSUME NEW i \in 1 .. n PROVE g[6 + i] = c[i]
    OBVIOUS
  <2>1. 6 + i \in 1 .. (6 + n) /\ ~ (6 + i <= 6)
    BY <1>1
  <2>2. g[6 + i] = buf[6 + i]
    BY <1>6, <2>1
  <2>3. QED
    BY <1>2, <2>2
<1>12. Carries(g, c)
  BY <1>10, <1>11 DEF Carries, n
<1>13. ASSUME NEW w \in Seq(Int), Len(w) = Len(buf), \A i \in 2 .. Len(buf) : w[i] = g[i]
       PROVE  From(w, t) = <<2>> \o (PlainHeader(Len(c), 192) \o c)
  <2> DEFINE a == From(w, t)
             b == head \o c
             k == (1 + l) + n
  <2>1. /\ b \in Seq(Int) /\ Len(b) = k
        /\ \A i \in 1 .. k : b[i] = IF i <= 1 + l THEN head[i] ELSE c[i - (1 + l)]
    <3>1. /\ b \in Seq(Int) /\ Len(b) = Len(head) + Len(c)
          /\ \A i \in 1 .. Len(head) + Len(c) :
               b[i] = IF i <= Len(head) THEN head[i] ELSE c[i - Len(head)]
      BY <1>7, ConcatProperties
    <3> HIDE DEF b
    <3>2. QED
      BY <1>7, <3>1 DEF n
  <2>2. b = <<2>> \o (PlainHeader(Len(c), 192) \o c)
    <3>1. <<2>> \in Seq(Int)
      OBVIOUS
    <3>2. b = <<2>> \o (h \o c)
      BY SMTT(30), <1>4, <3>1, ConcatAssociative DEF head
    <3>3. QED
      BY <1>4, <3>2 DEF n
  <2>3. t + 1 \in Int /\ 6 + n \in Int /\ (6 + n) - (t + 1) + 1 = k /\ t + 1 <= 6 + n
        /\ k \in Nat
    BY <1>1, <1>4, <1>5
  <2>4. \A i \in (t + 1) .. (6 + n) : i \in 1 .. (6 + n) /\ i \in 2 .. (6 + n)
    BY <1>1, <1>8
  <2>5. Len(w) = 6 + n /\ \A i \in 2 .. (6 + n) : w[i] = g[i]
    BY <1>2, <1>13
  <2>6. \A i \in (t + 1) .. (6 + n) : w[i] \in Int
    BY <2>4, <2>5, ElementOfSeq
  <2>7. /\ a \in Seq(Int) /\ Len(a) = k
        /\ \A i \in 1 .. k : a[i] = w[((t + 1) + i) - 1]
    <3> DEFINE p == t + 1
               q == 6 + n
               z == SubSeq(w, p, q)
    <3> HIDE DEF p, q, k
    <3>1. p \in Int /\ q \in Int /\ \A i \in p .. q : w[i] \in Int
      BY <2>3, <2>6 DEF p, q
    <3>2. p <= q /\ (q - p) + 1 = k
      BY <2>3 DEF p, q
    <3>3. /\ z \in Seq(Int)
          /\ Len(z) = IF p <= q THEN q - p + 1 ELSE 0
          /\ \A i \in 1 .. q - p + 1 : z[i] = w[p + i - 1]
      BY <3>1, SubSeqProperties
    <3> HIDE DEF z
    <3>4. Len(z) = k /\ \A i \in 1 .. k : z[i] = w[(p + i) - 1]
      <4>1. 1 .. q - p + 1 = 1 .. k
        BY <3>2
      <4>2. \A i \in 1 .. k : p + i - 1 = (p + i) - 1
        BY <2>3, <3>1 DEF p
      <4>3. Len(z) = k
        BY <3>1, <3>2, <3>3
      <4>4. \A i \in 1 .. k : z[i] = w[p + i - 1]
        BY <3>3, <4>1
      <4>5. QED
        BY <4>2, <4>3, <4>4
    <3>5. a = z
      BY <2>5 DEF From, z, p, q
    <3>6. QED
      BY <3>3, <3>4, <3>5 DEF p
  <2>8. ASSUME NEW i \in 1 .. k PROVE a[i] = b[i]
    <3> DEFINE j == t + i
    <3>1. ((t + 1) + i) - 1 = j /\ j \in 1 .. (6 + n) /\ j \in 2 .. (6 + n) /\ j > t /\ j - t = i
      BY <1>1, <1>4, <1>5
    <3>2. a[i] = w[j] /\ w[j] = g[j]
      <4>1. a[i] = w[((t + 1) + i) - 1]
        BY <2>7
      <4>2. QED
        BY <2>5, <3>1, <4>1
    <3>3. CASE i <= 1 + l
      <4>1. j <= 6
        BY <1>1, <1>4, <1>5, <3>3
      <4> HIDE DEF j, a, b, k
      <4>2. g[j] = head[j - t]
        BY <1>6, <3>1, <4>1
      <4>3. b[i] = head[i]
        BY <2>1, <3>3
      <4>4. QED
        BY <3>1, <3>2, <4>2, <4>3
    <3>4. CASE ~ (i <= 1 + l)
      <4>1. ~ (j <= 6) /\ j = 6 + (i - (1 + l)) /\ i - (1 + l) \in 1 .. n
        BY <1>1, <1>4, <1>5, <3>4
      <4> HIDE DEF j, a, b, k
      <4>2. g[j] = buf[j]
        BY <1>6, <3>1, <4>1
      <4>3. b[i] = c[i - (1 + l)]
        BY <2>1, <3>4
      <4>4. buf[j] = c[i - (1 + l)]
        BY <1>2, <4>1
      <4>5. QED
        BY <3>2, <4>2, <4>3, <4>4
    <3>5. QED
      BY <3>3, <3>4
  <2> HIDE DEF a, b, k
  <2>9. a = b
    BY <2>1, <2>7, <2>8, SeqEqual
  <2>10. QED
    BY <2>2, <2>9 DEF a
<1>14. QED
  BY <1>8, <1>12, <1>13 DEF t, g

-----------------------------------------------------------------------------
(* What a builder's fields encode to *)

\* The strings of the request are short and it has no access list.
ShortRequest(r) == r \in Requests /\ Len(r.calldata) < 56 /\ r.accessList = <<>>

\* encodeNumber, on any uint256_t, does what RLP says.
LEMMA Numbers ==
  ASSUME NEW n, IsWord(n)
  PROVE  /\ NumberOf(n) = PlainString(NumberBytes[n])
         /\ PlainString(NumberBytes[n]) \in Seq(Int)
<1>1. NumberBytes[n] \in Seq(Int) /\ Len(NumberBytes[n]) < 56
  <2>1. n \in Nat /\ Len(NumberBytes[n]) <= 32
    BY DEF IsWord
  <2>2. NumberBytes[n] \in Seq(Int)
    BY <2>1, NumberBytesDefined
  <2> DEFINE l == Len(NumberBytes[n])
  <2>3. l \in Nat /\ l <= 32
    BY <2>1, <2>2, LenProperties
  <2> HIDE DEF l
  <2>4. l < 56
    BY <2>3
  <2>5. QED
    BY <2>2, <2>4 DEF l
<1>2. QED
  BY <1>1, ShortStrings DEF NumberOf

\* The code appends the items of the transaction one after the other.
LEMMA ContentIsUnsigned ==
  ASSUME NEW r, ShortRequest(r)
  PROVE  /\ Unsigned(r) \in Seq(Seq(Int))
         /\ Content(r) = FlattenSeq(Unsigned(r)) /\ Content(r) \in Seq(Int)
<1> DEFINE P(n) == PlainString(NumberBytes[n])
           L == PlainList([i \in 1 .. Len(r.accessList) |-> PlainEntry(r.accessList[i])])
<1>1. /\ IsWord(r.nonce) /\ IsWord(r.maxPriorityFeePerGas) /\ IsWord(r.maxFeePerGas)
      /\ IsWord(r.gasLimit) /\ IsWord(r.value)
  <2>1. \A f \in Field \ {"dst", "calldata", "accessList"} : IsWord(r[f])
    BY RequestsAssumption DEF ShortRequest
  <2>2. QED
    BY <2>1 DEF Field
<1>2. IsWord(1)
  <2>1. NumberBytes[1] = <<1>> /\ Len(<<1>>) = 1
    BY SMTT(30), NumberBytesDefined
  <2>2. QED
    BY <2>1 DEF IsWord
<1>3. /\ NumberOf(1) = P(1) /\ P(1) \in Seq(Int)
      /\ NumberOf(r.nonce) = P(r.nonce) /\ P(r.nonce) \in Seq(Int)
      /\ NumberOf(r.maxPriorityFeePerGas) = P(r.maxPriorityFeePerGas)
      /\ P(r.maxPriorityFeePerGas) \in Seq(Int)
      /\ NumberOf(r.maxFeePerGas) = P(r.maxFeePerGas) /\ P(r.maxFeePerGas) \in Seq(Int)
      /\ NumberOf(r.gasLimit) = P(r.gasLimit) /\ P(r.gasLimit) \in Seq(Int)
      /\ NumberOf(r.value) = P(r.value) /\ P(r.value) \in Seq(Int)
  BY <1>1, <1>2, Numbers
<1>4. /\ StringOf(r.dst) = PlainString(r.dst) /\ PlainString(r.dst) \in Seq(Int)
      /\ StringOf(r.calldata) = PlainString(r.calldata) /\ PlainString(r.calldata) \in Seq(Int)
  <2>1. r.calldata \in Seq(0 .. 255) /\ r.dst \in Seq(0 .. 255) /\ Len(r.dst) = 20
    BY RequestsAssumption DEF ShortRequest
  <2>2. 0 .. 255 \subseteq Int
    OBVIOUS
  <2>3. r.calldata \in Seq(Int) /\ r.dst \in Seq(Int)
    BY <2>1, <2>2, SeqMonotonic
  <2>4. Len(r.calldata) < 56 /\ Len(r.dst) < 56
    BY <2>1 DEF ShortRequest
  <2>5. QED
    BY <2>3, <2>4, ShortStrings
<1>5. AccessListOf(r.accessList) = L /\ L = <<192>> /\ L \in Seq(Int)
  <2>1. r.accessList = <<>>
    BY DEF ShortRequest
  <2>2. AccessListOf(r.accessList) = <<192>>
    BY <2>1, NoAccessList
  <2>3. L = <<192>>
    BY <2>1, NoAccessList
  <2>4. <<192>> \in Seq(Int)
    OBVIOUS
  <2>5. QED
    BY <2>2, <2>3, <2>4
<1> DEFINE five == <<1, r.nonce, r.maxPriorityFeePerGas, r.maxFeePerGas, r.gasLimit>>
           a1 == P(1)
           a2 == P(r.nonce)
           a3 == P(r.maxPriorityFeePerGas)
           a4 == P(r.maxFeePerGas)
           a5 == P(r.gasLimit)
           a6 == PlainString(r.dst)
           a7 == P(r.value)
           a8 == PlainString(r.calldata)
<1>6. Content(r) = FlattenSeq(<<a1, a2, a3, a4, a5, a6, a7, a8, L>>)
  BY <1>3, <1>4, <1>5 DEF Content
<1>7. [i \in 1 .. 5 |-> P(five[i])] = <<a1, a2, a3, a4, a5>>
  <2> HIDE DEF P
  <2>1. five[1] = 1 /\ five[2] = r.nonce /\ five[3] = r.maxPriorityFeePerGas
        /\ five[4] = r.maxFeePerGas /\ five[5] = r.gasLimit
    OBVIOUS
  <2> HIDE DEF five
  <2> DEFINE f == [i \in 1 .. 5 |-> P(five[i])]
  <2>2. f[1] = a1 /\ f[2] = a2 /\ f[3] = a3 /\ f[4] = a4 /\ f[5] = a5
    BY <2>1
  <2>3. f = [i \in 1 .. 5 |-> f[i]]
    OBVIOUS
  <2> HIDE DEF f, a1, a2, a3, a4, a5
  <2>4. f = <<a1, a2, a3, a4, a5>>
    BY <2>2, <2>3
  <2>5. QED
    BY <2>4 DEF f
<1>8. Unsigned(r) = [i \in 1 .. 5 |-> P(five[i])] \o <<a6, a7, a8, L>>
  BY DEF Unsigned
<1>9. /\ a1 \in Seq(Int) /\ a2 \in Seq(Int) /\ a3 \in Seq(Int) /\ a4 \in Seq(Int)
      /\ a5 \in Seq(Int) /\ a6 \in Seq(Int) /\ a7 \in Seq(Int) /\ a8 \in Seq(Int)
      /\ L \in Seq(Int)
  BY <1>3, <1>4, <1>5
<1> HIDE DEF a1, a2, a3, a4, a5, a6, a7, a8, L, five, P
<1>10. <<a1, a2, a3, a4, a5>> \o <<a6, a7, a8, L>> = <<a1, a2, a3, a4, a5, a6, a7, a8, L>>
  BY NineIsConcat
<1>11. Unsigned(r) = <<a1, a2, a3, a4, a5, a6, a7, a8, L>>
  BY <1>7, <1>8, <1>10
<1>12. Unsigned(r) \in Seq(Seq(Int))
  <2> DEFINE V == Seq(Int)
  <2>1. a1 \in V /\ a2 \in V /\ a3 \in V /\ a4 \in V /\ a5 \in V /\ a6 \in V /\ a7 \in V
        /\ a8 \in V /\ L \in V
    BY <1>9
  <2> HIDE DEF V
  <2>2. <<a1, a2, a3, a4, a5, a6, a7, a8, L>> \in Seq(V)
    BY <2>1
  <2>3. QED
    BY <1>11, <2>2 DEF V
<1>13. QED
  BY <1>6, <1>11, <1>12, FlattenType

\* A signature's three numbers are short strings.
LEMMA SignatureStrings ==
  ASSUME NEW sig \in Signatures
  PROVE  /\ NumberOf(sig.v) = PlainString(NumberBytes[sig.v])
         /\ PlainString(NumberBytes[sig.v]) \in Seq(Int)
         /\ StringOf(sig.r) = PlainString(sig.r) /\ PlainString(sig.r) \in Seq(Int)
         /\ StringOf(sig.s) = PlainString(sig.s) /\ PlainString(sig.s) \in Seq(Int)
<1>1. IsWord(sig.v) /\ sig.r \in Seq(0 .. 255) /\ sig.s \in Seq(0 .. 255)
      /\ Len(sig.r) <= 32 /\ Len(sig.s) <= 32
  BY RequestsAssumption
<1>2. 0 .. 255 \subseteq Int
  OBVIOUS
<1>3. sig.r \in Seq(Int) /\ sig.s \in Seq(Int)
  BY <1>1, <1>2, SeqMonotonic
<1>4. Len(sig.r) < 56 /\ Len(sig.s) < 56
  BY <1>1, <1>3, LenProperties
<1>5. QED
  BY <1>1, <1>3, <1>4, ShortStrings, Numbers

\* With its signature a transaction has three more items.
LEMMA SignedContent ==
  ASSUME NEW r, ShortRequest(r), NEW sig \in Signatures
  PROVE  FlattenSeq(WithSignature(r, sig))
           = ((FlattenSeq(Unsigned(r)) \o PlainString(NumberBytes[sig.v])) \o PlainString(sig.r))
               \o PlainString(sig.s)
<1> DEFINE V == Seq(Int)
           u == Unsigned(r)
           a == PlainString(NumberBytes[sig.v])
           b == PlainString(sig.r)
           c == PlainString(sig.s)
<1>1. u \in Seq(V) /\ a \in V /\ b \in V /\ c \in V
  BY ContentIsUnsigned, SignatureStrings
<1> HIDE DEF V, u, a, b, c
<1>2. u \o <<a, b, c>> = Append(Append(Append(u, a), b), c)
  <2>1. <<a>> \in Seq(V) /\ <<b>> \in Seq(V) /\ <<c>> \in Seq(V) /\ <<a, b>> \in Seq(V)
    BY <1>1
  <2>2. <<a>> \o <<b>> = <<a, b>> /\ <<a, b>> \o <<c>> = <<a, b, c>>
    BY <1>1, PairIsConcat
  <2>3. u \o <<a, b>> = (u \o <<a>>) \o <<b>>
    <3> DEFINE x == <<a>>
               y == <<b>>
    <3>1. x \in Seq(V) /\ y \in Seq(V) /\ x \o y = <<a, b>>
      BY <2>1, <2>2
    <3> HIDE DEF x, y
    <3>2. (u \o x) \o y = u \o (x \o y)
      <4>1. u \in Seq(V)
        BY <1>1
      <4>2. x \in Seq(V) /\ y \in Seq(V)
        BY <3>1
      <4>3. QED
        BY ONLY <4>1, <4>2, ConcatAssociative
    <3>3. QED
      BY <3>1, <3>2 DEF x, y
  <2>4. u \o <<a, b, c>> = (u \o <<a, b>>) \o <<c>>
    BY SMTT(30), <1>1, <2>1, <2>2, ConcatAssociative
  <2>5. /\ Append(u, a) = u \o <<a>> /\ Append(u, a) \in Seq(V)
    BY <1>1, AppendProperties, AppendIsConcat
  <2>6. /\ Append(Append(u, a), b) = Append(u, a) \o <<b>>
        /\ Append(Append(u, a), b) \in Seq(V)
    BY <1>1, <2>5, AppendProperties, AppendIsConcat
  <2>7. Append(Append(Append(u, a), b), c) = Append(Append(u, a), b) \o <<c>>
    BY <1>1, <2>6, AppendIsConcat
  <2>8. QED
    BY <2>3, <2>4, <2>5, <2>6, <2>7
<1>3. /\ FlattenSeq(Append(u, a)) = FlattenSeq(u) \o a
      /\ FlattenSeq(Append(Append(u, a), b)) = FlattenSeq(Append(u, a)) \o b
      /\ FlattenSeq(Append(Append(Append(u, a), b), c)) = FlattenSeq(Append(Append(u, a), b)) \o c
  <2>1. Append(u, a) \in Seq(V) /\ Append(Append(u, a), b) \in Seq(V)
    BY <1>1, AppendProperties
  <2>2. QED
    BY <1>1, <2>1, FlattenAppend DEF V
<1>4. WithSignature(r, sig) = u \o <<a, b, c>>
  BY DEF WithSignature, u, a, b, c
<1>5. QED
  BY <1>2, <1>3, <1>4 DEF u, a, b, c

-----------------------------------------------------------------------------
(* The specification *)

\* Between its steps the builder's buffer carries the request's items behind the
\* gap, and each stage has kept its promise.
BuilderInv ==
  /\ request \in Requests
  /\ stage \in {"idle", "encoded", "signed", "exported"}
  /\ stage \in {"signed", "exported"} => signature \in Signatures
  /\ stage \in {"encoded", "signed"} /\ ShortRequest(request)
       /\ (stage = "signed" => Small)
       => Carries(buffer, Content(request))
  /\ SignedIsTheRequest
  /\ ExportIsTheTransaction

\* The small requests of the properties are short.
LEMMA SmallIsShort ==
  ASSUME NEW r \in Requests, NEW sig \in Signatures,
         Len(r.calldata) < 56, r.accessList = <<>>, Len(FlattenSeq(WithSignature(r, sig))) < 256
  PROVE  ShortRequest(r) /\ Content(r) \in Seq(Int) /\ Len(Content(r)) < 256
<1>1. ShortRequest(r)
  BY DEF ShortRequest
<1> DEFINE u == FlattenSeq(Unsigned(r))
           a == PlainString(NumberBytes[sig.v])
           b == PlainString(sig.r)
           c == PlainString(sig.s)
<1>2. u = Content(r) /\ u \in Seq(Int)
  BY <1>1, ContentIsUnsigned
<1>3. a \in Seq(Int) /\ b \in Seq(Int) /\ c \in Seq(Int)
  BY SignatureStrings
<1>4. FlattenSeq(WithSignature(r, sig)) = ((u \o a) \o b) \o c
  BY <1>1, SignedContent
<1> HIDE DEF u, a, b, c
<1>5. u \o a \in Seq(Int) /\ Len(u \o a) = Len(u) + Len(a)
  BY <1>2, <1>3, ConcatProperties
<1>6. (u \o a) \o b \in Seq(Int) /\ Len((u \o a) \o b) = Len(u \o a) + Len(b)
  BY <1>3, <1>5, ConcatProperties
<1>7. Len(((u \o a) \o b) \o c) = Len((u \o a) \o b) + Len(c)
  BY <1>3, <1>6, ConcatProperties
<1>8. Len(u) \in Nat /\ Len(a) \in Nat /\ Len(b) \in Nat /\ Len(c) \in Nat
  BY <1>2, <1>3, LenProperties
<1>9. Len(((u \o a) \o b) \o c) < 256
  BY <1>4
<1>10. Len(u) < 256
  BY <1>5, <1>6, <1>7, <1>8, <1>9
<1>11. QED
  BY <1>1, <1>2, <1>10

\* Encode leaves the request's items behind an empty gap.
LEMMA EncodePreserves == ASSUME BuilderInv, Encode PROVE BuilderInv'
<1>1. /\ request' = request /\ request \in Requests /\ stage' = "encoded"
      /\ buffer' = [i \in 1 .. 6 |-> 0] \o Content(request)
  BY DEF BuilderInv, Encode, Gap
<1>2. ASSUME ShortRequest(request) PROVE Carries(buffer', Content(request))
  <2> DEFINE gap == [i \in 1 .. 6 |-> 0]
             c == Content(request)
             n == Len(c)
  <2>1. c \in Seq(Int) /\ n \in Nat
    BY <1>2, ContentIsUnsigned, LenProperties
  <2>2. gap \in Seq(Int) /\ Len(gap) = 6
    OBVIOUS
  <2> HIDE DEF gap, c, n
  <2>3. Len(c) = n
    BY DEF n
  <2>4. Joins(gap \o c, Int, gap, c, 6, n)
    BY <2>1, <2>2, <2>3, 6 \in Nat, ConcatAt
  <2>5. Carries(gap \o c, c)
    BY <2>3, <2>4 DEF Joins, Carries
  <2>6. QED
    BY <1>1, <2>5 DEF gap, c
<1>3. SignedIsTheRequest' /\ ExportIsTheTransaction'
  BY <1>1 DEF SignedIsTheRequest, ExportIsTheTransaction
<1>4. ShortRequest(request)' => ShortRequest(request)
  BY <1>1 DEF ShortRequest
<1>5. Content(request)' = Content(request)
  BY <1>1
<1>6. Carries(buffer, Content(request))' = Carries(buffer', Content(request))
  BY <1>1
<1>7. QED
  BY <1>1, <1>2, <1>3, <1>4, <1>6 DEF BuilderInv

\* Sign signs type, header and items.
LEMMA SignPreserves == ASSUME BuilderInv, Sign PROVE BuilderInv'
<1>1. /\ request' = request /\ request \in Requests /\ stage' = "signed" /\ stage = "encoded"
      /\ signature' \in Signatures
      /\ buffer' = Headed(buffer) /\ signed' = From(buffer', TypeIndex(buffer))
  BY DEF BuilderInv, Sign
<1>2. ASSUME Small'
      PROVE  /\ Carries(buffer', Content(request))
             /\ signed' = <<2>> \o PlainList(Unsigned(request))
  <2> DEFINE c == Content(request)
  <2>1. ShortRequest(request) /\ c \in Seq(Int) /\ Len(c) < 256
    <3>1. /\ Len(request.calldata) < 56 /\ request.accessList = <<>>
          /\ Len(FlattenSeq(WithSignature(request, signature'))) < 256
      BY <1>1, <1>2 DEF Small
    <3>2. QED
      BY <1>1, <3>1, SmallIsShort
  <2>2. Carries(buffer, c)
    BY <1>1, <2>1 DEF BuilderInv
  <2>3. c = FlattenSeq(Unsigned(request))
    BY <2>1, ContentIsUnsigned
  <2> HIDE DEF c
  <2>4. /\ Carries(Headed(buffer), c)
        /\ \A w \in Seq(Int) :
             Len(w) = Len(buffer) /\ (\A i \in 2 .. Len(buffer) : w[i] = Headed(buffer)[i])
               => From(w, TypeIndex(buffer)) = <<2>> \o (PlainHeader(Len(c), 192) \o c)
    BY ZenonT(30), <2>1, <2>2, HeaderInGap
  <2>5. Headed(buffer) \in Seq(Int) /\ Len(Headed(buffer)) = Len(buffer)
    BY <2>2, <2>4 DEF Carries
  <2>6. From(Headed(buffer), TypeIndex(buffer)) = <<2>> \o (PlainHeader(Len(c), 192) \o c)
    BY <2>4, <2>5
  <2>7. PlainList(Unsigned(request)) = PlainHeader(Len(c), 192) \o c
    BY <2>3 DEF PlainList
  <2>8. QED
    BY <1>1, <2>4, <2>6, <2>7 DEF c
<1>3. SignedIsTheRequest'
  <2>1. Small' => signed' = <<2>> \o PlainList(Unsigned(request'))
    BY <1>1, <1>2
  <2>2. QED
    BY <2>1 DEF SignedIsTheRequest
<1>4. ExportIsTheTransaction'
  BY <1>1 DEF ExportIsTheTransaction
<1>5. Small' => Carries(buffer, Content(request))'
  BY <1>1, <1>2
<1>6. QED
  BY <1>1, <1>3, <1>4, <1>5 DEF BuilderInv

\* Export appends the signature and writes a header for the longer list.
LEMMA ExportPreserves == ASSUME BuilderInv, Export PROVE BuilderInv'
<1>1. /\ request' = request /\ request \in Requests /\ stage' = "exported" /\ stage = "signed"
      /\ signature' = signature /\ signature \in Signatures /\ signed' = signed
      /\ buffer' = [Complete(buffer, signature) EXCEPT ![1] = TypeIndex(Complete(buffer, signature))]
  BY DEF BuilderInv, Export
<1>2. Small' <=> Small
  BY <1>1 DEF Small
<1>3. ASSUME Small
      PROVE  From(buffer', buffer'[1]) = <<2>> \o PlainList(WithSignature(request, signature))
  <2> DEFINE u == Content(request)
             a == PlainString(NumberBytes[signature.v])
             b == PlainString(signature.r)
             d == PlainString(signature.s)
             c == ((u \o a) \o b) \o d
             buf == ((buffer \o a) \o b) \o d
             g == Headed(buf)
  <2>1. ShortRequest(request) /\ u \in Seq(Int)
    BY <1>1, <1>3, SmallIsShort DEF Small
  <2>2. Carries(buffer, u)
    BY <1>1, <1>3, <2>1 DEF BuilderInv
  <2>3. u = FlattenSeq(Unsigned(request))
    BY <2>1, ContentIsUnsigned
  <2>4. a \in Seq(Int) /\ b \in Seq(Int) /\ d \in Seq(Int)
    BY <1>1, SignatureStrings
  <2>5. CompleteInPlace(buffer, signature) = buf
    BY <1>1, SignatureStrings DEF CompleteInPlace
  <2>6. c = FlattenSeq(WithSignature(request, signature))
    BY <1>1, <2>1, <2>3, SignedContent
  <2>7. Len(c) < 256
    BY <1>3, <2>6 DEF Small
  <2> HIDE DEF u, a, b, d
  <2>8. Carries(buf, c) /\ c \in Seq(Int)
    <3>1. Carries(buffer \o a, u \o a) /\ u \o a \in Seq(Int)
      BY <2>1, <2>2, <2>4, CarriesMore
    <3>2. Carries((buffer \o a) \o b, (u \o a) \o b) /\ (u \o a) \o b \in Seq(Int)
      BY <2>4, <3>1, CarriesMore
    <3>3. QED
      BY <2>4, <3>2, CarriesMore
  <2> HIDE DEF c, buf
  <2>9. /\ TypeIndex(buf) \in 3 .. 4
        /\ Carries(g, c)
        /\ \A w \in Seq(Int) :
             Len(w) = Len(buf) /\ (\A i \in 2 .. Len(buf) : w[i] = g[i])
               => From(w, TypeIndex(buf)) = <<2>> \o (PlainHeader(Len(c), 192) \o c)
    BY <2>7, <2>8, HeaderInGap
  <2>10. g \in Seq(Int) /\ Len(g) = Len(buf) /\ 1 \in 1 .. Len(g) /\ Len(buf) \in Nat
    <3>1. g \in Seq(Int) /\ Len(g) = 6 + Len(c) /\ Len(buf) = 6 + Len(c) /\ Len(c) \in Nat
      BY <2>8, <2>9, LenProperties DEF Carries
    <3>2. QED
      BY <3>1
  <2>11. Complete(buffer, signature) = g
    BY <2>5 DEF Complete
  <2>12. TypeIndex(g) = TypeIndex(buf)
    BY <2>10 DEF TypeIndex
  <2> DEFINE t == TypeIndex(buf)
             w == [g EXCEPT ![1] = t]
  <2>13. buffer' = w
    BY <1>1, <2>11, <2>12
  <2>14. t \in 3 .. 4 /\ t \in Int
    BY <2>9
  <2> HIDE DEF g, t
  <2>15. /\ w \in Seq(Int) /\ Len(w) = Len(g)
         /\ \A j \in 1 .. Len(g) : w[j] = IF j = 1 THEN t ELSE g[j]
    BY <2>10, <2>14, ExceptSeq
  <2> HIDE DEF w
  <2>16. w[1] = t /\ \A i \in 2 .. Len(buf) : w[i] = g[i]
    BY <2>10, <2>15
  <2>17. From(w, t) = <<2>> \o (PlainHeader(Len(c), 192) \o c)
    BY <2>9, <2>10, <2>15, <2>16 DEF t
  <2>18. PlainList(WithSignature(request, signature)) = PlainHeader(Len(c), 192) \o c
    BY <2>6 DEF PlainList
  <2>19. QED
    BY <2>13, <2>16, <2>17, <2>18
<1>4. ExportIsTheTransaction'
  <2>1. Small' => From(buffer', buffer'[1]) = <<2>> \o PlainList(WithSignature(request', signature'))
    BY <1>1, <1>2, <1>3
  <2>2. QED
    BY <2>1 DEF ExportIsTheTransaction, Exported
<1>5. SignedIsTheRequest'
  <2>1. Small => signed = <<2>> \o PlainList(Unsigned(request))
    BY <1>1 DEF BuilderInv, SignedIsTheRequest
  <2>2. Small' => signed' = <<2>> \o PlainList(Unsigned(request'))
    BY <1>1, <1>2, <2>1
  <2>3. QED
    BY <2>2 DEF SignedIsTheRequest
<1>6. QED
  BY <1>1, <1>4, <1>5 DEF BuilderInv

\* At every step of the builder the buffer carries the request's items, and what
\* has been signed or exported is the request's encoding.
THEOREM BuildingIsInductive == BuilderSpec => []BuilderInv
<1>1. BuilderInit => BuilderInv
  BY DEF BuilderInit, BuilderInv, SignedIsTheRequest, ExportIsTheTransaction
<1>2. BuilderInv /\ [BuilderNext]_builderVars => BuilderInv'
  <2> SUFFICES ASSUME BuilderInv, [BuilderNext]_builderVars PROVE BuilderInv'
    OBVIOUS
  <2>1. CASE Encode
    BY <2>1, EncodePreserves
  <2>2. CASE Sign
    BY <2>2, SignPreserves
  <2>3. CASE Export
    BY <2>3, ExportPreserves
  <2>4. CASE UNCHANGED builderVars
    <3>1. /\ stage' = stage /\ request' = request /\ buffer' = buffer /\ signed' = signed
          /\ signature' = signature
      BY <2>4 DEF builderVars
    <3>2. QED
      BY <3>1 DEF BuilderInv, SignedIsTheRequest, ExportIsTheTransaction, Small, Exported
  <2>5. QED
    BY <2>1, <2>2, <2>3, <2>4 DEF BuilderNext
<1>3. QED
  BY <1>1, <1>2, PTL DEF BuilderSpec

\* What Sign hands to the key is the encoding of the unsigned transaction, for
\* every request and signature of any size the buffer's gap was made for.
THEOREM SignedRequests == BuilderSpec => []SignedIsTheRequest
<1>1. BuilderInv => SignedIsTheRequest
  BY DEF BuilderInv
<1>2. QED
  BY <1>1, BuildingIsInductive, PTL

\* What Export returns is the encoding of the signed transaction, likewise.
THEOREM ExportedTransactions == BuilderSpec => []ExportIsTheTransaction
<1>1. BuilderInv => ExportIsTheTransaction
  BY DEF BuilderInv
<1>2. QED
  BY <1>1, BuildingIsInductive, PTL

===============================================================================

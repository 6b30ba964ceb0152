----------------------------- MODULE DataLemmas -----------------------------
(***************************************************************************)
(* Facts about the data the models compute with, independent of any model: *)
(* induction over numbers and finite sets, the functions that folds and    *)
(* iterations define, sums, division and powers of two.  The induction     *)
(* principles take a SET of good values where a predicate is usual: a set  *)
(* can be given to a lemma.                                                *)
(***************************************************************************)
EXTENDS Functions, FiniteSetTheorems, TLAPS, Integers

-----------------------------------------------------------------------------
(* Induction *)

LEMMA LeastElement ==
  ASSUME NEW T \in SUBSET Nat, T # {}
  PROVE  \E m \in T : \A n \in T : m <= n
<1> DEFINE R == {ss \in Nat \X Nat : ss[1] < ss[2]}
<1>1. IsWellFoundedOn(R, Nat)
  BY NatLessThanWellFounded DEF OpToRel
<1>2. \A x, y \in Nat : x < y => <<x, y>> \in R
  OBVIOUS
<1> HIDE DEF R
<1>3. PICK x \in T : \A y \in T : <<y, x>> \notin R
  BY <1>1, WFMin
<1>4. \A y \in T : ~(y < x)
  BY <1>2, <1>3
<1>5. QED
  BY <1>4

LEMMA GreatestElement ==
  ASSUME NEW n \in Nat, NEW S \in SUBSET (0 .. n), S # {}
  PROVE  \E m \in S : \A k \in S : k <= m
<1> DEFINE T == {t \in Nat : \E s \in S : t = n - s}
<1>1. T # {}
  <2>1. PICK s \in S : TRUE
    OBVIOUS
  <2>2. n - s \in T
    BY s \in 0 .. n
  <2>3. QED
    BY <2>2
<1>2. PICK t \in T : \A u \in T : t <= u
  <2>1. T \in SUBSET Nat
    OBVIOUS
  <2> HIDE DEF T
  <2>2. QED
    BY <1>1, <2>1, LeastElement
<1>3. PICK s \in S : t = n - s
  OBVIOUS
<1>4. ASSUME NEW k \in S
      PROVE  k <= s
  <2>1. k \in 0 .. n /\ s \in 0 .. n
    OBVIOUS
  <2>2. n - k \in T
    BY <2>1
  <2>3. t <= n - k
    BY <1>2, <2>2
  <2>4. QED
    BY <1>3, <2>1, <2>3
<1>5. QED
  BY <1>4

\* A set of numbers that has 0 and the successor of each member has all.
LEMMA NatSetInduction ==
  ASSUME NEW Good,
         0 \in Good,
         \A n \in Nat : n \in Good => n + 1 \in Good
  PROVE  Nat \subseteq Good
<1> DEFINE Bad == {n \in Nat : n \notin Good}
<1> SUFFICES ASSUME Bad # {} PROVE FALSE
  OBVIOUS
<1>1. PICK m \in Bad : \A n \in Bad : m <= n
  <2>1. Bad \in SUBSET Nat
    OBVIOUS
  <2> HIDE DEF Bad
  <2>2. QED
    BY <2>1, LeastElement
<1>2. m \in Nat /\ m # 0 /\ m - 1 \in Nat /\ m - 1 \notin Bad
  BY <1>1
<1>3. m - 1 \in Good /\ (m - 1) + 1 = m
  BY <1>2
<1>4. QED
  BY <1>1, <1>2, <1>3

\* A set of sets that has the empty one, and each subset of U without one of
\* whose elements it has, has them all.
LEMMA SubsetInduction ==
  ASSUME NEW U, IsFiniteSet(U), NEW Good,
         {} \in Good,
         \A s \in SUBSET U : s # {} /\ (\A x \in s : s \ {x} \in Good) => s \in Good
  PROVE  SUBSET U \subseteq Good
<1> DEFINE Sizes == {n \in Nat : \A s \in SUBSET U : Cardinality(s) = n => s \in Good}
<1>1. \A s \in SUBSET U : IsFiniteSet(s) /\ Cardinality(s) \in Nat
  BY FS_Subset, FS_CardinalityType
<1>2. 0 \in Sizes
  BY <1>1, FS_EmptySet
<1>3. \A n \in Nat : n \in Sizes => n + 1 \in Sizes
  <2> SUFFICES ASSUME NEW n \in Nat, n \in Sizes, NEW s \in SUBSET U, Cardinality(s) = n + 1
               PROVE  s \in Good
    OBVIOUS
  <2>1. s # {}
    BY <1>1, FS_EmptySet
  <2>2. \A x \in s : s \ {x} \in SUBSET U /\ Cardinality(s \ {x}) = n
    BY <1>1, FS_RemoveElement
  <2>3. QED
    BY <2>1, <2>2
<1>4. Nat \subseteq Sizes
  <2> HIDE DEF Sizes
  <2>1. QED
    BY <1>2, <1>3, NatSetInduction
<1>5. QED
  BY <1>1, <1>4

-----------------------------------------------------------------------------
(* Folds: a function of the subsets of a finite set, defined by what it is  *)
(* without an element that c chooses.                                       *)

Chooses(c, S) == \A s \in SUBSET S : s # {} => c[s] \in s

\* it is the fold of G from start over the subsets of S.
Folds(it, S, start, c, G) ==
  it = [s \in SUBSET S |-> IF s = {} THEN start ELSE G[<<c[s], it[s \ {c[s]}]>>]]

LEMMA FoldExists ==
  ASSUME NEW S, IsFiniteSet(S), NEW V, NEW start \in V, NEW c, Chooses(c, S),
         NEW G \in [S \X V -> V]
  PROVE  \E it \in [SUBSET S -> V] : Folds(it, S, start, c, G)
<1> DEFINE Value(it, s) == IF s = {} THEN start ELSE G[<<c[s], it[s \ {c[s]}]>>]
           UpTo(it, n) == \A s \in SUBSET S : Cardinality(s) <= n => it[s] = Value(it, s)
           Good == {n \in Nat : \E it \in [SUBSET S -> V] : UpTo(it, n)}
<1>1. \A s \in SUBSET S : IsFiniteSet(s) /\ Cardinality(s) \in Nat
  BY FS_Subset, FS_CardinalityType
<1>2. \A s \in SUBSET S : s # {} =>
        /\ c[s] \in s /\ c[s] \in S /\ s \ {c[s]} \in SUBSET S
        /\ Cardinality(s \ {c[s]}) = Cardinality(s) - 1
  BY <1>1, FS_RemoveElement DEF Chooses
<1>3. \A it \in [SUBSET S -> V] : \A s \in SUBSET S : Value(it, s) \in V
  BY <1>2
<1>4. 0 \in Good
  <2> DEFINE it == [s \in SUBSET S |-> start]
  <2>1. \A s \in SUBSET S : Cardinality(s) <= 0 => s = {}
    BY <1>1, FS_EmptySet
  <2>2. it \in [SUBSET S -> V] /\ UpTo(it, 0)
    BY <2>1
  <2>3. QED
    BY <2>2
<1>5. \A n \in Nat : n \in Good => n + 1 \in Good
  <2> SUFFICES ASSUME NEW n \in Nat, n \in Good
               PROVE  n + 1 \in Good
    OBVIOUS
  <2>1. PICK it \in [SUBSET S -> V] : UpTo(it, n)
    OBVIOUS
  <2> DEFINE jt == [s \in SUBSET S |-> IF Cardinality(s) <= n THEN it[s] ELSE Value(it, s)]
  <2>2. jt \in [SUBSET S -> V]
    BY <1>3
  <2>3. ASSUME NEW s \in SUBSET S, Cardinality(s) <= n + 1
        PROVE  jt[s] = Value(jt, s)
    <3>1. jt[s] = Value(it, s)
      BY <2>1
    <3>2. s # {} => jt[s \ {c[s]}] = it[s \ {c[s]}]
      BY <1>1, <1>2, <2>3
    <3>3. QED
      BY <3>1, <3>2
  <2>4. UpTo(jt, n + 1)
    BY <2>3
  <2> HIDE DEF jt, UpTo
  <2>5. QED
    BY <2>2, <2>4
<1>6. Nat \subseteq Good
  <2> HIDE DEF Good
  <2>1. QED
    BY <1>4, <1>5, NatSetInduction
<1>7. PICK it \in [SUBSET S -> V] : UpTo(it, Cardinality(S))
  BY <1>1, <1>6
<1>8. \A s \in SUBSET S : Cardinality(s) <= Cardinality(S)
  BY FS_Subset
<1>9. it = [s \in SUBSET S |-> Value(it, s)]
  BY <1>7, <1>8
<1>10. QED
  BY <1>9 DEF Folds

\* Two folds choose the same elements of the subsets of U, and combine alike.
Alike(it, jt, U, c, d, G, H) ==
  \A s \in SUBSET U : s # {} =>
    /\ c[s] = d[s]
    /\ it[s \ {c[s]}] = jt[s \ {c[s]}] =>
         G[<<c[s], it[s \ {c[s]}]>>] = H[<<c[s], jt[s \ {c[s]}]>>]

\* Two folds that choose and combine alike agree wherever both are defined.
LEMMA FoldUnique ==
  ASSUME NEW S, NEW T, NEW U, U \subseteq S, U \subseteq T, IsFiniteSet(U),
         NEW start, NEW c, NEW d, Chooses(c, U),
         NEW G, NEW H, NEW it, NEW jt,
         Folds(it, S, start, c, G), Folds(jt, T, start, d, H),
         Alike(it, jt, U, c, d, G, H)
  PROVE  it[U] = jt[U]
<1> DEFINE Good == {s \in SUBSET U : it[s] = jt[s]}
<1>1. \A s \in SUBSET U :
        /\ it[s] = IF s = {} THEN start ELSE G[<<c[s], it[s \ {c[s]}]>>]
        /\ jt[s] = IF s = {} THEN start ELSE H[<<d[s], jt[s \ {d[s]}]>>]
  BY DEF Folds
<1>2. {} \in Good
  BY <1>1
<1>3. \A s \in SUBSET U : s # {} /\ (\A x \in s : s \ {x} \in Good) => s \in Good
  <2> SUFFICES ASSUME NEW s \in SUBSET U, s # {}, \A x \in s : s \ {x} \in Good
               PROVE  it[s] = jt[s]
    OBVIOUS
  <2>1. c[s] \in s /\ c[s] = d[s]
    BY DEF Chooses, Alike
  <2>2. it[s \ {c[s]}] = jt[s \ {c[s]}]
    BY <2>1
  <2>3. G[<<c[s], it[s \ {c[s]}]>>] = H[<<c[s], jt[s \ {c[s]}]>>]
    BY <2>2 DEF Alike
  <2>4. /\ it[s] = G[<<c[s], it[s \ {c[s]}]>>]
        /\ jt[s] = H[<<d[s], jt[s \ {d[s]}]>>]
    BY <1>1
  <2>5. QED
    BY <2>1, <2>3, <2>4
<1>4. SUBSET U \subseteq Good
  <2> HIDE DEF Good
  <2>1. QED
    BY <1>2, <1>3, SubsetInduction
<1>5. QED
  BY <1>4

-----------------------------------------------------------------------------
(* Sums of the values of a function (SumFunctionOnSet of Functions)          *)

Choice(S)  == [s \in SUBSET S |-> CHOOSE x \in s : TRUE]
Adds(f, S) == [p \in S \X Int |-> f[p[1]] + p[2]]

LEMMA SumIsFold ==
  ASSUME NEW S, IsFiniteSet(S), NEW f, \A x \in S : f[x] \in Int
  PROVE  \E it \in [SUBSET S -> Int] :
           /\ it[S] = SumFunctionOnSet(f, S)
           /\ Folds(it, S, 0, Choice(S), Adds(f, S))
<1> DEFINE Body(g) == [s \in SUBSET S |->
                         IF s = {} THEN 0
                         ELSE f[CHOOSE x \in s : TRUE] + g[s \ {CHOOSE x \in s : TRUE}]]
           iter == CHOOSE g : g = Body(g)
           ch == Choice(S)
           G == Adds(f, S)
<1>1. \A s \in SUBSET S : s # {} =>
        ch[s] = (CHOOSE x \in s : TRUE) /\ ch[s] \in s /\ ch[s] \in S
  BY DEF Choice
<1>2. \A p \in S \X Int : G[p] = f[p[1]] + p[2]
  BY DEF Adds
<1>3. PICK it \in [SUBSET S -> Int] : Folds(it, S, 0, ch, G)
  <2>1. Chooses(ch, S)
    BY <1>1 DEF Chooses
  <2>2. G \in [S \X Int -> Int]
    BY DEF Adds
  <2> HIDE DEF ch, G
  <2>3. 0 \in Int
    OBVIOUS
  <2>4. QED
    BY <2>1, <2>2, <2>3, FoldExists
<1> HIDE DEF ch, G
<1>4. \A s \in SUBSET S : s # {} =>
        G[<<ch[s], it[s \ {ch[s]}]>>]
          = f[CHOOSE x \in s : TRUE] + it[s \ {CHOOSE x \in s : TRUE}]
  <2> SUFFICES ASSUME NEW s \in SUBSET S, s # {}
               PROVE  G[<<ch[s], it[s \ {ch[s]}]>>] = f[ch[s]] + it[s \ {ch[s]}]
    BY <1>1
  <2>1. <<ch[s], it[s \ {ch[s]}]>> \in S \X Int
    BY <1>1
  <2>2. QED
    BY <1>2, <2>1
<1>5. it = Body(it)
  <2>1. it = [s \in SUBSET S |-> IF s = {} THEN 0 ELSE G[<<ch[s], it[s \ {ch[s]}]>>]]
    BY <1>3 DEF Folds
  <2>2. QED
    BY <1>4, <2>1
<1>6. iter = Body(iter)
  <2> HIDE DEF Body
  <2>1. QED
    BY <1>5
<1>7. SumFunctionOnSet(f, S) = iter[S]
  BY DEF SumFunctionOnSet, FoldFunctionOnSet, MapThenFoldSet
<1>8. it[S] = iter[S]
  <2> DEFINE Good == {s \in SUBSET S : it[s] = iter[s]}
  <2>1. \A s \in SUBSET S : it[s] = Body(it)[s] /\ iter[s] = Body(iter)[s]
    <3> HIDE DEF Body, iter
    <3>1. QED
      BY <1>5, <1>6
  <2> HIDE DEF iter
  <2>2. {} \in Good
    BY <2>1
  <2>3. \A s \in SUBSET S : s # {} /\ (\A x \in s : s \ {x} \in Good) => s \in Good
    <3> SUFFICES ASSUME NEW s \in SUBSET S, s # {}, \A x \in s : s \ {x} \in Good
                 PROVE  it[s] = iter[s]
      OBVIOUS
    <3> DEFINE x == CHOOSE x \in s : TRUE
    <3>1. x \in s
      OBVIOUS
    <3>2. it[s] = f[x] + it[s \ {x}] /\ iter[s] = f[x] + iter[s \ {x}]
      BY <2>1
    <3>3. it[s \ {x}] = iter[s \ {x}]
      BY <3>1
    <3>4. QED
      BY <3>2, <3>3
  <2>4. SUBSET S \subseteq Good
    <3> HIDE DEF Good
    <3>1. QED
      BY <2>2, <2>3, SubsetInduction
  <2>5. QED
    BY <2>4
<1>9. QED
  BY <1>3, <1>7, <1>8 DEF ch, G

LEMMA SumEmpty ==
  ASSUME NEW f
  PROVE  SumFunctionOnSet(f, {}) = 0
<1> DEFINE it == [s \in SUBSET {} |-> 0]
<1>1. PICK jt \in [SUBSET {} -> Int] :
        jt[{}] = SumFunctionOnSet(f, {}) /\ Folds(jt, {}, 0, Choice({}), Adds(f, {}))
  BY FS_EmptySet, SumIsFold
<1>2. QED
  BY <1>1 DEF Folds

LEMMA SumInt ==
  ASSUME NEW S, IsFiniteSet(S), NEW f, \A x \in S : f[x] \in Int
  PROVE  SumFunctionOnSet(f, S) \in Int
<1>1. PICK it \in [SUBSET S -> Int] : it[S] = SumFunctionOnSet(f, S)
  BY SumIsFold
<1>2. it[S] \in Int
  OBVIOUS
<1>3. QED
  BY <1>1, <1>2

\* The sum over S is a step of the fold over any larger set.
LEMMA SumOfPart ==
  ASSUME NEW S, IsFiniteSet(S), NEW T \in SUBSET S, NEW f, \A x \in S : f[x] \in Int,
         NEW it \in [SUBSET S -> Int], Folds(it, S, 0, Choice(S), Adds(f, S))
  PROVE  it[T] = SumFunctionOnSet(f, T)
<1>1. IsFiniteSet(T)
  BY FS_Subset
<1>2. PICK jt \in [SUBSET T -> Int] :
        jt[T] = SumFunctionOnSet(f, T) /\ Folds(jt, T, 0, Choice(T), Adds(f, T))
  BY <1>1, SumIsFold
<1>3. /\ \A s \in SUBSET T : s # {} =>
           /\ Choice(S)[s] = Choice(T)[s]
           /\ Choice(T)[s] \in s
  BY DEF Choice
<1>4. Chooses(Choice(T), T)
  BY <1>3 DEF Chooses
<1>5. Alike(it, jt, T, Choice(S), Choice(T), Adds(f, S), Adds(f, T))
  <2> SUFFICES ASSUME NEW s \in SUBSET T, s # {}, NEW x, x = Choice(T)[s],
                      it[s \ {x}] = jt[s \ {x}]
               PROVE  Adds(f, S)[<<x, it[s \ {x}]>>] = Adds(f, T)[<<x, jt[s \ {x}]>>]
    BY <1>3 DEF Alike
  <2>1. x \in T /\ x \in S
    BY <1>3
  <2>2. jt[s \ {x}] \in Int /\ it[s \ {x}] \in Int
    OBVIOUS
  <2>3. QED
    BY <2>1, <2>2 DEF Adds
<1>6. Chooses(Choice(S), T)
  BY <1>3 DEF Chooses
<1>7. it[T] = jt[T]
  <2> DEFINE c == Choice(S)
             d == Choice(T)
             G == Adds(f, S)
             H == Adds(f, T)
  <2> HIDE DEF c, d, G, H
  <2>1. /\ Chooses(c, T) /\ Folds(it, S, 0, c, G) /\ Folds(jt, T, 0, d, H)
        /\ Alike(it, jt, T, c, d, G, H)
    BY <1>2, <1>5, <1>6 DEF c, d, G, H
  <2>2. T \subseteq S /\ T \subseteq T
    OBVIOUS
  <2>3. QED
    BY <1>1, <2>1, <2>2, FoldUnique
<1>8. QED
  BY <1>2, <1>7

LEMMA SumRemovesChoice ==
  ASSUME NEW S, IsFiniteSet(S), S # {}, NEW f, \A x \in S : f[x] \in Int
  PROVE  LET x == CHOOSE x \in S : TRUE
         IN  SumFunctionOnSet(f, S) = f[x] + SumFunctionOnSet(f, S \ {x})
<1> DEFINE x == CHOOSE x \in S : TRUE
<1>1. PICK it \in [SUBSET S -> Int] :
        it[S] = SumFunctionOnSet(f, S) /\ Folds(it, S, 0, Choice(S), Adds(f, S))
  BY SumIsFold
<1>2. x \in S /\ x = Choice(S)[S] /\ S \ {x} \in SUBSET S
  BY DEF Choice
<1> HIDE DEF x
<1>3. it[S \ {x}] = SumFunctionOnSet(f, S \ {x})
  BY <1>1, <1>2, SumOfPart
<1>4. it[S] = Adds(f, S)[<<x, it[S \ {x}]>>]
  BY <1>1, <1>2 DEF Folds
<1>5. <<x, it[S \ {x}]>> \in S \X Int
  BY <1>2
<1>6. it[S] = f[x] + it[S \ {x}]
  BY <1>4, <1>5 DEF Adds
<1>7. QED
  BY <1>1, <1>3, <1>6 DEF x

\* Any element may be taken out of a sum.
LEMMA SumRemoves ==
  ASSUME NEW S, IsFiniteSet(S), NEW f, \A x \in S : f[x] \in Int, NEW y \in S
  PROVE  SumFunctionOnSet(f, S) = f[y] + SumFunctionOnSet(f, S \ {y})
<1> DEFINE Sum(s) == SumFunctionOnSet(f, s)
           Good == {s \in SUBSET S : \A z \in s : Sum(s) = f[z] + Sum(s \ {z})}
<1>1. \A s \in SUBSET S : IsFiniteSet(s) /\ (\A x \in s : f[x] \in Int) /\ Sum(s) \in Int
  BY FS_Subset, SumInt
<1>2. \A s \in SUBSET S : s # {} => \E x \in s : Sum(s) = f[x] + Sum(s \ {x})
  <2> SUFFICES ASSUME NEW s \in SUBSET S, s # {}
               PROVE  \E x \in s : Sum(s) = f[x] + Sum(s \ {x})
    OBVIOUS
  <2> DEFINE x == CHOOSE x \in s : TRUE
  <2>1. Sum(s) = f[x] + Sum(s \ {x})
    BY <1>1, SumRemovesChoice
  <2>2. QED
    BY <2>1
<1> HIDE DEF Sum
<1>3. {} \in Good
  OBVIOUS
<1>4. \A s \in SUBSET S : s # {} /\ (\A x \in s : s \ {x} \in Good) => s \in Good
  <2> SUFFICES ASSUME NEW s \in SUBSET S, s # {}, \A x \in s : s \ {x} \in Good, NEW z \in s
               PROVE  Sum(s) = f[z] + Sum(s \ {z})
    OBVIOUS
  <2>1. PICK x \in s : Sum(s) = f[x] + Sum(s \ {x})
    BY <1>2
  <2>2. CASE x = z
    BY <2>1, <2>2
  <2>3. CASE x # z
    <3>1. /\ Sum(s \ {x}) = f[z] + Sum((s \ {x}) \ {z})
          /\ Sum(s \ {z}) = f[x] + Sum((s \ {z}) \ {x})
      BY <2>3
    <3>2. (s \ {x}) \ {z} = (s \ {z}) \ {x}
      OBVIOUS
    <3>3. f[x] \in Int /\ f[z] \in Int /\ Sum((s \ {x}) \ {z}) \in Int
      BY <1>1
    <3>4. QED
      BY SMTT(30), <2>1, <3>1, <3>2, <3>3
  <2>4. QED
    BY <2>2, <2>3
<1>5. SUBSET S \subseteq Good
  <2> HIDE DEF Good
  <2>1. QED
    BY <1>3, <1>4, SubsetInduction
<1>6. QED
  BY <1>5 DEF Sum

LEMMA SumEqual ==
  ASSUME NEW S, IsFiniteSet(S), NEW f, NEW g,
         \A x \in S : f[x] \in Int /\ g[x] = f[x]
  PROVE  SumFunctionOnSet(f, S) = SumFunctionOnSet(g, S)
<1> DEFINE Good == {s \in SUBSET S : SumFunctionOnSet(f, s) = SumFunctionOnSet(g, s)}
<1>1. {} \in Good
  BY SumEmpty
<1>2. \A s \in SUBSET S : s # {} /\ (\A x \in s : s \ {x} \in Good) => s \in Good
  <2> SUFFICES ASSUME NEW s \in SUBSET S, s # {}, \A x \in s : s \ {x} \in Good
               PROVE  SumFunctionOnSet(f, s) = SumFunctionOnSet(g, s)
    OBVIOUS
  <2>1. PICK x \in s : TRUE
    OBVIOUS
  <2>2. IsFiniteSet(s)
    BY FS_Subset
  <2>3. SumFunctionOnSet(f, s) = f[x] + SumFunctionOnSet(f, s \ {x})
    BY <2>1, <2>2, SumRemoves
  <2>4. SumFunctionOnSet(g, s) = g[x] + SumFunctionOnSet(g, s \ {x})
    BY <2>1, <2>2, SumRemoves
  <2>5. QED
    BY <2>3, <2>4
<1>3. SUBSET S \subseteq Good
  <2> HIDE DEF Good
  <2>1. QED
    BY <1>1, <1>2, SubsetInduction
<1>4. QED
  BY <1>3

\* As much as what is smaller everywhere.
LEMMA SumMonotone ==
  ASSUME NEW S, IsFiniteSet(S), NEW f, NEW g,
         \A x \in S : f[x] \in Int /\ g[x] \in Int /\ f[x] <= g[x]
  PROVE  SumFunctionOnSet(f, S) <= SumFunctionOnSet(g, S)
<1> DEFINE Good == {s \in SUBSET S : SumFunctionOnSet(f, s) <= SumFunctionOnSet(g, s)}
<1>1. {} \in Good
  BY SumEmpty
<1>2. \A s \in SUBSET S : s # {} /\ (\A x \in s : s \ {x} \in Good) => s \in Good
  <2> SUFFICES ASSUME NEW s \in SUBSET S, s # {}, \A x \in s : s \ {x} \in Good
               PROVE  SumFunctionOnSet(f, s) <= SumFunctionOnSet(g, s)
    OBVIOUS
  <2>1. PICK x \in s : TRUE
    OBVIOUS
  <2>2. IsFiniteSet(s) /\ IsFiniteSet(s \ {x})
    BY FS_Subset
  <2>3. \A y \in s : f[y] \in Int /\ g[y] \in Int
    OBVIOUS
  <2>4. /\ SumFunctionOnSet(f, s) = f[x] + SumFunctionOnSet(f, s \ {x})
        /\ SumFunctionOnSet(g, s) = g[x] + SumFunctionOnSet(g, s \ {x})
    BY <2>2, <2>3, SumRemoves
  <2>5. SumFunctionOnSet(f, s \ {x}) \in Int /\ SumFunctionOnSet(g, s \ {x}) \in Int
    BY <2>2, <2>3, SumInt
  <2>6. SumFunctionOnSet(f, s \ {x}) <= SumFunctionOnSet(g, s \ {x})
    OBVIOUS
  <2>7. f[x] \in Int /\ g[x] \in Int /\ f[x] <= g[x]
    OBVIOUS
  <2>8. QED
    BY <2>4, <2>5, <2>6, <2>7
<1> HIDE DEF Good
<1>3. SUBSET S \subseteq Good
  BY <1>1, <1>2, SubsetInduction
<1>4. QED
  BY <1>3 DEF Good
\* A sum of natural numbers is as much as that of the first of them.
LEMMA SumOfPrefix ==
  ASSUME NEW n \in Nat, NEW m \in Nat, m <= n, NEW w, \A i \in 1 .. n : w[i] \in Nat
  PROVE  SumFunctionOnSet(w, 1 .. m) <= SumFunctionOnSet(w, 1 .. n)
<1> DEFINE Good == {k \in Nat : m + k <= n =>
                      SumFunctionOnSet(w, 1 .. m) <= SumFunctionOnSet(w, 1 .. (m + k))}
<1>1. \A k \in Nat : k <= n => SumFunctionOnSet(w, 1 .. k) \in Int
  <2> SUFFICES ASSUME NEW k \in Nat, k <= n PROVE SumFunctionOnSet(w, 1 .. k) \in Int
    OBVIOUS
  <2> DEFINE s == 1 .. k
  <2>1. IsFiniteSet(s) /\ \A i \in s : w[i] \in Int
    BY FS_Interval
  <2> HIDE DEF s
  <2>2. SumFunctionOnSet(w, s) \in Int
    BY <2>1, SumInt
  <2>3. QED
    BY <2>2 DEF s
<1>2. 0 \in Good
  <2>1. m + 0 = m
    OBVIOUS
  <2>2. QED
    BY <1>1, <2>1
<1>3. \A k \in Nat : k \in Good => k + 1 \in Good
  <2> SUFFICES ASSUME NEW k \in Nat, k \in Good, m + (k + 1) <= n
               PROVE  SumFunctionOnSet(w, 1 .. m) <= SumFunctionOnSet(w, 1 .. (m + (k + 1)))
    OBVIOUS
  <2> DEFINE j == m + k
  <2>1. j \in Nat /\ j + 1 = m + (k + 1) /\ j <= n /\ j + 1 <= n
    OBVIOUS
  <2>2. SumFunctionOnSet(w, 1 .. m) <= SumFunctionOnSet(w, 1 .. j)
    BY <2>1
  <2> HIDE DEF j, Good
  <2>3. IsFiniteSet(1 .. (j + 1)) /\ j + 1 \in 1 .. (j + 1) /\ (1 .. (j + 1)) \ {j + 1} = 1 .. j
    BY <2>1, FS_Interval
  <2>4. \A i \in 1 .. (j + 1) : w[i] \in Nat /\ w[i] \in Int
    BY <2>1
  <2>5. SumFunctionOnSet(w, 1 .. (j + 1)) = w[j + 1] + SumFunctionOnSet(w, 1 .. j)
    <3> DEFINE s == 1 .. (j + 1)
    <3>1. IsFiniteSet(s) /\ j + 1 \in s /\ s \ {j + 1} = 1 .. j /\ \A i \in s : w[i] \in Int
      BY <2>3, <2>4
    <3> HIDE DEF s
    <3>2. SumFunctionOnSet(w, s) = w[j + 1] + SumFunctionOnSet(w, s \ {j + 1})
      BY <3>1, SumRemoves
    <3>3. QED
      BY <3>1, <3>2 DEF s
  <2>6. SumFunctionOnSet(w, 1 .. m) \in Int /\ SumFunctionOnSet(w, 1 .. j) \in Int /\ w[j + 1] \in Nat
    BY <1>1, <2>1, <2>3, <2>4
  <2>7. SumFunctionOnSet(w, 1 .. m) <= SumFunctionOnSet(w, 1 .. (j + 1))
    BY <2>2, <2>5, <2>6
  <2>8. QED
    BY <2>1, <2>7
<1> HIDE DEF Good
<1>4. Nat \subseteq Good
  BY <1>2, <1>3, NatSetInduction
<1>5. n - m \in Nat /\ m + (n - m) = n
  OBVIOUS
<1>6. QED
  BY <1>4, <1>5 DEF Good

\* A sum of two changed values changes by their changes.
LEMMA SumChangesAtTwo ==
  ASSUME NEW S, IsFiniteSet(S), NEW f, NEW g, NEW y \in S, NEW z \in S, y # z,
         \A x \in S : f[x] \in Int /\ g[x] \in Int,
         \A x \in S : x # y /\ x # z => g[x] = f[x]
  PROVE  SumFunctionOnSet(g, S) = SumFunctionOnSet(f, S) + (g[y] - f[y]) + (g[z] - f[z])
<1> DEFINE r == S \ {y}
           t == r \ {z}
<1>1. IsFiniteSet(r) /\ IsFiniteSet(t) /\ z \in r
  BY FS_Subset
<1>2. SumFunctionOnSet(f, t) = SumFunctionOnSet(g, t)
  BY <1>1, SumEqual
<1>3. /\ SumFunctionOnSet(f, S) = f[y] + SumFunctionOnSet(f, r)
      /\ SumFunctionOnSet(g, S) = g[y] + SumFunctionOnSet(g, r)
  BY SumRemoves
<1>4. /\ SumFunctionOnSet(f, r) = f[z] + SumFunctionOnSet(f, t)
      /\ SumFunctionOnSet(g, r) = g[z] + SumFunctionOnSet(g, t)
  BY <1>1, SumRemoves
<1>5. SumFunctionOnSet(f, t) \in Int
  BY <1>1, SumInt
<1> HIDE DEF t, r
<1>6. QED
  BY <1>2, <1>3, <1>4, <1>5

-----------------------------------------------------------------------------
(* Division *)

LEMMA DivMod ==
  ASSUME NEW a \in Int, NEW m \in Nat \ {0}
  PROVE  a = m * (a \div m) + (a % m) /\ a % m \in 0 .. (m - 1) /\ a \div m \in Int
  OBVIOUS

LEMMA DivModUnique ==
  ASSUME NEW m \in Nat \ {0}, NEW q \in Int, NEW r \in 0 .. (m - 1)
  PROVE  (m * q + r) % m = r /\ (m * q + r) \div m = q
<1> DEFINE a == m * q + r
           p == a \div m
           s == a % m
<1>1. a \in Int /\ a = m * q + r
  OBVIOUS
<1>2. m * p + s = m * q + r /\ s \in 0 .. (m - 1) /\ p \in Int
  <2> HIDE DEF a
  <2>1. QED
    BY <1>1, DivMod
<1> HIDE DEF p, s
<1>3. ~(p < q)
  <2> SUFFICES ASSUME p < q PROVE FALSE
    OBVIOUS
  <2>1. q - p >= 1 /\ m * (q - p) >= m
    BY <1>2
  <2>2. m * (q - p) = s - r
    BY <1>2
  <2>3. QED
    BY <2>1, <2>2, <1>2
<1>4. ~(q < p)
  <2> SUFFICES ASSUME q < p PROVE FALSE
    OBVIOUS
  <2>1. p - q >= 1 /\ m * (p - q) >= m
    BY <1>2
  <2>2. m * (p - q) = r - s
    BY <1>2
  <2>3. QED
    BY <2>1, <2>2, <1>2
<1>5. p = q
  BY <1>2, <1>3, <1>4
<1>6. s = r
  BY <1>2, <1>5
<1>7. QED
  BY <1>5, <1>6 DEF p, s

\* Division by a product, and the remainder within the remainder.
LEMMA DivModProduct ==
  ASSUME NEW a \in Int, NEW m \in Nat \ {0}, NEW k \in Nat \ {0}
  PROVE  /\ (a % (m * k)) % m = a % m
         /\ a % (m * k) = m * ((a \div m) % k) + (a % m)
         /\ a \div (m * k) = (a \div m) \div k
<1> DEFINE q == a \div m
           r == a % m
           p == q \div k
           s == q % k
<1>1. a = m * q + r /\ r \in 0 .. (m - 1) /\ q \in Int
  BY DivMod
<1>2. q = k * p + s /\ s \in 0 .. (k - 1) /\ p \in Int
  <2> HIDE DEF q
  <2>1. QED
    BY <1>1, DivMod
<1> HIDE DEF q, r, p, s
<1> DEFINE t == m * s + r
           mk == m * k
<1>3. t \in 0 .. (mk - 1)
  <2>1. m * s <= m * (k - 1)
    BY <1>2
  <2>2. m * s >= 0 /\ m * s \in Int
    BY <1>2
  <2>3. QED
    BY <2>1, <2>2, <1>1
<1>4. a = mk * p + t
  <2>1. m * q = m * (k * p) + m * s
    BY <1>2
  <2>2. m * (k * p) = (m * k) * p
    BY <1>2
  <2>3. QED
    BY <2>1, <2>2, <1>1, <1>2
<1>5. mk \in Nat \ {0}
  OBVIOUS
<1>6. t % m = r
  BY <1>1, <1>2, DivModUnique
<1> HIDE DEF t, mk
<1>7. a % mk = t /\ a \div mk = p
  BY <1>2, <1>3, <1>4, <1>5, DivModUnique
<1>8. QED
  BY <1>6, <1>7 DEF t, mk, p, s, q, r

LEMMA DivSmall == ASSUME NEW a \in Nat, NEW b \in Nat \ {0} PROVE a \div b \in 0 .. a
<1> DEFINE q == a \div b
<1>1. a = b * q + (a % b) /\ a % b \in 0 .. (b - 1) /\ q \in Int
  BY DivMod
<1> HIDE DEF q
<1>2. q >= 0
  <2> SUFFICES ASSUME q <= -1 PROVE FALSE
    BY <1>1
  <2>1. b * q <= -b
    BY <1>1
  <2>2. QED
    BY <2>1, <1>1
<1>3. q <= b * q
  BY <1>1, <1>2
<1>4. QED
  BY <1>1, <1>2, <1>3 DEF q

LEMMA ModOfSmall == ASSUME NEW m \in Nat \ {0}, NEW a \in 0 .. (m - 1) PROVE a % m = a
<1>1. (m * 0 + a) % m = a
  BY DivModUnique
<1>2. m * 0 + a = a
  BY a \in Int
<1>3. QED
  BY <1>1, <1>2

LEMMA ModOfNegative ==
  ASSUME NEW m \in Nat \ {0}, NEW a \in (-m) .. (-1)
  PROVE  a % m = m + a
<1>1. -1 \in Int /\ m + a \in 0 .. (m - 1)
  OBVIOUS
<1>2. (m * (-1) + (m + a)) % m = m + a
  BY <1>1, DivModUnique
<1>3. m * (-1) + (m + a) = a
  BY a \in Int
<1>4. QED
  BY <1>2, <1>3

\* A factor may be reduced before or after a product.
LEMMA ModFactor ==
  ASSUME NEW m \in Nat \ {0}, NEW x \in Int, NEW y \in Int, NEW z \in Int
  PROVE  ((x % m) * y + z) % m = (x * y + z) % m
<1> DEFINE q == x \div m
           r == x % m
           t == r * y + z
           u == t \div m
           v == t % m
<1>1. x = m * q + r /\ q \in Int /\ r \in Int
  BY DivMod
<1> HIDE DEF q, r
<1>2. t \in Int
  BY <1>1
<1>3. x * y + z = m * (q * y) + t
  <2>1. (m * q + r) * y = m * (q * y) + r * y
    BY <1>1
  <2>2. m * (q * y) \in Int /\ r * y \in Int
    BY <1>1
  <2>3. QED
    BY <1>1, <2>1, <2>2
<1> HIDE DEF t
<1>4. t = m * u + v /\ u \in Int /\ v \in 0 .. (m - 1)
  BY <1>2, DivMod
<1> HIDE DEF u, v
<1>5. x * y + z = m * (q * y + u) + v
  <2>1. m * (q * y) + m * u = m * (q * y + u)
    BY <1>1, <1>4
  <2>2. m * (q * y) \in Int /\ m * u \in Int
    BY <1>1, <1>4
  <2>3. QED
    BY <1>3, <1>4, <2>1, <2>2
<1> DEFINE w == q * y + u
<1>6. w \in Int
  BY <1>1, <1>4
<1>7. (x * y + z) % m = v
  <2> HIDE DEF w
  <2>1. (m * w + v) % m = v
    BY <1>4, <1>6, DivModUnique
  <2>2. QED
    BY <1>5, <2>1 DEF w
<1>8. QED
  BY <1>7 DEF t, v, r

-----------------------------------------------------------------------------
(* Powers of two count subsets *)

LEMMA PowerCounts ==
  ASSUME NEW n \in Nat
  PROVE  2 ^ n = Cardinality(SUBSET (1 .. n)) /\ IsFiniteSet(SUBSET (1 .. n))
<1>1. IsFiniteSet(1 .. n) /\ Cardinality(1 .. n) = n
  BY FS_Interval
<1>2. QED
  BY <1>1, FS_SUBSET

LEMMA PowerType == ASSUME NEW n \in Nat PROVE 2 ^ n \in Nat \ {0}
<1>1. {} \in SUBSET (1 .. n)
  OBVIOUS
<1>2. QED
  BY <1>1, PowerCounts, FS_EmptySet, FS_CardinalityType

LEMMA PowerZero == 2 ^ 0 = 1
<1>1. SUBSET (1 .. 0) = {{}}
  OBVIOUS
<1>2. Cardinality({{}}) = 1
  BY FS_Singleton
<1>3. QED
  BY <1>1, <1>2, PowerCounts

LEMMA PowerNext == ASSUME NEW n \in Nat PROVE 2 ^ (n + 1) = 2 * 2 ^ n
<1> DEFINE old == SUBSET (1 .. n)
           new == {s \cup {n + 1} : s \in old}
<1>1. SUBSET (1 .. (n + 1)) = old \cup new
  <2>1. ASSUME NEW s \in SUBSET (1 .. (n + 1)), n + 1 \in s PROVE s \in new
    <3>1. \A i \in s : i # n + 1 => i \in 1 .. n
      OBVIOUS
    <3>2. s \ {n + 1} \in old /\ s = (s \ {n + 1}) \cup {n + 1}
      BY <2>1, <3>1
    <3>3. QED
      BY <3>2
  <2>2. ASSUME NEW s \in SUBSET (1 .. (n + 1)), n + 1 \notin s PROVE s \in old
    BY <2>2
  <2>3. old \cup new \subseteq SUBSET (1 .. (n + 1))
    <3>1. 1 .. n \subseteq 1 .. (n + 1) /\ n + 1 \in 1 .. (n + 1)
      OBVIOUS
    <3>2. \A s \in old : s \subseteq 1 .. (n + 1) /\ s \cup {n + 1} \subseteq 1 .. (n + 1)
      BY <3>1
    <3>3. QED
      BY <3>2
  <2>4. QED
    BY <2>1, <2>2, <2>3
<1>2. old \cap new = {}
  OBVIOUS
<1>3. IsFiniteSet(old) /\ Cardinality(old) = 2 ^ n /\ Cardinality(old) \in Nat
  BY PowerCounts, FS_CardinalityType
<1>4. IsFiniteSet(new) /\ Cardinality(new) = Cardinality(old)
  <2> DEFINE f == [s \in old |-> s \cup {n + 1}]
  <2>1. \A s, t \in old : f[s] = f[t] => s = t
    <3>1. n + 1 \notin 1 .. n
      OBVIOUS
    <3>2. QED
      BY <3>1
  <2>2. f \in Injection(old, new)
    BY <2>1, f \in [old -> new] DEF Injection, IsInjective
  <2>3. f \in Surjection(old, new)
    BY DEF Surjection
  <2>4. f \in Bijection(old, new)
    BY <2>2, <2>3 DEF Bijection
  <2> HIDE DEF f, old, new
  <2>5. QED
    BY <2>4, <1>3, FS_Bijection DEF ExistsBijection
<1>5. Cardinality(old \cup new) = Cardinality(old) + Cardinality(new)
  <2> HIDE DEF old, new
  <2>1. Cardinality(old \cap new) = 0
    BY <1>2, FS_EmptySet
  <2>2. QED
    BY <1>3, <1>4, <2>1, FS_Union
<1>6. Cardinality(SUBSET (1 .. (n + 1))) = 2 ^ n + 2 ^ n
  BY <1>1, <1>3, <1>4, <1>5
<1>7. QED
  BY <1>3, <1>6, PowerCounts

LEMMA PowerSum == ASSUME NEW m \in Nat, NEW n \in Nat PROVE 2 ^ (m + n) = 2 ^ m * 2 ^ n
<1> DEFINE Good == {k \in Nat : 2 ^ (m + k) = 2 ^ m * 2 ^ k}
<1>1. 0 \in Good
  BY PowerZero, PowerType
<1>2. \A k \in Nat : k \in Good => k + 1 \in Good
  <2> SUFFICES ASSUME NEW k \in Nat, 2 ^ (m + k) = 2 ^ m * 2 ^ k
               PROVE  2 ^ (m + (k + 1)) = 2 ^ m * 2 ^ (k + 1)
    OBVIOUS
  <2>1. 2 ^ ((m + k) + 1) = 2 * 2 ^ (m + k) /\ 2 ^ (k + 1) = 2 * 2 ^ k
    BY PowerNext
  <2>2. m + (k + 1) = (m + k) + 1
    OBVIOUS
  <2>3. 2 ^ m \in Nat /\ 2 ^ k \in Nat
    BY PowerType
  <2>4. QED
    BY <2>1, <2>2, <2>3
<1>3. Nat \subseteq Good
  <2> HIDE DEF Good
  <2>1. QED
    BY <1>1, <1>2, NatSetInduction
<1>4. QED
  BY <1>3

LEMMA PowerMonotone == ASSUME NEW m \in Nat, NEW n \in Nat, m <= n PROVE 2 ^ m <= 2 ^ n
<1>1. PICK k \in Nat : n = m + k
  <2>1. n - m \in Nat /\ n = m + (n - m)
    OBVIOUS
  <2>2. QED
    BY <2>1
<1>2. 2 ^ n = 2 ^ m * 2 ^ k
  BY <1>1, PowerSum
<1>3. 2 ^ m \in Nat \ {0} /\ 2 ^ k \in Nat \ {0}
  BY PowerType
<1>4. QED
  BY <1>2, <1>3

LEMMA PowerEight == 2 ^ 8 = 256
<1>1. 2 ^ (0 + 1) = 2 /\ 2 ^ (1 + 1) = 4 /\ 2 ^ (2 + 1) = 8 /\ 2 ^ (3 + 1) = 16
  <2>1. 2 ^ (0 + 1) = 2 * 2 ^ 0
    BY PowerNext
  <2>2. 2 ^ (1 + 1) = 2 * 2 ^ (0 + 1) /\ 2 ^ (2 + 1) = 2 * 2 ^ (1 + 1)
        /\ 2 ^ (3 + 1) = 2 * 2 ^ (2 + 1)
    BY PowerNext
  <2>3. QED
    BY <2>1, <2>2, PowerZero
<1>2. 2 ^ (4 + 4) = 2 ^ (3 + 1) * 2 ^ (3 + 1)
  BY PowerSum
<1>3. QED
  BY <1>1, <1>2

-----------------------------------------------------------------------------
(* Functions of a number, defined from the number before *)

Iterates(f, start, G) == f = [k \in Nat |-> IF k = 0 THEN start ELSE G[<<k, f[k - 1]>>]]

LEMMA IterationExists ==
  ASSUME NEW V, NEW start \in V, NEW G \in [Nat \X V -> V]
  PROVE  \E f \in [Nat -> V] : Iterates(f, start, G)
<1> DEFINE Value(f, k) == IF k = 0 THEN start ELSE G[<<k, f[k - 1]>>]
           UpTo(f, n) == \A k \in 0 .. n : f[k] = Value(f, k)
           Good == {n \in Nat : \E f \in [Nat -> V] : UpTo(f, n)}
           F(n) == CHOOSE f \in [Nat -> V] : UpTo(f, n)
           g == [n \in Nat |-> F(n)[n]]
<1>1. \A f \in [Nat -> V] : \A k \in Nat : Value(f, k) \in V
  OBVIOUS
<1>2. 0 \in Good
  <2> DEFINE f == [k \in Nat |-> start]
  <2>1. f \in [Nat -> V] /\ UpTo(f, 0)
    OBVIOUS
  <2>2. QED
    BY <2>1
<1>3. \A n \in Nat : n \in Good => n + 1 \in Good
  <2> SUFFICES ASSUME NEW n \in Nat, n \in Good
               PROVE  n + 1 \in Good
    OBVIOUS
  <2>1. PICK f \in [Nat -> V] : UpTo(f, n)
    OBVIOUS
  <2> DEFINE h == [k \in Nat |-> IF k <= n THEN f[k] ELSE Value(f, k)]
  <2>2. h \in [Nat -> V]
    BY <1>1
  <2>3. ASSUME NEW k \in 0 .. (n + 1)
        PROVE  h[k] = Value(h, k)
    <3>1. h[k] = Value(f, k)
      BY <2>1
    <3>2. k # 0 => h[k - 1] = f[k - 1]
      BY <2>3
    <3>3. QED
      BY <3>1, <3>2
  <2>4. UpTo(h, n + 1)
    BY <2>3
  <2> HIDE DEF h, UpTo
  <2>5. QED
    BY <2>2, <2>4
<1>4. \A n \in Nat : F(n) \in [Nat -> V] /\ UpTo(F(n), n)
  <2>1. Nat \subseteq Good
    <3> HIDE DEF Good
    <3>1. QED
      BY <1>2, <1>3, NatSetInduction
  <2> HIDE DEF UpTo
  <2>2. QED
    BY <2>1
<1>5. \A f, h \in [Nat -> V] : \A n \in Nat : UpTo(f, n) /\ UpTo(h, n) => f[n] = h[n]
  <2> SUFFICES ASSUME NEW f \in [Nat -> V], NEW h \in [Nat -> V]
               PROVE  \A n \in Nat : UpTo(f, n) /\ UpTo(h, n) => f[n] = h[n]
    OBVIOUS
  <2> DEFINE Same == {n \in Nat : UpTo(f, n) /\ UpTo(h, n) => f[n] = h[n]}
  <2>1. 0 \in Same
    <3>1. 0 \in 0 .. 0
      OBVIOUS
    <3>2. QED
      BY <3>1
  <2>2. \A n \in Nat : n \in Same => n + 1 \in Same
    <3> SUFFICES ASSUME NEW n \in Nat, n \in Same, UpTo(f, n + 1), UpTo(h, n + 1)
                 PROVE  f[n + 1] = h[n + 1]
      OBVIOUS
    <3>1. UpTo(f, n) /\ UpTo(h, n)
      OBVIOUS
    <3>2. f[n] = h[n]
      BY <3>1
    <3>3. n + 1 \in 0 .. (n + 1) /\ n + 1 # 0 /\ (n + 1) - 1 = n
      OBVIOUS
    <3>4. QED
      BY <3>2, <3>3
  <2>3. Nat \subseteq Same
    <3> HIDE DEF Same
    <3>1. QED
      BY <2>1, <2>2, NatSetInduction
  <2>4. QED
    BY <2>3
<1>6. \A n \in Nat : UpTo(F(n + 1), n)
  <2>1. \A n \in Nat : 0 .. n \subseteq 0 .. (n + 1) /\ n + 1 \in Nat
    OBVIOUS
  <2> HIDE DEF F
  <2>2. QED
    BY <1>4, <2>1
<1>7. ASSUME NEW k \in Nat
      PROVE  g[k] = Value(g, k)
  <2>1. F(k)[k] = Value(F(k), k)
    <3> HIDE DEF F
    <3>1. QED
      BY <1>4
  <2>2. CASE k = 0
    BY <2>1, <2>2
  <2>3. CASE k # 0
    <3>1. k - 1 \in Nat /\ (k - 1) + 1 = k
      BY <2>3
    <3>2. F(k)[k - 1] = F(k - 1)[k - 1]
      <4> HIDE DEF F, UpTo
      <4>1. UpTo(F(k), k - 1) /\ UpTo(F(k - 1), k - 1)
        BY <1>4, <1>6, <3>1
      <4>2. QED
        BY <1>4, <1>5, <3>1, <4>1
    <3>3. g[k - 1] = F(k - 1)[k - 1]
      BY <3>1
    <3> HIDE DEF F
    <3>4. QED
      BY <2>1, <2>3, <3>2, <3>3
  <2>4. QED
    BY <2>2, <2>3
<1>8. g \in [Nat -> V]
  <2> HIDE DEF F, UpTo
  <2>1. QED
    BY <1>4
<1>9. Iterates(g, start, G)
  <2>1. DOMAIN g = Nat
    OBVIOUS
  <2> HIDE DEF g
  <2>2. g = [k \in Nat |-> Value(g, k)]
    BY <1>7, <1>8, <2>1
  <2>3. QED
    BY <2>2 DEF Iterates
<1> HIDE DEF g
<1>10. QED
  BY <1>8, <1>9

-----------------------------------------------------------------------------
(* Recursive functions on a range, and tail recursion *)

\* f starts at a and makes each value, up to n, from the one before.
IteratesOn(f, a, n, start, G) ==
  f = [k \in a .. n |-> IF k = a THEN start ELSE G[<<k, f[k - 1]>>]]

\* A recursive function over a range of numbers exists: carry[i] from carry[i - 1].
LEMMA RangeIterationExists ==
  ASSUME NEW V, NEW start \in V, NEW a \in Nat, NEW n \in Nat, NEW G \in [(a .. n) \X V -> V]
  PROVE  \E f \in [a .. n -> V] : IteratesOn(f, a, n, start, G)
<1> DEFINE H == [p \in Nat \X V |-> IF p[1] + a \in a .. n THEN G[<<p[1] + a, p[2]>>] ELSE start]
<1>1. H \in [Nat \X V -> V]
  OBVIOUS
<1>2. PICK h \in [Nat -> V] : Iterates(h, start, H)
  <2> HIDE DEF H
  <2>1. QED
    BY <1>1, IterationExists
<1>3. h[0] = start /\ \A k \in Nat : k > 0 => h[k] = H[<<k, h[k - 1]>>]
  <2> HIDE DEF H
  <2>1. QED
    BY <1>2 DEF Iterates
<1> DEFINE f == [k \in a .. n |-> h[k - a]]
<1>4. f \in [a .. n -> V]
  OBVIOUS
<1>5. \A k \in a .. n : f[k] = IF k = a THEN start ELSE G[<<k, f[k - 1]>>]
  <2> SUFFICES ASSUME NEW k \in a .. n
               PROVE  f[k] = IF k = a THEN start ELSE G[<<k, f[k - 1]>>]
    OBVIOUS
  <2>1. CASE k = a
    BY <1>3, <2>1
  <2>2. CASE k # a
    <3>1. k - a \in Nat /\ k - a > 0 /\ k - 1 \in a .. n /\ (k - a) - 1 = (k - 1) - a
      BY <2>2
    <3>2. f[k] = H[<<k - a, h[(k - 1) - a]>>]
      <4> HIDE DEF H
      <4>1. h[k - a] = H[<<k - a, h[(k - a) - 1]>>]
        BY <1>3, <3>1
      <4>2. QED
        BY <3>1, <4>1
    <3>3. f[k - 1] = h[(k - 1) - a] /\ f[k - 1] \in V
      BY <1>4, <3>1
    <3>4. (k - a) + a = k
      OBVIOUS
    <3>5. \A v \in V : H[<<k - a, v>>] = G[<<k, v>>]
      BY <3>1, <3>4
    <3> HIDE DEF f, H
    <3>6. QED
      BY <2>2, <3>2, <3>3, <3>5
  <2>3. QED
    BY <2>1, <2>2
<1> HIDE DEF f
<1>6. f = [k \in a .. n |-> IF k = a THEN start ELSE G[<<k, f[k - 1]>>]]
  BY <1>4, <1>5
<1>7. IteratesOn(f, a, n, start, G)
  BY <1>6 DEF IteratesOn
<1>8. QED
  BY <1>4, <1>7

\* f goes on to its value at the next state until one is done.
GoesOn(f, S, done, next, value) ==
  \A s \in S : f[s] = IF s \in done THEN value[s] ELSE f[next[s]]

\* A tail recursion that ends from every state exists as a function of the state.
LEMMA TailRecursionExists ==
  ASSUME NEW S, NEW V, NEW done \in SUBSET S, NEW next \in [S -> S], NEW value \in [S -> V]
  PROVE  \E f \in [S -> V] : GoesOn(f, S, done, next, value)
<1> DEFINE G == [p \in Nat \X S |-> next[p[2]]]
           Orbit(s, h) == h \in [Nat -> S] /\ h[0] = s /\ \A n \in Nat : h[n + 1] = next[h[n]]
           o(s) == CHOOSE h : Orbit(s, h)
           Ends(s) == {n \in Nat : o(s)[n] \in done}
           Least(T) == CHOOSE m \in T : \A n \in T : m <= n
           f == [s \in S |-> IF Ends(s) # {} THEN value[o(s)[Least(Ends(s))]]
                             ELSE CHOOSE v \in V : TRUE]
<1>1. \A s \in S : Orbit(s, o(s))
  <2> SUFFICES ASSUME NEW s \in S PROVE \E h : Orbit(s, h)
    OBVIOUS
  <2>1. G \in [Nat \X S -> S]
    OBVIOUS
  <2>2. PICK h \in [Nat -> S] : Iterates(h, s, G)
    <3> HIDE DEF G
    <3>1. QED
      BY <2>1, IterationExists
  <2>3. h = [k \in Nat |-> IF k = 0 THEN s ELSE G[<<k, h[k - 1]>>]]
    BY <2>2 DEF Iterates
  <2>4. \A n \in Nat : h[n + 1] = next[h[n]]
    <3> SUFFICES ASSUME NEW n \in Nat PROVE h[n + 1] = next[h[n]]
      OBVIOUS
    <3>1. n + 1 \in Nat /\ n + 1 # 0 /\ (n + 1) - 1 = n
      OBVIOUS
    <3>2. h[n + 1] = G[<<n + 1, h[n]>>]
      <4> HIDE DEF G
      <4>1. QED
        BY <2>3, <3>1
    <3>3. QED
      BY <3>1, <3>2
  <2>5. h[0] = s
    <3> HIDE DEF G
    <3>1. QED
      BY <2>3
  <2>6. QED
    BY <2>4, <2>5
<1>2. \A s \in S : o(s) \in [Nat -> S] /\ o(s)[0] = s /\ \A n \in Nat : o(s)[n + 1] = next[o(s)[n]]
  <2> HIDE DEF o
  <2>1. QED
    BY <1>1
<1> HIDE DEF o, Orbit
<1>3. ASSUME NEW s \in S
      PROVE  \A n \in Nat : o(next[s])[n] = o(s)[n + 1]
  <2> DEFINE Good == {n \in Nat : o(next[s])[n] = o(s)[n + 1]}
  <2>1. 0 \in Good
    <3>1. next[s] \in S /\ 0 + 1 \in Nat
      OBVIOUS
    <3>2. o(next[s])[0] = next[s] /\ o(s)[0 + 1] = next[o(s)[0]] /\ o(s)[0] = s
      BY <1>2, <3>1
    <3>3. QED
      BY <3>2
  <2>2. \A n \in Nat : n \in Good => n + 1 \in Good
    <3> SUFFICES ASSUME NEW n \in Nat, n \in Good
                 PROVE  o(next[s])[n + 1] = o(s)[(n + 1) + 1]
      OBVIOUS
    <3>1. next[s] \in S /\ n + 1 \in Nat
      OBVIOUS
    <3>2. o(next[s])[n + 1] = next[o(next[s])[n]]
      BY <1>2, <3>1
    <3>3. o(s)[(n + 1) + 1] = next[o(s)[n + 1]]
      BY <1>2, <3>1
    <3>4. QED
      BY <3>2, <3>3
  <2>3. Nat \subseteq Good
    <3> HIDE DEF Good
    <3>1. QED
      BY <2>1, <2>2, NatSetInduction
  <2>4. QED
    BY <2>3
<1>4. \A T \in SUBSET Nat : T # {} => Least(T) \in T /\ \A n \in T : Least(T) <= n
  BY LeastElement
<1>5. \A T \in SUBSET Nat : \A m \in T : (\A n \in T : m <= n) => Least(T) = m
  <2> SUFFICES ASSUME NEW T \in SUBSET Nat, NEW m \in T, \A n \in T : m <= n
               PROVE  Least(T) = m
    OBVIOUS
  <2>1. T # {} /\ m \in Nat
    OBVIOUS
  <2>2. Least(T) \in T /\ \A n \in T : Least(T) <= n
    BY <1>4, <2>1
  <2>3. Least(T) <= m /\ m <= Least(T)
    BY <2>2
  <2>4. Least(T) \in Nat
    BY <2>2
  <2> HIDE DEF Least
  <2>5. QED
    BY <2>1, <2>3, <2>4
<1> HIDE DEF Least
<1>6. f \in [S -> V]
  <2> SUFFICES ASSUME NEW s \in S
               PROVE  (IF Ends(s) # {} THEN value[o(s)[Least(Ends(s))]]
                       ELSE CHOOSE v \in V : TRUE) \in V
    OBVIOUS
  <2>1. CASE Ends(s) # {}
    <3>1. Least(Ends(s)) \in Nat
      BY <1>4, <2>1
    <3>2. o(s)[Least(Ends(s))] \in S
      BY <1>2, <3>1
    <3>3. QED
      BY <2>1, <3>2
  <2>2. CASE Ends(s) = {}
    <3>1. value[s] \in V
      OBVIOUS
    <3>2. QED
      BY <2>2, <3>1
  <2>3. QED
    BY <2>1, <2>2
<1>7. ASSUME NEW s \in S
      PROVE  f[s] = IF s \in done THEN value[s] ELSE f[next[s]]
  <2>1. CASE s \in done
    <3>1. 0 \in Ends(s)
      BY <1>2, <2>1
    <3>2. Least(Ends(s)) = 0
      BY <1>5, <3>1
    <3>3. QED
      BY <1>2, <2>1, <3>1, <3>2
  <2>2. CASE s \notin done
    <3>1. next[s] \in S /\ 0 \notin Ends(s)
      BY <1>2, <2>2
    <3>2. \A n \in Nat : n \in Ends(next[s]) <=> n + 1 \in Ends(s)
      BY <1>3
    <3>3. \A n \in Ends(s) : n \in Nat /\ n # 0 /\ n - 1 \in Nat /\ (n - 1) + 1 = n
      BY <3>1
    <3>4. CASE Ends(next[s]) = {}
      <4>1. Ends(s) = {}
        <5> HIDE DEF Ends
        <5>1. QED
          BY <3>2, <3>3, <3>4
      <4>2. QED
        BY <2>2, <3>1, <3>4, <4>1
    <3>5. CASE Ends(next[s]) # {}
      <4> DEFINE m == Least(Ends(next[s]))
      <4>1. m \in Ends(next[s]) /\ m \in Nat /\ \A n \in Ends(next[s]) : m <= n
        BY <1>4, <3>5
      <4> HIDE DEF m
      <4>2. m + 1 \in Ends(s)
        BY <3>2, <4>1
      <4>3. \A n \in Ends(s) : m + 1 <= n
        <5> SUFFICES ASSUME NEW n \in Ends(s) PROVE m + 1 <= n
          OBVIOUS
        <5>1. n - 1 \in Ends(next[s]) /\ n \in Nat
          <6> HIDE DEF Ends
          <6>1. QED
            BY <3>2, <3>3
        <5>2. m <= n - 1
          BY <4>1, <5>1
        <5>3. QED
          BY <4>1, <5>1, <5>2
      <4>4. Least(Ends(s)) = m + 1
        BY <1>5, <4>2, <4>3
      <4>5. o(next[s])[m] = o(s)[m + 1]
        BY <1>3, <4>1
      <4>6. f[s] = value[o(s)[m + 1]]
        BY <4>2, <4>4
      <4>7. f[next[s]] = value[o(next[s])[m]]
        BY <3>1, <3>5 DEF m
      <4>8. QED
        BY <2>2, <4>5, <4>6, <4>7
    <3>6. QED
      BY <3>4, <3>5
  <2>3. QED
    BY <2>1, <2>2
<1> HIDE DEF f
<1>8. GoesOn(f, S, done, next, value)
  BY <1>7 DEF GoesOn
<1>9. QED
  BY <1>6, <1>8
=============================================================================

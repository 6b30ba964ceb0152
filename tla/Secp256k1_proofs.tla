--------------------------- MODULE Secp256k1_proofs ---------------------------
(***************************************************************************)
(* ECDSA as sign and recover compute it, for every field, curve, key, hash *)
(* and nonce that the assumptions of Secp256k1 allow.                      *)
(*                                                                         *)
(* First the field.  It computes modulo P for limbs of any width, any      *)
(* number of them and any prime P that is Fold below the numbers they      *)
(* hold:                                                                   *)
(*                                                                         *)
(*   - a row of limbs with a carry (or a borrow) between them stands for   *)
(*     the sum (or the difference) of what its terms stand for: Carried,   *)
(*     AddRawIsExact, DifferenceUpto, CarriesAreExact;                     *)
(*   - a folding keeps the number modulo P and ends, as what is above the  *)
(*     limbs gets smaller until it is nothing: FoldedIsExact,              *)
(*     FoldLimbIsExact;                                                    *)
(*   - the coefficients of Euclid's algorithm change their sign at every   *)
(*     step and stay small enough to tell it from their top bit: Combines. *)
(*                                                                         *)
(* Then the curve.  GroupAssumption is what is known of it.  What the code *)
(* computes is brought down to it: Multiple is repeated addition, so every *)
(* point that occurs is Element(k), the generator's multiple by k modulo   *)
(* N; scalars are exact modulo N; and SquareRoot finds a root if there is  *)
(* one (Fermat), so that recover meets the nonce's point again.  The rest  *)
(* are equations modulo N between the numbers k of those points.           *)
(***************************************************************************)
EXTENDS Secp256k1, DataLemmas


-----------------------------------------------------------------------------
(* Weights and the numbers that limbs stand for *)

\* Weight is the powers of Base.
LEMMA WeightDefined ==
  /\ Weight \in [Nat -> Nat \ {0}]
  /\ Weight[0] = 1
  /\ \A i \in Nat : Weight[i + 1] = Base * Weight[i]
<1> DEFINE G == [p \in Nat \X (Nat \ {0}) |-> Base * p[2]]
           Body(g) == [i \in Nat |-> IF i = 0 THEN 1 ELSE Base * g[i - 1]]
<1>1. \A v \in Nat \ {0} : Base * v \in Nat \ {0}
  BY FieldAssumption
<1>2. G \in [Nat \X (Nat \ {0}) -> Nat \ {0}]
  BY <1>1
<1>3. PICK h \in [Nat -> Nat \ {0}] : Iterates(h, 1, G)
  <2> HIDE DEF G
  <2>1. 1 \in Nat \ {0}
    OBVIOUS
  <2>2. QED
    BY <1>2, <2>1, IterationExists
<1>4. h = Body(h)
  <2>1. \A k \in Nat : k # 0 => G[<<k, h[k - 1]>>] = Base * h[k - 1]
    OBVIOUS
  <2>2. h = [k \in Nat |-> IF k = 0 THEN 1 ELSE G[<<k, h[k - 1]>>]]
    BY <1>3 DEF Iterates
  <2> HIDE DEF G
  <2>3. \A k \in Nat : h[k] = IF k = 0 THEN 1 ELSE Base * h[k - 1]
    BY <2>1, <2>2
  <2>4. QED
    BY <2>3
<1>5. Weight = CHOOSE g : g = Body(g)
  BY DEF Weight
<1>6. Weight = Body(Weight)
  <2> HIDE DEF Body
  <2>1. QED
    BY <1>4, <1>5
<1>7. \A i \in Nat : Weight[i] = IF i = 0 THEN 1 ELSE Base * Weight[i - 1]
  BY <1>6
<1>8. Weight[0] = 1 /\ \A i \in Nat : Weight[i + 1] = Base * Weight[i]
  <2>1. \A i \in Nat : i + 1 \in Nat /\ i + 1 # 0 /\ (i + 1) - 1 = i
    OBVIOUS
  <2>2. \A i \in Nat : Weight[i + 1] = Base * Weight[(i + 1) - 1]
    BY <1>7, <2>1
  <2>3. QED
    BY <1>7, <2>1, <2>2
<1>9. Weight \in [Nat -> Nat \ {0}]
  <2> DEFINE Good == {n \in Nat : Weight[n] \in Nat \ {0}}
  <2>1. 0 \in Good
    BY <1>8
  <2>2. \A n \in Nat : n \in Good => n + 1 \in Good
    BY <1>1, <1>8
  <2>3. Nat \subseteq Good
    <3> HIDE DEF Good
    <3>1. QED
      BY <2>1, <2>2, NatSetInduction
  <2>4. \A n \in Nat : Weight[n] \in Nat \ {0}
    BY <2>3
  <2>5. Weight = [i \in Nat |-> Weight[i]]
    BY <1>6
  <2>6. QED
    BY <2>4, <2>5
<1>10. QED
  BY <1>8, <1>9

\* The weight of a sum is the product of the weights.
LEMMA WeightSum ==
  ASSUME NEW i \in Nat, NEW j \in Nat
  PROVE  Weight[i + j] = Weight[i] * Weight[j]
<1> DEFINE Good == {n \in Nat : Weight[i + n] = Weight[i] * Weight[n]}
<1>1. 0 \in Good
  BY WeightDefined
<1>2. ASSUME NEW n \in Nat, n \in Good PROVE n + 1 \in Good
  <2> DEFINE u == Weight[i]
             v == Weight[n]
  <2>1. u \in Nat /\ v \in Nat /\ Base \in Nat
    BY WeightDefined, FieldAssumption
  <2>2. Weight[i + n] = u * v
    BY <1>2
  <2>3. i + n \in Nat /\ i + (n + 1) = (i + n) + 1
    OBVIOUS
  <2>4. Weight[i + (n + 1)] = Base * Weight[i + n] /\ Weight[n + 1] = Base * v
    BY <2>3, WeightDefined
  <2> HIDE DEF u, v
  <2>5. Base * (u * v) = u * (Base * v)
    BY <2>1
  <2>6. QED
    BY <2>2, <2>4, <2>5 DEF u
<1>3. Nat \subseteq Good
  <2> HIDE DEF Good
  <2>1. QED
    BY <1>1, <1>2, NatSetInduction
<1>4. QED
  BY <1>3

\* Size, P and Fold, and how far P is from each.
LEMMA FieldSizes ==
  /\ Size \in Nat /\ P \in Nat /\ Base \in Nat /\ Limbs \in Nat /\ Fold \in Nat
  /\ Size = P + Fold /\ P > 3 /\ Fold < P /\ Fold < Base /\ Fold > 0 /\ Base < Size
  /\ Base > 2 /\ Limbs > 1 /\ Size = Weight[Limbs] /\ P = Size - Fold
<1>1. Limbs - 2 \in Nat /\ (Limbs - 2) + 2 = Limbs /\ Base \in Nat /\ Base > 2
  BY FieldAssumption
<1>2. Weight[2] = Base * Base
  <2>1. 0 + 1 = 1 /\ 1 + 1 = 2
    OBVIOUS
  <2>2. Weight[0 + 1] = Base * Weight[0] /\ Weight[1 + 1] = Base * Weight[1] /\ Weight[0] = 1
    BY WeightDefined
  <2>3. Weight[1] = Base
    BY <1>1, <2>1, <2>2
  <2>4. QED
    BY <2>1, <2>2, <2>3
<1>3. Weight[Limbs] = Weight[Limbs - 2] * (Base * Base)
  BY <1>1, <1>2, WeightSum
<1>4. Weight[Limbs - 2] \in Nat /\ Weight[Limbs - 2] >= 1
  BY <1>1, WeightDefined
<1> DEFINE w == Weight[Limbs - 2]
           b == Base * Base
<1>5. b \in Nat /\ b >= 3 * Base
  BY <1>1
<1>6. w \in Nat /\ w >= 1
  BY <1>4
<1>7. w * b >= b /\ w * b \in Nat
  <2> HIDE DEF w, b
  <2>1. QED
    BY <1>5, <1>6
<1>8. Size = w * b
  BY <1>3 DEF Size
<1> HIDE DEF w, b
<1>9. Fold \in Nat /\ Fold > 0 /\ Fold < Base
  BY FieldAssumption
<1>10. QED
  BY <1>1, <1>5, <1>7, <1>8, <1>9 DEF P, Size

\* What the first n limbs stand for.
Upto(d, n) == SumFunctionOnSet([i \in 1 .. n |-> d[i] * Weight[i - 1]], 1 .. n)

\* No limb stands for nothing.
LEMMA UptoZero == ASSUME NEW d PROVE Upto(d, 0) = 0
<1>1. 1 .. 0 = {}
  OBVIOUS
<1>2. QED
  BY <1>1, SumEmpty DEF Upto

\* One limb more counts for its weight.
LEMMA UptoNext ==
  ASSUME NEW n \in Nat, NEW d, \A i \in 1 .. (n + 1) : d[i] \in Int
  PROVE  Upto(d, n + 1) = Upto(d, n) + d[n + 1] * Weight[n]
<1> DEFINE f == [i \in 1 .. (n + 1) |-> d[i] * Weight[i - 1]]
           g == [i \in 1 .. n |-> d[i] * Weight[i - 1]]
<1>1. \A i \in 1 .. (n + 1) : f[i] \in Int
  <2>1. \A i \in 1 .. (n + 1) : i - 1 \in Nat
    OBVIOUS
  <2>2. \A i \in 1 .. (n + 1) : Weight[i - 1] \in Int
    BY <2>1, WeightDefined
  <2>3. QED
    BY <2>2
<1>2. IsFiniteSet(1 .. (n + 1)) /\ IsFiniteSet(1 .. n)
  BY FS_Interval
<1>3. n + 1 \in 1 .. (n + 1) /\ (1 .. (n + 1)) \ {n + 1} = 1 .. n
  OBVIOUS
<1>4. f[n + 1] = d[n + 1] * Weight[n]
  <2>1. (n + 1) - 1 = n
    OBVIOUS
  <2>2. QED
    BY <1>3, <2>1
<1>5. \A i \in 1 .. n : g[i] = f[i] /\ f[i] \in Int
  BY <1>1
<1>6. Upto(d, n + 1) = SumFunctionOnSet(f, 1 .. (n + 1)) /\ Upto(d, n) = SumFunctionOnSet(g, 1 .. n)
  BY DEF Upto
<1> HIDE DEF f, g
<1>7. SumFunctionOnSet(f, 1 .. (n + 1)) = f[n + 1] + SumFunctionOnSet(f, 1 .. n)
  <2>1. SumFunctionOnSet(f, 1 .. (n + 1)) = f[n + 1] + SumFunctionOnSet(f, (1 .. (n + 1)) \ {n + 1})
    BY <1>1, <1>2, <1>3, SumRemoves
  <2>2. QED
    BY <1>3, <2>1
<1>8. SumFunctionOnSet(f, 1 .. n) = SumFunctionOnSet(g, 1 .. n) /\ SumFunctionOnSet(f, 1 .. n) \in Int
  BY <1>2, <1>5, SumEqual, SumInt
<1>9. f[n + 1] \in Int
  BY <1>1, <1>3
<1>10. QED
  BY <1>4, <1>6, <1>7, <1>8, <1>9

\* Value is what all the limbs stand for.
LEMMA ValueIsUpto ==
  ASSUME NEW x \in Number
  PROVE  Value(x) = Upto(x, Limbs)
<1>1. DOMAIN [i \in 1 .. Limbs |-> x[i] * Weight[i - 1]] = 1 .. Limbs
  OBVIOUS
<1>2. QED
  BY <1>1 DEF Value, Upto, SumFunction

\* Integer limbs stand for an integer.
LEMMA UptoInt ==
  ASSUME NEW n \in Nat, NEW d, \A i \in 1 .. n : d[i] \in Int
  PROVE  Upto(d, n) \in Int
<1> DEFINE Good == {k \in Nat : k <= n => Upto(d, k) \in Int}
<1>1. 0 \in Good
  BY UptoZero
<1>2. ASSUME NEW k \in Nat, k \in Good PROVE k + 1 \in Good
  <2> SUFFICES ASSUME k + 1 <= n PROVE Upto(d, k + 1) \in Int
    OBVIOUS
  <2>1. Upto(d, k) \in Int /\ d[k + 1] \in Int /\ Weight[k] \in Int
    BY <1>2, WeightDefined
  <2>2. Upto(d, k + 1) = Upto(d, k) + d[k + 1] * Weight[k]
    BY UptoNext
  <2>3. QED
    BY <2>1, <2>2
<1>3. Nat \subseteq Good
  <2> HIDE DEF Good
  <2>1. QED
    BY <1>1, <1>2, NatSetInduction
<1>4. QED
  BY <1>3

\* Limbs stand for less than the weight of the next one.
LEMMA UptoBound ==
  ASSUME NEW n \in Nat, NEW d, \A i \in 1 .. n : d[i] \in 0 .. (Base - 1)
  PROVE  Upto(d, n) \in 0 .. (Weight[n] - 1)
<1> DEFINE Good == {k \in Nat : k <= n => Upto(d, k) \in 0 .. (Weight[k] - 1)}
<1>1. 0 \in Good
  BY UptoZero, WeightDefined
<1>2. ASSUME NEW k \in Nat, k \in Good PROVE k + 1 \in Good
  <2> SUFFICES ASSUME k + 1 <= n PROVE Upto(d, k + 1) \in 0 .. (Weight[k + 1] - 1)
    OBVIOUS
  <2> DEFINE u == Upto(d, k)
             w == Weight[k]
             a == d[k + 1]
  <2>1. u \in 0 .. (w - 1) /\ a \in 0 .. (Base - 1) /\ w \in Nat \ {0} /\ Base \in Nat
    BY <1>2, WeightDefined, FieldAssumption
  <2>2. Upto(d, k + 1) = u + a * w
    <3>1. \A i \in 1 .. (k + 1) : d[i] \in Int
      BY FieldAssumption
    <3>2. QED
      BY <3>1, UptoNext
  <2>3. Weight[k + 1] = Base * w
    BY WeightDefined
  <2> HIDE DEF u, w, a
  <2>4. a * w \in Nat /\ a * w <= (Base - 1) * w
    BY <2>1
  <2>5. (Base - 1) * w = Base * w - w /\ Base * w \in Nat
    BY <2>1
  <2>6. u + a * w \in 0 .. (Base * w - 1)
    BY <2>1, <2>4, <2>5
  <2>7. QED
    BY <2>2, <2>3, <2>6
<1>3. Nat \subseteq Good
  <2> HIDE DEF Good
  <2>1. QED
    BY <1>1, <1>2, NatSetInduction
<1>4. QED
  BY <1>3

\* A carry out of each limb into the next leaves only the last one.
LEMMA Carried ==
  ASSUME NEW n \in Nat, NEW d, NEW e, NEW c,
         \A i \in 1 .. n : d[i] \in Int /\ e[i] \in Int,
         \A i \in 0 .. n : c[i] \in Int,
         \A i \in 1 .. n : d[i] + c[i - 1] = e[i] + Base * c[i]
  PROVE  Upto(d, n) + c[0] = Upto(e, n) + Weight[n] * c[n]
<1> DEFINE Good == {k \in Nat : k <= n => Upto(d, k) + c[0] = Upto(e, k) + Weight[k] * c[k]}
<1>1. 0 \in Good
  <2>1. 1 * c[0] = c[0]
    OBVIOUS
  <2>2. QED
    BY <2>1, UptoZero, WeightDefined
<1>2. ASSUME NEW k \in Nat, k \in Good PROVE k + 1 \in Good
  <2> SUFFICES ASSUME k + 1 <= n
               PROVE  Upto(d, k + 1) + c[0] = Upto(e, k + 1) + Weight[k + 1] * c[k + 1]
    OBVIOUS
  <2>1. (k + 1) - 1 = k /\ k + 1 \in 1 .. n /\ k \in 0 .. n /\ k + 1 \in 0 .. n /\ 0 \in 0 .. n
    OBVIOUS
  <2> DEFINE w == Weight[k]
             du == Upto(d, k)
             eu == Upto(e, k)
             dk == d[k + 1]
             ek == e[k + 1]
             ck == c[k]
             cn == c[k + 1]
             cz == c[0]
  <2>2. w \in Int /\ dk \in Int /\ ek \in Int /\ ck \in Int /\ cn \in Int /\ cz \in Int /\ Base \in Int
    BY <2>1, WeightDefined, FieldAssumption
  <2>3. du \in Int /\ eu \in Int
    BY UptoInt
  <2>4. Upto(d, k + 1) = du + dk * w /\ Upto(e, k + 1) = eu + ek * w /\ Weight[k + 1] = Base * w
    BY UptoNext, WeightDefined
  <2>5. du + cz = eu + w * ck
    BY <1>2
  <2>6. dk + ck = ek + Base * cn
    BY <2>1
  <2> HIDE DEF w, du, eu, dk, ek, ck, cn, cz
  <2>7. (dk + ck) * w = (ek + Base * cn) * w
    BY <2>6
  <2>8. (dk + ck) * w = dk * w + w * ck /\ (ek + Base * cn) * w = ek * w + (Base * w) * cn
    BY <2>2
  <2> DEFINE p1 == dk * w
             p2 == w * ck
             p3 == ek * w
             p4 == (Base * w) * cn
  <2>9. p1 \in Int /\ p2 \in Int /\ p3 \in Int /\ p4 \in Int
    BY <2>2
  <2>10. p1 + p2 = p3 + p4 /\ du + cz = eu + p2
    BY <2>5, <2>7, <2>8
  <2> HIDE DEF p1, p2, p3, p4
  <2>11. (du + p1) + cz = (eu + p3) + p4
    BY <2>2, <2>3, <2>9, <2>10
  <2>12. QED
    BY <2>4, <2>11 DEF p1, p3, p4, cz, cn
<1>3. Nat \subseteq Good
  <2> HIDE DEF Good
  <2>1. QED
    BY <1>1, <1>2, NatSetInduction
<1>4. QED
  BY <1>3

\* Limb by limb, x plus k times y.
LEMMA UptoLinear ==
  ASSUME NEW n \in Nat, NEW d, NEW x, NEW y, NEW k \in Int,
         \A i \in 1 .. n : x[i] \in Int /\ y[i] \in Int /\ d[i] = x[i] + k * y[i]
  PROVE  Upto(d, n) = Upto(x, n) + k * Upto(y, n)
<1> DEFINE Good == {m \in Nat : m <= n => Upto(d, m) = Upto(x, m) + k * Upto(y, m)}
<1>1. 0 \in Good
  BY UptoZero
<1>2. ASSUME NEW m \in Nat, m \in Good PROVE m + 1 \in Good
  <2> SUFFICES ASSUME m + 1 <= n PROVE Upto(d, m + 1) = Upto(x, m + 1) + k * Upto(y, m + 1)
    OBVIOUS
  <2> DEFINE w == Weight[m]
             xu == Upto(x, m)
             yu == Upto(y, m)
             xm == x[m + 1]
             ym == y[m + 1]
  <2>1. w \in Int /\ xm \in Int /\ ym \in Int /\ xu \in Int /\ yu \in Int
    BY WeightDefined, UptoInt
  <2>2. \A i \in 1 .. (m + 1) : d[i] \in Int
    OBVIOUS
  <2>3. /\ Upto(d, m + 1) = Upto(d, m) + d[m + 1] * w
        /\ Upto(x, m + 1) = xu + xm * w
        /\ Upto(y, m + 1) = yu + ym * w
    BY <2>2, UptoNext
  <2>4. Upto(d, m) = xu + k * yu /\ d[m + 1] = xm + k * ym
    BY <1>2
  <2> HIDE DEF w, xu, yu, xm, ym
  <2>5. (xu + k * yu) + (xm + k * ym) * w = (xu + xm * w) + k * (yu + ym * w)
    BY <2>1
  <2>6. QED
    BY <2>3, <2>4, <2>5
<1>3. Nat \subseteq Good
  <2> HIDE DEF Good
  <2>1. QED
    BY <1>1, <1>2, NatSetInduction
<1>4. QED
  BY <1>3

\* The same limbs stand for the same.
LEMMA UptoSame ==
  ASSUME NEW n \in Nat, NEW d, NEW e, \A i \in 1 .. n : d[i] \in Int /\ e[i] = d[i]
  PROVE  Upto(e, n) = Upto(d, n)
<1>1. \A i \in 1 .. n : d[i] \in Int /\ e[i] = d[i] + 0 * d[i]
  OBVIOUS
<1>2. Upto(e, n) = Upto(d, n) + 0 * Upto(d, n)
  BY <1>1, UptoLinear, 0 \in Int
<1>3. Upto(d, n) \in Int
  BY UptoInt
<1>4. QED
  BY <1>2, <1>3

\* The limbs from the one after a on stand for what is left over of Weight[a].
LEMMA UptoSplit ==
  ASSUME NEW t \in Nat, NEW a \in 0 .. t, NEW d, \A i \in 1 .. t : d[i] \in Int
  PROVE  Upto(d, t) = Upto(d, a) + Weight[a] * Upto([i \in 1 .. (t - a) |-> d[i + a]], t - a)
<1> DEFINE n == t - a
           e == [i \in 1 .. n |-> d[i + a]]
<1>n. n \in Nat /\ t = a + n /\ a \in Nat
  OBVIOUS
<1>e. \A i \in 1 .. n : e[i] = d[i + a]
  OBVIOUS
<1>g. SUFFICES Upto(d, t) = Upto(d, a) + Weight[a] * Upto(e, n)
  OBVIOUS
<1> HIDE DEF n, e
<1> DEFINE Good == {m \in Nat : m <= n => Upto(d, a + m) = Upto(d, a) + Weight[a] * Upto(e, m)}
<1>1. 0 \in Good
  <2>1. Upto(d, a) \in Int /\ Weight[a] \in Int
    <3>1. \A i \in 1 .. a : d[i] \in Int
      BY <1>n
    <3>2. QED
      BY <1>n, <3>1, UptoInt, WeightDefined
  <2>2. a + 0 = a /\ Upto(d, a) = Upto(d, a) + Weight[a] * 0
    BY <1>n, <2>1
  <2>3. QED
    BY <2>2, UptoZero
<1>2. ASSUME NEW m \in Nat, m \in Good PROVE m + 1 \in Good
  <2> SUFFICES ASSUME m + 1 <= n
               PROVE  Upto(d, a + (m + 1)) = Upto(d, a) + Weight[a] * Upto(e, m + 1)
    OBVIOUS
  <2> DEFINE w == Weight[a]
             v == Weight[m]
             du == Upto(d, a)
             eu == Upto(e, m)
             x == e[m + 1]
  <2>1. \A i \in 1 .. n : i + a \in 1 .. t
    BY <1>n
  <2>2. \A i \in 1 .. n : e[i] \in Int
    BY <2>1, <1>e
  <2>3. w \in Int /\ v \in Int /\ du \in Int /\ eu \in Int /\ x \in Int
    <3>1. \A i \in 1 .. a : d[i] \in Int
      BY <1>n
    <3>2. \A i \in 1 .. m : e[i] \in Int
      BY <1>n, <2>2
    <3>3. m + 1 \in 1 .. n
      BY <1>n
    <3>4. w \in Int /\ v \in Int
      BY <1>n, WeightDefined
    <3>5. QED
      BY <1>n, <2>2, <3>1, <3>2, <3>3, <3>4, UptoInt
  <2>4. /\ a + m \in Nat /\ (a + m) + 1 = a + (m + 1) /\ d[(a + m) + 1] = x
        /\ \A i \in 1 .. ((a + m) + 1) : d[i] \in Int
    <3>1. m + 1 \in 1 .. n /\ (m + 1) + a = (a + m) + 1
      BY <1>n
    <3>2. d[(m + 1) + a] = x
      BY <1>e, <3>1
    <3>3. a + m \in Nat /\ (a + m) + 1 = a + (m + 1)
      BY <1>n
    <3>4. \A i \in 1 .. ((a + m) + 1) : i \in 1 .. t
      BY <1>n
    <3>5. QED
      BY <3>1, <3>2, <3>3, <3>4
  <2>5. Upto(d, (a + m) + 1) = Upto(d, a + m) + d[(a + m) + 1] * Weight[a + m]
    BY <2>4, UptoNext
  <2>6. Weight[a + m] = w * v
    BY <1>n, WeightSum
  <2>7. Upto(e, m + 1) = eu + x * v
    <3>1. \A i \in 1 .. (m + 1) : e[i] \in Int
      BY <1>n, <2>2
    <3>2. QED
      BY <3>1, UptoNext
  <2>8. Upto(d, a + m) = du + w * eu
    BY <1>2, <1>n
  <2> HIDE DEF w, v, du, eu, x
  <2>9. (du + w * eu) + x * (w * v) = du + w * (eu + x * v)
    BY <2>3
  <2>10. QED
    BY <2>4, <2>5, <2>6, <2>7, <2>8, <2>9 DEF w, du
<1>3. Nat \subseteq Good
  <2> HIDE DEF Good
  <2>1. QED
    BY <1>1, <1>2, NatSetInduction
<1>4. QED
  BY <1>3, <1>n

\* Limbs of zero stand for nothing.
LEMMA UptoNothing ==
  ASSUME NEW n \in Nat, NEW d, \A i \in 1 .. n : d[i] = 0
  PROVE  Upto(d, n) = 0
<1>1. \A i \in 1 .. n : d[i] \in Int /\ d[i] = d[i] + 1 * d[i]
  OBVIOUS
<1>2. Upto(d, n) = Upto(d, n) + 1 * Upto(d, n)
  BY <1>1, UptoLinear, 1 \in Int
<1>3. Upto(d, n) \in Int
  BY <1>1, UptoInt
<1> DEFINE u == Upto(d, n)
<1>4. u \in Int /\ u = u + 1 * u
  BY <1>2, <1>3
<1> HIDE DEF u
<1>5. u = 0
  BY <1>4
<1>6. QED
  BY <1>5 DEF u

-----------------------------------------------------------------------------
(* Numbers of limbs *)

\* The limbs of a Number are below Base.
LEMMA NumberLimbs ==
  ASSUME NEW x \in Number
  PROVE  \A i \in 1 .. Limbs : x[i] \in 0 .. (Base - 1) /\ x[i] \in Int
BY FieldSizes DEF Number

\* A Number stands for less than Size.
LEMMA ValueRange ==
  ASSUME NEW x \in Number
  PROVE  Value(x) \in 0 .. (Size - 1) /\ Value(x) \in Nat
<1>1. Limbs \in Nat /\ Size = Weight[Limbs]
  BY FieldSizes
<1>2. Upto(x, Limbs) \in 0 .. (Weight[Limbs] - 1)
  BY <1>1, NumberLimbs, UptoBound
<1>3. Size \in Nat
  BY FieldSizes
<1>4. QED
  BY <1>1, <1>2, <1>3, ValueIsUpto

\* What a number leaves modulo the weight of a limb is what is below that limb.
LEMMA UptoLimbsOf ==
  ASSUME NEW v \in Int, NEW n \in 0 .. Limbs
  PROVE  Upto(LimbsOf(v), n) = v % Weight[n]
<1>1. Limbs \in Nat /\ Base \in Nat \ {0}
  BY FieldSizes
<1> DEFINE d == LimbsOf(v)
           Good == {k \in Nat : k <= Limbs => Upto(d, k) = v % Weight[k]}
<1>2. \A i \in 1 .. Limbs : Weight[i - 1] \in Nat \ {0} /\ v \div Weight[i - 1] \in Int
  <2> SUFFICES ASSUME NEW i \in 1 .. Limbs
               PROVE  Weight[i - 1] \in Nat \ {0} /\ v \div Weight[i - 1] \in Int
    OBVIOUS
  <2>1. i - 1 \in Nat
    OBVIOUS
  <2>2. Weight[i - 1] \in Nat \ {0}
    BY <2>1, WeightDefined
  <2>3. QED
    BY <2>2, DivMod
<1>3. \A i \in 1 .. Limbs : d[i] = (v \div Weight[i - 1]) % Base /\ d[i] \in Int
  <2>1. \A i \in 1 .. Limbs : d[i] = (v \div Weight[i - 1]) % Base
    BY DEF LimbsOf
  <2>2. \A q \in Int : q % Base \in Int
    BY <1>1, DivMod
  <2>3. QED
    BY <1>2, <2>1, <2>2
<1> HIDE DEF d
<1>4. 0 \in Good
  <2>1. v % 1 = 0
    OBVIOUS
  <2>2. QED
    BY <2>1, UptoZero, WeightDefined
<1>5. ASSUME NEW k \in Nat, k \in Good PROVE k + 1 \in Good
  <2> SUFFICES ASSUME k + 1 <= Limbs PROVE Upto(d, k + 1) = v % Weight[k + 1]
    OBVIOUS
  <2> DEFINE w == Weight[k]
  <2>1. w \in Nat \ {0} /\ Weight[k + 1] = Base * w
    BY WeightDefined
  <2>2. k + 1 \in 1 .. Limbs /\ (k + 1) - 1 = k /\ \A i \in 1 .. (k + 1) : i \in 1 .. Limbs
    BY <1>1
  <2>3. Upto(d, k + 1) = Upto(d, k) + d[k + 1] * w
    <3>1. \A i \in 1 .. (k + 1) : d[i] \in Int
      BY <1>3, <2>2
    <3>2. QED
      BY <3>1, UptoNext
  <2>4. Upto(d, k) = v % w
    BY <1>1, <1>5
  <2>5. d[k + 1] = (v \div w) % Base
    BY <1>3, <2>2
  <2> HIDE DEF w
  <2>6. v % (w * Base) = w * ((v \div w) % Base) + (v % w)
    BY <1>1, <2>1, DivModProduct
  <2>7. d[k + 1] \in Int /\ v % w \in Int
    BY <1>3, <2>1, <2>2, DivMod
  <2>8. w * Base = Base * w /\ w * d[k + 1] = d[k + 1] * w /\ d[k + 1] * w \in Int
    BY <1>1, <2>1, <2>7
  <2>9. QED
    BY <2>1, <2>3, <2>4, <2>5, <2>6, <2>7, <2>8
<1>6. Nat \subseteq Good
  <2> HIDE DEF Good
  <2>1. QED
    BY <1>4, <1>5, NatSetInduction
<1>7. QED
  BY <1>1, <1>6 DEF d

\* LimbsOf gives a Number that stands for v, as far as it fits.
LEMMA LimbsOfNumber ==
  ASSUME NEW v \in Int
  PROVE  LimbsOf(v) \in Number /\ Value(LimbsOf(v)) = v % Size
<1>1. Limbs \in Nat /\ Base \in Nat \ {0} /\ Size = Weight[Limbs]
  BY FieldSizes
<1>2. ASSUME NEW i \in 1 .. Limbs PROVE (v \div Weight[i - 1]) % Base \in 0 .. (Base - 1)
  <2>1. i - 1 \in Nat
    OBVIOUS
  <2>2. Weight[i - 1] \in Nat \ {0}
    BY <2>1, WeightDefined
  <2>3. v \div Weight[i - 1] \in Int
    BY <2>2, DivMod
  <2>4. QED
    BY <1>1, <2>3, DivMod
<1>3. LimbsOf(v) \in Number
  BY <1>2 DEF LimbsOf, Number
<1>4. Upto(LimbsOf(v), Limbs) = v % Weight[Limbs]
  BY <1>1, UptoLimbsOf
<1>5. QED
  BY <1>1, <1>3, <1>4, ValueIsUpto

\* ... and for v itself if v is below Size.
LEMMA LimbsOfSmall ==
  ASSUME NEW v \in 0 .. (Size - 1)
  PROVE  LimbsOf(v) \in Number /\ Value(LimbsOf(v)) = v
<1>1. Size \in Nat \ {0}
  BY FieldSizes
<1>2. v % Size = v
  BY <1>1, ModOfSmall
<1>3. v \in Int
  BY <1>1
<1>4. QED
  BY <1>2, <1>3, LimbsOfNumber

\* The limbs below n stand for the number modulo the weight of n.
LEMMA UptoIsMod ==
  ASSUME NEW x \in Number, NEW n \in 0 .. Limbs
  PROVE  Upto(x, n) = Value(x) % Weight[n]
<1>1. Limbs \in Nat /\ n \in Nat /\ Limbs - n \in Nat
  BY FieldSizes
<1> DEFINE e == [i \in 1 .. (Limbs - n) |-> x[i + n]]
           r == Limbs - n
<1>2. Upto(x, Limbs) = Upto(x, n) + Weight[n] * Upto(e, r)
  <2>1. \A i \in 1 .. Limbs : x[i] \in Int
    BY NumberLimbs
  <2>2. QED
    BY <1>1, <2>1, UptoSplit
<1>3. \A i \in 1 .. r : e[i] \in Int
  <2>1. \A i \in 1 .. r : i + n \in 1 .. Limbs
    BY <1>1
  <2>2. QED
    BY <2>1, NumberLimbs
<1>4. r \in Nat
  BY <1>1
<1> HIDE DEF e, r
<1>6. Upto(e, r) \in Int
  BY <1>3, <1>4, UptoInt
<1>7. Upto(x, n) \in 0 .. (Weight[n] - 1) /\ Weight[n] \in Nat \ {0}
  <2>1. \A i \in 1 .. n : x[i] \in 0 .. (Base - 1)
    BY <1>1, NumberLimbs
  <2>2. QED
    BY <1>1, <2>1, UptoBound, WeightDefined
<1> DEFINE w == Weight[n]
           q == Upto(e, r)
           u == Upto(x, n)
<1>8. Value(x) = u + w * q
  BY <1>2, ValueIsUpto
<1>9. w \in Nat \ {0} /\ q \in Int /\ u \in 0 .. (w - 1)
  BY <1>6, <1>7
<1> HIDE DEF w, q, u
<1>10. (w * q + u) % w = u
  BY <1>9, DivModUnique
<1>11. u + w * q = w * q + u
  BY <1>9
<1>12. QED
  BY <1>8, <1>10, <1>11 DEF w, u

-----------------------------------------------------------------------------
(* Sums and differences *)

\* A limb that wraps is below Base.
LEMMA WrapRange ==
  ASSUME NEW v \in Int
  PROVE  Wrap(v) \in 0 .. (Base - 1)
<1>1. Base \in Nat \ {0}
  BY FieldSizes
<1>2. QED
  BY <1>1, DivMod DEF Wrap

\* The sum of two limbs and a carry wraps at most once.
LEMMA WrapOnce ==
  ASSUME NEW v \in 0 .. (2 * Base - 1)
  PROVE  Wrap(v) = IF v < Base THEN v ELSE v - Base
<1>1. Base \in Nat \ {0}
  BY FieldSizes
<1>2. CASE v < Base
  BY <1>1, <1>2, ModOfSmall DEF Wrap
<1>3. CASE v >= Base
  <2>1. v - Base \in 0 .. (Base - 1) /\ Base * 1 + (v - Base) = v
    BY <1>1, <1>3
  <2>2. (Base * 1 + (v - Base)) % Base = v - Base
    BY <1>1, <2>1, DivModUnique, 1 \in Int
  <2>3. QED
    BY <1>1, <1>3, <2>1, <2>2 DEF Wrap
<1>4. QED
  BY <1>1, <1>2, <1>3

\* A function that gives 1 or 0 at each limb, from what it gives one below.
LEMMA BitsExist ==
  ASSUME NEW n \in Nat, NEW Raised \in SUBSET (Nat \X {0, 1})
  PROVE  \E f \in [0 .. n -> {0, 1}] :
           f = [i \in 0 .. n |-> IF i > 0 /\ <<i, f[i - 1]>> \in Raised THEN 1 ELSE 0]
<1> DEFINE G == [p \in (0 .. n) \X {0, 1} |-> IF p \in Raised THEN 1 ELSE 0]
<1>1. G \in [(0 .. n) \X {0, 1} -> {0, 1}] /\ 0 \in {0, 1} /\ 0 \in Nat
  OBVIOUS
<1>2. PICK f \in [0 .. n -> {0, 1}] :
        f = [k \in 0 .. n |-> IF k = 0 THEN 0 ELSE G[<<k, f[k - 1]>>]]
  <2> DEFINE V == {0, 1}
             z == 0
  <2>1. G \in [(z .. n) \X V -> V] /\ z \in V /\ z \in Nat
    BY <1>1
  <2> HIDE DEF G, V, z
  <2>2. \E f \in [z .. n -> V] : IteratesOn(f, z, n, z, G)
    BY <2>1, RangeIterationExists
  <2>3. QED
    BY <2>2 DEF V, z, IteratesOn
<1>3. ASSUME NEW i \in 0 .. n
      PROVE  f[i] = IF i > 0 /\ <<i, f[i - 1]>> \in Raised THEN 1 ELSE 0
  <2>1. CASE i = 0
    <3>1. f[0] = 0
      <4> HIDE DEF G
      <4>1. QED
        BY <1>2
    <3>2. QED
      BY <2>1, <3>1
  <2>2. CASE i # 0
    <3>1. i > 0 /\ i - 1 \in 0 .. n
      BY <2>2
    <3>2. <<i, f[i - 1]>> \in (0 .. n) \X {0, 1}
      BY <3>1
    <3>3. f[i] = G[<<i, f[i - 1]>>]
      <4> HIDE DEF G
      <4>1. QED
        BY <1>2, <2>2
    <3>4. QED
      BY <3>1, <3>2, <3>3
  <2>3. QED
    BY <2>1, <2>2
<1>4. f = [i \in 0 .. n |-> IF i > 0 /\ <<i, f[i - 1]>> \in Raised THEN 1 ELSE 0]
  BY <1>3
<1>5. QED
  BY <1>4

\* AddRaw is an addition with a carry.
LEMMA AddRawIsExact ==
  ASSUME NEW x \in Number, NEW y \in Number
  PROVE  /\ AddRaw(x, y).limbs \in Number /\ AddRaw(x, y).carry \in {0, 1}
         /\ Value(AddRaw(x, y).limbs) + Size * AddRaw(x, y).carry = Value(x) + Value(y)
<1>1. Limbs \in Nat /\ Base \in Nat /\ Base > 2 /\ Size = Weight[Limbs]
  BY FieldSizes
<1> DEFINE Sum(i, c) == Wrap(x[i] + y[i] + c)
           Raises(i, c) == LET sum == Sum(i, c) IN sum < x[i] \/ (c = 1 /\ sum = x[i])
           Body(f) == [i \in 0 .. Limbs |->
                        IF i > 0 /\ LET sum == Sum(i, f[i - 1])
                                    IN  sum < x[i] \/ (f[i - 1] = 1 /\ sum = x[i])
                        THEN 1 ELSE 0]
           Raised == {p \in Nat \X {0, 1} : Raises(p[1], p[2])}
           carry == CHOOSE f : f = Body(f)
           e == [i \in 1 .. Limbs |-> Sum(i, carry[i - 1])]
<1>2. PICK g \in [0 .. Limbs -> {0, 1}] :
        g = [i \in 0 .. Limbs |-> IF i > 0 /\ <<i, g[i - 1]>> \in Raised THEN 1 ELSE 0]
  <2>1. Raised \in SUBSET (Nat \X {0, 1})
    OBVIOUS
  <2> HIDE DEF Raised
  <2>2. QED
    BY <1>1, <2>1, BitsExist
<1>3. g = Body(g)
  <2>1. ASSUME NEW i \in 0 .. Limbs, i > 0
        PROVE  <<i, g[i - 1]>> \in Raised <=> Raises(i, g[i - 1])
    <3>1. i \in Nat /\ i - 1 \in 0 .. Limbs
      BY <1>1, <2>1
    <3>2. <<i, g[i - 1]>> \in Nat \X {0, 1}
      BY <3>1
    <3> HIDE DEF Raises
    <3>3. QED
      BY <3>2
  <2> HIDE DEF Raised
  <2>2. QED
    BY <1>2, <2>1
<1>4. AddRaw(x, y) = [limbs |-> e, carry |-> carry[Limbs]]
  BY DEF AddRaw
<1>5. carry = Body(carry)
  <2> HIDE DEF Body
  <2>1. QED
    BY <1>3
<1> HIDE DEF carry
<1>6. /\ carry[0] = 0
      /\ \A i \in 1 .. Limbs : carry[i] = IF Raises(i, carry[i - 1]) THEN 1 ELSE 0
  <2>1. 0 \in 0 .. Limbs /\ \A i \in 1 .. Limbs : i \in 0 .. Limbs /\ i > 0
    BY <1>1
  <2>2. \A i \in 0 .. Limbs : carry[i] = IF i > 0 /\ Raises(i, carry[i - 1]) THEN 1 ELSE 0
    BY <1>5
  <2> HIDE DEF Raises
  <2>3. QED
    BY <2>1, <2>2
<1>7. \A i \in 0 .. Limbs : carry[i] \in {0, 1}
  <2> HIDE DEF Raises
  <2>1. \A i \in 0 .. Limbs : i = 0 \/ i \in 1 .. Limbs
    BY <1>1
  <2>2. QED
    BY <1>6, <2>1
<1>8. ASSUME NEW i \in 1 .. Limbs
      PROVE  /\ e[i] \in 0 .. (Base - 1)
             /\ (x[i] + y[i]) + carry[i - 1] = e[i] + Base * carry[i]
  <2> DEFINE a == x[i]
             b == y[i]
             c == carry[i - 1]
  <2>1. a \in 0 .. (Base - 1) /\ b \in 0 .. (Base - 1)
    BY NumberLimbs
  <2>2. c \in {0, 1}
    <3>1. i - 1 \in 0 .. Limbs
      BY <1>1
    <3>2. QED
      BY <1>7, <3>1
  <2> DEFINE v == a + b + c
  <2>3. e[i] = Wrap(v)
    OBVIOUS
  <2>4. carry[i] = IF Wrap(v) < a \/ (c = 1 /\ Wrap(v) = a) THEN 1 ELSE 0
    BY <1>6
  <2> HIDE DEF a, b, c, e
  <2>5. v \in 0 .. (2 * Base - 1) /\ v = a + b + c /\ v = (a + b) + c
    BY <1>1, <2>1, <2>2
  <2> HIDE DEF v
  <2>6. Wrap(v) = IF v < Base THEN v ELSE v - Base
    BY <2>5, WrapOnce
  <2>7. CASE v < Base
    <3>1. carry[i] = 0 /\ Base * 0 = 0
      BY <1>1, <2>1, <2>2, <2>4, <2>5, <2>6, <2>7
    <3>2. e[i] = v /\ e[i] \in 0 .. (Base - 1)
      BY <1>1, <2>3, <2>5, <2>6, <2>7
    <3>3. (a + b) + c = v + Base * 0
      BY <1>1, <2>5
    <3>4. QED
      BY <3>1, <3>2, <3>3 DEF a, b, c
  <2>8. CASE v >= Base
    <3>1. carry[i] = 1 /\ Base * 1 = Base
      BY <1>1, <2>1, <2>2, <2>4, <2>5, <2>6, <2>8
    <3>2. e[i] = v - Base /\ e[i] \in 0 .. (Base - 1)
      BY <1>1, <2>3, <2>5, <2>6, <2>8
    <3>3. (a + b) + c = (v - Base) + Base * 1
      BY <1>1, <2>5
    <3>4. QED
      BY <3>1, <3>2, <3>3 DEF a, b, c
  <2>9. QED
    BY <1>1, <2>5, <2>7, <2>8
<1>9. e \in Number
  <2>1. \A i \in 1 .. Limbs : Sum(i, carry[i - 1]) \in 0 .. (Base - 1)
    BY <1>8
  <2> HIDE DEF Sum
  <2>2. QED
    BY <2>1 DEF Number
<1> HIDE DEF e
<1> DEFINE d == [i \in 1 .. Limbs |-> x[i] + 1 * y[i]]
<1>10. \A i \in 1 .. Limbs :
         x[i] \in Int /\ y[i] \in Int /\ d[i] \in Int /\ e[i] \in Int /\ d[i] = x[i] + 1 * y[i]
  BY <1>9, NumberLimbs
<1>11. \A i \in 1 .. Limbs : d[i] + carry[i - 1] = e[i] + Base * carry[i]
  <2> SUFFICES ASSUME NEW i \in 1 .. Limbs PROVE d[i] + carry[i - 1] = e[i] + Base * carry[i]
    OBVIOUS
  <2>1. x[i] \in Int /\ y[i] \in Int
    BY NumberLimbs
  <2>2. d[i] = x[i] + y[i]
    BY <2>1
  <2>3. QED
    BY <1>8, <2>2
<1> HIDE DEF d
<1>12. Upto(d, Limbs) = Upto(x, Limbs) + 1 * Upto(y, Limbs)
  BY <1>1, <1>10, UptoLinear, 1 \in Int
<1>13. Upto(d, Limbs) + carry[0] = Upto(e, Limbs) + Weight[Limbs] * carry[Limbs]
  <2>1. \A i \in 0 .. Limbs : carry[i] \in Int
    BY <1>7
  <2>2. Limbs \in Nat /\ \A i \in 1 .. Limbs : d[i] \in Int /\ e[i] \in Int
    BY <1>1, <1>10
  <2>3. QED
    BY ONLY <1>11, <2>1, <2>2, Carried, ZenonT(60)
<1>14. /\ Upto(x, Limbs) = Value(x) /\ Upto(y, Limbs) = Value(y) /\ Upto(e, Limbs) = Value(e)
       /\ Value(x) \in Int /\ Value(y) \in Int
  BY <1>9, ValueIsUpto, ValueRange
<1>15. Value(e) + Size * carry[Limbs] = Value(x) + Value(y)
  BY <1>1, <1>6, <1>12, <1>13, <1>14
<1>16. carry[Limbs] \in {0, 1}
  BY <1>1, <1>7
<1>17. QED
  BY <1>4, <1>9, <1>15, <1>16

\* b borrows rightly from each limb but the first, as far as limb n.
Borrowed(x, y, b, n) ==
  /\ b \in [0 .. Limbs -> {0, 1}] /\ b[0] = 0
  /\ \A i \in 1 .. n : b[i] = 1 <=> x[i] < y[i] + b[i - 1]

\* e is the difference that the borrows b leave.
LeftBy(x, y, e, b) == \A i \in 1 .. Limbs : e[i] = Wrap(x[i] + Base - y[i] - b[i - 1])

\* A difference with the right borrows into each of its first limbs.
LEMMA DifferenceUpto ==
  ASSUME NEW x \in Number, NEW y \in Number, NEW e, NEW n \in 0 .. Limbs,
         NEW b, Borrowed(x, y, b, n), LeftBy(x, y, e, b)
  PROVE  Upto(e, n) + Upto(y, n) = Upto(x, n) + Weight[n] * b[n]
<1>1. Limbs \in Nat /\ Base \in Nat /\ Base > 2 /\ n \in Nat /\ n <= Limbs
  BY FieldSizes
<1> DEFINE d == [i \in 1 .. n |-> x[i] + (-1) * y[i]]
           c == [i \in 0 .. n |-> -b[i]]
<1>2. ASSUME NEW i \in 1 .. n
      PROVE  /\ x[i] \in Int /\ y[i] \in Int /\ e[i] \in Int /\ d[i] \in Int
             /\ d[i] = x[i] + (-1) * y[i] /\ d[i] + c[i - 1] = e[i] + Base * c[i]
  <2> DEFINE xi == x[i]
             yi == y[i]
             bi == b[i - 1]
             bn == b[i]
             v == xi + Base - yi - bi
             p == Base * bn
  <2>1. i \in 1 .. Limbs /\ i - 1 \in 0 .. Limbs /\ i \in 0 .. Limbs /\ i - 1 \in 0 .. n /\ i \in 0 .. n
    BY <1>1
  <2>2. xi \in 0 .. (Base - 1) /\ yi \in 0 .. (Base - 1) /\ bi \in {0, 1} /\ bn \in {0, 1}
    BY <2>1, NumberLimbs DEF Borrowed
  <2>3. e[i] = Wrap(v) /\ (bn = 1 <=> xi < yi + bi)
    BY <2>1 DEF Borrowed, LeftBy
  <2>v. v \in Int /\ v = xi + Base - yi - bi
    BY <1>1, <2>2
  <2>4. d[i] = xi + (-1) * yi /\ c[i - 1] = -bi /\ c[i] = -bn
    BY <2>1
  <2> HIDE DEF xi, yi, bi, bn, d, c, v
  <2>5. e[i] \in 0 .. (Base - 1) /\ (xi - yi) - bi = e[i] - (IF xi < yi + bi THEN Base ELSE 0)
    <3>1. v \in 0 .. (2 * Base - 1)
      BY <1>1, <2>2, <2>v
    <3>2. Wrap(v) = IF v < Base THEN v ELSE v - Base
      BY <3>1, WrapOnce
    <3>3. QED
      BY <1>1, <2>2, <2>3, <2>v, <3>1, <3>2
  <2>6. (IF xi < yi + bi THEN Base ELSE 0) = p
    BY <1>1, <2>2, <2>3
  <2>7. xi \in Int /\ yi \in Int /\ bi \in Int /\ e[i] \in Int /\ d[i] \in Int /\ p \in Int
    BY <1>1, <2>2, <2>4, <2>5
  <2>8. Base * c[i] = -p
    BY <1>1, <2>2, <2>4
  <2> HIDE DEF p
  <2>9. d[i] + c[i - 1] = e[i] + Base * c[i]
    BY <2>4, <2>5, <2>6, <2>7, <2>8
  <2>10. QED
    BY <2>4, <2>7, <2>9 DEF xi, yi
<1>3. \A i \in 0 .. n : c[i] \in Int
  <2>1. \A i \in 0 .. n : b[i] \in {0, 1}
    BY <1>1 DEF Borrowed
  <2>2. QED
    BY <2>1
<1>4. c[0] = 0 /\ c[n] = -b[n] /\ b[n] \in {0, 1}
  BY <1>1 DEF Borrowed
<1> HIDE DEF d, c
<1>5. Upto(d, n) + c[0] = Upto(e, n) + Weight[n] * c[n]
  <2>1. \A i \in 1 .. n : d[i] \in Int /\ e[i] \in Int
    BY <1>2
  <2>2. \A i \in 1 .. n : d[i] + c[i - 1] = e[i] + Base * c[i]
    BY <1>2
  <2>3. QED
    BY <1>1, <1>3, <2>1, <2>2, Carried
<1>6. Upto(d, n) = Upto(x, n) + (-1) * Upto(y, n)
  <2> DEFINE k == -1
  <2>1. k \in Int /\ \A i \in 1 .. n : x[i] \in Int /\ y[i] \in Int /\ d[i] = x[i] + k * y[i]
    BY <1>2
  <2> HIDE DEF k
  <2>2. Upto(d, n) = Upto(x, n) + k * Upto(y, n)
    BY <1>1, <2>1, UptoLinear
  <2>3. QED
    BY <2>2 DEF k
<1> DEFINE dn == Upto(d, n)
           en == Upto(e, n)
           xn == Upto(x, n)
           yn == Upto(y, n)
           w == Weight[n]
<1>7. en \in Int /\ xn \in Int /\ yn \in Int /\ w \in Int
  <2>1. \A i \in 1 .. n : x[i] \in Int /\ y[i] \in Int /\ e[i] \in Int
    BY <1>2
  <2>2. QED
    BY <1>1, <2>1, UptoInt, WeightDefined
<1>8. dn + 0 = en + w * (-b[n]) /\ dn = xn + (-1) * yn
  BY <1>4, <1>5, <1>6
<1> HIDE DEF dn, en, xn, yn, w
<1>9. en + yn = xn + w * b[n]
  <2>1. CASE b[n] = 0
    BY <1>7, <1>8, <2>1
  <2>2. CASE b[n] = 1
    BY <1>7, <1>8, <2>2
  <2>3. QED
    BY <1>4, <2>1, <2>2
<1>10. QED
  BY <1>9 DEF en, xn, yn, w

\* SubRaw is a subtraction with a borrow.
LEMMA SubRawIsExact ==
  ASSUME NEW x \in Number, NEW y \in Number
  PROVE  /\ SubRaw(x, y).limbs \in Number /\ SubRaw(x, y).borrow \in {0, 1}
         /\ Value(SubRaw(x, y).limbs) + Value(y) = Value(x) + Size * SubRaw(x, y).borrow
<1>1. Limbs \in Nat /\ Base \in Nat /\ Base > 2 /\ Size = Weight[Limbs]
  BY FieldSizes
<1> DEFINE Raises(i, c) == x[i] < y[i] \/ (c = 1 /\ x[i] = y[i])
           Body(f) == [i \in 0 .. Limbs |-> IF i > 0 /\ Raises(i, f[i - 1]) THEN 1 ELSE 0]
           Raised == {p \in Nat \X {0, 1} : Raises(p[1], p[2])}
           borrow == CHOOSE f : f = Body(f)
           e == [i \in 1 .. Limbs |-> Wrap(x[i] + Base - y[i] - borrow[i - 1])]
<1>2. PICK g \in [0 .. Limbs -> {0, 1}] :
        g = [i \in 0 .. Limbs |-> IF i > 0 /\ <<i, g[i - 1]>> \in Raised THEN 1 ELSE 0]
  <2>1. Raised \in SUBSET (Nat \X {0, 1})
    OBVIOUS
  <2> HIDE DEF Raised
  <2>2. QED
    BY <1>1, <2>1, BitsExist
<1>3. g = Body(g)
  <2>1. ASSUME NEW i \in 0 .. Limbs, i > 0
        PROVE  <<i, g[i - 1]>> \in Raised <=> Raises(i, g[i - 1])
    <3>1. i \in Nat /\ i - 1 \in 0 .. Limbs
      BY <1>1, <2>1
    <3>2. <<i, g[i - 1]>> \in Nat \X {0, 1}
      BY <3>1
    <3> HIDE DEF Raises
    <3>3. QED
      BY <3>2
  <2> HIDE DEF Raised, Raises
  <2>2. QED
    BY <1>2, <2>1
<1>4. SubRaw(x, y) = [limbs |-> e, borrow |-> borrow[Limbs]]
  BY DEF SubRaw, Differences
<1>5. borrow = Body(borrow)
  <2> HIDE DEF Body
  <2>1. QED
    BY <1>3
<1> HIDE DEF borrow
<1>6. \A i \in 0 .. Limbs : borrow[i] = IF i > 0 /\ Raises(i, borrow[i - 1]) THEN 1 ELSE 0
  BY <1>5
<1>7. borrow \in [0 .. Limbs -> {0, 1}] /\ borrow[0] = 0
  <2>1. borrow = [i \in 0 .. Limbs |-> borrow[i]]
    BY <1>5
  <2> HIDE DEF Raises
  <2>2. \A i \in 0 .. Limbs : borrow[i] \in {0, 1}
    BY <1>6
  <2>3. 0 \in 0 .. Limbs /\ ~(0 > 0)
    BY <1>1
  <2>4. QED
    BY <1>6, <2>1, <2>2, <2>3
<1>8. \A i \in 1 .. Limbs : borrow[i] = 1 <=> x[i] < y[i] + borrow[i - 1]
  <2> SUFFICES ASSUME NEW i \in 1 .. Limbs
               PROVE  borrow[i] = 1 <=> x[i] < y[i] + borrow[i - 1]
    OBVIOUS
  <2>1. i \in 0 .. Limbs /\ i - 1 \in 0 .. Limbs /\ i > 0
    BY <1>1
  <2>2. x[i] \in Int /\ y[i] \in Int /\ borrow[i - 1] \in {0, 1}
    BY <1>7, <2>1, NumberLimbs
  <2>3. borrow[i] = IF x[i] < y[i] \/ (borrow[i - 1] = 1 /\ x[i] = y[i]) THEN 1 ELSE 0
    BY <1>6, <2>1
  <2>4. QED
    BY <2>2, <2>3
<1>9. e \in Number
  <2>1. \A i \in 1 .. Limbs : Wrap(x[i] + Base - y[i] - borrow[i - 1]) \in 0 .. (Base - 1)
    <3> SUFFICES ASSUME NEW i \in 1 .. Limbs
                 PROVE  Wrap(x[i] + Base - y[i] - borrow[i - 1]) \in 0 .. (Base - 1)
      OBVIOUS
    <3>1. i - 1 \in 0 .. Limbs
      BY <1>1
    <3>2. x[i] \in 0 .. (Base - 1) /\ y[i] \in 0 .. (Base - 1) /\ borrow[i - 1] \in {0, 1}
      BY <1>7, <3>1, NumberLimbs
    <3> DEFINE v == x[i] + Base - y[i] - borrow[i - 1]
    <3>3. v \in Int /\ v = x[i] + Base - y[i] - borrow[i - 1]
      BY <1>1, <3>2
    <3> HIDE DEF v
    <3>4. Wrap(v) \in 0 .. (Base - 1)
      BY <3>3, WrapRange
    <3>5. QED
      BY <3>4 DEF v
  <2>2. QED
    BY <2>1 DEF Number
<1>10. \A i \in 1 .. Limbs : e[i] = Wrap(x[i] + Base - y[i] - borrow[i - 1])
  OBVIOUS
<1> HIDE DEF e
<1>11. Upto(e, Limbs) + Upto(y, Limbs) = Upto(x, Limbs) + Weight[Limbs] * borrow[Limbs]
  <2>1. Limbs \in 0 .. Limbs
    BY <1>1
  <2>2. Borrowed(x, y, borrow, Limbs) /\ LeftBy(x, y, e, borrow)
    BY <1>7, <1>8, <1>10 DEF Borrowed, LeftBy
  <2>3. QED
    BY <2>1, <2>2, DifferenceUpto
<1>12. borrow[Limbs] \in {0, 1}
  BY <1>1, <1>7
<1>13. QED
  BY <1>1, <1>4, <1>9, <1>11, <1>12, ValueIsUpto

-----------------------------------------------------------------------------
(* Residues of sums, differences and products *)

\* A multiple of m makes no difference modulo m.
LEMMA ModShift ==
  ASSUME NEW m \in Nat \ {0}, NEW a \in Int, NEW b \in Int, NEW k \in Int, b = a + k * m
  PROVE  b % m = a % m
<1> DEFINE q == a \div m
           r == a % m
<1>1. a = m * q + r /\ q \in Int /\ r \in 0 .. (m - 1)
  BY DivMod
<1> HIDE DEF q
<1>2. SUFFICES b % m = r
  OBVIOUS
<1> HIDE DEF r
<1> DEFINE s == q + k
<1>3. s \in Int /\ b = m * s + r
  <2>1. m * (q + k) = m * q + k * m
    BY <1>1
  <2> DEFINE u == m * q
             v == k * m
  <2>2. u \in Int /\ v \in Int
    BY <1>1
  <2>3. a = u + r /\ b = a + v /\ m * s = u + v
    BY <1>1, <2>1
  <2> HIDE DEF u, v, s
  <2>4. b = m * s + r
    BY <1>1, <2>2, <2>3
  <2>5. QED
    BY <1>1, <2>4 DEF s
<1> HIDE DEF s
<1>4. (m * s + r) % m = r
  BY <1>1, <1>3, DivModUnique
<1>5. QED
  BY <1>3, <1>4

\* Sums, modulo m.
LEMMA ModSum ==
  ASSUME NEW m \in Nat \ {0}, NEW a \in Int, NEW b \in Int
  PROVE  ((a % m) + (b % m)) % m = (a + b) % m
<1> DEFINE p == a \div m
           q == b \div m
           r == a % m
           s == b % m
<1>1. a = m * p + r /\ b = m * q + s /\ p \in Int /\ q \in Int /\ r \in Int /\ s \in Int
  BY DivMod
<1> HIDE DEF p, q
<1>2. SUFFICES (r + s) % m = (a + b) % m
  OBVIOUS
<1> HIDE DEF r, s
<1> DEFINE k == p + q
           t == r + s
           u == a + b
<1>3. m * p + m * q = (p + q) * m /\ m * p \in Int /\ m * q \in Int
  BY <1>1
<1>4. u = t + k * m /\ u \in Int /\ t \in Int /\ k \in Int
  BY <1>1, <1>3
<1> HIDE DEF k, t, u
<1>5. u % m = t % m
  BY <1>4, ModShift
<1>6. QED
  BY <1>5 DEF t, u

\* Differences, modulo m, with m added to stay above zero.
LEMMA ModDifference ==
  ASSUME NEW m \in Nat \ {0}, NEW a \in Int, NEW b \in Int
  PROVE  ((a % m) + m - (b % m)) % m = (a - b) % m
<1> DEFINE p == a \div m
           q == b \div m
           r == a % m
           s == b % m
<1>1. a = m * p + r /\ b = m * q + s /\ p \in Int /\ q \in Int /\ r \in Int /\ s \in Int
  BY DivMod
<1> HIDE DEF p, q
<1>2. SUFFICES (r + m - s) % m = (a - b) % m
  OBVIOUS
<1> HIDE DEF r, s
<1> DEFINE k == p - q - 1
           t == r + m - s
           u == a - b
<1>3. m * p - m * q - m = (p - q - 1) * m /\ m * p \in Int /\ m * q \in Int
  BY <1>1
<1>4. u = t + k * m /\ u \in Int /\ t \in Int /\ k \in Int
  BY <1>1, <1>3
<1> HIDE DEF k, t, u
<1>5. u % m = t % m
  BY <1>4, ModShift
<1>6. QED
  BY <1>5 DEF t, u

\* Products, modulo m.
LEMMA ModProduct ==
  ASSUME NEW m \in Nat \ {0}, NEW a \in Int, NEW b \in Int
  PROVE  ((a % m) * (b % m)) % m = (a * b) % m
<1> DEFINE p == a \div m
           q == b \div m
           r == a % m
           s == b % m
<1>1. a = m * p + r /\ b = m * q + s /\ p \in Int /\ q \in Int /\ r \in Int /\ s \in Int
  BY DivMod
<1> HIDE DEF p, q
<1>2. SUFFICES (r * s) % m = (a * b) % m
  OBVIOUS
<1> HIDE DEF r, s
<1> DEFINE k == m * p * q + p * s + r * q
           t == r * s
           u == a * b
<1>3. (m * p + r) * (m * q + s) = r * s + (m * p * q + p * s + r * q) * m
  BY <1>1
<1>4. k \in Int /\ t \in Int /\ u \in Int
  <2>1. p * q \in Int /\ m * p \in Int
    BY <1>1
  <2>2. m * p * q \in Int /\ p * s \in Int /\ r * q \in Int
    BY <1>1, <2>1
  <2>3. QED
    BY <1>1, <2>2
<1>5. u = t + k * m
  BY <1>1, <1>3
<1> HIDE DEF k, t, u
<1>6. u % m = t % m
  BY <1>4, <1>5, ModShift
<1>7. QED
  BY <1>6 DEF t, u

-----------------------------------------------------------------------------
(* The operators of the field *)

\* One subtraction of P is enough below Size, as Fold is below P.
LEMMA ReducedValue ==
  ASSUME NEW v \in 0 .. (Size - 1)
  PROVE  Reduced(v) \in 0 .. (P - 1) /\ Reduced(v) = v % P
<1>1. Size = P + Fold /\ Fold < P /\ P \in Nat \ {0} /\ Size \in Nat /\ Fold \in Nat
  BY FieldSizes
<1>2. CASE v < P
  <2>1. v % P = v
    BY <1>1, <1>2, ModOfSmall
  <2>2. QED
    BY <1>1, <1>2, <2>1 DEF Reduced
<1>3. CASE v >= P
  <2> DEFINE r == v - P
             k == 1
  <2>1. r \in 0 .. (P - 1) /\ r \in Int /\ v \in Int /\ v = r + k * P /\ k \in Int
    BY <1>1, <1>3
  <2> HIDE DEF r, k
  <2>2. v % P = r % P
    BY <1>1, <2>1, ModShift
  <2>3. r % P = r
    BY <1>1, <2>1, ModOfSmall
  <2>4. Reduced(v) = r
    BY <1>1, <1>3 DEF Reduced, r
  <2>5. QED
    BY <2>1, <2>2, <2>3, <2>4
<1>4. QED
  BY <1>1, <1>2, <1>3

\* operator+ is right modulo P if its second operand is below P.
LEMMA PlusIsExact ==
  ASSUME NEW x \in Number, NEW y \in Number, Value(y) < P
  PROVE  Plus(x, y) \in Number /\ Value(Plus(x, y)) % P = (Value(x) + Value(y)) % P
<1>1. Size = P + Fold /\ P \in Nat \ {0} /\ Size \in Nat /\ Fold \in Nat /\ P \in 0 .. (Size - 1)
  BY FieldSizes
<1> DEFINE p == LimbsOf(P)
           s == AddRaw(x, y)
           t == SubRaw(s.limbs, p)
           xv == Value(x)
           yv == Value(y)
           sv == Value(s.limbs)
           tv == Value(t.limbs)
           c == s.carry
           b == t.borrow
<1>2. p \in Number /\ Value(p) = P
  BY <1>1, LimbsOfSmall
<1>3. s.limbs \in Number /\ c \in {0, 1} /\ sv + Size * c = xv + yv
  BY AddRawIsExact
<1>4. t.limbs \in Number /\ b \in {0, 1} /\ tv + P = sv + Size * b
  <2> HIDE DEF p, s
  <2>1. SubRaw(s.limbs, p).limbs \in Number /\ SubRaw(s.limbs, p).borrow \in {0, 1}
    BY <1>2, <1>3, SubRawIsExact
  <2>2. Value(SubRaw(s.limbs, p).limbs) + Value(p) = Value(s.limbs) + Size * SubRaw(s.limbs, p).borrow
    BY <1>2, <1>3, SubRawIsExact
  <2>3. QED
    BY <1>2, <2>1, <2>2
<1>5. Plus(x, y) = IF c # 0 \/ sv >= P THEN t.limbs ELSE s.limbs
  BY DEF Plus
<1>6. xv \in 0 .. (Size - 1) /\ yv \in Nat /\ yv < P /\ sv \in 0 .. (Size - 1) /\ tv \in 0 .. (Size - 1)
  BY <1>3, <1>4, ValueRange
<1> HIDE DEF p, s, t, xv, yv, sv, tv, c, b
<1>7. CASE c # 0 \/ sv >= P
  <2>1. tv + P = xv + yv
    <3>1. CASE c = 0
      <4>1. sv = xv + yv
        BY <1>1, <1>3, <1>6, <3>1
      <4>2. b = 0
        BY <1>1, <1>4, <1>6, <1>7, <3>1
      <4>3. QED
        BY <1>1, <1>4, <1>6, <4>1, <4>2
    <3>2. CASE c = 1
      <4>1. sv + Size = xv + yv
        BY <1>1, <1>3, <1>6, <3>2
      <4>2. sv < P
        BY <1>1, <1>6, <4>1
      <4>3. b = 1
        BY <1>1, <1>4, <1>6, <4>2
      <4>4. QED
        BY <1>1, <1>4, <1>6, <4>1, <4>3
    <3>3. QED
      BY <1>3, <3>1, <3>2
  <2> DEFINE u == xv + yv
             k == 1
  <2>2. u \in Int /\ tv \in Int /\ u = tv + k * P /\ k \in Int
    BY <1>1, <1>6, <2>1
  <2> HIDE DEF u, k
  <2>3. u % P = tv % P
    BY <1>1, <2>2, ModShift
  <2>4. Plus(x, y) = t.limbs
    BY <1>5, <1>7
  <2>5. QED
    BY <1>4, <2>3, <2>4 DEF u, tv, xv, yv
<1>8. CASE ~(c # 0 \/ sv >= P)
  <2>1. sv = xv + yv
    BY <1>1, <1>3, <1>6, <1>8
  <2>2. Plus(x, y) = s.limbs
    BY <1>5, <1>8
  <2>3. QED
    BY <1>3, <2>1, <2>2 DEF sv, xv, yv
<1>9. QED
  BY <1>7, <1>8

\* The rule of operator- borrows rightly where it loses no borrow.
LEMMA MinusBorrows ==
  ASSUME NEW x \in Number, NEW y \in Number, ~LosesBorrow(x, y), NEW b, NEW e,
         b \in [0 .. Limbs -> {0, 1}], b[0] = 0,
         \A i \in 1 .. Limbs : b[i] = 1 <=> x[i] < Wrap(y[i] + b[i - 1]),
         LeftBy(x, y, e, b), e \in Number
  PROVE  Borrowed(x, y, b, Limbs)
<1>1. Limbs \in Nat /\ Base \in Nat /\ Base > 2
  BY FieldSizes
<1> DEFINE Good == {n \in Nat : n <= Limbs => Borrowed(x, y, b, n)}
<1>2. 0 \in Good
  BY DEF Borrowed
<1>3. ASSUME NEW n \in Nat, n \in Good PROVE n + 1 \in Good
  <2> SUFFICES ASSUME n + 1 <= Limbs PROVE Borrowed(x, y, b, n + 1)
    OBVIOUS
  <2>1. n \in 0 .. Limbs /\ n + 1 \in 1 .. Limbs /\ (n + 1) - 1 = n
    BY <1>1
  <2>2. Borrowed(x, y, b, n)
    BY <1>1, <1>3
  <2> DEFINE xi == x[n + 1]
             yi == y[n + 1]
             c == b[n]
             v == yi + c
  <2>3. xi \in 0 .. (Base - 1) /\ yi \in 0 .. (Base - 1) /\ c \in {0, 1}
    BY <2>1, NumberLimbs
  <2>4. b[n + 1] = 1 <=> xi < Wrap(v)
    BY <2>1
  <2>5. v \in 0 .. (2 * Base - 1) /\ v = yi + c
    BY <1>1, <2>3
  <2> HIDE DEF v
  <2>6. Wrap(v) = IF v < Base THEN v ELSE v - Base
    BY <2>5, WrapOnce
  <2>7. v < Base
    <3> SUFFICES ASSUME v >= Base PROVE FALSE
      BY <1>1, <2>5
    <3>1. yi = Base - 1 /\ c = 1
      BY <1>1, <2>3, <2>5
    <3>2. n # 0
      BY <3>1
    <3>3. n + 1 \in 2 .. Limbs
      BY <1>1, <2>1, <3>2
    <3>4. ~(Value(x) % Weight[(n + 1) - 1] < Value(y) % Weight[(n + 1) - 1])
      BY <3>1, <3>3 DEF LosesBorrow
    <3>5. ~(Upto(x, n) < Upto(y, n))
      BY <2>1, <3>4, UptoIsMod
    <3>6. Upto(e, n) + Upto(y, n) = Upto(x, n) + Weight[n] * b[n]
      <4> HIDE DEF xi, yi, c, v
      <4>1. n \in 0 .. Limbs /\ Borrowed(x, y, b, n)
        BY <2>1, <2>2
      <4>2. QED
        BY ONLY <4>1, x \in Number, y \in Number, LeftBy(x, y, e, b), DifferenceUpto
    <3> DEFINE en == Upto(e, n)
               xn == Upto(x, n)
               yn == Upto(y, n)
               w == Weight[n]
    <3>7. en \in 0 .. (w - 1) /\ xn \in 0 .. (w - 1) /\ yn \in 0 .. (w - 1) /\ w \in Nat
      <4>1. n \in Nat /\ \A i \in 1 .. n : i \in 1 .. Limbs
        BY <1>1, <2>1
      <4>2. /\ \A i \in 1 .. n : e[i] \in 0 .. (Base - 1)
            /\ \A i \in 1 .. n : x[i] \in 0 .. (Base - 1)
            /\ \A i \in 1 .. n : y[i] \in 0 .. (Base - 1)
        BY <4>1, NumberLimbs
      <4>3. w \in Nat
        BY <4>1, WeightDefined
      <4>4. en \in 0 .. (w - 1)
        BY ONLY <4>1, <4>2, UptoBound
      <4>5. xn \in 0 .. (w - 1)
        BY ONLY <4>1, <4>2, UptoBound
      <4>6. yn \in 0 .. (w - 1)
        BY ONLY <4>1, <4>2, UptoBound
      <4>7. QED
        BY <4>3, <4>4, <4>5, <4>6
    <3>8. en + yn = xn + w * c /\ ~(xn < yn)
      BY <3>5, <3>6
    <3> HIDE DEF en, xn, yn, w
    <3>9. en + yn = xn + w
      BY <3>1, <3>7, <3>8
    <3>10. QED
      BY <3>7, <3>8, <3>9
  <2>8. b[n + 1] = 1 <=> xi < yi + c
    BY <2>4, <2>5, <2>6, <2>7
  <2>9. ASSUME NEW i \in 1 .. (n + 1)
        PROVE  b[i] = 1 <=> x[i] < y[i] + b[i - 1]
    <3>1. CASE i = n + 1
      BY <2>1, <2>8, <3>1
    <3>2. CASE i # n + 1
      <4>1. i \in 1 .. n
        BY <3>2
      <4>2. QED
        BY <2>2, <4>1 DEF Borrowed
    <3>3. QED
      BY <3>1, <3>2
  <2>10. QED
    BY <2>2, <2>9 DEF Borrowed
<1>4. Nat \subseteq Good
  <2> HIDE DEF Good
  <2>1. QED
    BY <1>2, <1>3, NatSetInduction
<1>5. QED
  BY <1>1, <1>4

\* operator- is right modulo P where it loses no borrow.
LEMMA MinusIsExact ==
  ASSUME NEW x \in Number, NEW y \in Number, Value(y) < P
  PROVE  /\ Minus(x, y) \in Number
         /\ ~LosesBorrow(x, y) => Value(Minus(x, y)) % P = (Value(x) - Value(y)) % P
<1>1. /\ Limbs \in Nat /\ Base \in Nat /\ Base > 2 /\ Size = Weight[Limbs]
      /\ Size = P + Fold /\ P \in Nat \ {0} /\ Size \in Nat /\ Fold \in Nat /\ P \in 0 .. (Size - 1)
  BY FieldSizes
<1> DEFINE Raises(i, c) == x[i] < Wrap(y[i] + c)
           Body(f) == [i \in 0 .. Limbs |-> IF i > 0 /\ Raises(i, f[i - 1]) THEN 1 ELSE 0]
           Raised == {p \in Nat \X {0, 1} : Raises(p[1], p[2])}
           borrow == CHOOSE f : f = Body(f)
           e == [i \in 1 .. Limbs |-> Wrap(x[i] + Base - y[i] - borrow[i - 1])]
           p == LimbsOf(P)
           t == AddRaw(e, p)
<1>2. PICK g \in [0 .. Limbs -> {0, 1}] :
        g = [i \in 0 .. Limbs |-> IF i > 0 /\ <<i, g[i - 1]>> \in Raised THEN 1 ELSE 0]
  <2>1. Raised \in SUBSET (Nat \X {0, 1})
    OBVIOUS
  <2> HIDE DEF Raised
  <2>2. QED
    BY <1>1, <2>1, BitsExist
<1>3. g = Body(g)
  <2>1. ASSUME NEW i \in 0 .. Limbs, i > 0
        PROVE  <<i, g[i - 1]>> \in Raised <=> Raises(i, g[i - 1])
    <3>1. i \in Nat /\ i - 1 \in 0 .. Limbs
      BY <1>1, <2>1
    <3>2. <<i, g[i - 1]>> \in Nat \X {0, 1}
      BY <3>1
    <3> HIDE DEF Raises
    <3>3. QED
      BY <3>2
  <2> HIDE DEF Raised, Raises
  <2>2. QED
    BY <1>2, <2>1
<1>4. Minus(x, y) = IF borrow[Limbs] # 0 THEN t.limbs ELSE e
  BY DEF Minus, Differences
<1>5. borrow = Body(borrow)
  <2> HIDE DEF Body
  <2>1. QED
    BY <1>3
<1> HIDE DEF borrow
<1>6. \A i \in 0 .. Limbs : borrow[i] = IF i > 0 /\ Raises(i, borrow[i - 1]) THEN 1 ELSE 0
  BY <1>5
<1>7. borrow \in [0 .. Limbs -> {0, 1}] /\ borrow[0] = 0
  <2>1. borrow = [i \in 0 .. Limbs |-> borrow[i]]
    BY <1>5
  <2> HIDE DEF Raises
  <2>2. \A i \in 0 .. Limbs : borrow[i] \in {0, 1}
    BY <1>6
  <2>3. 0 \in 0 .. Limbs /\ ~(0 > 0)
    BY <1>1
  <2>4. QED
    BY <1>6, <2>1, <2>2, <2>3
<1>8. \A i \in 1 .. Limbs : borrow[i] = 1 <=> x[i] < Wrap(y[i] + borrow[i - 1])
  <2>1. \A i \in 1 .. Limbs : i \in 0 .. Limbs /\ i > 0
    BY <1>1
  <2>2. \A i \in 1 .. Limbs : borrow[i] = IF x[i] < Wrap(y[i] + borrow[i - 1]) THEN 1 ELSE 0
    BY <1>6, <2>1
  <2>3. QED
    BY <2>2
<1>9. e \in Number
  <2>1. \A i \in 1 .. Limbs : Wrap(x[i] + Base - y[i] - borrow[i - 1]) \in 0 .. (Base - 1)
    <3> SUFFICES ASSUME NEW i \in 1 .. Limbs
                 PROVE  Wrap(x[i] + Base - y[i] - borrow[i - 1]) \in 0 .. (Base - 1)
      OBVIOUS
    <3>1. i - 1 \in 0 .. Limbs
      BY <1>1
    <3>2. x[i] \in 0 .. (Base - 1) /\ y[i] \in 0 .. (Base - 1) /\ borrow[i - 1] \in {0, 1}
      BY <1>7, <3>1, NumberLimbs
    <3> DEFINE v == x[i] + Base - y[i] - borrow[i - 1]
    <3>3. v \in Int
      BY SMTT(30), <1>1, <3>2
    <3> HIDE DEF v
    <3>4. Wrap(v) \in 0 .. (Base - 1)
      BY <3>3, WrapRange
    <3>5. QED
      BY <3>4 DEF v
  <2>2. QED
    BY <2>1 DEF Number
<1>10. LeftBy(x, y, e, borrow)
  BY DEF LeftBy
<1>11. p \in Number /\ Value(p) = P
  BY <1>1, LimbsOfSmall
<1> HIDE DEF e, p
<1> DEFINE xv == Value(x)
           yv == Value(y)
           ev == Value(e)
           tv == Value(t.limbs)
           b == borrow[Limbs]
           c == t.carry
<1>12. t.limbs \in Number /\ c \in {0, 1} /\ tv + Size * c = ev + P
  <2>1. /\ AddRaw(e, p).limbs \in Number /\ AddRaw(e, p).carry \in {0, 1}
        /\ Value(AddRaw(e, p).limbs) + Size * AddRaw(e, p).carry = Value(e) + Value(p)
    BY <1>9, <1>11, AddRawIsExact
  <2>2. QED
    BY <1>11, <2>1
<1>13. Minus(x, y) \in Number
  BY <1>4, <1>9, <1>12
<1>14. b \in {0, 1}
  BY <1>1, <1>7
<1>15. xv \in 0 .. (Size - 1) /\ yv \in Nat /\ yv < P /\ ev \in 0 .. (Size - 1) /\ tv \in 0 .. (Size - 1)
  BY <1>9, <1>12, ValueRange
<1>16. ASSUME ~LosesBorrow(x, y)
       PROVE  Value(Minus(x, y)) % P = (xv - yv) % P
  <2>1. Borrowed(x, y, borrow, Limbs)
    BY <1>7, <1>8, <1>9, <1>10, <1>16, MinusBorrows
  <2>2. Upto(e, Limbs) + Upto(y, Limbs) = Upto(x, Limbs) + Weight[Limbs] * borrow[Limbs]
    <3>1. Limbs \in 0 .. Limbs
      BY <1>1
    <3>2. QED
      BY <1>10, <2>1, <3>1, DifferenceUpto
  <2>3. ev + yv = xv + Size * b
    BY <1>1, <1>9, <2>2, ValueIsUpto
  <2>4. Minus(x, y) = IF b # 0 THEN t.limbs ELSE e
    BY <1>4
  <2> HIDE DEF t, xv, yv, ev, tv, b, c
  <2>5. CASE b = 0
    <3>1. ev = xv - yv
      BY <1>1, <1>15, <2>3, <2>5
    <3>2. QED
      BY <2>4, <2>5, <3>1 DEF ev
  <2>6. CASE b = 1
    <3>1. ev + yv = xv + Size
      BY <1>1, <1>15, <2>3, <2>6
    <3>2. ev + P >= Size
      BY <1>1, <1>15, <3>1
    <3>3. c = 1
      BY <1>1, <1>12, <1>15, <3>2
    <3>4. tv = xv - yv + P
      BY <1>1, <1>12, <1>15, <3>1, <3>3
    <3> DEFINE u == xv - yv
               k == 1
    <3>5. u \in Int /\ tv \in Int /\ tv = u + k * P /\ k \in Int
      BY <1>1, <1>15, <3>4
    <3> HIDE DEF u, k
    <3>6. tv % P = u % P
      BY <1>1, <3>5, ModShift
    <3>7. Minus(x, y) = t.limbs
      BY <2>4, <2>6
    <3>8. QED
      BY <3>6, <3>7 DEF tv, u
  <2>7. QED
    BY <1>14, <2>5, <2>6
<1>17. QED
  BY <1>13, <1>16

\* The negation of Secp256k1Group's operator- is right up to P.
LEMMA NegatedIsExact ==
  ASSUME NEW x \in Number
  PROVE  /\ Negated(x) \in Number
         /\ ~(Value(x) > P) => ((Value(x) % P) + (Value(Negated(x)) % P)) % P = 0
<1>1. /\ P \in Nat \ {0} /\ Size \in Nat \ {0} /\ Size = P + Fold /\ Fold \in Nat /\ Fold < P /\ Fold > 0
  BY FieldSizes
<1> DEFINE xv == Value(x)
           s == P + Size - xv
           v == s % Size
           r == Reduced(v)
<1>2. xv \in 0 .. (Size - 1)
  BY ValueRange
<1>3. s \in Int /\ s = P + Size - xv
  BY <1>1, <1>2
<1>4. v \in 0 .. (Size - 1)
  <2> HIDE DEF s
  <2>1. QED
    BY <1>1, <1>3, DivMod
<1>5. r \in 0 .. (P - 1) /\ r = v % P
  <2> HIDE DEF v
  <2>1. QED
    BY <1>4, ReducedValue
<1>6. Negated(x) = LimbsOf(r)
  BY DEF Negated
<1>7. r \in 0 .. (Size - 1)
  <2> HIDE DEF r
  <2>1. QED
    BY <1>1, <1>5
<1>8. Negated(x) \in Number /\ Value(Negated(x)) = r
  <2> HIDE DEF r
  <2>1. QED
    BY <1>6, <1>7, LimbsOfSmall
<1>9. ASSUME ~(xv > P)
      PROVE  ((xv % P) + (r % P)) % P = 0
  <2> DEFINE d == P - xv
  <2>1. d \in 0 .. (Size - 1) /\ d \in 0 .. P /\ s = Size * 1 + d /\ d \in Int
    BY <1>1, <1>2, <1>3, <1>9
  <2>2. v = d
    <3> HIDE DEF d, s
    <3>1. (Size * 1 + d) % Size = d
      BY <1>1, <2>1, DivModUnique, 1 \in Int
    <3>2. QED
      BY <2>1, <3>1
  <2>3. r % P = d % P
    <3>1. r % P = r
      <4> HIDE DEF r
      <4>1. QED
        BY <1>1, <1>5, ModOfSmall
    <3> HIDE DEF r, v, d
    <3>2. QED
      BY <1>5, <2>2, <3>1
  <2>4. ((xv % P) + (d % P)) % P = (xv + d) % P
    <3>1. xv \in Int
      BY <1>1, <1>2
    <3> HIDE DEF xv, d
    <3>2. QED
      BY <1>1, <2>1, <3>1, ModSum
  <2>5. xv + d = P
    BY <1>1, <1>2
  <2>6. P % P = 0
    <3> DEFINE z == 0
               k == 1
    <3>1. z \in Int /\ k \in Int /\ P \in Int /\ P = z + k * P /\ z \in 0 .. (P - 1)
      BY <1>1
    <3> HIDE DEF z, k
    <3>2. P % P = z % P /\ z % P = z
      BY <1>1, <3>1, ModShift, ModOfSmall
    <3>3. QED
      BY <3>2 DEF z
  <2> HIDE DEF r, d, xv
  <2>7. QED
    BY <2>3, <2>4, <2>5, <2>6
<1>10. QED
  <2> HIDE DEF r
  <2>1. QED
    BY <1>8, <1>9

-----------------------------------------------------------------------------
(* Folding *)

\* The carries c by which Ripple adds k at the second limb of x.
Ripples(x, k, c) ==
  /\ c \in [1 .. Limbs -> Nat] /\ c[1] = k
  /\ Ripple(x, k).limbs \in Number /\ Ripple(x, k).limbs[1] = x[1]
  /\ Ripple(x, k).carry = c[Limbs]
  /\ k < Base => \A i \in 2 .. Limbs :
                   c[i] < Base /\ x[i] + c[i - 1] = Ripple(x, k).limbs[i] + Base * c[i]

\* The carries of Ripple exist, and end the way the code tests them.
LEMMA RippleCarries ==
  ASSUME NEW x \in Number, NEW k \in Nat
  PROVE  \E c : Ripples(x, k, c)
<1>1. Limbs \in Nat /\ Limbs > 1 /\ Base \in Nat /\ Base > 2
  BY FieldSizes
<1> DEFINE Bit(i, b) == IF Wrap(x[i] + b) <= x[i] /\ b # 0 THEN 1 ELSE 0
           G == [p \in (1 .. Limbs) \X Nat |-> Bit(p[1], p[2])]
           Body(f) == [i \in 1 .. Limbs |-> IF i = 1 THEN k ELSE Bit(i, f[i - 1])]
           c == CHOOSE f : f = Body(f)
           e == [i \in 1 .. Limbs |-> IF i = 1 THEN x[1] ELSE Wrap(x[i] + c[i - 1])]
<1>2. G \in [(1 .. Limbs) \X Nat -> Nat]
  OBVIOUS
<1>3. PICK g \in [1 .. Limbs -> Nat] : IteratesOn(g, 1, Limbs, k, G)
  <2> DEFINE a == 1
  <2>1. a \in Nat /\ G \in [(a .. Limbs) \X Nat -> Nat]
    BY <1>2
  <2> HIDE DEF G, a
  <2>2. \E g \in [a .. Limbs -> Nat] : IteratesOn(g, a, Limbs, k, G)
    BY <1>1, <2>1, RangeIterationExists
  <2>3. QED
    BY <2>2 DEF a
<1>4. g = Body(g)
  <2>1. g = [i \in 1 .. Limbs |-> IF i = 1 THEN k ELSE G[<<i, g[i - 1]>>]]
    BY <1>3 DEF IteratesOn
  <2>2. ASSUME NEW i \in 1 .. Limbs, i # 1
        PROVE  G[<<i, g[i - 1]>>] = Bit(i, g[i - 1])
    <3>1. i - 1 \in 1 .. Limbs
      BY <1>1, <2>2
    <3>2. g[i - 1] \in Nat
      BY <3>1
    <3> HIDE DEF Bit
    <3>3. QED
      BY <3>2
  <2> HIDE DEF G, Bit
  <2>3. QED
    BY <2>1, <2>2
<1>5. Ripple(x, k) = [limbs |-> e, carry |-> c[Limbs]]
  BY DEF Ripple
<1>6. c = Body(c)
  <2> HIDE DEF Body
  <2>1. QED
    BY <1>4
<1> HIDE DEF c
<1>7. c[1] = k /\ \A i \in 2 .. Limbs : c[i] = Bit(i, c[i - 1])
  <2> HIDE DEF Bit
  <2>1. 1 \in 1 .. Limbs /\ \A i \in 2 .. Limbs : i \in 1 .. Limbs /\ i # 1
    BY <1>1
  <2>2. \A i \in 1 .. Limbs : c[i] = IF i = 1 THEN k ELSE Bit(i, c[i - 1])
    BY <1>6
  <2>3. QED
    BY <2>1, <2>2
<1>8. \A i \in 2 .. Limbs : c[i] \in {0, 1}
  BY <1>7
<1>9. c \in [1 .. Limbs -> Nat]
  <2>1. c = [i \in 1 .. Limbs |-> c[i]]
    BY <1>6
  <2>2. \A i \in 1 .. Limbs : i = 1 \/ i \in 2 .. Limbs
    BY <1>1
  <2>3. \A i \in 1 .. Limbs : c[i] \in Nat
    BY <1>7, <1>8, <2>2
  <2>4. QED
    BY <2>1, <2>3
<1>10. e \in Number
  <2>1. ASSUME NEW i \in 1 .. Limbs, i # 1 PROVE Wrap(x[i] + c[i - 1]) \in 0 .. (Base - 1)
    <3>1. i - 1 \in 1 .. Limbs
      BY <1>1, <2>1
    <3>2. x[i] \in Int /\ c[i - 1] \in Nat
      BY <1>9, <3>1, NumberLimbs
    <3> DEFINE v == x[i] + c[i - 1]
    <3>3. v \in Int
      BY <3>2
    <3> HIDE DEF v
    <3>4. Wrap(v) \in 0 .. (Base - 1)
      BY <3>3, WrapRange
    <3>5. QED
      BY <3>4 DEF v
  <2>2. x[1] \in 0 .. (Base - 1)
    BY <1>1, NumberLimbs
  <2>3. QED
    BY <2>1, <2>2 DEF Number
<1>11. e[1] = x[1] /\ \A i \in 2 .. Limbs : e[i] = Wrap(x[i] + c[i - 1])
  <2>1. 1 \in 1 .. Limbs /\ \A i \in 2 .. Limbs : i \in 1 .. Limbs /\ i # 1
    BY <1>1
  <2>2. QED
    BY <2>1
<1> HIDE DEF e
<1>12. ASSUME k < Base, NEW i \in 2 .. Limbs
       PROVE  c[i] < Base /\ x[i] + c[i - 1] = e[i] + Base * c[i]
  <2> DEFINE a == x[i]
             b == c[i - 1]
             v == a + b
  <2>1. i \in 1 .. Limbs /\ i - 1 \in 1 .. Limbs /\ (i - 1 = 1 \/ i - 1 \in 2 .. Limbs)
    BY <1>1
  <2>2. a \in 0 .. (Base - 1) /\ b \in Nat /\ b < Base
    <3>1. a \in 0 .. (Base - 1) /\ b \in Nat
      BY <1>9, <2>1, NumberLimbs
    <3>2. CASE i - 1 = 1
      BY <1>7, <1>12, <3>1, <3>2
    <3>3. CASE i - 1 \in 2 .. Limbs
      <4>1. b \in {0, 1}
        BY <1>8, <3>3
      <4>2. QED
        BY <1>1, <3>1, <4>1
    <3>4. QED
      BY <2>1, <3>2, <3>3
  <2>3. v \in 0 .. (2 * Base - 1) /\ v = a + b
    <3>1. Base \in Nat /\ Base > 2
      BY <1>1
    <3> HIDE DEF a, b
    <3>2. QED
      BY ONLY <2>2, <3>1
  <2>4. c[i] = (IF Wrap(v) <= a /\ b # 0 THEN 1 ELSE 0) /\ e[i] = Wrap(v)
    BY <1>7, <1>11
  <2> HIDE DEF v
  <2>5. Wrap(v) = IF v < Base THEN v ELSE v - Base
    BY <2>3, WrapOnce
  <2> HIDE DEF a, b
  <2>6. CASE v < Base
    <3>1. c[i] = 0 /\ e[i] = v /\ Base * 0 = 0
      BY <1>1, <2>2, <2>3, <2>4, <2>5, <2>6
    <3>2. v = v + Base * 0
      BY <2>3, <3>1
    <3>3. QED
      BY <1>1, <2>3, <3>1, <3>2 DEF a, b
  <2>7. CASE v >= Base
    <3>1. c[i] = 1 /\ e[i] = v - Base
      BY <1>1, <2>2, <2>3, <2>4, <2>5, <2>7
    <3>2. v = (v - Base) + Base * 1
      BY <1>1, <2>3
    <3>3. QED
      BY <1>1, <2>3, <3>1, <3>2 DEF a, b
  <2>8. QED
    BY <1>1, <2>3, <2>6, <2>7
<1>13. Ripples(x, k, c)
  <2>1. Ripple(x, k).limbs = e /\ Ripple(x, k).carry = c[Limbs]
    BY <1>5
  <2>2. QED
    BY <1>7, <1>9, <1>10, <1>11, <1>12, <2>1 DEF Ripples
<1>14. QED
  BY <1>13

\* The state of FoldLimb that the next call of it gets.
Folded(s) ==
  LET low     == s[1]
      sum     == s[2] * Fold + low[1]
      rippled == Ripple([low EXCEPT ![1] = sum % Base], sum \div Base)
  IN  <<rippled.limbs, rippled.carry>>

\* A call of FoldLimb keeps the number modulo P and leaves less above the limbs.
LEMMA FoldedIsExact ==
  ASSUME NEW low \in Number, NEW high \in Nat
  PROVE  /\ Folded(<<low, high>>) \in Number \X Nat
         /\ high < Base =>
              /\ Folded(<<low, high>>)[2] < Base
              /\ Value(Folded(<<low, high>>)[1]) + Size * Folded(<<low, high>>)[2]
                   = Value(low) + high * Fold
<1>1. Limbs \in Nat /\ Limbs > 1 /\ Base \in Nat \ {0} /\ Base > 2 /\ Size = Weight[Limbs]
      /\ Fold \in Nat /\ Fold < Base /\ 1 \in 1 .. Limbs
  BY FieldSizes
<1> DEFINE sum == high * Fold + low[1]
           x == [low EXCEPT ![1] = sum % Base]
           k == sum \div Base
           r == Ripple(x, k)
<1>2. low[1] \in 0 .. (Base - 1)
  BY <1>1, NumberLimbs
<1>3. sum \in Nat /\ sum = high * Fold + low[1]
  <2>1. high * Fold \in Nat
    BY <1>1
  <2>2. QED
    BY <1>1, <1>2, <2>1
<1>4. sum = Base * k + (sum % Base) /\ sum % Base \in 0 .. (Base - 1) /\ k \in Nat
  <2> HIDE DEF sum
  <2>1. sum \in Int
    BY <1>3
  <2>2. sum = Base * k + (sum % Base) /\ sum % Base \in 0 .. (Base - 1)
    BY <1>1, <2>1, DivMod
  <2>3. k \in 0 .. sum
    BY <1>1, <1>3, DivSmall
  <2>4. QED
    BY <1>3, <2>2, <2>3
<1>5. Folded(<<low, high>>) = <<r.limbs, r.carry>>
  BY DEF Folded
<1> DEFINE rem == sum % Base
<1> HIDE DEF sum, k
<1>6. x \in Number /\ x[1] = rem /\ \A i \in 2 .. Limbs : x[i] = low[i]
  <2>1. \A i \in 1 .. Limbs : low[i] \in 0 .. (Base - 1)
    BY NumberLimbs
  <2>2. low \in [1 .. Limbs -> 0 .. (Base - 1)]
    BY DEF Number
  <2>3. x \in [1 .. Limbs -> 0 .. (Base - 1)] /\ x[1] = rem
    BY <1>1, <1>4, <2>2
  <2>4. \A i \in 2 .. Limbs : i \in 1 .. Limbs /\ i # 1
    BY <1>1
  <2>5. \A i \in 2 .. Limbs : x[i] = low[i]
    BY <2>2, <2>4
  <2>6. QED
    BY <2>3, <2>5 DEF Number
<1> HIDE DEF x
<1>7. PICK c : Ripples(x, k, c)
  BY <1>4, <1>6, RippleCarries
<1>8. /\ c \in [1 .. Limbs -> Nat] /\ c[1] = k /\ r.limbs \in Number /\ r.limbs[1] = x[1]
      /\ r.carry = c[Limbs]
      /\ k < Base => \A i \in 2 .. Limbs :
                       c[i] < Base /\ x[i] + c[i - 1] = r.limbs[i] + Base * c[i]
  BY <1>7 DEF Ripples
<1>9. Limbs \in 1 .. Limbs /\ Limbs \in 2 .. Limbs
  BY <1>1
<1>10. Folded(<<low, high>>) \in Number \X Nat
  BY <1>5, <1>8, <1>9
<1> HIDE DEF r
<1>11. ASSUME high < Base
       PROVE  r.carry < Base /\ Value(r.limbs) + Size * r.carry = Value(low) + high * Fold
  <2>1. k < Base
    <3>1. high * Fold <= (Base - 1) * (Base - 1)
      <4>1. high \in 0 .. (Base - 1) /\ Fold \in 0 .. (Base - 1) /\ Base - 1 \in Nat
        BY <1>1, <1>11
      <4> DEFINE q == Base - 1
      <4> HIDE DEF q
      <4>2. \A a, b \in 0 .. q : a * b <= q * q
        <5>1. q \in Nat
          BY <4>1 DEF q
        <5> SUFFICES ASSUME NEW a \in 0 .. q, NEW b \in 0 .. q PROVE a * b <= q * q
          OBVIOUS
        <5>2. a * b <= a * q
          BY <5>1
        <5>3. a * q <= q * q
          BY <5>1
        <5>4. a * b \in Int /\ a * q \in Int /\ q * q \in Int
          BY <5>1
        <5>5. QED
          BY <5>2, <5>3, <5>4
      <4>3. QED
        BY <4>1, <4>2 DEF q
    <3>2. (Base - 1) * (Base - 1) + (Base - 1) = Base * (Base - 1)
      BY <1>1
    <3> DEFINE h == high * Fold
               w == (Base - 1) * (Base - 1)
               z == Base * (Base - 1)
               y == Base * k
    <3>3. h \in Int /\ w \in Int /\ z \in Int /\ y \in Int
      BY <1>1, <1>4
    <3>4. h <= w /\ w + (Base - 1) = z /\ sum = h + low[1] /\ sum = y + rem
      BY <1>3, <1>4, <3>1, <3>2
    <3>5. y <= z
      <4> HIDE DEF h, w, z, y, rem
      <4>1. rem \in 0 .. (Base - 1)
        BY <1>4 DEF rem
      <4>2. QED
        BY <1>1, <1>2, <3>3, <3>4, <4>1
    <3>6. k <= Base - 1
      <4> SUFFICES ASSUME k >= Base PROVE FALSE
        BY <1>1, <1>4
      <4>1. Base * k >= Base * Base
        BY <1>1, <1>4
      <4>2. Base * Base > Base * (Base - 1)
        BY <1>1
      <4>3. Base * k \in Int /\ Base * Base \in Int /\ Base * (Base - 1) \in Int
        BY <1>1, <1>4
      <4>4. QED
        BY <3>5, <4>1, <4>2, <4>3
    <3>7. QED
      BY <1>1, <1>4, <3>6
  <2> DEFINE b == [i \in 0 .. Limbs |-> IF i = 0 THEN high * Fold ELSE c[i]]
             e == r.limbs
  <2>2. b[0] = high * Fold /\ (\A i \in 1 .. Limbs : b[i] = c[i])
    <3>1. 0 \in 0 .. Limbs /\ \A i \in 1 .. Limbs : i \in 0 .. Limbs /\ i # 0
      BY <1>1
    <3>2. QED
      BY <3>1
  <2>3. \A i \in 0 .. Limbs : b[i] \in Int
    <3>1. high * Fold \in Int
      BY <1>1
    <3>2. \A i \in 0 .. Limbs : i = 0 \/ i \in 1 .. Limbs
      BY <1>1
    <3>3. QED
      BY <1>8, <3>1, <3>2
  <2>4. \A i \in 1 .. Limbs : low[i] \in Int /\ e[i] \in Int
    BY <1>8, NumberLimbs
  <2> HIDE DEF b
  <2>5. ASSUME NEW i \in 1 .. Limbs PROVE low[i] + b[i - 1] = e[i] + Base * b[i]
    <3>1. CASE i = 1
      <4>1. e[i] = rem /\ b[i] = k /\ b[i - 1] = high * Fold
        BY <1>1, <1>6, <1>8, <2>2, <3>1
      <4>2. low[1] + high * Fold = sum
        <5>1. high * Fold \in Int /\ low[1] \in Int
          BY <1>1, <2>4
        <5>2. QED
          BY <1>3, <5>1
      <4>3. rem + Base * k = sum
        <5>1. rem \in Int /\ Base * k \in Int
          BY <1>1, <1>4
        <5> HIDE DEF rem
        <5>2. sum = Base * k + rem
          BY <1>4 DEF rem
        <5>3. QED
          BY <5>1, <5>2
      <4>4. QED
        BY <3>1, <4>1, <4>2, <4>3
    <3>2. CASE i # 1
      <4>1. i \in 2 .. Limbs /\ i - 1 \in 1 .. Limbs
        BY <1>1, <3>2
      <4>2. x[i] + c[i - 1] = e[i] + Base * c[i] /\ x[i] = low[i]
        BY <1>6, <1>8, <2>1, <4>1
      <4>3. b[i] = c[i] /\ b[i - 1] = c[i - 1]
        BY <2>2, <4>1
      <4>4. QED
        BY <4>2, <4>3
    <3>3. QED
      BY <3>1, <3>2
  <2> HIDE DEF e
  <2>6. Upto(low, Limbs) + b[0] = Upto(e, Limbs) + Weight[Limbs] * b[Limbs]
    <3>1. Limbs \in Nat
      BY <1>1
    <3>2. QED
      BY ONLY <3>1, <2>3, <2>4, <2>5, Carried
  <2>7. Upto(low, Limbs) = Value(low) /\ Upto(e, Limbs) = Value(e)
    BY <1>8, ValueIsUpto DEF e
  <2>8. b[Limbs] = r.carry /\ r.carry < Base
    BY <1>8, <1>9, <2>1, <2>2
  <2>9. QED
    BY <1>1, <2>2, <2>6, <2>7, <2>8 DEF e
<1>12. QED
  <2>1. Folded(<<low, high>>)[1] = r.limbs /\ Folded(<<low, high>>)[2] = r.carry
    BY <1>5
  <2>2. QED
    BY <1>10, <1>11, <2>1

\* LimbsOf(Reduced(v)) stands for v modulo P.
LEMMA ReducedLimbs ==
  ASSUME NEW v \in 0 .. (Size - 1)
  PROVE  LimbsOf(Reduced(v)) \in Number /\ Value(LimbsOf(Reduced(v))) = v % P
<1>1. P \in Nat /\ Size \in Nat /\ Fold \in Nat /\ Size = P + Fold
  BY FieldSizes
<1>2. Reduced(v) \in 0 .. (P - 1) /\ Reduced(v) = v % P
  BY ReducedValue
<1>3. Reduced(v) \in 0 .. (Size - 1)
  BY <1>1, <1>2
<1>4. QED
  BY <1>2, <1>3, LimbsOfSmall

\* FoldLimb is the function its recursion describes, as what is above the limbs shrinks.
LEMMA FoldLimbDefined ==
  \A s \in Number \X Nat :
    FoldLimb[s] = IF s[2] = 0 THEN LimbsOf(Reduced(Value(s[1]))) ELSE FoldLimb[Folded(s)]
<1> DEFINE S == Number \X Nat
           done == {s \in S : s[2] = 0}
           next == [s \in S |-> Folded(s)]
           value == [s \in S |-> LimbsOf(Reduced(Value(s[1])))]
           Body(f) == [s \in S |-> IF s[2] = 0 THEN LimbsOf(Reduced(Value(s[1]))) ELSE f[Folded(s)]]
<1>1. \A s \in S : Folded(s) \in S
  <2> SUFFICES ASSUME NEW s \in S PROVE Folded(s) \in S
    OBVIOUS
  <2>1. PICK low \in Number, high \in Nat : s = <<low, high>>
    OBVIOUS
  <2>2. QED
    BY <2>1, FoldedIsExact
<1>2. \A s \in S : LimbsOf(Reduced(Value(s[1]))) \in Number
  BY ValueRange, ReducedLimbs
<1>3. next \in [S -> S] /\ value \in [S -> Number] /\ done \in SUBSET S
  BY <1>1, <1>2
<1>4. PICK f \in [S -> Number] : GoesOn(f, S, done, next, value)
  <2> HIDE DEF S, done, next, value
  <2>1. QED
    BY <1>3, TailRecursionExists
<1>5. f = Body(f)
  <2>1. \A s \in S : (s \in done <=> s[2] = 0) /\ next[s] = Folded(s)
                     /\ value[s] = LimbsOf(Reduced(Value(s[1])))
    OBVIOUS
  <2> HIDE DEF S, done, next, value
  <2>2. \A s \in S : f[s] = IF s[2] = 0 THEN LimbsOf(Reduced(Value(s[1]))) ELSE f[Folded(s)]
    BY <1>4, <2>1 DEF GoesOn
  <2>3. QED
    BY <1>4, <2>2
<1>6. FoldLimb = CHOOSE g : g = Body(g)
  BY DEF FoldLimb, Folded
<1>7. FoldLimb = Body(FoldLimb)
  <2> HIDE DEF Body
  <2>1. QED
    BY <1>5, <1>6
<1>8. \A s \in S :
        FoldLimb[s] = IF s[2] = 0 THEN LimbsOf(Reduced(Value(s[1]))) ELSE FoldLimb[Folded(s)]
  BY <1>7
<1> HIDE DEF Body
<1>9. QED
  BY <1>8

\* Folding gives what is left modulo P, however often a limb comes up again.
LEMMA FoldLimbIsExact ==
  ASSUME NEW low \in Number, NEW high \in 0 .. (Base - 1)
  PROVE  /\ FoldLimb[<<low, high>>] \in Number
         /\ Value(FoldLimb[<<low, high>>]) = (Value(low) + high * Size) % P
<1>1. Base \in Nat /\ Size \in Nat /\ P \in Nat \ {0} /\ Size = P + Fold /\ Fold \in Nat
  BY FieldSizes
<1> DEFINE Total(x, h) == Value(x) + h * Size
           Right(x, h) == /\ FoldLimb[<<x, h>>] \in Number
                          /\ Value(FoldLimb[<<x, h>>]) = Total(x, h) % P
           Good == {n \in Nat : \A x \in Number : \A h \in 0 .. (Base - 1) :
                                  Total(x, h) <= n => Right(x, h)}
<1>2. ASSUME NEW x \in Number PROVE Right(x, 0)
  <2>1. <<x, 0>> \in Number \X Nat /\ <<x, 0>>[2] = 0 /\ <<x, 0>>[1] = x
    OBVIOUS
  <2>2. FoldLimb[<<x, 0>>] = LimbsOf(Reduced(Value(x)))
    BY <2>1, FoldLimbDefined
  <2>3. Value(x) \in 0 .. (Size - 1)
    BY ValueRange
  <2>4. Value(x) + 0 * Size = Value(x)
    BY <1>1, <2>3
  <2>5. QED
    BY <2>2, <2>3, <2>4, ReducedLimbs
<1>3. ASSUME NEW x \in Number, NEW h \in 0 .. (Base - 1), h # 0
      PROVE  \E y \in Number : \E g \in 0 .. (Base - 1) :
               /\ Total(y, g) < Total(x, h)
               /\ Right(y, g) => Right(x, h)
  <2>1. h \in Nat /\ h < Base /\ h >= 1
    BY <1>1, <1>3
  <2> DEFINE y == Folded(<<x, h>>)[1]
             g == Folded(<<x, h>>)[2]
  <2>2. Folded(<<x, h>>) \in Number \X Nat /\ g < Base /\ Value(y) + Size * g = Value(x) + h * Fold
    BY <2>1, FoldedIsExact
  <2>3. y \in Number /\ g \in 0 .. (Base - 1) /\ Folded(<<x, h>>) = <<y, g>>
    BY <1>1, <2>2
  <2>4. FoldLimb[<<x, h>>] = FoldLimb[Folded(<<x, h>>)]
    <3>1. <<x, h>> \in Number \X Nat /\ <<x, h>>[2] = h
      BY <2>1
    <3>2. QED
      BY <1>3, <3>1, FoldLimbDefined
  <2>5. FoldLimb[<<x, h>>] = FoldLimb[<<y, g>>]
    BY <2>3, <2>4
  <2> HIDE DEF y, g
  <2> DEFINE xv == Value(x)
             yv == Value(y)
             t == Total(x, h)
             u == Total(y, g)
  <2>6. xv \in Nat /\ yv \in Nat
    BY <2>3, ValueRange
  <2>7. t = u + h * P /\ t \in Int /\ u \in Int
    <3>1. h * Size = h * P + h * Fold /\ Size * g = g * Size
      BY <1>1, <2>1, <2>3
    <3> DEFINE hs == h * Size
               hp == h * P
               hf == h * Fold
               gs == g * Size
    <3>2. hs \in Int /\ hp \in Int /\ hf \in Int /\ gs \in Int
      BY <1>1, <2>1, <2>3
    <3>3. hs = hp + hf /\ yv + gs = xv + hf
      BY <2>2, <3>1
    <3> HIDE DEF hs, hp, hf, gs
    <3>4. xv + hs = (yv + gs) + hp
      BY <2>6, <3>2, <3>3
    <3>5. xv + hs \in Int /\ yv + gs \in Int
      BY <2>6, <3>2
    <3>6. QED
      BY <3>4, <3>5 DEF hs, hp, gs
  <2>8. h * P >= 1 /\ h * P \in Int
    BY <1>1, <2>1
  <2> HIDE DEF xv, yv, t, u
  <2>9. u < t
    BY <2>7, <2>8
  <2>10. t % P = u % P
    <3>1. P \in Nat \ {0} /\ t \in Int /\ u \in Int /\ h \in Int /\ t = u + h * P
      BY <1>1, <2>1, <2>7
    <3>2. QED
      BY ONLY <3>1, ModShift
  <2>11. QED
    BY <2>3, <2>5, <2>9, <2>10 DEF t, u
<1> HIDE DEF Right
<1>4. \A x \in Number : \A h \in 0 .. (Base - 1) : Total(x, h) \in Nat
  <2> SUFFICES ASSUME NEW x \in Number, NEW h \in 0 .. (Base - 1) PROVE Total(x, h) \in Nat
    OBVIOUS
  <2>1. Value(x) \in Nat /\ h \in Nat
    BY <1>1, ValueRange
  <2>2. h * Size \in Nat
    BY <1>1, <2>1
  <2>3. QED
    BY <2>1, <2>2
<1> HIDE DEF Total
<1>5. ASSUME NEW n \in Nat,
             \A x \in Number : \A h \in 0 .. (Base - 1) : Total(x, h) < n => Right(x, h)
      PROVE  \A x \in Number : \A h \in 0 .. (Base - 1) : Total(x, h) <= n => Right(x, h)
  <2> SUFFICES ASSUME NEW x \in Number, NEW h \in 0 .. (Base - 1), Total(x, h) <= n
               PROVE  Right(x, h)
    OBVIOUS
  <2>1. CASE h = 0
    BY <1>2, <2>1
  <2>2. CASE h # 0
    <3>1. PICK y \in Number, g \in 0 .. (Base - 1) :
            Total(y, g) < Total(x, h) /\ (Right(y, g) => Right(x, h))
      BY <1>3, <2>2
    <3>2. Total(y, g) \in Nat /\ Total(x, h) \in Nat
      BY <1>4
    <3>3. Total(y, g) < n
      BY <3>1, <3>2
    <3>4. QED
      BY <1>5, <3>1, <3>3
  <2>3. QED
    BY <2>1, <2>2
<1>6. 0 \in Good
  <2>1. \A x \in Number : \A h \in 0 .. (Base - 1) : Total(x, h) < 0 => Right(x, h)
    BY <1>4
  <2>2. QED
    BY <1>5, <2>1
<1>7. \A n \in Nat : n \in Good => n + 1 \in Good
  <2> SUFFICES ASSUME NEW n \in Nat, n \in Good PROVE n + 1 \in Good
    OBVIOUS
  <2>1. \A x \in Number : \A h \in 0 .. (Base - 1) : Total(x, h) < n + 1 => Right(x, h)
    <3>1. \A x \in Number : \A h \in 0 .. (Base - 1) : Total(x, h) < n + 1 => Total(x, h) <= n
      BY <1>4
    <3>2. QED
      BY <3>1
  <2>2. n + 1 \in Nat
    OBVIOUS
  <2>3. \A x \in Number : \A h \in 0 .. (Base - 1) : Total(x, h) <= n + 1 => Right(x, h)
    BY ONLY <1>5, <2>1, <2>2
  <2>4. QED
    BY <2>2, <2>3
<1>8. Nat \subseteq Good
  <2> HIDE DEF Good
  <2>1. QED
    BY <1>6, <1>7, NatSetInduction
<1>9. Right(low, high)
  <2>1. Total(low, high) \in Nat
    BY <1>4
  <2>2. Total(low, high) \in Good
    BY <1>8, <2>1
  <2>3. Total(low, high) <= Total(low, high)
    BY <2>1
  <2>4. QED
    BY <2>2, <2>3
<1>10. QED
  BY <1>9 DEF Right, Total

-----------------------------------------------------------------------------
(* Products *)

\* The largest limb times the largest limb, and a limb more, leave a limb to carry.
Terms == [1 .. Limbs -> 0 .. (Base * (Base - 1))]

\* c carries between the limbs of which d gives the terms.
CarriesOf(c, d) ==
  c[0] = 0 /\ \A i \in 1 .. Limbs : c[i - 1] \in Nat => c[i] = (d[i] + c[i - 1]) \div Base

\* Carries between the limbs of d exist.
LEMMA CarriesExist ==
  ASSUME NEW d \in Terms
  PROVE  \E c \in [0 .. Limbs -> Nat] :
           c = [i \in 0 .. Limbs |-> IF i = 0 THEN 0 ELSE (d[i] + c[i - 1]) \div Base]
<1>1. Limbs \in Nat /\ Base \in Nat \ {0} /\ Base * (Base - 1) \in Nat
  BY FieldSizes
<1> DEFINE z == 0
           G == [p \in (z .. Limbs) \X Nat |-> IF p[1] = 0 THEN 0 ELSE (d[p[1]] + p[2]) \div Base]
<1>2. G \in [(z .. Limbs) \X Nat -> Nat]
  <2> SUFFICES ASSUME NEW i \in z .. Limbs, NEW k \in Nat
               PROVE  (IF i = 0 THEN 0 ELSE (d[i] + k) \div Base) \in Nat
    OBVIOUS
  <2>1. ASSUME i # 0 PROVE (d[i] + k) \div Base \in Nat
    <3>1. i \in 1 .. Limbs
      BY <1>1, <2>1
    <3>2. d[i] \in 0 .. (Base * (Base - 1))
      BY <3>1 DEF Terms
    <3> DEFINE t == d[i] + k
    <3>3. t \in Nat
      BY <1>1, <3>2
    <3> HIDE DEF t
    <3>4. t \div Base \in 0 .. t
      BY <1>1, <3>3, DivSmall
    <3>5. t \div Base \in Nat
      BY <3>3, <3>4
    <3>6. QED
      BY <3>5 DEF t
  <2>2. QED
    BY <2>1
<1>3. \A i \in z .. Limbs : \A k \in Nat :
        G[<<i, k>>] = IF i = 0 THEN 0 ELSE (d[i] + k) \div Base
  OBVIOUS
<1>4. z \in Nat /\ z = 0
  OBVIOUS
<1> HIDE DEF G, z
<1>5. PICK c \in [z .. Limbs -> Nat] : IteratesOn(c, z, Limbs, z, G)
  BY <1>1, <1>2, <1>4, RangeIterationExists
<1>6. c = [i \in z .. Limbs |-> IF i = z THEN z ELSE G[<<i, c[i - 1]>>]]
  BY <1>5 DEF IteratesOn
<1>7. ASSUME NEW i \in z .. Limbs, i # 0 PROVE G[<<i, c[i - 1]>>] = (d[i] + c[i - 1]) \div Base
  <2>1. i - 1 \in z .. Limbs
    BY <1>1, <1>4, <1>7
  <2>2. c[i - 1] \in Nat
    BY <2>1
  <2>3. QED
    BY <1>3, <1>7, <2>2
<1>8. c = [i \in 0 .. Limbs |-> IF i = 0 THEN 0 ELSE (d[i] + c[i - 1]) \div Base]
  BY <1>4, <1>6, <1>7
<1>9. QED
  BY <1>4, <1>8

\* Carries stay below Base, and leave what the terms stand for.
LEMMA CarriesAreExact ==
  ASSUME NEW d \in Terms, NEW c, CarriesOf(c, d), NEW e,
         \A i \in 1 .. Limbs : e[i] = (d[i] + c[i - 1]) % Base
  PROVE  /\ \A i \in 0 .. Limbs : c[i] \in 0 .. (Base - 1)
         /\ \A i \in 1 .. Limbs : e[i] \in 0 .. (Base - 1) /\ d[i] + c[i - 1] = e[i] + Base * c[i]
<1>1. Limbs \in Nat /\ Base \in Nat \ {0} /\ Base > 2
  BY FieldSizes
<1>2. ASSUME NEW t \in Nat, NEW k \in 0 .. (Base - 1), NEW u \in 0 .. (Base * (Base - 1)), t = u + k
      PROVE  t \div Base \in 0 .. (Base - 1) /\ t % Base \in 0 .. (Base - 1)
             /\ t = (t % Base) + Base * (t \div Base)
  <2> DEFINE q == t \div Base
             r == t % Base
             p == Base * q
             m == Base * (Base - 1)
  <2>1. t = p + r /\ r \in 0 .. (Base - 1) /\ q \in 0 .. t
    <3>1. t \in Int /\ Base \in Nat \ {0}
      BY <1>1
    <3>2. t = Base * (t \div Base) + (t % Base) /\ t % Base \in 0 .. (Base - 1)
      BY ONLY <3>1, DivMod
    <3>3. t \div Base \in 0 .. t
      BY ONLY t \in Nat, <3>1, DivSmall
    <3>4. QED
      BY <3>2, <3>3
  <2>2. q \in Nat /\ p \in Nat /\ m \in Nat
    BY <1>1, <2>1
  <2>3. t <= m + (Base - 1)
    BY <1>1, <1>2, <2>2
  <2>4. q <= Base - 1
    <3> SUFFICES ASSUME q >= Base PROVE FALSE
      BY <1>1, <2>2
    <3> HIDE DEF q
    <3>1. Base * q >= Base * Base
      BY <1>1, <2>2
    <3>2. Base * Base = m + Base
      BY <1>1
    <3>3. p >= m + Base
      BY <3>1, <3>2
    <3> HIDE DEF p, m, r
    <3>4. QED
      BY <1>1, <2>1, <2>2, <2>3, <3>3
  <2> HIDE DEF q, r
  <2>5. t = r + p
    <3> HIDE DEF p
    <3>1. QED
      BY <1>1, <2>1, <2>2
  <2>6. QED
    BY <1>1, <2>1, <2>2, <2>4, <2>5 DEF q, r
<1> DEFINE Good == {n \in Nat : n <= Limbs => c[n] \in 0 .. (Base - 1)}
<1>3. ASSUME NEW i \in 1 .. Limbs, c[i - 1] \in 0 .. (Base - 1)
      PROVE  /\ c[i] \in 0 .. (Base - 1) /\ e[i] \in 0 .. (Base - 1)
             /\ d[i] + c[i - 1] = e[i] + Base * c[i]
  <2> DEFINE u == d[i]
             k == c[i - 1]
             t == u + k
  <2>1. u \in 0 .. (Base * (Base - 1)) /\ k \in 0 .. (Base - 1)
    BY <1>3 DEF Terms
  <2>2. u \in Nat /\ k \in Nat
    <3>1. Base * (Base - 1) \in Nat
      BY <1>1
    <3>2. QED
      BY <1>1, <2>1, <3>1
  <2>3. c[i] = t \div Base
    BY <2>2 DEF CarriesOf
  <2>4. e[i] = t % Base
    OBVIOUS
  <2>5. t \in Nat /\ t = u + k
    BY <2>2
  <2> HIDE DEF t
  <2>6. t \div Base \in 0 .. (Base - 1) /\ t % Base \in 0 .. (Base - 1)
        /\ t = (t % Base) + Base * (t \div Base)
    BY ONLY <1>2, <2>1, <2>5
  <2>7. QED
    BY <2>3, <2>4, <2>5, <2>6
<1>4. 0 \in Good
  BY <1>1 DEF CarriesOf
<1>5. ASSUME NEW n \in Nat, n \in Good PROVE n + 1 \in Good
  <2> SUFFICES ASSUME n + 1 <= Limbs PROVE c[n + 1] \in 0 .. (Base - 1)
    OBVIOUS
  <2>1. n + 1 \in 1 .. Limbs /\ (n + 1) - 1 = n
    BY <1>1
  <2>2. c[n] \in 0 .. (Base - 1)
    BY <1>1, <1>5
  <2>3. c[(n + 1) - 1] \in 0 .. (Base - 1)
    BY <2>1, <2>2
  <2>4. QED
    BY <1>3, <2>1, <2>3
<1>6. Nat \subseteq Good
  <2> HIDE DEF Good
  <2>1. QED
    BY <1>4, <1>5, NatSetInduction
<1>7. \A i \in 0 .. Limbs : c[i] \in 0 .. (Base - 1)
  BY <1>1, <1>6
<1>8. \A i \in 1 .. Limbs : c[i - 1] \in 0 .. (Base - 1)
  <2>1. \A i \in 1 .. Limbs : i - 1 \in 0 .. Limbs
    BY <1>1
  <2>2. QED
    BY <1>7, <2>1
<1>9. QED
  BY <1>3, <1>7, <1>8

\* What the terms stand for, in limbs.
LEMMA TermsInLimbs ==
  ASSUME NEW d \in Terms, NEW c, CarriesOf(c, d), NEW e,
         e = [i \in 1 .. Limbs |-> (d[i] + c[i - 1]) % Base]
  PROVE  /\ e \in Number /\ c[Limbs] \in 0 .. (Base - 1)
         /\ Upto(d, Limbs) = Value(e) + c[Limbs] * Size
<1>1. Limbs \in Nat /\ Base \in Nat /\ Base > 2 /\ Size = Weight[Limbs] /\ Size \in Nat
  BY FieldSizes
<1>2. \A i \in 1 .. Limbs : e[i] = (d[i] + c[i - 1]) % Base
  OBVIOUS
<1>3. /\ \A i \in 0 .. Limbs : c[i] \in 0 .. (Base - 1)
      /\ \A i \in 1 .. Limbs : e[i] \in 0 .. (Base - 1) /\ d[i] + c[i - 1] = e[i] + Base * c[i]
  BY ZenonT(30), <1>2, CarriesAreExact
<1>4. e \in Number
  <2>1. e = [i \in 1 .. Limbs |-> e[i]]
    BY <1>2
  <2>2. \A i \in 1 .. Limbs : e[i] \in 0 .. (Base - 1)
    BY <1>3
  <2>3. QED
    BY ONLY <2>1, <2>2 DEF Number
<1>5. Upto(d, Limbs) + c[0] = Upto(e, Limbs) + Weight[Limbs] * c[Limbs]
  <2>1. \A i \in 1 .. Limbs : d[i] \in Int /\ e[i] \in Int
    <3>1. Base * (Base - 1) \in Nat
      BY <1>1
    <3>2. \A i \in 1 .. Limbs : d[i] \in 0 .. (Base * (Base - 1))
      BY DEF Terms
    <3>3. QED
      BY <1>1, <1>3, <3>1, <3>2
  <2>2. \A i \in 0 .. Limbs : c[i] \in Int
    BY <1>1, <1>3
  <2>3. \A i \in 1 .. Limbs : d[i] + c[i - 1] = e[i] + Base * c[i]
    BY <1>3
  <2>4. Limbs \in Nat
    BY <1>1
  <2>5. QED
    BY ONLY <2>1, <2>2, <2>3, <2>4, Carried
<1>6. c[0] = 0 /\ c[Limbs] \in 0 .. (Base - 1)
  BY <1>1, <1>3 DEF CarriesOf
<1>7. Upto(d, Limbs) \in Int
  <2>1. Base * (Base - 1) \in Nat
    BY <1>1
  <2>2. \A i \in 1 .. Limbs : d[i] \in 0 .. (Base * (Base - 1))
    BY DEF Terms
  <2>3. \A i \in 1 .. Limbs : d[i] \in Int
    BY <2>1, <2>2
  <2>4. QED
    BY <1>1, <2>3, UptoInt
<1>8. Upto(e, Limbs) = Value(e)
  BY <1>4, ValueIsUpto
<1>9. Upto(d, Limbs) = Value(e) + c[Limbs] * Size
  <2>1. Size * c[Limbs] = c[Limbs] * Size
    BY <1>1, <1>6
  <2>2. QED
    BY <1>1, <1>5, <1>6, <1>7, <1>8, <2>1
<1>10. QED
  BY <1>4, <1>6, <1>9

\* A limb times a limb, and a limb more, are the terms of a row.
LEMMA LimbProduct ==
  ASSUME NEW a \in 0 .. (Base - 1), NEW b \in 0 .. (Base - 1), NEW r \in 0 .. (Base - 1)
  PROVE  r + a * b \in 0 .. (Base * (Base - 1))
<1>1. Base \in Nat /\ Base > 2
  BY FieldSizes
<1> DEFINE q == Base - 1
<1>2. q \in Nat /\ a \in 0 .. q /\ b \in 0 .. q /\ r \in 0 .. q
  BY <1>1
<1>3. Base * (Base - 1) = q * q + q
  BY <1>1
<1> HIDE DEF q
<1>4. a * b <= a * q
  BY <1>2
<1>5. a * q <= q * q
  BY <1>2
<1>6. a * b \in Nat /\ a * q \in Int /\ q * q \in Int
  BY <1>2
<1>7. r + a * b \in 0 .. (q * q + q)
  BY <1>2, <1>4, <1>5, <1>6
<1>8. QED
  BY <1>3, <1>7

\* FoldHalf gives low + Size * high modulo P, as Size is Fold modulo P.
LEMMA FoldHalfIsExact ==
  ASSUME NEW low \in Number, NEW high \in Number
  PROVE  /\ FoldHalf(low, high) \in Number
         /\ Value(FoldHalf(low, high)) = (Value(low) + Size * Value(high)) % P
<1>1. /\ Limbs \in Nat /\ Base \in Nat /\ Base > 2 /\ Fold \in 0 .. (Base - 1) /\ Fold \in Nat
      /\ Size \in Nat /\ P \in Nat \ {0} /\ Size = P + Fold /\ 0 \in 0 .. Limbs
  BY FieldSizes
<1> DEFINE d == [i \in 1 .. Limbs |-> low[i] + Fold * high[i]]
           Body(f) == [i \in 0 .. Limbs |->
                         IF i = 0 THEN 0 ELSE (high[i] * Fold + f[i - 1] + low[i]) \div Base]
           carry == CHOOSE f : f = Body(f)
           rest == [i \in 1 .. Limbs |-> (high[i] * Fold + carry[i - 1] + low[i]) % Base]
           e == [i \in 1 .. Limbs |-> (d[i] + carry[i - 1]) % Base]
<1>2. d \in Terms
  <2>1. \A i \in 1 .. Limbs : low[i] + Fold * high[i] \in 0 .. (Base * (Base - 1))
    BY <1>1, NumberLimbs, LimbProduct
  <2>2. QED
    BY <2>1 DEF Terms
<1>3. \A i \in 1 .. Limbs : /\ low[i] \in Int /\ high[i] \in Int /\ d[i] \in Int
                           /\ d[i] = low[i] + Fold * high[i]
  <2>1. \A i \in 1 .. Limbs : low[i] \in Int /\ high[i] \in Int
    BY NumberLimbs
  <2>2. QED
    BY <1>1, <2>1
<1>4. \A i \in 1 .. Limbs : \A k \in Nat : high[i] * Fold + k + low[i] = d[i] + k
  <2> HIDE DEF d
  <2> SUFFICES ASSUME NEW i \in 1 .. Limbs, NEW k \in Nat
               PROVE  high[i] * Fold + k + low[i] = d[i] + k
    OBVIOUS
  <2>1. low[i] \in Int /\ high[i] \in Int /\ d[i] = low[i] + Fold * high[i]
    BY <1>3
  <2> HIDE <1>3
  <2>2. high[i] * Fold = Fold * high[i] /\ high[i] * Fold \in Int
    BY <1>1, <2>1
  <2>3. QED
    BY <2>1, <2>2
<1>5. PICK g \in [0 .. Limbs -> Nat] :
        g = [i \in 0 .. Limbs |-> IF i = 0 THEN 0 ELSE (d[i] + g[i - 1]) \div Base]
  <2> HIDE DEF d
  <2>1. QED
    BY <1>2, CarriesExist
<1> HIDE DEF d
<1>6. g = Body(g)
  <2>1. ASSUME NEW i \in 0 .. Limbs, i # 0
        PROVE  high[i] * Fold + g[i - 1] + low[i] = d[i] + g[i - 1]
    <3>1. i \in 1 .. Limbs /\ i - 1 \in 0 .. Limbs
      BY <1>1, <2>1
    <3>2. g[i - 1] \in Nat
      BY <3>1
    <3>3. QED
      BY <1>4, <3>1, <3>2
  <2>2. \A i \in 0 .. Limbs : g[i] = IF i = 0 THEN 0 ELSE (high[i] * Fold + g[i - 1] + low[i]) \div Base
    BY <1>5, <2>1
  <2>3. QED
    BY <2>2
<1>7. FoldHalf(low, high) = FoldLimb[<<rest, carry[Limbs]>>]
  BY DEF FoldHalf
<1>8. carry = Body(carry)
  <2> HIDE DEF Body
  <2>1. QED
    BY <1>6
<1> HIDE DEF carry
<1>9. CarriesOf(carry, d)
  <2>1. carry[0] = 0
    BY <1>1, <1>8
  <2>2. ASSUME NEW i \in 1 .. Limbs, carry[i - 1] \in Nat
        PROVE  carry[i] = (d[i] + carry[i - 1]) \div Base
    <3>1. i \in 0 .. Limbs /\ i # 0
      BY <1>1
    <3>2. carry[i] = (high[i] * Fold + carry[i - 1] + low[i]) \div Base
      BY <1>8, <3>1
    <3>3. high[i] * Fold + carry[i - 1] + low[i] = d[i] + carry[i - 1]
      BY <1>4, <2>2
    <3>4. QED
      BY <3>2, <3>3
  <2>3. QED
    BY <2>1, <2>2 DEF CarriesOf
<1>10. \A i \in 0 .. Limbs : carry[i] \in 0 .. (Base - 1)
  <2>1. \A i \in 1 .. Limbs : e[i] = (d[i] + carry[i - 1]) % Base
    OBVIOUS
  <2> HIDE DEF e
  <2>2. QED
    BY <1>2, <1>9, <2>1, CarriesAreExact
<1>11. rest = e
  <2>1. ASSUME NEW i \in 1 .. Limbs
        PROVE  high[i] * Fold + carry[i - 1] + low[i] = d[i] + carry[i - 1]
    <3>1. i - 1 \in 0 .. Limbs
      BY <1>1
    <3>2. carry[i - 1] \in Nat
      BY <1>1, <1>10, <3>1
    <3>3. QED
      BY <1>4, <3>2
  <2>2. QED
    BY <2>1
<1>12. /\ e \in Number /\ carry[Limbs] \in 0 .. (Base - 1)
       /\ Upto(d, Limbs) = Value(e) + carry[Limbs] * Size
  BY <1>2, <1>9, TermsInLimbs
<1> HIDE DEF rest, e, Body
<1>13. Upto(d, Limbs) = Value(low) + Fold * Value(high)
  <2>1. Upto(d, Limbs) = Upto(low, Limbs) + Fold * Upto(high, Limbs)
    <3> DEFINE k == Fold
    <3>1. Limbs \in Nat /\ k \in Int
      BY <1>1
    <3>2. \A i \in 1 .. Limbs : low[i] \in Int /\ high[i] \in Int /\ d[i] = low[i] + k * high[i]
      BY <1>3
    <3> HIDE DEF k
    <3>3. Upto(d, Limbs) = Upto(low, Limbs) + k * Upto(high, Limbs)
      BY ONLY <3>1, <3>2, UptoLinear, SMTT(40)
    <3>4. QED
      BY <3>3 DEF k
  <2>2. QED
    BY <2>1, ValueIsUpto
<1>14. /\ FoldHalf(low, high) \in Number
       /\ Value(FoldHalf(low, high)) = (Value(low) + Fold * Value(high)) % P
  BY <1>7, <1>11, <1>12, <1>13, FoldLimbIsExact
<1> DEFINE lv == Value(low)
           hv == Value(high)
           t == lv + Fold * hv
           u == lv + Size * hv
<1>15. lv \in Nat /\ hv \in Nat
  BY ValueRange
<1>16. u = t + hv * P /\ t \in Int /\ u \in Int
  <2> HIDE DEF lv, hv
  <2>1. Size * hv = Fold * hv + hv * P
    BY <1>1, <1>15
  <2> DEFINE a == Size * hv
             b == Fold * hv
             c == hv * P
  <2>2. a \in Int /\ b \in Int /\ c \in Int
    BY <1>1, <1>15
  <2>3. a = b + c /\ t = lv + b /\ u = lv + a
    BY <2>1
  <2> HIDE DEF a, b, t, u, c
  <2>4. u = t + c /\ t \in Int /\ u \in Int
    BY <1>15, <2>2, <2>3
  <2>5. QED
    BY <2>4 DEF c
<1> HIDE DEF lv, hv, t, u
<1>17. u % P = t % P
  <2>1. P \in Nat \ {0} /\ hv \in Int
    BY <1>1, <1>15
  <2>2. QED
    BY ONLY <1>16, <2>1, ModShift
<1>18. QED
  BY <1>14, <1>17 DEF lv, hv, t, u

\* operator*(int) is right modulo P for the ints the group law uses.
LEMMA TimesIntIsExact ==
  ASSUME NEW x \in Number, NEW n \in {2, 3}
  PROVE  /\ TimesInt(x, n) \in Number
         /\ Value(TimesInt(x, n)) = (Value(x) * n) % P
<1>1. /\ Limbs \in Nat /\ Base \in Nat /\ Base > 2 /\ Size \in Nat /\ 0 \in 0 .. Limbs
      /\ n - 1 \in Int /\ n \in Int
  BY FieldSizes
<1> DEFINE d == [i \in 1 .. Limbs |-> x[i] + (n - 1) * x[i]]
           Body(f) == [i \in 0 .. Limbs |-> IF i = 0 THEN 0 ELSE (x[i] * n + f[i - 1]) \div Base]
           carry == CHOOSE f : f = Body(f)
           e == [i \in 1 .. Limbs |-> (d[i] + carry[i - 1]) % Base]
           rest == [i \in 1 .. Limbs |-> (x[i] * n + carry[i - 1]) % Base]
<1>2. \A i \in 1 .. Limbs :
        x[i] \in Int /\ d[i] \in Int /\ d[i] = x[i] + (n - 1) * x[i] /\ x[i] * n = d[i]
        /\ d[i] \in 0 .. (Base * (Base - 1))
  <2> SUFFICES ASSUME NEW i \in 1 .. Limbs
               PROVE  /\ x[i] \in Int /\ d[i] \in Int /\ d[i] = x[i] + (n - 1) * x[i]
                      /\ x[i] * n = d[i] /\ d[i] \in 0 .. (Base * (Base - 1))
    OBVIOUS
  <2>1. x[i] \in 0 .. (Base - 1)
    BY NumberLimbs
  <2>2. d[i] = x[i] + (n - 1) * x[i]
    OBVIOUS
  <2> DEFINE a == x[i]
  <2> HIDE DEF d, a
  <2>3. a \in 0 .. (Base - 1) /\ a \in Nat /\ n - 1 \in 0 .. (Base - 1)
    BY <1>1, <2>1 DEF a
  <2>4. a + (n - 1) * a \in Int /\ a * n = a + (n - 1) * a
    BY <1>1, <2>3
  <2>5. a + (n - 1) * a \in 0 .. (Base * (Base - 1))
    BY <2>3, LimbProduct
  <2>6. QED
    BY <2>2, <2>3, <2>4, <2>5 DEF a
<1>3. d \in Terms
  BY <1>2 DEF Terms
<1>4. PICK g \in [0 .. Limbs -> Nat] :
        g = [i \in 0 .. Limbs |-> IF i = 0 THEN 0 ELSE (d[i] + g[i - 1]) \div Base]
  <2> HIDE DEF d
  <2>1. QED
    BY <1>3, CarriesExist
<1> HIDE DEF d
<1>5. \A i \in 1 .. Limbs : x[i] * n = d[i]
  BY <1>2
<1>6. g = Body(g)
  <2>1. \A i \in 0 .. Limbs : i # 0 => i \in 1 .. Limbs
    BY <1>1
  <2>2. \A i \in 0 .. Limbs : g[i] = IF i = 0 THEN 0 ELSE (x[i] * n + g[i - 1]) \div Base
    BY <1>4, <1>5, <2>1
  <2>3. QED
    BY <2>2
<1>7. TimesInt(x, n) = FoldLimb[<<rest, carry[Limbs]>>]
  BY DEF TimesInt
<1>8. carry = Body(carry)
  <2> HIDE DEF Body
  <2>1. QED
    BY <1>6
<1> HIDE DEF carry
<1>9. CarriesOf(carry, d)
  <2>1. carry[0] = 0
    BY <1>1, <1>8
  <2>2. \A i \in 1 .. Limbs : i \in 0 .. Limbs /\ i # 0
    BY <1>1
  <2>3. \A i \in 1 .. Limbs : carry[i] = (x[i] * n + carry[i - 1]) \div Base
    BY <1>8, <2>2
  <2>4. \A i \in 1 .. Limbs : carry[i] = (d[i] + carry[i - 1]) \div Base
    BY <1>5, <2>3
  <2>5. QED
    BY <2>1, <2>4 DEF CarriesOf
<1>10. rest = e
  BY <1>5
<1>11. /\ e \in Number /\ carry[Limbs] \in 0 .. (Base - 1)
       /\ Upto(d, Limbs) = Value(e) + carry[Limbs] * Size
  BY <1>3, <1>9, TermsInLimbs
<1> HIDE DEF rest, e, Body
<1>12. Upto(d, Limbs) = Value(x) + (n - 1) * Value(x)
  <2> DEFINE k == n - 1
  <2>1. Limbs \in Nat /\ k \in Int /\ \A i \in 1 .. Limbs : x[i] \in Int /\ d[i] = x[i] + k * x[i]
    BY <1>1, <1>2
  <2> HIDE DEF k
  <2>2. Upto(d, Limbs) = Upto(x, Limbs) + k * Upto(x, Limbs)
    BY ONLY <2>1, UptoLinear
  <2>3. QED
    BY <2>2, ValueIsUpto DEF k
<1> DEFINE xv == Value(x)
<1>13. xv \in Nat
  BY ValueRange
<1>14. xv + (n - 1) * xv = xv * n
  <2> HIDE DEF xv
  <2>1. QED
    BY <1>1, <1>13
<1>15. QED
  BY <1>7, <1>10, <1>11, <1>12, <1>14, FoldLimbIsExact

\* y from limb i on, with nothing below and above, stands for Weight[i - 1] times y.
LEMMA UptoShifted ==
  ASSUME NEW y \in Number, NEW i \in 1 .. Limbs, NEW ys,
         ys = [k \in 1 .. 2 * Limbs |-> IF k \in i .. (i + Limbs - 1) THEN y[k - i + 1] ELSE 0]
  PROVE  Upto(ys, 2 * Limbs) = Weight[i - 1] * Value(y)
<1>1. Limbs \in Nat /\ Limbs > 1 /\ i \in Nat /\ i >= 1 /\ i <= Limbs
  BY FieldSizes
<1> DEFINE t == 2 * Limbs
           a == i - 1
           b == t - a
           zs == [k \in 1 .. b |-> ys[k + a]]
           r == b - Limbs
           rest == [k \in 1 .. r |-> zs[k + Limbs]]
<1>2. /\ t \in Nat /\ a \in 0 .. t /\ a \in Nat /\ b \in Nat /\ Limbs \in 0 .. b /\ r \in Nat
      /\ b + a = t /\ a + 1 = i /\ r + Limbs = b /\ a < Limbs /\ i = a + 1
  BY <1>1
<1>3. \A k \in 1 .. t : ys[k] = IF k \in i .. (i + Limbs - 1) THEN y[k - i + 1] ELSE 0
  OBVIOUS
<1>4. \A k \in 1 .. t : ys[k] \in Int
  <2> SUFFICES ASSUME NEW k \in 1 .. t PROVE ys[k] \in Int
    OBVIOUS
  <2>1. CASE k \in i .. (i + Limbs - 1)
    <3>1. k - i + 1 \in 1 .. Limbs
      BY <1>1, <2>1
    <3>2. y[k - i + 1] \in Int
      BY <3>1, NumberLimbs
    <3>3. QED
      BY <1>3, <2>1, <3>2
  <2>2. CASE k \notin i .. (i + Limbs - 1)
    BY <1>3, <2>2
  <2>3. QED
    BY <2>1, <2>2
<1>5. \A k \in 1 .. a : k \in 1 .. t /\ ys[k] = 0
  <2> SUFFICES ASSUME NEW k \in 1 .. a PROVE k \in 1 .. t /\ ys[k] = 0
    OBVIOUS
  <2>1. k \in 1 .. t /\ k \notin i .. (i + Limbs - 1)
    BY <1>1, <1>2
  <2>2. QED
    BY <1>3, <2>1
<1>6. \A k \in 1 .. Limbs : zs[k] = y[k]
  <2> SUFFICES ASSUME NEW k \in 1 .. Limbs PROVE zs[k] = y[k]
    OBVIOUS
  <2>1. k \in 1 .. b /\ k + a \in 1 .. t /\ k + a \in i .. (i + Limbs - 1) /\ (k + a) - i + 1 = k
    BY <1>1, <1>2
  <2>2. zs[k] = ys[k + a]
    BY <2>1
  <2> HIDE DEF zs, a
  <2>3. QED
    BY <1>3, <2>1, <2>2
<1>7. \A k \in 1 .. r : rest[k] = 0
  <2> SUFFICES ASSUME NEW k \in 1 .. r PROVE zs[k + Limbs] = 0
    OBVIOUS
  <2>1. k + Limbs \in 1 .. b /\ (k + Limbs) + a \in 1 .. t
        /\ (k + Limbs) + a \notin i .. (i + Limbs - 1)
    BY <1>1, <1>2
  <2>2. zs[k + Limbs] = ys[(k + Limbs) + a]
    BY <2>1
  <2> HIDE DEF zs, a
  <2>3. QED
    BY <1>3, <2>1, <2>2
<1>8. \A k \in 1 .. b : zs[k] \in Int
  <2>1. \A k \in 1 .. b : k + a \in 1 .. t
    BY <1>2
  <2>2. QED
    BY <1>4, <2>1
<1>9. Upto(ys, t) = Upto(ys, a) + Weight[a] * Upto(zs, b)
  <2>1. Upto(ys, t) = Upto(ys, a) + Weight[a] * Upto([k \in 1 .. (t - a) |-> ys[k + a]], t - a)
    <3> HIDE DEF t, a
    <3>1. QED
      BY ONLY <1>2, <1>4, UptoSplit
  <2>2. QED
    BY <2>1
<1>10. Upto(zs, b) = Upto(zs, Limbs) + Weight[Limbs] * Upto(rest, r)
  <2>1. Upto(zs, b) = Upto(zs, Limbs)
                      + Weight[Limbs] * Upto([k \in 1 .. (b - Limbs) |-> zs[k + Limbs]], b - Limbs)
    <3> HIDE DEF zs, b
    <3>1. QED
      BY ONLY <1>2, <1>8, UptoSplit
  <2>2. QED
    BY <2>1
<1> HIDE DEF zs, rest, t, a, b, r
<1>11. Upto(ys, a) = 0
  BY <1>2, <1>5, UptoNothing
<1>12. Upto(rest, r) = 0
  BY <1>2, <1>7, UptoNothing
<1>13. Upto(zs, Limbs) = Value(y)
  <2>1. \A k \in 1 .. Limbs : y[k] \in Int /\ zs[k] = y[k]
    BY <1>6, NumberLimbs
  <2>2. Upto(zs, Limbs) = Upto(y, Limbs)
    BY <1>1, <2>1, UptoSame
  <2>3. QED
    BY <2>2, ValueIsUpto
<1>14. Value(y) \in Int /\ Weight[Limbs] \in Int /\ Weight[a] \in Int
  <2>1. Value(y) \in Int
    BY ValueRange
  <2>2. Limbs \in Nat /\ a \in Nat
    BY <1>1, <1>2
  <2>3. \A k \in Nat : Weight[k] \in Int
    BY WeightDefined
  <2>4. QED
    BY <2>1, <2>2, <2>3
<1> DEFINE v == Value(y)
           w == Weight[a]
           l == Weight[Limbs]
<1>15. Upto(zs, b) = v
  <2> HIDE DEF v, l
  <2>1. v + l * 0 = v
    BY <1>14 DEF v, l
  <2>2. QED
    BY <1>10, <1>12, <1>13, <2>1 DEF v, l
<1>16. 0 + w * v = w * v
  BY <1>14
<1>17. Upto(ys, t) = w * v
  BY <1>9, <1>11, <1>15, <1>16
<1>18. QED
  BY <1>17 DEF t, a

\* Twice as many limbs, and a row of the schoolbook product.
Wide == [1 .. 2 * Limbs -> 0 .. (Base - 1)]

RowOf(x, y, wide, i) ==
  LET Sum(j, c) == x[i] * y[j] + wide[i + j - 1] + c
      carry[j \in 0 .. Limbs] == IF j = 0 THEN 0 ELSE Sum(j, carry[j - 1]) \div Base
  IN  [k \in 1 .. 2 * Limbs |->
         IF k \in i .. (i + Limbs - 1) THEN Sum(k - i + 1, carry[k - i]) % Base
         ELSE IF k = i + Limbs /\ carry[Limbs] # 0 THEN carry[Limbs]
         ELSE wide[k]]

\* A row adds x[i] times y at limb i of the wide product.
LEMMA RowIsExact ==
  ASSUME NEW x \in Number, NEW y \in Number, NEW wide \in Wide, NEW i \in 1 .. Limbs
  PROVE  /\ RowOf(x, y, wide, i) \in Wide
         /\ (\A k \in (i + Limbs) .. (2 * Limbs) : wide[k] = 0) =>
              /\ \A k \in (i + 1 + Limbs) .. (2 * Limbs) : RowOf(x, y, wide, i)[k] = 0
              /\ Upto(RowOf(x, y, wide, i), 2 * Limbs)
                   = Upto(wide, 2 * Limbs) + x[i] * (Weight[i - 1] * Value(y))
<1>1. Limbs \in Nat /\ Limbs > 1 /\ Base \in Nat /\ Base > 2 /\ i \in Nat /\ i >= 1 /\ i <= Limbs
      /\ 0 \in 0 .. Limbs
  BY FieldSizes
<1> DEFINE t == 2 * Limbs
           xi == x[i]
           d == [j \in 1 .. Limbs |-> wide[i + j - 1] + xi * y[j]]
           Body(f) == [j \in 0 .. Limbs |->
                         IF j = 0 THEN 0 ELSE (x[i] * y[j] + wide[i + j - 1] + f[j - 1]) \div Base]
           carry == CHOOSE f : f = Body(f)
           row == [k \in 1 .. 2 * Limbs |->
                     IF k \in i .. (i + Limbs - 1)
                     THEN (x[i] * y[k - i + 1] + wide[i + (k - i + 1) - 1] + carry[k - i]) % Base
                     ELSE IF k = i + Limbs /\ carry[Limbs] # 0 THEN carry[Limbs]
                     ELSE wide[k]]
           e == [j \in 1 .. Limbs |-> (d[j] + carry[j - 1]) % Base]
<1>2. \A k \in 1 .. t : wide[k] \in 0 .. (Base - 1)
  BY DEF Wide
<1>3. xi \in 0 .. (Base - 1) /\ \A j \in 1 .. Limbs : y[j] \in 0 .. (Base - 1)
  BY NumberLimbs
<1>4. \A j \in 1 .. Limbs : i + j - 1 \in 1 .. t /\ wide[i + j - 1] \in 0 .. (Base - 1)
  <2>1. \A j \in 1 .. Limbs : i + j - 1 \in 1 .. t
    BY <1>1
  <2>2. QED
    BY <1>2, <2>1
<1>5. d \in Terms
  <2>1. \A j \in 1 .. Limbs : wide[i + j - 1] + xi * y[j] \in 0 .. (Base * (Base - 1))
    <3> HIDE DEF xi
    <3>1. QED
      BY <1>3, <1>4, LimbProduct
  <2>2. QED
    BY <2>1 DEF Terms
<1>6. \A j \in 1 .. Limbs : \A c \in Nat : x[i] * y[j] + wide[i + j - 1] + c = d[j] + c
  <2> SUFFICES ASSUME NEW j \in 1 .. Limbs, NEW c \in Nat
               PROVE  x[i] * y[j] + wide[i + j - 1] + c = d[j] + c
    OBVIOUS
  <2>1. d[j] = wide[i + j - 1] + xi * y[j]
    OBVIOUS
  <2> HIDE DEF d
  <2> DEFINE u == wide[i + j - 1]
             yj == y[j]
  <2>2. u \in Int /\ xi \in Int /\ yj \in Int
    BY <1>1, <1>3, <1>4
  <2>3. SUFFICES xi * yj + u + c = (u + xi * yj) + c
    BY <2>1
  <2> HIDE DEF u, xi, yj
  <2>4. xi * yj \in Int
    BY <2>2
  <2>5. QED
    BY <2>2, <2>4
<1>7. PICK g \in [0 .. Limbs -> Nat] :
        g = [j \in 0 .. Limbs |-> IF j = 0 THEN 0 ELSE (d[j] + g[j - 1]) \div Base]
  <2> HIDE DEF d
  <2>1. QED
    BY <1>5, CarriesExist
<1> HIDE DEF d
<1>8. g = Body(g)
  <2>1. ASSUME NEW j \in 0 .. Limbs, j # 0
        PROVE  x[i] * y[j] + wide[i + j - 1] + g[j - 1] = d[j] + g[j - 1]
    <3>1. j \in 1 .. Limbs /\ j - 1 \in 0 .. Limbs
      BY <1>1, <2>1
    <3>2. g[j - 1] \in Nat
      BY <3>1
    <3>3. QED
      BY <1>6, <3>1, <3>2
  <2>2. \A j \in 0 .. Limbs :
          g[j] = IF j = 0 THEN 0 ELSE (x[i] * y[j] + wide[i + j - 1] + g[j - 1]) \div Base
    BY <1>7, <2>1
  <2>3. QED
    BY <2>2
<1>9. RowOf(x, y, wide, i) = row
  BY DEF RowOf
<1>10. carry = Body(carry)
  <2> HIDE DEF Body
  <2>1. QED
    BY <1>8
<1> HIDE DEF carry
<1>11. CarriesOf(carry, d)
  <2>1. carry[0] = 0
    BY <1>1, <1>10
  <2>2. ASSUME NEW j \in 1 .. Limbs, carry[j - 1] \in Nat
        PROVE  carry[j] = (d[j] + carry[j - 1]) \div Base
    <3>1. j \in 0 .. Limbs /\ j # 0
      BY <1>1
    <3>2. carry[j] = (x[i] * y[j] + wide[i + j - 1] + carry[j - 1]) \div Base
      BY <1>10, <3>1
    <3>3. x[i] * y[j] + wide[i + j - 1] + carry[j - 1] = d[j] + carry[j - 1]
      BY <1>6, <2>2
    <3>4. QED
      BY <3>2, <3>3
  <2>3. QED
    BY <2>1, <2>2 DEF CarriesOf
<1>12. /\ \A j \in 0 .. Limbs : carry[j] \in 0 .. (Base - 1)
       /\ \A j \in 1 .. Limbs : e[j] \in 0 .. (Base - 1) /\ d[j] + carry[j - 1] = e[j] + Base * carry[j]
  <2>1. \A j \in 1 .. Limbs : e[j] = (d[j] + carry[j - 1]) % Base
    OBVIOUS
  <2> HIDE DEF e
  <2>2. QED
    BY <1>5, <1>11, <2>1, CarriesAreExact
<1> HIDE DEF Body
<1>13. ASSUME NEW k \in 1 .. t, k \in i .. (i + Limbs - 1)
       PROVE  row[k] = e[k - i + 1] /\ k - i + 1 \in 1 .. Limbs
  <2> DEFINE j == k - i + 1
  <2>1. j \in 1 .. Limbs /\ j - 1 = k - i /\ k - i \in 0 .. Limbs /\ j - 1 \in 0 .. Limbs
    BY <1>1, <1>13
  <2>2. carry[k - i] \in Nat
    BY <1>1, <1>12, <2>1
  <2>3. row[k] = (x[i] * y[j] + wide[i + j - 1] + carry[k - i]) % Base
    BY <1>13
  <2> HIDE DEF j, row
  <2>4. x[i] * y[j] + wide[i + j - 1] + carry[k - i] = d[j] + carry[k - i]
    BY <1>6, <2>1, <2>2
  <2>5. e[j] = (d[j] + carry[j - 1]) % Base
    BY <2>1
  <2>6. row[k] = e[j]
    BY <2>1, <2>3, <2>4, <2>5
  <2>7. QED
    BY <2>1, <2>6 DEF j
<1>14. ASSUME NEW k \in 1 .. t, k \notin i .. (i + Limbs - 1)
       PROVE  row[k] = IF k = i + Limbs /\ carry[Limbs] # 0 THEN carry[Limbs] ELSE wide[k]
  BY <1>14
<1>15. carry[Limbs] \in 0 .. (Base - 1)
  BY <1>1, <1>12
<1>16. \A k \in 1 .. t : row[k] \in 0 .. (Base - 1)
  <2> HIDE DEF row, e
  <2>1. QED
    BY <1>2, <1>12, <1>13, <1>14, <1>15
<1>17. row \in Wide
  <2>1. row = [k \in 1 .. 2 * Limbs |-> row[k]]
    OBVIOUS
  <2> HIDE DEF row
  <2>2. QED
    BY <1>16, <2>1 DEF Wide
<1> HIDE DEF row, e
<1>18. ASSUME \A k \in (i + Limbs) .. (2 * Limbs) : wide[k] = 0
       PROVE  /\ \A k \in (i + 1 + Limbs) .. (2 * Limbs) : row[k] = 0
              /\ Upto(row, t) = Upto(wide, t) + xi * (Weight[i - 1] * Value(y))
  <2>1. \A k \in (i + 1 + Limbs) .. (2 * Limbs) : row[k] = 0
    <3> SUFFICES ASSUME NEW k \in (i + 1 + Limbs) .. (2 * Limbs) PROVE row[k] = 0
      OBVIOUS
    <3>1. k \in 1 .. t /\ k \notin i .. (i + Limbs - 1) /\ k # i + Limbs
          /\ k \in (i + Limbs) .. (2 * Limbs)
      BY <1>1
    <3>2. QED
      BY <1>14, <1>18, <3>1
  <2> DEFINE ys == [k \in 1 .. 2 * Limbs |->
                      IF k \in i .. (i + Limbs - 1) THEN y[k - i + 1] ELSE 0]
             D == [k \in 1 .. 2 * Limbs |-> wide[k] + xi * ys[k]]
             C == [k \in 0 .. 2 * Limbs |->
                     IF k \in i .. (i + Limbs - 1) THEN carry[k - i + 1] ELSE 0]
  <2>2. Upto(ys, t) = Weight[i - 1] * Value(y)
    BY UptoShifted
  <2>3. \A k \in 1 .. t : ys[k] = IF k \in i .. (i + Limbs - 1) THEN y[k - i + 1] ELSE 0
    OBVIOUS
  <2>4. \A k \in 0 .. t : C[k] = IF k \in i .. (i + Limbs - 1) THEN carry[k - i + 1] ELSE 0
    OBVIOUS
  <2>5. \A k \in 1 .. t : D[k] = wide[k] + xi * ys[k]
    OBVIOUS
  <2> HIDE DEF ys, C, D
  <2>6. \A k \in 1 .. t : ys[k] \in Int
    <3> SUFFICES ASSUME NEW k \in 1 .. t PROVE ys[k] \in Int
      OBVIOUS
    <3>1. k \in i .. (i + Limbs - 1) => k - i + 1 \in 1 .. Limbs
      BY <1>1
    <3>2. \A j \in 1 .. Limbs : y[j] \in Int
      BY NumberLimbs
    <3>3. QED
      BY <2>3, <3>1, <3>2
  <2>7. \A k \in 0 .. t : C[k] \in Int
    <3> SUFFICES ASSUME NEW k \in 0 .. t PROVE C[k] \in Int
      OBVIOUS
    <3>1. k \in i .. (i + Limbs - 1) => k - i + 1 \in 0 .. Limbs
      BY <1>1
    <3>2. \A j \in 0 .. Limbs : carry[j] \in Int
      BY <1>1, <1>12
    <3>3. QED
      BY <2>4, <3>1, <3>2
  <2>8. \A k \in 1 .. t : wide[k] \in Int /\ row[k] \in Int /\ D[k] \in Int
    <3>1. \A k \in 1 .. t : wide[k] \in Int /\ row[k] \in Int
      BY <1>1, <1>2, <1>16
    <3>2. xi \in Int
      BY <1>1, <1>3
    <3> HIDE DEF xi
    <3>3. QED
      BY <2>5, <2>6, <3>1, <3>2
  <2>9. ASSUME NEW k \in 1 .. t PROVE D[k] + C[k - 1] = row[k] + Base * C[k]
    <3>1. k - 1 \in 0 .. t /\ k \in 0 .. t /\ k \in Nat /\ k >= 1
      BY <1>1
    <3>w. wide[k] \in Int /\ xi \in Int
      BY <1>1, <1>3, <2>8
    <3>2. CASE k \in i .. (i + Limbs - 1)
      <4> DEFINE j == k - i + 1
      <4>1. j \in 1 .. Limbs /\ i + j - 1 = k /\ (k - 1) - i + 1 = j - 1
        BY <1>1, <3>2
      <4>2. C[k] = carry[j] /\ ys[k] = y[j] /\ row[k] = e[j]
        BY <1>13, <2>3, <2>4, <3>1, <3>2
      <4> HIDE DEF j
      <4>3. C[k - 1] = carry[j - 1]
        <5>1. CASE k - 1 \in i .. (i + Limbs - 1)
          BY <2>4, <3>1, <4>1, <5>1
        <5>2. CASE k - 1 \notin i .. (i + Limbs - 1)
          <6>1. j = 1
            BY <1>1, <3>1, <3>2, <5>2 DEF j
          <6>2. carry[0] = 0
            BY <1>11 DEF CarriesOf
          <6>3. QED
            BY <2>4, <3>1, <5>2, <6>1, <6>2
        <5>3. QED
          BY <5>1, <5>2
      <4>4. D[k] = d[j]
        <5>1. d[j] = wide[i + j - 1] + xi * y[j]
          BY <4>1 DEF d
        <5>2. QED
          BY <2>5, <4>1, <4>2, <5>1
      <4>5. d[j] + carry[j - 1] = e[j] + Base * carry[j]
        BY <1>12, <4>1
      <4>6. QED
        BY <4>2, <4>3, <4>4, <4>5
    <3>3. CASE k \notin i .. (i + Limbs - 1)
      <4>1. C[k] = 0 /\ D[k] = wide[k]
        <5>1. C[k] = 0 /\ ys[k] = 0
          BY <2>3, <2>4, <3>1, <3>3
        <5>2. D[k] = wide[k] + xi * 0
          BY <2>5, <5>1
        <5> HIDE DEF xi
        <5>3. QED
          BY <3>w, <5>1, <5>2
      <4>2. CASE k = i + Limbs
        <5>1. k - 1 \in i .. (i + Limbs - 1) /\ (k - 1) - i + 1 = Limbs
          BY <1>1, <4>2
        <5>2. C[k - 1] = carry[Limbs]
          BY <2>4, <3>1, <5>1
        <5>3. k \in (i + Limbs) .. (2 * Limbs)
          BY <1>1, <4>2
        <5>4. wide[k] = 0
          BY <1>18, <5>3
        <5>5. row[k] = carry[Limbs]
          BY <1>14, <3>3, <4>2, <5>4
        <5>6. QED
          BY <1>1, <1>15, <4>1, <5>2, <5>4, <5>5
      <4>3. CASE k # i + Limbs
        <5>1. k - 1 \notin i .. (i + Limbs - 1)
          BY <1>1, <3>3, <4>3
        <5>2. C[k - 1] = 0
          BY <2>4, <3>1, <5>1
        <5>3. row[k] = wide[k]
          BY <1>14, <3>3, <4>3
        <5>4. QED
          BY <1>1, <3>w, <4>1, <5>2, <5>3
      <4>4. QED
        BY <4>2, <4>3
    <3>4. QED
      BY <3>2, <3>3
  <2>10. Upto(D, t) + C[0] = Upto(row, t) + Weight[t] * C[t]
    <3>1. t \in Nat /\ (\A k \in 1 .. t : D[k] \in Int /\ row[k] \in Int)
      BY <1>1, <2>8
    <3>2. \A k \in 1 .. t : D[k] + C[k - 1] = row[k] + Base * C[k]
      BY <2>9
    <3> HIDE DEF t
    <3>3. QED
      BY ONLY <2>7, <3>1, <3>2, Carried
  <2>11. C[0] = 0 /\ C[t] = 0
    <3>1. 0 \in 0 .. t /\ 0 \notin i .. (i + Limbs - 1) /\ t \in 0 .. t
      BY <1>1
    <3>2. CASE t \notin i .. (i + Limbs - 1)
      BY <2>4, <3>1, <3>2
    <3>3. CASE t \in i .. (i + Limbs - 1)
      BY <1>1, <3>3
    <3>4. QED
      BY <2>4, <3>1, <3>2, <3>3
  <2>12. Upto(D, t) = Upto(wide, t) + xi * Upto(ys, t)
    <3>1. t \in Nat /\ xi \in Int
          /\ \A k \in 1 .. t : wide[k] \in Int /\ ys[k] \in Int /\ D[k] = wide[k] + xi * ys[k]
      BY <1>1, <1>3, <2>5, <2>6, <2>8
    <3> HIDE DEF t, xi
    <3>2. QED
      BY ONLY SMTT(30), <3>1, UptoLinear
  <2>13. Upto(D, t) = Upto(row, t)
    <3>1. Upto(D, t) \in Int /\ Upto(row, t) \in Int /\ Weight[t] \in Int
      <4>1. t \in Nat
        BY <1>1
      <4>2. \A k \in 1 .. t : D[k] \in Int /\ row[k] \in Int
        BY <2>8
      <4> HIDE DEF t
      <4>3. QED
        <5>1. Weight[t] \in Int
          BY <4>1, WeightDefined
        <5>2. \A k \in 1 .. t : D[k] \in Int
          BY <4>2
        <5>3. \A k \in 1 .. t : row[k] \in Int
          BY <4>2
        <5>4. Upto(D, t) \in Int
          BY ONLY <4>1, <5>2, UptoInt
        <5>5. Upto(row, t) \in Int
          BY ONLY <4>1, <5>3, UptoInt
        <5>6. QED
          BY <5>1, <5>4, <5>5
    <3> DEFINE a == Upto(D, t)
               b == Upto(row, t)
               w == Weight[t]
    <3>2. a + 0 = b + w * 0 /\ a \in Int /\ b \in Int /\ w \in Int
      BY <2>10, <2>11, <3>1
    <3> HIDE DEF a, b, w
    <3>3. a = b
      BY <3>2
    <3>4. QED
      BY <3>3 DEF a, b
  <2>14. QED
    BY <2>1, <2>2, <2>12, <2>13
<1>19. QED
  BY <1>9, <1>17, <1>18

\* The rows add up to the product, in twice as many limbs.
LEMMA ProductIsExact ==
  ASSUME NEW x \in Number, NEW y \in Number
  PROVE  Product(x, y) \in Wide /\ Upto(Product(x, y), 2 * Limbs) = Value(x) * Value(y)
<1>1. Limbs \in Nat /\ Limbs > 1 /\ Base \in Nat /\ Base > 2 /\ Limbs \in 0 .. Limbs
  BY FieldSizes
<1> DEFINE none == [k \in 1 .. 2 * Limbs |-> 0]
           Body(f) == [i \in 0 .. Limbs |-> IF i = 0 THEN none ELSE RowOf(x, y, f[i - 1], i)]
           rows == CHOOSE f : f = Body(f)
           z == 0
           G == [p \in (z .. Limbs) \X Wide |-> IF p[1] = 0 THEN p[2] ELSE RowOf(x, y, p[2], p[1])]
<1>2. none \in Wide
  BY <1>1 DEF Wide
<1>3. \A i \in z .. Limbs : \A w \in Wide :
        G[<<i, w>>] = IF i = 0 THEN w ELSE RowOf(x, y, w, i)
  OBVIOUS
<1>4. G \in [(z .. Limbs) \X Wide -> Wide]
  <2> SUFFICES ASSUME NEW i \in z .. Limbs, NEW w \in Wide
               PROVE  (IF i = 0 THEN w ELSE RowOf(x, y, w, i)) \in Wide
    OBVIOUS
  <2>1. CASE i = 0
    BY <2>1
  <2>2. CASE i # 0
    <3>1. i \in 1 .. Limbs
      BY <1>1, <2>2
    <3>2. RowOf(x, y, w, i) \in Wide
      BY <3>1, RowIsExact
    <3>3. QED
      BY <2>2, <3>2
  <2>3. QED
    BY <2>1, <2>2
<1>5. z \in Nat /\ z = 0
  OBVIOUS
<1> HIDE DEF none, z, G
<1>6. PICK g \in [z .. Limbs -> Wide] : IteratesOn(g, z, Limbs, none, G)
  BY <1>1, <1>2, <1>4, <1>5, RangeIterationExists
<1>7. g = Body(g)
  <2>1. g = [i \in z .. Limbs |-> IF i = z THEN none ELSE G[<<i, g[i - 1]>>]]
    BY <1>6 DEF IteratesOn
  <2>2. ASSUME NEW i \in z .. Limbs, i # 0 PROVE G[<<i, g[i - 1]>>] = RowOf(x, y, g[i - 1], i)
    <3>1. i - 1 \in z .. Limbs
      BY <1>1, <1>5, <2>2
    <3>2. g[i - 1] \in Wide
      BY <3>1
    <3>3. QED
      BY <1>3, <2>2, <3>2
  <2>3. QED
    BY <1>5, <2>1, <2>2
<1>8. Product(x, y) = rows[Limbs]
  BY DEF Product, RowOf, none
<1>9. rows = Body(rows)
  <2> HIDE DEF Body
  <2>1. QED
    BY <1>7
<1> HIDE DEF rows
<1>10. rows[0] = none /\ \A i \in 1 .. Limbs : rows[i] = RowOf(x, y, rows[i - 1], i)
  <2>1. 0 \in 0 .. Limbs /\ \A i \in 1 .. Limbs : i \in 0 .. Limbs /\ i # 0
    BY <1>1
  <2>2. \A i \in 0 .. Limbs : rows[i] = IF i = 0 THEN none ELSE RowOf(x, y, rows[i - 1], i)
    BY <1>9
  <2>3. QED
    BY <2>1, <2>2
<1> HIDE DEF Body
<1> DEFINE Clear(i) == \A k \in (i + 1 + Limbs) .. (2 * Limbs) : rows[i][k] = 0
           Right(i) == /\ rows[i] \in Wide
                       /\ Clear(i)
                       /\ Upto(rows[i], 2 * Limbs) = Upto(x, i) * Value(y)
           Good == {i \in Nat : i <= Limbs => Right(i)}
<1>11. Value(y) \in Nat
  BY ValueRange
<1>12. 0 \in Good
  <2>1. \A k \in 1 .. 2 * Limbs : rows[0][k] = 0
    BY <1>10 DEF none
  <2>2. Clear(0)
    <3>1. \A k \in (0 + 1 + Limbs) .. (2 * Limbs) : k \in 1 .. 2 * Limbs
      BY <1>1
    <3>2. QED
      BY <2>1, <3>1
  <2>3. Upto(rows[0], 2 * Limbs) = 0
    <3>1. 2 * Limbs \in Nat
      BY <1>1
    <3>2. QED
      BY <2>1, <3>1, UptoNothing
  <2>4. 0 * Value(y) = 0
    BY <1>11
  <2>5. QED
    BY <1>2, <1>10, <2>2, <2>3, <2>4, UptoZero
<1>13. ASSUME NEW n \in Nat, n \in Good PROVE n + 1 \in Good
  <2> SUFFICES ASSUME n + 1 <= Limbs PROVE Right(n + 1)
    OBVIOUS
  <2> DEFINE i == n + 1
             wide == rows[n]
  <2>1. i \in 1 .. Limbs /\ i - 1 = n /\ n <= Limbs
    BY <1>1
  <2>2. Right(n)
    BY <1>13, <2>1
  <2>3. wide \in Wide /\ (\A k \in (i + Limbs) .. (2 * Limbs) : wide[k] = 0)
    BY <2>2
  <2>4. rows[i] = RowOf(x, y, wide, i)
    BY <1>10, <2>1
  <2> HIDE DEF i, wide, Right, Clear
  <2>5. /\ rows[i] \in Wide
        /\ \A k \in (i + 1 + Limbs) .. (2 * Limbs) : rows[i][k] = 0
        /\ Upto(rows[i], 2 * Limbs) = Upto(wide, 2 * Limbs) + x[i] * (Weight[i - 1] * Value(y))
    <3> DEFINE row == RowOf(x, y, wide, i)
    <3>1. row \in Wide
      BY <2>1, <2>3, RowIsExact
    <3>2. /\ \A k \in (i + 1 + Limbs) .. (2 * Limbs) : row[k] = 0
          /\ Upto(row, 2 * Limbs) = Upto(wide, 2 * Limbs) + x[i] * (Weight[i - 1] * Value(y))
      BY ONLY <2>1, <2>3, x \in Number, y \in Number, RowIsExact
    <3> HIDE DEF row
    <3>3. rows[i] = row
      BY <2>4 DEF row
    <3>4. QED
      BY <3>1, <3>2, <3>3
  <2>6. Upto(x, i) = Upto(x, n) + x[i] * Weight[n]
    <3>1. \A k \in 1 .. (n + 1) : x[k] \in Int
      <4>1. \A k \in 1 .. (n + 1) : k \in 1 .. Limbs
        BY <1>1, <2>1 DEF i
      <4>2. QED
        BY <4>1, NumberLimbs
    <3>2. QED
      BY <3>1, UptoNext DEF i
  <2> DEFINE u == Upto(x, n)
             xi == x[i]
             w == Weight[n]
             v == Value(y)
  <2>7. u \in Int /\ xi \in Int /\ w \in Int /\ v \in Int
    <3>1. \A k \in 1 .. n : x[k] \in Int
      <4>1. \A k \in 1 .. n : k \in 1 .. Limbs
        BY <1>1, <2>1
      <4>2. QED
        BY <4>1, NumberLimbs
    <3>2. Upto(x, n) \in Int
      BY <3>1, UptoInt
    <3>3. QED
      <4>1. xi \in Int
        BY <2>1, NumberLimbs
      <4>2. w \in Int
        BY WeightDefined
      <4>3. QED
        BY <1>11, <3>2, <4>1, <4>2
  <2>8. Upto(wide, 2 * Limbs) = u * v
    BY <2>2 DEF Right, wide
  <2>9. u * v + xi * (w * v) = (u + xi * w) * v
    <3> HIDE DEF u, xi, w, v
    <3>1. QED
      BY <2>7
  <2>10. Upto(rows[i], 2 * Limbs) = Upto(x, i) * v
    BY <2>1, <2>5, <2>6, <2>8, <2>9
  <2>11. QED
    BY <2>5, <2>10 DEF Right, Clear, i
<1>14. Nat \subseteq Good
  <2> HIDE DEF Good
  <2>1. QED
    BY <1>12, <1>13, NatSetInduction
<1>15. Right(Limbs)
  BY <1>1, <1>14
<1>16. QED
  BY <1>8, <1>15, ValueIsUpto

\* The product modulo P, whatever the two numbers are.
LEMMA TimesIsExact ==
  ASSUME NEW x \in Number, NEW y \in Number
  PROVE  Times(x, y) \in Number /\ Value(Times(x, y)) = (Value(x) * Value(y)) % P
<1>1. Limbs \in Nat /\ Base \in Nat /\ Base > 2 /\ Size = Weight[Limbs]
  BY FieldSizes
<1> DEFINE wide == Product(x, y)
           t == 2 * Limbs
           low == [i \in 1 .. Limbs |-> wide[i]]
           high == [i \in 1 .. Limbs |-> wide[i + Limbs]]
<1>2. wide \in Wide /\ Upto(wide, t) = Value(x) * Value(y)
  BY ProductIsExact
<1>3. Times(x, y) = FoldHalf(low, high)
  BY DEF Times
<1> HIDE DEF wide
<1>4. \A i \in 1 .. t : wide[i] \in 0 .. (Base - 1) /\ wide[i] \in Int
  BY <1>1, <1>2 DEF Wide
<1>5. low \in Number /\ high \in Number
  <2>1. \A i \in 1 .. Limbs : i \in 1 .. t /\ i + Limbs \in 1 .. t
    BY <1>1
  <2>2. \A i \in 1 .. Limbs : wide[i] \in 0 .. (Base - 1) /\ wide[i + Limbs] \in 0 .. (Base - 1)
    BY <1>4, <2>1
  <2>3. QED
    BY <2>2 DEF Number
<1>6. Upto(wide, t) = Upto(wide, Limbs) + Weight[Limbs] * Upto(high, Limbs)
  <2>1. t \in Nat /\ Limbs \in 0 .. t /\ t - Limbs = Limbs
    BY <1>1
  <2>2. Upto(wide, t) = Upto(wide, Limbs)
                        + Weight[Limbs] * Upto([i \in 1 .. (t - Limbs) |-> wide[i + Limbs]], t - Limbs)
    <3>1. \A i \in 1 .. t : wide[i] \in Int
      BY <1>4
    <3> HIDE DEF t
    <3>2. QED
      BY ONLY <2>1, <3>1, UptoSplit
  <2>3. QED
    BY <2>1, <2>2
<1>7. Upto(wide, Limbs) = Upto(low, Limbs)
  <2>1. \A i \in 1 .. Limbs : i \in 1 .. t
    BY <1>1
  <2>2. \A i \in 1 .. Limbs : wide[i] \in Int /\ low[i] = wide[i]
    BY <1>4, <2>1
  <2> HIDE DEF low
  <2>3. QED
    BY <1>1, <2>2, UptoSame
<1> HIDE DEF low, high
<1>8. Value(x) * Value(y) = Value(low) + Size * Value(high)
  BY <1>1, <1>2, <1>5, <1>6, <1>7, ValueIsUpto
<1>9. QED
  BY <1>3, <1>5, <1>8, FoldHalfIsExact

-----------------------------------------------------------------------------
(* Quotients *)

\* The state of Euclid that the next call of it gets.
EuclidStep(s) ==
  LET q == s.rOld \div s.r
  IN  [rOld |-> s.r, r |-> s.rOld - q * s.r,
       tOld |-> s.t, t |-> (s.tOld + (Size - ((q * s.t) % Size))) % Size]

\* A step of Euclid stays within the fixed width.
LEMMA EuclidStepType ==
  ASSUME NEW s \in EuclidStates, s.r # 0
  PROVE  /\ EuclidStep(s) \in EuclidStates
         /\ s.rOld \div s.r \in Nat
         /\ EuclidStep(s).r = s.rOld - (s.rOld \div s.r) * s.r
         /\ EuclidStep(s).r < s.r
<1>1. Size \in Nat \ {0}
  BY FieldSizes
<1>2. /\ s.rOld \in 0 .. (Size - 1) /\ s.r \in 0 .. (Size - 1)
      /\ s.tOld \in 0 .. (Size - 1) /\ s.t \in 0 .. (Size - 1)
  BY DEF EuclidStates, FixedWidth
<1> DEFINE a == s.rOld
           b == s.r
           q == a \div b
           k == q * s.t
           z == s.tOld + (Size - (k % Size))
<1>3. a \in Nat /\ b \in Nat \ {0} /\ s.t \in Nat /\ s.tOld \in Nat
  BY <1>1, <1>2
<1>4. a = b * q + (a % b) /\ a % b \in 0 .. (b - 1) /\ q \in 0 .. a
  <2> HIDE DEF a, b
  <2>1. a \in Int
    BY <1>3
  <2>2. a = b * (a \div b) + (a % b) /\ a % b \in 0 .. (b - 1)
    BY ONLY <1>3, <2>1, DivMod
  <2>3. a \div b \in 0 .. a
    BY ONLY <1>3, DivSmall
  <2>4. QED
    BY <2>2, <2>3
<1>5. q \in Nat
  <2> HIDE DEF a, q
  <2>1. QED
    BY <1>3, <1>4
<1>6. a - q * b = a % b /\ a % b \in 0 .. (Size - 1) /\ a % b < b
  <2> DEFINE c == a % b
             p == b * q
  <2>1. a = p + c /\ c \in 0 .. (b - 1) /\ p = q * b /\ p \in Int /\ b \in 0 .. (Size - 1)
    <3>1. b \in 0 .. (Size - 1)
      BY <1>2
    <3>2. a \in Nat /\ b \in Nat /\ q \in Nat
      BY <1>3, <1>5
    <3>3. a = b * q + c /\ c \in 0 .. (b - 1)
      BY <1>4
    <3> HIDE DEF a, b, c, q
    <3>4. b * q = q * b /\ b * q \in Int
      BY <3>2
    <3>5. QED
      BY <3>1, <3>3, <3>4
  <2> HIDE DEF a, b, c, p, q
  <2>2. a - p = c /\ c \in 0 .. (Size - 1) /\ c < b
    BY <1>1, <1>3, <2>1
  <2>3. QED
    BY <2>1, <2>2 DEF c
<1>7. z \in Int
  <2>1. k \in Int
    BY <1>3, <1>5
  <2> HIDE DEF k
  <2>2. k % Size \in 0 .. (Size - 1)
    BY <1>1, <2>1, DivMod
  <2>3. QED
    BY <1>1, <1>3, <2>2
<1>8. z % Size \in 0 .. (Size - 1)
  <2> HIDE DEF z
  <2>1. QED
    BY <1>1, <1>7, DivMod
<1>9. EuclidStep(s) = [rOld |-> b, r |-> a - q * b, tOld |-> s.t, t |-> z % Size]
  BY DEF EuclidStep
<1> HIDE DEF a, b, q, z
<1>10. EuclidStep(s) \in EuclidStates
  BY <1>2, <1>6, <1>8, <1>9 DEF EuclidStates, FixedWidth, b
<1>11. EuclidStep(s).r = a - q * b
  BY <1>9
<1>12. QED
  BY <1>5, <1>6, <1>10, <1>11 DEF a, b, q

\* Euclid is the function its recursion describes, as the remainder shrinks.
LEMMA EuclidDefined ==
  \A s \in EuclidStates :
    Euclid[s] = IF s.r = 0 THEN [gcd |-> s.rOld, coefficient |-> s.tOld] ELSE Euclid[EuclidStep(s)]
<1> DEFINE S == EuclidStates
           V == [gcd : FixedWidth, coefficient : FixedWidth]
           done == {s \in S : s.r = 0}
           next == [s \in S |-> IF s.r = 0 THEN s ELSE EuclidStep(s)]
           value == [s \in S |-> [gcd |-> s.rOld, coefficient |-> s.tOld]]
           Body(f) == [s \in S |-> IF s.r = 0 THEN [gcd |-> s.rOld, coefficient |-> s.tOld]
                                   ELSE f[EuclidStep(s)]]
<1>1. next \in [S -> S]
  <2>1. \A s \in S : (IF s.r = 0 THEN s ELSE EuclidStep(s)) \in S
    BY EuclidStepType
  <2> HIDE DEF S
  <2>2. QED
    BY <2>1
<1>2. value \in [S -> V]
  BY DEF EuclidStates
<1>3. done \in SUBSET S
  OBVIOUS
<1>4. PICK f \in [S -> V] : GoesOn(f, S, done, next, value)
  <2> HIDE DEF S, V, done, next, value
  <2>1. QED
    BY <1>1, <1>2, <1>3, TailRecursionExists
<1>5. f = Body(f)
  <2>1. \A s \in S : /\ s \in done <=> s.r = 0
                     /\ s.r # 0 => next[s] = EuclidStep(s)
                     /\ value[s] = [gcd |-> s.rOld, coefficient |-> s.tOld]
    OBVIOUS
  <2> HIDE DEF S, V, done, next, value
  <2>2. \A s \in S : f[s] = IF s.r = 0 THEN [gcd |-> s.rOld, coefficient |-> s.tOld]
                            ELSE f[EuclidStep(s)]
    BY <1>4, <2>1 DEF GoesOn
  <2>3. QED
    BY <1>4, <2>2
<1>6. Euclid = CHOOSE g : g = Body(g)
  BY DEF Euclid, EuclidStep, EuclidStates
<1>7. Euclid = Body(Euclid)
  <2> HIDE DEF Body
  <2>1. QED
    BY <1>5, <1>6
<1>8. QED
  BY <1>7

\* The coefficient of a step, from the two before it.
LEMMA CoefficientStep ==
  ASSUME NEW m \in Nat \ {0}, NEW a \in Int, NEW b \in Int, NEW q \in Int
  PROVE  ((a % m) + (m - ((q * (b % m)) % m))) % m = (a - q * b) % m
<1> DEFINE r == b % m
           c == q * b
           d == c % m
           e == a % m
<1>1. r \in Int /\ c \in Int /\ e \in Int
  BY DivMod
<1>2. (q * r) % m = d
  <2>1. ((b % m) * q + 0) % m = (b * q + 0) % m
    BY ModFactor, 0 \in Int
  <2>2. (b % m) * q + 0 = q * r /\ b * q + 0 = q * b
    <3> HIDE DEF r
    <3>1. r * q + 0 = q * r
      BY <1>1
    <3>2. QED
      BY <3>1 DEF r
  <2>3. QED
    BY <2>1, <2>2
<1>3. d \in Int
  <2> HIDE DEF c
  <2>1. QED
    BY <1>1, DivMod
<1>4. (e + m - d) % m = (a - c) % m
  <2> HIDE DEF c
  <2>1. QED
    BY <1>1, ModDifference
<1>5. e + (m - d) = e + m - d
  <2> HIDE DEF e, d
  <2>1. QED
    BY <1>1, <1>3
<1>6. QED
  BY <1>2, <1>4, <1>5

\* A prime that the fixed width holds, as P is, and the order of the group.
PrimeModulus(m) ==
  /\ m \in Nat /\ m > 3 /\ m < Size
  /\ \A d \in 2 .. (m - 1) : m % d # 0

LEMMA PIsPrime == PrimeModulus(P)
BY FieldSizes, FieldAssumption DEF PrimeModulus

\* What the states of Euclid are, begun with m and v: each of the last two
\* remainders is a combination of m and v, its coefficients of v are a and aOld
\* but for their sign, which changes at every step, and these two keep small.
Combines(m, s, v, a, aOld, k, l) ==
  /\ s.r < s.rOld /\ s.rOld <= m
  /\ s.r = 0 => s.rOld < m
  /\ a * s.rOld + aOld * s.r = m /\ 2 * aOld <= m
  /\ \/ /\ s.t = a % Size /\ s.tOld = (-aOld) % Size
        /\ s.r = a * v - k * m /\ s.rOld = l * m - aOld * v
     \/ /\ s.t = (-a) % Size /\ s.tOld = aOld % Size
        /\ s.r = k * m - a * v /\ s.rOld = aOld * v - l * m

\* A step of Euclid keeps Combines.
LEMMA CombinesNext ==
  ASSUME NEW m \in Nat, PrimeModulus(m), NEW s \in EuclidStates, s.r # 0, NEW v \in Nat,
         NEW a \in Nat, NEW aOld \in Nat, NEW k \in Nat, NEW l \in Nat,
         Combines(m, s, v, a, aOld, k, l)
  PROVE  \E q \in Nat : Combines(m, EuclidStep(s), v, aOld + q * a, a, l + q * k, k)
<1>1. m \in Nat /\ Size \in Nat \ {0}
  BY FieldSizes DEF PrimeModulus
<1> DEFINE q == s.rOld \div s.r
           n == EuclidStep(s)
           x == s.rOld
           y == s.r
           b == aOld + q * a
           j == l + q * k
<1>2. n \in EuclidStates /\ q \in Nat /\ n.r = x - q * y /\ n.r < y
  BY EuclidStepType
<1>3. n.rOld = y /\ n.tOld = s.t /\ n.t = (s.tOld + (Size - ((q * s.t) % Size))) % Size
  BY DEF EuclidStep
<1>4. x \in Nat /\ y \in Nat /\ n.r \in Nat /\ y > 0
  BY <1>1, <1>2 DEF EuclidStates, FixedWidth
<1>5. /\ y < x /\ x <= m /\ a * x + aOld * y = m /\ 2 * aOld <= m
      /\ \/ /\ s.t = a % Size /\ s.tOld = (-aOld) % Size
            /\ y = a * v - k * m /\ x = l * m - aOld * v
         \/ /\ s.t = (-a) % Size /\ s.tOld = aOld % Size
            /\ y = k * m - a * v /\ x = aOld * v - l * m
  BY DEF Combines
<1> HIDE DEF n, q, x, y
<1>6. n.r < n.rOld /\ n.rOld <= m /\ n.rOld < m
  BY <1>1, <1>2, <1>3, <1>4, <1>5
<1>7. b * y + a * (x - q * y) = m
  <2>1. (aOld + q * a) * y + a * (x - q * y) = a * x + aOld * y
    BY <1>2, <1>4
  <2>2. QED
    BY <1>5, <2>1
<1>8. 2 * a <= m
  <2>1. x >= 2
    BY <1>4, <1>5
  <2>2. a * 2 <= a * x
    BY <1>4, <2>1
  <2>3. aOld * y \in Nat /\ a * x \in Nat /\ a * 2 = 2 * a
    BY <1>4
  <2>4. QED
    BY <1>1, <1>5, <2>2, <2>3
<1>9. CASE /\ s.t = a % Size /\ s.tOld = (-aOld) % Size
           /\ y = a * v - k * m /\ x = l * m - aOld * v
  <2>1. n.t = (-b) % Size
    <3> DEFINE z == -aOld
               u == -b
    <3>1. z \in Int /\ a \in Int /\ q \in Int
      BY <1>2
    <3>2. z - q * a = u
      <4>1. q * a \in Int
        BY <1>2
      <4>2. QED
        BY <4>1
    <3> HIDE DEF z, u
    <3>3. ((z % Size) + (Size - ((q * (a % Size)) % Size))) % Size = (z - q * a) % Size
      BY <1>1, <3>1, CoefficientStep
    <3>4. QED
      BY <1>3, <1>9, <3>2, <3>3 DEF z, u
  <2>2. x - q * y = j * m - b * v
    <3>1. (l * m - aOld * v) - q * (a * v - k * m) = (l + q * k) * m - (aOld + q * a) * v
      BY <1>1, <1>2
    <3>2. QED
      BY <1>9, <3>1
  <2>3. QED
    BY <1>2, <1>3, <1>6, <1>7, <1>8, <1>9, <2>1, <2>2 DEF Combines, n
<1>10. CASE /\ s.t = (-a) % Size /\ s.tOld = aOld % Size
            /\ y = k * m - a * v /\ x = aOld * v - l * m
  <2>1. n.t = b % Size
    <3> DEFINE z == -a
    <3>1. z \in Int /\ aOld \in Int /\ q \in Int
      BY <1>2
    <3>2. aOld - q * z = b
      BY <1>2
    <3> HIDE DEF z, b
    <3>3. ((aOld % Size) + (Size - ((q * (z % Size)) % Size))) % Size = (aOld - q * z) % Size
      BY <1>1, <3>1, CoefficientStep
    <3>4. QED
      BY <1>3, <1>10, <3>2, <3>3 DEF z
  <2>2. x - q * y = b * v - j * m
    <3>1. (aOld * v - l * m) - q * (k * m - a * v) = (aOld + q * a) * v - (l + q * k) * m
      BY <1>1, <1>2
    <3>2. QED
      BY <1>10, <3>1
  <2>3. QED
    BY <1>2, <1>3, <1>6, <1>7, <1>8, <1>10, <2>1, <2>2 DEF Combines, n
<1>11. QED
  BY <1>5, <1>9, <1>10

\* What Euclid gives is an inverse of v modulo m, once it is corrected.
Inverts(m, last, v) ==
  /\ last.gcd = 1
  /\ Corrected(last.coefficient, m) \in 0 .. (m - 1)
  /\ (Corrected(last.coefficient, m) * v) % m = 1

\* At the end of Euclid the remainder is 1, for m is prime, and its coefficient an inverse.
LEMMA EuclidEnds ==
  ASSUME NEW m \in Nat, PrimeModulus(m), NEW s \in EuclidStates, s.r = 0, NEW v \in Nat,
         NEW a \in Nat, NEW aOld \in Nat, NEW k \in Nat, NEW l \in Nat,
         Combines(m, s, v, a, aOld, k, l)
  PROVE  Inverts(m, [gcd |-> s.rOld, coefficient |-> s.tOld], v)
<1>1. m \in Nat \ {0} /\ Size \in Nat \ {0} /\ m < Size /\ m > 3
  BY FieldSizes DEF PrimeModulus
<1> DEFINE x == s.rOld
           t == s.tOld
           c == Corrected(t, m)
<1>2. x \in Nat
  BY <1>1 DEF EuclidStates, FixedWidth
<1>3. /\ 0 < x /\ x < m /\ a * x + aOld * 0 = m /\ 2 * aOld <= m
      /\ \/ t = (-aOld) % Size /\ x = l * m - aOld * v
         \/ t = aOld % Size /\ x = aOld * v - l * m
  BY DEF Combines
<1> HIDE DEF x
<1>4. x = 1
  <2>1. a * x = m
    BY <1>1, <1>2, <1>3
  <2>2. x = 1 \/ x \in 2 .. (m - 1)
    BY <1>1, <1>2, <1>3
  <2>3. m % x = 0
    <3> DEFINE z == 0
    <3>1. z \in 0 .. (x - 1) /\ x \in Nat \ {0} /\ a \in Int /\ x * a + z = m
      BY <1>2, <1>3, <2>1
    <3> HIDE DEF z
    <3>2. (x * a + z) % x = z
      BY ONLY <3>1, DivModUnique
    <3>3. QED
      BY <3>1, <3>2 DEF z
  <2>4. QED
    BY <2>2, <2>3 DEF PrimeModulus
<1>5. aOld \in 0 .. (m - 1) /\ aOld \in 0 .. (Size - 1)
  BY <1>1, <1>3
<1>6. 1 % m = 1
  <2> DEFINE one == 1
  <2>1. one \in 0 .. (m - 1)
    BY <1>1
  <2> HIDE DEF one
  <2>2. one % m = one
    BY <1>1, <2>1, ModOfSmall
  <2>3. QED
    BY <2>2 DEF one
<1>7. ASSUME NEW w \in Nat, NEW h \in Int, w * v = 1 + h * m PROVE (w * v) % m = 1
  <2> DEFINE one == 1
             u == w * v
  <2>1. one \in Int /\ u \in Int /\ u = one + h * m
    BY <1>7
  <2> HIDE DEF one, u
  <2>2. u % m = one % m
    BY <1>1, <2>1, ModShift
  <2>3. QED
    BY <1>6, <2>2 DEF one, u
<1>8. CASE t = (-aOld) % Size /\ x = l * m - aOld * v
  <2>1. aOld # 0
    <3> SUFFICES ASSUME aOld = 0 PROVE FALSE
      OBVIOUS
    <3>1. l * m = 1
      <4>1. aOld * v = 0 /\ l * m \in Int
        BY <1>1
      <4>2. QED
        BY <1>4, <1>8, <4>1
    <3>2. l = 0 \/ l * m >= m
      BY <1>1
    <3>3. QED
      BY <1>1, <3>1, <3>2
  <2>2. t = Size - aOld
    <3> DEFINE z == -aOld
    <3>1. z \in (-Size) .. (-1)
      BY <1>1, <1>5, <2>1
    <3> HIDE DEF z
    <3>2. z % Size = Size + z
      BY <1>1, <3>1, ModOfNegative
    <3>3. QED
      BY <1>1, <1>8, <3>2 DEF z
  <2>3. c = m - aOld
    <3>1. 2 * t >= Size
      BY <1>1, <1>3, <2>2
    <3>2. c = (t + m) % Size
      BY <3>1 DEF Corrected
    <3> DEFINE d == m - aOld
               one == 1
    <3>3. d \in 0 .. (Size - 1) /\ t + m = Size * one + d /\ one \in Int
      BY <1>1, <1>5, <2>2
    <3> HIDE DEF d, one
    <3>4. (Size * one + d) % Size = d
      BY <1>1, <3>3, DivModUnique
    <3>5. QED
      BY <3>2, <3>3, <3>4 DEF d
  <2>4. c \in 0 .. (m - 1)
    BY <1>1, <1>5, <2>1, <2>3
  <2> HIDE DEF c
  <2> DEFINE h == v - l
  <2>5. h \in Int /\ c * v = 1 + h * m
    <3>1. (m - aOld) * v = m * v - aOld * v /\ (v - l) * m = m * v - l * m
      BY <1>1
    <3> DEFINE p1 == m * v
               p2 == aOld * v
               p3 == l * m
    <3>2. p1 \in Int /\ p2 \in Int /\ p3 \in Int
      BY <1>1
    <3>3. c * v = p1 - p2 /\ h * m = p1 - p3 /\ 1 = p3 - p2
      BY <1>4, <1>8, <2>3, <3>1
    <3> HIDE DEF p1, p2, p3
    <3>4. c * v = 1 + h * m
      BY <3>2, <3>3
    <3>5. QED
      BY <3>4
  <2> HIDE DEF h
  <2>6. (c * v) % m = 1
    <3>1. c \in Nat
      BY <1>1, <2>4
    <3>2. QED
      BY ONLY <1>7, <2>5, <3>1
  <2>7. QED
    BY <1>4, <2>4, <2>6 DEF Inverts, c, x
<1>9. CASE t = aOld % Size /\ x = aOld * v - l * m
  <2>1. t = aOld
    BY <1>1, <1>5, <1>9, ModOfSmall
  <2>2. c = aOld
    <3>1. ~(2 * t >= Size)
      BY <1>1, <1>3, <2>1
    <3>2. QED
      BY <2>1, <3>1 DEF Corrected
  <2> HIDE DEF c
  <2>3. aOld * v = 1 + l * m
    <3>1. aOld * v \in Int /\ l * m \in Int
      BY <1>1
    <3>2. QED
      BY <1>4, <1>9, <3>1
  <2>4. (aOld * v) % m = 1
    BY ONLY <1>7, <2>3, aOld \in Nat, l \in Nat, l \in Int
  <2>5. QED
    BY <1>4, <1>5, <2>2, <2>4 DEF Inverts, c, x
<1>10. QED
  BY <1>3, <1>8, <1>9

\* What is true at the end of Euclid is true of where it began.
LEMMA EuclidIsExact ==
  ASSUME NEW m \in Nat, PrimeModulus(m), NEW v \in Nat, NEW s \in EuclidStates,
         NEW a \in Nat, NEW aOld \in Nat, NEW k \in Nat, NEW l \in Nat,
         Combines(m, s, v, a, aOld, k, l)
  PROVE  Inverts(m, Euclid[s], v)
<1> DEFINE Has(u) == \E b, bOld, i, j \in Nat : Combines(m, u, v, b, bOld, i, j)
           Good == {n \in Nat : \A u \in EuclidStates : u.r <= n /\ Has(u) => Inverts(m, Euclid[u], v)}
<1>1. \A u \in EuclidStates : u.r \in Nat
  BY FieldSizes DEF EuclidStates, FixedWidth
<1>2. ASSUME NEW u \in EuclidStates, Has(u), u.r = 0 PROVE Inverts(m, Euclid[u], v)
  <2>1. Euclid[u] = [gcd |-> u.rOld, coefficient |-> u.tOld]
    BY <1>2, EuclidDefined
  <2>2. PICK b, bOld, i, j \in Nat : Combines(m, u, v, b, bOld, i, j)
    BY <1>2
  <2>3. PrimeModulus(m) /\ m \in Nat
    OBVIOUS
  <2>4. Inverts(m, [gcd |-> u.rOld, coefficient |-> u.tOld], v)
    BY ONLY <1>2, <2>2, <2>3, EuclidEnds, v \in Nat
  <2>5. QED
    BY <2>1, <2>4
<1>3. ASSUME NEW u \in EuclidStates, Has(u), u.r # 0
      PROVE  /\ EuclidStep(u) \in EuclidStates /\ Has(EuclidStep(u)) /\ EuclidStep(u).r < u.r
             /\ Euclid[u] = Euclid[EuclidStep(u)]
  <2>1. Euclid[u] = Euclid[EuclidStep(u)]
    BY <1>3, EuclidDefined
  <2>2. PICK b, bOld, i, j \in Nat : Combines(m, u, v, b, bOld, i, j)
    BY <1>3
  <2>3. PICK q \in Nat : Combines(m, EuclidStep(u), v, bOld + q * b, b, j + q * i, i)
    BY <1>3, <2>2, CombinesNext
  <2>4. bOld + q * b \in Nat /\ j + q * i \in Nat
    <3>1. q * b \in Nat /\ q * i \in Nat
      OBVIOUS
    <3>2. QED
      BY <3>1
  <2>5. Has(EuclidStep(u))
    BY <2>3, <2>4
  <2>6. QED
    BY <1>3, <2>1, <2>5, EuclidStepType
<1>4. Has(s)
  OBVIOUS
<1> HIDE DEF Has
<1>5. 0 \in Good
  <2>1. \A u \in EuclidStates : u.r <= 0 => u.r = 0
    BY <1>1
  <2>2. QED
    BY <1>2, <2>1
<1>6. ASSUME NEW n \in Nat, n \in Good PROVE n + 1 \in Good
  <2> SUFFICES ASSUME NEW u \in EuclidStates, u.r <= n + 1, Has(u) PROVE Inverts(m, Euclid[u], v)
    OBVIOUS
  <2>1. CASE u.r = 0
    BY <1>2, <2>1
  <2>2. CASE u.r # 0
    <3>1. /\ EuclidStep(u) \in EuclidStates /\ Has(EuclidStep(u)) /\ EuclidStep(u).r < u.r
          /\ Euclid[u] = Euclid[EuclidStep(u)]
      BY <1>3, <2>2
    <3>2. EuclidStep(u).r <= n
      BY <1>1, <3>1
    <3>3. QED
      BY <1>6, <3>1, <3>2
  <2>3. QED
    BY <2>1, <2>2
<1>7. Nat \subseteq Good
  <2> HIDE DEF Good
  <2>1. QED
    BY <1>5, <1>6, NatSetInduction
<1>8. s.r \in Nat /\ s.r <= s.r
  BY <1>1
<1>9. QED
  BY <1>4, <1>7, <1>8

\* m is prime: every number below it but zero has an inverse.
LEMMA ModInverseIsExact ==
  ASSUME NEW m \in Nat, PrimeModulus(m), NEW v \in 0 .. (m - 1)
  PROVE  /\ ModInverse(v, m) \in 0 .. (m - 1)
         /\ IF v = 0 THEN ModInverse(v, m) = 0 ELSE (ModInverse(v, m) * v) % m = 1
<1>1. m \in Nat \ {0} /\ Size \in Nat \ {0} /\ m < Size /\ m > 3
  BY FieldSizes DEF PrimeModulus
<1> DEFINE first == [rOld |-> m, r |-> v, tOld |-> 0, t |-> 1]
<1>2. first \in EuclidStates
  BY <1>1 DEF EuclidStates, FixedWidth
<1>3. first.rOld = m /\ first.r = v /\ first.tOld = 0 /\ first.t = 1
  OBVIOUS
<1> DEFINE last == Euclid[first]
<1>4. ModInverse(v, m) = IF last.gcd = 1 THEN Corrected(last.coefficient, m) ELSE 0
  BY DEF ModInverse
<1> HIDE DEF first
<1>5. CASE v = 0
  <2>1. last = [gcd |-> m, coefficient |-> 0]
    BY <1>2, <1>3, <1>5, EuclidDefined
  <2>2. last.gcd # 1
    BY <1>1, <2>1
  <2>3. QED
    BY <1>1, <1>4, <1>5, <2>2
<1>6. CASE v # 0
  <2>1. Combines(m, first, v, 1, 0, 0, 1)
    <3> DEFINE one == 1
               z == 0
    <3>1. one \in 0 .. (Size - 1) /\ z \in 0 .. (Size - 1) /\ one = 1 /\ z = 0 /\ z \in Int /\ one \in Int
      BY <1>1
    <3> HIDE DEF one, z
    <3>2. -z = z
      <4> DEFINE minus == -z
      <4>1. z + minus = 0 /\ minus \in Int
        <5>1. z \in Int
          BY <3>1
        <5>2. QED
          BY ONLY <5>1
      <4> HIDE DEF minus
      <4>2. minus = z
        BY <3>1, <4>1
      <4>3. QED
        BY <4>2 DEF minus
    <3>3. one % Size = one /\ z % Size = z
      BY <1>1, <3>1, ModOfSmall
    <3>4. one = one % Size /\ z = (-z) % Size
      BY <3>2, <3>3
    <3>5. /\ v \in Int /\ v = one * v - z * m /\ m = one * m - z * v /\ one * m + z * v = m
          /\ 2 * z <= m /\ v < m /\ v # 0 /\ m <= m
      BY <1>1, <1>6, <3>1
    <3>6. first.t = one % Size /\ first.tOld = (-z) % Size
      BY <1>3, <3>1, <3>4
    <3>7. /\ first.r = one * v - z * m /\ first.rOld = one * m - z * v
          /\ one * first.rOld + z * first.r = m
          /\ first.r < first.rOld /\ first.rOld <= m /\ first.r # 0
      BY <1>3, <3>5
    <3>8. Combines(m, first, v, one, z, z, one)
      BY ONLY <3>5, <3>6, <3>7 DEF Combines
    <3>9. QED
      BY <3>8 DEF one, z
  <2>2. v \in Nat /\ 1 \in Nat /\ 0 \in Nat
    BY <1>1
  <2>3. Inverts(m, last, v)
    BY <1>2, <2>1, <2>2, EuclidIsExact
  <2> HIDE DEF last
  <2>4. QED
    BY <1>4, <1>6, <2>3 DEF Inverts
<1>7. QED
  BY <1>5, <1>6

\* operator/ gives what times y is x modulo P, and zero if y is zero.
LEMMA QuotientIsExact ==
  ASSUME NEW x \in Number, NEW y \in Number
  PROVE  /\ Quotient(x, y) \in Number /\ Value(Quotient(x, y)) \in 0 .. (P - 1)
         /\ IF Value(y) % P = 0 THEN Value(Quotient(x, y)) = 0
            ELSE (Value(Quotient(x, y)) * (Value(y) % P)) % P = Value(x) % P
<1>1. P \in Nat \ {0} /\ Size \in Nat \ {0} /\ Size = P + Fold /\ Fold \in Nat
  BY FieldSizes
<1> DEFINE v == Value(y) % P
           i == ModInverse(v, P)
           r == Reduced(i)
           z == LimbsOf(r)
           xv == Value(x)
<1>2. Reduced(Value(y)) = v /\ v \in 0 .. (P - 1)
  BY ValueRange, ReducedValue
<1>3. Quotient(x, y) = Times(x, z)
  BY <1>2 DEF Quotient
<1> HIDE DEF v
<1>4. i \in 0 .. (P - 1) /\ IF v = 0 THEN i = 0 ELSE (i * v) % P = 1
  BY <1>1, <1>2, ModInverseIsExact, PIsPrime
<1>5. i \in 0 .. (Size - 1) /\ i \in Nat
  <2> HIDE DEF i
  <2>1. QED
    BY <1>1, <1>4
<1>6. r = i
  <2> HIDE DEF i
  <2>1. i % P = i
    BY <1>1, <1>4, ModOfSmall
  <2>2. QED
    BY <1>5, <2>1, ReducedValue
<1>7. z \in Number /\ Value(z) = i
  <2> HIDE DEF i, r
  <2>1. QED
    BY <1>5, <1>6, LimbsOfSmall
<1> HIDE DEF i, z
<1>8. Quotient(x, y) \in Number /\ Value(Quotient(x, y)) = (xv * i) % P
  BY <1>3, <1>7, TimesIsExact
<1>9. xv \in Nat
  BY ValueRange
<1> HIDE DEF xv
<1>10. xv * i \in Int
  BY <1>5, <1>9
<1>11. (xv * i) % P \in 0 .. (P - 1)
  <2> DEFINE u == xv * i
  <2>1. u \in Int
    BY <1>10
  <2> HIDE DEF u
  <2>2. u % P \in 0 .. (P - 1)
    BY <1>1, <2>1, DivMod
  <2>3. QED
    BY <2>2 DEF u
<1>12. CASE v = 0
  <2>1. xv * i = 0
    BY <1>4, <1>9, <1>12
  <2>2. 0 % P = 0
    <3> DEFINE none == 0
    <3>1. none \in 0 .. (P - 1)
      BY <1>1
    <3> HIDE DEF none
    <3>2. none % P = none
      BY <1>1, <3>1, ModOfSmall
    <3>3. QED
      BY <3>2 DEF none
  <2>3. QED
    BY <1>8, <1>11, <1>12, <2>1, <2>2 DEF v
<1>13. CASE v # 0
  <2>1. (i * v) % P = 1
    BY <1>4, <1>13
  <2> DEFINE u == xv * i
             w == i * v
  <2>2. u \in Int /\ w \in Int /\ v \in Int
    BY <1>1, <1>2, <1>5, <1>10
  <2>3. ((u % P) * v + 0) % P = (u * v + 0) % P
    <3> DEFINE z0 == 0
    <3>1. u \in Int /\ v \in Int /\ z0 \in Int /\ P \in Nat \ {0}
      BY <1>1, <2>2
    <3> HIDE DEF u, v, z0
    <3>2. ((u % P) * v + z0) % P = (u * v + z0) % P
      BY <3>1, ModFactor
    <3>3. QED
      BY <3>2 DEF z0
  <2>4. (w % P) * xv = xv /\ (w % P) * xv + 0 = xv
    BY <1>9, <2>1
  <2>5. ((w % P) * xv + 0) % P = (w * xv + 0) % P
    <3> DEFINE z0 == 0
    <3>1. xv \in Int /\ w \in Int /\ z0 \in Int /\ P \in Nat \ {0}
      BY <1>1, <1>9, <2>2
    <3> HIDE DEF w, z0
    <3>2. ((w % P) * xv + z0) % P = (w * xv + z0) % P
      BY ONLY <3>1, ModFactor
    <3>3. QED
      BY <3>2 DEF z0
  <2>6. u * v + 0 = w * xv + 0
    BY <1>5, <1>9, <2>2
  <2>7. (u % P) * v + 0 = (u % P) * v
    <3> HIDE DEF u
    <3>1. u % P \in Int
      BY <1>1, <2>2, DivMod
    <3>2. QED
      BY <2>2, <3>1
  <2>8. ((u % P) * v) % P = xv % P
    BY <2>3, <2>4, <2>5, <2>6, <2>7
  <2>9. QED
    BY <1>8, <1>11, <1>13, <2>8 DEF v, xv
<1>14. QED
  BY <1>12, <1>13

-----------------------------------------------------------------------------
(* What every operation leaves behind *)

\* What is reduced stays as it is.
LEMMA ReducedTwice == ASSUME NEW a \in Int PROVE (a % P) % P = a % P /\ a % P \in 0 .. (P - 1)
<1>1. P \in Nat \ {0}
  BY FieldSizes
<1> DEFINE r == a % P
<1>2. r \in 0 .. (P - 1)
  BY <1>1, DivMod
<1> HIDE DEF r
<1>3. r % P = r
  BY <1>1, <1>2, ModOfSmall
<1>4. QED
  BY <1>2, <1>3 DEF r

\* What a field element is made from is below P.
LEMMA InputIsReduced ==
  ASSUME NEW w \in 0 .. (P - 1)
  PROVE  LimbsOf(w) \in Number /\ Value(LimbsOf(w)) < P
<1>1. w \in 0 .. (Size - 1) /\ w < P
  BY FieldSizes
<1>2. QED
  BY <1>1, LimbsOfSmall

\* What an operation leaves behind: Number operands and a Number result, the
\* right one, and below P if it is a product or a quotient.
Sound == FieldTypeOK /\ FieldOperationsAreExact /\ ProductsAreReduced

\* operator+
LEMMA AddIsSound ==
  ASSUME FieldTypeOK, NEW y \in Number, Value(y) < P, Add(y)
  PROVE  Sound'
<1>0. result \in Number
  BY DEF FieldTypeOK
<1>1. result \in Number /\ P \in Nat \ {0}
  BY <1>0, FieldSizes
<1>2. op' = "+" /\ lhs' = result /\ rhs' = y /\ result' = Plus(result, y)
  BY DEF Add, Show
<1>3. /\ Plus(result, y) \in Number
      /\ Value(Plus(result, y)) % P = (Value(result) + Value(y)) % P
  BY <1>1, PlusIsExact
<1>4. ((Value(result) % P) + (Value(y) % P)) % P = (Value(result) + Value(y)) % P
  <2> DEFINE a == Value(result)
             b == Value(y)
  <2>1. a \in Int /\ b \in Int
    BY <1>1, ValueRange
  <2> HIDE DEF a, b
  <2>2. ((a % P) + (b % P)) % P = (a + b) % P
    BY ONLY <1>1, <2>1, ModSum
  <2>3. QED
    BY <2>2 DEF a, b
<1>5. Exact'
  BY <1>2, <1>3, <1>4 DEF Exact
<1>6. FieldTypeOK'
  BY <1>1, <1>2, <1>3 DEF FieldTypeOK
<1>7. QED
  BY <1>2, <1>5, <1>6 DEF Sound, FieldOperationsAreExact, ProductsAreReduced

\* operator-, with the case in which it loses a borrow
LEMMA SubtractIsSound ==
  ASSUME FieldTypeOK, NEW y \in Number, Value(y) < P, Subtract(y)
  PROVE  Sound'
<1>0. result \in Number
  BY DEF FieldTypeOK
<1>1. result \in Number /\ P \in Nat \ {0}
  BY <1>0, FieldSizes
<1>2. op' = "-" /\ lhs' = result /\ rhs' = y /\ result' = Minus(result, y)
  BY DEF Subtract, Show
<1>3. /\ Minus(result, y) \in Number
      /\ ~LosesBorrow(result, y) => Value(Minus(result, y)) % P = (Value(result) - Value(y)) % P
  BY <1>1, MinusIsExact
<1>4. ((Value(result) % P) + P - (Value(y) % P)) % P = (Value(result) - Value(y)) % P
  <2> DEFINE a == Value(result)
             b == Value(y)
  <2>1. a \in Int /\ b \in Int
    BY <1>1, ValueRange
  <2> HIDE DEF a, b
  <2>2. ((a % P) + P - (b % P)) % P = (a - b) % P
    BY ONLY <1>1, <2>1, ModDifference
  <2>3. QED
    BY <2>2 DEF a, b
<1>5. CASE LosesBorrow(result, y)
  <2>1. op' = "-" /\ LosesBorrow(lhs', rhs')
    BY <1>2, <1>5
  <2>2. FieldOperationsAreExact'
    BY <2>1 DEF FieldOperationsAreExact
  <2>3. FieldTypeOK'
    BY <1>1, <1>2, <1>3 DEF FieldTypeOK
  <2>4. QED
    BY <1>2, <2>2, <2>3 DEF Sound, ProductsAreReduced
<1>6. CASE ~LosesBorrow(result, y)
  <2>1. Exact'
    BY <1>2, <1>3, <1>4, <1>6 DEF Exact
  <2>2. FieldTypeOK'
    BY <1>1, <1>2, <1>3 DEF FieldTypeOK
  <2>3. QED
    BY <1>2, <2>1, <2>2 DEF Sound, FieldOperationsAreExact, ProductsAreReduced
<1>7. QED
  BY <1>5, <1>6

Multiplied == {"*", "* int"}

\* A product below P and right modulo P is what the code shows for one.
LEMMA ProductIsSound ==
  ASSUME FieldTypeOK, NEW o \in Multiplied, NEW y \in Number, NEW z \in Number,
         Value(z) = (Value(result) * Value(y)) % P, Show(o, y, z)
  PROVE  Sound'
<1>0. result \in Number
  BY DEF FieldTypeOK
<1>1. result \in Number /\ P \in Nat \ {0}
  BY <1>0, FieldSizes
<1>2. op' = o /\ lhs' = result /\ rhs' = y /\ result' = z
  BY DEF Show
<1> DEFINE a == Value(result)
           b == Value(y)
           c == a * b
<1>3. a \in Int /\ b \in Int
  <2>1. a \in Nat /\ b \in Nat
    BY <1>1, ValueRange
  <2> HIDE DEF a, b
  <2>2. QED
    BY <2>1
<1>4. c % P < P /\ (c % P) % P = ((a % P) * (b % P)) % P
  <2> HIDE DEF a, b
  <2>1. ((a % P) * (b % P)) % P = (a * b) % P
    BY ONLY <1>1, <1>3, ModProduct
  <2>2. c \in Int
    BY <1>3
  <2>3. c % P \in 0 .. (P - 1) /\ (c % P) % P = c % P
    <3> HIDE DEF c
    <3>1. QED
      BY <2>2, ReducedTwice
  <2>4. c % P < P
    <3> DEFINE r == c % P
    <3>1. r \in 0 .. (P - 1)
      BY <2>3
    <3> HIDE DEF r
    <3>2. r < P
      BY ONLY <3>1, <1>1
    <3>3. QED
      BY <3>2 DEF r
  <2>5. QED
    BY <2>1, <2>3, <2>4
<1>5. Value(z) < P /\ Value(z) % P = ((Value(result) % P) * (Value(y) % P)) % P
  BY <1>4 DEF a, b, c
<1>6. Exact'
  BY <1>2, <1>5 DEF Exact, Multiplied
<1>7. FieldTypeOK'
  BY <1>1, <1>2 DEF FieldTypeOK, Multiplied
<1>8. ProductsAreReduced'
  BY <1>2, <1>5 DEF ProductsAreReduced
<1>9. QED
  BY <1>6, <1>7, <1>8 DEF Sound, FieldOperationsAreExact

\* operator/
LEMMA DivideIsSound ==
  ASSUME FieldTypeOK, NEW y \in Number, Divide(y)
  PROVE  Sound'
<1>0. result \in Number
  BY DEF FieldTypeOK
<1>1. result \in Number /\ P \in Nat \ {0}
  BY <1>0, FieldSizes
<1> DEFINE z == Quotient(result, y)
<1>2. op' = "/" /\ lhs' = result /\ rhs' = y /\ result' = z
  BY DEF Divide, Show
<1>3. /\ z \in Number /\ Value(z) \in 0 .. (P - 1)
      /\ IF Value(y) % P = 0 THEN Value(z) = 0
         ELSE (Value(z) * (Value(y) % P)) % P = Value(result) % P
  BY <1>1, QuotientIsExact
<1> HIDE DEF z
<1>4. Value(z) % P = Value(z) /\ Value(z) < P
  <2> DEFINE v == Value(z)
  <2>1. v \in 0 .. (P - 1)
    BY <1>3
  <2> HIDE DEF v
  <2>2. v % P = v /\ v < P
    BY <1>1, <2>1, ModOfSmall
  <2>3. QED
    BY <2>2 DEF v
<1>5. Exact'
  BY <1>2, <1>3, <1>4 DEF Exact
<1>6. FieldTypeOK'
  BY <1>1, <1>2, <1>3 DEF FieldTypeOK
<1>7. ProductsAreReduced'
  BY <1>2, <1>4 DEF ProductsAreReduced
<1>8. QED
  BY <1>5, <1>6, <1>7 DEF Sound, FieldOperationsAreExact

\* the negation, with the case of a number past P
LEMMA NegateIsSound ==
  ASSUME FieldTypeOK, Negate
  PROVE  Sound'
<1>1. result \in Number
  BY DEF FieldTypeOK
<1>2. op' = "negated" /\ lhs' = result /\ rhs' = result /\ result' = Negated(result)
  BY DEF Negate, Show
<1>3. /\ Negated(result) \in Number
      /\ ~(Value(result) > P) =>
           ((Value(result) % P) + (Value(Negated(result)) % P)) % P = 0
  BY <1>1, NegatedIsExact
<1>4. FieldOperationsAreExact'
  <2>1. CASE Value(result) > P
    <3>1. op' = "negated" /\ Value(lhs') > P
      BY <1>2, <2>1
    <3>2. QED
      BY <3>1 DEF FieldOperationsAreExact
  <2>2. CASE ~(Value(result) > P)
    <3>1. Exact'
      BY <1>2, <1>3, <2>2 DEF Exact
    <3>2. QED
      BY <3>1 DEF FieldOperationsAreExact
  <2>3. QED
    BY <2>1, <2>2
<1>5. FieldTypeOK'
  BY <1>1, <1>2, <1>3 DEF FieldTypeOK
<1>6. QED
  BY <1>2, <1>4, <1>5 DEF Sound, ProductsAreReduced

\* The zero a calculation begins with is a Number.
LEMMA ZeroIsANumber == LimbsOf(0) \in Number
<1>1. 0 \in 0 .. (P - 1)
  BY FieldSizes
<1>2. QED
  BY <1>1, InputIsReduced

\* ... and sound.
LEMMA InitIsSound == FieldInit => Sound
<1> SUFFICES ASSUME FieldInit PROVE Sound
  OBVIOUS
<1>1. op = "none" /\ lhs = LimbsOf(0) /\ rhs = LimbsOf(0) /\ result = LimbsOf(0)
  BY DEF FieldInit
<1>2. FieldTypeOK
  BY <1>1, ZeroIsANumber DEF FieldTypeOK
<1>3. Exact
  BY <1>1 DEF Exact
<1>4. QED
  BY <1>1, <1>2, <1>3 DEF Sound, FieldOperationsAreExact, ProductsAreReduced

\* Every operation keeps to it.
LEMMA NextIsSound == Sound /\ [FieldNext]_fieldVars => Sound'
<1> SUFFICES ASSUME Sound, [FieldNext]_fieldVars PROVE Sound'
  OBVIOUS
<1>1. FieldTypeOK /\ result \in Number
  BY DEF Sound, FieldTypeOK
<1>2. ASSUME NEW w \in 0 .. (P - 1),
             \E y \in {LimbsOf(w)} : Add(y) \/ Subtract(y) \/ Multiply(y) \/ Divide(y)
      PROVE  Sound'
  <2> DEFINE y == LimbsOf(w)
  <2>1. y \in Number /\ Value(y) < P
    BY InputIsReduced
  <2>2. Add(y) \/ Subtract(y) \/ Multiply(y) \/ Divide(y)
    BY <1>2
  <2> HIDE DEF y
  <2>3. CASE Add(y)
    BY <1>1, <2>1, <2>3, AddIsSound
  <2>4. CASE Subtract(y)
    BY <1>1, <2>1, <2>4, SubtractIsSound
  <2>5. CASE Multiply(y)
    <3> DEFINE z == Times(result, y)
    <3>1. z \in Number /\ Value(z) = (Value(result) * Value(y)) % P
      BY <1>1, <2>1, TimesIsExact
    <3>2. Show("*", y, z)
      BY <2>5 DEF Multiply
    <3> HIDE DEF z
    <3>3. "*" \in Multiplied
      BY DEF Multiplied
    <3>4. QED
      BY <1>1, <2>1, <3>1, <3>2, <3>3, ProductIsSound
  <2>6. CASE Divide(y)
    BY <1>1, <2>1, <2>6, DivideIsSound
  <2>7. QED
    BY <2>2, <2>3, <2>4, <2>5, <2>6
<1>3. ASSUME NEW n \in {2, 3}, MultiplyInt(n) PROVE Sound'
  <2> DEFINE y == LimbsOf(n)
             z == TimesInt(result, n)
  <2>1. y \in Number /\ Value(y) = n
    <3>1. n \in 0 .. (Size - 1)
      BY FieldSizes
    <3>2. QED
      BY <3>1, LimbsOfSmall
  <2>2. z \in Number /\ Value(z) = (Value(result) * n) % P
    BY <1>1, TimesIntIsExact
  <2>3. Show("* int", y, z)
    BY <1>3 DEF MultiplyInt
  <2> HIDE DEF y, z
  <2>4. Value(z) = (Value(result) * Value(y)) % P
    BY <2>1, <2>2
  <2>5. "* int" \in Multiplied
    BY DEF Multiplied
  <2>6. QED
    BY <1>1, <2>1, <2>2, <2>3, <2>4, <2>5, ProductIsSound
<1>4. CASE Negate
  BY <1>1, <1>4, NegateIsSound
<1>5. CASE Keep
  <2>1. op' = "none" /\ lhs' = LimbsOf(0) /\ rhs' = LimbsOf(0) /\ result' = result
    BY <1>5 DEF Keep
  <2>2. FieldTypeOK'
    BY <1>1, <2>1, ZeroIsANumber DEF FieldTypeOK
  <2>3. Exact'
    BY <2>1 DEF Exact
  <2>4. QED
    BY <2>1, <2>2, <2>3 DEF Sound, FieldOperationsAreExact, ProductsAreReduced
<1>6. CASE UNCHANGED fieldVars
  <2>1. op' = op /\ lhs' = lhs /\ rhs' = rhs /\ result' = result
    BY <1>6 DEF fieldVars
  <2>2. QED
    BY <2>1 DEF Sound, FieldTypeOK, FieldOperationsAreExact, Exact, ProductsAreReduced
<1>7. QED
  BY <1>2, <1>3, <1>4, <1>5, <1>6 DEF FieldNext

\* So it holds of every calculation.
LEMMA AlwaysSound == FieldSpec => []Sound
BY InitIsSound, NextIsSound, PTL DEF FieldSpec

\* Every number the field works on has limbs in range, whatever operations went
\* before: carries and borrows leave no limb outside its width.
THEOREM NumbersKeepTheirLimbs == FieldSpec => []FieldTypeOK
<1>1. Sound => FieldTypeOK
  BY DEF Sound
<1>2. QED
  BY <1>1, AlwaysSound, PTL

\* Sums, differences, products, quotients and negations are right modulo P for
\* limbs of any width, any number of them and any prime below Base^Limbs (the
\* operators of Secp256k1Field), but for the two exceptions of operator-.
THEOREM FieldArithmeticIsExact == FieldSpec => []FieldOperationsAreExact
<1>1. Sound => FieldOperationsAreExact
  BY DEF Sound
<1>2. QED
  BY <1>1, AlwaysSound, PTL

\* Folding ends and one subtraction is enough: a product or a quotient is below
\* P (modReduce256k1FromParts).
THEOREM ProductsStayReduced == FieldSpec => []ProductsAreReduced
<1>1. Sound => ProductsAreReduced
  BY DEF Sound
<1>2. QED
  BY <1>1, AlwaysSound, PTL


-----------------------------------------------------------------------------
(* Arithmetic modulo m *)

\* A residue is its own residue.
LEMMA ResidueTwice == ASSUME NEW m \in Nat \ {0}, NEW a \in Int PROVE (a % m) % m = a % m
<1> DEFINE r == a % m
<1>1. r \in 0 .. (m - 1)
  BY DivMod
<1> HIDE DEF r
<1>2. r % m = r
  BY <1>1, ModOfSmall
<1>3. QED
  BY <1>2 DEF r

\* a and b are the same modulo m.
Same(a, b, m) == a % m = b % m

\* Sums of what is the same modulo m are the same.
LEMMA SameSum ==
  ASSUME NEW m \in Nat \ {0}, NEW a \in Int, NEW b \in Int, NEW c \in Int, NEW d \in Int,
         Same(a, b, m), Same(c, d, m)
  PROVE  Same(a + c, b + d, m)
<1>1. (a + c) % m = ((a % m) + (c % m)) % m
  BY ModSum
<1>2. (b + d) % m = ((b % m) + (d % m)) % m
  BY ModSum
<1>3. QED
  BY <1>1, <1>2 DEF Same

\* Differences.
LEMMA SameDifference ==
  ASSUME NEW m \in Nat \ {0}, NEW a \in Int, NEW b \in Int, NEW c \in Int, NEW d \in Int,
         Same(a, b, m), Same(c, d, m)
  PROVE  Same(a - c, b - d, m)
<1>1. (a - c) % m = ((a % m) + m - (c % m)) % m
  BY ModDifference
<1>2. (b - d) % m = ((b % m) + m - (d % m)) % m
  BY ModDifference
<1>3. QED
  BY <1>1, <1>2 DEF Same

\* Products.
LEMMA SameProduct ==
  ASSUME NEW m \in Nat \ {0}, NEW a \in Int, NEW b \in Int, NEW c \in Int, NEW d \in Int,
         Same(a, b, m), Same(c, d, m)
  PROVE  Same(a * c, b * d, m)
<1>1. (a * c) % m = ((a % m) * (c % m)) % m
  BY ModProduct
<1>2. (b * d) % m = ((b % m) * (d % m)) % m
  BY ModProduct
<1>3. QED
  BY <1>1, <1>2 DEF Same

\* Being the same modulo m is an equivalence.
LEMMA SameIsEquivalence ==
  ASSUME NEW m, NEW a, NEW b, NEW c
  PROVE  /\ Same(a, a, m)
         /\ Same(a, b, m) => Same(b, a, m)
         /\ Same(a, b, m) /\ Same(b, c, m) => Same(a, c, m)
BY DEF Same

\* A number is the same as its residue, and as itself with m added.
LEMMA SameAsResidue ==
  ASSUME NEW m \in Nat \ {0}, NEW a \in Int
  PROVE  Same(a % m, a, m) /\ Same(a + m, a, m)
<1>1. Same(a % m, a, m)
  BY ResidueTwice DEF Same
<1> DEFINE one == 1
           b == a + m
<1>2. one \in Int /\ b \in Int /\ b = a + one * m
  OBVIOUS
<1> HIDE DEF one, b
<1>3. b % m = a % m
  BY <1>2, ModShift
<1>4. QED
  BY <1>1, <1>3 DEF Same, b

\* Zero and one are residues.
LEMMA SmallResidues == ASSUME NEW m \in Nat, m > 3 PROVE 0 % m = 0 /\ 1 % m = 1
<1> DEFINE zero == 0
           one == 1
<1>1. zero \in 0 .. (m - 1) /\ one \in 0 .. (m - 1) /\ m \in Nat \ {0}
  OBVIOUS
<1> HIDE DEF zero, one
<1>2. zero % m = zero /\ one % m = one
  BY <1>1, ModOfSmall
<1>3. QED
  BY <1>2 DEF zero, one

\* Modulo a prime, everything but zero has an inverse.
LEMMA InverseModulo ==
  ASSUME NEW m \in Nat, PrimeModulus(m), NEW a \in Int, ~Same(a, 0, m)
  PROVE  \E u \in 0 .. (m - 1) : Same(u * a, 1, m)
<1> DEFINE w == a % m
           u == ModInverse(w, m)
<1>1. m \in Nat \ {0} /\ m > 3
  BY DEF PrimeModulus
<1>2. w \in 0 .. (m - 1) /\ w # 0
  BY <1>1, DivMod, SmallResidues DEF Same
<1>3. Same(w, a, m)
  BY <1>1, SameAsResidue
<1> HIDE DEF w
<1>4. u \in 0 .. (m - 1) /\ (u * w) % m = 1
  BY <1>2, ModInverseIsExact
<1> HIDE DEF u
<1>5. Same(u * w, 1, m)
  BY <1>1, <1>4, SmallResidues DEF Same
<1>6. u \in Int /\ w \in Int /\ m \in Nat \ {0} /\ Same(u, u, m)
  BY <1>1, <1>2, <1>4, SameIsEquivalence
<1>7. Same(u * w, u * a, m)
  BY <1>3, <1>6, SameProduct
<1>8. Same(u * a, 1, m)
  BY <1>5, <1>7 DEF Same
<1>9. QED
  BY <1>4, <1>8

\* Modulo a prime, a factor that is not zero can be left away.
LEMMA SameCancelled ==
  ASSUME NEW m \in Nat, PrimeModulus(m), NEW a \in Int, NEW b \in Int, NEW u \in Int,
         ~Same(u, 0, m), Same(a * u, b * u, m)
  PROVE  Same(a, b, m)
<1>1. m \in Nat \ {0}
  BY DEF PrimeModulus
<1>2. PICK w \in 0 .. (m - 1) : Same(w * u, 1, m)
  BY InverseModulo
<1> DEFINE one == w * u
           unit == 1
           au == a * u
           bu == b * u
<1>3. w \in Int /\ one \in Int /\ unit \in Int /\ au \in Int /\ bu \in Int
  OBVIOUS
<1>4. ASSUME NEW c \in Int PROVE Same((c * u) * w, c, m)
  <2>1. (c * u) * w = c * one /\ c * unit = c
    BY <1>3
  <2>2. Same(one, unit, m) /\ Same(c, c, m)
    BY <1>2, SameIsEquivalence
  <2> HIDE DEF one, unit
  <2>3. Same(c * one, c * unit, m)
    BY <1>1, <1>3, <2>2, SameProduct
  <2>4. QED
    BY <2>1, <2>3
<1>5. Same(au * w, bu * w, m)
  <2>1. Same(au, bu, m) /\ Same(w, w, m)
    BY SameIsEquivalence
  <2> HIDE DEF au, bu
  <2>2. QED
    BY <1>1, <1>3, <2>1, SameProduct
<1>6. Same(au * w, a, m) /\ Same(bu * w, b, m)
  BY <1>4
<1>7. QED
  BY <1>5, <1>6 DEF Same

\* Modulo a prime, a product is zero only if a factor is.
LEMMA ProductZero ==
  ASSUME NEW m \in Nat, PrimeModulus(m), NEW a \in Int, NEW b \in Int, Same(a * b, 0, m)
  PROVE  Same(a, 0, m) \/ Same(b, 0, m)
<1> SUFFICES ASSUME ~Same(b, 0, m) PROVE Same(a, 0, m)
  OBVIOUS
<1> DEFINE zero == 0
<1>1. zero * b = 0 /\ zero \in Int
  OBVIOUS
<1>2. Same(a * b, zero * b, m)
  BY <1>1
<1> HIDE DEF zero
<1>3. Same(a, zero, m)
  BY <1>1, <1>2, SameCancelled
<1>4. QED
  BY <1>3 DEF zero

-----------------------------------------------------------------------------
(* The curve and its group *)

\* N and P are odd primes, and N is more than half of what the width holds.
LEMMA ScalarSizes ==
  /\ N \in Nat /\ P \in Nat /\ Size \in Nat /\ Bits \in Nat
  /\ N > 3 /\ N < P /\ P < Size /\ N < Size /\ 2 * N > Size
  /\ P % 2 = 1 /\ P % 4 = 3 /\ Size <= 2 ^ Bits
  /\ PrimeModulus(N) /\ PrimeModulus(P)
<1>1. /\ N \in 2 .. (P - 1) /\ 2 * N > Size /\ P % 4 = 3 /\ Bits \in Nat /\ Size <= 2 ^ Bits
      /\ \A d \in 2 .. (N - 1) : N % d # 0
  BY Secp256k1Assumption
<1>2. P \in Nat /\ Size \in Nat /\ P > 3 /\ P < Size
  BY FieldSizes
<1>3. P >= 7 /\ P % 2 = 1
  BY <1>1, <1>2
<1>4. N \in Nat /\ N > 3 /\ N < Size
  BY <1>1, <1>2, <1>3
<1>5. PrimeModulus(N)
  BY <1>1, <1>4 DEF PrimeModulus
<1>6. QED
  BY <1>1, <1>2, <1>3, <1>4, <1>5, PIsPrime

\* The points of the curve are its zero and those of the equation.
LEMMA CurvePoints ==
  /\ Infinity \in Curve /\ Infinity.infinity = TRUE /\ Infinity.x = 0
  /\ \A a \in Curve :
       /\ a.infinity \in BOOLEAN /\ a.x \in 0 .. (P - 1) /\ a.y \in 0 .. (P - 1)
       /\ a.infinity => a = Infinity
       /\ ~a.infinity => a = Point(a.x, a.y) /\ (a.y * a.y) % P = (a.x * a.x * a.x + 7) % P
<1>1. Infinity \in Curve /\ Infinity.infinity = TRUE /\ Infinity.x = 0 /\ Infinity.y = 0
  BY DEF Curve, Infinity
<1>2. 0 \in 0 .. (P - 1)
  BY ScalarSizes
<1>3. ASSUME NEW a \in Curve, a # Infinity
      PROVE  /\ a.infinity = FALSE /\ a.x \in 0 .. (P - 1) /\ a.y \in 0 .. (P - 1)
             /\ a = Point(a.x, a.y) /\ (a.y * a.y) % P = (a.x * a.x * a.x + 7) % P
  BY <1>3 DEF Curve, Point
<1>4. QED
  BY <1>1, <1>2, <1>3

\* A solution of the equation is a point.
LEMMA PointOnCurve ==
  ASSUME NEW x \in 0 .. (P - 1), NEW y \in 0 .. (P - 1), (y * y) % P = (x * x * x + 7) % P
  PROVE  /\ Point(x, y) \in Curve /\ Point(x, y).x = x /\ Point(x, y).y = y
         /\ Point(x, y).infinity = FALSE
<1> DEFINE a == Point(x, y)
           Affine == [x : 0 .. (P - 1), y : 0 .. (P - 1), infinity : {FALSE}]
<1>1. a \in Affine /\ a.x = x /\ a.y = y /\ a.infinity = FALSE
  BY DEF Point
<1> HIDE DEF a
<1>2. (a.y * a.y) % P = (a.x * a.x * a.x + 7) % P
  BY <1>1
<1>3. a \in Curve
  BY <1>1, <1>2 DEF Curve
<1>4. QED
  BY <1>1, <1>3 DEF a

\* The generator is a point.
LEMMA GeneratorOnCurve == Generator \in Curve /\ ~Generator.infinity
BY PointOnCurve, Secp256k1Assumption DEF Generator

\* The sum of two points is a point; that of one and zero is that one; that of two
\* points of the same x and other y is zero.
LEMMA GroupSumOnCurve ==
  /\ \A a, b \in Curve : GroupSum[a][b] \in Curve
  /\ \A a \in Curve : GroupSum[Infinity][a] = a /\ GroupSum[a][Infinity] = a
  /\ \A a, b \in Curve :
       ~a.infinity /\ ~b.infinity /\ a.x = b.x /\ (a.y # b.y \/ a.y = 0)
         => GroupSum[a][b] = Infinity
<1>1. ASSUME NEW a \in Curve PROVE GroupSum[Infinity][a] = a /\ GroupSum[a][Infinity] = a
  BY CurvePoints DEF GroupSum
<1>2. ASSUME NEW a \in Curve, NEW b \in Curve,
             ~a.infinity, ~b.infinity, a.x = b.x, a.y # b.y \/ a.y = 0
      PROVE  GroupSum[a][b] = Infinity
  BY <1>2 DEF GroupSum
<1>3. QED
  BY <1>1, <1>2, GroupAssumption

\* Sums is the multiples of the generator, and they are points.
LEMMA SumsDefined ==
  /\ Sums \in [Nat -> Curve]
  /\ Sums[0] = Infinity
  /\ \A k \in Nat : Sums[k + 1] = GroupSum[Sums[k]][Generator]
<1> DEFINE G == [p \in Nat \X Curve |-> GroupSum[p[2]][Generator]]
           Body(g) == [k \in Nat |-> IF k = 0 THEN Infinity ELSE GroupSum[g[k - 1]][Generator]]
<1>1. G \in [Nat \X Curve -> Curve]
  BY GroupSumOnCurve, GeneratorOnCurve
<1>2. PICK h \in [Nat -> Curve] : Iterates(h, Infinity, G)
  <2> HIDE DEF G
  <2>1. QED
    BY <1>1, IterationExists, CurvePoints
<1>3. h = Body(h)
  <2>1. \A k \in Nat : k # 0 => G[<<k, h[k - 1]>>] = GroupSum[h[k - 1]][Generator]
    OBVIOUS
  <2>2. h = [k \in Nat |-> IF k = 0 THEN Infinity ELSE G[<<k, h[k - 1]>>]]
    BY <1>2 DEF Iterates
  <2> HIDE DEF G
  <2>3. \A k \in Nat : h[k] = IF k = 0 THEN Infinity ELSE GroupSum[h[k - 1]][Generator]
    BY <2>1, <2>2
  <2>4. QED
    BY <2>3
<1>4. Sums = CHOOSE g : g = Body(g)
  BY DEF Sums
<1>5. Sums = Body(Sums)
  <2> HIDE DEF Body
  <2>1. QED
    BY <1>3, <1>4
<1>6. Sums[0] = Infinity /\ \A k \in Nat : Sums[k + 1] = GroupSum[Sums[k]][Generator]
  <2>1. \A k \in Nat : Sums[k] = IF k = 0 THEN Infinity ELSE GroupSum[Sums[k - 1]][Generator]
    BY <1>5
  <2>2. \A k \in Nat : k + 1 \in Nat /\ k + 1 # 0 /\ (k + 1) - 1 = k
    OBVIOUS
  <2>3. QED
    BY <2>1, <2>2
<1>7. Sums \in [Nat -> Curve]
  <2> DEFINE Good == {k \in Nat : Sums[k] \in Curve}
  <2>1. 0 \in Good
    BY <1>6, CurvePoints
  <2>2. ASSUME NEW k \in Nat, k \in Good PROVE k + 1 \in Good
    BY SMTT(30), <1>6, <2>2, GroupSumOnCurve, GeneratorOnCurve
  <2>3. Nat \subseteq Good
    <3> HIDE DEF Good
    <3>1. QED
      BY <2>1, <2>2, NatSetInduction
  <2>4. Sums = [k \in Nat |-> Sums[k]]
    BY <1>5
  <2>5. QED
    BY <2>3, <2>4
<1>8. QED
  BY <1>6, <1>7

\* Multiples of the generator add up.
LEMMA SumsAdd == \A i, j \in Nat : GroupSum[Sums[i]][Sums[j]] = Sums[i + j]
<1> SUFFICES ASSUME NEW i \in Nat PROVE \A j \in Nat : GroupSum[Sums[i]][Sums[j]] = Sums[i + j]
  OBVIOUS
<1> DEFINE Good == {j \in Nat : GroupSum[Sums[i]][Sums[j]] = Sums[i + j]}
<1>1. 0 \in Good
  <2>1. i + 0 = i /\ Sums[i] \in Curve
    BY SumsDefined
  <2>2. QED
    BY <2>1, SumsDefined, GroupSumOnCurve
<1>2. ASSUME NEW j \in Nat, j \in Good PROVE j + 1 \in Good
  <2>1. i + j \in Nat /\ i + (j + 1) = (i + j) + 1 /\ Sums[i] \in Curve /\ Sums[j] \in Curve
    BY SumsDefined
  <2>2. Sums[j + 1] = GroupSum[Sums[j]][Generator] /\ Sums[(i + j) + 1] = GroupSum[Sums[i + j]][Generator]
    BY <2>1, SumsDefined
  <2>3. GroupSum[GroupSum[Sums[i]][Sums[j]]][Generator] = GroupSum[Sums[i]][GroupSum[Sums[j]][Generator]]
    BY <2>1, GroupAssumption
  <2>4. GroupSum[Sums[i]][Sums[j]] = Sums[i + j]
    BY <1>2
  <2>5. QED
    BY <2>1, <2>2, <2>3, <2>4
<1>3. Nat \subseteq Good
  <2> HIDE DEF Good
  <2>1. QED
    BY <1>1, <1>2, NatSetInduction
<1>4. QED
  BY <1>3

\* The multiples repeat after N.
LEMMA SumsRepeat == \A k \in Nat : Sums[k] = Sums[k % N]
<1>1. N \in Nat \ {0}
  BY ScalarSizes
<1> DEFINE Good == {q \in Nat : \A i \in Nat : Sums[i + q * N] = Sums[i]}
<1>2. 0 \in Good
  <2>1. \A i \in Nat : i + 0 * N = i
    BY <1>1
  <2>2. QED
    BY <2>1
<1>3. ASSUME NEW q \in Nat, q \in Good PROVE q + 1 \in Good
  <2> SUFFICES ASSUME NEW i \in Nat PROVE Sums[i + (q + 1) * N] = Sums[i]
    OBVIOUS
  <2> DEFINE j == i + q * N
  <2>1. j \in Nat /\ i + (q + 1) * N = j + N
    <3>1. q * N \in Nat /\ (q + 1) * N = q * N + N
      BY <1>1
    <3>2. QED
      BY <1>1, <3>1
  <2>2. Sums[j] = Sums[i]
    BY <1>3
  <2> HIDE DEF j
  <2>3. Sums[j + N] = GroupSum[Sums[j]][Sums[N]] /\ Sums[j] \in Curve
    BY <1>1, <2>1, SumsAdd, SumsDefined
  <2>4. Sums[j + N] = Sums[j]
    BY <2>3, GroupSumOnCurve, GroupAssumption
  <2>5. QED
    BY <2>1, <2>2, <2>4
<1>4. Nat \subseteq Good
  <2> HIDE DEF Good
  <2>1. QED
    BY <1>2, <1>3, NatSetInduction
<1>5. SUFFICES ASSUME NEW k \in Nat PROVE Sums[k] = Sums[k % N]
  OBVIOUS
<1> DEFINE i == k % N
           q == k \div N
<1>6. i \in Nat /\ q \in Nat /\ k = i + q * N
  <2>1. k = N * q + i /\ i \in 0 .. (N - 1)
    BY <1>1, DivMod
  <2>2. q \in 0 .. k
    BY <1>1, DivSmall
  <2> HIDE DEF i, q
  <2>3. N * q = q * N /\ q * N \in Int
    BY <1>1, <2>2
  <2>4. QED
    BY <2>1, <2>2, <2>3
<1> HIDE DEF i, q
<1>7. QED
  BY <1>4, <1>6 DEF i

\* A multiple of zero is zero.
LEMMA SumsOfZero == ASSUME NEW k \in Nat, Sums[k] = Infinity PROVE \A n \in Nat : Sums[k * n] = Infinity
<1> DEFINE Good == {n \in Nat : Sums[k * n] = Infinity}
<1>1. 0 \in Good
  BY SumsDefined
<1>2. ASSUME NEW n \in Nat, n \in Good PROVE n + 1 \in Good
  <2>1. k * n \in Nat /\ k * (n + 1) = k * n + k /\ Sums[k * n] = Infinity
    BY <1>2
  <2>2. Sums[k * n + k] = GroupSum[Infinity][Infinity]
    BY <2>1, SumsAdd
  <2>3. QED
    BY <2>1, <2>2, GroupSumOnCurve, CurvePoints
<1>3. Nat \subseteq Good
  <2> HIDE DEF Good
  <2>1. QED
    BY <1>1, <1>2, NatSetInduction
<1>4. QED
  BY <1>3

\* N is prime: no multiple of the generator before the N-th is zero.
LEMMA SumsZero == ASSUME NEW k \in Nat PROVE Sums[k] = Infinity <=> Same(k, 0, N)
<1>1. N \in Nat \ {0} /\ N > 3 /\ 0 % N = 0 /\ 1 % N = 1
  BY ScalarSizes, SmallResidues
<1>2. ASSUME Same(k, 0, N) PROVE Sums[k] = Infinity
  <2>1. k % N = 0
    BY <1>1, <1>2 DEF Same
  <2>2. QED
    BY <2>1, SumsRepeat, SumsDefined
<1>3. ASSUME Sums[k] = Infinity, ~Same(k, 0, N) PROVE FALSE
  <2>1. PICK u \in 0 .. (N - 1) : Same(u * k, 1, N)
    <3>1. k \in Int /\ PrimeModulus(N) /\ N \in Nat
      BY ScalarSizes
    <3>2. QED
      BY ONLY <1>3, <3>1, InverseModulo
  <2>2. u \in Nat /\ k * u = u * k /\ k * u \in Nat
    BY <1>1
  <2>3. Sums[k * u] = Infinity
    BY <1>3, <2>2, SumsOfZero
  <2>4. (k * u) % N = 1
    BY <1>1, <2>1, <2>2 DEF Same
  <2>5. Sums[k * u] = Sums[1]
    BY <2>2, <2>4, SumsRepeat
  <2>6. Sums[1] = Generator
    <3>1. 0 + 1 = 1
      OBVIOUS
    <3>2. Sums[1] = GroupSum[Infinity][Generator]
      BY <3>1, SumsDefined
    <3>3. QED
      BY <3>2, GroupSumOnCurve, GeneratorOnCurve
  <2>7. QED
    BY <2>3, <2>5, <2>6, GeneratorOnCurve, CurvePoints
<1>4. QED
  BY <1>2, <1>3

\* The multiple of the generator by an integer.
Element(k) == Sums[k % N]

\* An integer's residue is a scalar.
LEMMA ResidueOfN == ASSUME NEW k \in Int PROVE k % N \in 0 .. (N - 1) /\ k % N \in Nat /\ Same(k % N, k, N)
<1>1. N \in Nat \ {0}
  BY ScalarSizes
<1>2. k % N \in 0 .. (N - 1)
  BY <1>1, DivMod
<1>3. Same(k % N, k, N)
  BY <1>1, SameAsResidue
<1> HIDE DEF Same
<1>4. QED
  BY <1>1, <1>2, <1>3

\* Elements are points, add up, and are all points of the curve.
LEMMA ElementsAdd ==
  /\ \A k \in Int : Element(k) \in Curve
  /\ \A i, j \in Int : GroupSum[Element(i)][Element(j)] = Element(i + j)
  /\ \A a \in Curve : \E k \in Nat : a = Element(k)
  /\ Element(0) = Infinity /\ Element(1) = Generator
<1>1. \A k \in Int : Element(k) \in Curve
  BY ResidueOfN, SumsDefined DEF Element
<1>2. ASSUME NEW i \in Int, NEW j \in Int PROVE GroupSum[Element(i)][Element(j)] = Element(i + j)
  <2> DEFINE a == i % N
             b == j % N
  <2>1. a \in Nat /\ b \in Nat /\ Same(a, i, N) /\ Same(b, j, N)
    BY ResidueOfN
  <2> HIDE DEF a, b
  <2>2. GroupSum[Sums[a]][Sums[b]] = Sums[(a + b) % N]
    <3>1. a + b \in Nat
      BY <2>1
    <3>2. QED
      BY <2>1, <3>1, SumsAdd, SumsRepeat
  <2>3. Same(a + b, i + j, N)
    <3>1. N \in Nat \ {0} /\ a \in Int /\ b \in Int
      BY <2>1, ScalarSizes
    <3>2. QED
      BY <2>1, <3>1, SameSum
  <2>4. QED
    BY <2>2, <2>3 DEF Element, a, b, Same
<1>3. ASSUME NEW a \in Curve PROVE \E k \in Nat : a = Element(k)
  <2>1. PICK k \in 0 .. (N - 1) : a = Sums[k]
    BY GroupAssumption
  <2>2. k \in Nat
    OBVIOUS
  <2>3. QED
    BY <2>1, <2>2, SumsRepeat DEF Element
<1>4. Element(0) = Infinity /\ Element(1) = Generator
  <2>1. 0 % N = 0 /\ 1 % N = 1
    BY ScalarSizes, SmallResidues
  <2>2. Sums[1] = GroupSum[Infinity][Generator]
    <3>1. 0 + 1 = 1
      OBVIOUS
    <3>2. QED
      BY <3>1, SumsDefined
  <2>3. QED
    BY <2>1, <2>2, SumsDefined, GroupSumOnCurve, GeneratorOnCurve DEF Element
<1>5. QED
  BY <1>1, <1>2, <1>3, <1>4

\* Elements of integers that are the same modulo N, and of no others, are the same.
LEMMA ElementsEqual ==
  ASSUME NEW i \in Int, NEW j \in Int
  PROVE  /\ Element(i) = Element(j) <=> Same(i, j, N)
         /\ Element(i).infinity <=> Same(i, 0, N)
<1>1. N \in Nat \ {0} /\ 0 % N = 0
  BY ScalarSizes, SmallResidues
<1>2. ASSUME NEW k \in Int PROVE Element(k) = Infinity <=> Same(k, 0, N)
  <2>1. k % N \in Nat /\ Same(k % N, k, N)
    BY ResidueOfN
  <2>2. Sums[k % N] = Infinity <=> Same(k % N, 0, N)
    BY <2>1, SumsZero
  <2>3. QED
    BY <2>1, <2>2 DEF Element, Same
<1>3. ASSUME NEW k \in Int PROVE Element(k).infinity <=> Same(k, 0, N)
  <2>1. Element(k) \in Curve
    BY ElementsAdd
  <2>2. Element(k).infinity <=> Element(k) = Infinity
    BY <2>1, CurvePoints
  <2>3. QED
    BY <1>2, <2>2
<1>4. ASSUME Same(i, j, N) PROVE Element(i) = Element(j)
  BY <1>4 DEF Same, Element
<1>5. ASSUME Element(i) = Element(j) PROVE Same(i, j, N)
  <2> DEFINE m == -j
             d == i + m
  <2>1. m \in Int /\ d \in Int /\ j + m = 0 /\ d + j = i /\ 0 + j = j
    OBVIOUS
  <2> HIDE DEF m
  <2>2. Element(d) = Element(j + m)
    <3>1. Element(d) = GroupSum[Element(i)][Element(m)]
      BY <2>1, ElementsAdd
    <3>2. Element(j + m) = GroupSum[Element(j)][Element(m)]
      BY <2>1, ElementsAdd
    <3>3. QED
      BY <1>5, <3>1, <3>2
  <2> HIDE DEF d
  <2>3. Same(d, 0, N)
    BY <1>2, <2>1, <2>2, ElementsAdd
  <2> DEFINE zero == 0
  <2>4. zero \in Int /\ Same(d, zero, N) /\ zero + j = j /\ Same(j, j, N)
    BY <2>3, SameIsEquivalence
  <2> HIDE DEF zero
  <2>5. Same(d + j, zero + j, N)
    BY <1>1, <2>1, <2>4, SameSum
  <2>6. QED
    BY <2>1, <2>4, <2>5
<1>6. QED
  BY <1>3, <1>4, <1>5

-----------------------------------------------------------------------------
(* Opposites *)

\* (P - y) % P, without the remainder.
LEMMA NegatedCoordinate ==
  ASSUME NEW y \in 0 .. (P - 1)
  PROVE  (P - y) % P = (IF y = 0 THEN 0 ELSE P - y) /\ (P - y) % P \in 0 .. (P - 1)
<1>1. P \in Nat \ {0} /\ P > 3
  BY ScalarSizes
<1>2. CASE y = 0
  <2> DEFINE one == 1
             zero == 0
  <2>1. P * one + zero = P /\ one \in Int /\ zero \in 0 .. (P - 1) /\ P - y = P
    BY <1>1, <1>2
  <2> HIDE DEF one, zero
  <2>2. (P * one + zero) % P = zero
    BY <1>1, <2>1, DivModUnique
  <2>3. QED
    BY <1>2, <2>1, <2>2 DEF zero
<1>3. CASE y # 0
  <2> DEFINE d == P - y
  <2>1. d \in 0 .. (P - 1)
    BY <1>1, <1>3
  <2> HIDE DEF d
  <2>2. d % P = d
    BY <1>1, <2>1, ModOfSmall
  <2>3. QED
    BY <1>3, <2>1, <2>2 DEF d
<1>4. QED
  BY <1>2, <1>3

\* A coordinate and its opposite have the same square.
LEMMA NegatedSquare ==
  ASSUME NEW y \in 0 .. P
  PROVE  ((P - y) * (P - y)) % P = (y * y) % P
<1>1. P \in Nat \ {0}
  BY ScalarSizes
<1> DEFINE a == y * y
           b == (P - y) * (P - y)
           k == P - 2 * y
<1>2. (P - y) * (P - y) = y * y + (P - 2 * y) * P
  BY <1>1
<1>3. a \in Int /\ b \in Int /\ k \in Int /\ b = a + k * P
  BY <1>1, <1>2
<1> HIDE DEF a, b, k
<1>4. b % P = a % P
  BY <1>1, <1>3, ModShift
<1>5. QED
  BY <1>4 DEF a, b

\* The opposite of a point is a point, and their sum is zero: P is odd.
LEMMA OppositeOnCurve ==
  ASSUME NEW a \in Curve
  PROVE  /\ Opposite(a) \in Curve /\ GroupSum[a][Opposite(a)] = Infinity
         /\ Opposite(a).x = a.x /\ Opposite(a).infinity = a.infinity
<1>1. P \in Nat \ {0} /\ P % 2 = 1
  BY ScalarSizes
<1>2. CASE a.infinity
  <2>1. Opposite(a) = Infinity /\ a = Infinity
    BY <1>2, CurvePoints DEF Opposite
  <2>2. QED
    BY <2>1, CurvePoints, GroupSumOnCurve
<1>3. CASE ~a.infinity
  <2> DEFINE y == (P - a.y) % P
             b == Point(a.x, y)
  <2>1. /\ a.x \in 0 .. (P - 1) /\ a.y \in 0 .. (P - 1) /\ a.infinity = FALSE
        /\ (a.y * a.y) % P = (a.x * a.x * a.x + 7) % P
    BY <1>3, CurvePoints
  <2>2. y = (IF a.y = 0 THEN 0 ELSE P - a.y) /\ y \in 0 .. (P - 1)
    BY <2>1, NegatedCoordinate
  <2> HIDE DEF y
  <2>3. (y * y) % P = (a.y * a.y) % P
    <3>1. CASE a.y = 0
      BY <2>2, <3>1
    <3>2. CASE a.y # 0
      <4>1. a.y \in 0 .. P /\ y = P - a.y
        BY <1>1, <2>1, <2>2, <3>2
      <4>2. QED
        BY <4>1, NegatedSquare
    <3>3. QED
      BY <3>1, <3>2
  <2>4. b \in Curve /\ b.x = a.x /\ b.y = y /\ b.infinity = FALSE
    <3> DEFINE x == a.x
    <3>1. x \in 0 .. (P - 1) /\ (y * y) % P = (x * x * x + 7) % P
      BY <2>1, <2>3
    <3> HIDE DEF x
    <3>2. Point(x, y) \in Curve /\ Point(x, y).x = x /\ Point(x, y).y = y /\ Point(x, y).infinity = FALSE
      BY ZenonT(30), <2>2, <3>1, PointOnCurve
    <3>3. QED
      BY <3>2 DEF x
  <2>5. Opposite(a) = b
    BY <1>3 DEF Opposite, y
  <2> HIDE DEF b
  <2>6. a.y # y \/ a.y = 0
    <3>1. SUFFICES ASSUME a.y = P - a.y PROVE FALSE
      BY <2>2
    <3>2. P = 2 * a.y
      BY <1>1, <2>1, <3>1
    <3>3. QED
      BY <1>1, <2>1, <3>2
  <2>7. GroupSum[a][b] = Infinity
    BY <1>3, <2>4, <2>6, GroupSumOnCurve
  <2>8. QED
    BY <2>1, <2>4, <2>5, <2>7
<1>4. QED
  BY <1>2, <1>3

\* The opposite of an element is that of the opposite number.
LEMMA ElementOpposite == ASSUME NEW k \in Int PROVE Opposite(Element(k)) = Element(-k)
<1> DEFINE a == Element(k)
           b == Opposite(a)
           m == -k
<1>1. N \in Nat \ {0}
  BY ScalarSizes
<1>2. a \in Curve
  BY ElementsAdd
<1> HIDE DEF a
<1>3. b \in Curve /\ GroupSum[a][b] = Infinity
  BY <1>2, OppositeOnCurve
<1>4. PICK j \in Nat : b = Element(j)
  BY <1>3, ElementsAdd
<1> DEFINE s == k + j
           zero == 0
<1>5. /\ j \in Int /\ s \in Int /\ zero \in Int /\ m \in Int
      /\ s - k = j /\ zero - k = m
  OBVIOUS
<1> HIDE DEF b, m
<1>6. Element(s) = Element(zero)
  BY <1>3, <1>4, <1>5, ElementsAdd DEF a
<1> HIDE DEF s, zero
<1>7. Same(s, zero, N) /\ Same(k, k, N)
  BY <1>5, <1>6, ElementsEqual, SameIsEquivalence
<1>8. Same(s - k, zero - k, N)
  BY <1>1, <1>5, <1>7, SameDifference
<1>9. Element(j) = Element(m)
  BY <1>5, <1>8, ElementsEqual
<1>10. QED
  BY <1>4, <1>9 DEF b, m, a

\* Two field elements that are the same modulo P are equal.
LEMMA EqualCoordinates ==
  ASSUME NEW x \in 0 .. (P - 1), NEW y \in 0 .. (P - 1), Same(x, y, P)
  PROVE  x = y
BY ScalarSizes, ModOfSmall DEF Same

\* Field elements with the same square are equal or opposite: P is prime.
LEMMA EqualSquares ==
  ASSUME NEW y \in 0 .. (P - 1), NEW z \in 0 .. (P - 1), (y * y) % P = (z * z) % P
  PROVE  z = y \/ z = (P - y) % P
<1>1. P \in Nat \ {0} /\ PrimeModulus(P) /\ P > 3
  BY ScalarSizes
<1> DEFINE a == y * y
           b == z * z
           d == y - z
           e == y + z
           zero == 0
<1>2. a \in Int /\ b \in Int /\ d \in Int /\ e \in Int /\ zero \in Int /\ b - b = zero
  OBVIOUS
<1>3. d * e = a - b
  OBVIOUS
<1>4. Same(a, b, P) /\ Same(b, b, P)
  BY SameIsEquivalence DEF Same
<1> HIDE DEF a, b
<1>5. Same(a - b, b - b, P)
  BY <1>1, <1>2, <1>4, SameDifference
<1>6. Same(d * e, 0, P)
  BY <1>2, <1>3, <1>5
<1>7. Same(d, 0, P) \/ Same(e, 0, P)
  <2> HIDE DEF d, e
  <2>1. QED
    BY <1>1, <1>2, <1>6, ProductZero
<1> HIDE DEF zero
<1>8. CASE Same(d, 0, P)
  <2>1. Same(d, zero, P) /\ Same(z, z, P) /\ z \in Int /\ d + z = y /\ zero + z = z
    BY <1>8, SameIsEquivalence DEF zero
  <2> HIDE DEF d
  <2>2. Same(d + z, zero + z, P)
    BY <1>1, <1>2, <2>1, SameSum
  <2>3. y = z
    BY <2>1, <2>2, EqualCoordinates
  <2>4. QED
    BY <2>3
<1>9. CASE Same(e, 0, P)
  <2> DEFINE m == P - y
             w == m % P
  <2>1. w = (IF y = 0 THEN 0 ELSE P - y) /\ w \in 0 .. (P - 1)
    BY NegatedCoordinate
  <2> HIDE DEF w
  <2>2. /\ Same(zero, e, P) /\ Same(y, y, P) /\ y \in Int /\ m \in Int
        /\ e - y = z /\ zero - y \in Int /\ (zero - y) + P = m
    BY <1>1, <1>9, SameIsEquivalence DEF zero
  <2> HIDE DEF e
  <2>3. Same(zero - y, e - y, P)
    BY <1>1, <1>2, <2>2, SameDifference
  <2>4. Same((zero - y) + P, zero - y, P)
    BY <1>1, <2>2, SameAsResidue
  <2>5. Same(w, m, P)
    <3> HIDE DEF m
    <3>1. QED
      BY <1>1, <2>2, SameAsResidue DEF w
  <2>6. Same(w, z, P)
    BY <2>2, <2>3, <2>4, <2>5 DEF Same
  <2>7. w = z
    BY <2>1, <2>6, EqualCoordinates
  <2>8. QED
    BY <2>7 DEF w
<1>10. QED
  BY <1>7, <1>8, <1>9

\* Two points with the same x are equal or opposite.
LEMMA SameXOnCurve ==
  ASSUME NEW a \in Curve, NEW b \in Curve, ~a.infinity, ~b.infinity, a.x = b.x
  PROVE  b = a \/ b = Opposite(a)
<1>1. /\ a.x \in 0 .. (P - 1) /\ a.y \in 0 .. (P - 1) /\ b.y \in 0 .. (P - 1)
      /\ a = Point(a.x, a.y) /\ b = Point(b.x, b.y)
      /\ (a.y * a.y) % P = (b.y * b.y) % P
  BY CurvePoints
<1>2. b.y = a.y \/ b.y = (P - a.y) % P
  BY <1>1, EqualSquares
<1>3. CASE b.y = a.y
  BY <1>1, <1>3
<1>4. CASE b.y = (P - a.y) % P
  <2>1. Opposite(a) = Point(a.x, (P - a.y) % P)
    BY DEF Opposite
  <2>2. QED
    BY <1>1, <1>4, <2>1
<1>5. QED
  BY <1>2, <1>3, <1>4

\* Elements with the same x are those of a number and its opposite.
LEMMA ElementsOfX ==
  ASSUME NEW i \in Int, NEW j \in Int, ~Element(i).infinity, ~Element(j).infinity,
         Element(i).x = Element(j).x
  PROVE  Same(j, i, N) \/ Same(j, -i, N)
<1> DEFINE a == Element(i)
           b == Element(j)
           m == -i
<1>1. m \in Int /\ Opposite(a) = Element(m)
  BY ElementOpposite
<1> HIDE DEF m
<1>2. a \in Curve /\ b \in Curve
  BY ElementsAdd
<1>3. b = a \/ b = Element(m)
  <2> HIDE DEF a, b
  <2>1. ~a.infinity /\ ~b.infinity /\ a.x = b.x
    BY DEF a, b
  <2>2. QED
    BY <1>1, <1>2, <2>1, SameXOnCurve
<1>4. Same(j, i, N) \/ Same(j, m, N)
  BY <1>1, <1>2, <1>3, ElementsEqual
<1>5. QED
  BY <1>4 DEF m

\* No element but zero is its own opposite, so no point has y = 0.
LEMMA NoOrderTwo == ASSUME NEW a \in Curve, ~a.infinity PROVE a.y # 0
<1>1. SUFFICES ASSUME a.y = 0 PROVE FALSE
  OBVIOUS
<1>2. N \in Nat /\ N > 3 /\ PrimeModulus(N) /\ 0 % N = 0
  BY ScalarSizes, SmallResidues
<1>3. GroupSum[a][a] = Infinity
  BY <1>1, GroupSumOnCurve
<1>4. PICK k \in Nat : a = Element(k)
  BY ElementsAdd
<1> DEFINE d == k + k
           two == 2
<1>5. d \in Int /\ k \in Int /\ two \in 0 .. (N - 1) /\ two \in Int /\ k * two = d /\ two # 0
  BY <1>2
<1>6. Element(d) = Element(0)
  BY <1>3, <1>4, <1>5, ElementsAdd
<1> HIDE DEF d
<1>7. Same(d, 0, N)
  BY <1>5, <1>6, ElementsEqual
<1> HIDE DEF two
<1>8. ~Same(two, 0, N)
  BY <1>2, <1>5, ModOfSmall DEF Same
<1>9. Same(k, 0, N)
  BY <1>2, <1>5, <1>7, <1>8, ProductZero
<1>10. Element(k).infinity
  BY <1>5, <1>9, ElementsEqual
<1>11. QED
  BY <1>4, <1>10

-----------------------------------------------------------------------------
(* Double and add *)

\* f starts at n and makes each value, down to 0, from the one after.
IteratesDown(f, n, start, G) ==
  f = [i \in 0 .. n |-> IF i = n THEN start ELSE G[<<i, f[i + 1]>>]]

\* A recursion that goes down from n has a solution.
LEMMA DownwardIterationExists ==
  ASSUME NEW V, NEW start \in V, NEW n \in Nat, NEW G \in [(0 .. n) \X V -> V]
  PROVE  \E f \in [0 .. n -> V] : IteratesDown(f, n, start, G)
<1> DEFINE H == [p \in (0 .. n) \X V |-> G[<<n - p[1], p[2]>>]]
           zero == 0
<1>1. H \in [(0 .. n) \X V -> V]
  OBVIOUS
<1>2. PICK h \in [zero .. n -> V] : IteratesOn(h, zero, n, start, H)
  <2> HIDE DEF H
  <2>1. QED
    BY <1>1, RangeIterationExists
<1>3. \A k \in 0 .. n : h[k] = IF k = 0 THEN start ELSE H[<<k, h[k - 1]>>]
  <2> HIDE DEF H
  <2>1. QED
    BY <1>2 DEF IteratesOn
<1> DEFINE f == [i \in 0 .. n |-> h[n - i]]
<1>4. f \in [0 .. n -> V]
  OBVIOUS
<1>5. ASSUME NEW i \in 0 .. n PROVE f[i] = IF i = n THEN start ELSE G[<<i, f[i + 1]>>]
  <2>1. CASE i = n
    <3>1. n - i = 0 /\ 0 \in 0 .. n
      BY <2>1
    <3>2. f[i] = h[0]
      BY <3>1
    <3>3. QED
      BY <1>3, <2>1, <3>1, <3>2
  <2>2. CASE i # n
    <3> DEFINE k == n - i
    <3>1. k \in 0 .. n /\ k # 0 /\ k - 1 = n - (i + 1) /\ i + 1 \in 0 .. n /\ n - k = i /\ k - 1 \in 0 .. n
      BY <2>2
    <3>2. f[i] = h[k] /\ f[i + 1] = h[k - 1]
      BY <3>1
    <3> HIDE DEF k, f
    <3>3. h[k] = H[<<k, h[k - 1]>>]
      <4> HIDE DEF H
      <4>1. QED
        BY <1>3, <3>1
    <3>4. h[k - 1] \in V
      BY <3>1
    <3>5. H[<<k, h[k - 1]>>] = G[<<n - k, h[k - 1]>>]
      BY <3>1, <3>4
    <3>6. QED
      BY <2>2, <3>1, <3>2, <3>3, <3>5
  <2>3. QED
    BY <2>1, <2>2
<1> HIDE DEF f
<1>6. f = [i \in 0 .. n |-> IF i = n THEN start ELSE G[<<i, f[i + 1]>>]]
  BY <1>4, <1>5
<1>7. IteratesDown(f, n, start, G)
  BY <1>6 DEF IteratesDown
<1>8. QED
  BY <1>4, <1>7

\* The bits of a scalar above the i-th, doubled, and the i-th make those above i - 1.
LEMMA NextBit ==
  ASSUME NEW q \in Nat, NEW i \in Nat
  PROVE  /\ q \div (2 ^ i) \in Nat /\ q \div (2 ^ (i + 1)) \in Nat
         /\ q \div (2 ^ i) = 2 * (q \div (2 ^ (i + 1))) + ((q \div (2 ^ i)) % 2)
         /\ (q \div (2 ^ i)) % 2 \in {0, 1}
<1> DEFINE m == 2 ^ i
           a == q \div m
           two == 2
<1>1. m \in Nat \ {0} /\ 2 ^ (i + 1) = m * two /\ two \in Nat \ {0} /\ q \in Int
  <2>1. 2 ^ i \in Nat \ {0} /\ 2 ^ (i + 1) = 2 * 2 ^ i
    BY PowerType, PowerNext
  <2> HIDE DEF m
  <2>2. m \in Nat \ {0} /\ 2 ^ (i + 1) = 2 * m
    BY <2>1 DEF m
  <2>3. 2 * m = m * 2
    BY <2>2
  <2>4. QED
    BY <2>2, <2>3
<1> HIDE DEF m, two
<1>2. q \div (m * two) = (q \div m) \div two
  BY <1>1, DivModProduct
<1>3. a \in 0 .. q
  BY <1>1, DivSmall
<1> HIDE DEF a
<1>4. q \div (2 ^ (i + 1)) = a \div 2
  BY <1>1, <1>2 DEF a, two
<1>5. a \in Nat /\ a \div 2 \in Nat /\ a = 2 * (a \div 2) + (a % 2) /\ a % 2 \in {0, 1}
  BY <1>3
<1>6. QED
  BY <1>4, <1>5 DEF a, m

\* operator* computes multiples: what is added so far is that of the top bits.
LEMMA MultipleIsExact ==
  ASSUME NEW k \in Int, NEW scalar \in 0 .. (Size - 1)
  PROVE  Multiple[Element(k)][scalar] = Element(k * scalar)
<1> DEFINE a == Element(k)
           Bit(i) == (scalar \div (2 ^ i)) % 2
           Step(i, b) == IF Bit(i) = 1 THEN GroupSum[Doubled[b]][a] ELSE Doubled[b]
           Body(g) == [i \in 0 .. Bits |-> IF i = Bits THEN Infinity
                         ELSE IF (scalar \div (2 ^ i)) % 2 = 1 THEN GroupSum[Doubled[g[i + 1]]][a]
                         ELSE Doubled[g[i + 1]]]
           product == CHOOSE g : g = Body(g)
           G == [p \in (0 .. Bits) \X Curve |-> Step(p[1], p[2])]
<1>1. Bits \in Nat /\ Size \in Nat /\ scalar \in Nat /\ scalar < Size /\ Size <= 2 ^ Bits
  BY ScalarSizes
<1>2. a \in Curve
  BY ElementsAdd
<1>3. Multiple[a][scalar] = product[0]
  <2> HIDE DEF a
  <2>1. QED
    BY <1>2 DEF Multiple
<1> HIDE DEF a
<1>4. \A b \in Curve : Doubled[b] = GroupSum[b][b] /\ Doubled[b] \in Curve
  BY GroupSumOnCurve DEF Doubled
<1>5. \A i \in 0 .. Bits : \A b \in Curve : Step(i, b) \in Curve
  <2> HIDE DEF Bit
  <2>1. QED
    BY <1>2, <1>4, GroupSumOnCurve
<1>6. G \in [(0 .. Bits) \X Curve -> Curve]
  <2> HIDE DEF Step
  <2>1. QED
    BY <1>5
<1>7. PICK f \in [0 .. Bits -> Curve] : IteratesDown(f, Bits, Infinity, G)
  <2> HIDE DEF G
  <2>0. Infinity \in Curve
    BY CurvePoints
  <2>1. QED
    BY <1>1, <1>6, <2>0, DownwardIterationExists
<1>8. f = Body(f)
  <2>1. ASSUME NEW i \in 0 .. Bits, i # Bits PROVE G[<<i, f[i + 1]>>] = Step(i, f[i + 1])
    <3>1. i + 1 \in 0 .. Bits
      BY <1>1, <2>1
    <3>2. f[i + 1] \in Curve
      BY <3>1
    <3> HIDE DEF Step
    <3>3. QED
      BY <3>2
  <2>2. \A i \in 0 .. Bits : f[i] = IF i = Bits THEN Infinity ELSE G[<<i, f[i + 1]>>]
    <3> HIDE DEF G
    <3>1. QED
      BY <1>7 DEF IteratesDown
  <2>3. \A i \in 0 .. Bits : f[i] = IF i = Bits THEN Infinity ELSE Step(i, f[i + 1])
    <3> HIDE DEF G, Step
    <3>1. QED
      BY <2>1, <2>2
  <2>4. \A i \in 0 .. Bits : f[i] = Body(f)[i]
    BY <2>3
  <2> HIDE DEF G
  <2>5. QED
    BY <2>4
<1>9. product = Body(product)
  <2> HIDE DEF Body
  <2>1. QED
    BY <1>8
<1> HIDE DEF product
<1> DEFINE Good == {j \in Nat : j <= Bits =>
                      product[Bits - j] = Element(k * (scalar \div (2 ^ (Bits - j))))}
<1>10. 0 \in Good
  <2>1. Bits - 0 = Bits /\ Bits \in 0 .. Bits
    BY <1>1
  <2>2. product[Bits] = Infinity
    BY <1>9, <2>1
  <2>3. scalar \div (2 ^ Bits) = 0
    <3> DEFINE m == 2 ^ Bits
               zero == 0
    <3>1. m \in Nat \ {0}
      BY <1>1, PowerType
    <3>2. scalar < m
      BY <1>1, <3>1
    <3> HIDE DEF m
    <3>3. zero \in Int /\ scalar \in 0 .. (m - 1) /\ m * zero + scalar = scalar
      BY <1>1, <3>1, <3>2
    <3> HIDE DEF zero
    <3>4. (m * zero + scalar) \div m = zero
      BY <3>1, <3>3, DivModUnique
    <3>5. QED
      BY <3>3, <3>4 DEF m, zero
  <2>4. k * 0 = 0
    OBVIOUS
  <2>5. QED
    BY <2>1, <2>2, <2>3, <2>4, ElementsAdd
<1>11. ASSUME NEW j \in Nat, j \in Good PROVE j + 1 \in Good
  <2> SUFFICES ASSUME j + 1 <= Bits
               PROVE  product[Bits - (j + 1)] = Element(k * (scalar \div (2 ^ (Bits - (j + 1)))))
    OBVIOUS
  <2> DEFINE i == Bits - (j + 1)
             q == scalar \div (2 ^ i)
             h == scalar \div (2 ^ (i + 1))
             kh == k * h
  <2>1. i \in 0 .. Bits /\ i \in Nat /\ i # Bits /\ i + 1 = Bits - j /\ j <= Bits
    BY <1>1
  <2> HIDE DEF i
  <2>2. product[i + 1] = Element(kh)
    BY <1>11, <2>1
  <2>3. product[i] = Step(i, product[i + 1])
    BY <1>9, <2>1
  <2>4. q \in Nat /\ h \in Nat /\ q = 2 * h + Bit(i) /\ Bit(i) \in {0, 1}
    BY <1>1, <2>1, NextBit
  <2> HIDE DEF h, q
  <2>5. kh \in Int
    BY <2>4
  <2>6. Element(kh) \in Curve /\ Doubled[Element(kh)] = Element(kh + kh)
    BY <1>4, <2>5, ElementsAdd
  <2> HIDE DEF Bit
  <2>7. product[i] = Element(k * q)
    <3>1. CASE Bit(i) = 1
      <4>1. k * q = (kh + kh) + k /\ kh + kh \in Int
        <5>1. k * (2 * h + 1) = (k * h + k * h) + k
          BY <2>4
        <5>2. QED
          BY <2>4, <2>5, <3>1, <5>1
      <4> HIDE DEF kh
      <4>2. product[i] = GroupSum[Element(kh + kh)][a]
        BY <2>2, <2>3, <2>6, <3>1
      <4>3. QED
        BY <4>1, <4>2, ElementsAdd DEF a
    <3>2. CASE Bit(i) = 0
      <4>1. k * q = kh + kh
        <5>1. k * (2 * h + 0) = k * h + k * h
          BY <2>4
        <5>2. QED
          BY <2>4, <3>2, <5>1
      <4> HIDE DEF kh
      <4>2. product[i] = Element(kh + kh)
        BY <2>2, <2>3, <2>6, <3>2
      <4>3. QED
        BY <4>1, <4>2
    <3>3. QED
      BY <2>4, <3>1, <3>2
  <2>8. QED
    BY <2>7 DEF q, i
<1>12. Nat \subseteq Good
  <2> HIDE DEF Good
  <2>1. QED
    BY <1>10, <1>11, NatSetInduction
<1>13. product[0] = Element(k * (scalar \div (2 ^ 0)))
  <2>1. Bits - Bits = 0 /\ Bits <= Bits
    BY <1>1
  <2>2. Bits \in Good
    <3> HIDE DEF Good
    <3>1. QED
      BY <1>1, <1>12
  <2>3. QED
    BY <2>1, <2>2
<1>14. scalar \div (2 ^ 0) = scalar
  BY <1>1, PowerZero
<1>15. QED
  BY <1>3, <1>13, <1>14 DEF a

-----------------------------------------------------------------------------
(* Scalars *)

\* Opposites of what is the same modulo m are.
LEMMA SameNegated ==
  ASSUME NEW m \in Nat \ {0}, NEW a \in Int, NEW b \in Int, Same(a, b, m)
  PROVE  Same(-a, -b, m)
<1> DEFINE zero == 0
           u == -a
           w == -b
<1>1. zero \in Int /\ zero - a = u /\ zero - b = w /\ Same(zero, zero, m)
  BY SameIsEquivalence
<1> HIDE DEF zero, u, w
<1>2. Same(zero - a, zero - b, m)
  BY <1>1, SameDifference
<1>3. QED
  BY <1>1, <1>2 DEF u, w

\* A sum of scalars is right, though it may be N or more, if it is not too large.
LEMMA ScalarSumIsExact ==
  ASSUME NEW a \in 0 .. (Size - 1), NEW b \in 0 .. (Size - 1), a + b < Size + N
  PROVE  ScalarSum(a, b) \in 0 .. (Size - 1) /\ Same(ScalarSum(a, b), a + b, N)
<1> DEFINE sum == a + b
           d == sum - N
           t == ScalarSum(a, b)
<1>1. N \in Nat \ {0} /\ Size \in Nat \ {0} /\ N < Size /\ sum \in Nat /\ sum < Size + N
  BY ScalarSizes
<1>2. t = IF sum >= Size \/ sum % Size >= N THEN (sum + Size - N) % Size ELSE sum
  BY DEF ScalarSum
<1> HIDE DEF sum
<1>3. ASSUME sum < Size PROVE sum % Size = sum
  BY <1>1, <1>3, ModOfSmall
<1>4. CASE sum >= N
  <2>1. t = (sum + Size - N) % Size
    BY <1>1, <1>2, <1>3, <1>4
  <2> DEFINE one == 1
             e == sum + Size - N
  <2>2. d \in 0 .. (Size - 1) /\ one \in Int /\ Size * one + d = e /\ d \in Int /\ d + N = sum
    BY <1>1, <1>4
  <2> HIDE DEF one, d, e
  <2>3. (Size * one + d) % Size = d
    BY <1>1, <2>2, DivModUnique
  <2>4. t = d
    BY <2>1, <2>2, <2>3 DEF e
  <2>5. Same(d + N, d, N)
    BY <1>1, <2>2, SameAsResidue
  <2> HIDE DEF t
  <2>6. Same(t, sum, N)
    BY <2>2, <2>4, <2>5 DEF Same
  <2>7. QED
    BY <2>2, <2>4, <2>6 DEF t, sum
<1>5. CASE sum < N
  <2>1. t = sum
    BY <1>1, <1>2, <1>3, <1>5
  <2> HIDE DEF t
  <2>2. t \in 0 .. (Size - 1) /\ Same(t, sum, N)
    BY <1>1, <1>5, <2>1, SameIsEquivalence
  <2>3. QED
    BY <2>2 DEF t, sum
<1>6. QED
  BY <1>1, <1>4, <1>5

\* A product of scalars is right, and below N.
LEMMA ScalarProductIsExact ==
  ASSUME NEW a \in Int, NEW b \in Int
  PROVE  ScalarProduct(a, b) \in 0 .. (N - 1) /\ Same(ScalarProduct(a, b), a * b, N)
<1> DEFINE c == a * b
<1>1. c \in Int
  OBVIOUS
<1>2. ScalarProduct(a, b) = c % N
  BY DEF ScalarProduct
<1> HIDE DEF c
<1>3. c % N \in 0 .. (N - 1) /\ Same(c % N, c, N)
  BY <1>1, ResidueOfN
<1>4. QED
  BY <1>2, <1>3 DEF c

\* The inverse of a scalar is right, and 0 for one that is 0 modulo N.
LEMMA ScalarInverseIsExact ==
  ASSUME NEW a \in Int
  PROVE  /\ ScalarInverse(a) \in 0 .. (N - 1)
         /\ Same(a, 0, N) => ScalarInverse(a) = 0
         /\ ~Same(a, 0, N) => ScalarInverse(a) # 0 /\ Same(ScalarInverse(a) * a, 1, N)
<1> DEFINE w == a % N
           u == ModInverse(w, N)
<1>1. N \in Nat \ {0} /\ N \in Nat /\ N > 3 /\ PrimeModulus(N) /\ 0 % N = 0 /\ 1 % N = 1
  BY ScalarSizes, SmallResidues
<1>2. w \in 0 .. (N - 1) /\ Same(w, a, N) /\ w \in Int
  BY ResidueOfN
<1>3. ScalarInverse(a) = u % N
  BY DEF ScalarInverse
<1>4. Same(a, 0, N) <=> w = 0
  BY <1>1 DEF Same
<1> HIDE DEF w
<1>5. u \in 0 .. (N - 1) /\ (w = 0 => u = 0) /\ (w # 0 => (u * w) % N = 1)
  BY <1>1, <1>2, ModInverseIsExact
<1> HIDE DEF u
<1>6. u % N = u
  BY <1>1, <1>5, ModOfSmall
<1>7. ASSUME w # 0 PROVE u # 0 /\ Same(u * a, 1, N)
  <2>1. Same(u * w, 1, N)
    BY <1>1, <1>5, <1>7 DEF Same
  <2>2. Same(u, u, N) /\ u \in Int
    BY <1>1, <1>5, SameIsEquivalence
  <2>3. Same(u * w, u * a, N)
    BY <1>1, <1>2, <2>2, SameProduct
  <2>4. Same(u * a, 1, N)
    BY <2>1, <2>3 DEF Same
  <2>5. u # 0
    <3>1. SUFFICES ASSUME u = 0 PROVE FALSE
      OBVIOUS
    <3>2. u * w = 0
      BY <1>2, <3>1
    <3>3. QED
      BY <1>1, <1>5, <1>7, <3>2
  <2>6. QED
    BY <2>4, <2>5
<1>8. QED
  BY <1>3, <1>4, <1>5, <1>6, <1>7

\* The low s is s or its opposite.
LEMMA LowSIsExact ==
  ASSUME NEW b \in 1 .. (N - 1)
  PROVE  /\ LowS(b) \in 1 .. (N - 1)
         /\ Same(LowS(b), b, N) \/ Same(LowS(b), -b, N)
<1>1. N \in Nat \ {0}
  BY ScalarSizes
<1> DEFINE d == N - b
           m == -b
<1>2. d \in 1 .. (N - 1) /\ m \in Int /\ m + N = d
  BY <1>1
<1> HIDE DEF d, m
<1>3. Same(d, m, N)
  BY <1>1, <1>2, SameAsResidue
<1>4. LowS(b) = d \/ LowS(b) = b
  BY DEF LowS, d
<1>5. Same(b, b, N)
  BY SameIsEquivalence
<1>6. QED
  BY <1>2, <1>3, <1>4, <1>5 DEF m

\* The hash with the other sign.
LEMMA OpposedIsExact ==
  ASSUME NEW z \in 0 .. (Size - 1)
  PROVE  Opposed(z) \in 0 .. (Size - 1) /\ Same(Opposed(z), -z, N)
<1>1. N \in Nat \ {0} /\ Size \in Nat /\ N < Size
  BY ScalarSizes
<1> DEFINE w == z % N
           m == -w
           o == -z
           d == N - w
<1>2. z \in Int
  BY <1>1
<1>3. w \in 0 .. (N - 1) /\ Same(w, z, N)
  BY <1>2, ResidueOfN
<1>4. Opposed(z) = d
  BY DEF Opposed
<1> HIDE DEF w
<1>5. w \in Int
  BY <1>1, <1>3
<1>6. Same(m, o, N)
  BY <1>1, <1>2, <1>3, <1>5, SameNegated
<1>7. m \in Int /\ m + N = d /\ d \in 0 .. (Size - 1)
  BY <1>1, <1>3
<1> HIDE DEF m, o, d
<1>8. Same(d, m, N)
  BY <1>1, <1>7, SameAsResidue
<1>9. Same(d, o, N)
  BY <1>6, <1>8 DEF Same
<1>10. QED
  BY <1>4, <1>7, <1>9 DEF o

-----------------------------------------------------------------------------
(* Fermat's little theorem, by the product of all of 1 .. P - 1 *)

\* F is the products of the values of f over the subsets of U.
Multiplies(F, U, f) ==
  /\ F \in [SUBSET U -> Int]
  /\ F[{}] = 1
  /\ \A s \in SUBSET U : \A x \in s : F[s] = f[x] * F[s \ {x}]

\* There is such a function.
LEMMA ProductsExist ==
  ASSUME NEW U, IsFiniteSet(U), NEW f \in [U -> Int]
  PROVE  \E F : Multiplies(F, U, f)
<1> DEFINE c == Choice(U)
           G == [p \in U \X Int |-> f[p[1]] * p[2]]
           one == 1
<1>1. Chooses(c, U)
  BY DEF Chooses, Choice
<1>2. G \in [U \X Int -> Int]
  OBVIOUS
<1>3. one \in Int
  OBVIOUS
<1>4. PICK F \in [SUBSET U -> Int] : Folds(F, U, one, c, G)
  <2> HIDE DEF G, c, one
  <2>1. QED
    BY <1>1, <1>2, <1>3, FoldExists
<1>5. \A s \in SUBSET U : F[s] = IF s = {} THEN one ELSE G[<<c[s], F[s \ {c[s]}]>>]
  <2> HIDE DEF G, c, one
  <2>1. QED
    BY <1>4 DEF Folds
<1>6. ASSUME NEW s \in SUBSET U, s # {} PROVE c[s] \in s /\ F[s] = f[c[s]] * F[s \ {c[s]}]
  <2>1. c[s] \in s /\ s \ {c[s]} \in SUBSET U
    BY <1>1, <1>6 DEF Chooses
  <2> HIDE DEF c
  <2>2. F[s \ {c[s]}] \in Int /\ c[s] \in U
    BY <2>1
  <2>3. G[<<c[s], F[s \ {c[s]}]>>] = f[c[s]] * F[s \ {c[s]}]
    BY <2>2
  <2> HIDE DEF G
  <2>4. QED
    BY <1>5, <1>6, <2>1, <2>3
<1> HIDE DEF c, G
<1> DEFINE Good == {s \in SUBSET U : \A z \in s : F[s] = f[z] * F[s \ {z}]}
<1>7. {} \in Good
  OBVIOUS
<1>8. \A s \in SUBSET U : s # {} /\ (\A x \in s : s \ {x} \in Good) => s \in Good
  <2> SUFFICES ASSUME NEW s \in SUBSET U, s # {}, \A x \in s : s \ {x} \in Good, NEW z \in s
               PROVE  F[s] = f[z] * F[s \ {z}]
    OBVIOUS
  <2>1. PICK x \in s : F[s] = f[x] * F[s \ {x}]
    BY <1>6
  <2>2. CASE x = z
    BY <2>1, <2>2
  <2>3. CASE x # z
    <3>1. /\ F[s \ {x}] = f[z] * F[(s \ {x}) \ {z}]
          /\ F[s \ {z}] = f[x] * F[(s \ {z}) \ {x}]
      BY <2>3
    <3>2. (s \ {x}) \ {z} = (s \ {z}) \ {x}
      OBVIOUS
    <3> DEFINE a == f[x]
               b == f[z]
               d == F[(s \ {x}) \ {z}]
    <3>3. a \in Int /\ b \in Int /\ d \in Int
      <4>1. x \in U /\ z \in U /\ (s \ {x}) \ {z} \in SUBSET U
        OBVIOUS
      <4>2. QED
        BY <4>1
    <3>4. F[s] = a * (b * d) /\ F[s \ {z}] = a * d
      BY <2>1, <3>1, <3>2
    <3> HIDE DEF a, b, d
    <3>5. a * (b * d) = b * (a * d)
      BY <3>3
    <3>6. QED
      BY <3>4, <3>5 DEF b
  <2>4. QED
    BY <2>2, <2>3
<1>9. SUBSET U \subseteq Good
  <2> HIDE DEF Good
  <2>1. QED
    BY <1>7, <1>8, SubsetInduction
<1>10. F[{}] = 1
  <2>1. {} \in SUBSET U
    OBVIOUS
  <2>2. QED
    BY <1>5, <2>1
<1>11. Multiplies(F, U, f)
  BY <1>9, <1>10 DEF Multiplies
<1>12. QED
  BY <1>11

\* f is the powers of y.
ArePowers(f, y) ==
  /\ f \in [Nat -> Int]
  /\ f[0] = 1
  /\ \A n \in Nat : f[n + 1] = f[n] * y

\* Powers exist.
LEMMA PowersExist == ASSUME NEW y \in Int PROVE \E f : ArePowers(f, y)
<1> DEFINE G == [p \in Nat \X Int |-> p[2] * y]
           one == 1
<1>1. G \in [Nat \X Int -> Int] /\ one \in Int
  OBVIOUS
<1>2. PICK h \in [Nat -> Int] : Iterates(h, one, G)
  <2> HIDE DEF G, one
  <2>1. QED
    BY <1>1, IterationExists
<1>3. \A k \in Nat : h[k] = IF k = 0 THEN one ELSE G[<<k, h[k - 1]>>]
  <2> HIDE DEF G, one
  <2>1. QED
    BY <1>2 DEF Iterates
<1>4. h[0] = 1
  BY <1>3
<1>5. ASSUME NEW n \in Nat PROVE h[n + 1] = h[n] * y
  <2>1. n + 1 \in Nat /\ n + 1 # 0 /\ (n + 1) - 1 = n /\ h[n] \in Int
    OBVIOUS
  <2>2. h[n + 1] = G[<<n + 1, h[n]>>]
    <3> HIDE DEF G
    <3>1. QED
      BY <1>3, <2>1
  <2>3. G[<<n + 1, h[n]>>] = h[n] * y
    BY <2>1
  <2> HIDE DEF G
  <2>4. QED
    BY <2>2, <2>3
<1>6. ArePowers(h, y)
  BY <1>4, <1>5 DEF ArePowers
<1>7. QED
  BY <1>6

\* Exponents of a product add up.
LEMMA PowersAdd ==
  ASSUME NEW y \in Int, NEW f, ArePowers(f, y), NEW m \in Nat, NEW n \in Nat
  PROVE  f[m + n] = f[m] * f[n] /\ f[m + n] \in Int /\ f[m] \in Int /\ f[n] \in Int
<1>1. f \in [Nat -> Int] /\ f[0] = 1 /\ \A k \in Nat : f[k + 1] = f[k] * y
  BY DEF ArePowers
<1> DEFINE Good == {k \in Nat : f[m + k] = f[m] * f[k]}
<1>2. 0 \in Good
  <2>1. m + 0 = m /\ f[m] \in Int
    BY <1>1
  <2>2. QED
    BY <1>1, <2>1
<1>3. ASSUME NEW k \in Nat, k \in Good PROVE k + 1 \in Good
  <2> DEFINE a == f[m]
             b == f[k]
  <2>1. m + k \in Nat /\ m + (k + 1) = (m + k) + 1 /\ a \in Int /\ b \in Int /\ f[m + k] = a * b
    BY <1>1, <1>3
  <2>2. f[m + (k + 1)] = f[m + k] * y /\ f[k + 1] = b * y
    BY <1>1, <2>1
  <2> HIDE DEF a, b
  <2>3. (a * b) * y = a * (b * y)
    BY <2>1
  <2>4. QED
    BY <2>1, <2>2, <2>3 DEF a
<1>4. Nat \subseteq Good
  <2> HIDE DEF Good
  <2>1. QED
    BY <1>2, <1>3, NatSetInduction
<1>5. m + n \in Nat
  OBVIOUS
<1>6. QED
  BY <1>1, <1>4, <1>5

\* Powers of what is the same modulo m are.
LEMMA PowersSame ==
  ASSUME NEW m \in Nat \ {0}, NEW y \in Int, NEW z \in Int, Same(y, z, m),
         NEW f, ArePowers(f, y), NEW g, ArePowers(g, z)
  PROVE  \A n \in Nat : Same(f[n], g[n], m)
<1>1. /\ f \in [Nat -> Int] /\ f[0] = 1 /\ \A k \in Nat : f[k + 1] = f[k] * y
      /\ g \in [Nat -> Int] /\ g[0] = 1 /\ \A k \in Nat : g[k + 1] = g[k] * z
  BY DEF ArePowers
<1> DEFINE Good == {k \in Nat : Same(f[k], g[k], m)}
<1>2. 0 \in Good
  BY <1>1, SameIsEquivalence
<1>3. ASSUME NEW k \in Nat, k \in Good PROVE k + 1 \in Good
  <2> DEFINE a == f[k]
             b == g[k]
  <2>1. a \in Int /\ b \in Int /\ Same(a, b, m) /\ f[k + 1] = a * y /\ g[k + 1] = b * z
    BY <1>1, <1>3
  <2> HIDE DEF a, b
  <2>2. Same(a * y, b * z, m)
    BY <2>1, SameProduct
  <2>3. QED
    BY <2>1, <2>2
<1>4. Nat \subseteq Good
  <2> HIDE DEF Good
  <2>1. QED
    BY <1>2, <1>3, NatSetInduction
<1>5. QED
  BY <1>4

\* The powers of a square.
LEMMA PowersOfSquare ==
  ASSUME NEW y \in Int, NEW f, ArePowers(f, y), NEW g, ArePowers(g, y * y)
  PROVE  \A n \in Nat : g[n] = f[2 * n]
<1>1. /\ f \in [Nat -> Int] /\ f[0] = 1 /\ \A k \in Nat : f[k + 1] = f[k] * y
      /\ g \in [Nat -> Int] /\ g[0] = 1 /\ \A k \in Nat : g[k + 1] = g[k] * (y * y)
  BY DEF ArePowers
<1> DEFINE Good == {k \in Nat : g[k] = f[2 * k]}
<1>2. 0 \in Good
  <2>1. 2 * 0 = 0
    OBVIOUS
  <2>2. QED
    BY <1>1, <2>1
<1>3. ASSUME NEW k \in Nat, k \in Good PROVE k + 1 \in Good
  <2> DEFINE j == 2 * k
             a == f[j]
  <2>1. j \in Nat /\ j + 1 \in Nat /\ 2 * (k + 1) = (j + 1) + 1 /\ g[k] = a
    BY <1>3
  <2> HIDE DEF j
  <2>2. a \in Int /\ f[j + 1] = a * y
    BY <1>1, <2>1
  <2> HIDE DEF a
  <2>3. f[(j + 1) + 1] = (a * y) * y
    BY <1>1, <2>1, <2>2
  <2>4. (a * y) * y = a * (y * y)
    BY <2>2
  <2>5. g[k + 1] = a * (y * y)
    BY <1>1, <2>1
  <2>6. QED
    BY <2>1, <2>3, <2>4, <2>5
<1>4. Nat \subseteq Good
  <2> HIDE DEF Good
  <2>1. QED
    BY <1>2, <1>3, NatSetInduction
<1>5. QED
  BY <1>4

\* y^(P - 1) is 1 modulo P: multiplying by y permutes 1 .. P - 1.
LEMMA Fermat ==
  ASSUME NEW y \in 1 .. (P - 1), NEW f, ArePowers(f, y)
  PROVE  Same(f[P - 1], 1, P)
<1> DEFINE U == 1 .. (P - 1)
           id == [e \in U |-> e]
           g == [e \in U |-> (y * e) % P]
           Image(s) == {g[e] : e \in s}
           zero == 0
           one == 1
<1>1. P \in Nat \ {0} /\ P \in Nat /\ P > 3 /\ PrimeModulus(P) /\ zero % P = zero /\ y \in Int
  BY ScalarSizes, SmallResidues
<1>2. ASSUME NEW e \in U PROVE ~Same(e, 0, P) /\ e \in Int
  BY <1>1, <1>2, ModOfSmall DEF Same
<1>3. ASSUME NEW e \in U PROVE g[e] \in U /\ Same(g[e], y * e, P) /\ g[e] \in Int
  <2> DEFINE a == y * e
             r == a % P
  <2>1. a \in Int /\ e \in Int
    BY <1>1
  <2>2. ~Same(a, 0, P)
    BY <1>1, <1>2, <2>1, ProductZero
  <2>3. g[e] = r
    OBVIOUS
  <2> HIDE DEF a, g
  <2>4. r \in 0 .. (P - 1) /\ Same(r, a, P) /\ r # 0
    <3>1. r \in 0 .. (P - 1)
      BY <1>1, <2>1, DivMod
    <3>2. Same(r, a, P)
      BY <1>1, <2>1, SameAsResidue
    <3>3. r # 0
      BY <1>1, <2>2 DEF Same
    <3>4. QED
      BY <3>1, <3>2, <3>3
  <2> HIDE DEF r
  <2>5. r \in U /\ r \in Int
    BY <1>1, <2>4
  <2>6. QED
    BY <2>3, <2>4, <2>5 DEF a
<1>4. ASSUME NEW d \in U, NEW e \in U, g[d] = g[e] PROVE d = e
  <2>1. d \in 0 .. (P - 1) /\ e \in 0 .. (P - 1) /\ d \in Int /\ e \in Int /\ y * d = d * y /\ y * e = e * y
    BY <1>1
  <2> HIDE DEF g
  <2>2. Same(y * d, y * e, P)
    BY <1>3, <1>4 DEF Same
  <2>3. Same(d * y, e * y, P)
    BY <2>1, <2>2
  <2>4. Same(d, e, P)
    BY <1>1, <1>2, <2>1, <2>3, SameCancelled
  <2>5. QED
    BY <2>1, <2>4, EqualCoordinates
<1>5. Image(U) = U
  <2>1. Image(U) \subseteq U
    <3> HIDE DEF g
    <3>1. QED
      BY <1>3
  <2>2. PICK w \in 0 .. (P - 1) : Same(w * y, 1, P)
    BY <1>1, <1>2, InverseModulo
  <2>3. ASSUME NEW e \in U PROVE e \in Image(U)
    <3> DEFINE a == w * e
               d == a % P
               wy == w * y
    <3>1. w \in Int /\ e \in Int /\ a \in Int /\ wy \in Int /\ one \in Int /\ one * e = e
      BY <1>1
    <3>2. y * a = wy * e
      BY <1>1, <3>1
    <3> HIDE DEF a
    <3>3. d \in 0 .. (P - 1) /\ d \in Int
      <4>1. a % P \in 0 .. (P - 1)
        BY <1>1, <3>1, DivMod
      <4>2. QED
        BY <1>1, <4>1
    <3>4. Same(d, a, P) /\ Same(y, y, P) /\ Same(e, e, P) /\ Same(wy, one, P)
      BY <1>1, <2>2, <3>1, SameAsResidue, SameIsEquivalence
    <3> HIDE DEF d, wy, one
    <3>5. Same(y * d, y * a, P)
      BY <1>1, <3>1, <3>3, <3>4, SameProduct
    <3>6. Same(wy * e, one * e, P)
      BY <1>1, <3>1, <3>4, SameProduct
    <3>7. Same(y * d, e, P)
      BY <3>1, <3>2, <3>5, <3>6 DEF Same
    <3>8. d # 0
      <4>1. SUFFICES ASSUME d = 0 PROVE FALSE
        OBVIOUS
      <4>2. y * d = 0
        BY <1>1, <4>1
      <4>3. QED
        BY <1>2, <3>7, <4>2 DEF Same
    <3>9. d \in U
      BY <1>1, <3>3, <3>8
    <3> HIDE DEF g
    <3>10. Same(g[d], e, P)
      BY <1>3, <3>7, <3>9 DEF Same
    <3>11. g[d] = e
      <4>1. g[d] \in 0 .. (P - 1) /\ e \in 0 .. (P - 1)
        BY <1>1, <1>3, <3>9
      <4>2. QED
        BY <3>10, <4>1, EqualCoordinates
    <3>12. QED
      BY <3>9, <3>11
  <2>4. QED
    BY <2>1, <2>3
<1>6. IsFiniteSet(U) /\ Cardinality(U) = P - 1
  <2>1. one \in Int /\ P - 1 \in Int /\ ~(one > P - 1) /\ (P - 1) - one + 1 = P - 1
    BY <1>1
  <2> HIDE DEF one
  <2>2. IsFiniteSet(one .. (P - 1)) /\ Cardinality(one .. (P - 1)) = (P - 1) - one + 1
    BY <2>1, FS_Interval
  <2>3. QED
    BY <2>1, <2>2 DEF one
<1>7. id \in [U -> Int] /\ g \in [U -> Int]
  <2>1. id \in [U -> Int]
    OBVIOUS
  <2>2. \A e \in U : (y * e) % P \in Int
    BY <1>3
  <2>3. QED
    BY <2>1, <2>2
<1>8. PICK F : Multiplies(F, U, id)
  <2> HIDE DEF U, id
  <2>1. QED
    BY <1>6, <1>7, ProductsExist
<1>9. PICK H : Multiplies(H, U, g)
  <2> HIDE DEF U, g
  <2>1. QED
    BY <1>6, <1>7, ProductsExist
<1>10. /\ F \in [SUBSET U -> Int] /\ F[{}] = 1
       /\ \A s \in SUBSET U : \A x \in s : F[s] = x * F[s \ {x}]
  <2>1. \A x \in U : id[x] = x
    OBVIOUS
  <2> HIDE DEF id, U
  <2>2. QED
    BY <1>8, <2>1 DEF Multiplies
<1>11. /\ H \in [SUBSET U -> Int] /\ H[{}] = 1
       /\ \A s \in SUBSET U : \A x \in s : H[s] = g[x] * H[s \ {x}]
  <2> HIDE DEF g, U
  <2>1. QED
    BY <1>9 DEF Multiplies
<1>12. \A s \in SUBSET U : IsFiniteSet(s) /\ Cardinality(s) \in Nat
  <2> HIDE DEF U
  <2>1. QED
    BY <1>6, FS_Subset, FS_CardinalityType
<1>13. /\ f \in [Nat -> Int] /\ f[0] = 1 /\ \A k \in Nat : f[k + 1] = f[k] * y
  BY DEF ArePowers
<1> DEFINE Scaled == {s \in SUBSET U : Same(H[s], f[Cardinality(s)] * F[s], P)}
           Permuted == {s \in SUBSET U : H[s] = F[Image(s)]}
           Nonzero == {s \in SUBSET U : ~Same(F[s], 0, P)}
<1>14. SUBSET U \subseteq Scaled
  <2>1. {} \in Scaled
    <3>1. Cardinality({}) = 0 /\ 1 * 1 = 1
      BY FS_EmptySet
    <3>2. H[{}] = f[Cardinality({})] * F[{}]
      BY <1>10, <1>11, <1>13, <3>1
    <3>3. QED
      BY <3>2, SameIsEquivalence
  <2>2. ASSUME NEW s \in SUBSET U, s # {}, \A x \in s : s \ {x} \in Scaled PROVE s \in Scaled
    <3>1. PICK x \in s : TRUE
      BY <2>2
    <3> DEFINE t == s \ {x}
               k == Cardinality(t)
               a == H[t]
               b == F[t]
               p == f[k]
               pb == p * b
               gx == g[x]
               yx == y * x
    <3>2. t \in SUBSET U /\ k \in Nat /\ x \in U /\ x \in Int
      BY <1>1, <1>12
    <3>3. Cardinality(s) = k + 1
      <4>1. IsFiniteSet(s) /\ Cardinality(s) \in Nat
        BY <1>12
      <4>2. k = Cardinality(s) - 1
        BY <4>1, FS_RemoveElement
      <4>3. QED
        BY <4>1, <4>2
    <3>4. Same(a, pb, P)
      BY <2>2
    <3>5. H[s] = gx * a /\ F[s] = x * b
      BY <1>10, <1>11
    <3>6. gx \in Int /\ Same(gx, yx, P) /\ yx \in Int
      <4> HIDE DEF g
      <4>1. QED
        BY <1>1, <1>3, <3>2
    <3> HIDE DEF t, k, gx
    <3>7. a \in Int /\ b \in Int /\ p \in Int /\ f[k + 1] = p * y
      <4> HIDE DEF U
      <4>1. QED
        BY <1>10, <1>11, <1>13, <3>2
    <3> HIDE DEF a, b, p
    <3>8. pb \in Int /\ yx * pb = (p * y) * (x * b)
      <4>1. (y * x) * (p * b) = (p * y) * (x * b)
        BY <1>1, <3>2, <3>7
      <4>2. QED
        BY <3>7, <4>1
    <3> HIDE DEF pb, yx
    <3>9. Same(gx * a, yx * pb, P)
      BY <1>1, <3>4, <3>6, <3>7, <3>8, SameProduct
    <3>10. f[Cardinality(s)] * F[s] = yx * pb
      BY <3>3, <3>5, <3>7, <3>8
    <3>11. QED
      BY <3>5, <3>9, <3>10
  <2>3. QED
    <3> HIDE DEF Scaled, U
    <3>1. QED
      BY <1>6, <2>1, <2>2, SubsetInduction
<1>15. SUBSET U \subseteq Permuted
  <2>1. {} \in Permuted
    <3>1. Image({}) = {}
      OBVIOUS
    <3>2. QED
      BY <1>10, <1>11, <3>1
  <2>2. ASSUME NEW s \in SUBSET U, s # {}, \A x \in s : s \ {x} \in Permuted PROVE s \in Permuted
    <3>1. PICK x \in s : TRUE
      BY <2>2
    <3> HIDE DEF g
    <3>2. Image(s) \in SUBSET U /\ g[x] \in Image(s) /\ x \in U
      BY <1>3
    <3>3. Image(s) \ {g[x]} = Image(s \ {x})
      <4>1. \A e \in s : g[e] = g[x] => e = x
        BY <1>4
      <4>2. QED
        BY <4>1
    <3>4. H[s \ {x}] = F[Image(s \ {x})]
      BY <2>2
    <3> HIDE DEF Image
    <3>5. F[Image(s)] = g[x] * F[Image(s) \ {g[x]}]
      BY <1>10, <3>2
    <3>6. H[s] = g[x] * H[s \ {x}]
      BY <1>11
    <3>7. H[s] = F[Image(s)]
      BY <3>3, <3>4, <3>5, <3>6
    <3>8. QED
      BY <3>7
  <2>3. QED
    <3> HIDE DEF Permuted, U
    <3>1. QED
      BY <1>6, <2>1, <2>2, SubsetInduction
<1>16. SUBSET U \subseteq Nonzero
  <2>1. {} \in Nonzero
    <3>1. ~Same(1, 0, P)
      BY <1>1, SmallResidues DEF Same
    <3>2. QED
      BY <1>10, <3>1
  <2>2. ASSUME NEW s \in SUBSET U, s # {}, \A x \in s : s \ {x} \in Nonzero PROVE s \in Nonzero
    <3>1. PICK x \in s : TRUE
      BY <2>2
    <3> DEFINE b == F[s \ {x}]
    <3>2. x \in U /\ x \in Int /\ b \in Int /\ F[s] = x * b /\ ~Same(b, 0, P)
      <4>1. x \in U /\ x \in Int /\ s \ {x} \in SUBSET U
        OBVIOUS
      <4>2. s \ {x} \in Nonzero
        BY <2>2
      <4>3. F[s] = x * F[s \ {x}] /\ F[s \ {x}] \in Int
        <5> HIDE DEF U
        <5>1. QED
          BY <1>10, <4>1
      <4>4. QED
        BY <4>1, <4>2, <4>3
    <3> HIDE DEF b
    <3>3. ~Same(x, 0, P)
      BY <1>2, <3>2
    <3>4. ~Same(x * b, 0, P)
      BY <1>1, <3>2, <3>3, ProductZero
    <3>5. QED
      BY <3>2, <3>4
  <2>3. QED
    <3> HIDE DEF Nonzero, U
    <3>1. QED
      BY <1>6, <2>1, <2>2, SubsetInduction
<1> HIDE DEF Image, g, id
<1>17. U \in SUBSET U
  OBVIOUS
<1>18. Same(H[U], f[Cardinality(U)] * F[U], P) /\ H[U] = F[U] /\ ~Same(F[U], 0, P) /\ F[U] \in Int
  <2>1. H[U] = F[Image(U)]
    BY <1>15, <1>17
  <2> HIDE DEF U
  <2>2. QED
    BY <1>5, <1>10, <1>14, <1>16, <1>17, <2>1
<1> DEFINE p == f[P - 1]
           u == F[U]
<1>19. p \in Int /\ u \in Int /\ one * u = u
  <2>1. P - 1 \in Nat
    BY <1>1
  <2> HIDE DEF U
  <2>2. QED
    BY <1>13, <1>18, <2>1
<1>20. Same(u, p * u, P)
  BY <1>6, <1>18
<1> HIDE DEF U, u, p
<1>21. Same(p * u, one * u, P)
  BY <1>19, <1>20, SameIsEquivalence
<1>22. ~Same(u, 0, P)
  BY <1>18 DEF u
<1>23. Same(p, one, P)
  <2>1. one \in Int
    OBVIOUS
  <2> HIDE DEF one
  <2>2. QED
    BY <1>1, <1>19, <1>21, <1>22, <2>1, SameCancelled
<1>24. QED
  BY <1>23 DEF p, one

-----------------------------------------------------------------------------
(* Square roots *)

\* A residue modulo P is a field element that is the same.
LEMMA ResidueOfP == ASSUME NEW k \in Int PROVE k % P \in 0 .. (P - 1) /\ k % P \in Int /\ Same(k % P, k, P)
<1>1. P \in Nat \ {0}
  BY ScalarSizes
<1>2. k % P \in 0 .. (P - 1)
  BY <1>1, DivMod
<1>3. Same(k % P, k, P)
  BY <1>1, SameAsResidue
<1>4. k % P \in Int
  BY <1>1, <1>2
<1> HIDE DEF Same
<1>5. QED
  BY <1>2, <1>3, <1>4

\* exp computes a power, by the squares of a that the bits of the exponent choose.
LEMMA SquareRootIsPower ==
  ASSUME NEW a \in 0 .. (P - 1), NEW g, ArePowers(g, a)
  PROVE  \E x \in 0 .. (P - 1) :
           /\ Same(x, g[(P + 1) \div 4], P)
           /\ SquareRoot(a) = IF (x * x) % P = a THEN x ELSE 0
<1> DEFINE E == (P + 1) \div 4
           V == 0 .. (P - 1)
           zero == 0
           one == 1
           PowerBody(h) == [i \in 0 .. Bits |-> IF i = 0 THEN a ELSE (h[i - 1] * h[i - 1]) % P]
           power == CHOOSE h : h = PowerBody(h)
           Bit(i) == (E \div (2 ^ i)) % 2
           RootBody(h) == [i \in 0 .. Bits |->
             IF i = 0 THEN 1
             ELSE IF (((P + 1) \div 4) \div (2 ^ (i - 1))) % 2 = 1 THEN (h[i - 1] * power[i - 1]) % P
             ELSE h[i - 1]]
           root == CHOOSE h : h = RootBody(h)
           G == [p \in (zero .. Bits) \X V |-> (p[2] * p[2]) % P]
           R == [p \in (zero .. Bits) \X V |-> IF Bit(p[1] - 1) = 1 THEN (p[2] * power[p[1] - 1]) % P ELSE p[2]]
<1>1. /\ P \in Nat \ {0} /\ P \in Nat /\ P > 3 /\ Bits \in Nat /\ E \in Nat /\ E < P
      /\ P < Size /\ Size \in Nat /\ Size <= 2 ^ Bits /\ a \in Int /\ a \in V
  BY ScalarSizes
<1>2. SquareRoot(a) = IF (root[Bits] * root[Bits]) % P = a THEN root[Bits] ELSE 0
  BY DEF SquareRoot
<1>3. /\ g \in [Nat -> Int] /\ g[0] = 1 /\ \A k \in Nat : g[k + 1] = g[k] * a
  BY DEF ArePowers
<1>4. PICK h \in [zero .. Bits -> V] : IteratesOn(h, zero, Bits, a, G)
  <2>1. G \in [(zero .. Bits) \X V -> V]
    <3>1. \A v \in V : v * v \in Int
      BY <1>1
    <3>2. \A v \in V : (v * v) % P \in V
      BY <3>1, ResidueOfP
    <3> HIDE DEF V
    <3>3. QED
      BY <3>2
  <2>2. zero \in Nat
    OBVIOUS
  <2> HIDE DEF G, V, zero
  <2>3. QED
    BY <1>1, <2>1, <2>2, RangeIterationExists
<1>5. h = PowerBody(h)
  <2>1. \A i \in 0 .. Bits : h[i] = IF i = 0 THEN a ELSE G[<<i, h[i - 1]>>]
    <3> HIDE DEF G, V
    <3>1. QED
      BY <1>4 DEF IteratesOn
  <2>2. ASSUME NEW i \in 0 .. Bits, i # 0 PROVE G[<<i, h[i - 1]>>] = (h[i - 1] * h[i - 1]) % P
    <3>1. i - 1 \in 0 .. Bits
      BY <1>1, <2>2
    <3> HIDE DEF V
    <3>2. h[i - 1] \in V
      BY <3>1
    <3>3. QED
      BY <3>2
  <2> HIDE DEF G, V
  <2>3. \A i \in 0 .. Bits : h[i] = IF i = 0 THEN a ELSE (h[i - 1] * h[i - 1]) % P
    BY <2>1, <2>2
  <2>4. QED
    BY <2>3
<1>6. power = PowerBody(power)
  <2> HIDE DEF PowerBody
  <2>1. QED
    BY <1>5
<1> HIDE DEF power, G
<1> DEFINE Squares == {i \in Nat : i <= Bits => power[i] \in V /\ Same(power[i], g[2 ^ i], P)}
<1>7. 0 \in Squares
  <2>1. power[0] = a
    BY <1>1, <1>6
  <2>2. g[2 ^ 0] = a
    <3>1. 2 ^ 0 = 0 + 1 /\ 1 * a = a
      BY <1>1, PowerZero
    <3>2. QED
      BY <1>3, <3>1
  <2> HIDE DEF V
  <2>3. QED
    BY <1>1, <2>1, <2>2, SameIsEquivalence
<1>8. ASSUME NEW i \in Nat, i \in Squares PROVE i + 1 \in Squares
  <2> SUFFICES ASSUME i + 1 <= Bits
               PROVE  power[i + 1] \in V /\ Same(power[i + 1], g[2 ^ (i + 1)], P)
    OBVIOUS
  <2> DEFINE b == power[i]
             bb == b * b
             m == 2 ^ i
             c == g[m]
  <2>1. i + 1 \in 0 .. Bits /\ i + 1 # 0 /\ (i + 1) - 1 = i /\ i <= Bits
    BY <1>1
  <2>2. power[i + 1] = bb % P
    BY <1>6, <2>1
  <2>3. b \in V /\ Same(b, c, P) /\ b \in Int
    BY <1>1, <1>8, <2>1
  <2>4. m \in Nat /\ 2 ^ (i + 1) = m + m
    <3>1. 2 ^ i \in Nat /\ 2 ^ (i + 1) = 2 * 2 ^ i
      BY PowerType, PowerNext
    <3> HIDE DEF m
    <3>2. m \in Nat /\ 2 ^ (i + 1) = 2 * m
      BY <3>1 DEF m
    <3>3. 2 * m = m + m
      BY <3>2
    <3>4. QED
      BY <3>2, <3>3
  <2> HIDE DEF b, m
  <2>5. g[m + m] = c * c /\ c \in Int
    BY <1>1, <2>4, PowersAdd
  <2> HIDE DEF c
  <2>6. Same(bb, c * c, P) /\ bb \in Int
    BY <1>1, <2>3, <2>5, SameProduct
  <2> HIDE DEF bb
  <2>7. bb % P \in V /\ Same(bb % P, bb, P)
    BY <2>6, ResidueOfP
  <2>8. QED
    BY <2>2, <2>4, <2>5, <2>6, <2>7 DEF Same
<1>9. Nat \subseteq Squares
  <2> HIDE DEF Squares
  <2>1. QED
    BY <1>7, <1>8, NatSetInduction
<1>10. \A i \in 0 .. Bits : power[i] \in V /\ Same(power[i], g[2 ^ i], P)
  <2> HIDE DEF V
  <2>1. QED
    BY <1>1, <1>9
<1>11. PICK r \in [zero .. Bits -> V] :
         /\ r[0] = 1
         /\ \A i \in 0 .. Bits :
              i # 0 => r[i] = IF Bit(i - 1) = 1 THEN (r[i - 1] * power[i - 1]) % P ELSE r[i - 1]
         /\ r = RootBody(r)
  <2> DEFINE S == [p \in (zero .. Bits) \X V |->
                     IF p[1] = 0 THEN p[2]
                     ELSE IF Bit(p[1] - 1) = 1 THEN (p[2] * power[p[1] - 1]) % P ELSE p[2]]
  <2> HIDE DEF Bit
  <2>1. S \in [(zero .. Bits) \X V -> V]
    <3>1. ASSUME NEW i \in 0 .. Bits, NEW v \in V, i # 0 PROVE (v * power[i - 1]) % P \in V
      <4> DEFINE b == power[i - 1]
      <4>1. i - 1 \in 0 .. Bits
        BY <1>1, <3>1
      <4>2. b \in Int /\ v \in Int
        BY <1>1, <1>10, <4>1
      <4> HIDE DEF b
      <4>3. v * b \in Int
        BY <4>2
      <4>4. QED
        BY <4>3, ResidueOfP DEF b
    <3>2. zero .. Bits = 0 .. Bits
      OBVIOUS
    <3> HIDE DEF V, zero
    <3>3. QED
      BY <3>1, <3>2
  <2>2. zero \in Nat /\ one \in V
    BY <1>1
  <2>3. PICK q \in [zero .. Bits -> V] : IteratesOn(q, zero, Bits, one, S)
    <3> HIDE DEF S, V, zero, one
    <3>1. QED
      BY <1>1, <2>1, <2>2, RangeIterationExists
  <2>4. \A i \in 0 .. Bits : q[i] = IF i = 0 THEN 1 ELSE S[<<i, q[i - 1]>>]
    <3> HIDE DEF S, V
    <3>1. QED
      BY <2>3 DEF IteratesOn
  <2>5. ASSUME NEW i \in 0 .. Bits, i # 0
        PROVE  S[<<i, q[i - 1]>>] = IF Bit(i - 1) = 1 THEN (q[i - 1] * power[i - 1]) % P ELSE q[i - 1]
    <3>1. i - 1 \in 0 .. Bits
      BY <1>1, <2>5
    <3> HIDE DEF V
    <3>2. q[i - 1] \in V
      BY <3>1
    <3>3. QED
      BY <2>5, <3>2
  <2> HIDE DEF S, V
  <2>6. /\ q[0] = 1
        /\ \A i \in 0 .. Bits :
              i # 0 => q[i] = IF Bit(i - 1) = 1 THEN (q[i - 1] * power[i - 1]) % P ELSE q[i - 1]
    <3>1. 0 \in 0 .. Bits
      BY <1>1
    <3>2. q[0] = 1
      BY <2>4, <3>1
    <3>3. ASSUME NEW i \in 0 .. Bits, i # 0
          PROVE  q[i] = IF Bit(i - 1) = 1 THEN (q[i - 1] * power[i - 1]) % P ELSE q[i - 1]
      <4>1. q[i] = S[<<i, q[i - 1]>>]
        BY ONLY <2>4, <3>3
      <4>2. QED
        BY ONLY <2>5, <3>3, <4>1
    <3>4. QED
      BY <3>2, <3>3
  <2>7. \A i \in 0 .. Bits : q[i] = RootBody(q)[i]
    BY <2>6 DEF Bit
  <2>8. q = RootBody(q)
    BY <2>7
  <2>9. QED
    BY <2>6, <2>8
<1>12. root = RootBody(root)
  <2> HIDE DEF RootBody
  <2>1. QED
    BY <1>11
<1>13. /\ root[0] = 1
       /\ \A i \in 0 .. Bits :
            i # 0 => root[i] = IF Bit(i - 1) = 1 THEN (root[i - 1] * power[i - 1]) % P ELSE root[i - 1]
  <2>1. 0 \in 0 .. Bits
    BY <1>1
  <2>2. QED
    BY <1>12, <2>1
<1> HIDE DEF root, RootBody, PowerBody, R
<1> DEFINE Roots == {i \in Nat : i <= Bits => root[i] \in V /\ Same(root[i], g[E % (2 ^ i)], P)}
<1>14. 0 \in Roots
  <2>1. E % (2 ^ 0) = 0
    BY <1>1, PowerZero
  <2>2. root[0] \in V /\ root[0] = g[E % (2 ^ 0)]
    BY <1>1, <1>3, <1>13, <2>1
  <2> HIDE DEF V, E
  <2>3. QED
    BY <2>2, SameIsEquivalence
<1>15. ASSUME NEW i \in Nat, i \in Roots PROVE i + 1 \in Roots
  <2> SUFFICES ASSUME i + 1 <= Bits
               PROVE  root[i + 1] \in V /\ Same(root[i + 1], g[E % (2 ^ (i + 1))], P)
    OBVIOUS
  <2> DEFINE b == root[i]
             w == power[i]
             bw == b * w
             m == 2 ^ i
             two == 2
             k == E % m
             c == g[k]
             d == g[m]
  <2>1. i + 1 \in 0 .. Bits /\ i + 1 # 0 /\ (i + 1) - 1 = i /\ i <= Bits /\ i \in 0 .. Bits
    BY <1>1
  <2>2. root[i + 1] = IF Bit(i) = 1 THEN bw % P ELSE b
    <3> HIDE DEF Bit
    <3>1. QED
      BY <1>13, <2>1
  <2>3. b \in V /\ Same(b, c, P) /\ b \in Int
    BY <1>1, <1>15, <2>1
  <2>4. w \in V /\ Same(w, d, P) /\ w \in Int
    BY <1>1, <1>10, <2>1
  <2>5. m \in Nat \ {0} /\ 2 ^ (i + 1) = m * two /\ two \in Nat \ {0}
    <3>1. 2 ^ i \in Nat \ {0} /\ 2 ^ (i + 1) = 2 * 2 ^ i
      BY PowerType, PowerNext
    <3> HIDE DEF m
    <3>2. m \in Nat \ {0} /\ 2 ^ (i + 1) = 2 * m
      BY <3>1 DEF m
    <3>3. 2 * m = m * 2
      BY <3>2
    <3>4. QED
      BY <3>2, <3>3
  <2> HIDE DEF m, two, b, w
  <2>6. E % (m * two) = m * ((E \div m) % two) + (E % m)
    <3>1. E \in Int
      BY <1>1
    <3> HIDE DEF E
    <3>2. QED
      BY <2>5, <3>1, DivModProduct
  <2>7. (E \div m) % two = Bit(i) /\ Bit(i) \in {0, 1}
    <3>1. E \div m \in 0 .. E
      <4> HIDE DEF E
      <4>1. QED
        BY <1>1, <2>5, DivSmall
    <3> DEFINE j == E \div m
    <3>2. j \in Nat
      BY <1>1, <3>1
    <3> HIDE DEF j
    <3>3. j % 2 \in {0, 1}
      BY <3>2
    <3>4. QED
      BY <3>3 DEF j, m, two
  <2> HIDE DEF Bit
  <2>8. k \in Nat
    <3>1. E \in Int
      BY <1>1
    <3> HIDE DEF E
    <3>2. E % m \in 0 .. (m - 1)
      BY <2>5, <3>1, DivMod
    <3>3. QED
      BY <2>5, <3>2
  <2>9. E % (2 ^ (i + 1)) = m * Bit(i) + k
    BY <2>5, <2>6, <2>7
  <2> HIDE DEF k, E
  <2>10. CASE Bit(i) = 1
    <3>1. E % (2 ^ (i + 1)) = k + m
      BY <2>5, <2>8, <2>9, <2>10
    <3>2. g[k + m] = c * d /\ c \in Int /\ d \in Int
      BY <1>1, <2>5, <2>8, PowersAdd
    <3> HIDE DEF c, d
    <3>3. Same(bw, c * d, P) /\ bw \in Int
      BY <1>1, <2>3, <2>4, <3>2, SameProduct
    <3> HIDE DEF bw
    <3>4. bw % P \in V /\ Same(bw % P, bw, P)
      BY <3>3, ResidueOfP
    <3>5. QED
      BY <2>2, <2>10, <3>1, <3>2, <3>3, <3>4 DEF Same
  <2>11. CASE Bit(i) = 0
    <3>1. E % (2 ^ (i + 1)) = k
      BY <2>5, <2>8, <2>9, <2>11
    <3>2. root[i + 1] = b
      BY <2>2, <2>11
    <3> HIDE DEF V
    <3>3. QED
      BY <2>3, <3>1, <3>2
  <2>12. QED
    BY <2>7, <2>10, <2>11
<1>16. Nat \subseteq Roots
  <2> HIDE DEF Roots
  <2>1. QED
    BY <1>14, <1>15, NatSetInduction
<1>17. root[Bits] \in V /\ Same(root[Bits], g[E % (2 ^ Bits)], P)
  <2>1. Bits <= Bits
    BY <1>1
  <2> HIDE DEF V, E
  <2>2. QED
    BY <1>1, <1>16, <2>1
<1>18. E % (2 ^ Bits) = E
  <2> DEFINE m == 2 ^ Bits
  <2>1. m \in Nat \ {0}
    BY <1>1, PowerType
  <2>2. E \in 0 .. (m - 1)
    BY <1>1, <2>1
  <2> HIDE DEF m, E
  <2>3. E % m = E
    BY <2>1, <2>2, ModOfSmall
  <2>4. QED
    BY <2>3 DEF m
<1>19. QED
  BY <1>2, <1>17, <1>18

\* modsqrt finds a root of every square: P is 3 modulo 4, and Fermat.
LEMMA SquareRootIsExact ==
  ASSUME NEW y \in 1 .. (P - 1), NEW a \in 0 .. (P - 1), (y * y) % P = a
  PROVE  SquareRoot(a) \in 1 .. (P - 1) /\ (SquareRoot(a) * SquareRoot(a)) % P = a
<1> DEFINE E == (P + 1) \div 4
           yy == y * y
<1>1. /\ P \in Nat \ {0} /\ P \in Nat /\ P > 3 /\ E \in Nat /\ E + E \in Nat
      /\ 2 * (E + E) = (P - 1) + 2 /\ P - 1 \in Nat /\ PrimeModulus(P)
  BY ScalarSizes
<1>2. y \in Int /\ yy \in Int /\ a \in Int
  BY <1>1
<1>3. PICK f : ArePowers(f, y)
  BY <1>2, PowersExist
<1>4. PICK g : ArePowers(g, yy)
  <2> HIDE DEF yy
  <2>1. QED
    BY <1>2, PowersExist
<1>5. PICK h : ArePowers(h, a)
  BY <1>2, PowersExist
<1>6. PICK x \in 0 .. (P - 1) : /\ Same(x, h[E], P)
                                /\ SquareRoot(a) = IF (x * x) % P = a THEN x ELSE 0
  BY <1>5, SquareRootIsPower
<1>7. g[E + E] = f[2 * (E + E)]
  <2> HIDE DEF E
  <2>1. QED
    BY <1>1, <1>2, <1>3, <1>4, PowersOfSquare
<1>8. f[(P - 1) + 2] = f[P - 1] * yy /\ f[P - 1] \in Int
  <2> DEFINE n == P - 1
             two == 2
  <2>1. n \in Nat /\ two \in Nat
    BY <1>1
  <2>2. f[two] = yy
    <3>1. f[0] = 1 /\ (\A k \in Nat : f[k + 1] = f[k] * y) /\ two = (0 + 1) + 1
      BY <1>3 DEF ArePowers
    <3>2. f[0 + 1] = 1 * y
      BY <3>1
    <3>3. 1 * y = y /\ 0 + 1 \in Nat
      BY <1>2
    <3>4. f[two] = f[0 + 1] * y
      BY <3>1, <3>3
    <3>5. QED
      BY <3>2, <3>3, <3>4
  <2> HIDE DEF n, two, yy
  <2>3. f[n + two] = f[n] * f[two] /\ f[n] \in Int
    BY <1>2, <1>3, <2>1, PowersAdd
  <2>4. QED
    BY <2>2, <2>3 DEF n, two
<1> DEFINE p == f[P - 1]
           one == 1
           c == h[E]
<1>9. Same(p, one, P)
  BY <1>3, Fermat
<1>10. Same(g[E + E], yy, P) /\ g[E + E] = p * yy
  <2>1. p \in Int /\ one \in Int /\ Same(yy, yy, P) /\ one * yy = yy
    BY <1>2, <1>8, SameIsEquivalence
  <2>2. g[E + E] = p * yy
    BY <1>1, <1>7, <1>8
  <2> HIDE DEF p, one, yy, E
  <2>3. Same(p * yy, one * yy, P)
    BY <1>1, <1>2, <1>9, <2>1, SameProduct
  <2>4. QED
    BY <2>1, <2>2, <2>3
<1>11. Same(h[E + E], g[E + E], P) /\ h[E + E] = c * c /\ c \in Int
  <2>1. Same(a, yy, P)
    BY <1>1, <1>2, SameAsResidue DEF Same
  <2> HIDE DEF yy, E
  <2>2. Same(h[E + E], g[E + E], P)
    BY <1>1, <1>2, <1>4, <1>5, <2>1, PowersSame
  <2>3. h[E + E] = h[E] * h[E] /\ h[E] \in Int
    BY <1>1, <1>2, <1>5, PowersAdd
  <2>4. QED
    BY <2>2, <2>3
<1> HIDE DEF c, p, E
<1>12. Same(x * x, c * c, P)
  <2>1. x \in Int /\ Same(x, c, P)
    BY <1>1, <1>6 DEF c
  <2>2. QED
    BY <1>1, <1>11, <2>1, SameProduct
<1>13. (x * x) % P = a
  <2>1. Same(x * x, yy, P)
    BY <1>10, <1>11, <1>12 DEF Same
  <2>2. QED
    BY <2>1 DEF Same
<1>14. x # 0
  <2>1. SUFFICES ASSUME x = 0 PROVE FALSE
    OBVIOUS
  <2>2. a = 0
    <3>1. x * x = 0 /\ 0 % P = 0
      BY <1>1, <2>1, SmallResidues
    <3>2. QED
      BY <1>13, <3>1
  <2>3. Same(yy, 0, P)
    BY <1>1, <2>2, SmallResidues DEF Same
  <2>4. Same(y, 0, P)
    BY <1>1, <1>2, <2>3, ProductZero
  <2>5. y \in 0 .. (P - 1) /\ y # 0
    BY <1>1
  <2>6. y % P = y
    BY <1>1, <2>5, ModOfSmall
  <2>7. QED
    BY <1>1, <2>4, <2>5, <2>6, SmallResidues DEF Same
<1>15. QED
  BY <1>1, <1>6, <1>13, <1>14

\* What modsqrt gives is 0 or a root.
LEMMA SquareRootIsARoot ==
  ASSUME NEW a \in 0 .. (P - 1), SquareRoot(a) # 0
  PROVE  SquareRoot(a) \in 1 .. (P - 1) /\ (SquareRoot(a) * SquareRoot(a)) % P = a
<1>1. P \in Nat /\ a \in Int
  BY ScalarSizes
<1>2. PICK h : ArePowers(h, a)
  BY <1>1, PowersExist
<1>3. PICK x \in 0 .. (P - 1) : SquareRoot(a) = IF (x * x) % P = a THEN x ELSE 0
  BY <1>2, SquareRootIsPower
<1>4. (x * x) % P = a /\ SquareRoot(a) = x /\ x # 0
  BY <1>3
<1>5. QED
  BY <1>1, <1>4

-----------------------------------------------------------------------------
(* What recover returns *)

\* The root that recover takes for x, and the y it makes of it for recovery id w.
RootOf(x) == SquareRoot((x * x * x + 7) % P)
YOf(x, w) == IF RootOf(x) % 2 = w THEN P - RootOf(x) ELSE RootOf(x)

\* The right side of the curve's equation is a field element.
LEMMA EquationResidue ==
  ASSUME NEW x \in 0 .. (P - 1)
  PROVE  (x * x * x + 7) % P \in 0 .. (P - 1)
<1> DEFINE k == x * x * x + 7
<1>1. x \in Int
  BY ScalarSizes
<1>2. k \in Int
  BY <1>1
<1> HIDE DEF k
<1>3. k % P \in 0 .. (P - 1)
  BY <1>2, ResidueOfP
<1>4. QED
  BY <1>3 DEF k

\* The point that recover makes is on the curve.
LEMMA CandidateOnCurve ==
  ASSUME NEW x \in 0 .. (P - 1), NEW w \in {0, 1}, RootOf(x) # 0
  PROVE  /\ Point(x, YOf(x, w)) \in Curve /\ Point(x, YOf(x, w)).x = x
         /\ Point(x, YOf(x, w)).infinity = FALSE
<1> DEFINE a == (x * x * x + 7) % P
           root == RootOf(x)
           y == YOf(x, w)
<1>1. a \in 0 .. (P - 1)
  BY EquationResidue
<1>2. root = SquareRoot(a)
  BY DEF RootOf
<1> HIDE DEF a
<1>3. root \in 1 .. (P - 1) /\ (root * root) % P = a
  BY <1>1, <1>2, SquareRootIsARoot
<1>4. y = P - root \/ y = root
  BY DEF YOf
<1> HIDE DEF root, y
<1>5. y \in 0 .. (P - 1) /\ (y * y) % P = a
  <2>1. P \in Nat /\ root \in 0 .. P
    BY <1>3, ScalarSizes
  <2>2. ((P - root) * (P - root)) % P = (root * root) % P
    BY <2>1, NegatedSquare
  <2>3. P - root \in 0 .. (P - 1) /\ root \in 0 .. (P - 1)
    BY <1>3, <2>1
  <2>4. QED
    BY <1>3, <1>4, <2>2, <2>3
<1>6. Point(x, y) \in Curve /\ Point(x, y).x = x /\ Point(x, y).infinity = FALSE
  BY <1>5, PointOnCurve DEF a
<1>7. QED
  BY <1>6 DEF y

\* Every point but zero is the one that recover makes of its x, for one of the ids.
LEMMA CandidateIsFound ==
  ASSUME NEW a \in Curve, ~a.infinity
  PROVE  RootOf(a.x) # 0 /\ \E w \in {0, 1} : a = Point(a.x, YOf(a.x, w))
<1> DEFINE x == a.x
           y == a.y
           c == (x * x * x + 7) % P
           root == RootOf(x)
<1>1. P \in Nat /\ P % 2 = 1
  BY ScalarSizes
<1>2. x \in 0 .. (P - 1) /\ y \in 0 .. (P - 1) /\ a = Point(x, y) /\ (y * y) % P = c
  BY CurvePoints
<1>3. y \in 1 .. (P - 1)
  BY <1>1, <1>2, NoOrderTwo
<1> HIDE DEF x, y
<1>4. c \in 0 .. (P - 1)
  BY <1>2, EquationResidue
<1>5. root = SquareRoot(c)
  BY DEF RootOf
<1> HIDE DEF c
<1>6. root \in 1 .. (P - 1) /\ (root * root) % P = c
  BY <1>2, <1>3, <1>4, <1>5, SquareRootIsExact
<1>7. \A w \in {0, 1} : YOf(x, w) = IF root % 2 = w THEN P - root ELSE root
  BY DEF YOf
<1> HIDE DEF root
<1>8. root \in 0 .. (P - 1)
  BY <1>1, <1>6
<1>9. y = root \/ y = (P - root) % P
  BY <1>2, <1>6, <1>8, EqualSquares
<1>10. (P - root) % P = P - root
  BY <1>6, <1>8, NegatedCoordinate
<1>11. \E w \in {0, 1} : y = YOf(x, w)
  <2>1. root % 2 \in {0, 1} /\ 1 - (root % 2) \in {0, 1} /\ 1 - (root % 2) # root % 2
    <3>1. root \in Nat
      BY <1>1, <1>6
    <3>2. QED
      BY <3>1
  <2>2. CASE y = root
    BY <1>7, <2>1, <2>2
  <2>3. CASE y = P - root
    BY <1>7, <2>1, <2>3
  <2>4. QED
    BY <1>9, <1>10, <2>2, <2>3
<1>12. root # 0
  BY <1>1, <1>6
<1>13. QED
  BY <1>2, <1>11, <1>12 DEF x, root

\* The elements of a generator's multiple.
LEMMA MultipleOfGenerator ==
  ASSUME NEW d \in 0 .. (Size - 1)
  PROVE  Multiple[Generator][d] = Element(d)
<1> DEFINE one == 1
<1>1. one \in Int /\ Generator = Element(one) /\ one * d = d /\ d \in Int
  BY ElementsAdd, ScalarSizes
<1> HIDE DEF one
<1>2. Multiple[Element(one)][d] = Element(one * d)
  BY <1>1, MultipleIsExact
<1>3. QED
  BY <1>1, <1>2

\* recover returns no key, or that of the equation for the number of its point.
LEMMA RecoverIsElement ==
  ASSUME NEW a \in 0 .. (Size - 1), NEW b \in 0 .. (Size - 1), NEW w \in {0, 1},
         NEW z \in 0 .. (Size - 1)
  PROVE  /\ RootOf(Reduced(a)) = 0 \/ ScalarInverse(a) = 0 => Recover(a, b, w, z) = Infinity
         /\ RootOf(Reduced(a)) # 0 /\ ScalarInverse(a) # 0 =>
              \A t \in Int : Point(Reduced(a), YOf(Reduced(a), w)) = Element(t)
                => Recover(a, b, w, z) = Element(-((t * b + z) * ScalarInverse(a)))
<1> DEFINE x == Reduced(a)
           root == RootOf(x)
           y == YOf(x, w)
           u == ScalarInverse(a)
           negate == Multiple[Generator][Opposed(z)]
<1>1. Recover(a, b, w, z) =
        IF root = 0 \/ u = 0 THEN Infinity
        ELSE Opposite(Multiple[GroupSum[Multiple[Point(x, y)][b]][Opposite(negate)]][u])
  BY DEF Recover, RootOf, YOf
<1>2. SUFFICES ASSUME root # 0, u # 0, NEW t \in Int, Point(x, y) = Element(t)
               PROVE  Recover(a, b, w, z) = Element(-((t * b + z) * u))
  BY <1>1
<1>3. N \in Nat \ {0} /\ Size \in Nat /\ N < Size /\ a \in Int /\ b \in Int /\ z \in Int
  BY ScalarSizes
<1> DEFINE o == Opposed(z)
           m == -o
           n == -z
           nn == -n
           tb == t * b
           c == tb + m
           e == tb + z
<1>4. o \in 0 .. (Size - 1) /\ Same(o, n, N)
  BY OpposedIsExact
<1>5. u \in 0 .. (Size - 1) /\ u \in Int
  <2>1. u \in 0 .. (N - 1)
    BY <1>3, ScalarInverseIsExact
  <2> HIDE DEF u
  <2>2. QED
    BY <1>3, <2>1
<1> HIDE DEF x, root, y, u
<1>6. negate = Element(o)
  BY <1>4, MultipleOfGenerator
<1> HIDE DEF o, negate
<1>7. o \in Int /\ m \in Int /\ n \in Int /\ nn = z /\ tb \in Int /\ c \in Int /\ e \in Int
  BY <1>3, <1>4
<1>8. Opposite(negate) = Element(m)
  BY <1>6, <1>7, ElementOpposite
<1>9. Same(m, z, N)
  <2>1. Same(m, nn, N)
    <3> HIDE DEF n
    <3>1. QED
      BY <1>3, <1>4, <1>7, SameNegated
  <2>2. QED
    BY <1>7, <2>1
<1>10. Multiple[Point(x, y)][b] = Element(tb)
  BY <1>2, MultipleIsExact
<1> HIDE DEF tb, m
<1>11. GroupSum[Multiple[Point(x, y)][b]][Opposite(negate)] = Element(e)
  <2>1. GroupSum[Element(tb)][Element(m)] = Element(c)
    BY <1>7, ElementsAdd
  <2>2. Same(c, e, N)
    <3>1. Same(tb, tb, N)
      BY SameIsEquivalence
    <3>2. QED
      BY <1>3, <1>7, <1>9, <3>1, SameSum
  <2> HIDE DEF c, e
  <2>3. Element(c) = Element(e)
    BY <1>7, <2>2, ElementsEqual
  <2>4. QED
    BY <1>8, <1>10, <2>1, <2>3
<1> HIDE DEF e
<1> DEFINE eu == e * u
<1>12. Multiple[Element(e)][u] = Element(eu) /\ eu \in Int
  BY <1>5, <1>7, MultipleIsExact
<1> HIDE DEF eu
<1>13. Recover(a, b, w, z) = Element(-eu)
  <2>1. Recover(a, b, w, z) = Opposite(Multiple[Element(e)][u])
    BY <1>1, <1>2, <1>11
  <2>2. QED
    BY <1>12, <2>1, ElementOpposite
<1>14. QED
  BY <1>13 DEF eu, e, tb

\* A key that recover returns, and the number of the point it is made from.
LEMMA RecoverFinds ==
  ASSUME NEW a \in 0 .. (Size - 1), NEW b \in 0 .. (Size - 1), NEW w \in {0, 1},
         NEW z \in 0 .. (Size - 1), ~Recover(a, b, w, z).infinity
  PROVE  \E t \in Nat :
           /\ ~Element(t).infinity /\ Element(t).x = Reduced(a)
           /\ ~Same(a, 0, N)
           /\ Recover(a, b, w, z) = Element(-((t * b + z) * ScalarInverse(a)))
<1> DEFINE x == Reduced(a)
           y == YOf(x, w)
<1>1. RootOf(x) # 0 /\ ScalarInverse(a) # 0
  BY RecoverIsElement, CurvePoints
<1>2. a \in Int /\ x \in 0 .. (P - 1)
  BY ScalarSizes, ReducedValue
<1>3. ~Same(a, 0, N)
  BY <1>1, <1>2, ScalarInverseIsExact
<1>4. Point(x, y) \in Curve /\ Point(x, y).x = x /\ Point(x, y).infinity = FALSE
  <2> HIDE DEF x
  <2>1. QED
    BY <1>1, <1>2, CandidateOnCurve
<1>5. PICK t \in Nat : Point(x, y) = Element(t)
  <2> HIDE DEF x, y
  <2>1. QED
    BY <1>4, ElementsAdd
<1>6. t \in Int
  OBVIOUS
<1>7. Recover(a, b, w, z) = Element(-((t * b + z) * ScalarInverse(a)))
  BY <1>1, <1>5, <1>6, RecoverIsElement
<1>8. ~Element(t).infinity /\ Element(t).x = x
  <2> HIDE DEF x, y
  <2>1. QED
    BY <1>4, <1>5
<1>9. QED
  BY <1>3, <1>7, <1>8

-----------------------------------------------------------------------------
(* The equations of ECDSA, modulo N *)

\* N, for the lemmas on what is the same modulo m.
LEMMA OrderModulus ==
  N \in Nat \ {0} /\ N \in Nat /\ PrimeModulus(N) /\ N > 3 /\ ~Same(1, 0, N) /\ ~Same(2, 0, N)
<1> DEFINE two == 2
<1>1. N \in Nat \ {0} /\ N \in Nat /\ PrimeModulus(N) /\ N > 3
  BY ScalarSizes
<1>2. 0 % N = 0 /\ 1 % N = 1
  BY <1>1, SmallResidues
<1>3. two \in 0 .. (N - 1) /\ two # 0
  BY <1>1
<1> HIDE DEF two
<1>4. two % N = two
  BY <1>1, <1>3, ModOfSmall
<1>5. QED
  BY <1>1, <1>2, <1>3, <1>4 DEF Same, two

\* What is 1 modulo N can be left out of a product.
LEMMA SameTimesOne ==
  ASSUME NEW a \in Int, NEW e \in Int, Same(e, 1, N)
  PROVE  Same(a * e, a, N)
<1> DEFINE one == 1
<1>1. one \in Int /\ a * one = a /\ Same(e, one, N) /\ Same(a, a, N)
  BY SameIsEquivalence
<1> HIDE DEF one
<1>2. Same(a * e, a * one, N)
  BY <1>1, OrderModulus, SameProduct
<1>3. QED
  BY <1>1, <1>2

\* The scalars of a signature are not 0 modulo N.
LEMMA ScalarNotZero ==
  ASSUME NEW a \in 1 .. (N - 1)
  PROVE  ~Same(a, 0, N)
<1>1. a \in 0 .. (N - 1) /\ a # 0 /\ 0 % N = 0
  BY OrderModulus, SmallResidues
<1>2. a % N = a
  BY <1>1, OrderModulus, ModOfSmall
<1>3. QED
  BY <1>1, <1>2 DEF Same

\* A signature that solves the equation for a number whose point has its r verifies.
LEMMA SolutionVerifies ==
  ASSUME NEW q \in Int, NEW j \in Int, NEW a \in 1 .. (N - 1), NEW b \in 1 .. (N - 1),
         NEW z \in 0 .. (Size - 1),
         ~Element(j).infinity, Element(j).x % N = a, Same(j * b, z + q * a, N)
  PROVE  Verifies(Element(q), a, b, z)
<1> DEFINE w == ScalarInverse(b)
           sp == ScalarProduct(z, w)
           tp == ScalarProduct(a, w)
           zw == z * w
           aw == a * w
           x == GroupSum[Multiple[Generator][sp]][Multiple[Element(q)][tp]]
<1>1. N \in Nat \ {0} /\ N < Size /\ Size \in Nat /\ a \in Int /\ b \in Int /\ z \in Int
  BY ScalarSizes
<1>2. w \in 0 .. (N - 1) /\ Same(w * b, 1, N)
  BY <1>1, ScalarNotZero, ScalarInverseIsExact
<1>3. w \in Int /\ zw \in Int /\ aw \in Int
  <2> HIDE DEF w
  <2>1. w \in Int
    BY <1>1, <1>2
  <2>2. QED
    BY <1>1, <2>1
<1> HIDE DEF w
<1>4. sp \in 0 .. (N - 1) /\ Same(sp, zw, N) /\ tp \in 0 .. (N - 1) /\ Same(tp, aw, N)
  BY <1>1, <1>3, ScalarProductIsExact
<1> HIDE DEF sp, tp
<1>5. sp \in 0 .. (Size - 1) /\ tp \in 0 .. (Size - 1) /\ sp \in Int /\ tp \in Int
  BY <1>1, <1>4
<1> DEFINE qtp == q * tp
           qaw == q * aw
           zqa == z + q * a
           jb == j * b
<1>6. Multiple[Generator][sp] = Element(sp) /\ Multiple[Element(q)][tp] = Element(qtp)
  BY <1>5, MultipleOfGenerator, MultipleIsExact
<1>7. /\ qtp \in Int /\ qaw \in Int /\ zqa \in Int /\ jb \in Int
      /\ zw + qaw = zqa * w /\ jb * w = j * (w * b) /\ w * b \in Int
  <2>1. z * w + q * (a * w) = (z + q * a) * w /\ (j * b) * w = j * (w * b)
    BY <1>1, <1>3
  <2>2. q * a \in Int /\ j * b \in Int /\ w * b \in Int /\ q * tp \in Int
    BY <1>1, <1>3, <1>5
  <2>3. q * aw \in Int
    <3> HIDE DEF aw
    <3>1. QED
      BY <1>3
  <2>4. z + q * a \in Int
    BY <1>1, <2>2
  <2>5. QED
    BY <2>1, <2>2, <2>3, <2>4
<1>8. x = Element(sp + qtp)
  <2> HIDE DEF qtp
  <2>1. QED
    BY ZenonT(30), <1>5, <1>6, <1>7, ElementsAdd
<1>9. Same(qtp, qaw, N)
  <2>1. Same(q, q, N)
    BY SameIsEquivalence
  <2> HIDE DEF aw
  <2>2. QED
    BY <1>1, <1>3, <1>4, <1>5, <2>1, SameProduct
<1> HIDE DEF qtp, qaw, zw
<1>10. Same(sp + qtp, zw + qaw, N)
  BY <1>1, <1>3, <1>4, <1>5, <1>7, <1>9, SameSum
<1>11. Same(jb * w, zqa * w, N)
  <2>1. Same(jb, zqa, N) /\ Same(w, w, N)
    BY SameIsEquivalence
  <2> HIDE DEF jb, zqa
  <2>2. QED
    BY <1>1, <1>3, <1>7, <2>1, SameProduct
<1>12. Same(jb * w, j, N)
  <2> DEFINE e == w * b
  <2>1. e \in Int /\ Same(e, 1, N) /\ jb * w = j * e
    BY <1>2, <1>7
  <2> HIDE DEF e, jb
  <2>2. Same(j * e, j, N)
    BY <2>1, SameTimesOne
  <2>3. QED
    BY <2>1, <2>2
<1> HIDE DEF jb, zqa
<1>13. Same(sp + qtp, j, N)
  BY <1>7, <1>10, <1>11, <1>12 DEF Same
<1>14. x = Element(j)
  <2> DEFINE k == sp + qtp
  <2>1. k \in Int
    BY <1>5, <1>7
  <2> HIDE DEF k
  <2>2. Element(k) = Element(j)
    BY <1>13, <2>1, ElementsEqual DEF k
  <2>3. QED
    BY <1>8, <2>2 DEF k
<1> HIDE DEF x
<1>15. Verifies(Element(q), a, b, z) = (IsValid(a, b) /\ ~x.infinity /\ x.x % N = a)
  BY DEF Verifies, x, sp, tp, w
<1>16. IsValid(a, b)
  BY DEF IsValid
<1>17. QED
  BY <1>14, <1>15, <1>16

\* The key that is recovered from the point of t solves the equation for -t.
LEMMA RecoveredSolves ==
  ASSUME NEW t \in Int, NEW b \in Int, NEW z \in Int, NEW u \in Int, NEW a \in Int,
         Same(u * a, 1, N)
  PROVE  Same((-t) * b, z + (-((t * b + z) * u)) * a, N)
<1> DEFINE tb == t * b
           e == tb + z
           ua == u * a
           m == -e
           q == -(e * u)
           qa == q * a
<1>1. tb \in Int /\ e \in Int /\ ua \in Int /\ m \in Int
  <2>1. t * b \in Int /\ u * a \in Int
    OBVIOUS
  <2>2. t * b + z \in Int
    BY <2>1
  <2>3. -(t * b + z) \in Int
    BY <2>2
  <2>4. QED
    BY <2>1, <2>2, <2>3
<1>2. z + m = (-t) * b
  <2>1. (-t) * b = -(t * b)
    OBVIOUS
  <2> HIDE DEF tb
  <2>2. z + m = -tb
    BY <1>1
  <2>3. QED
    BY <2>1, <2>2 DEF tb
<1> HIDE DEF e
<1>3. q * a = m * ua /\ q \in Int /\ qa \in Int
  <2>1. (-(e * u)) * a = (-e) * (u * a)
    BY <1>1
  <2>2. e * u \in Int
    BY <1>1
  <2>3. -(e * u) \in Int
    BY <2>2
  <2> HIDE DEF q
  <2>4. q \in Int
    BY <2>3 DEF q
  <2>5. q * a \in Int
    BY <2>4
  <2>6. QED
    BY <2>1, <2>4, <2>5 DEF q
<1> HIDE DEF m, ua, q
<1>4. Same(qa, m, N)
  <2>1. Same(m * ua, m, N)
    BY <1>1, SameTimesOne DEF ua
  <2>2. QED
    BY <1>3, <2>1
<1> HIDE DEF qa
<1>5. Same(z + qa, z + m, N)
  <2>1. Same(z, z, N)
    BY SameIsEquivalence
  <2>2. QED
    BY <1>1, <1>3, <1>4, <2>1, OrderModulus, SameSum
<1>6. Same((-t) * b, z + qa, N)
  BY <1>2, <1>5, SameIsEquivalence
<1>7. QED
  BY <1>6 DEF qa, q, e, tb

\* The key recovered from a point of the number -j or j, where s solves the equation
\* for j: it is the signer's in the first case, and in the second that of the signer's
\* opposite only for a hash that is 0 modulo N.
LEMMA RecoveredFromNonce ==
  ASSUME NEW t \in Int, NEW s \in Int, NEW z \in Int, NEW u \in Int, NEW r \in Int,
         NEW d \in Int, NEW j \in Int,
         Same(u * r, 1, N), Same(j * s, z + d * r, N)
  PROVE  /\ Same(t, -j, N) => Same(-((t * s + z) * u), d, N)
         /\ Same(t, j, N) /\ Same(-((t * s + z) * u), -d, N) => Same(z, 0, N)
<1> DEFINE ur == u * r
           ts == t * s
           e == ts + z
           eu == e * u
           k == z + d * r
           js == j * s
           ks == k + z
           dr == d * r
<1>1. /\ ur \in Int /\ ts \in Int /\ js \in Int /\ dr \in Int
  OBVIOUS
<1>2. e \in Int /\ k \in Int /\ ks \in Int
  BY <1>1
<1>3. eu \in Int
  <2> HIDE DEF e
  <2>1. QED
    BY <1>2
<1>4. Same(js, k, N) /\ Same(z, z, N) /\ Same(s, s, N) /\ Same(u, u, N) /\ Same(ur, 1, N)
  BY SameIsEquivalence
<1>5. ASSUME Same(t, -j, N) PROVE Same(-((t * s + z) * u), d, N)
  <2> DEFINE m == -j
             ms == m * s
             mk == -k
             md == -dr
             mdu == md * u
  <2>1. m \in Int /\ ms \in Int /\ mk \in Int /\ md \in Int
    <3>1. -j \in Int /\ (-j) * s \in Int
      OBVIOUS
    <3>2. -k \in Int /\ -dr \in Int
      <4> HIDE DEF k, dr
      <4>1. QED
        BY <1>1, <1>2
    <3>3. QED
      BY <3>1, <3>2
  <2>2. Same(ts, ms, N)
    <3>1. Same(t, m, N)
      BY <1>5
    <3> HIDE DEF m
    <3>2. QED
      BY <1>4, <2>1, <3>1, OrderModulus, SameProduct
  <2>3. Same(ms, mk, N)
    <3>1. ms = -js
      OBVIOUS
    <3> HIDE DEF js, k, ms
    <3>2. Same(-js, -k, N)
      BY <1>1, <1>2, <1>4, OrderModulus, SameNegated
    <3>3. QED
      BY <3>1, <3>2
  <2>4. Same(ts, mk, N)
    BY <2>2, <2>3, SameIsEquivalence
  <2>5. mk + z = md
    <3>1. k = z + dr
      OBVIOUS
    <3> HIDE DEF k, dr
    <3>2. -(z + dr) + z = -dr
      BY <1>1
    <3>3. QED
      BY <3>1, <3>2
  <2> HIDE DEF ts, mk, md
  <2>6. Same(e, md, N)
    <3>1. Same(ts + z, mk + z, N)
      BY <1>1, <1>4, <2>1, <2>4, OrderModulus, SameSum
    <3>2. QED
      BY <2>5, <3>1
  <2> HIDE DEF e
  <2>7. Same(eu, mdu, N) /\ mdu \in Int
    BY <1>2, <1>4, <2>1, <2>6, OrderModulus, SameProduct
  <2>8. -mdu = d * ur
    <3>1. -((-(d * r)) * u) = d * (u * r)
      OBVIOUS
    <3>2. QED
      BY <3>1 DEF md
  <2> HIDE DEF eu, mdu, ur
  <2>9. Same(-eu, -mdu, N)
    BY <1>3, <2>7, OrderModulus, SameNegated
  <2>10. Same(d * ur, d, N)
    BY <1>1, <1>4, SameTimesOne
  <2>11. Same(-eu, d, N)
    BY <2>8, <2>9, <2>10 DEF Same
  <2>12. QED
    BY <2>11 DEF eu, e, ts
<1>6. ASSUME Same(t, j, N), Same(-((t * s + z) * u), -d, N) PROVE Same(z, 0, N)
  <2>1. Same(ts, js, N)
    BY <1>4, <1>6, OrderModulus, SameProduct
  <2>2. Same(ts, k, N)
    BY <1>4, <2>1, SameIsEquivalence
  <2> HIDE DEF ts, k, js
  <2>3. Same(e, ks, N)
    BY <1>1, <1>2, <1>4, <2>2, OrderModulus, SameSum
  <2> HIDE DEF e, ks
  <2> DEFINE ksu == ks * u
             dur == d * ur
             z2 == z * 2
             z2u == z2 * u
             zero == 0
  <2>4. Same(eu, ksu, N) /\ ksu \in Int
    BY <1>2, <1>4, <2>3, OrderModulus, SameProduct
  <2>5. Same(eu, d, N)
    <3> DEFINE m == -eu
               n == -d
               mm == -m
               nn == -n
    <3>1. m \in Int /\ n \in Int /\ mm = eu /\ nn = d
      <4> HIDE DEF eu
      <4>1. QED
        BY <1>3
    <3>2. Same(m, n, N)
      BY <1>6 DEF e, ts
    <3> HIDE DEF m, n
    <3>3. Same(mm, nn, N)
      BY <3>1, <3>2, OrderModulus, SameNegated
    <3>4. QED
      BY <3>1, <3>3
  <2>6. Same(dur, d, N) /\ dur \in Int
    <3> HIDE DEF ur
    <3>1. QED
      BY <1>1, <1>4, SameTimesOne
  <2>7. Same(ksu, dur, N)
    BY <2>4, <2>5, <2>6 DEF Same
  <2>8. ksu - dur = z2u /\ dur - dur = zero /\ z2 \in Int /\ z2u \in Int /\ zero \in Int
    <3>1. ((z + d * r) + z) * u - d * (u * r) = (z * 2) * u
      OBVIOUS
    <3>2. z * 2 \in Int /\ (z * 2) * u \in Int
      OBVIOUS
    <3>3. dur - dur = 0
      <4> HIDE DEF dur
      <4>1. QED
        BY <2>6
    <3>4. QED
      BY <3>1, <3>2, <3>3 DEF ks, k
  <2> HIDE DEF ksu, dur, z2u
  <2>9. Same(ksu - dur, dur - dur, N)
    <3>1. Same(dur, dur, N)
      BY SameIsEquivalence
    <3>2. QED
      BY <2>4, <2>6, <2>7, <3>1, OrderModulus, SameDifference
  <2>10. Same(z2 * u, 0, N)
    BY <2>8, <2>9 DEF z2u
  <2> HIDE DEF z2
  <2>11. Same(z2, 0, N) \/ Same(u, 0, N)
    BY <2>8, <2>10, OrderModulus, ProductZero
  <2>12. ~Same(u, 0, N)
    <3>1. SUFFICES ASSUME Same(u, 0, N) PROVE FALSE
      OBVIOUS
    <3>2. zero * r = 0 /\ zero \in Int /\ Same(u, zero, N) /\ Same(r, r, N)
      BY <3>1, SameIsEquivalence
    <3> HIDE DEF zero
    <3>3. Same(u * r, zero * r, N)
      BY <3>2, OrderModulus, SameProduct
    <3>4. Same(1, 0, N)
      BY <3>2, <3>3 DEF Same
    <3>5. QED
      BY <3>4, OrderModulus
  <2>13. Same(z * 2, 0, N)
    BY <2>11, <2>12 DEF z2
  <2> DEFINE two == 2
  <2>14. two \in Int /\ Same(z * two, 0, N) /\ ~Same(two, 0, N)
    BY <2>13, OrderModulus
  <2> HIDE DEF two
  <2>15. QED
    BY <2>14, OrderModulus, ProductZero
<1>7. QED
  BY <1>5, <1>6

-----------------------------------------------------------------------------
(* What sign and recover make of a nonce and a key *)

\* The point of -k has the x of the point of k.
LEMMA OppositeElement ==
  ASSUME NEW k \in Int
  PROVE  /\ -k \in Int
         /\ Element(-k).x = Element(k).x /\ Element(-k).infinity = Element(k).infinity
<1>1. Element(k) \in Curve
  BY ElementsAdd
<1>2. Element(-k) = Opposite(Element(k))
  BY ElementOpposite
<1>3. QED
  BY <1>1, <1>2, OppositeOnCurve

\* What recover returns is zero or a point of the curve.
LEMMA RecoverOnCurve ==
  ASSUME NEW a \in 0 .. (Size - 1), NEW b \in 0 .. (Size - 1), NEW w \in {0, 1},
         NEW z \in 0 .. (Size - 1)
  PROVE  Recover(a, b, w, z) \in Curve
<1> DEFINE x == Reduced(a)
           y == YOf(x, w)
<1>1. CASE RootOf(x) = 0 \/ ScalarInverse(a) = 0
  BY <1>1, RecoverIsElement, CurvePoints
<1>2. CASE RootOf(x) # 0 /\ ScalarInverse(a) # 0
  <2>1. a \in Int /\ b \in Int /\ z \in Int /\ x \in 0 .. (P - 1)
    BY ScalarSizes, ReducedValue
  <2>2. Point(x, y) \in Curve
    <3> HIDE DEF x
    <3>1. QED
      BY <1>2, <2>1, CandidateOnCurve
  <2>3. PICK t \in Nat : Point(x, y) = Element(t)
    <3> HIDE DEF x, y
    <3>1. QED
      BY <2>2, ElementsAdd
  <2> DEFINE u == ScalarInverse(a)
             q == -((t * b + z) * u)
  <2>4. Recover(a, b, w, z) = Element(q)
    <3>1. t \in Int
      OBVIOUS
    <3>2. QED
      BY <1>2, <2>3, <3>1, RecoverIsElement
  <2>5. q \in Int
    <3>1. u \in Int
      <4>1. u \in 0 .. (N - 1)
        BY <2>1, ScalarInverseIsExact
      <4> HIDE DEF u
      <4>2. QED
        BY <4>1, ScalarSizes
    <3> HIDE DEF u
    <3>2. QED
      BY <2>1, <3>1
  <2> HIDE DEF q
  <2>6. QED
    BY <2>4, <2>5, ElementsAdd
<1>3. QED
  BY <1>1, <1>2

\* One of the two recovery ids gives the signer's key, when the nonce's point has the
\* x r itself.
LEMMA SignerIsFound ==
  ASSUME NEW d \in Int, NEW j \in Int, NEW r \in 1 .. (N - 1), NEW s \in 1 .. (N - 1),
         NEW z \in 0 .. (Size - 1),
         ~Element(j).infinity, Element(j).x = r, Same(j * s, z + d * r, N)
  PROVE  \E w \in {0, 1} : Recover(r, s, w, z) = Element(d)
<1> DEFINE t == -j
           a == Element(t)
           u == ScalarInverse(r)
           q == -((t * s + z) * u)
<1>1. /\ r \in 0 .. (Size - 1) /\ s \in 0 .. (Size - 1)
      /\ r \in Int /\ s \in Int /\ z \in Int /\ Reduced(r) = r
  BY ScalarSizes DEF Reduced
<1>2. t \in Int /\ ~a.infinity /\ a.x = r
  BY OppositeElement
<1>3. a \in Curve
  <2> HIDE DEF t
  <2>1. QED
    BY <1>2, ElementsAdd
<1>4. RootOf(r) # 0 /\ \E w \in {0, 1} : a = Point(r, YOf(r, w))
  <2> HIDE DEF a
  <2>1. QED
    BY <1>2, <1>3, CandidateIsFound
<1>5. PICK w \in {0, 1} : a = Point(r, YOf(r, w))
  BY <1>4
<1>6. u \in 0 .. (N - 1) /\ u # 0 /\ Same(u * r, 1, N)
  BY <1>1, ScalarNotZero, ScalarInverseIsExact
<1>7. u \in Int
  <2> HIDE DEF u
  <2>1. QED
    BY <1>6, ScalarSizes
<1>8. Recover(r, s, w, z) = Element(q)
  <2> HIDE DEF t, q
  <2>1. Point(Reduced(r), YOf(Reduced(r), w)) = Element(t)
    BY <1>1, <1>5
  <2>2. RootOf(Reduced(r)) # 0 /\ ScalarInverse(r) # 0
    BY <1>1, <1>4, <1>6
  <2>3. QED
    BY <1>1, <1>2, <2>1, <2>2, RecoverIsElement DEF q, u
<1>9. Same(q, d, N)
  <2>1. Same(t, -j, N)
    BY SameIsEquivalence
  <2> HIDE DEF t, u
  <2>2. QED
    BY <1>1, <1>2, <1>6, <1>7, <2>1, RecoveredFromNonce
<1>10. q \in Int
  <2> HIDE DEF t, u
  <2>1. QED
    BY <1>1, <1>2, <1>7
<1> HIDE DEF q
<1>11. Element(q) = Element(d)
  BY <1>9, <1>10, ElementsEqual
<1>12. QED
  BY <1>8, <1>11

\* Where recover gives a key with the signer's x, from the x of the nonce's point and
\* for a hash that is not 0 modulo N, it is the signer's key.
LEMMA SignerIsRecovered ==
  ASSUME NEW d \in Int, NEW j \in Int, NEW r \in 1 .. (N - 1), NEW s \in 1 .. (N - 1),
         NEW z \in 0 .. (Size - 1), NEW w \in {0, 1},
         ~Element(j).infinity, Element(j).x = r, Same(j * s, z + d * r, N),
         ~Recover(r, s, w, z).infinity, ~Element(d).infinity,
         Recover(r, s, w, z).x = Element(d).x, ~Same(z, 0, N)
  PROVE  Recover(r, s, w, z) = Element(d)
<1> DEFINE u == ScalarInverse(r)
<1>1. /\ r \in 0 .. (Size - 1) /\ s \in 0 .. (Size - 1)
      /\ r \in Int /\ s \in Int /\ z \in Int /\ Reduced(r) = r
  BY ScalarSizes DEF Reduced
<1>2. u \in 0 .. (N - 1) /\ u # 0 /\ Same(u * r, 1, N)
  BY <1>1, ScalarNotZero, ScalarInverseIsExact
<1>3. u \in Int
  <2> HIDE DEF u
  <2>1. QED
    BY <1>2, ScalarSizes
<1>4. PICK t \in Nat : /\ ~Element(t).infinity /\ Element(t).x = r
                       /\ Recover(r, s, w, z) = Element(-((t * s + z) * u))
  BY <1>1, RecoverFinds
<1> DEFINE q == -((t * s + z) * u)
<1>5. t \in Int
  OBVIOUS
<1>6. q \in Int
  <2> HIDE DEF u
  <2>1. QED
    BY <1>1, <1>3, <1>5
<1>7. Same(t, j, N) \/ Same(t, -j, N)
  BY <1>4, <1>5, ElementsOfX
<1>8. /\ Same(t, -j, N) => Same(q, d, N)
      /\ ~(Same(t, j, N) /\ Same(q, -d, N))
  <2> HIDE DEF u
  <2>1. /\ Same(t, -j, N) => Same(-((t * s + z) * u), d, N)
        /\ Same(t, j, N) /\ Same(-((t * s + z) * u), -d, N) => Same(z, 0, N)
    BY ONLY <1>1, <1>2, <1>3, <1>5, Same(j * s, z + d * r, N), d \in Int, j \in Int,
            RecoveredFromNonce
  <2>2. QED
    BY <2>1
<1>9. Recover(r, s, w, z) = Element(q)
  BY <1>4
<1> HIDE DEF q
<1>10. Same(q, d, N) \/ Same(q, -d, N)
  BY <1>6, <1>9, ElementsOfX
<1>11. Same(q, d, N)
  BY <1>7, <1>8, <1>10
<1>12. QED
  BY <1>6, <1>9, <1>11, ElementsEqual

\* What recover returns for a valid signature verifies it.
LEMMA RecoveredVerifies ==
  ASSUME NEW a \in 0 .. (Size - 1), NEW b \in 0 .. (Size - 1), NEW w \in {0, 1},
         NEW z \in 0 .. (Size - 1), IsValid(a, b), ~Recover(a, b, w, z).infinity
  PROVE  Verifies(Recover(a, b, w, z), a, b, z)
<1> DEFINE u == ScalarInverse(a)
<1>1. /\ a \in 1 .. (N - 1) /\ b \in 1 .. (N - 1)
      /\ a \in Int /\ b \in Int /\ z \in Int /\ N \in Nat \ {0}
  BY ScalarSizes DEF IsValid
<1>2. Reduced(a) = a
  BY <1>1, ScalarSizes DEF Reduced
<1>3. a % N = a
  BY <1>1, ModOfSmall
<1>4. u \in 0 .. (N - 1) /\ Same(u * a, 1, N)
  BY <1>1, ScalarNotZero, ScalarInverseIsExact
<1>5. u \in Int
  <2> HIDE DEF u
  <2>1. QED
    BY <1>4, ScalarSizes
<1>6. PICK t \in Nat : /\ ~Element(t).infinity /\ Element(t).x = a
                       /\ Recover(a, b, w, z) = Element(-((t * b + z) * u))
  BY <1>2, RecoverFinds
<1> DEFINE q == -((t * b + z) * u)
           j == -t
<1>7. t \in Int
  OBVIOUS
<1>8. q \in Int
  <2> HIDE DEF u
  <2>1. QED
    BY <1>1, <1>5, <1>7
<1>9. Same(j * b, z + q * a, N)
  <2> HIDE DEF u
  <2>1. QED
    BY <1>1, <1>4, <1>5, <1>7, RecoveredSolves
<1>10. j \in Int /\ ~Element(j).infinity /\ Element(j).x % N = a
  BY <1>3, <1>6, <1>7, OppositeElement
<1>11. Recover(a, b, w, z) = Element(q)
  BY <1>6
<1> HIDE DEF q, j
<1>12. Verifies(Element(q), a, b, z)
  BY <1>1, <1>8, <1>9, <1>10, SolutionVerifies
<1>13. QED
  BY <1>11, <1>12

-----------------------------------------------------------------------------
(* The inductive invariant of signing *)

\* Every variable has its type.
SignTypeOK ==
  /\ stage \in {"idle", "nonce", "s", "recid", "signed", "failed", "recovered"}
  /\ key \in 0 .. (N - 1)
  /\ hash \in 0 .. (Size - 1) /\ nonce \in 0 .. (Size - 1)
  /\ signature \in [r : 0 .. (Size - 1), s : 0 .. (Size - 1), v : {0, 1}]
  /\ public \in Curve

\* What s is computed for: j times s is hash + key * r modulo N.
Equation(j) == Same(j * signature.s, hash + key * signature.r, N)

\* A call of sign has a key, and its tries start from recovery id 0.
CallIsBegun ==
  /\ stage \in {"nonce", "s", "recid", "signed"} => key # 0
  /\ stage \in {"idle", "nonce", "s"} => signature.v = 0

\* r is the x of the nonce's point, modulo N, and not 0.
RIsTheNonces ==
  stage \in {"s", "recid", "signed"} =>
    signature.r # 0 /\ signature.r = Multiple[Generator][nonce].x % N

\* s solves the equation for the nonce or for its opposite (the low s).
SSolves ==
  stage \in {"recid", "signed"} =>
    /\ signature.s \in 1 .. (N - 1)
    /\ Equation(nonce) \/ Equation(-nonce)

\* Where a recovery id was passed over, it does not recover the signer; the one
\* that was taken does; and signing fails only past N.
IdsAreTried ==
  /\ stage = "recid" /\ signature.v = 1 =>
       ~IsSigners(Recover(signature.r, signature.s, 0, hash))
  /\ stage = "signed" => IsSigners(Recovered)
  /\ stage = "failed" => PastN

RecoveredIsPublic == stage = "recovered" => public = Recovered

SignInvariant ==
  SignTypeOK /\ CallIsBegun /\ RIsTheNonces /\ SSolves /\ IdsAreTried /\ RecoveredIsPublic

\* Scalars that a call of sign starts from.
LEMMA ScalarsOf == ASSUME NEW k \in 0 .. (Size - 1) PROVE ScalarOf(k) \subseteq 0 .. (Size - 1)
<1>1. k \in Int /\ N < Size /\ N \in Nat /\ Size \in Nat
  BY ScalarSizes
<1>2. k % N \in 0 .. (N - 1)
  BY <1>1, ResidueOfN
<1>3. k % N \in 0 .. (Size - 1)
  BY <1>1, <1>2
<1>4. QED
  BY <1>3 DEF ScalarOf

\* The invariant holds at the start.
LEMMA SignInitInvariant == SignInit => SignInvariant
<1> SUFFICES ASSUME SignInit PROVE SignInvariant
  OBVIOUS
<1>1. 0 \in 0 .. (N - 1) /\ 0 \in 0 .. (Size - 1)
  BY ScalarSizes
<1>2. SignTypeOK
  BY <1>1, CurvePoints DEF SignInit, SignTypeOK, NoSignature
<1>3. CallIsBegun /\ RIsTheNonces /\ SSolves /\ IdsAreTried /\ RecoveredIsPublic
  BY DEF SignInit, NoSignature, CallIsBegun, RIsTheNonces, SSolves, IdsAreTried,
         RecoveredIsPublic
<1>4. QED
  BY <1>2, <1>3 DEF SignInvariant

\* A call of sign begins.
LEMMA SignPreserves ==
  ASSUME SignInvariant, stage = "idle", NEW d \in Keys, NEW z \in Hashes, NEW k \in Nonces,
         Sign(d, z, k)
  PROVE  SignInvariant'
<1>1. SignTypeOK /\ CallIsBegun
  BY DEF SignInvariant
<1>2. d \in 1 .. (N - 1) /\ z \in 0 .. (Size - 1) /\ k \in 0 .. (Size - 1)
  BY Secp256k1Assumption
<1>3. d \in 0 .. (N - 1) /\ d # 0
  BY <1>2, ScalarSizes
<1>4. nonce' \in 0 .. (Size - 1)
  BY <1>2, ScalarsOf DEF Sign
<1>5. SignTypeOK'
  BY <1>1, <1>2, <1>3, <1>4 DEF Sign, SignTypeOK
<1>6. CallIsBegun'
  BY <1>1, <1>3 DEF Sign, CallIsBegun
<1>7. RIsTheNonces' /\ SSolves' /\ IdsAreTried' /\ RecoveredIsPublic'
  BY DEF Sign, RIsTheNonces, SSolves, IdsAreTried, RecoveredIsPublic
<1>8. QED
  BY <1>5, <1>6, <1>7 DEF SignInvariant

\* r is computed, or the next nonce is taken.
LEMMA TryNoncePreserves ==
  ASSUME SignInvariant, TryNonce
  PROVE  SignInvariant'
<1> DEFINE m == Multiple[Generator][nonce].x
           x == m % N
<1>1. SignTypeOK /\ CallIsBegun
  BY DEF SignInvariant
<1>2. /\ stage = "nonce" /\ signature' = [signature EXCEPT !.r = x]
      /\ \/ x = 0 /\ nonce' = ScalarSum(nonce, 1) /\ stage' = "nonce"
         \/ x # 0 /\ stage' = "s" /\ nonce' = nonce
      /\ key' = key /\ hash' = hash /\ public' = public
  BY DEF TryNonce
<1>3. N \in Nat /\ N < Size /\ Size \in Nat /\ N > 3 /\ 1 \in 0 .. (Size - 1)
  BY ScalarSizes
<1>4. nonce \in 0 .. (Size - 1)
  BY <1>1 DEF SignTypeOK
<1>5. m \in Int
  <2>1. Multiple[Generator][nonce] \in Curve
    <3>1. nonce \in Int
      BY <1>3, <1>4
    <3>2. QED
      BY <1>4, <3>1, MultipleOfGenerator, ElementsAdd
  <2>2. m \in 0 .. (P - 1)
    BY <2>1, CurvePoints
  <2> HIDE DEF m
  <2>3. QED
    BY <2>2, ScalarSizes
<1>6. x \in 0 .. (Size - 1)
  <2> HIDE DEF m
  <2>1. x \in 0 .. (N - 1)
    BY <1>5, ResidueOfN
  <2> HIDE DEF x
  <2>2. QED
    BY <1>3, <2>1
<1>7. ScalarSum(nonce, 1) \in 0 .. (Size - 1)
  <2>1. nonce + 1 < Size + N
    BY <1>3, <1>4
  <2>2. QED
    BY <1>3, <1>4, <2>1, ScalarSumIsExact
<1>8. RIsTheNonces'
  BY <1>1, <1>2 DEF RIsTheNonces, SignTypeOK
<1> HIDE DEF x
<1>9. SignTypeOK'
  BY <1>1, <1>2, <1>6, <1>7 DEF SignTypeOK
<1>10. CallIsBegun'
  BY <1>1, <1>2 DEF CallIsBegun, SignTypeOK
<1>11. SSolves' /\ IdsAreTried' /\ RecoveredIsPublic'
  BY <1>2 DEF SSolves, IdsAreTried, RecoveredIsPublic
<1>12. QED
  BY <1>8, <1>9, <1>10, <1>11 DEF SignInvariant

\* The s of sign, before the low-s rule, solves the equation for the nonce.
LEMMA SIsExact ==
  ASSUME NEW r \in 0 .. (Size - 1), NEW d \in 0 .. (N - 1), NEW z \in 0 .. (Size - 1),
         NEW k \in 0 .. (Size - 1), NEW b,
         b = ScalarProduct(ScalarSum(ScalarProduct(r, d), z), ScalarInverse(k)), b # 0
  PROVE  b \in 1 .. (N - 1) /\ Same(k * b, z + d * r, N)
<1> DEFINE rd == r * d
           p == ScalarProduct(r, d)
           sum == ScalarSum(p, z)
           i == ScalarInverse(k)
           si == sum * i
           e == i * k
           zdr == z + d * r
<1>1. /\ N \in Nat /\ Size \in Nat /\ N < Size /\ N \in Nat \ {0}
      /\ r \in Int /\ d \in Int /\ z \in Int /\ k \in Int
  BY ScalarSizes
<1>2. rd \in Int /\ zdr \in Int /\ rd + z = zdr
  BY <1>1
<1>3. p \in 0 .. (N - 1) /\ Same(p, rd, N)
  BY <1>1, ScalarProductIsExact
<1> HIDE DEF p, rd
<1>4. p \in 0 .. (Size - 1) /\ p \in Int /\ p + z < Size + N
  BY <1>1, <1>3
<1>5. sum \in 0 .. (Size - 1) /\ Same(sum, p + z, N)
  BY <1>4, ScalarSumIsExact
<1> HIDE DEF sum
<1>6. sum \in Int
  BY <1>1, <1>5
<1>7. i \in 0 .. (N - 1) /\ (Same(k, 0, N) => i = 0) /\ (~Same(k, 0, N) => Same(e, 1, N))
  BY <1>1, ScalarInverseIsExact
<1> HIDE DEF i
<1>8. i \in Int /\ si \in Int /\ e \in Int
  <2>1. i \in Int
    BY <1>1, <1>7
  <2>2. QED
    BY <1>1, <1>6, <2>1
<1>9. b \in 0 .. (N - 1) /\ Same(b, si, N)
  BY <1>6, <1>8, ScalarProductIsExact DEF p, sum, i
<1>10. ~Same(k, 0, N)
  <2>1. SUFFICES ASSUME i = 0 PROVE FALSE
    BY <1>7
  <2>2. b = 0
    <3>1. sum * i = 0
      BY <1>6, <2>1
    <3>2. b = (sum * i) % N
      BY DEF ScalarProduct, p, sum, i
    <3>3. 0 % N = 0
      BY <1>1, ScalarSizes, SmallResidues
    <3>4. QED
      BY <3>1, <3>2, <3>3
  <2>3. QED
    BY <2>2
<1>11. b \in 1 .. (N - 1) /\ b \in Int
  BY <1>1, <1>9
<1> HIDE DEF si, e, zdr
<1>12. Same(k * b, k * si, N)
  <2>1. Same(k, k, N)
    BY SameIsEquivalence
  <2>2. QED
    BY <1>1, <1>8, <1>9, <1>11, <2>1, SameProduct
<1>13. k * si = sum * e
  <2>1. k * (sum * i) = sum * (i * k)
    BY <1>1, <1>6, <1>8
  <2>2. QED
    BY <2>1 DEF si, e
<1>14. Same(sum * e, sum, N)
  BY <1>6, <1>7, <1>8, <1>10, SameTimesOne
<1>15. Same(p + z, rd + z, N)
  <2>1. Same(z, z, N)
    BY SameIsEquivalence
  <2>2. QED
    BY <1>1, <1>2, <1>3, <1>4, <2>1, SameSum
<1>16. Same(k * b, zdr, N)
  BY <1>2, <1>5, <1>12, <1>13, <1>14, <1>15 DEF Same
<1>17. QED
  BY <1>11, <1>16 DEF zdr

\* s is computed, or signing starts again.
LEMMA ComputeSPreserves ==
  ASSUME SignInvariant, ComputeS
  PROVE  SignInvariant'
<1> DEFINE b == ScalarProduct(ScalarSum(ScalarProduct(signature.r, key), hash),
                              ScalarInverse(nonce))
           s == LowS(b)
<1>1. SignTypeOK /\ CallIsBegun /\ RIsTheNonces
  BY DEF SignInvariant
<1>2. /\ stage = "s" /\ key' = key /\ hash' = hash /\ public' = public
      /\ \/ /\ nonce' \in ScalarOf(NextNonce(nonce)) /\ stage' = "nonce"
            /\ signature' = signature
         \/ /\ b # 0 /\ signature' = [signature EXCEPT !.s = s]
            /\ stage' = "recid" /\ nonce' = nonce
  BY DEF ComputeS
<1>3. /\ signature.r \in 0 .. (Size - 1) /\ key \in 0 .. (N - 1) /\ hash \in 0 .. (Size - 1)
      /\ nonce \in 0 .. (Size - 1)
      /\ signature \in [r : 0 .. (Size - 1), s : 0 .. (Size - 1), v : {0, 1}]
  BY <1>1 DEF SignTypeOK
<1>4. N \in Nat /\ N \in Nat \ {0} /\ N < Size /\ Size \in Nat /\ Size > 0
  BY ScalarSizes
<1>5. key \in Int /\ hash \in Int /\ nonce \in Int /\ signature.r \in Int
  BY <1>3, <1>4
<1>6. CASE /\ nonce' \in ScalarOf(NextNonce(nonce)) /\ stage' = "nonce"
           /\ signature' = signature
  <2>1. NextNonce(nonce) \in 0 .. (Size - 1)
    <3> DEFINE n == nonce + 1
    <3>1. n \in Int
      BY <1>5
    <3> HIDE DEF n
    <3>2. n % Size \in 0 .. (Size - 1)
      BY <1>4, <3>1, DivMod
    <3>3. QED
      BY <3>2 DEF NextNonce, n
  <2>2. nonce' \in 0 .. (Size - 1)
    BY <1>6, <2>1, ScalarsOf
  <2>3. SignTypeOK'
    BY <1>1, <1>2, <1>6, <2>2 DEF SignTypeOK
  <2>4. CallIsBegun'
    BY <1>1, <1>2, <1>6 DEF CallIsBegun
  <2>5. RIsTheNonces' /\ SSolves' /\ IdsAreTried' /\ RecoveredIsPublic'
    BY <1>6 DEF RIsTheNonces, SSolves, IdsAreTried, RecoveredIsPublic
  <2>6. QED
    BY <2>3, <2>4, <2>5 DEF SignInvariant
<1>7. CASE /\ b # 0 /\ signature' = [signature EXCEPT !.s = s]
           /\ stage' = "recid" /\ nonce' = nonce
  <2>1. b \in 1 .. (N - 1) /\ Same(nonce * b, hash + key * signature.r, N)
    BY <1>3, <1>7, SIsExact
  <2> HIDE DEF b
  <2>2. s \in 1 .. (N - 1) /\ (Same(s, b, N) \/ Same(s, -b, N))
    BY <2>1, LowSIsExact
  <2>3. b \in Int /\ s \in Int
    <3> HIDE DEF s
    <3>1. QED
      BY <1>4, <2>1, <2>2
  <2> HIDE DEF s
  <2> DEFINE zdr == hash + key * signature.r
             ks == nonce * s
             kb == nonce * b
             mk == -nonce
             mb == -b
  <2>4. Same(ks, zdr, N) \/ Same(mk * s, zdr, N)
    <3>1. mk \in Int /\ mb \in Int /\ mk * mb = kb
      BY <1>5, <2>3
    <3>2. CASE Same(s, b, N)
      <4>1. Same(nonce, nonce, N)
        BY SameIsEquivalence
      <4>2. Same(ks, kb, N)
        BY <1>4, <1>5, <2>3, <3>2, <4>1, SameProduct
      <4>3. QED
        BY <2>1, <4>2 DEF Same
    <3>3. CASE Same(s, mb, N)
      <4>1. Same(mk, mk, N)
        BY SameIsEquivalence
      <4> HIDE DEF mk, mb
      <4>2. Same(mk * s, mk * mb, N)
        BY <1>4, <2>3, <3>1, <3>3, <4>1, SameProduct
      <4>3. QED
        BY <2>1, <3>1, <4>2 DEF Same
    <3>4. QED
      BY <2>2, <3>2, <3>3
  <2>5. /\ signature.r' = signature.r /\ signature.v' = signature.v /\ signature.s' = s
        /\ s \in 0 .. (Size - 1)
        /\ signature' \in [r : 0 .. (Size - 1), s : 0 .. (Size - 1), v : {0, 1}]
    <3>1. s \in 0 .. (Size - 1)
      BY <1>4, <2>2
    <3>2. QED
      BY <1>3, <1>7, <3>1
  <2>6. SignTypeOK'
    BY <1>1, <1>2, <1>7, <2>5 DEF SignTypeOK
  <2>7. CallIsBegun'
    BY <1>1, <1>2, <1>7 DEF CallIsBegun
  <2>8. RIsTheNonces'
    BY <1>1, <1>2, <1>7, <2>5 DEF RIsTheNonces
  <2>9. SSolves'
    <3>1. Same(nonce * s, hash + key * signature.r, N)
            \/ Same((-nonce) * s, hash + key * signature.r, N)
      BY <2>4
    <3>2. Equation(nonce)' \/ Equation(-nonce)'
      BY ONLY <1>2, <1>7, <2>5, <3>1 DEF Equation
    <3>3. QED
      BY <2>2, <2>5, <3>2 DEF SSolves
  <2>10. IdsAreTried' /\ RecoveredIsPublic'
    BY <1>1, <1>2, <1>7, <2>5 DEF CallIsBegun, IdsAreTried, RecoveredIsPublic
  <2>11. QED
    BY <2>6, <2>7, <2>8, <2>9, <2>10 DEF SignInvariant
<1>8. QED
  BY <1>2, <1>6, <1>7

\* Where s is known, it solves the equation for a point with the x of the nonce's,
\* which is r itself unless it is past N.
LEMMA SignedNonce ==
  ASSUME SignInvariant, stage \in {"recid", "signed"}
  PROVE  /\ signature.r \in 1 .. (N - 1) /\ signature.s \in 1 .. (N - 1)
         /\ SignersKey = Element(key) /\ ~Element(key).infinity /\ key \in Int
         /\ \E j \in Int : /\ ~Element(j).infinity /\ Element(j).x % N = signature.r
                           /\ ~PastN => Element(j).x = signature.r
                           /\ Equation(j)
<1> DEFINE m == Multiple[Generator][nonce].x
<1>1. SignTypeOK /\ CallIsBegun /\ RIsTheNonces /\ SSolves
  BY DEF SignInvariant
<1>2. N \in Nat \ {0} /\ N \in Nat /\ N < Size /\ Size \in Nat /\ P \in Nat
  BY ScalarSizes
<1>3. nonce \in 0 .. (Size - 1) /\ key \in 1 .. (N - 1) /\ key \in 0 .. (Size - 1)
  <2>1. nonce \in 0 .. (Size - 1) /\ key \in 0 .. (N - 1) /\ key # 0
    BY <1>1 DEF SignTypeOK, CallIsBegun
  <2>2. QED
    BY <1>2, <2>1
<1>4. nonce \in Int /\ key \in Int
  BY <1>2, <1>3
<1>5. /\ signature.r # 0 /\ signature.r = m % N /\ signature.s \in 1 .. (N - 1)
      /\ Equation(nonce) \/ Equation(-nonce)
  BY <1>1 DEF RIsTheNonces, SSolves
<1>6. SignersKey = Element(key) /\ m = Element(nonce).x
  BY <1>3, MultipleOfGenerator DEF SignersKey
<1>7. ~Element(key).infinity
  BY <1>3, <1>4, ScalarNotZero, ElementsEqual
<1>8. m \in 0 .. (P - 1)
  BY <1>4, <1>6, ElementsAdd, CurvePoints
<1> HIDE DEF m
<1>9. m \in Int
  BY <1>2, <1>8
<1>10. signature.r \in 1 .. (N - 1)
  <2>1. m % N \in 0 .. (N - 1)
    BY <1>9, ResidueOfN
  <2> DEFINE r == m % N
  <2> HIDE DEF r
  <2>2. QED
    BY <1>2, <1>5, <2>1 DEF r
<1>11. ~Element(nonce).infinity
  <2>1. SUFFICES ASSUME Element(nonce).infinity PROVE FALSE
    OBVIOUS
  <2>2. m = 0
    BY <1>4, <1>6, <2>1, ElementsAdd, CurvePoints
  <2>3. m % N = 0
    BY <2>2, ScalarSizes, SmallResidues
  <2>4. QED
    BY <1>5, <2>3
<1>12. ~PastN => m = signature.r
  <2>1. SUFFICES ASSUME m < N PROVE m = signature.r
    BY <1>2, <1>9 DEF PastN, m
  <2>2. m \in 0 .. (N - 1)
    BY <1>2, <1>8, <2>1
  <2>3. m % N = m
    BY <1>2, <2>2, ModOfSmall
  <2>4. QED
    BY <1>5, <2>3
<1>13. PICK j \in {nonce, -nonce} : Equation(j)
  BY <1>5
<1>14. j \in Int /\ Element(j).x = m /\ ~Element(j).infinity
  BY <1>4, <1>6, <1>11, <1>13, OppositeElement
<1>15. Element(j).x % N = signature.r
  BY <1>5, <1>14
<1>16. QED
  BY <1>4, <1>5, <1>6, <1>7, <1>10, <1>12, <1>13, <1>14, <1>15

\* A recovery id is tried: signing can only fail past N.
LEMMA TryRecoveryPreserves ==
  ASSUME SignInvariant, TryRecovery
  PROVE  SignInvariant'
<1> DEFINE found == IsSigners(Recovered)
<1>1. /\ SignTypeOK /\ CallIsBegun /\ RIsTheNonces /\ SSolves /\ IdsAreTried
      /\ stage = "recid" /\ key' = key /\ hash' = hash /\ nonce' = nonce /\ public' = public
  BY DEF SignInvariant, TryRecovery
<1>2. signature \in [r : 0 .. (Size - 1), s : 0 .. (Size - 1), v : {0, 1}]
  BY <1>1 DEF SignTypeOK
<1>3. CASE found /\ stage' = "signed" /\ signature' = signature
  <2>1. SignTypeOK' /\ CallIsBegun' /\ RIsTheNonces'
    BY <1>1, <1>3 DEF SignTypeOK, CallIsBegun, RIsTheNonces
  <2>2. SSolves'
    <3>1. Equation(nonce)' = Equation(nonce) /\ Equation(-nonce)' = Equation(-nonce)
      BY <1>1, <1>3 DEF Equation
    <3>2. QED
      BY <1>1, <1>3, <3>1 DEF SSolves
  <2>3. IdsAreTried' /\ RecoveredIsPublic'
    BY <1>1, <1>3 DEF IdsAreTried, RecoveredIsPublic, IsSigners, Recovered
  <2>4. QED
    BY <2>1, <2>2, <2>3 DEF SignInvariant
<1>4. CASE /\ ~found /\ signature.v = 0
           /\ signature' = [signature EXCEPT !.v = 1] /\ stage' = "recid"
  <2>1. /\ signature'.r = signature.r /\ signature'.s = signature.s /\ signature'.v = 1
        /\ signature' \in [r : 0 .. (Size - 1), s : 0 .. (Size - 1), v : {0, 1}]
    BY <1>2, <1>4
  <2>2. SignTypeOK' /\ CallIsBegun' /\ RIsTheNonces'
    BY <1>1, <1>4, <2>1 DEF SignTypeOK, CallIsBegun, RIsTheNonces
  <2>3. SSolves'
    <3>1. Equation(nonce)' = Equation(nonce) /\ Equation(-nonce)' = Equation(-nonce)
      BY <1>1, <2>1 DEF Equation
    <3>2. QED
      BY <1>1, <1>4, <2>1, <3>1 DEF SSolves
  <2>4. IdsAreTried'
    BY <1>1, <1>4, <2>1 DEF IdsAreTried, IsSigners, Recovered
  <2>5. RecoveredIsPublic'
    BY <1>4 DEF RecoveredIsPublic
  <2>6. QED
    BY <2>2, <2>3, <2>4, <2>5 DEF SignInvariant
<1>5. CASE ~found /\ signature.v = 1 /\ stage' = "failed" /\ signature' = NoSignature
  <2>1. PastN
    <3>1. SUFFICES ASSUME ~PastN PROVE FALSE
      OBVIOUS
    <3>2. /\ signature.r \in 1 .. (N - 1) /\ signature.s \in 1 .. (N - 1)
          /\ SignersKey = Element(key) /\ ~Element(key).infinity /\ key \in Int
      BY <1>1, SignedNonce
    <3>3. PICK j \in Int : /\ ~Element(j).infinity /\ Element(j).x = signature.r
                           /\ Equation(j)
      BY <1>1, <3>1, SignedNonce
    <3>4. hash \in 0 .. (Size - 1)
      BY <1>1 DEF SignTypeOK
    <3>5. PICK w \in {0, 1} : Recover(signature.r, signature.s, w, hash) = Element(key)
      BY <3>2, <3>3, <3>4, SignerIsFound DEF Equation
    <3>6. IsSigners(Element(key))
      BY <3>2 DEF IsSigners, SignersKey
    <3>7. w # 1
      BY <1>5, <3>5, <3>6 DEF Recovered
    <3>8. w # 0
      BY <1>1, <1>5, <3>5, <3>6 DEF IdsAreTried
    <3>9. QED
      BY <3>7, <3>8
  <2>2. PastN'
    BY <1>1, <2>1 DEF PastN
  <2>3. SignTypeOK'
    <3>1. 0 \in 0 .. (Size - 1)
      BY ScalarSizes
    <3>2. QED
      BY <1>1, <1>5, <3>1 DEF SignTypeOK, NoSignature
  <2>4. CallIsBegun' /\ RIsTheNonces' /\ SSolves' /\ IdsAreTried' /\ RecoveredIsPublic'
    BY <1>5, <2>2 DEF CallIsBegun, RIsTheNonces, SSolves, IdsAreTried, RecoveredIsPublic
  <2>5. QED
    BY <2>3, <2>4 DEF SignInvariant
<1>6. QED
  BY <1>1, <1>3, <1>4, <1>5 DEF TryRecovery

\* recover is called for a given signature.
LEMMA RecoverSignaturePreserves ==
  ASSUME SignInvariant, NEW a \in GivenR, NEW b \in GivenS, NEW w \in {0, 1}, NEW z \in Hashes,
         RecoverSignature(a, b, w, z)
  PROVE  SignInvariant'
<1>1. a \in 0 .. (Size - 1) /\ b \in 0 .. (Size - 1) /\ z \in 0 .. (Size - 1)
  BY Secp256k1Assumption
<1>2. Recover(a, b, w, z) \in Curve
  BY <1>1, RecoverOnCurve
<1>3. SignTypeOK'
  BY <1>1, <1>2 DEF SignInvariant, SignTypeOK, RecoverSignature
<1>4. CallIsBegun' /\ RIsTheNonces' /\ SSolves' /\ IdsAreTried'
  BY DEF RecoverSignature, CallIsBegun, RIsTheNonces, SSolves, IdsAreTried
<1>5. RecoveredIsPublic'
  BY DEF RecoverSignature, RecoveredIsPublic, Recovered
<1>6. QED
  BY <1>3, <1>4, <1>5 DEF SignInvariant

\* The call returns.
LEMMA ReturnPreserves ==
  ASSUME SignInvariant, Return
  PROVE  SignInvariant'
<1>1. 0 \in 0 .. (N - 1) /\ 0 \in 0 .. (Size - 1)
  BY ScalarSizes
<1>2. SignTypeOK'
  BY <1>1, CurvePoints DEF Return, SignTypeOK, NoSignature
<1>3. CallIsBegun' /\ RIsTheNonces' /\ SSolves' /\ IdsAreTried' /\ RecoveredIsPublic'
  BY DEF Return, NoSignature, CallIsBegun, RIsTheNonces, SSolves, IdsAreTried,
         RecoveredIsPublic
<1>4. QED
  BY <1>2, <1>3 DEF SignInvariant

\* Nothing happens.
LEMMA SignStutterPreserves ==
  ASSUME SignInvariant, UNCHANGED signVars
  PROVE  SignInvariant'
<1>1. /\ stage' = stage /\ key' = key /\ hash' = hash /\ nonce' = nonce
      /\ signature' = signature /\ public' = public
  BY DEF signVars
<1>2. /\ SignTypeOK /\ CallIsBegun /\ RIsTheNonces /\ SSolves /\ IdsAreTried
      /\ RecoveredIsPublic
  BY DEF SignInvariant
<1>3. SignTypeOK' /\ CallIsBegun' /\ RIsTheNonces'
  BY <1>1, <1>2 DEF SignTypeOK, CallIsBegun, RIsTheNonces
<1>4. SSolves'
  <2>1. Equation(nonce)' = Equation(nonce) /\ Equation(-nonce)' = Equation(-nonce)
    BY <1>1 DEF Equation
  <2>2. QED
    BY <1>1, <1>2, <2>1 DEF SSolves
<1>5. IdsAreTried' /\ RecoveredIsPublic'
  <2>1. Recovered' = Recovered /\ PastN' = PastN
    BY <1>1 DEF Recovered, PastN
  <2>2. QED
    BY <1>1, <1>2, <2>1 DEF IdsAreTried, RecoveredIsPublic, IsSigners
<1>6. QED
  BY <1>3, <1>4, <1>5 DEF SignInvariant

-----------------------------------------------------------------------------
(* The theorems of signing *)

\* Every step of signing and recovering keeps the invariant.
THEOREM SigningIsInductive == SignSpec => []SignInvariant
<1>1. SignInit => SignInvariant
  BY SignInitInvariant
<1>2. SignInvariant /\ [SignNext]_signVars => SignInvariant'
  <2> SUFFICES ASSUME SignInvariant, [SignNext]_signVars PROVE SignInvariant'
    OBVIOUS
  <2>1. CASE stage = "idle" /\ \E d \in Keys, z \in Hashes, k \in Nonces : Sign(d, z, k)
    BY <2>1, SignPreserves
  <2>2. CASE TryNonce
    BY <2>2, TryNoncePreserves
  <2>3. CASE ComputeS
    BY <2>3, ComputeSPreserves
  <2>4. CASE TryRecovery
    BY <2>4, TryRecoveryPreserves
  <2>5. CASE \E a \in GivenR, b \in GivenS, w \in {0, 1}, z \in Hashes :
               RecoverSignature(a, b, w, z)
    BY <2>5, RecoverSignaturePreserves
  <2>6. CASE Return
    BY <2>6, ReturnPreserves
  <2>7. CASE UNCHANGED signVars
    BY <2>7, SignStutterPreserves
  <2>8. QED
    BY <2>1, <2>2, <2>3, <2>4, <2>5, <2>6, <2>7 DEF SignNext, Signing
<1>3. QED
  BY <1>1, <1>2, PTL DEF SignSpec

\* The signature that sign returns verifies under the signer's key; and recover
\* returns that key from it, unless the hash is 0 modulo N or the nonce past N.
THEOREM SignaturesRecover == SignSpec => []SignaturesRecoverTheSigner
<1>1. SignInvariant => SignaturesRecoverTheSigner
  <2> SUFFICES ASSUME SignInvariant, stage = "signed"
               PROVE  /\ Verifies(SignersKey, signature.r, signature.s, hash)
                      /\ hash % N # 0 /\ ~PastN => Recovered = SignersKey
    BY DEF SignaturesRecoverTheSigner
  <2>1. /\ signature.r \in 1 .. (N - 1) /\ signature.s \in 1 .. (N - 1)
        /\ SignersKey = Element(key) /\ ~Element(key).infinity /\ key \in Int
    BY SignedNonce
  <2>2. PICK j \in Int : /\ ~Element(j).infinity /\ Element(j).x % N = signature.r
                         /\ ~PastN => Element(j).x = signature.r
                         /\ Equation(j)
    BY SignedNonce
  <2>3. hash \in 0 .. (Size - 1) /\ signature.v \in {0, 1}
    BY DEF SignInvariant, SignTypeOK
  <2>4. Same(j * signature.s, hash + key * signature.r, N)
    BY <2>2 DEF Equation
  <2>5. Verifies(SignersKey, signature.r, signature.s, hash)
    BY <2>1, <2>2, <2>3, <2>4, SolutionVerifies
  <2>6. ASSUME hash % N # 0, ~PastN PROVE Recovered = SignersKey
    <3>1. ~Same(hash, 0, N)
      BY <2>6, ScalarSizes, SmallResidues DEF Same
    <3>2. ~Recovered.infinity /\ Recovered.x = Element(key).x
      BY <2>1 DEF SignInvariant, IdsAreTried, IsSigners, SignersKey
    <3>3. Element(j).x = signature.r
      BY <2>2, <2>6
    <3>4. QED
      BY SMTT(30), <2>1, <2>2, <2>3, <2>4, <3>1, <3>2, <3>3, SignerIsRecovered DEF Recovered
  <2>7. QED
    BY <2>5, <2>6
<1>2. QED
  BY <1>1, SigningIsInductive, PTL

\* Signing fails only for a nonce whose point has an x past N.
THEOREM FailuresArePastN == SignSpec => []FailsOnlyPastN
<1>1. SignInvariant => FailsOnlyPastN
  BY DEF SignInvariant, IdsAreTried, FailsOnlyPastN
<1>2. QED
  BY <1>1, SigningIsInductive, PTL

\* A key that recover returns for a valid signature verifies it.
THEOREM RecoveredKeys == SignSpec => []RecoveredKeysVerify
<1>1. SignInvariant => RecoveredKeysVerify
  <2> SUFFICES ASSUME SignInvariant, stage = "recovered", ~public.infinity,
                      IsValid(signature.r, signature.s)
               PROVE  Verifies(public, signature.r, signature.s, hash)
    BY DEF RecoveredKeysVerify
  <2>1. public = Recover(signature.r, signature.s, signature.v, hash)
    BY DEF SignInvariant, RecoveredIsPublic, Recovered
  <2>2. /\ signature.r \in 0 .. (Size - 1) /\ signature.s \in 0 .. (Size - 1)
        /\ signature.v \in {0, 1} /\ hash \in 0 .. (Size - 1)
    BY DEF SignInvariant, SignTypeOK
  <2>3. QED
    BY <2>1, <2>2, RecoveredVerifies
<1>2. QED
  BY <1>1, SigningIsInductive, PTL

===============================================================================

--------------------------- MODULE FieldArithmetic ---------------------------
(***************************************************************************)
(* The field of secp256k1 as Secp256k1Field computes in it: on limbs, with *)
(* carries, borrows and wrapped differences, and with 2^256 folded to the  *)
(* small number that is left of it modulo P.  TLC uses a few small limbs   *)
(* in place of four of 64 bits, and a small Fold in place of 0x1000003d1.  *)
(*                                                                         *)
(* The state is the last operation, as a calculator shows it: each one     *)
(* goes on from the result of the one before, as the group law does.       *)
(***************************************************************************)
EXTENDS Naturals, Functions

CONSTANTS
  Base,    \* number of values of a limb
  Limbs,   \* limbs of a number
  Fold     \* P is this much below Base^Limbs

\* What a limb counts for, Base^i.
Weight[i \in Nat] == IF i = 0 THEN 1 ELSE Base * Weight[i - 1]

Size == Weight[Limbs]     \* 2^256
P    == Size - Fold       \* SECP256K1_CURVE_P

ASSUME FieldAssumption ==
  /\ Base \in Nat \ {0, 1, 2} /\ Limbs \in Nat \ {0, 1}
  /\ Fold \in 1 .. (Base - 1)
  /\ \A d \in 2 .. (P - 1) : P % d # 0

VARIABLES op, lhs, rhs, result   \* result = lhs op rhs

fieldVars == <<op, lhs, rhs, result>>

Number == [1 .. Limbs -> 0 .. (Base - 1)]

Value(x)   == SumFunction([i \in 1 .. Limbs |-> x[i] * Weight[i - 1]])
LimbsOf(v) == [i \in 1 .. Limbs |-> (v \div Weight[i - 1]) % Base]

FieldTypeOK ==
  /\ op \in {"none", "+", "-", "*", "* int", "/", "negated"}
  /\ {lhs, rhs, result} \subseteq Number

-----------------------------------------------------------------------------
(* Sums and differences.  A limb's sum or difference wraps. *)

\* Mutant of Wrap: limbs that do not wrap.
WrapNever(v) == v
Wrap(v) == v % Base

AddRaw(x, y) ==
  LET Sum(i, c) == Wrap(x[i] + y[i] + c)
      carry[i \in 0 .. Limbs] ==
        IF i > 0 /\ LET sum == Sum(i, carry[i - 1])
                    IN  sum < x[i] \/ (carry[i - 1] = 1 /\ sum = x[i])
        THEN 1 ELSE 0
  IN  [limbs |-> [i \in 1 .. Limbs |-> Sum(i, carry[i - 1])], carry |-> carry[Limbs]]

\* Differences under a given rule for the borrow out of limb i.
Differences(x, y, Borrows(_, _)) ==
  LET borrow[i \in 0 .. Limbs] ==
        IF i > 0 /\ Borrows(i, borrow[i - 1]) THEN 1 ELSE 0
  IN  [limbs  |-> [i \in 1 .. Limbs |-> Wrap(x[i] + Base - y[i] - borrow[i - 1])],
       borrow |-> borrow[Limbs]]

SubRaw(x, y) ==
  Differences(x, y, LAMBDA i, b : x[i] < y[i] \/ (b = 1 /\ x[i] = y[i]))

\* Mutant of Plus: a carry out of the top limb is dropped.
PlusWithoutCarry(x, y) ==
  LET sum == AddRaw(x, y)
  IN  IF Value(sum.limbs) >= P THEN SubRaw(sum.limbs, LimbsOf(P)).limbs ELSE sum.limbs

Plus(x, y) ==
  LET sum == AddRaw(x, y)
  IN  IF sum.carry # 0 \/ Value(sum.limbs) >= P THEN SubRaw(sum.limbs, LimbsOf(P)).limbs
      ELSE sum.limbs

\* operator- has a rule of its own: y[i] plus the borrow may wrap to zero.
Minus(x, y) ==
  LET difference == Differences(x, y, LAMBDA i, b : x[i] < Wrap(y[i] + b))
  IN  IF difference.borrow # 0 THEN AddRaw(difference.limbs, LimbsOf(P)).limbs
      ELSE difference.limbs

\* A difference for which the rule loses a borrow.
LosesBorrow(x, y) ==
  \E i \in 2 .. Limbs :
    /\ y[i] = Base - 1
    /\ Value(x) % Weight[i - 1] < Value(y) % Weight[i - 1]

\* A number below 2^256 becomes a field element.
Reduced(v) == IF v >= P THEN v - P ELSE v

Negated(x) == LimbsOf(Reduced((P + Size - Value(x)) % Size))

-----------------------------------------------------------------------------
(* Products: schoolbook, then folding (modReduce256k1FromParts) *)

\* Adds a carry at the second limb and passes it up.
Ripple(x, carry) ==
  LET c[i \in 1 .. Limbs] ==
        IF i = 1 THEN carry
        ELSE IF Wrap(x[i] + c[i - 1]) <= x[i] /\ c[i - 1] # 0 THEN 1 ELSE 0
  IN  [limbs |-> [i \in 1 .. Limbs |-> IF i = 1 THEN x[1] ELSE Wrap(x[i] + c[i - 1])],
       carry |-> c[Limbs]]

\* A limb above the others, times Fold, until none is left.
FoldLimb[s \in Number \X Nat] ==
  LET low     == s[1]
      sum     == s[2] * Fold + low[1]
      rippled == Ripple([low EXCEPT ![1] = sum % Base], sum \div Base)
  IN  IF s[2] = 0 THEN LimbsOf(Reduced(Value(low)))
      ELSE FoldLimb[<<rippled.limbs, rippled.carry>>]

\* Mutant of FoldHalf: what the first folding leaves is not folded again.
FoldHalfOnce(low, high) ==
  LET Sum(i, c) == high[i] * Fold + c + low[i]
      carry[i \in 0 .. Limbs] == IF i = 0 THEN 0 ELSE Sum(i, carry[i - 1]) \div Base
  IN  [i \in 1 .. Limbs |-> Sum(i, carry[i - 1]) % Base]

\* The upper half of a product, folded limb by limb.
FoldHalf(low, high) ==
  LET Sum(i, c) == high[i] * Fold + c + low[i]
      carry[i \in 0 .. Limbs] == IF i = 0 THEN 0 ELSE Sum(i, carry[i - 1]) \div Base
  IN  FoldLimb[<<[i \in 1 .. Limbs |-> Sum(i, carry[i - 1]) % Base], carry[Limbs]>>]

\* The rows of the schoolbook product; a row's last carry is its own limb.
Product(x, y) ==
  LET Row(wide, i) ==
        LET Sum(j, c) == x[i] * y[j] + wide[i + j - 1] + c
            carry[j \in 0 .. Limbs] == IF j = 0 THEN 0 ELSE Sum(j, carry[j - 1]) \div Base
        IN  [k \in 1 .. 2 * Limbs |->
               IF k \in i .. (i + Limbs - 1) THEN Sum(k - i + 1, carry[k - i]) % Base
               ELSE IF k = i + Limbs /\ carry[Limbs] # 0 THEN carry[Limbs]
               ELSE wide[k]]
      rows[i \in 0 .. Limbs] == IF i = 0 THEN [k \in 1 .. 2 * Limbs |-> 0] ELSE Row(rows[i - 1], i)
  IN  rows[Limbs]

Times(x, y) ==
  LET wide == Product(x, y)
  IN  FoldHalf([i \in 1 .. Limbs |-> wide[i]], [i \in 1 .. Limbs |-> wide[i + Limbs]])

TimesInt(x, n) ==
  LET Sum(i, c) == x[i] * n + c
      carry[i \in 0 .. Limbs] == IF i = 0 THEN 0 ELSE Sum(i, carry[i - 1]) \div Base
  IN  FoldLimb[<<[i \in 1 .. Limbs |-> Sum(i, carry[i - 1]) % Base], carry[Limbs]>>]

-----------------------------------------------------------------------------
(* Quotients: Euclid's algorithm with coefficients that wrap at 2^256 *)

\* Mutant of Corrected: the coefficient is taken as it is.
CorrectedNever(t, m) == t

\* A coefficient with the top bit set stands for a negative one.
Corrected(t, m) == IF 2 * t >= Size THEN (t + m) % Size ELSE t

FixedWidth == 0 .. (Size - 1)   \* UnsignedFixedWidthBigInt

EuclidStates == [rOld : FixedWidth, r : FixedWidth, tOld : FixedWidth, t : FixedWidth]

\* The greatest common divisor, and the coefficient of r that gives it.
Euclid[s \in EuclidStates] ==
  LET q == s.rOld \div s.r
  IN  IF s.r = 0 THEN [gcd |-> s.rOld, coefficient |-> s.tOld]
      ELSE Euclid[[rOld |-> s.r, r |-> s.rOld - q * s.r,
                   tOld |-> s.t, t |-> (s.tOld + (Size - ((q * s.t) % Size))) % Size]]

\* The inverse of v modulo m, and 0 if there is none.
ModInverse(v, m) ==
  LET last == Euclid[[rOld |-> m, r |-> v, tOld |-> 0, t |-> 1]]
  IN  IF last.gcd = 1 THEN Corrected(last.coefficient, m) ELSE 0

Quotient(x, y) == Times(x, LimbsOf(Reduced(ModInverse(Reduced(Value(y)), P))))

-----------------------------------------------------------------------------

FieldInit ==
  /\ op = "none"
  /\ lhs = LimbsOf(0)
  /\ rhs = LimbsOf(0)
  /\ result = LimbsOf(0)

Show(o, y, r) ==
  /\ op' = o /\ lhs' = result /\ rhs' = y /\ result' = r

\* Only the result of an operation goes into the next one.
Keep ==
  /\ op # "none"
  /\ op' = "none" /\ lhs' = LimbsOf(0) /\ rhs' = LimbsOf(0)
  /\ UNCHANGED result

Add(y)         == Show("+", y, Plus(result, y))
Subtract(y)    == Show("-", y, Minus(result, y))
Multiply(y)    == Show("*", y, Times(result, y))
MultiplyInt(n) == Show("* int", LimbsOf(n), TimesInt(result, n))
Divide(y)      == Show("/", y, Quotient(result, y))
Negate         == Show("negated", result, Negated(result))

FieldNext ==
  \/ /\ op = "none"
     /\ \/ \E w \in 0 .. (P - 1) :
             \E y \in {LimbsOf(w)} : Add(y) \/ Subtract(y) \/ Multiply(y) \/ Divide(y)
        \/ \E n \in {2, 3} : MultiplyInt(n)
        \/ Negate
  \/ Keep

FieldSpec == FieldInit /\ [][FieldNext]_fieldVars

-----------------------------------------------------------------------------
(* Properties *)

\* What the last operation should be, modulo P.
Exact ==
  LET x == Value(lhs) % P
      y == Value(rhs) % P
      z == Value(result) % P
  IN  CASE op = "none"         -> TRUE
        [] op = "+"            -> z = (x + y) % P
        [] op = "-"            -> z = (x + P - y) % P
        [] op \in {"*", "* int"} -> z = (x * y) % P
        [] op = "/"            -> IF y = 0 THEN z = 0 ELSE (z * y) % P = x
        [] op = "negated"      -> (x + z) % P = 0

\* Every operation is right modulo P, also on the numbers past P that earlier
\* ones left behind, but for differences that lose a borrow and the negation of
\* a number past P (Secp256k1Field's operators, with all carries, wraps and
\* foldings, and operator- of Secp256k1Group).
FieldOperationsAreExact ==
  \/ Exact
  \/ op = "-" /\ LosesBorrow(lhs, rhs)
  \/ op = "negated" /\ Value(lhs) > P

\* Products and quotients are field elements below P, whatever numbers they are
\* made from: a few rounds of folding and one subtraction are enough.
ProductsAreReduced == op \in {"*", "* int", "/"} => Value(result) < P
=============================================================================

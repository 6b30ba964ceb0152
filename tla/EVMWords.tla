-------------------------------- MODULE EVMWords --------------------------------
(***************************************************************************)
(* The words of the interpreter and the instructions that compute with     *)
(* them.  A word is WordBytes bytes, 32 in the code.  Quotients, signed    *)
(* comparisons and bitwise operations are uint256_t's, from komozoilib.    *)
(***************************************************************************)
EXTENDS Integers, Sequences, SequencesExt, FiniteSetsExt

CONSTANT WordBytes   \* bytes in a word

ASSUME WordAssumption == WordBytes \in Nat \ {0}

WordBits == 8 * WordBytes
WordMod  == 2 ^ WordBits
Word     == 0 .. (WordMod - 1)
Byte     == 0 .. 255

Flag(condition) == IF condition THEN 1 ELSE 0

Lesser(x, y) == IF x < y THEN x ELSE y

\* uint256_t::toBytes and its constructor from bytes, most significant first.
BytesOf(w) == [i \in 1 .. WordBytes |-> (w \div 2 ^ (8 * (WordBytes - i))) % 256]
WordOf(bytes) == FoldLeft(LAMBDA w, b : 256 * w + b, 0, bytes)

Zeros(n) == [i \in 1 .. n |-> 0]

-----------------------------------------------------------------------------
(* uint256_t *)

Signed(a) == IF a >= WordMod \div 2 THEN a - WordMod ELSE a

Magnitude(a) == IF Signed(a) < 0 THEN -Signed(a) ELSE Signed(a)

Div(a, b) == IF b = 0 THEN 0 ELSE a \div b
Mod(a, b) == IF b = 0 THEN 0 ELSE a % b

SDiv(a, b) ==
  LET q == Div(Magnitude(a), Magnitude(b))
  IN  (IF (Signed(a) < 0) # (Signed(b) < 0) THEN -q ELSE q) % WordMod

SMod(a, b) ==
  LET r == Mod(Magnitude(a), Magnitude(b))
  IN  (IF Signed(a) < 0 THEN -r ELSE r) % WordMod

\* The product, in two parts because TLC's integers have 32 bits.
Times(x, y) ==
  (((x * (y \div 256)) % WordMod) * 256 + x * (y % 256)) % WordMod

Bit(a, i) == (a \div 2 ^ i) % 2

And(a, b) ==
  LET bits == 0 .. (WordBits - 1)
  IN  SumFunctionOnSet([i \in bits |-> 2 ^ i * Bit(a, i) * Bit(b, i)], bits)
Or(a, b)  == a + b - And(a, b)
Xor(a, b) == a + b - 2 * And(a, b)

\* Towards minus infinity, as an arithmetic shift rounds.
ShiftedSigned(a, n) == (Signed(a) \div 2 ^ n) % WordMod

-----------------------------------------------------------------------------
(* Instructions with loops or byte positions of their own.  The operand    *)
(* named first is the one on top of the stack, unless said otherwise.      *)

\* EXP halves an even exponent and squares the base; a word can be halved fewer
\* than WordBits times...
Halved(p) == IF p[1] = 0 \/ p[1] % 2 = 1 THEN p ELSE <<p[1] \div 2, Times(p[2], p[2])>>

SquaredOut(exponent, b) ==
  LET after[k \in Nat] == IF k = 0 THEN <<exponent, b>> ELSE Halved(after[k - 1])
  IN  after[WordBits]

\* ... and multiplies once per unit of what is left.
Exp(b, exponent) ==
  LET left == SquaredOut(exponent, b)
      product[k \in Nat] == IF k = 0 THEN 1 ELSE Times(product[k - 1], left[2])
  IN  product[left[1]]

\* Mutant of SignExtend: the sign is read off the byte above.
SignExtendNextByte(a, b) ==
  LET idx == 8 * a + 7
  IN  IF a >= WordBytes THEN b
      ELSE (IF Bit(b, idx + 8) = 1 THEN WordMod - 2 ^ idx ELSE 0) + (b % 2 ^ idx)

\* Bits from the sign up are the sign's, those below are kept.
SignExtend(a, b) ==
  LET idx == 8 * a + 7
  IN  IF a >= WordBytes THEN b
      ELSE (IF Bit(b, idx) = 1 THEN WordMod - 2 ^ idx ELSE 0) + (b % 2 ^ idx)

\* rawBytes[i], least significant first.
RawByte(a, i) == (a \div 2 ^ (8 * i)) % 256

ByteAt(b, a) == IF b >= WordBytes THEN 0 ELSE RawByte(a, WordBytes - 1 - b)

Shl(b, a) == IF b >= WordBits THEN 0 ELSE (a * 2 ^ (b % 256)) % WordMod
Shr(b, a) == IF b >= WordBits THEN 0 ELSE a \div 2 ^ (b % 256)

Sar(b, a) ==
  IF b >= WordBits THEN (-(RawByte(a, WordBytes - 1) \div 128)) % WordMod
  ELSE ShiftedSigned(a, b % 256)

-----------------------------------------------------------------------------
(* Opcodes 0x01 to 0x0B, and 0x10 to 0x1D *)

ArithmeticOps == 1 .. 11
LogicOps      == 16 .. 29
WordOps       == ArithmeticOps \cup LogicOps

Arity(op) == IF op \in {21, 25} THEN 1 ELSE IF op \in {8, 9} THEN 3 ELSE 2

\* x is on top of the stack, y below it, z below that.
ArithmeticResult(op, x, y, z) ==
  CASE op = 1  -> (x + y) % WordMod
    [] op = 2  -> Times(x, y)
    [] op = 3  -> (x - y) % WordMod
    [] op = 4  -> Div(x, y)
    [] op = 5  -> SDiv(x, y)
    [] op = 6  -> Mod(x, y)
    [] op = 7  -> SMod(x, y)
    [] op = 8  -> Mod(x + y, z)
    [] op = 9  -> Mod(x * y, z)
    [] op = 10 -> Exp(x, y)
    [] op = 11 -> SignExtend(x, y)

LogicResult(op, x, y) ==
  CASE op = 16 -> Flag(x < y)
    [] op = 17 -> Flag(x > y)
    [] op = 18 -> Flag(Signed(x) < Signed(y))
    [] op = 19 -> Flag(Signed(y) < Signed(x))
    [] op = 20 -> Flag(x = y)
    [] op = 21 -> Flag(x = 0)
    [] op = 22 -> And(x, y)
    [] op = 23 -> Or(x, y)
    [] op = 24 -> Xor(x, y)
    [] op = 25 -> WordMod - 1 - x
    [] op = 26 -> ByteAt(x, y)
    [] op = 27 -> Shl(x, y)
    [] op = 28 -> Shr(x, y)
    [] op = 29 -> Sar(x, y)

-----------------------------------------------------------------------------
(* What the instructions with loops or byte positions should yield, by     *)
(* arithmetic on integers *)

Power(b, n) ==
  LET power[k \in Nat] == IF k = 0 THEN 1 ELSE Times(b, power[k - 1])
  IN  power[n]

SignOfLowBytes(n, b) ==
  LET size == 2 ^ (8 * n)
      low  == b % size
  IN  (IF 2 * low >= size THEN low - size ELSE low) % WordMod

Scaled(a, n) == IF n >= WordBits THEN 0 ELSE (a * 2 ^ n) % WordMod

FloorOf(a, n) ==
  IF n >= WordBits THEN IF a < 0 THEN -1 ELSE 0 ELSE a \div 2 ^ n

Meaning(op, x, y) ==
  CASE op = 10 -> Power(x, y)
    [] op = 11 -> IF x >= WordBytes THEN y ELSE SignOfLowBytes(x + 1, y)
    [] op = 26 -> IF x >= WordBytes THEN 0 ELSE BytesOf(y)[x + 1]
    [] op = 27 -> Scaled(y, x)
    [] op = 28 -> FloorOf(y, x)
    [] op = 29 -> FloorOf(Signed(y), x) % WordMod
=============================================================================
